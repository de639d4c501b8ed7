---------------------------- MODULE SecretsRotator ----------------------------
(***************************************************************************)
(* SecretsRotator of secrets_rotator.py: threads that rotate, fall back,   *)
(* revoke and reseed an API credential while requests signed with it are   *)
(* in flight.  The candidate is probed without the lock; everything else   *)
(* runs under it and is one step.                                          *)
(*                                                                         *)
(* Credentials are numbered as their objects are created.  The rotation    *)
(* state and the history are only reported and left out.                   *)
(***************************************************************************)
EXTENDS Integers, FiniteSets

CONSTANTS
  Rotators,         \* threads that call rotate
  Signers,          \* threads that sign requests
  FreshKeys,        \* does every credential object come with a key id of its own?
  MaxCredentials    \* bound: credential objects

ASSUME RotatorAssumption == FreshKeys \in BOOLEAN /\ MaxCredentials \in Nat \ {0}

VARIABLES
  sr,          \* active_credential, previous_credential, _rotating, whether the
               \* overlap window is open, and whether a revoke_fn is configured
  rotation,    \* each rotate call: its step, candidate, outgoing and force
  lease,       \* the credential each request was signed with, 0 for none
  keyOf,       \* the key id of each credential object
  venueKeys,   \* external: the key ids the venue accepts
  activated,   \* observer: credentials that have been active
  abandoned,   \* observer: credentials given up on purpose while the venue accepts them
  cut          \* observer: credentials revoked by force, or whose revocation raised

srVars == <<sr, rotation, lease, keyOf, venueKeys, activated, abandoned, cut>>

NoRotation == [pc |-> "idle", new |-> 0, old |-> 0, force |-> FALSE]

\* set_initial_credential has been called once.
SrInit ==
  /\ \E revokeFn \in BOOLEAN :
       sr = [active |-> 1, previous |-> 0, rotating |-> FALSE, overlap |-> FALSE,
             revokeFn |-> revokeFn]
  /\ rotation = [t \in Rotators |-> NoRotation]
  /\ lease = [r \in Signers |-> 0]
  /\ keyOf = [c \in {1} |-> 1]
  /\ venueKeys = {1}
  /\ activated = {1} /\ abandoned = {} /\ cut = {}

Credentials == DOMAIN keyOf
Newest == Cardinality(Credentials)

\* A new credential object: with a new key, which the venue may or may not accept,
\* or with the key id of an earlier one.
NewCredential(key, accepted) ==
  /\ Newest < MaxCredentials
  /\ key = Newest + 1 \/ (~FreshKeys /\ key \in {keyOf[c] : c \in Credentials})
  /\ key \in {keyOf[c] : c \in Credentials} => ~accepted
  /\ keyOf' = [c \in 1..(Newest + 1) |-> IF c = Newest + 1 THEN key ELSE keyOf[c]]
  /\ venueKeys' = IF accepted THEN venueKeys \cup {key} ELSE venueKeys

-----------------------------------------------------------------------------
\* use: the active credential is leased for one request, and given back.
BeginRequest(r) ==
  /\ lease[r] = 0
  /\ lease' = [lease EXCEPT ![r] = sr.active]
  /\ UNCHANGED <<sr, rotation, keyOf, venueKeys, activated, abandoned, cut>>

EndRequest(r) ==
  /\ lease[r] # 0
  /\ lease' = [lease EXCEPT ![r] = 0]
  /\ UNCHANGED <<sr, rotation, keyOf, venueKeys, activated, abandoned, cut>>

\* set_initial_credential, called again with a credential that works: refused while a
\* previous one waits.
Reseed(key) ==
  /\ sr.previous = 0
  /\ NewCredential(key, key \notin {keyOf[c] : c \in Credentials})
  /\ key \in venueKeys'
  /\ abandoned' = abandoned \cup {sr.active}
  /\ activated' = activated \cup {Newest + 1}
  /\ sr' = [sr EXCEPT !.active = Newest + 1, !.overlap = FALSE]
  /\ UNCHANGED <<rotation, lease, cut>>

\* rotate: the call that gets past the guards goes on to probe the candidate.
Rotate(t, force, key, accepted) ==
  /\ rotation[t].pc = "idle"
  /\ ~sr.rotating
  /\ key # keyOf[sr.active]
  /\ sr.previous = 0 \/ force
  /\ NewCredential(key, accepted)
  /\ sr' = [sr EXCEPT !.rotating = TRUE]
  /\ rotation' = [rotation EXCEPT ![t] = [pc |-> "probe", new |-> Newest + 1, old |-> sr.active,
                                          force |-> force]]
  /\ UNCHANGED <<lease, activated, abandoned, cut>>

\* validate_fn, without the lock: approval proves that the venue accepts the key; a
\* refusal, an exception or a timeout leave the active credential in place.
ValidateCandidate(t) ==
  /\ rotation[t].pc = "probe"
  /\ \/ /\ keyOf[rotation[t].new] \in venueKeys
        /\ rotation' = [rotation EXCEPT ![t].pc = "approved"]
     \/ rotation' = [rotation EXCEPT ![t].pc = "end"]
  /\ UNCHANGED <<sr, lease, keyOf, venueKeys, activated, abandoned, cut>>

\* Mutant: the outgoing credential is the one that was active before the probe.
PublishStale(t) ==
  LET n == rotation[t]
  IN
  /\ n.pc = "approved"
  /\ rotation' = [rotation EXCEPT ![t].pc = "end"]
  /\ sr' = [sr EXCEPT !.previous = n.old, !.active = n.new, !.overlap = TRUE]
  /\ activated' = activated \cup {n.new}
  /\ abandoned' = IF n.force /\ sr.previous # 0 THEN abandoned \cup {sr.previous} ELSE abandoned
  /\ UNCHANGED <<lease, keyOf, venueKeys, cut>>

\* _validate_and_publish, under the lock again: aborted when a fallback or a reseed
\* came in between, or when on_activate raises.
PublishCandidate(t) ==
  LET n == rotation[t]
  IN
  /\ n.pc = "approved"
  /\ rotation' = [rotation EXCEPT ![t].pc = "end"]
  /\ \/ /\ sr.active = n.old
        /\ sr' = [sr EXCEPT !.previous = n.old, !.active = n.new, !.overlap = TRUE]
        /\ activated' = activated \cup {n.new}
        /\ abandoned' = IF n.force /\ sr.previous # 0 THEN abandoned \cup {sr.previous} ELSE abandoned
     \/ UNCHANGED <<sr, activated, abandoned>>
  /\ UNCHANGED <<lease, keyOf, venueKeys, cut>>

\* The finally clause of rotate.
EndRotate(t) ==
  /\ rotation[t].pc = "end"
  /\ rotation' = [rotation EXCEPT ![t] = NoRotation]
  /\ sr' = [sr EXCEPT !.rotating = FALSE]
  /\ UNCHANGED <<lease, keyOf, venueKeys, activated, abandoned, cut>>

\* fallback_to_previous, whatever on_activate says; the failing key stays live.
FallbackToPrevious ==
  /\ sr.previous # 0
  /\ sr' = [sr EXCEPT !.active = sr.previous, !.previous = 0, !.overlap = FALSE]
  /\ abandoned' = abandoned \cup {sr.active}
  /\ UNCHANGED <<rotation, lease, keyOf, venueKeys, activated, cut>>

-----------------------------------------------------------------------------
Leased(c) == \E r \in Signers : lease[r] = c

\* The gate of revoke_previous; drain_previous waits for its first part.
MayRevoke == ~Leased(sr.previous) /\ ~sr.overlap

\* revoke_previous calls revoke_fn under the lock.  Returning means that the venue
\* confirmed; a call that raises may have taken effect all the same.
RevokePrevious(force, raises, effective) ==
  LET key == keyOf[sr.previous]
  IN
  /\ sr.previous # 0 /\ sr.revokeFn
  /\ force \/ MayRevoke
  /\ effective \/ raises
  /\ venueKeys' = IF effective THEN venueKeys \ {key} ELSE venueKeys
  /\ sr' = IF raises THEN sr ELSE [sr EXCEPT !.previous = 0, !.overlap = FALSE]
  /\ cut' = IF force \/ raises THEN cut \cup {sr.previous} ELSE cut
  /\ UNCHANGED <<rotation, lease, keyOf, activated, abandoned>>

\* revoke_previous without a revoke_fn forgets the credential and says so.
ForgetPrevious(force) ==
  /\ sr.previous # 0 /\ ~sr.revokeFn
  /\ force \/ MayRevoke
  /\ sr' = [sr EXCEPT !.previous = 0, !.overlap = FALSE]
  /\ abandoned' = abandoned \cup {sr.previous}
  /\ UNCHANGED <<rotation, lease, keyOf, venueKeys, activated, cut>>

\* min_overlap_seconds have passed since the swap.
OverlapEnds ==
  /\ sr.overlap
  /\ sr' = [sr EXCEPT !.overlap = FALSE]
  /\ UNCHANGED <<rotation, lease, keyOf, venueKeys, activated, abandoned, cut>>

SrNext ==
  \/ \E r \in Signers : BeginRequest(r) \/ EndRequest(r)
  \/ \E key \in 1..MaxCredentials : Reseed(key)
  \/ \E t \in Rotators :
       \/ \E force, accepted \in BOOLEAN, key \in 1..MaxCredentials : Rotate(t, force, key, accepted)
       \/ ValidateCandidate(t) \/ PublishCandidate(t) \/ EndRotate(t)
  \/ FallbackToPrevious
  \/ \E force, raises, effective \in BOOLEAN : RevokePrevious(force, raises, effective)
  \/ \E force \in BOOLEAN : ForgetPrevious(force)
  \/ OverlapEnds

SrSpec == SrInit /\ [][SrNext]_srVars

-----------------------------------------------------------------------------
SrTypeOK ==
  /\ sr \in [active : Credentials, previous : Credentials \cup {0}, rotating : BOOLEAN,
             overlap : BOOLEAN, revokeFn : BOOLEAN]
  /\ \A t \in Rotators :
       rotation[t] \in [pc : {"idle", "probe", "approved", "end"}, new : 0..MaxCredentials,
                        old : 0..MaxCredentials, force : BOOLEAN]
  /\ lease \in [Signers -> 0..MaxCredentials]
  /\ keyOf \in [1..Newest -> 1..MaxCredentials]
  /\ venueKeys \subseteq 1..MaxCredentials
  /\ activated \subseteq Credentials /\ abandoned \subseteq activated /\ cut \subseteq activated

\* However rotations, fallbacks, revocations and reseeds interleave, no credential the
\* rotator once published is live at the venue and forgotten, unless the operator gave
\* it up (abandoned); and the venue accepts the active credential and every credential a
\* request was signed with, unless it was revoked by force or its revocation raised.
SecretsAreTracked ==
  /\ \A c \in activated :
       keyOf[c] \in venueKeys => c \in {sr.active, sr.previous} \cup abandoned
  /\ \A c \in {sr.active} \cup {lease[r] : r \in Signers} :
       c # 0 => keyOf[c] \in venueKeys \/ \E d \in cut : keyOf[d] = keyOf[c]
=============================================================================
