--------------------------- MODULE CredentialProofs ---------------------------
(***************************************************************************)
(* Proofs about the two components that keep the bot's credentials:        *)
(* TokenProbe, whose callers interleave without a lock, and SecretsRotator,*)
(* which probes a candidate without its lock while other threads rotate,   *)
(* fall back, revoke and reseed.                                           *)
(***************************************************************************)
EXTENDS TokenProbe, SecretsRotator, FiniteSetTheorems, TLAPS

\* The type of a caller of the probe manager.
UserType == [pc : {"idle", "probe", "login"}, token : Nat, attempts : 0..MaxAttempts,
             fresh : BOOLEAN,
             end : {"none", "returned", "ambiguous", "verification error"}]

\* What a caller knows in the middle of its call: it has seen the token that is
\* live now, and its cached token dead if that is another one.
CallerInv ==
  \A u \in Users :
    /\ user[u].token <= issued
    /\ user[u].pc = "probe" => user[u].token # 0
    /\ user[u].pc # "idle" => /\ user[u].end = "none" /\ live \in wasLive[u]
                              /\ ~user[u].fresh /\ user[u].token # live => wasDead[u]

TokenInv ==
  /\ TokenTypeOK /\ issued \in Nat /\ uses \in Nat
  /\ wasLive \in [Users -> SUBSET Nat] /\ wasDead \in [Users -> BOOLEAN]
  /\ CallerInv /\ TokenVerdictsAreTrue

-----------------------------------------------------------------------------
\* The tokens issued so far are an interval.
LEMMA InInterval == \A n, m \in Nat : n <= m => n \in 0..m
OBVIOUS

\* Ending a call with a verdict that is true keeps the invariant.
LEMMA EndUseKeeps ==
  ASSUME TokenInv, NEW u \in Users, user[u].pc # "idle",
         NEW how \in {"returned", "ambiguous", "verification error"},
         how = "returned" => user[u].token = live /\ live # 0,
         EndUse(u, how), UNCHANGED <<issued, live, uses, wasLive, wasDead>>
  PROVE  TokenInv'
<1>a. user \in [Users -> UserType] /\ stored \in 0..issued /\ live \in 0..issued
  BY DEF TokenInv, TokenTypeOK, UserType
<1> DEFINE new == [user[u] EXCEPT !.pc = "idle", !.end = how]
<1>1. /\ user' = [user EXCEPT ![u] = new]
      /\ stored' = IF user[u].fresh THEN user[u].token ELSE stored
  BY DEF EndUse
<1>0. user[u] \in UserType
  BY <1>a
<1>2. new \in UserType /\ new.pc = "idle" /\ new.end = how /\ new.token = user[u].token
  BY <1>0 DEF UserType
<1> HIDE DEF new
<1>3. /\ user' \in [Users -> UserType] /\ user'[u] = new
      /\ \A v \in Users : v # u => user'[v] = user[v]
  BY <1>a, <1>1, <1>2
<1>4. user'[u].pc = "idle" /\ user'[u].end = how /\ user'[u].token = user[u].token
  BY <1>2, <1>3
<1>c. CallerInv /\ TokenVerdictsAreTrue /\ issued \in Nat
  BY DEF TokenInv
<1>5. stored' \in 0..issued
  <2>1. user[u].token \in Nat /\ user[u].token <= issued
    BY <1>a, <1>c DEF CallerInv, UserType
  <2>2. user[u].token \in 0..issued
    BY <1>c, <2>1, InInterval, Zenon
  <2>3. stored' = user[u].token \/ stored' = stored
    BY <1>1, Zenon
  <2> QED
    BY <1>a, <2>2, <2>3
<1>6. CallerInv'
  <2>1. UNCHANGED <<issued, live, wasLive, wasDead>>
    OBVIOUS
  <2>2. user'[u].token <= issued /\ user'[u].pc # "probe"
    BY <1>c, <1>4 DEF CallerInv
  <2> QED
    BY <1>c, <1>3, <1>4, <2>1, <2>2, Zenon DEF CallerInv
<1>7. TokenVerdictsAreTrue'
  <2>1. how = "returned" => user[u].token \in wasLive[u] \ {0}
    BY <1>c DEF CallerInv
  <2>2. user'[u].pc # "login"
    BY <1>4
  <2>3. UNCHANGED <<wasLive, wasDead>>
    OBVIOUS
  <2> QED
    BY <1>c, <1>3, <1>4, <2>1, <2>2, <2>3, Zenon DEF TokenVerdictsAreTrue
<1> QED
  BY <1>a, <1>3, <1>5, <1>6, <1>7 DEF TokenInv, TokenTypeOK, UserType

\* A change of the live token that every caller in a call takes note of.
LEMMA SeenKeeps ==
  ASSUME TokenInv, NEW t \in Nat, SeenWith(t)
  PROVE  /\ wasLive' \in [Users -> SUBSET Nat] /\ wasDead' \in [Users -> BOOLEAN]
         /\ \A u \in Users :
              /\ wasLive[u] \subseteq wasLive'[u] /\ (wasDead[u] => wasDead'[u])
              /\ user[u].pc # "idle" => /\ t \in wasLive'[u]
                                        /\ ~user[u].fresh /\ user[u].token # t => wasDead'[u]
<1>1. /\ wasLive \in [Users -> SUBSET Nat] /\ wasDead \in [Users -> BOOLEAN]
      /\ wasLive' = [u \in Users |-> IF user[u].pc = "idle" THEN wasLive[u]
                                     ELSE wasLive[u] \cup {t}]
      /\ wasDead' = [u \in Users |-> wasDead[u] \/ (user[u].pc # "idle" /\ ~user[u].fresh
                                                   /\ user[u].token # t)]
  BY DEF TokenInv, SeenWith
<1>2. wasLive' \in [Users -> SUBSET Nat]
  BY <1>1
<1>3. wasDead' \in [Users -> BOOLEAN]
  BY <1>1
<1> QED
  BY <1>1, <1>2, <1>3

\* Every step keeps the invariant.
LEMMA TokenInvStep == TokenInv /\ [TokenNext]_tokenVars => TokenInv'
<1> SUFFICES ASSUME TokenInv, [TokenNext]_tokenVars PROVE TokenInv'
  OBVIOUS
<1>a. /\ user \in [Users -> UserType] /\ stored \in 0..issued /\ live \in 0..issued
      /\ issued \in Nat /\ uses \in Nat
      /\ wasLive \in [Users -> SUBSET Nat] /\ wasDead \in [Users -> BOOLEAN]
  BY DEF TokenInv, TokenTypeOK, UserType
<1>m. MaxAttempts \in Nat /\ 0 \in 0..MaxAttempts /\ (DeadUnder200 => BodyClassifier)
  BY TokenAssumption
<1>c. CallerInv /\ TokenVerdictsAreTrue
  BY DEF TokenInv
<1>s. stored \in Nat /\ stored <= issued /\ live \in Nat /\ live <= issued
  BY <1>a
<1>t. \A v \in Users : user[v].token \in Nat /\ user[v].token <= issued
  BY <1>a, <1>c DEF CallerInv, UserType
<1>b. ASSUME user' \in [Users -> UserType], stored' \in 0..issued', live' \in 0..issued',
             issued' \in Nat, uses' \in Nat, wasLive' \in [Users -> SUBSET Nat],
             wasDead' \in [Users -> BOOLEAN], CallerInv', TokenVerdictsAreTrue'
      PROVE  TokenInv'
  BY <1>b DEF TokenInv, TokenTypeOK, UserType
<1>1. ASSUME NEW u \in Users, BeginUse(u) PROVE TokenInv'
  <2> DEFINE new == [pc |-> IF stored = 0 THEN "login" ELSE "probe", token |-> stored,
                     attempts |-> 0, fresh |-> FALSE, end |-> "none"]
  <2>1. /\ user' = [user EXCEPT ![u] = new] /\ wasLive' = [wasLive EXCEPT ![u] = {live}]
        /\ wasDead' = [wasDead EXCEPT ![u] = (stored # live)] /\ uses' = uses + 1
        /\ UNCHANGED <<stored, issued, live>>
    BY <1>1 DEF BeginUse
  <2>2. new \in UserType
    BY <1>s, <1>m DEF UserType
  <2>3. /\ new.pc = (IF stored = 0 THEN "login" ELSE "probe") /\ new.token = stored
        /\ new.end = "none" /\ new.fresh = FALSE
    OBVIOUS
  <2> HIDE DEF new
  <2>4. /\ user' \in [Users -> UserType] /\ user'[u] = new
        /\ \A v \in Users : v # u => user'[v] = user[v] /\ wasLive'[v] = wasLive[v]
                                     /\ wasDead'[v] = wasDead[v]
        /\ wasLive'[u] = {live} /\ (wasDead'[u] <=> stored # live)
    BY <1>a, <2>1, <2>2
  <2>7. wasLive' \in [Users -> SUBSET Nat]
    BY <1>a, <1>s, <2>1
  <2>8. wasDead' \in [Users -> BOOLEAN]
    BY <1>a, <2>1
  <2>5. CallerInv'
    BY <1>c, <1>s, <2>1, <2>3, <2>4 DEF CallerInv
  <2>6. TokenVerdictsAreTrue'
    BY <1>c, <2>3, <2>4 DEF TokenVerdictsAreTrue
  <2> QED
    BY <1>a, <1>b, <2>1, <2>4, <2>5, <2>6, <2>7, <2>8
<1>2. ASSUME NEW u \in Users, ProbeToken(u) PROVE TokenInv'
  <2>a. user[u].pc = "probe" /\ UNCHANGED <<issued, live, uses, wasLive, wasDead>>
    BY <1>2 DEF ProbeToken
  <2>b. user[u].token # 0 /\ user[u].end = "none" /\ user[u] \in UserType
    BY <1>a, <2>a DEF TokenInv, CallerInv
  <2>1. PICK a \in Answers(user[u].token) :
          LET verdict == ClassifyProbe(a)
          IN  IF verdict = "VALID" THEN EndUse(u, "returned")
              ELSE IF verdict = "INVALID" /\ ~user[u].fresh
              THEN user' = [user EXCEPT ![u].pc = "login"] /\ UNCHANGED stored
              ELSE IF verdict = "INVALID" THEN EndUse(u, "verification error")
              ELSE IF user[u].attempts + 1 < MaxAttempts
              THEN user' = [user EXCEPT ![u].attempts = @ + 1] /\ UNCHANGED stored
              ELSE EndUse(u, IF user[u].fresh THEN "verification error" ELSE "ambiguous")
    BY <1>2 DEF ProbeToken
  <2>2. /\ ClassifyProbe(a) = "VALID" => user[u].token = live
        /\ ClassifyProbe(a) = "INVALID" => user[u].token # live
    <3>1. CASE user[u].token = live
      BY <3>1 DEF Answers, ClassifyProbe
    <3>2. CASE user[u].token # live
      <4>1. /\ a \in {"none", "retryable", "5xx", "other", "auth", "2xx-dead"}
            /\ a = "2xx-dead" => DeadUnder200
        BY <3>2 DEF Answers
      <4> QED
        BY <3>2, <4>1, <1>m DEF ClassifyProbe
    <3> QED
      BY <3>1, <3>2
  <2>3. CASE EndUse(u, "returned") /\ user[u].token = live
    BY <2>3, <2>a, <2>b, EndUseKeeps
  <2>4. CASE EndUse(u, "verification error") \/ EndUse(u, "ambiguous")
    BY <2>4, <2>a, EndUseKeeps
  <2>5. CASE /\ ~user[u].fresh /\ user[u].token # live
             /\ user' = [user EXCEPT ![u].pc = "login"] /\ UNCHANGED stored
    <3>1. [user[u] EXCEPT !.pc = "login"] \in UserType
      BY <2>b DEF UserType
    <3>2. /\ user' \in [Users -> UserType] /\ user'[u] = [user[u] EXCEPT !.pc = "login"]
          /\ \A v \in Users : v # u => user'[v] = user[v]
      BY <1>a, <2>5, <3>1
    <3>3. /\ user'[u].pc = "login" /\ user'[u].token = user[u].token
          /\ user'[u].end = user[u].end /\ user'[u].fresh = user[u].fresh
      BY <3>2, <2>b DEF UserType
    <3>4. wasDead[u]
      BY <2>a, <2>5 DEF TokenInv, CallerInv
    <3>5. CallerInv'
      <4>1. UNCHANGED <<issued, live, wasLive, wasDead>> /\ user'[u].pc # "probe"
        BY <2>a, <3>3
      <4>2. user[u].pc # "idle"
        BY <2>a
      <4> QED
        BY <1>c, <4>1, <4>2, <3>2, <3>3, ZenonT(60) DEF CallerInv
    <3>6. TokenVerdictsAreTrue'
      BY <2>a, <2>b, <3>2, <3>3, <3>4 DEF TokenInv, TokenVerdictsAreTrue
    <3> QED
      BY <1>a, <1>b, <2>a, <2>5, <3>2, <3>5, <3>6
  <2>6. CASE /\ user[u].attempts + 1 < MaxAttempts
             /\ user' = [user EXCEPT ![u].attempts = @ + 1] /\ UNCHANGED stored
    <3>0. user[u].attempts + 1 \in 0..MaxAttempts
      <4>1. user[u].attempts \in 0..MaxAttempts
        BY <2>b DEF UserType
      <4> QED
        BY <1>m, <2>6, <4>1
    <3>1. [user[u] EXCEPT !.attempts = @ + 1] \in UserType
      BY <2>b, <3>0 DEF UserType
    <3>2. /\ user' \in [Users -> UserType] /\ user'[u] = [user[u] EXCEPT !.attempts = @ + 1]
          /\ \A v \in Users : v # u => user'[v] = user[v]
      BY <1>a, <2>6, <3>1
    <3>3. /\ user'[u].pc = user[u].pc /\ user'[u].token = user[u].token
          /\ user'[u].end = user[u].end /\ user'[u].fresh = user[u].fresh
      BY <3>2, <2>b DEF UserType
    <3>5. CallerInv'
      BY ZenonT(60), <1>c, <2>a, <3>2, <3>3 DEF CallerInv
    <3>6. TokenVerdictsAreTrue'
      BY <2>a, <3>2, <3>3 DEF TokenInv, TokenVerdictsAreTrue
    <3> QED
      BY <1>a, <1>b, <2>a, <2>6, <3>2, <3>5, <3>6
  <2> QED
    BY <2>1, <2>2, <2>3, <2>4, <2>5, <2>6
<1>3. ASSUME NEW u \in Users, Reauthenticate(u) PROVE TokenInv'
  <2>a. user[u].pc = "login" /\ uses' = uses /\ user[u] \in UserType
    BY <1>3, <1>a DEF Reauthenticate
  <2>1. CASE /\ EndUse(u, "verification error")
             /\ UNCHANGED <<issued, live, wasLive, wasDead>>
    BY <2>1, <2>a, EndUseKeeps
  <2>2. CASE /\ issued' = issued + 1 /\ live' = issued + 1
             /\ user' = [user EXCEPT ![u] = [user[u] EXCEPT !.pc = "probe",
                           !.token = issued + 1, !.attempts = 0, !.fresh = TRUE]]
             /\ SeenWith(issued + 1) /\ UNCHANGED stored
    <3> DEFINE new == [user[u] EXCEPT !.pc = "probe", !.token = issued + 1,
                                      !.attempts = 0, !.fresh = TRUE]
    <3>1. /\ new \in UserType /\ new.pc = "probe" /\ new.token = issued + 1
          /\ new.fresh = TRUE /\ new.end = user[u].end
      <4>1. issued + 1 \in Nat
        BY <1>a
      <4> QED
        BY <1>m, <2>a, <4>1 DEF UserType
    <3> HIDE DEF new
    <3>2. /\ user' \in [Users -> UserType] /\ user'[u] = new
          /\ \A v \in Users : v # u => user'[v] = user[v]
      BY <1>a, <2>2, <3>1 DEF new
    <3>3. /\ wasLive' \in [Users -> SUBSET Nat] /\ wasDead' \in [Users -> BOOLEAN]
          /\ \A v \in Users :
               /\ wasLive[v] \subseteq wasLive'[v] /\ (wasDead[v] => wasDead'[v])
               /\ user[v].pc # "idle" =>
                    /\ issued + 1 \in wasLive'[v]
                    /\ ~user[v].fresh /\ user[v].token # issued + 1 => wasDead'[v]
      <4>1. issued + 1 \in Nat
        BY <1>a
      <4> QED
        BY <2>2, <4>1, SeenKeeps
    <3>4. CallerInv'
      <4>1. \A v \in Users : user[v].token \in Nat /\ user[v].token <= issued
        BY <1>a DEF TokenInv, CallerInv, UserType
      <4>2. \A v \in Users : user'[v].token <= issued'
        BY <1>a, <2>2, <3>1, <3>2, <4>1
      <4>3. ASSUME NEW v \in Users, user'[v].pc # "idle"
            PROVE  /\ user'[v].end = "none" /\ live' \in wasLive'[v]
                   /\ ~user'[v].fresh /\ user'[v].token # live' => wasDead'[v]
        <5>1. CASE v = u
          BY <5>1, <2>a, <2>2, <3>1, <3>2, <3>3 DEF TokenInv, CallerInv
        <5>2. CASE v # u
          BY <5>2, <4>3, <2>2, <3>2, <3>3 DEF TokenInv, CallerInv
        <5> QED
          BY <5>1, <5>2
      <4>4. \A v \in Users : user'[v].pc = "probe" => user'[v].token # 0
        BY <1>a, <3>1, <3>2 DEF TokenInv, CallerInv
      <4> QED
        BY <4>2, <4>3, <4>4 DEF CallerInv
    <3>5. TokenVerdictsAreTrue'
      <4>1. new.end = "none"
        BY <2>a, <3>1 DEF TokenInv, CallerInv
      <4> QED
        BY <3>1, <3>2, <3>3, <4>1 DEF TokenInv, TokenVerdictsAreTrue
    <3>6. issued' \in Nat /\ stored' \in 0..issued' /\ live' \in 0..issued'
      BY <1>a, <2>2
    <3> QED
      BY <1>a, <1>b, <2>a, <3>2, <3>3, <3>4, <3>5, <3>6
  <2> QED
    BY <1>3, <2>1, <2>2 DEF Reauthenticate
<1>4. CASE TokenDies
  <2>1. live' = 0 /\ SeenWith(0) /\ UNCHANGED <<user, stored, issued, uses>>
    BY <1>4 DEF TokenDies
  <2>2. /\ wasLive' \in [Users -> SUBSET Nat] /\ wasDead' \in [Users -> BOOLEAN]
        /\ \A v \in Users :
             /\ wasLive[v] \subseteq wasLive'[v] /\ (wasDead[v] => wasDead'[v])
             /\ user[v].pc # "idle" =>
                  /\ 0 \in wasLive'[v]
                  /\ ~user[v].fresh /\ user[v].token # 0 => wasDead'[v]
    BY <2>1, SeenKeeps
  <2>3. CallerInv'
    BY <2>1, <2>2 DEF TokenInv, CallerInv
  <2>4. TokenVerdictsAreTrue'
    BY <2>1, <2>2 DEF TokenInv, TokenVerdictsAreTrue
  <2> QED
    BY <1>a, <1>b, <2>1, <2>2, <2>3, <2>4
<1>5. CASE UNCHANGED tokenVars
  <2>1. CallerInv' /\ TokenVerdictsAreTrue'
    BY <1>5 DEF tokenVars, TokenInv, CallerInv, TokenVerdictsAreTrue
  <2> QED
    BY <1>5, <1>a, <1>b, <2>1 DEF tokenVars
<1> QED
  BY <1>1, <1>2, <1>3, <1>4, <1>5 DEF TokenNext, TokenDone

\* Whatever the callers' interleaving, the broker's answers and the deaths of
\* tokens: a token that verify_and_refresh_token returns worked during that call,
\* and a login is spent only on a token that was absent or dead during it.
THEOREM TokenVerdictsHold == TokenSpec => [](TokenTypeOK /\ TokenVerdictsAreTrue)
<1>1. TokenInit => TokenInv
  <2> SUFFICES ASSUME TokenInit PROVE TokenInv
    OBVIOUS
  <2>1. AtRest \in UserType /\ AtRest.pc = "idle" /\ AtRest.token = 0 /\ AtRest.end = "none"
    BY TokenAssumption DEF AtRest, UserType
  <2>2. user = [u \in Users |-> AtRest] /\ user \in [Users -> UserType]
    BY <2>1 DEF TokenInit
  <2>3. /\ issued \in Nat /\ stored \in 0..issued /\ live \in 0..issued /\ uses \in Nat
    BY DEF TokenInit
  <2>4. wasLive \in [Users -> SUBSET Nat] /\ wasDead \in [Users -> BOOLEAN]
    BY DEF TokenInit
  <2>5. CallerInv /\ TokenVerdictsAreTrue
    BY <2>1, <2>2, <2>3 DEF CallerInv, TokenVerdictsAreTrue
  <2> QED
    BY <2>2, <2>3, <2>4, <2>5 DEF TokenInv, TokenTypeOK, UserType
<1>2. TokenInv => TokenTypeOK /\ TokenVerdictsAreTrue
  BY DEF TokenInv
<1> QED
  BY <1>1, <1>2, TokenInvStep, PTL DEF TokenSpec

-----------------------------------------------------------------------------
\* The types of the rotator's own state and of a call of rotate.
RotatorType == [active : Nat, previous : Nat, rotating : BOOLEAN, overlap : BOOLEAN,
                revokeFn : BOOLEAN]
RotationType == [pc : {"idle", "probe", "approved", "end"}, new : 0..MaxCredentials,
                 old : 0..MaxCredentials, force : BOOLEAN]

Busy(t) == rotation[t].pc # "idle"

\* Credential objects are numbered in the order of their creation; with a key of
\* its own each, a credential and its key have the same number.
KeyInv ==
  /\ Newest \in 1..MaxCredentials
  /\ keyOf = [c \in 1..Newest |-> c]
  /\ venueKeys \subseteq 1..Newest

SrTyped ==
  /\ sr \in RotatorType /\ rotation \in [Rotators -> RotationType]
  /\ activated \subseteq Credentials /\ abandoned \subseteq activated /\ cut \subseteq activated
  /\ lease \in [Signers -> activated \cup {0}]

\* _rotating admits one call at a time; its candidate has never been active and, if
\* it was approved, the venue accepts it; without force no previous one waits.
RotationInv ==
  /\ \A t, u \in Rotators : Busy(t) /\ Busy(u) => t = u
  /\ \A t \in Rotators :
       /\ Busy(t) => sr.rotating
       /\ rotation[t].pc \in {"probe", "approved"} =>
            /\ rotation[t].new \in Credentials \ activated
            /\ ~rotation[t].force => sr.previous = 0
       /\ rotation[t].pc = "approved" => rotation[t].new \in venueKeys

\* SecretsAreTracked in terms of credentials, and for the previous one too.
TrackInv ==
  /\ sr.active \in activated /\ sr.previous \in activated \cup {0}
  /\ sr.active # sr.previous
  /\ \A c \in activated : c \in venueKeys => c \in {sr.active, sr.previous} \cup abandoned
  /\ \A c \in {sr.active, sr.previous} \cup {lease[r] : r \in Signers} :
       c # 0 => c \in venueKeys \cup cut

SrInv == KeyInv /\ SrTyped /\ RotationInv /\ TrackInv

\* A new credential object with a key of its own extends the numbering by one.
LEMMA NewCredentialKeeps ==
  ASSUME KeyInv, FreshKeys, NEW key, NEW accepted, NewCredential(key, accepted)
  PROVE  /\ KeyInv' /\ key = Newest + 1 /\ Newest + 1 \notin Credentials
         /\ Credentials' = Credentials \cup {Newest + 1}
         /\ venueKeys' = IF accepted THEN venueKeys \cup {Newest + 1} ELSE venueKeys
<1> DEFINE n == Newest
<1>1. /\ n \in Nat /\ n > 0 /\ n + 1 <= MaxCredentials /\ n + 1 \in 1..MaxCredentials
      /\ keyOf = [c \in 1..n |-> c] /\ venueKeys \subseteq 1..n
  BY RotatorAssumption DEF KeyInv, NewCredential
<1>2. key = n + 1
  BY DEF NewCredential
<1>3. keyOf' = [c \in 1..(n + 1) |-> IF c = n + 1 THEN key ELSE keyOf[c]]
  BY DEF NewCredential
<1>4. venueKeys' = IF accepted THEN venueKeys \cup {n + 1} ELSE venueKeys
  BY <1>2 DEF NewCredential
<1>5. Credentials = 1..n
  BY <1>1 DEF Credentials
<1> HIDE DEF n
<1>6. Credentials' = 1..(n + 1)
  BY <1>3 DEF Credentials
<1>7. Cardinality(1..(n + 1)) = n + 1
  BY <1>1, FS_Interval
<1>8. Newest' = n + 1
  BY <1>6, <1>7 DEF Newest
<1>9. keyOf' = [c \in 1..(n + 1) |-> c]
  <2>1. \A c \in 1..(n + 1) : c = n + 1 \/ c \in 1..n
    BY <1>1
  <2> QED
    BY <1>1, <1>2, <1>3, <2>1
<1>10. venueKeys' \subseteq 1..(n + 1)
  BY <1>1, <1>4
<1>11. KeyInv'
  BY <1>1, <1>8, <1>9, <1>10 DEF KeyInv
<1>12. 1..(n + 1) = 1..n \cup {n + 1} /\ n + 1 \notin 1..n
  BY <1>1
<1> QED
  BY <1>2, <1>4, <1>5, <1>6, <1>11, <1>12 DEF n

\* While no credential object is created and no key added, the numbering stands.
LEMMA SameKeys ==
  ASSUME KeyInv, keyOf' = keyOf, venueKeys' \subseteq venueKeys
  PROVE  KeyInv' /\ Credentials' = Credentials
<1>1. Credentials' = Credentials /\ Newest' = Newest
  BY DEF Credentials, Newest
<1> QED
  BY <1>1 DEF KeyInv

\* Requests: use leases the active credential and gives it back.
LEMMA RequestKeeps ==
  ASSUME SrInv, NEW r \in Signers, NEW c \in {0, sr.active},
         lease' = [lease EXCEPT ![r] = c],
         UNCHANGED <<sr, rotation, keyOf, venueKeys, activated, abandoned, cut>>
  PROVE  SrInv'
<1>a. KeyInv /\ SrTyped /\ RotationInv /\ TrackInv
  BY DEF SrInv
<1>1. KeyInv' /\ Credentials' = Credentials
  BY <1>a, SameKeys
<1>2. c \in activated \cup {0}
  BY <1>a DEF TrackInv
<1>3. SrTyped'
  BY <1>a, <1>1, <1>2 DEF SrTyped
<1>4. RotationInv'
  BY <1>a, <1>1 DEF RotationInv, Busy
<1>5. \A q \in Signers : lease'[q] = lease[q] \/ lease'[q] = c
  BY <1>a DEF SrTyped
<1>6. TrackInv'
  BY <1>a, <1>5 DEF TrackInv
<1> QED
  BY <1>1, <1>3, <1>4, <1>6 DEF SrInv

\* A second set_initial_credential: the credential it replaces is given up.
LEMMA ReseedKeeps ==
  ASSUME SrInv, FreshKeys, NEW key, Reseed(key) PROVE SrInv'
<1>a. KeyInv /\ SrTyped /\ RotationInv /\ TrackInv
  BY DEF SrInv
<1> DEFINE n == Newest + 1
           new == [sr EXCEPT !.active = n, !.overlap = FALSE]
<1>1. /\ sr.previous = 0 /\ NewCredential(key, key \notin {keyOf[c] : c \in Credentials})
      /\ key \in venueKeys' /\ abandoned' = abandoned \cup {sr.active}
      /\ activated' = activated \cup {n} /\ sr' = new
      /\ UNCHANGED <<rotation, lease, cut>>
  BY DEF Reseed
<1>2. /\ KeyInv' /\ key = n /\ n \notin Credentials /\ Credentials' = Credentials \cup {n}
      /\ venueKeys' \subseteq venueKeys \cup {n} /\ venueKeys \subseteq venueKeys'
  BY <1>1, <1>a, NewCredentialKeeps
<1>3. n \in Nat \ {0}
  BY <1>a DEF KeyInv
<1> HIDE DEF n
<1>4. /\ new \in RotatorType /\ new.active = n /\ new.previous = sr.previous
      /\ new.rotating = sr.rotating
  BY <1>a, <1>3 DEF SrTyped, RotatorType
<1> HIDE DEF new
<1>5. n \notin activated /\ sr.active \in activated
  BY <1>a, <1>2 DEF SrTyped, TrackInv
<1>6. SrTyped'
  BY <1>a, <1>1, <1>2, <1>4, <1>5 DEF SrTyped
<1>7. RotationInv'
  BY <1>a, <1>1, <1>2, <1>4 DEF RotationInv, Busy
<1>8. TrackInv'
  BY <1>a, <1>1, <1>2, <1>3, <1>4, <1>5 DEF TrackInv
<1> QED
  BY <1>2, <1>6, <1>7, <1>8 DEF SrInv

\* rotate: the guards, _rotating and the new candidate.
LEMMA RotateKeeps ==
  ASSUME SrInv, FreshKeys, NEW t \in Rotators, NEW force \in BOOLEAN, NEW key,
         NEW accepted \in BOOLEAN, Rotate(t, force, key, accepted)
  PROVE  SrInv'
<1>a. KeyInv /\ SrTyped /\ RotationInv /\ TrackInv
  BY DEF SrInv
<1> DEFINE n == Newest + 1
           new == [sr EXCEPT !.rotating = TRUE]
           call == [pc |-> "probe", new |-> n, old |-> sr.active, force |-> force]
<1>1. /\ ~sr.rotating /\ (sr.previous = 0 \/ force) /\ NewCredential(key, accepted)
      /\ sr' = new /\ rotation' = [rotation EXCEPT ![t] = call]
      /\ UNCHANGED <<lease, activated, abandoned, cut>>
  BY DEF Rotate
<1>2. /\ KeyInv' /\ n \notin Credentials /\ Credentials' = Credentials \cup {n}
      /\ venueKeys' \subseteq venueKeys \cup {n} /\ venueKeys \subseteq venueKeys'
  BY <1>1, <1>a, NewCredentialKeeps
<1>3. n \in 0..MaxCredentials /\ sr.active \in 0..MaxCredentials
  <2>1. Newest \in 1..MaxCredentials /\ n <= MaxCredentials /\ MaxCredentials \in Nat
    BY <1>a, <1>1, RotatorAssumption DEF KeyInv, NewCredential
  <2>2. sr.active \in 1..Newest
    BY <1>a DEF KeyInv, SrTyped, TrackInv, Credentials
  <2> QED
    BY <2>1, <2>2
<1> HIDE DEF n
<1>4. /\ new \in RotatorType /\ new.active = sr.active /\ new.previous = sr.previous
      /\ new.rotating = TRUE
  BY <1>a DEF SrTyped, RotatorType
<1> HIDE DEF new
<1>5. /\ call \in RotationType /\ call.pc = "probe" /\ call.new = n
      /\ (call.force <=> force)
  BY <1>3 DEF RotationType
<1> HIDE DEF call
<1>6. /\ rotation' \in [Rotators -> RotationType] /\ rotation'[t] = call
      /\ \A u \in Rotators : u # t => rotation'[u] = rotation[u] /\ rotation[u].pc = "idle"
  <2>1. \A u \in Rotators : rotation[u].pc = "idle"
    BY <1>a, <1>1 DEF RotationInv, Busy
  <2> QED
    BY <1>a, <1>1, <1>5, <2>1 DEF SrTyped
<1>7. SrTyped'
  BY <1>a, <1>1, <1>2, <1>4, <1>6 DEF SrTyped
<1>8. n \notin activated
  BY <1>a, <1>2 DEF SrTyped
<1>9. RotationInv'
  BY <1>1, <1>2, <1>4, <1>5, <1>6, <1>8 DEF RotationInv, Busy
<1>10. TrackInv'
  BY <1>a, <1>1, <1>2, <1>4, <1>8 DEF TrackInv
<1> QED
  BY <1>2, <1>7, <1>9, <1>10 DEF SrInv

\* validate_fn answers: an approved candidate is one the venue accepts.
LEMMA ValidateKeeps ==
  ASSUME SrInv, NEW t \in Rotators, ValidateCandidate(t) PROVE SrInv'
<1>a. KeyInv /\ SrTyped /\ RotationInv /\ TrackInv
  BY DEF SrInv
<1>1. /\ rotation[t].pc = "probe" /\ UNCHANGED <<sr, lease, keyOf, venueKeys, activated, abandoned, cut>>
      /\ rotation[t] \in RotationType
  BY <1>a DEF ValidateCandidate, SrTyped
<1>2. PICK pc \in {"approved", "end"} :
        /\ rotation' = [rotation EXCEPT ![t].pc = pc]
        /\ pc = "approved" => keyOf[rotation[t].new] \in venueKeys
  BY DEF ValidateCandidate
<1> DEFINE call == [rotation[t] EXCEPT !.pc = pc]
<1>3. /\ call \in RotationType /\ call.pc = pc /\ call.new = rotation[t].new
      /\ call.force = rotation[t].force
  BY <1>1 DEF RotationType
<1>4. rotation' = [rotation EXCEPT ![t] = call]
  BY <1>2
<1> HIDE DEF call
<1>5. /\ rotation' \in [Rotators -> RotationType] /\ rotation'[t] = call
      /\ \A u \in Rotators : u # t => rotation'[u] = rotation[u]
  BY <1>a, <1>3, <1>4 DEF SrTyped
<1>6. KeyInv' /\ Credentials' = Credentials
  BY <1>a, <1>1, SameKeys
<1>7. rotation[t].new \in Credentials /\ keyOf[rotation[t].new] = rotation[t].new
  BY <1>a, <1>1 DEF RotationInv, KeyInv, Credentials
<1>8. SrTyped' /\ TrackInv'
  BY <1>a, <1>1, <1>5, <1>6 DEF SrTyped, TrackInv
<1>9. RotationInv'
  BY <1>a, <1>1, <1>2, <1>3, <1>5, <1>6, <1>7 DEF RotationInv, Busy
<1> QED
  BY <1>6, <1>8, <1>9 DEF SrInv

\* The publication under the lock: the outgoing credential is kept as the previous
\* one, and one that was still waiting is given up, which takes force.
LEMMA PublishKeeps ==
  ASSUME SrInv, NEW t \in Rotators, PublishCandidate(t) PROVE SrInv'
<1>a. KeyInv /\ SrTyped /\ RotationInv /\ TrackInv
  BY DEF SrInv
<1>1. /\ rotation[t].pc = "approved" /\ UNCHANGED <<lease, keyOf, venueKeys, cut>>
      /\ rotation' = [rotation EXCEPT ![t].pc = "end"] /\ rotation[t] \in RotationType
  BY <1>a DEF PublishCandidate, SrTyped
<1> DEFINE call == [rotation[t] EXCEPT !.pc = "end"]
           n == rotation[t].new
<1>2. call \in RotationType /\ call.pc = "end"
  BY <1>1 DEF RotationType
<1>3. rotation' = [rotation EXCEPT ![t] = call]
  BY <1>1
<1> HIDE DEF call
<1>4. /\ rotation' \in [Rotators -> RotationType] /\ rotation'[t] = call
      /\ \A u \in Rotators : u # t => rotation'[u] = rotation[u]
  BY <1>a, <1>2, <1>3 DEF SrTyped
<1>5. KeyInv' /\ Credentials' = Credentials
  BY <1>a, <1>1, SameKeys
<1>6. CASE UNCHANGED <<sr, activated, abandoned>>
  <2>1. SrTyped' /\ TrackInv'
    BY <1>a, <1>1, <1>4, <1>5, <1>6 DEF SrTyped, TrackInv
  <2>2. RotationInv'
    BY <1>a, <1>1, <1>2, <1>4, <1>5, <1>6 DEF RotationInv, Busy
  <2> QED
    BY <1>5, <2>1, <2>2 DEF SrInv
<1>7. CASE /\ sr.active = rotation[t].old
           /\ sr' = [sr EXCEPT !.previous = rotation[t].old, !.active = n, !.overlap = TRUE]
           /\ activated' = activated \cup {n}
           /\ abandoned' = IF rotation[t].force /\ sr.previous # 0
                           THEN abandoned \cup {sr.previous} ELSE abandoned
  <2> DEFINE new == [sr EXCEPT !.previous = sr.active, !.active = n, !.overlap = TRUE]
  <2>1. /\ n \in Credentials /\ n \notin activated /\ n \in venueKeys
        /\ (~rotation[t].force => sr.previous = 0)
    BY <1>a, <1>1 DEF RotationInv
  <2>2. n \in Nat \ {0} /\ \A c \in activated : c # 0
    BY <1>a, <2>1 DEF KeyInv, Credentials, SrTyped
  <2>3. sr' = new
    BY <1>7
  <2> HIDE DEF n
  <2>4. /\ new \in RotatorType /\ new.active = n /\ new.previous = sr.active
        /\ new.rotating = sr.rotating
    BY <1>a, <2>2 DEF SrTyped, RotatorType
  <2> HIDE DEF new
  <2>5. /\ abandoned \subseteq abandoned' /\ abandoned' \subseteq abandoned \cup {sr.previous}
        /\ sr.previous # 0 => sr.previous \in abandoned'
        /\ sr.previous = 0 => abandoned' = abandoned
    BY <1>7, <2>1
  <2>6. SrTyped'
    <3>1. abandoned' \subseteq activated'
      BY <1>a, <1>7, <2>5 DEF SrTyped, TrackInv
    <3> QED
      BY <1>a, <1>1, <1>4, <1>5, <1>7, <2>1, <2>3, <2>4, <3>1 DEF SrTyped
  <2>7. RotationInv'
    <3>1. \A u \in Rotators : u # t => rotation'[u].pc = "idle"
      BY <1>a, <1>1, <1>4 DEF RotationInv, Busy
    <3>2. sr'.rotating
      BY <1>a, <1>1, <2>3, <2>4 DEF RotationInv, Busy
    <3> QED
      BY <1>2, <1>4, <3>1, <3>2 DEF RotationInv, Busy
  <2>8. TrackInv'
    <3>1. /\ sr'.active \in activated' /\ sr'.previous \in activated'
          /\ sr'.active # sr'.previous
      BY <1>a, <1>7, <2>1, <2>3, <2>4 DEF TrackInv
    <3>2. \A c \in activated' : c \in venueKeys' => c \in {sr'.active, sr'.previous} \cup abandoned'
      BY <1>a, <1>1, <1>7, <2>2, <2>3, <2>4, <2>5 DEF TrackInv
    <3>3. \A c \in {sr'.active, sr'.previous} \cup {lease'[r] : r \in Signers} :
            c # 0 => c \in venueKeys' \cup cut'
      BY <1>a, <1>1, <2>1, <2>3, <2>4 DEF TrackInv
    <3> QED
      BY <3>1, <3>2, <3>3 DEF TrackInv
  <2> QED
    BY <1>5, <2>6, <2>7, <2>8 DEF SrInv
<1> QED
  BY <1>6, <1>7 DEF PublishCandidate

\* The finally clause of rotate.
LEMMA EndRotateKeeps ==
  ASSUME SrInv, NEW t \in Rotators, EndRotate(t) PROVE SrInv'
<1>a. KeyInv /\ SrTyped /\ RotationInv /\ TrackInv
  BY DEF SrInv
<1> DEFINE new == [sr EXCEPT !.rotating = FALSE]
<1>1. /\ rotation[t].pc = "end" /\ rotation' = [rotation EXCEPT ![t] = NoRotation] /\ sr' = new
      /\ UNCHANGED <<lease, keyOf, venueKeys, activated, abandoned, cut>>
  BY DEF EndRotate
<1>2. new \in RotatorType /\ new.active = sr.active /\ new.previous = sr.previous
  BY <1>a DEF SrTyped, RotatorType
<1> HIDE DEF new
<1>3. 0 \in 0..MaxCredentials
  BY RotatorAssumption
<1>4. NoRotation \in RotationType /\ NoRotation.pc = "idle"
  BY <1>3 DEF NoRotation, RotationType
<1>5. \A u \in Rotators : u # t => rotation[u].pc = "idle"
  BY <1>a, <1>1 DEF RotationInv, Busy
<1>6. rotation' \in [Rotators -> RotationType] /\ \A u \in Rotators : rotation'[u].pc = "idle"
  BY <1>a, <1>1, <1>4, <1>5 DEF SrTyped
<1>7. KeyInv' /\ Credentials' = Credentials
  BY <1>a, <1>1, SameKeys
<1>8. SrTyped' /\ TrackInv'
  BY <1>a, <1>1, <1>2, <1>6, <1>7 DEF SrTyped, TrackInv
<1>9. RotationInv'
  BY <1>6 DEF RotationInv, Busy
<1> QED
  BY <1>7, <1>8, <1>9 DEF SrInv

\* fallback_to_previous: the failing credential is given up, the previous one works.
LEMMA FallbackKeeps ==
  ASSUME SrInv, FallbackToPrevious PROVE SrInv'
<1>a. KeyInv /\ SrTyped /\ RotationInv /\ TrackInv
  BY DEF SrInv
<1> DEFINE new == [sr EXCEPT !.active = sr.previous, !.previous = 0, !.overlap = FALSE]
<1>1. /\ sr.previous # 0 /\ sr' = new /\ abandoned' = abandoned \cup {sr.active}
      /\ UNCHANGED <<rotation, lease, keyOf, venueKeys, activated, cut>>
  BY DEF FallbackToPrevious
<1>2. /\ new \in RotatorType /\ new.active = sr.previous /\ new.previous = 0
      /\ new.rotating = sr.rotating
  BY <1>a DEF SrTyped, RotatorType
<1> HIDE DEF new
<1>3. KeyInv' /\ Credentials' = Credentials
  BY <1>a, <1>1, SameKeys
<1>4. SrTyped'
  BY <1>a, <1>1, <1>2, <1>3 DEF SrTyped, TrackInv
<1>5. RotationInv'
  BY <1>a, <1>1, <1>2, <1>3 DEF RotationInv, Busy
<1>6. TrackInv'
  BY <1>a, <1>1, <1>2 DEF TrackInv
<1> QED
  BY <1>3, <1>4, <1>5, <1>6 DEF SrInv

\* revoke_previous: a previous credential is forgotten once the venue has confirmed,
\* and one that a request still holds is revoked by force only.
LEMMA RevokeKeeps ==
  ASSUME SrInv, NEW force \in BOOLEAN, NEW raises \in BOOLEAN, NEW effective \in BOOLEAN,
         RevokePrevious(force, raises, effective)
  PROVE  SrInv'
<1>a. KeyInv /\ SrTyped /\ RotationInv /\ TrackInv
  BY DEF SrInv
<1> DEFINE p == sr.previous
           new == [sr EXCEPT !.previous = 0, !.overlap = FALSE]
<1>1. /\ p # 0 /\ (force \/ MayRevoke) /\ (effective \/ raises)
      /\ venueKeys' = (IF effective THEN venueKeys \ {keyOf[p]} ELSE venueKeys)
      /\ sr' = (IF raises THEN sr ELSE new)
      /\ cut' = (IF force \/ raises THEN cut \cup {p} ELSE cut)
      /\ UNCHANGED <<rotation, lease, keyOf, activated, abandoned>>
  BY DEF RevokePrevious
<1>2. /\ p \in activated /\ p \in Credentials /\ keyOf[p] = p /\ p # sr.active
  BY <1>a, <1>1 DEF TrackInv, SrTyped, KeyInv, Credentials
<1>3. /\ new \in RotatorType /\ new.active = sr.active /\ new.previous = 0
      /\ new.rotating = sr.rotating
  BY <1>a DEF SrTyped, RotatorType
<1> HIDE DEF new
<1>4. /\ sr' \in RotatorType /\ sr'.active = sr.active /\ sr'.rotating = sr.rotating
      /\ sr'.previous = p \/ sr'.previous = 0
  BY <1>a, <1>1, <1>3 DEF SrTyped
<1>5. /\ KeyInv' /\ Credentials' = Credentials /\ venueKeys' \subseteq venueKeys
      /\ venueKeys \ {p} \subseteq venueKeys'
  BY <1>a, <1>1, <1>2, SameKeys
<1>6. cut \subseteq cut' /\ cut' \subseteq activated /\ (force \/ raises => p \in cut')
  BY <1>a, <1>1, <1>2 DEF SrTyped
<1>7. SrTyped'
  BY <1>a, <1>1, <1>4, <1>5, <1>6 DEF SrTyped
<1>8. RotationInv'
  <2>1. \A t \in Rotators : rotation[t].pc = "approved" => rotation[t].new \in venueKeys'
    BY <1>a, <1>2, <1>5 DEF RotationInv
  <2> QED
    BY <1>a, <1>1, <1>4, <1>5, <2>1 DEF RotationInv, Busy
<1>9. sr'.previous = 0 => p \notin venueKeys'
  BY <1>1, <1>2, <1>3
<1>10. ~force /\ ~raises => sr'.previous = 0 /\ \A r \in Signers : lease[r] # p
  BY <1>1, <1>3 DEF MayRevoke, Leased
<1>11. TrackInv'
  <2>1. \A c \in activated' : c \in venueKeys' => c \in {sr'.active, sr'.previous} \cup abandoned'
    BY <1>a, <1>1, <1>4, <1>5, <1>9 DEF TrackInv
  <2>2. \A c \in {sr'.active, sr'.previous} \cup {lease'[r] : r \in Signers} :
          c # 0 => c \in venueKeys' \cup cut'
    <3> SUFFICES ASSUME NEW c \in {sr'.active, sr'.previous} \cup {lease[r] : r \in Signers}, c # 0
                 PROVE  c \in venueKeys' \cup cut'
      BY <1>1
    <3>1. c \in venueKeys \cup cut
      BY <1>a, <1>4 DEF TrackInv
    <3>2. CASE c # p
      BY <3>1, <3>2, <1>5, <1>6
    <3>3. CASE c = p
      <4>1. force \/ raises
        BY <1>2, <1>4, <1>10, <3>3
      <4> QED
        BY <1>6, <3>3, <4>1
    <3> QED
      BY <3>2, <3>3
  <2> QED
    <3>1. /\ sr'.active \in activated' /\ sr'.previous \in activated' \cup {0}
          /\ sr'.active # sr'.previous
      <4>1. sr.active # 0 /\ sr.active \in activated
        BY <1>a DEF TrackInv, SrTyped, KeyInv, Credentials
      <4> QED
        BY <1>1, <1>2, <1>4, <4>1
    <3> QED
      BY <3>1, <2>1, <2>2 DEF TrackInv
<1> QED
  BY <1>5, <1>7, <1>8, <1>11 DEF SrInv

\* revoke_previous without a revoke_fn, and the end of the overlap window.
LEMMA ForgetKeeps ==
  ASSUME SrInv, (\E force \in BOOLEAN : ForgetPrevious(force)) \/ OverlapEnds PROVE SrInv'
<1>a. KeyInv /\ SrTyped /\ RotationInv /\ TrackInv
  BY DEF SrInv
<1>1. ASSUME NEW force \in BOOLEAN, ForgetPrevious(force) PROVE SrInv'
  <2> DEFINE new == [sr EXCEPT !.previous = 0, !.overlap = FALSE]
  <2>1. /\ sr.previous # 0 /\ sr' = new /\ abandoned' = abandoned \cup {sr.previous}
        /\ UNCHANGED <<rotation, lease, keyOf, venueKeys, activated, cut>>
    BY <1>1 DEF ForgetPrevious
  <2>2. /\ new \in RotatorType /\ new.active = sr.active /\ new.previous = 0
        /\ new.rotating = sr.rotating
    BY <1>a DEF SrTyped, RotatorType
  <2> HIDE DEF new
  <2>3. KeyInv' /\ Credentials' = Credentials
    BY <1>a, <2>1, SameKeys
  <2>4. SrTyped'
    BY <1>a, <2>1, <2>2, <2>3 DEF SrTyped, TrackInv
  <2>5. RotationInv'
    BY <1>a, <2>1, <2>2, <2>3 DEF RotationInv, Busy
  <2>6. TrackInv'
    <3>1. sr.active # 0
      BY <1>a DEF TrackInv, SrTyped, KeyInv, Credentials
    <3> QED
      BY <1>a, <2>1, <2>2, <3>1 DEF TrackInv
  <2> QED
    BY <2>3, <2>4, <2>5, <2>6 DEF SrInv
<1>2. CASE OverlapEnds
  <2> DEFINE new == [sr EXCEPT !.overlap = FALSE]
  <2>1. sr' = new /\ UNCHANGED <<rotation, lease, keyOf, venueKeys, activated, abandoned, cut>>
    BY <1>2 DEF OverlapEnds
  <2>2. /\ new \in RotatorType /\ new.active = sr.active /\ new.previous = sr.previous
        /\ new.rotating = sr.rotating
    BY <1>a DEF SrTyped, RotatorType
  <2> HIDE DEF new
  <2>3. KeyInv' /\ Credentials' = Credentials
    BY <1>a, <2>1, SameKeys
  <2>4. SrTyped' /\ TrackInv'
    BY <1>a, <2>1, <2>2, <2>3 DEF SrTyped, TrackInv
  <2>5. RotationInv'
    BY <1>a, <2>1, <2>2, <2>3 DEF RotationInv, Busy
  <2> QED
    BY <2>3, <2>4, <2>5 DEF SrInv
<1> QED
  BY <1>1, <1>2

\* However many threads rotate, fall back, revoke, reseed and sign, and as long as every
\* credential object has a key id of its own: a credential that was once published and
\* that the venue still accepts is the active one, the previous one or one that was given
\* up on purpose, and the venue accepts the credential of every request in flight unless
\* it was revoked by force or its revocation raised.
THEOREM SecretsStayTracked ==
  ASSUME FreshKeys PROVE SrSpec => [](SrTypeOK /\ SecretsAreTracked)
<1>1. SrInit => SrInv
  <2> SUFFICES ASSUME SrInit PROVE SrInv
    OBVIOUS
  <2>1. Credentials = 1..1 /\ Newest = 1
    <3>1. Cardinality({1}) = 1
      BY FS_Singleton
    <3>2. Credentials = {1}
      BY DEF SrInit, Credentials
    <3>3. {1} = 1..1
      OBVIOUS
    <3> QED
      BY <3>1, <3>2, <3>3 DEF Newest
  <2>2. KeyInv
    BY <2>1, RotatorAssumption DEF SrInit, KeyInv
  <2>3. sr \in RotatorType /\ sr.active = 1 /\ sr.previous = 0
    BY DEF SrInit, RotatorType
  <2>4. NoRotation \in RotationType /\ NoRotation.pc = "idle"
    <3>1. 0 \in 0..MaxCredentials
      BY RotatorAssumption
    <3> QED
      BY <3>1 DEF NoRotation, RotationType
  <2>5. rotation \in [Rotators -> RotationType] /\ \A t \in Rotators : rotation[t].pc = "idle"
    BY <2>4 DEF SrInit
  <2>6. SrTyped
    BY <2>1, <2>3, <2>5 DEF SrInit, SrTyped
  <2>7. RotationInv
    BY <2>5 DEF RotationInv, Busy
  <2>8. TrackInv
    BY <2>3 DEF SrInit, TrackInv
  <2> QED
    BY <2>2, <2>6, <2>7, <2>8 DEF SrInv
<1>2. SrInv /\ [SrNext]_srVars => SrInv'
  <2> SUFFICES ASSUME SrInv, [SrNext]_srVars PROVE SrInv'
    OBVIOUS
  <2>1. ASSUME NEW r \in Signers, BeginRequest(r) \/ EndRequest(r) PROVE SrInv'
    BY <2>1, RequestKeeps DEF BeginRequest, EndRequest
  <2>2. ASSUME NEW key \in 1..MaxCredentials, Reseed(key) PROVE SrInv'
    BY <2>2, ReseedKeeps
  <2>3. ASSUME NEW t \in Rotators, NEW force \in BOOLEAN, NEW accepted \in BOOLEAN,
               NEW key \in 1..MaxCredentials, Rotate(t, force, key, accepted)
        PROVE  SrInv'
    BY <2>3, RotateKeeps
  <2>4. ASSUME NEW t \in Rotators, ValidateCandidate(t) \/ PublishCandidate(t) \/ EndRotate(t)
        PROVE  SrInv'
    BY <2>4, ValidateKeeps, PublishKeeps, EndRotateKeeps
  <2>5. CASE FallbackToPrevious
    BY <2>5, FallbackKeeps
  <2>6. ASSUME NEW force \in BOOLEAN, NEW raises \in BOOLEAN, NEW effective \in BOOLEAN,
               RevokePrevious(force, raises, effective)
        PROVE  SrInv'
    BY <2>6, RevokeKeeps
  <2>7. CASE (\E force \in BOOLEAN : ForgetPrevious(force)) \/ OverlapEnds
    BY <2>7, ForgetKeeps
  <2>8. CASE UNCHANGED srVars
    <3>a. KeyInv /\ SrTyped /\ RotationInv /\ TrackInv /\ keyOf' = keyOf /\ venueKeys' = venueKeys
      BY <2>8 DEF SrInv, srVars
    <3>1. KeyInv' /\ Credentials' = Credentials
      BY <3>a, SameKeys
    <3>2. SrTyped' /\ RotationInv' /\ TrackInv'
      BY <2>8, <3>a, <3>1 DEF srVars, SrTyped, RotationInv, TrackInv, Busy
    <3> QED
      BY <3>1, <3>2 DEF SrInv
  <2> QED
    BY <2>1, <2>2, <2>3, <2>4, <2>5, <2>6, <2>7, <2>8 DEF SrNext
<1>3. SrInv => SrTypeOK /\ SecretsAreTracked
  <2> SUFFICES ASSUME SrInv PROVE SrTypeOK /\ SecretsAreTracked
    OBVIOUS
  <2>a. KeyInv /\ SrTyped /\ TrackInv
    BY DEF SrInv
  <2>1. /\ Credentials = 1..Newest /\ Newest \in 1..MaxCredentials /\ MaxCredentials \in Nat
        /\ \A c \in Credentials : keyOf[c] = c
    BY <2>a, RotatorAssumption DEF KeyInv, Credentials
  <2>2. 1..Newest \subseteq 1..MaxCredentials /\ 1..MaxCredentials \subseteq 0..MaxCredentials
        /\ 0 \in 0..MaxCredentials
    BY <2>1
  <2>3. SrTypeOK
    <3>1. sr \in [active : Credentials, previous : Credentials \cup {0}, rotating : BOOLEAN,
                  overlap : BOOLEAN, revokeFn : BOOLEAN]
      BY <2>a DEF SrTyped, TrackInv, RotatorType
    <3>2. lease \in [Signers -> 0..MaxCredentials]
      BY <2>a, <2>1, <2>2 DEF SrTyped
    <3>3. keyOf \in [1..Newest -> 1..MaxCredentials] /\ venueKeys \subseteq 1..MaxCredentials
      BY <2>a, <2>2 DEF KeyInv
    <3> QED
      BY <2>a, <3>1, <3>2, <3>3 DEF SrTyped, SrTypeOK, RotationType
  <2>4. SecretsAreTracked
    <3>1. \A c \in activated : keyOf[c] \in venueKeys => c \in {sr.active, sr.previous} \cup abandoned
      BY <2>a, <2>1 DEF SrTyped, TrackInv
    <3>2. ASSUME NEW c \in {sr.active} \cup {lease[r] : r \in Signers}, c # 0
          PROVE  keyOf[c] \in venueKeys \/ \E d \in cut : keyOf[d] = keyOf[c]
      <4>1. c \in activated /\ c \in venueKeys \cup cut
        BY <2>a, <3>2 DEF SrTyped, TrackInv
      <4> QED
        BY <2>a, <2>1, <4>1 DEF SrTyped
    <3> QED
      BY <3>1, <3>2 DEF SecretsAreTracked
  <2> QED
    BY <2>3, <2>4
<1> QED
  BY <1>1, <1>2, <1>3, PTL DEF SrSpec
==============================================================================
