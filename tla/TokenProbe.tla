----------------------------- MODULE TokenProbe ------------------------------
(***************************************************************************)
(* LiveTokenProbeManager.verify_and_refresh_token: callers that probe a    *)
(* cached broker token, log in again only when the broker says it is dead, *)
(* and verify the new one.  The manager takes no lock, so two callers      *)
(* interleave at every probe and login.                                    *)
(*                                                                         *)
(* The broker is external: a login kills the token before it, a token may  *)
(* die at any time, and any answer may be lost or hidden by an overload.   *)
(***************************************************************************)
EXTENDS Naturals

CONSTANTS
  Users,            \* callers of the manager
  MaxAttempts,      \* max_attempts of one probe
  BodyClassifier,   \* is a body_classifier configured?
  DeadUnder200,     \* does the broker report a dead session inside a 2xx answer?
  MaxLogins, MaxUses  \* bounds: logins, calls of verify_and_refresh_token

ASSUME TokenAssumption ==
  /\ MaxAttempts \in Nat \ {0} /\ MaxLogins \in Nat /\ MaxUses \in Nat
  /\ BodyClassifier \in BOOLEAN /\ DeadUnder200 \in BOOLEAN
  /\ DeadUnder200 => BodyClassifier

VARIABLES
  user,     \* each caller's step, token, attempts and how its call ended
  stored,   \* the token a caller starts from, 0 for none
  issued,   \* tokens are numbered as the broker issues them
  live,     \* the token that works, 0 for none
  uses,
  wasLive,  \* observer: tokens that worked at some time during the caller's call
  wasDead   \* observer: its cached token did not work at some time during it

tokenVars == <<user, stored, issued, live, uses, wasLive, wasDead>>

AtRest == [pc |-> "idle", token |-> 0, attempts |-> 0, fresh |-> FALSE, end |-> "none"]

TokenInit ==
  /\ user = [u \in Users |-> AtRest]
  /\ stored \in {0, 1} /\ issued = stored
  /\ live \in {0, stored}
  /\ uses = 0
  /\ wasLive = [u \in Users |-> {}] /\ wasDead = [u \in Users |-> FALSE]

-----------------------------------------------------------------------------
\* EXTERNAL: the answers a probe of a token may get: the status code by its
\* class, "dead" under a 2xx, or none at all.
Answers(token) ==
  {"none", "retryable", "5xx", "other"}
  \cup (IF token = live THEN {"2xx"}
        ELSE IF DeadUnder200 THEN {"auth", "2xx-dead"} ELSE {"auth"})

\* Mutant: an unrecognised status is taken for a dead token.
ClassifyUnknownInvalid(a) ==
  CASE a = "2xx" -> "VALID" [] a \in {"auth", "2xx-dead", "other"} -> "INVALID"
    [] OTHER -> "AMBIGUOUS"

\* classify_probe_response; the body is looked at under a 2xx only.
ClassifyProbe(a) ==
  IF a \in {"none", "retryable", "5xx", "other"} THEN "AMBIGUOUS"
  ELSE IF a = "auth" \/ (a = "2xx-dead" /\ BodyClassifier) THEN "INVALID"
  ELSE "VALID"

\* What a caller has seen of the broker so far, when the live token is now t.
SeenWith(t) ==
  /\ wasLive' = [u \in Users |-> IF user[u].pc = "idle" THEN wasLive[u] ELSE wasLive[u] \cup {t}]
  /\ wasDead' = [u \in Users |-> wasDead[u] \/ (user[u].pc # "idle" /\ ~user[u].fresh
                                               /\ user[u].token # t)]

\* verify_and_refresh_token begins: with the stored token, or with none.
BeginUse(u) ==
  /\ user[u].pc = "idle" /\ uses < MaxUses
  /\ uses' = uses + 1
  /\ user' = [user EXCEPT ![u] = [pc |-> IF stored = 0 THEN "login" ELSE "probe",
                                  token |-> stored, attempts |-> 0, fresh |-> FALSE,
                                  end |-> "none"]]
  /\ wasLive' = [wasLive EXCEPT ![u] = {live}]
  /\ wasDead' = [wasDead EXCEPT ![u] = stored # live]
  /\ UNCHANGED <<stored, issued, live>>

\* The call ends; the caller keeps a new token, verified or not.
EndUse(u, how) ==
  /\ user' = [user EXCEPT ![u] = [@ EXCEPT !.pc = "idle", !.end = how]]
  /\ stored' = IF user[u].fresh THEN user[u].token ELSE stored

\* One attempt of probe_with_backoff: VALID ends the call, INVALID leads to a
\* login or, for a new token, to TokenVerificationError; AMBIGUOUS is tried again
\* and in the end raises.
ProbeToken(u) ==
  /\ user[u].pc = "probe"
  /\ \E a \in Answers(user[u].token) :
       LET verdict == ClassifyProbe(a)
       IN  IF verdict = "VALID" THEN EndUse(u, "returned")
           ELSE IF verdict = "INVALID" /\ ~user[u].fresh
           THEN user' = [user EXCEPT ![u].pc = "login"] /\ UNCHANGED stored
           ELSE IF verdict = "INVALID" THEN EndUse(u, "verification error")
           ELSE IF user[u].attempts + 1 < MaxAttempts
           THEN user' = [user EXCEPT ![u].attempts = @ + 1] /\ UNCHANGED stored
           ELSE EndUse(u, IF user[u].fresh THEN "verification error" ELSE "ambiguous")
  /\ UNCHANGED <<issued, live, uses, wasLive, wasDead>>

\* reauth_fn: a new token, or none.
Reauthenticate(u) ==
  /\ user[u].pc = "login" /\ issued < MaxLogins
  /\ \/ /\ issued' = issued + 1 /\ live' = issued + 1
        /\ user' = [user EXCEPT ![u] = [@ EXCEPT !.pc = "probe", !.token = issued + 1,
                                                 !.attempts = 0, !.fresh = TRUE]]
        /\ SeenWith(issued + 1)
        /\ UNCHANGED stored
     \/ /\ EndUse(u, "verification error")
        /\ UNCHANGED <<issued, live, wasLive, wasDead>>
  /\ UNCHANGED uses

\* EXTERNAL: the token expires or is revoked.
TokenDies ==
  /\ live # 0
  /\ live' = 0
  /\ SeenWith(0)
  /\ UNCHANGED <<user, stored, issued, uses>>

TokenDone ==
  /\ \/ uses = MaxUses /\ \A u \in Users : user[u].pc = "idle"
     \/ issued = MaxLogins
  /\ UNCHANGED tokenVars

TokenNext ==
  \/ \E u \in Users : BeginUse(u) \/ ProbeToken(u) \/ Reauthenticate(u)
  \/ TokenDies \/ TokenDone

TokenSpec == TokenInit /\ [][TokenNext]_tokenVars

-----------------------------------------------------------------------------
TokenTypeOK ==
  /\ user \in [Users -> [pc : {"idle", "probe", "login"}, token : Nat, attempts : 0..MaxAttempts,
                         fresh : BOOLEAN,
                         end : {"none", "returned", "ambiguous", "verification error"}]]
  /\ stored \in 0..issued /\ live \in 0..issued

\* A caller that was given a token was given one that worked during its call, and
\* a login was spent only when there was no cached token or it had been dead
\* during the call: no outage, overload or unknown answer costs a login, and no
\* concurrent login makes a caller return a token that never worked for it.
TokenVerdictsAreTrue ==
  \A u \in Users :
    /\ user[u].end = "returned" => user[u].token \in wasLive[u] \ {0}
    /\ user[u].pc = "login" => user[u].token = 0 \/ wasDead[u]
=============================================================================
