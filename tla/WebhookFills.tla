---------------------------- MODULE WebhookFills -----------------------------
(***************************************************************************)
(* WebhookConsumerManager.process_webhook: request threads that take in    *)
(* fills delivered at least once, in any order, by a publisher whose clock *)
(* may run ahead or behind.  A delivery is checked for freshness, then the *)
(* execution is claimed under the lock, then its sequence number is        *)
(* recorded under the lock again; time passes in between.                  *)
(*                                                                         *)
(* Claims are kept for retention_seconds and up to max_tracked_executions. *)
(* All executions belong to one order and are named by their sequence      *)
(* number.                                                                 *)
(***************************************************************************)
EXTENDS Integers, FiniteSets

CONSTANTS
  Requests,        \* request threads
  Execs,           \* executions, by sequence number
  Drift,           \* max_drift_seconds
  FutureDrift,     \* max_future_drift_seconds
  Retention,       \* retention_seconds
  MaxTracked,      \* max_tracked_executions
  MaxStall,        \* longest time a request takes from its check to its claim
  Skews,           \* bound: how far the publisher's clock is off
  MaxWhClock, MaxDeliveries  \* bounds: time, deliveries

Unstamped == -1000  \* no publisher's clock is that far behind

ASSUME WebhookAssumption ==
  /\ Execs \subseteq Nat /\ Skews \subseteq {s \in Int : s > Unstamped}
  /\ Drift \in Nat \ {0} /\ FutureDrift \in Nat /\ MaxStall \in Nat
  /\ Retention \in Nat /\ Retention >= Drift + FutureDrift + MaxStall
  /\ MaxTracked \in Nat \ {0} /\ MaxWhClock \in Nat /\ MaxDeliveries \in Nat

VARIABLES
  whClock,
  claims,       \* _claims: executions, when they were claimed and in which order
  nextSweep,    \* _next_sweep_at
  orderState,   \* _orders: highest_sequence and seen_sequences
  request,      \* the step of each request thread and its delivery
  stamp,        \* the timestamp the publisher signed for each execution
  deliveries,
  ledger,       \* observer: how often apply_to_ledger was true for an execution
  forgotten     \* observer: executions dropped for the capacity

whVars == <<whClock, claims, nextSweep, orderState, request, stamp, deliveries, ledger, forgotten>>

IdleRequest == [pc |-> "idle", exec |-> 0, at |-> 0]

\* _sweep_interval: a tenth of the retention, at least a second.
SweepInterval == IF Retention < 20 THEN 1 ELSE Retention \div 10

WhInit ==
  /\ whClock = 0 /\ claims = {} /\ nextSweep = SweepInterval
  /\ orderState = [highest |-> -1, seen |-> {}]
  /\ request = [r \in Requests |-> IdleRequest]
  /\ stamp = [e \in Execs |-> Unstamped]
  /\ deliveries = 0
  /\ ledger = [e \in Execs |-> 0] /\ forgotten = {}

-----------------------------------------------------------------------------
\* Mutant: only the age of a stamp is bounded.
FreshIfNotOld(ts) == whClock - ts <= Drift

\* verify_timestamp
Fresh(ts) ==
  IF whClock >= ts THEN whClock - ts <= Drift ELSE ts - whClock <= FutureDrift

\* A claim is past its retention.
Expired(c) == c.at < whClock - Retention

\* _maybe_sweep_locked
Swept == IF whClock < nextSweep THEN claims ELSE {c \in claims : ~Expired(c)}

\* _enforce_capacity_locked: the newest claims of S stay.
KeptClaims(S) == {c \in S : Cardinality({d \in S : d.n >= c.n}) <= MaxTracked}

\* EXTERNAL: the publisher delivers an execution, for the first time or again.
\* The request thread checks its freshness; a stale one is rejected and leaves no
\* trace.
Deliver(r, e) ==
  /\ request[r].pc = "idle" /\ deliveries < MaxDeliveries
  /\ deliveries' = deliveries + 1
  /\ IF stamp[e] = Unstamped
     THEN \E skew \in Skews : stamp' = [stamp EXCEPT ![e] = whClock + skew]
     ELSE UNCHANGED stamp
  /\ request' = IF Fresh(stamp'[e])
                THEN [request EXCEPT ![r] = [pc |-> "verified", exec |-> e, at |-> whClock]]
                ELSE request
  /\ UNCHANGED <<whClock, claims, nextSweep, orderState, ledger, forgotten>>

\* A delivery that is refused: the signature does not verify, or a field does not
\* parse.
Refuse(r) ==
  /\ request[r].pc = "idle" /\ deliveries < MaxDeliveries
  /\ deliveries' = deliveries + 1
  /\ UNCHANGED <<whClock, claims, nextSweep, orderState, request, stamp, ledger, forgotten>>

\* claim_execution: sweep, look the execution up, drop its claim if that has
\* expired, claim it and keep within the capacity.  A duplicate is reported, with
\* a flag when its body differs, and not applied.
ClaimExecution(r) ==
  LET e == request[r].exec
      held == \E c \in Swept : c.exec = e /\ ~Expired(c)
      others == {c \in Swept : c.exec # e}
      last == CHOOSE n \in {0} \cup {c.n : c \in others} : \A c \in others : c.n <= n
      longer == others \cup {[exec |-> e, at |-> whClock, n |-> last + 1]}
  IN
  /\ request[r].pc = "verified"
  /\ nextSweep' = IF whClock < nextSweep THEN nextSweep ELSE whClock + SweepInterval
  /\ IF held
     THEN /\ claims' = Swept
          /\ request' = [request EXCEPT ![r] = IdleRequest]
          /\ UNCHANGED forgotten
     ELSE /\ claims' = KeptClaims(longer)
          /\ forgotten' = forgotten \cup {c.exec : c \in longer \ KeptClaims(longer)}
          /\ request' = [request EXCEPT ![r].pc = "claimed"]
  /\ UNCHANGED <<whClock, orderState, stamp, deliveries, ledger>>

\* is_duplicate: a read that sweeps, and drops the claim asked for if it expired.
IsDuplicate(e) ==
  /\ claims # {}
  /\ nextSweep' = IF whClock < nextSweep THEN nextSweep ELSE whClock + SweepInterval
  /\ claims' = {c \in Swept : c.exec = e => ~Expired(c)}
  /\ UNCHANGED <<whClock, orderState, request, stamp, deliveries, ledger, forgotten>>

\* The sequence number is recorded, and the result with apply_to_ledger returned.
RecordSequence(r) ==
  LET e == request[r].exec
  IN
  /\ request[r].pc = "claimed"
  /\ orderState' = [highest |-> IF e > orderState.highest THEN e ELSE orderState.highest,
                    seen |-> orderState.seen \cup {e}]
  /\ ledger' = [ledger EXCEPT ![e] = @ + 1]
  /\ request' = [request EXCEPT ![r] = IdleRequest]
  /\ UNCHANGED <<whClock, claims, nextSweep, stamp, deliveries, forgotten>>

\* Time passes, but no request takes longer than MaxStall to reach its claim.
WhTick ==
  /\ whClock < MaxWhClock
  /\ \A r \in Requests : request[r].pc = "verified" => whClock - request[r].at < MaxStall
  /\ whClock' = whClock + 1
  /\ UNCHANGED <<claims, nextSweep, orderState, request, stamp, deliveries, ledger, forgotten>>

WhDone ==
  /\ deliveries = MaxDeliveries /\ \A r \in Requests : request[r].pc = "idle"
  /\ UNCHANGED whVars

WhNext ==
  \/ \E r \in Requests :
       Refuse(r) \/ ClaimExecution(r) \/ RecordSequence(r) \/ \E e \in Execs : Deliver(r, e)
  \/ \E e \in Execs : IsDuplicate(e)
  \/ WhTick \/ WhDone

\* missing_sequences
MissingSequences ==
  {s \in Execs : /\ \E low \in orderState.seen : low <= s
                 /\ s < orderState.highest /\ s \notin orderState.seen}

WhSpec == WhInit /\ [][WhNext]_whVars

-----------------------------------------------------------------------------
WhTypeOK ==
  /\ Cardinality(claims) <= MaxTracked
  /\ \A c \in claims : c.exec \in Execs /\ c.at \in 0..whClock
  /\ request \in [Requests -> [pc : {"idle", "verified", "claimed"}, exec : Execs \cup {0},
                               at : Nat]]
  /\ orderState.seen \subseteq Execs

\* "True exactly once per (order_id, exec_id)": however often, late and
\* concurrently an execution is delivered, and although freshness is checked
\* before the claim and claims expire, it is applied at most once, unless the
\* store had to drop it for its capacity; and a sequence number that is not
\* reported missing, between those seen, has been applied.
WebhookAppliedOnce ==
  \A e \in Execs :
    /\ e \notin forgotten => ledger[e] <= 1
    /\ ledger[e] = 0 /\ (\E d \in Execs : d < e /\ ledger[d] > 0)
         /\ (\E d \in Execs : d > e /\ ledger[d] > 0) => e \in MissingSequences
=============================================================================
