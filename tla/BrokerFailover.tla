---------------------------- MODULE BrokerFailover ----------------------------
(***************************************************************************)
(* BrokerFailoverRouter of failover_router.py: strategy threads that open  *)
(* and reduce a position of one symbol through a primary account guarded   *)
(* by a circuit breaker and a secondary one, an operator, and brokers that *)
(* may take an order and fail to say so.                                   *)
(*                                                                         *)
(* An opening order buys one lot, a reducing one sells it; an order the    *)
(* broker takes is filled.  Each section the code runs under its lock is a *)
(* step, and so is each call of a broker or of the resolver.  Time is two  *)
(* flags: whether the recovery timeout and the Retry-After have elapsed.   *)
(* Counters that are only reported are left out.                           *)
(***************************************************************************)
EXTENDS Integers, FiniteSets, Sequences

CONSTANTS
  FoThreads,
  MaxConsecutiveFailures,     \* max_consecutive_failures
  HalfOpenMaxProbes,          \* half_open_max_probes
  HalfOpenSuccessesToClose,   \* half_open_successes_to_close
  Holdings,                   \* the position each account starts with
  MaxFoOrders, MaxFoManual    \* bounds: orders, operator actions

ASSUME FailoverAssumption ==
  /\ {MaxConsecutiveFailures, HalfOpenMaxProbes, HalfOpenSuccessesToClose} \subseteq Nat \ {0}
  /\ Holdings \in [{"primary", "secondary"} -> Nat]
  /\ {MaxFoOrders, MaxFoManual} \subseteq Nat

VARIABLES
  circuit,      \* circuit_state, the counts beside it, and the two deadlines
  positions,    \* _positions of the symbol
  foOrder,      \* every order: its effect, where it is live, what its caller was told
  foCall,       \* each thread's call
  foManual      \* operator actions so far

foVars == <<circuit, positions, foOrder, foCall, foManual>>

Accounts == {"primary", "secondary"}
NoCall == [pc |-> "idle", id |-> 0, at |-> "primary", gen |-> 0, probe |-> FALSE, class |-> "OK",
           retryAfter |-> FALSE]

FoInit ==
  /\ circuit = [state |-> "CLOSED", failures |-> 0, gen |-> 0, probes |-> 0, successes |-> 0,
                manual |-> FALSE, elapsed |-> TRUE, backoff |-> FALSE]
  /\ positions = Holdings
  /\ foOrder = <<>>
  /\ foCall = [t \in FoThreads |-> NoCall]
  /\ foManual = 0

-----------------------------------------------------------------------------
\* A refused connection and a failed name lookup prove that nothing was sent; a
\* BrokerError says what it is; after anything else the order may be live.
BrokerErrors == {"UNAVAILABLE", "AMBIGUOUS", "RATE_LIMITED", "REJECTED"}
Exceptions == BrokerErrors \cup {"ConnectionRefused", "ConnectionReset", "SymbolMapping"}

\* Mutant: a connection that died under way is taken for one that was refused.
ClassifyResetAsRefused(exc) ==
  CASE exc \in BrokerErrors -> exc
    [] exc \in {"ConnectionRefused", "ConnectionReset"} -> "UNAVAILABLE"
    [] OTHER -> "AMBIGUOUS"

\* classify_exception
ClassifyException(exc) ==
  CASE exc \in BrokerErrors -> exc
    [] exc = "ConnectionRefused" -> "UNAVAILABLE"
    [] OTHER -> "AMBIGUOUS"

\* External: after which answers may the broker have taken the order?
MayBeLive(exc) == exc \in {"AMBIGUOUS", "ConnectionReset"}

\* _trip_locked
Trip(c) == [c EXCEPT !.state = "OPEN", !.gen = @ + 1, !.probes = 0, !.successes = 0]

\* _snapshot_state
Promoted(c) ==
  IF c.state = "OPEN" /\ ~c.manual /\ c.elapsed
  THEN [c EXCEPT !.state = "HALF_OPEN", !.probes = 0, !.successes = 0] ELSE c

\* _record_primary_success
PrimarySucceeded(c, gen, probe) ==
  LET earned == c.state = "HALF_OPEN" /\ probe
  IN  IF gen # c.gen \/ c.state = "OPEN" THEN c
      ELSE IF earned /\ c.successes + 1 < HalfOpenSuccessesToClose
      THEN [c EXCEPT !.successes = @ + 1]
      ELSE [c EXCEPT !.state = "CLOSED", !.failures = 0, !.successes = 0, !.backoff = FALSE]

\* _record_primary_failure
PrimaryFailed(c, gen, retryAfter) ==
  LET noted == [c EXCEPT !.elapsed = FALSE, !.backoff = @ \/ retryAfter]
      counted == [noted EXCEPT !.failures = @ + 1]
  IN  IF gen # c.gen THEN noted
      ELSE IF c.state = "HALF_OPEN" \/ counted.failures >= MaxConsecutiveFailures
      THEN Trip(counted) ELSE counted

-----------------------------------------------------------------------------
Order(t) == foOrder[foCall[t].id]

\* What the steps after the record of an outcome no longer use is forgotten.
Proceed(t, pc) ==
  foCall' = [foCall EXCEPT ![t].pc = pc, ![t].gen = IF pc = "send" THEN @ ELSE 0,
                           ![t].class = "OK", ![t].retryAfter = FALSE]

\* The call ends: with a result, with AmbiguousOrderStateError, or with an error
\* that says the order was not placed (a rejection, no broker or no account left
\* to take it, no symbol mapping).  A probe gives its permit back on the way
\* out (finally).
Finish(t, told) ==
  /\ foOrder' = [foOrder EXCEPT ![foCall[t].id].told = told]
  /\ foCall' = [foCall EXCEPT ![t] = IF @.probe THEN [NoCall EXCEPT !.pc = "leave"] ELSE NoCall]

\* submit_order, opening: the circuit is read and an overdue one half-opens.
SubmitOpen(t) ==
  LET c == Promoted(circuit)
      next == CASE c.state = "CLOSED" -> "backoff"
                [] c.state = "HALF_OPEN" -> "permit"
                [] c.state = "OPEN" -> "failover"
  IN
  /\ foCall[t].pc = "idle" /\ Len(foOrder) < MaxFoOrders
  /\ foOrder' = Append(foOrder, [effect |-> "OPEN", live |-> {}, told |-> "nothing"])
  /\ foCall' = [foCall EXCEPT ![t] = [NoCall EXCEPT !.pc = next, !.id = Len(foOrder'),
                              !.gen = IF c.state = "OPEN" THEN 0 ELSE c.gen]]
  /\ circuit' = c
  /\ UNCHANGED <<positions, foManual>>

\* _acquire_probe_permit
AcquireProbePermit(t) ==
  LET granted == circuit.state = "HALF_OPEN" /\ circuit.probes < HalfOpenMaxProbes
  IN
  /\ foCall[t].pc = "permit"
  /\ circuit' = IF granted THEN [circuit EXCEPT !.probes = @ + 1] ELSE circuit
  /\ foCall' = [foCall EXCEPT ![t].pc = IF granted THEN "backoff" ELSE "failover",
                              ![t].probe = granted, ![t].gen = IF granted THEN @ ELSE 0]
  /\ UNCHANGED <<positions, foOrder, foManual>>

\* _in_backoff: inside the Retry-After the primary is passed over.
CheckBackoff(t) ==
  /\ foCall[t].pc = "backoff"
  /\ Proceed(t, IF ~circuit.backoff THEN "send"
             ELSE IF foCall[t].probe THEN "give back" ELSE "failover")
  /\ UNCHANGED <<circuit, positions, foOrder, foManual>>

\* _release_probe_permit
ReleaseProbePermit(t) ==
  /\ foCall[t].pc \in {"give back", "leave"}
  /\ circuit' = [circuit EXCEPT !.probes = IF @ > 0 THEN @ - 1 ELSE @]
  /\ foCall' = [foCall EXCEPT ![t] = IF @.pc = "leave" THEN NoCall
                                     ELSE [@ EXCEPT !.pc = "failover", !.probe = FALSE, !.gen = 0]]
  /\ UNCHANGED <<positions, foOrder, foManual>>

\* submit_order, reducing: the accounts are looked at in turn (_can_reduce_at).
SubmitReduce(t) ==
  /\ foCall[t].pc = "idle" /\ Len(foOrder) < MaxFoOrders
  /\ foOrder' = Append(foOrder, [effect |-> "REDUCE", live |-> {}, told |-> "nothing"])
  /\ foCall' = [foCall EXCEPT ![t] = [NoCall EXCEPT !.pc = "can reduce", !.id = Len(foOrder')]]
  /\ UNCHANGED <<circuit, positions, foManual>>

CanReduceAt(t) ==
  /\ foCall[t].pc = "can reduce"
  /\ \/ /\ positions[foCall[t].at] >= 1
        /\ Proceed(t, "send") /\ UNCHANGED foOrder
     \/ /\ positions[foCall[t].at] < 1 /\ foCall[t].at = "primary"
        /\ foCall' = [foCall EXCEPT ![t].at = "secondary"] /\ UNCHANGED foOrder
     \/ /\ positions[foCall[t].at] < 1 /\ foCall[t].at = "secondary"
        /\ Finish(t, "not placed")
  /\ UNCHANGED <<circuit, positions, foManual>>

-----------------------------------------------------------------------------
\* _route_to_broker: the broker takes the order and says so.
BrokerAccepts(t) ==
  LET f == foCall[t]
      reduce == Order(t).effect = "REDUCE"
  IN
  /\ f.pc \in {"send", "failover"}
  /\ LET b == IF f.pc = "failover" THEN "secondary" ELSE f.at
     IN  /\ foOrder' = [foOrder EXCEPT ![f.id].live = @ \cup {b}]
         /\ foCall' = [foCall EXCEPT ![t].class = "OK", ![t].at = b,
                         ![t].pc = CASE b = "secondary" -> "apply"
                                     [] b = "primary" /\ reduce -> "generation"
                                     [] b = "primary" /\ ~reduce -> "record"]
  /\ UNCHANGED <<circuit, positions, foManual>>

\* _route_to_broker raises: the error is classified, and the broker may have taken
\* the order all the same.  A missing symbol mapping is raised before anything is
\* sent; only the failover mistakes it for an answer of the broker.
BrokerRaises(t, exc, taken, retryAfter) ==
  LET f == foCall[t]
      b == IF f.pc = "failover" THEN "secondary" ELSE f.at
      reduce == Order(t).effect = "REDUCE"
      class == ClassifyException(exc)
      unmapped == exc = "SymbolMapping" /\ f.pc = "send"
      told == IF class = "AMBIGUOUS" /\ ~unmapped THEN "Ambiguous" ELSE "not placed"
      order == [foOrder EXCEPT ![f.id].live = IF taken THEN @ \cup {b} ELSE @]
  IN
  /\ f.pc \in {"send", "failover"}
  /\ taken => MayBeLive(exc)
  /\ retryAfter => exc \in BrokerErrors
  /\ IF b = "secondary" \/ class = "REJECTED" \/ unmapped
     THEN /\ foOrder' = [order EXCEPT ![f.id].told = told]
          /\ foCall' = [foCall EXCEPT ![t] = IF f.probe THEN [NoCall EXCEPT !.pc = "leave"]
                                             ELSE NoCall]
     ELSE /\ foOrder' = order
          /\ foCall' = [foCall EXCEPT ![t].pc = IF reduce THEN "generation" ELSE "record",
                                      ![t].class = class, ![t].retryAfter = retryAfter]
  /\ UNCHANGED <<circuit, positions, foManual>>

\* _current_generation: a reducing call reads it only after the broker answered.
CurrentGeneration(t) ==
  /\ foCall[t].pc = "generation"
  /\ foCall' = [foCall EXCEPT ![t].gen = circuit.gen, ![t].pc = "record"]
  /\ UNCHANGED <<circuit, positions, foOrder, foManual>>

\* _record_primary_success, or _record_primary_failure and what
\* _handle_primary_exception and _submit_reduce_order make of it.
RecordPrimary(t) ==
  LET f == foCall[t]
      reduce == Order(t).effect = "REDUCE"
  IN
  /\ f.pc = "record"
  /\ circuit' = IF f.class = "OK" THEN PrimarySucceeded(circuit, f.gen, f.probe)
                ELSE PrimaryFailed(circuit, f.gen, f.retryAfter)
  /\ CASE f.class = "OK" -> Proceed(t, "apply") /\ UNCHANGED foOrder
       [] f.class = "AMBIGUOUS" /\ reduce -> Finish(t, "Ambiguous")
       [] f.class = "AMBIGUOUS" /\ ~reduce -> Proceed(t, "resolve") /\ UNCHANGED foOrder
       [] f.class \notin {"OK", "AMBIGUOUS"} /\ reduce -> Finish(t, "not placed")
       [] f.class \notin {"OK", "AMBIGUOUS"} /\ ~reduce ->
            Proceed(t, IF f.probe THEN "give back" ELSE "failover") /\ UNCHANGED foOrder
  /\ UNCHANGED <<positions, foManual>>

\* _try_resolve: an absent resolver, one that fails and one that does not find the
\* order leave the outcome open; none of them means that the order is not there.
TryResolve(t) ==
  /\ foCall[t].pc = "resolve"
  /\ \/ Order(t).live # {} /\ Proceed(t, "apply") /\ UNCHANGED foOrder
     \/ Finish(t, "Ambiguous")
  /\ UNCHANGED <<circuit, positions, foManual>>

\* _apply_fill, and the result is returned
ApplyFill(t) ==
  /\ foCall[t].pc = "apply"
  /\ positions' = [positions EXCEPT ![foCall[t].at] =
                     @ + (IF Order(t).effect = "OPEN" THEN 1 ELSE -1)]
  /\ Finish(t, "OK")
  /\ UNCHANGED <<circuit, foManual>>

-----------------------------------------------------------------------------
\* The position an account really has after the orders of S.
Lots(S) == Cardinality({i \in S : foOrder[i].effect = "OPEN"})
           - Cardinality({i \in S : foOrder[i].effect = "REDUCE"})
LiveAt(b) == {i \in DOMAIN foOrder : b \in foOrder[i].live}
Held(b) == Holdings[b] + Lots(LiveAt(b))

\* set_position: the operator corrects an account from the broker's own report
\* while nothing is being sent, which settles the orders left open there.
SetPosition(b) ==
  /\ \A t \in FoThreads : foCall[t].pc = "idle"
  /\ \E i \in LiveAt(b) : foOrder[i].told = "Ambiguous"
  /\ foManual < MaxFoManual /\ foManual' = foManual + 1
  /\ positions' = [positions EXCEPT ![b] = Held(b)]
  /\ foOrder' = [i \in DOMAIN foOrder |->
                   IF foOrder[i].told = "Ambiguous" /\ b \in foOrder[i].live
                   THEN [foOrder[i] EXCEPT !.told = "OK"] ELSE foOrder[i]]
  /\ UNCHANGED <<circuit, foCall>>

\* manual_reset
ManualReset ==
  /\ foManual < MaxFoManual /\ foManual' = foManual + 1
  /\ circuit' = [circuit EXCEPT !.state = "CLOSED", !.failures = 0, !.gen = @ + 1,
                   !.probes = 0, !.successes = 0, !.manual = FALSE, !.elapsed = TRUE,
                   !.backoff = FALSE]
  /\ UNCHANGED <<positions, foOrder, foCall>>

\* manual_open
ManualOpen ==
  /\ foManual < MaxFoManual /\ foManual' = foManual + 1
  /\ circuit' = [Trip(circuit) EXCEPT !.manual = TRUE, !.elapsed = FALSE]
  /\ UNCHANGED <<positions, foOrder, foCall>>

\* Time passes: the recovery timeout, which only an open circuit waits for, or the
\* Retry-After is over.
TimePasses ==
  /\ \/ circuit.state = "OPEN" /\ ~circuit.elapsed /\ circuit' = [circuit EXCEPT !.elapsed = TRUE]
     \/ circuit.backoff /\ circuit' = [circuit EXCEPT !.backoff = FALSE]
  /\ UNCHANGED <<positions, foOrder, foCall, foManual>>

FoDone ==
  /\ \A t \in FoThreads : foCall[t].pc = "idle"
  /\ UNCHANGED foVars

FoNext ==
  \/ \E t \in FoThreads :
       \/ SubmitOpen(t) \/ SubmitReduce(t)
       \/ AcquireProbePermit(t) \/ CheckBackoff(t) \/ ReleaseProbePermit(t) \/ CanReduceAt(t)
       \/ BrokerAccepts(t)
       \/ \E exc \in Exceptions, taken, retryAfter \in BOOLEAN :
            BrokerRaises(t, exc, taken, retryAfter)
       \/ CurrentGeneration(t) \/ RecordPrimary(t) \/ TryResolve(t) \/ ApplyFill(t)
  \/ \E b \in Accounts : SetPosition(b)
  \/ ManualReset \/ ManualOpen \/ TimePasses \/ FoDone

FoSpec == FoInit /\ [][FoNext]_foVars

-----------------------------------------------------------------------------
FoTypeOK ==
  /\ circuit \in [state : {"CLOSED", "OPEN", "HALF_OPEN"}, failures : Nat, gen : Nat,
                  probes : 0..HalfOpenMaxProbes, successes : 0..(HalfOpenSuccessesToClose - 1),
                  manual : BOOLEAN, elapsed : BOOLEAN, backoff : BOOLEAN]
  /\ positions \in [Accounts -> Int]
  /\ \A i \in DOMAIN foOrder :
       foOrder[i] \in [effect : {"OPEN", "REDUCE"}, live : SUBSET Accounts,
                       told : {"nothing", "OK", "Ambiguous", "not placed"}]
  /\ \A t \in FoThreads :
       foCall[t] \in [pc : {"idle", "backoff", "permit", "failover", "give back", "leave", "send",
                            "can reduce", "generation", "record", "resolve", "apply"},
                      id : 0..MaxFoOrders, at : Accounts, gen : Nat, probe : BOOLEAN,
                      class : BrokerErrors \cup {"OK"}, retryAfter : BOOLEAN]
  /\ foManual \in 0..MaxFoManual

\* An order is never live in both accounts, however its calls failed; a caller who
\* is told that an order was refused, or that no account could take it, has no live
\* order, and one who is told of a success has one; and the cached position of each
\* account is what the account holds, but for the orders whose callers are still
\* waiting or were told to reconcile.
FailoverIsSafe ==
  /\ \A i \in DOMAIN foOrder :
       /\ Cardinality(foOrder[i].live) <= 1
       /\ foOrder[i].told = "OK" => foOrder[i].live # {}
       /\ foOrder[i].live # {} => foOrder[i].told \in {"nothing", "OK", "Ambiguous"}
  /\ \A b \in Accounts :
       positions[b] = Holdings[b] + Lots({i \in LiveAt(b) : foOrder[i].told = "OK"})
  /\ circuit.manual => circuit.state = "OPEN"
=============================================================================
