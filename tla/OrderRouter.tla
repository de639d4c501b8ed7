----------------------------- MODULE OrderRouter -----------------------------
(***************************************************************************)
(* IdempotentOrderRouter of order_ledger.py: the threads of one process    *)
(* that share a router and its durable ledger, the broker they send orders *)
(* to, and the crashes after which the same ledger file is opened again.   *)
(*                                                                         *)
(* place_order claims its key in the ledger before it sends, and re-sends  *)
(* a key only after the broker's order book has proved it absent.          *)
(* recover_unresolved settles what a crash left open.  Both run under the  *)
(* router's _send_lock, in the steps that pc names: between two of them    *)
(* the process may crash and the broker may act.                           *)
(***************************************************************************)
EXTENDS OrderLedger, OrderResponse

CONSTANTS
  Threads,          \* threads of the trading process
  NoThread,         \* nobody: the send lock is free
  Keys,             \* idempotency keys
  SameAttributes,   \* do all keys share symbol, side, quantity and price?
  BrokerEchoesKey,  \* constructor argument broker_echoes_key
  LateDelivery,     \* may a request still reach the broker after a book query?
  MaxSlices,        \* orders a broker may make of one request
  MaxCalls,         \* bound: calls of place_order
  MaxSweeps,        \* bound: calls of recover_unresolved
  MaxCrashes        \* bound: crashes of the process

ASSUME RouterAssumption ==
  /\ NoThread \notin Threads
  /\ Keys # {}
  /\ SameAttributes \in BOOLEAN
  /\ BrokerEchoesKey \in BOOLEAN
  /\ LateDelivery \in BOOLEAN
  /\ MaxSlices \in Nat \ {0}
  /\ MaxCalls \in Nat /\ MaxSweeps \in Nat /\ MaxCrashes \in Nat

VARIABLES
  orders,     \* durable: the ledger, NoRow for a key that has no row
  archive,    \* durable: how often each key was released (released_intents)
  clock,      \* time.time(), which advances with every claim
  sendLock,   \* the holder of _send_lock
  pc,         \* the step each thread is about to take
  key,        \* the idempotency key the thread works on
  seen,       \* what the broker's answer or its order book told the thread
  frame,      \* the rest of the thread's local variables
  ret,        \* what the thread's last call returned
  wire,       \* requests on their way to the broker
  processed,  \* requests the broker has dealt with
  book,       \* the broker's order book, refused orders included
  nsent,      \* requests sent so far under each key
  budget      \* calls, sweeps and crashes so far

procVars   == <<sendLock, pc, key, seen, frame, ret>>
brokerVars == <<wire, processed, book>>
vars == <<orders, archive, clock, sendLock, pc, key, seen, frame, ret,
          wire, processed, book, nsent, budget>>

-----------------------------------------------------------------------------
\* The n-th request sent under a key, and an order the broker made of it: one
\* leg of the request, accepted ("live", filled or cancelled later or not) or
\* refused.  The request and the leg identify the order at the broker.
Requests == [key : Keys, n : Nat \ {0}]
BrokerOrders == [req : Requests, leg : 1..MaxSlices, live : BOOLEAN]
OrderIds == Requests \X (1..MaxSlices)
Id(e) == <<e.req, e.leg>>

LiveOrders(k) == {e \in book : e.req.key = k /\ e.live}
Linked == UNION {orders[k].ids : k \in Keys}

\* The steps a thread takes while it holds _send_lock.
Critical == {"existing", "send", "wait", "record", "query", "apply",
             "reclaim", "sweep"}

\* Statuses place_order returns, without their ALREADY_/RECONCILED_ prefix, and
\* the two results of a sweep: every visited key resolved, or some left open.
Returns == {"NONE", "PLACED", "REJECTED", "ABSENT_SAFE_TO_RESEND",
            "UNRESOLVED", "SWEPT_CLEAN", "SWEPT_DIRTY"}

Nothing == [what |-> "nothing", ids |-> {}]

\* Locals of a call: was an order book function supplied, which method asks for
\* the reconciliation, broker calls made so far; and for a sweep the keys still
\* to visit, the time it was called, stale_after_s, and whether a visited key
\* stayed unresolved.
NewFrame == [hasBook |-> FALSE, origin |-> "dispatch", sent |-> 0,
             todo |-> {}, now |-> 0, stale |-> 0, dirty |-> FALSE]

Init ==
  /\ orders = [k \in Keys |-> NoRow]
  /\ archive = [k \in Keys |-> 0]
  /\ clock = 0
  /\ sendLock = NoThread
  /\ pc = [t \in Threads |-> "idle"]
  /\ key = [t \in Threads |-> CHOOSE k \in Keys : TRUE]
  /\ seen = [t \in Threads |-> Nothing]
  /\ frame = [t \in Threads |-> NewFrame]
  /\ ret = [t \in Threads |-> "NONE"]
  /\ wire = {} /\ processed = {} /\ book = {}
  /\ nsent = [k \in Keys |-> 0]
  /\ budget = [calls |-> 0, sweeps |-> 0, crashes |-> 0]

-----------------------------------------------------------------------------
\* The end of a call: the with-block is left, so the lock is free again.
Return(t, value) ==
  /\ pc' = [pc EXCEPT ![t] = "idle"]
  /\ ret' = [ret EXCEPT ![t] = value]
  /\ seen' = [seen EXCEPT ![t] = Nothing]
  /\ frame' = [frame EXCEPT ![t] = NewFrame]
  /\ sendLock' = NoThread
  /\ UNCHANGED key

\* The call goes on with another step.
Continue(t, step, f) ==
  /\ pc' = [pc EXCEPT ![t] = step]
  /\ frame' = [frame EXCEPT ![t] = f]
  /\ UNCHANGED <<sendLock, key, ret>>

\* record_intent of the thread's key.
Claim(t) ==
  /\ orders' = [orders EXCEPT ![key[t]] = Claimed(clock + 1)]
  /\ clock' = clock + 1

-----------------------------------------------------------------------------
\* A caller enters place_order, with or without a broker_order_book_fn.
PlaceOrder(t) ==
  /\ pc[t] = "idle"
  /\ budget.calls < MaxCalls
  /\ \E k \in Keys, b \in BOOLEAN :
       /\ key' = [key EXCEPT ![t] = k]
       /\ frame' = [frame EXCEPT ![t] = [@ EXCEPT !.hasBook = b]]
  /\ pc' = [pc EXCEPT ![t] = "lock"]
  /\ ret' = [ret EXCEPT ![t] = "NONE"]
  /\ budget' = [budget EXCEPT !.calls = @ + 1]
  /\ UNCHANGED <<orders, archive, clock, sendLock, seen, brokerVars, nsent>>

\* Mutant: place_order without "with self._send_lock".
ClaimUnlocked(t) ==
  /\ pc[t] = "lock"
  /\ sendLock' = t
  /\ IF CanClaim(orders[key[t]])
     THEN Claim(t) /\ pc' = [pc EXCEPT ![t] = "send"]
     ELSE pc' = [pc EXCEPT ![t] = "existing"] /\ UNCHANGED <<orders, clock>>
  /\ UNCHANGED <<archive, key, seen, frame, ret, brokerVars, nsent, budget>>

\* place_order takes the lock and tries to claim the key.
LockAndClaim(t) ==
  /\ pc[t] = "lock"
  /\ sendLock = NoThread
  /\ sendLock' = t
  /\ IF CanClaim(orders[key[t]])
     THEN Claim(t) /\ pc' = [pc EXCEPT ![t] = "send"]
     ELSE pc' = [pc EXCEPT ![t] = "existing"] /\ UNCHANGED <<orders, clock>>
  /\ UNCHANGED <<archive, key, seen, frame, ret, brokerVars, nsent, budget>>

\* _handle_existing_intent up to its call of _reconcile: a settled row answers
\* the call, an open one is reconciled, never re-sent.
HandleExisting(t) ==
  LET status == orders[key[t]].status
  IN
  /\ pc[t] = "existing"
  /\ IF status \in Terminal THEN Return(t, status)
     ELSE IF ~frame[t].hasBook THEN Return(t, "UNRESOLVED")
     ELSE Continue(t, "query", [frame[t] EXCEPT !.origin = "existing"])
          /\ UNCHANGED seen
  /\ UNCHANGED <<orders, archive, clock, brokerVars, nsent, budget>>

\* _dispatch calls broker_send_fn: the request is on the wire.
Send(t) ==
  LET n == nsent[key[t]] + 1
  IN
  /\ pc[t] = "send"
  /\ wire' = wire \cup {[key |-> key[t], n |-> n]}
  /\ nsent' = [nsent EXCEPT ![key[t]] = n]
  /\ Continue(t, "wait", [frame[t] EXCEPT !.sent = @ + 1])
  /\ UNCHANGED <<orders, archive, clock, seen, processed, book, budget>>

\* The request whose answer the thread waits for.
Pending(t) == [key |-> key[t], n |-> nsent[key[t]]]

\* broker_send_fn returns; classify_broker_response reads the body, which lists
\* every order the broker made of the request.
Respond(t) ==
  LET made == {e \in book : e.req = Pending(t)}
  IN
  /\ pc[t] = "wait"
  /\ Pending(t) \in processed
  /\ \E r \in Honest(\E e \in made : e.live, made # {}) :
       seen' = [seen EXCEPT ![t] =
                  [what |-> Classify(r),
                   ids |-> IF Classify(r) = "PLACED" THEN {Id(e) : e \in made} ELSE {}]]
  /\ Continue(t, "record", frame[t])
  /\ UNCHANGED <<orders, archive, clock, brokerVars, nsent, budget>>

\* broker_send_fn raises (timeout, lost connection): the outcome is unknown,
\* whether the request is still on the wire, lost or processed.
SendRaises(t) ==
  /\ pc[t] = "wait"
  /\ seen' = [seen EXCEPT ![t] = [what |-> "UNKNOWN", ids |-> {}]]
  /\ Continue(t, "record", frame[t])
  /\ UNCHANGED <<orders, archive, clock, brokerVars, nsent, budget>>

\* _dispatch writes the outcome to the ledger; an unknown one goes on to
\* _resolve_unknown, which needs an order book.
Record(t) ==
  LET status == seen[t].what
  IN
  /\ pc[t] = "record"
  /\ orders' = [orders EXCEPT ![key[t]] = Updated(@, status, seen[t].ids)]
  /\ IF status \in Terminal THEN Return(t, status)
     ELSE IF ~frame[t].hasBook THEN Return(t, "UNRESOLVED")
     ELSE Continue(t, "query", [frame[t] EXCEPT !.origin = "dispatch"])
          /\ UNCHANGED seen
  /\ UNCHANGED <<archive, clock, brokerVars, nsent, budget>>

-----------------------------------------------------------------------------
\* How the order book may show an order: a live one as working, a refused one
\* as rejected, either with a status that says neither; and any of them without
\* an order id the client can read.
Shown(e) ==
  [what : {IF e.live THEN "working" ELSE "rejected", "error"}, ids : {{Id(e)}, {}}]

\* _match_by_key: the first entry that carries the key; which one comes first
\* is the broker's choice.
KeyMatches(k) == {e \in book : e.req.key = k}

\* Mutant: orders another intent already owns are not excluded.
LookalikesOwned(k) == {e \in book : SameAttributes \/ e.req.key = k}

\* _match_by_attributes: entries with the intent's attributes that no row has
\* claimed.  Of these any subset may carry a timestamp inside fuzzy_window_s.
Lookalikes(k) == {e \in book : /\ SameAttributes \/ e.req.key = k
                               /\ Id(e) \notin Linked}

\* What _reconcile can read from the order book about key k.
BookView(k) ==
  IF BrokerEchoesKey
  THEN IF KeyMatches(k) = {} THEN {[what |-> "miss", ids |-> {}]}
       ELSE UNION {Shown(e) : e \in KeyMatches(k)}
  ELSE {[what |-> "miss", ids |-> {}]} \cup UNION {Shown(e) : e \in Lookalikes(k)}

\* _reconcile queries the order book.  Unless LateDelivery, the requests that
\* were on the wire have by now reached the broker or are lost for good.
QueryBook(t) ==
  /\ pc[t] = "query"
  /\ LateDelivery \/ wire = {}
  /\ \E view \in BookView(key[t]) : seen' = [seen EXCEPT ![t] = view]
  /\ Continue(t, "apply", frame[t])
  /\ UNCHANGED <<orders, archive, clock, brokerVars, nsent, budget>>

\* broker_order_book_fn raises.
QueryFails(t) ==
  /\ pc[t] = "query"
  /\ seen' = [seen EXCEPT ![t] = [what |-> "failed", ids |-> {}]]
  /\ Continue(t, "apply", frame[t])
  /\ UNCHANGED <<orders, archive, clock, brokerVars, nsent, budget>>

\* Mutants: a failed book query counts as a miss; an "error" status in the book is
\* read as a refusal.
OutcomeFailOpen(row, view) ==
  IF view.what \in {"miss", "failed"} /\ BrokerEchoesKey THEN "ABSENT"
  ELSE IF view.what = "rejected" THEN "FOUND_REJECTED"
  ELSE IF view.what = "working" /\ view.ids # {} THEN "FOUND_PLACED"
  ELSE "INCONCLUSIVE"

OutcomeErrorIsRefusal(row, view) ==
  IF view.what = "miss" /\ BrokerEchoesKey THEN "ABSENT"
  ELSE IF view.what \in {"rejected", "error"} THEN "FOUND_REJECTED"
  ELSE IF view.what = "working" /\ view.ids # {} THEN "FOUND_PLACED"
  ELSE "INCONCLUSIVE"

\* The ReconcileOutcome for a row, given what the book said: _reconcile after
\* the query, _apply_match and the refusal of _safe_update.
Outcome(row, view) ==
  IF row.status = "NONE" THEN "INCONCLUSIVE"
  ELSE IF view.what = "miss" /\ BrokerEchoesKey THEN "ABSENT"
  ELSE IF view.what = "rejected" /\ CanUpdate(row, "REJECTED") THEN "FOUND_REJECTED"
  ELSE IF view.what = "working" /\ view.ids # {} /\ CanUpdate(row, "PLACED")
       THEN "FOUND_PLACED"
  ELSE "INCONCLUSIVE"

\* The ledger row after that outcome; ABSENT releases the claim.
Reconciled(row, view) ==
  LET outcome == Outcome(row, view)
  IN  CASE outcome = "FOUND_PLACED"   -> Updated(row, "PLACED", view.ids)
        [] outcome = "FOUND_REJECTED" -> Updated(row, "REJECTED", {})
        [] outcome = "ABSENT" /\ CanRelease(row) -> NoRow
        [] OTHER -> row

\* Mutants: the ReconcileOutcome is passed on as it is; absent is reported as
\* rejected.
ReturnOfRaw(outcome) == outcome

ReturnOfAbsentRejected(outcome) ==
  CASE outcome = "FOUND_PLACED" -> "PLACED"
    [] outcome = "INCONCLUSIVE" -> "UNRESOLVED"
    [] OTHER                    -> "REJECTED"

\* What place_order returns for an outcome when it does not re-send.
ReturnOf(outcome) ==
  CASE outcome = "FOUND_PLACED"   -> "PLACED"
    [] outcome = "FOUND_REJECTED" -> "REJECTED"
    [] outcome = "ABSENT"         -> "ABSENT_SAFE_TO_RESEND"
    [] outcome = "INCONCLUSIVE"   -> "UNRESOLVED"

\* Mutant: a sweep remembers only whether its last key was resolved.
LastUnresolved(t, outcome) == outcome = "INCONCLUSIVE"

\* Is there an unresolved entry among the results of this sweep?
AnyUnresolved(t, outcome) == frame[t].dirty \/ outcome = "INCONCLUSIVE"

\* Mutant: _resolve_unknown re-sends as well, a second send in one call.
AlwaysResends(t, outcome) == outcome = "ABSENT" /\ frame[t].origin # "sweep"

\* Only _handle_existing_intent, which has not sent anything yet, re-sends.
Resends(t, outcome) == outcome = "ABSENT" /\ frame[t].origin = "existing"

\* The end of _reconcile, and the caller's reaction: _resolve_unknown returns,
\* _handle_existing_intent returns or re-claims, recover_unresolved goes on.
Apply(t) ==
  LET row     == orders[key[t]]
      outcome == Outcome(row, seen[t])
  IN
  /\ pc[t] = "apply"
  /\ orders' = [orders EXCEPT ![key[t]] = Reconciled(row, seen[t])]
  /\ archive' = IF outcome = "ABSENT" /\ CanRelease(row)
                THEN [archive EXCEPT ![key[t]] = @ + 1] ELSE archive
  /\ IF frame[t].origin = "sweep"
     THEN /\ Continue(t, "sweep", [frame[t] EXCEPT !.dirty = AnyUnresolved(t, outcome)])
          /\ seen' = [seen EXCEPT ![t] = Nothing]
     ELSE IF Resends(t, outcome)
     THEN Continue(t, "reclaim", frame[t]) /\ seen' = [seen EXCEPT ![t] = Nothing]
     ELSE Return(t, ReturnOf(outcome))
  /\ UNCHANGED <<clock, brokerVars, nsent, budget>>

\* _handle_existing_intent claims the released key again, to send in this call.
Reclaim(t) ==
  /\ pc[t] = "reclaim"
  /\ IF CanClaim(orders[key[t]])
     THEN Claim(t) /\ Continue(t, "send", frame[t]) /\ UNCHANGED seen
     ELSE Return(t, "UNRESOLVED") /\ UNCHANGED <<orders, clock>>
  /\ UNCHANGED <<archive, brokerVars, nsent, budget>>

-----------------------------------------------------------------------------
\* A caller enters recover_unresolved, which reads the clock before it waits for
\* the lock.
RecoverUnresolved(t) ==
  /\ pc[t] = "idle"
  /\ budget.sweeps < MaxSweeps
  /\ \E stale \in 0..clock :
       frame' = [frame EXCEPT ![t] = [@ EXCEPT !.now = clock, !.stale = stale]]
  /\ pc' = [pc EXCEPT ![t] = "rlock"]
  /\ ret' = [ret EXCEPT ![t] = "NONE"]
  /\ budget' = [budget EXCEPT !.sweeps = @ + 1]
  /\ UNCHANGED <<orders, archive, clock, sendLock, key, seen, brokerVars, nsent>>

\* It takes the lock and lists the unresolved rows.
SweepLock(t) ==
  /\ pc[t] = "rlock"
  /\ sendLock = NoThread
  /\ sendLock' = t
  /\ pc' = [pc EXCEPT ![t] = "sweep"]
  /\ frame' = [frame EXCEPT ![t] =
                 [@ EXCEPT !.todo = {k \in Keys : orders[k].status \in Open}]]
  /\ UNCHANGED <<orders, archive, clock, key, seen, ret, brokerVars, nsent, budget>>

\* Mutant: the sweep goes on until every row is resolved.
SweepUntilResolved(t) ==
  LET todo == {k \in Keys : orders[k].status \in Open}
  IN
  /\ pc[t] = "sweep"
  /\ \/ todo = {} /\ Return(t, "SWEPT_CLEAN")
     \/ \E k \in todo :
          /\ pc' = [pc EXCEPT ![t] = "query"]
          /\ key' = [key EXCEPT ![t] = k]
          /\ frame' = [frame EXCEPT ![t] = [@ EXCEPT !.origin = "sweep"]]
          /\ UNCHANGED <<sendLock, seen, ret>>
  /\ UNCHANGED <<orders, archive, clock, brokerVars, nsent, budget>>

\* One turn of the loop, oldest row first: skip a row whose age is below
\* stale_after_s, reconcile the others, return when none is left.
Sweep(t) ==
  LET todo == frame[t].todo
  IN
  /\ pc[t] = "sweep"
  /\ \/ /\ todo = {}
        /\ Return(t, IF frame[t].dirty THEN "SWEPT_DIRTY" ELSE "SWEPT_CLEAN")
     \/ \E k \in todo :
          /\ \A j \in todo : orders[k].created <= orders[j].created
          /\ LET rest == [frame[t] EXCEPT !.todo = todo \ {k}]
             IN  IF rest.now < orders[k].created + rest.stale
                 THEN Continue(t, "sweep", rest) /\ UNCHANGED seen
                 ELSE /\ pc' = [pc EXCEPT ![t] = "query"]
                      /\ key' = [key EXCEPT ![t] = k]
                      /\ frame' = [frame EXCEPT ![t] = [rest EXCEPT !.origin = "sweep"]]
                      /\ UNCHANGED <<sendLock, seen, ret>>
  /\ UNCHANGED <<orders, archive, clock, brokerVars, nsent, budget>>

-----------------------------------------------------------------------------
\* EXTERNAL: the broker deals with a request.  It refuses it at the door, or
\* turns it into orders, each accepted or refused.
Receive(m) ==
  /\ wire' = wire \ {m}
  /\ processed' = processed \cup {m}
  /\ \E legs \in 0..MaxSlices : \E live \in [1..legs -> BOOLEAN] :
       book' = book \cup {[req |-> m, leg |-> i, live |-> live[i]] : i \in 1..legs}
  /\ UNCHANGED <<orders, archive, clock, procVars, nsent, budget>>

\* EXTERNAL: the network loses a request.
Lose(m) ==
  /\ wire' = wire \ {m}
  /\ UNCHANGED <<orders, archive, clock, procVars, processed, book, nsent, budget>>

\* The process dies and is started again on the same ledger file.  What it had
\* put on the wire stays there.
Crash ==
  /\ budget.crashes < MaxCrashes
  /\ budget' = [budget EXCEPT !.crashes = @ + 1]
  /\ sendLock' = NoThread
  /\ pc' = [t \in Threads |-> "idle"]
  /\ key' = [t \in Threads |-> CHOOSE k \in Keys : TRUE]
  /\ seen' = [t \in Threads |-> Nothing]
  /\ frame' = [t \in Threads |-> NewFrame]
  /\ ret' = [t \in Threads |-> "NONE"]
  /\ UNCHANGED <<orders, archive, clock, brokerVars, nsent>>

\* The bounded callers have nothing left to do.
Done ==
  /\ \A t \in Threads : pc[t] = "idle"
  /\ budget.calls = MaxCalls /\ budget.sweeps = MaxSweeps
  /\ UNCHANGED vars

\* What a thread does once it is inside a call.
Step(t) ==
  \/ LockAndClaim(t) \/ HandleExisting(t) \/ Send(t) \/ Respond(t) \/ SendRaises(t)
  \/ Record(t) \/ QueryBook(t) \/ QueryFails(t) \/ Apply(t) \/ Reclaim(t)
  \/ SweepLock(t) \/ Sweep(t)

Next ==
  \/ \E t \in Threads : PlaceOrder(t) \/ RecoverUnresolved(t) \/ Step(t)
  \/ \E m \in wire : Receive(m) \/ Lose(m)
  \/ Crash
  \/ Done

Spec == Init /\ [][Next]_vars

\* A thread that can run eventually does: the scheduler is fair to it and the
\* broker client has a timeout.  Nothing is promised about the broker.
FairSpec == Spec /\ \A t \in Threads : WF_vars(Step(t))

-----------------------------------------------------------------------------
TypeOK ==
  /\ orders \in [Keys -> [status : IntentStatus \cup {"NONE"},
                          ids : SUBSET OrderIds, created : Nat]]
  /\ archive \in [Keys -> Nat] /\ nsent \in [Keys -> Nat] /\ clock \in Nat
  /\ sendLock \in Threads \cup {NoThread}
  /\ pc \in [Threads -> Critical \cup {"idle", "lock", "rlock"}]
  /\ key \in [Threads -> Keys]
  /\ seen \in [Threads -> [what : {"nothing", "PLACED", "REJECTED", "UNKNOWN", "failed",
                                   "miss", "working", "rejected", "error"},
                           ids : SUBSET OrderIds]]
  /\ frame \in [Threads -> [hasBook : BOOLEAN, origin : {"dispatch", "existing", "sweep"},
                            sent : Nat, todo : SUBSET Keys, now : Nat,
                            stale : Nat, dirty : BOOLEAN]]
  /\ ret \in [Threads -> Returns]
  /\ wire \subseteq Requests /\ processed \subseteq Requests
  /\ book \subseteq BrokerOrders
  /\ budget \in [calls : Nat, sweeps : Nat, crashes : Nat]

\* "Places orders exactly once across retries, timeouts, and restarts": the live
\* orders of a key all stem from one request, however often place_order is
\* called, times out, races another thread or is cut off by a crash.
NoDuplicateOrder ==
  \A k \in Keys : \A d, e \in LiveOrders(k) : d.req = e.req

\* The requests under which the account is, or may yet be, exposed for key k.
Exposure(k) == {m \in wire : m.key = k} \cup {e.req : e \in LiveOrders(k)}

\* The send lock is held exactly by the thread inside the with-block.
LockDiscipline == \A t \in Threads : pc[t] \in Critical <=> sendLock = t

\* At most one request can expose a key, none can while the key has no row or is
\* about to be sent, and none can when the book was seen not to carry the key.
ExposureInv ==
  /\ \A k \in Keys : \A a, b \in Exposure(k) : a = b
  /\ \A k \in Keys : orders[k].status = "NONE" => Exposure(k) = {}
  /\ \A t \in Threads : pc[t] = "send" =>
       orders[key[t]].status # "NONE" /\ Exposure(key[t]) = {}
  /\ \A t \in Threads : pc[t] = "apply" /\ seen[t].what = "miss" /\ BrokerEchoesKey =>
       Exposure(key[t]) = {}

\* The inductive strengthening of NoDuplicateOrder and NoOrphanOrder: mutual
\* exclusion alone does not say what a thread that carries a verdict from one
\* step to the next may still rely on.
RouterInv == LockDiscipline /\ ExposureInv

\* A broker order is credited to at most one intent, also when keys are not
\* echoed and orders are recognised by their attributes.
NoDoubleCredit ==
  \A j, k \in Keys : j # k => orders[j].ids \cap orders[k].ids = {}

\* What the ledger calls settled is true at the broker: a PLACED row is linked
\* to orders sent under its key, and none of the orders of a REJECTED row, on
\* the wire or in the book, can be live.
LedgerIsTrue ==
  \A k \in Keys :
    /\ orders[k].status = "PLACED" =>
         /\ orders[k].ids # {}
         /\ orders[k].ids \subseteq {Id(e) : e \in KeyMatches(k)}
    /\ orders[k].status = "REJECTED" => Exposure(k) = {}

\* Write-ahead: an order that is live or may still become live has a ledger row,
\* so a crash at any point leaves something to reconcile.
NoOrphanOrder ==
  \A k \in Keys : Exposure(k) # {} => orders[k].status # "NONE"

\* What a caller was told stays true: PLACED and REJECTED answers agree with the
\* ledger from then on, whatever other threads do.
AnswerStands ==
  \A t \in Threads :
    pc[t] = "idle" /\ ret[t] \in Terminal => orders[key[t]].status = ret[t]

\* broker_send_fn is called at most once per place_order call, and every request
\* but the current one is accounted for by an archived release of its key.
SendsAccountedFor ==
  /\ \A t \in Threads : frame[t].sent <= 1
  /\ \A k \in Keys :
       nsent[k] <= archive[k] + IF orders[k].status = "NONE" THEN 0 ELSE 1

\* All broker orders made of a request that the ledger calls PLACED are linked
\* to its row: "a ledger row that stores only the first id leaves the rest
\* untracked".
AllLegsLinked ==
  \A k \in Keys :
    orders[k].status = "PLACED" => {Id(e) : e \in LiveOrders(k)} \subseteq orders[k].ids

\* A settled row never changes again and is never released.
SettledIsFinal ==
  [][\A k \in Keys : orders[k].status \in Terminal => orders'[k] = orders[k]]_vars

\* The router implements the abstract intents: seen from its callers, no
\* interleaving, crash or retry does anything OrderIntent does not allow.
IntentOf(row) ==
  CASE row.status = "NONE"     -> "free"
    [] row.status \in Open     -> "open"
    [] row.status = "PLACED"   -> "placed"
    [] row.status = "REJECTED" -> "rejected"

Intents == INSTANCE OrderIntent WITH
             intent <- [k \in Keys |-> IntentOf(orders[k])],
             live   <- [k \in Keys |-> LiveOrders(k) # {}]

ImplementsIntents == Intents!Spec

SweptClean(t) == ret[t] # "SWEPT_CLEAN" /\ ret'[t] = "SWEPT_CLEAN"

\* A sweep that reports nothing unresolved leaves no open row among those that
\* were old enough when it was called: trading may resume.
CleanSweepIsClean ==
  [][\A t \in Threads : SweptClean(t) =>
       \A k \in Keys : orders'[k].status \in Open =>
         frame[t].now < orders'[k].created + frame[t].stale]_vars

\* A thread that holds the send lock gives it back: a broker that never answers
\* and an order book that cannot be read do not block the other threads for good.
LockIsReturned == \A t \in Threads : sendLock = t ~> sendLock # t
=============================================================================
