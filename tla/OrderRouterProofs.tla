-------------------------- MODULE OrderRouterProofs --------------------------
(***************************************************************************)
(* Proofs about OrderRouter, for every number of threads, keys, calls,     *)
(* sweeps and crashes: types; no duplicate and no orphan order; answers    *)
(* that stand, sends that are accounted for and sweeps that are clean; one *)
(* credit per broker order; a ledger that is true at the broker; and the   *)
(* refinement of OrderIntent.                                              *)
(***************************************************************************)
EXTENDS OrderRouter, TLAPS

\* The types of the parts of the state, named so that steps can speak of them.
RowType == [status : IntentStatus \cup {"NONE"}, ids : SUBSET OrderIds, created : Nat]

SeenType == [what : {"nothing", "PLACED", "REJECTED", "UNKNOWN", "failed",
                     "miss", "working", "rejected", "error"},
             ids : SUBSET OrderIds]

FrameType == [hasBook : BOOLEAN, origin : {"dispatch", "existing", "sweep"},
              sent : Nat, todo : SUBSET Keys, now : Nat, stale : Nat,
              dirty : BOOLEAN]

-----------------------------------------------------------------------------
\* Row transitions stay within the type: what Claimed, Updated and Reconciled
\* return are ledger rows.
LEMMA RowTypes ==
  ASSUME NEW row \in RowType, NEW view \in SeenType, NEW n \in Nat,
         NEW s \in IntentStatus
  PROVE  /\ NoRow \in RowType
         /\ Claimed(n) \in RowType
         /\ Updated(row, s, view.ids) \in RowType
         /\ Reconciled(row, view) \in RowType
<1>1. NoRow \in RowType /\ Claimed(n) \in RowType
  BY DEF NoRow, Claimed, RowType, IntentStatus
<1>2. \A r \in IntentStatus, ids \in SUBSET OrderIds : Updated(row, r, ids) \in RowType
  BY DEF Updated, RowType
<1>3. view.ids \in SUBSET OrderIds
  BY DEF SeenType
<1>4. Reconciled(row, view) \in RowType
  BY <1>1, <1>2, <1>3 DEF Reconciled, IntentStatus
<1> QED
  BY <1>1, <1>2, <1>3, <1>4

\* Every verdict of the classifier is a status the ledger knows.
LEMMA ClassifyType ==
  ASSUME NEW r
  PROVE  Classify(r) \in {"PLACED", "REJECTED", "UNKNOWN"}
BY DEF Classify

\* Order ids of book entries are order ids, and whatever the book shows of an
\* entry is something a thread can have seen.
LEMMA ViewTypes ==
  ASSUME TypeOK
  PROVE  /\ \A e \in book : Id(e) \in OrderIds
         /\ \A k \in Keys : BookView(k) \subseteq SeenType
<1>1. \A e \in book : Id(e) \in OrderIds
  BY DEF TypeOK, Id, OrderIds, BrokerOrders
<1>2. \A e \in book : Shown(e) \subseteq SeenType
  BY <1>1 DEF Shown, SeenType
<1>3. [what |-> "miss", ids |-> {}] \in SeenType
  BY DEF SeenType
<1>4. \A k \in Keys : KeyMatches(k) \subseteq book /\ Lookalikes(k) \subseteq book
  BY DEF KeyMatches, Lookalikes
<1> QED
  BY <1>1, <1>2, <1>3, <1>4 DEF BookView

-----------------------------------------------------------------------------
\* Initially every variable has its type.
LEMMA TypeInit == Init => TypeOK
<1> SUFFICES ASSUME Init PROVE TypeOK
  OBVIOUS
<1> USE RouterAssumption
<1>1. NoRow \in RowType
  BY DEF NoRow, RowType
<1>2. (CHOOSE k \in Keys : TRUE) \in Keys
  OBVIOUS
<1>3. Nothing \in SeenType /\ NewFrame \in FrameType
  BY DEF Nothing, SeenType, NewFrame, FrameType
<1> QED
  BY <1>1, <1>2, <1>3 DEF Init, TypeOK, RowType, SeenType, FrameType, Returns

\* What Return and Continue do to the process's variables keeps their types.
LEMMA ReturnType ==
  ASSUME TypeOK, NEW t \in Threads, NEW v \in Returns, Return(t, v)
  PROVE  /\ sendLock' \in Threads \cup {NoThread}
         /\ pc' \in [Threads -> Critical \cup {"idle", "lock", "rlock"}]
         /\ key' \in [Threads -> Keys]
         /\ seen' \in [Threads -> SeenType]
         /\ frame' \in [Threads -> FrameType]
         /\ ret' \in [Threads -> Returns]
<1>1. Nothing \in SeenType /\ NewFrame \in FrameType
  BY DEF Nothing, SeenType, NewFrame, FrameType
<1> QED
  BY <1>1 DEF TypeOK, Return, SeenType, FrameType

\* Continue leaves a well-typed thread at another step of its call.
LEMMA ContinueType ==
  ASSUME TypeOK, NEW t \in Threads, NEW step \in Critical, NEW f \in FrameType,
         Continue(t, step, f)
  PROVE  /\ sendLock' \in Threads \cup {NoThread}
         /\ pc' \in [Threads -> Critical \cup {"idle", "lock", "rlock"}]
         /\ key' \in [Threads -> Keys]
         /\ frame' \in [Threads -> FrameType]
         /\ ret' \in [Threads -> Returns]
BY DEF TypeOK, Continue, FrameType

\* Every step keeps every variable in its type.
LEMMA TypeStep == TypeOK /\ [Next]_vars => TypeOK'
<1> SUFFICES ASSUME TypeOK, [Next]_vars PROVE TypeOK'
  OBVIOUS
<1> USE RouterAssumption
<1>a. /\ orders \in [Keys -> RowType]
      /\ seen \in [Threads -> SeenType]
      /\ frame \in [Threads -> FrameType]
  BY DEF TypeOK, RowType, SeenType, FrameType
<1>b. \A t \in Threads : key[t] \in Keys
  BY DEF TypeOK
<1>c. Nothing \in SeenType /\ NewFrame \in FrameType
  BY DEF Nothing, SeenType, NewFrame, FrameType
<1>d. ASSUME orders' \in [Keys -> RowType], seen' \in [Threads -> SeenType],
             frame' \in [Threads -> FrameType],
             archive' \in [Keys -> Nat], nsent' \in [Keys -> Nat], clock' \in Nat,
             sendLock' \in Threads \cup {NoThread},
             pc' \in [Threads -> Critical \cup {"idle", "lock", "rlock"}],
             key' \in [Threads -> Keys], ret' \in [Threads -> Returns],
             wire' \subseteq Requests, processed' \subseteq Requests,
             book' \subseteq BrokerOrders,
             budget' \in [calls : Nat, sweeps : Nat, crashes : Nat]
      PROVE TypeOK'
  BY <1>d DEF TypeOK, RowType, SeenType, FrameType
<1>e. budget \in [calls : Nat, sweeps : Nat, crashes : Nat] /\ clock \in Nat
  BY DEF TypeOK
<1>1. ASSUME NEW t \in Threads, PlaceOrder(t) PROVE TypeOK'
  <2>1. \A b \in BOOLEAN : [frame[t] EXCEPT !.hasBook = b] \in FrameType
    BY <1>a DEF FrameType
  <2>2. frame' \in [Threads -> FrameType]
    BY <1>1, <1>a, <2>1 DEF PlaceOrder
  <2>3. key' \in [Threads -> Keys]
    BY <1>1 DEF PlaceOrder, TypeOK
  <2>4. budget' \in [calls : Nat, sweeps : Nat, crashes : Nat]
    <3>1. budget' = [budget EXCEPT !.calls = @ + 1]
      BY <1>1 DEF PlaceOrder
    <3> QED
      BY <1>e, <3>1
  <2>5. /\ pc' \in [Threads -> Critical \cup {"idle", "lock", "rlock"}]
        /\ ret' \in [Threads -> Returns]
    BY <1>1 DEF PlaceOrder, TypeOK, Returns
  <2> QED
    BY <1>1, <1>a, <1>d, <2>2, <2>3, <2>4, <2>5 DEF PlaceOrder, TypeOK, brokerVars
<1>2. ASSUME NEW t \in Threads, RecoverUnresolved(t) PROVE TypeOK'
  <2>1. \A s \in 0..clock : [frame[t] EXCEPT !.now = clock, !.stale = s] \in FrameType
    <3>1. \A f \in FrameType, n, s \in Nat :
            [f EXCEPT !.now = n, !.stale = s] \in FrameType
      BY DEF FrameType
    <3>2. frame[t] \in FrameType /\ clock \in Nat /\ \A s \in 0..clock : s \in Nat
      BY <1>a, <1>e
    <3> QED
      BY <3>1, <3>2, Zenon
  <2>2. frame' \in [Threads -> FrameType]
    BY <1>2, <1>a, <2>1 DEF RecoverUnresolved
  <2>3. budget' \in [calls : Nat, sweeps : Nat, crashes : Nat]
    <3>1. budget' = [budget EXCEPT !.sweeps = @ + 1]
      BY <1>2 DEF RecoverUnresolved
    <3> QED
      BY <1>e, <3>1
  <2>4. /\ pc' \in [Threads -> Critical \cup {"idle", "lock", "rlock"}]
        /\ ret' \in [Threads -> Returns]
    BY <1>2 DEF RecoverUnresolved, TypeOK, Returns
  <2> QED
    BY <1>2, <1>a, <1>d, <2>2, <2>3, <2>4 DEF RecoverUnresolved, TypeOK, brokerVars
<1>3. ASSUME NEW t \in Threads, LockAndClaim(t) PROVE TypeOK'
  <2>1. Claimed(clock + 1) \in RowType /\ clock + 1 \in Nat
    BY DEF Claimed, RowType, TypeOK, IntentStatus
  <2>2. orders' \in [Keys -> RowType] /\ clock' \in Nat
    <3>1. CASE Claim(t)
      BY <1>a, <1>b, <2>1, <3>1 DEF Claim
    <3>2. CASE UNCHANGED <<orders, clock>>
      BY <1>a, <1>e, <3>2
    <3> QED
      BY <1>3, <3>1, <3>2 DEF LockAndClaim
  <2>3. /\ pc' \in [Threads -> Critical \cup {"idle", "lock", "rlock"}]
        /\ sendLock' \in Threads \cup {NoThread}
    BY <1>3 DEF LockAndClaim, TypeOK, Critical
  <2> QED
    BY <1>3, <1>a, <1>d, <2>2, <2>3 DEF LockAndClaim, TypeOK, brokerVars
<1>4. ASSUME NEW t \in Threads, HandleExisting(t) PROVE TypeOK'
  <2>1. Terminal \subseteq Returns /\ "UNRESOLVED" \in Returns /\ "query" \in Critical
    BY DEF Terminal, Returns, Critical
  <2>2. [frame[t] EXCEPT !.origin = "existing"] \in FrameType
    BY <1>a DEF FrameType
  <2> QED
    BY <1>4, <1>a, <1>d, <2>1, <2>2, ReturnType, ContinueType
       DEF HandleExisting, TypeOK, brokerVars
<1>5. ASSUME NEW t \in Threads, Send(t) PROVE TypeOK'
  <2>1. "wait" \in Critical /\ [frame[t] EXCEPT !.sent = @ + 1] \in FrameType
    BY <1>a DEF FrameType, Critical
  <2>2. nsent[key[t]] + 1 \in Nat \ {0} /\ key[t] \in Keys
    BY DEF TypeOK
  <2> QED
    BY <1>5, <1>a, <1>d, <2>1, <2>2, ContinueType DEF Send, TypeOK, Requests
<1>6. ASSUME NEW t \in Threads, Respond(t) PROVE TypeOK'
  <2>1. \A e \in book : Id(e) \in OrderIds
    BY ViewTypes
  <2>2. seen' \in [Threads -> SeenType]
    BY <1>6, <1>a, <2>1, ClassifyType DEF Respond, SeenType
  <2>3. "record" \in Critical /\ frame[t] \in FrameType
    BY <1>a DEF Critical
  <2> QED
    BY <1>6, <1>a, <1>d, <2>2, <2>3, ContinueType DEF Respond, TypeOK, brokerVars
<1>7. ASSUME NEW t \in Threads, SendRaises(t) PROVE TypeOK'
  <2>1. "record" \in Critical /\ frame[t] \in FrameType
    BY <1>a DEF Critical
  <2>2. [what |-> "UNKNOWN", ids |-> {}] \in SeenType
    BY DEF SeenType
  <2> QED
    BY <1>7, <1>a, <1>d, <2>1, <2>2, ContinueType DEF SendRaises, TypeOK, brokerVars
<1>8. ASSUME NEW t \in Threads, Record(t) PROVE TypeOK'
  <2>1. /\ Terminal \subseteq Returns /\ "UNRESOLVED" \in Returns
        /\ "query" \in Critical
    BY DEF Terminal, Returns, Critical
  <2>2. [frame[t] EXCEPT !.origin = "dispatch"] \in FrameType
    BY <1>a DEF FrameType
  <2>3. orders' \in [Keys -> RowType]
    <3>1. Updated(orders[key[t]], seen[t].what, seen[t].ids) \in RowType
      BY ZenonT(60), <1>a, <1>b DEF Updated, CanUpdate, Allowed, Terminal, IntentStatus,
                        RowType, SeenType
    <3> QED
      BY <1>8, <1>a, <1>b, <3>1 DEF Record
  <2> QED
    BY <1>8, <1>a, <1>d, <2>1, <2>2, <2>3, ReturnType, ContinueType
       DEF Record, TypeOK, brokerVars
<1>9. ASSUME NEW t \in Threads, QueryBook(t) PROVE TypeOK'
  <2>1. BookView(key[t]) \subseteq SeenType
    BY <1>b, ViewTypes
  <2>2. seen' \in [Threads -> SeenType]
    BY <1>9, <1>a, <2>1 DEF QueryBook
  <2>3. "apply" \in Critical /\ frame[t] \in FrameType
    BY <1>a DEF Critical
  <2> QED
    BY <1>9, <1>a, <1>d, <2>2, <2>3, ContinueType DEF QueryBook, TypeOK, brokerVars
<1>10. ASSUME NEW t \in Threads, QueryFails(t) PROVE TypeOK'
  <2>1. "apply" \in Critical /\ frame[t] \in FrameType
    BY <1>a DEF Critical
  <2>2. [what |-> "failed", ids |-> {}] \in SeenType
    BY DEF SeenType
  <2> QED
    BY <1>10, <1>a, <1>d, <2>1, <2>2, ContinueType DEF QueryFails, TypeOK, brokerVars
<1>11. ASSUME NEW t \in Threads, Apply(t) PROVE TypeOK'
  <2> DEFINE outcome == Outcome(orders[key[t]], seen[t])
  <2>1. "sweep" \in Critical /\ "reclaim" \in Critical /\ ReturnOf(outcome) \in Returns
    BY DEF Critical, ReturnOf, Returns, Outcome
  <2>2. /\ [frame[t] EXCEPT !.dirty = AnyUnresolved(t, outcome)] \in FrameType
        /\ frame[t] \in FrameType
    BY <1>a DEF FrameType, AnyUnresolved
  <2>3. orders' \in [Keys -> RowType]
    <3>1. Reconciled(orders[key[t]], seen[t]) \in RowType
      BY <1>a, <1>b, RowTypes DEF IntentStatus
    <3> QED
      BY <1>11, <1>a, <1>b, <3>1 DEF Apply
  <2>4. archive' \in [Keys -> Nat]
    BY <1>11, <1>b DEF Apply, TypeOK
  <2>5. seen' \in [Threads -> SeenType]
    BY <1>11, <1>a, <1>c DEF Apply, Return
  <2> QED
    BY <1>11, <1>a, <1>d, <2>1, <2>2, <2>3, <2>4, <2>5, ReturnType, ContinueType
       DEF Apply, TypeOK, brokerVars
<1>12. ASSUME NEW t \in Threads, Reclaim(t) PROVE TypeOK'
  <2>1. Claimed(clock + 1) \in RowType /\ clock + 1 \in Nat
    BY DEF Claimed, RowType, TypeOK, IntentStatus
  <2>2. orders' \in [Keys -> RowType] /\ clock' \in Nat
    <3>1. CASE Claim(t)
      BY <1>a, <1>b, <2>1, <3>1 DEF Claim
    <3>2. CASE UNCHANGED <<orders, clock>>
      BY <1>a, <1>e, <3>2
    <3> QED
      BY <1>12, <3>1, <3>2 DEF Reclaim
  <2>3. "send" \in Critical /\ frame[t] \in FrameType /\ "UNRESOLVED" \in Returns
    BY <1>a DEF Critical, Returns
  <2> QED
    BY <1>12, <1>a, <1>d, <2>2, <2>3, ReturnType, ContinueType
       DEF Reclaim, TypeOK, brokerVars
<1>13. ASSUME NEW t \in Threads, SweepLock(t) PROVE TypeOK'
  <2>1. [frame[t] EXCEPT !.todo = {k \in Keys : orders[k].status \in Open}] \in FrameType
    BY <1>a DEF FrameType
  <2>2. frame' \in [Threads -> FrameType]
    BY <1>13, <1>a, <2>1 DEF SweepLock
  <2>3. /\ pc' \in [Threads -> Critical \cup {"idle", "lock", "rlock"}]
        /\ sendLock' \in Threads \cup {NoThread}
    BY <1>13 DEF SweepLock, TypeOK, Critical
  <2> QED
    BY <1>13, <1>a, <1>d, <2>2, <2>3 DEF SweepLock, TypeOK, brokerVars
<1>14. ASSUME NEW t \in Threads, Sweep(t) PROVE TypeOK'
  <2>1. CASE Return(t, IF frame[t].dirty THEN "SWEPT_DIRTY" ELSE "SWEPT_CLEAN")
    BY <1>14, <1>a, <1>d, <2>1, ReturnType DEF Sweep, TypeOK, brokerVars, Returns
  <2>2. ASSUME NEW k \in frame[t].todo,
               LET rest == [frame[t] EXCEPT !.todo = frame[t].todo \ {k}]
               IN  IF rest.now < orders[k].created + rest.stale
                   THEN Continue(t, "sweep", rest) /\ UNCHANGED seen
                   ELSE /\ pc' = [pc EXCEPT ![t] = "query"]
                        /\ key' = [key EXCEPT ![t] = k]
                        /\ frame' = [frame EXCEPT ![t] = [rest EXCEPT !.origin = "sweep"]]
                        /\ UNCHANGED <<sendLock, seen, ret>>
        PROVE TypeOK'
    <3> DEFINE rest == [frame[t] EXCEPT !.todo = frame[t].todo \ {k}]
    <3>1. k \in Keys /\ rest \in FrameType /\ "sweep" \in Critical /\ "query" \in Critical
      BY <1>a DEF FrameType, Critical
    <3>2. [rest EXCEPT !.origin = "sweep"] \in FrameType
      BY <3>1 DEF FrameType
    <3> HIDE DEF rest
    <3>3. CASE Continue(t, "sweep", rest) /\ UNCHANGED seen
      BY <1>14, <1>a, <1>d, <3>1, <3>3, ContinueType DEF Sweep, TypeOK, brokerVars
    <3>4. CASE /\ pc' = [pc EXCEPT ![t] = "query"]
               /\ key' = [key EXCEPT ![t] = k]
               /\ frame' = [frame EXCEPT ![t] = [rest EXCEPT !.origin = "sweep"]]
               /\ UNCHANGED <<sendLock, seen, ret>>
      BY <1>14, <1>a, <1>d, <3>1, <3>2, <3>4 DEF Sweep, TypeOK, brokerVars
    <3> QED
      BY <2>2, <3>3, <3>4 DEF rest
  <2> QED
    BY <1>14, <2>1, <2>2 DEF Sweep
<1>15. ASSUME NEW m \in wire, Receive(m) PROVE TypeOK'
  <2>1. m \in Requests
    BY DEF TypeOK
  <2>2. book' \subseteq BrokerOrders
    <3>1. PICK legs \in 0..MaxSlices : \E live \in [1..legs -> BOOLEAN] :
            book' = book \cup {[req |-> m, leg |-> i, live |-> live[i]] : i \in 1..legs}
      BY <1>15 DEF Receive
    <3>2. PICK live \in [1..legs -> BOOLEAN] :
            book' = book \cup {[req |-> m, leg |-> i, live |-> live[i]] : i \in 1..legs}
      BY <3>1
    <3>3. \A i \in 1..legs : i \in 1..MaxSlices /\ live[i] \in BOOLEAN
      OBVIOUS
    <3>4. \A i \in 1..legs : [req |-> m, leg |-> i, live |-> live[i]] \in BrokerOrders
      BY <2>1, <3>3 DEF BrokerOrders
    <3> QED
      BY <3>2, <3>4 DEF TypeOK
  <2> QED
    BY <1>15, <1>a, <1>d, <2>1, <2>2 DEF Receive, TypeOK, procVars
<1>16. ASSUME NEW m \in wire, Lose(m) PROVE TypeOK'
  BY <1>16, <1>a, <1>d DEF Lose, TypeOK, procVars
<1>17. CASE Crash
  <2>1. (CHOOSE k \in Keys : TRUE) \in Keys
    OBVIOUS
  <2>2. budget' \in [calls : Nat, sweeps : Nat, crashes : Nat]
    BY SMTT(30), <1>17 DEF Crash, TypeOK
  <2>3. key' \in [Threads -> Keys]
    BY <1>17, <2>1 DEF Crash
  <2>4. seen' \in [Threads -> SeenType] /\ frame' \in [Threads -> FrameType]
    BY <1>17, <1>c DEF Crash
  <2> QED
    BY <1>17, <1>a, <1>d, <2>2, <2>3, <2>4 DEF Crash, TypeOK, brokerVars, Returns
<1>18. CASE UNCHANGED vars
  BY <1>18, <1>a, <1>d DEF vars, TypeOK
<1> QED
  BY <1>1, <1>2, <1>3, <1>4, <1>5, <1>6, <1>7, <1>8, <1>9, <1>10, <1>11, <1>12,
     <1>13, <1>14, <1>15, <1>16, <1>17, <1>18 DEF Next, Step, Done

\* Type correctness: every variable of the router, its ledger and the broker
\* keeps its type in every behaviour.
THEOREM TypeCorrect == Spec => []TypeOK
BY TypeInit, TypeStep, PTL DEF Spec

-----------------------------------------------------------------------------
\* The invariant holds initially.
LEMMA RouterInvInit == Init => RouterInv
BY RouterAssumption
   DEF Init, RouterInv, LockDiscipline, ExposureInv, Exposure, LiveOrders,
       Critical, NoRow

\* A step that adds neither a request nor a live order exposes no key further.
LEMMA ExposureShrinks ==
  ASSUME \A m \in wire' : m \in wire,
         \A e \in book' : e.live => e \in book \/ e.req \in wire
  PROVE  \A k \in Keys : Exposure(k)' \subseteq Exposure(k)
BY DEF Exposure, LiveOrders

\* Every step keeps the lock discipline: only the holder moves between critical
\* steps, and only a thread that found the lock free enters them.
LEMMA LockStep == TypeOK /\ LockDiscipline /\ [Next]_vars => LockDiscipline'
<1> SUFFICES ASSUME TypeOK, LockDiscipline, [Next]_vars PROVE LockDiscipline'
  OBVIOUS
<1> USE RouterAssumption
<1>a. /\ pc \in [Threads -> Critical \cup {"idle", "lock", "rlock"}]
      /\ \A t \in Threads : pc[t] \in Critical <=> sendLock = t
  BY DEF TypeOK, LockDiscipline
<1>b. ASSUME NEW t \in Threads, pc[t] \in Critical, NEW v, Return(t, v)
      PROVE  LockDiscipline'
  BY <1>a, <1>b DEF Return, LockDiscipline, Critical
<1>c. ASSUME NEW t \in Threads, pc[t] \in Critical, NEW step \in Critical, NEW f,
             Continue(t, step, f)
      PROVE  LockDiscipline'
  BY <1>a, <1>c DEF Continue, LockDiscipline
<1>1. ASSUME NEW t \in Threads, PlaceOrder(t) PROVE LockDiscipline'
  BY <1>1, <1>a DEF PlaceOrder, LockDiscipline, Critical
<1>2. ASSUME NEW t \in Threads, RecoverUnresolved(t) PROVE LockDiscipline'
  BY <1>2, <1>a DEF RecoverUnresolved, LockDiscipline, Critical
<1>3. ASSUME NEW t \in Threads, LockAndClaim(t) PROVE LockDiscipline'
  BY <1>3, <1>a DEF LockAndClaim, LockDiscipline, Critical
<1>4. ASSUME NEW t \in Threads, HandleExisting(t) PROVE LockDiscipline'
  BY <1>4, <1>b, <1>c DEF HandleExisting, Critical
<1>5. ASSUME NEW t \in Threads, Send(t) PROVE LockDiscipline'
  BY <1>5, <1>c DEF Send, Critical
<1>6. ASSUME NEW t \in Threads, Respond(t) PROVE LockDiscipline'
  BY <1>6, <1>c DEF Respond, Critical
<1>7. ASSUME NEW t \in Threads, SendRaises(t) PROVE LockDiscipline'
  BY <1>7, <1>c DEF SendRaises, Critical
<1>8. ASSUME NEW t \in Threads, Record(t) PROVE LockDiscipline'
  BY <1>8, <1>b, <1>c DEF Record, Critical
<1>9. ASSUME NEW t \in Threads, QueryBook(t) PROVE LockDiscipline'
  BY <1>9, <1>c DEF QueryBook, Critical
<1>10. ASSUME NEW t \in Threads, QueryFails(t) PROVE LockDiscipline'
  BY <1>10, <1>c DEF QueryFails, Critical
<1>11. ASSUME NEW t \in Threads, Apply(t) PROVE LockDiscipline'
  BY <1>11, <1>b, <1>c DEF Apply, Critical
<1>12. ASSUME NEW t \in Threads, Reclaim(t) PROVE LockDiscipline'
  BY <1>12, <1>b, <1>c DEF Reclaim, Critical
<1>13. ASSUME NEW t \in Threads, SweepLock(t) PROVE LockDiscipline'
  BY <1>13, <1>a DEF SweepLock, LockDiscipline, Critical
<1>14. ASSUME NEW t \in Threads, Sweep(t) PROVE LockDiscipline'
  <2>1. pc[t] \in Critical /\ "sweep" \in Critical /\ "query" \in Critical
    BY <1>14 DEF Sweep, Critical
  <2>2. CASE pc' = [pc EXCEPT ![t] = "query"] /\ UNCHANGED sendLock
    BY <1>a, <2>1, <2>2 DEF LockDiscipline
  <2> QED
    BY <1>14, <1>b, <1>c, <2>1, <2>2 DEF Sweep
<1>15. ASSUME UNCHANGED <<pc, sendLock>> PROVE LockDiscipline'
  BY <1>15, <1>a DEF LockDiscipline
<1>16. CASE Crash
  BY <1>16 DEF Crash, LockDiscipline, Critical
<1> QED
  BY <1>1, <1>2, <1>3, <1>4, <1>5, <1>6, <1>7, <1>8, <1>9, <1>10, <1>11, <1>12,
     <1>13, <1>14, <1>15, <1>16 DEF Next, Step, Done, Receive, Lose, procVars, vars

\* In the book's view of a key, a miss at a broker that echoes keys means that
\* the book holds no order of the key.
LEMMA MissMeansNoEntry ==
  ASSUME NEW k \in Keys, NEW view \in BookView(k), view.what = "miss",
         BrokerEchoesKey
  PROVE  KeyMatches(k) = {}
<1>1. \A e \in book : \A v \in Shown(e) : v.what # "miss"
  BY DEF Shown
<1>2. KeyMatches(k) \subseteq book
  BY DEF KeyMatches
<1> QED
  BY <1>1, <1>2 DEF BookView

\* A write to one row leaves the other rows alone and turns no row into NoRow,
\* unless the outcome is ABSENT: the key was missing at a broker that echoes.
LEMMA RowKept ==
  ASSUME NEW row, row.status # "NONE", NEW s, s \in IntentStatus, NEW ids, NEW view,
         row \in RowType
  PROVE  /\ Updated(row, s, ids).status # "NONE"
         /\ Reconciled(row, view).status = "NONE" =>
              view.what = "miss" /\ BrokerEchoesKey
<1>1. \A x : \A r \in IntentStatus : Updated(row, r, x).status # "NONE"
  BY DEF Updated, IntentStatus, RowType
<1>2. Outcome(row, view) = "ABSENT" => view.what = "miss" /\ BrokerEchoesKey
  BY DEF Outcome
<1>3. Reconciled(row, view).status = "NONE" => Outcome(row, view) = "ABSENT"
  BY <1>1 DEF Reconciled, IntentStatus
<1> QED
  BY <1>1, <1>2, <1>3

\* Provided a broker that echoes keys has settled its requests by the time its
\* book is read, every step keeps the exposure invariant.
LEMMA ExposureStep ==
  ASSUME BrokerEchoesKey => ~LateDelivery,
         TypeOK, RouterInv, [Next]_vars
  PROVE  ExposureInv'
<1> USE RouterAssumption
<1>a. /\ pc \in [Threads -> Critical \cup {"idle", "lock", "rlock"}]
      /\ key \in [Threads -> Keys]
      /\ orders \in [Keys -> RowType]
      /\ seen \in [Threads -> SeenType]
  BY DEF TypeOK, RowType, SeenType
<1>b. \A s, t \in Threads : pc[s] \in Critical /\ pc[t] \in Critical => s = t
  BY DEF RouterInv, LockDiscipline
<1>c. /\ \A k \in Keys : \A x, y \in Exposure(k) : x = y
      /\ \A k \in Keys : orders[k].status = "NONE" => Exposure(k) = {}
      /\ \A t \in Threads : pc[t] = "send" =>
           orders[key[t]].status # "NONE" /\ Exposure(key[t]) = {}
      /\ \A t \in Threads : pc[t] = "apply" /\ seen[t].what = "miss" /\ BrokerEchoesKey =>
           Exposure(key[t]) = {}
  BY DEF RouterInv, ExposureInv
\* Steps that leave the broker and the ledger alone and put no thread into
\* "send" or, with a miss, into "apply".
<1>d. ASSUME \A k \in Keys : Exposure(k)' \subseteq Exposure(k),
             orders' = orders,
             \A t \in Threads : pc'[t] = "send" => pc[t] = "send" /\ key'[t] = key[t],
             \A t \in Threads : pc'[t] = "apply" /\ seen'[t].what = "miss" =>
               pc[t] = "apply" /\ seen'[t] = seen[t] /\ key'[t] = key[t],
             \A t \in Threads : key'[t] \in Keys
      PROVE  ExposureInv'
  BY <1>c, <1>d, <1>a DEF ExposureInv
<1>e. ASSUME UNCHANGED <<wire, book>>
      PROVE  \A k \in Keys : Exposure(k)' = Exposure(k)
  BY <1>e DEF Exposure, LiveOrders
<1>f. TypeOK'
  BY TypeStep
<1>g. \A t \in Threads : key'[t] \in Keys
  BY <1>f DEF TypeOK
<1>1. ASSUME NEW t \in Threads, PlaceOrder(t) PROVE ExposureInv'
  <2>1. \A s \in Threads : s # t => key'[s] = key[s] /\ pc'[s] = pc[s]
    BY <1>1, <1>a DEF PlaceOrder
  <2>2. pc'[t] = "lock"
    BY <1>1, <1>a DEF PlaceOrder
  <2> QED
    BY <1>1, <1>d, <1>e, <1>g, <2>1, <2>2 DEF PlaceOrder, brokerVars
<1>2. ASSUME NEW t \in Threads, RecoverUnresolved(t) PROVE ExposureInv'
  BY <1>2, <1>a, <1>d, <1>e, <1>g DEF RecoverUnresolved, brokerVars
<1>3. ASSUME NEW t \in Threads, LockAndClaim(t) PROVE ExposureInv'
  <2>1. CASE ~CanClaim(orders[key[t]])
    BY <1>3, <2>1, <1>a, <1>d, <1>e, <1>g DEF LockAndClaim, brokerVars
  <2>2. CASE CanClaim(orders[key[t]])
    <3>1. /\ orders' = [orders EXCEPT ![key[t]] = Claimed(clock + 1)]
          /\ pc' = [pc EXCEPT ![t] = "send"]
          /\ key' = key /\ seen' = seen
          /\ \A k \in Keys : Exposure(k)' = Exposure(k)
      BY <1>3, <2>2, <1>e DEF LockAndClaim, Claim, brokerVars
    <3>2. Exposure(key[t]) = {}
      BY <2>2, <1>a, <1>c DEF CanClaim
    <3>3. Claimed(clock + 1).status = "PENDING"
      BY DEF Claimed
    <3> QED
      BY <3>1, <3>2, <3>3, <1>a, <1>c, <1>g DEF ExposureInv
  <2> QED
    BY <2>1, <2>2
<1>4. ASSUME NEW t \in Threads, HandleExisting(t) PROVE ExposureInv'
  <2>1. /\ pc'[t] \notin {"send", "apply"}
        /\ \A s \in Threads : s # t => pc'[s] = pc[s] /\ seen'[s] = seen[s]
        /\ key' = key
    BY <1>4, <1>a DEF HandleExisting, Return, Continue
  <2> QED
    BY <1>4, <2>1, <1>d, <1>e, <1>g DEF HandleExisting, brokerVars
<1>5. ASSUME NEW t \in Threads, Send(t) PROVE ExposureInv'
  <2> DEFINE m == [key |-> key[t], n |-> nsent[key[t]] + 1]
  <2>1. /\ wire' = wire \cup {m} /\ book' = book /\ orders' = orders
        /\ pc' = [pc EXCEPT ![t] = "wait"] /\ key' = key /\ seen' = seen
        /\ pc[t] = "send"
    BY <1>5 DEF Send, Continue
  <2>2. m.key = key[t]
    OBVIOUS
  <2> HIDE DEF m
  <2>3. \A k \in Keys : k # key[t] => Exposure(k)' = Exposure(k)
    BY <2>1, <2>2 DEF Exposure, LiveOrders
  <2>4. Exposure(key[t])' = {m}
    <3>1. Exposure(key[t]) = {}
      BY <1>c, <2>1
    <3> QED
      BY <2>1, <2>2, <3>1 DEF Exposure, LiveOrders
  <2>5. \A s \in Threads : s # t => pc'[s] \notin {"send", "apply"}
    BY <1>a, <1>b, <2>1 DEF Critical
  <2>6. pc'[t] = "wait"
    BY <1>a, <2>1
  <2>7. orders[key[t]].status # "NONE"
    BY <1>c, <2>1
  <2> QED
    BY <2>1, <2>3, <2>4, <2>5, <2>6, <2>7, <1>a, <1>c DEF ExposureInv
<1>6. ASSUME NEW t \in Threads, Respond(t) PROVE ExposureInv'
  <2>1. /\ pc'[t] = "record" /\ key' = key
        /\ \A s \in Threads : s # t => pc'[s] = pc[s] /\ seen'[s] = seen[s]
    BY <1>6, <1>a DEF Respond, Continue
  <2> QED
    BY <1>6, <2>1, <1>d, <1>e, <1>g DEF Respond, brokerVars
<1>7. ASSUME NEW t \in Threads, SendRaises(t) PROVE ExposureInv'
  <2>1. /\ pc'[t] = "record" /\ key' = key
        /\ \A s \in Threads : s # t => pc'[s] = pc[s] /\ seen'[s] = seen[s]
    BY <1>7, <1>a DEF SendRaises, Continue
  <2> QED
    BY <1>7, <2>1, <1>d, <1>e, <1>g DEF SendRaises, brokerVars
<1>8. ASSUME NEW t \in Threads, Record(t) PROVE ExposureInv'
  <2> DEFINE row == Updated(orders[key[t]], seen[t].what, seen[t].ids)
  <2>1. /\ pc[t] = "record" /\ pc'[t] \in {"idle", "query"} /\ key' = key
        /\ \A s \in Threads : s # t => pc'[s] = pc[s]
        /\ orders' = [orders EXCEPT ![key[t]] = row]
    BY <1>8, <1>a DEF Record, Return, Continue
  <2>2. \A k \in Keys : Exposure(k)' = Exposure(k)
    BY <1>8, <1>e DEF Record, brokerVars
  <2>3. row.status = "NONE" => orders[key[t]].status = "NONE"
    <3>1. orders[key[t]] \in RowType /\ seen[t] \in SeenType
      BY <1>a
    <3> QED
      BY <3>1 DEF Updated, CanUpdate, Allowed, IntentStatus, Terminal, RowType, SeenType
  <2>4. \A s \in Threads : pc'[s] \notin {"send", "apply"}
    BY <1>b, <2>1 DEF Critical
  <2> QED
    BY <2>1, <2>2, <2>3, <2>4, <1>a, <1>c DEF ExposureInv
<1>9. ASSUME NEW t \in Threads, QueryBook(t) PROVE ExposureInv'
  <2>1. /\ pc[t] = "query" /\ pc'[t] = "apply" /\ key' = key /\ orders' = orders
        /\ \A s \in Threads : s # t => pc'[s] = pc[s]
        /\ seen'[t] \in BookView(key[t])
        /\ LateDelivery \/ wire = {}
    BY <1>9, <1>a DEF QueryBook, Continue
  <2>2. \A k \in Keys : Exposure(k)' = Exposure(k)
    BY <1>9, <1>e DEF QueryBook, brokerVars
  <2>3. \A s \in Threads : s # t => pc'[s] \notin {"send", "apply"}
    BY <1>b, <2>1 DEF Critical
  <2>4. ASSUME seen'[t].what = "miss", BrokerEchoesKey PROVE Exposure(key[t]) = {}
    <3>1. wire = {}
      BY <2>1, <2>4
    <3>2. KeyMatches(key[t]) = {}
      BY <1>a, <2>1, <2>4, MissMeansNoEntry
    <3> QED
      BY <3>1, <3>2 DEF Exposure, LiveOrders, KeyMatches
  <2> QED
    BY <2>1, <2>2, <2>3, <2>4, <1>a, <1>c DEF ExposureInv
<1>10. ASSUME NEW t \in Threads, QueryFails(t) PROVE ExposureInv'
  <2>1. /\ pc'[t] = "apply" /\ seen'[t].what = "failed" /\ key' = key
        /\ \A s \in Threads : s # t => pc'[s] = pc[s] /\ seen'[s] = seen[s]
    BY <1>10, <1>a DEF QueryFails, Continue
  <2> QED
    BY <1>10, <2>1, <1>d, <1>e, <1>g DEF QueryFails, brokerVars
<1>11. ASSUME NEW t \in Threads, Apply(t) PROVE ExposureInv'
  <2> DEFINE row == Reconciled(orders[key[t]], seen[t])
  <2>1. /\ pc[t] = "apply" /\ pc'[t] \in {"idle", "reclaim", "sweep"} /\ key' = key
        /\ \A s \in Threads : s # t => pc'[s] = pc[s]
        /\ orders' = [orders EXCEPT ![key[t]] = row]
    BY <1>11, <1>a DEF Apply, Return, Continue
  <2>2. \A k \in Keys : Exposure(k)' = Exposure(k)
    BY <1>11, <1>e DEF Apply, brokerVars
  <2>3. row.status = "NONE" => Exposure(key[t]) = {}
    <3>1. CASE orders[key[t]].status = "NONE"
      BY <3>1, <1>a, <1>c
    <3>2. CASE orders[key[t]].status # "NONE"
      <4>1. row.status = "NONE" => seen[t].what = "miss" /\ BrokerEchoesKey
        BY <3>2, <1>a, RowKept DEF IntentStatus
      <4> QED
        BY <4>1, <2>1, <1>c
    <3> QED
      BY <3>1, <3>2
  <2>4. \A s \in Threads : pc'[s] \notin {"send", "apply"}
    BY <1>b, <2>1 DEF Critical
  <2> HIDE DEF row
  <2> QED
    BY <2>1, <2>2, <2>3, <2>4, <1>a, <1>c DEF ExposureInv
<1>12. ASSUME NEW t \in Threads, Reclaim(t) PROVE ExposureInv'
  <2>0. \A k \in Keys : Exposure(k)' = Exposure(k)
    BY <1>12, <1>e DEF Reclaim, brokerVars
  <2>1. CASE ~CanClaim(orders[key[t]])
    <3>1. /\ pc'[t] = "idle" /\ key' = key /\ orders' = orders
          /\ \A s \in Threads : s # t => pc'[s] = pc[s] /\ seen'[s] = seen[s]
      BY <1>12, <2>1, <1>a DEF Reclaim, Return
    <3> QED
      BY <2>0, <3>1, <1>d, <1>g
  <2>2. CASE CanClaim(orders[key[t]])
    <3>1. /\ orders' = [orders EXCEPT ![key[t]] = Claimed(clock + 1)]
          /\ pc' = [pc EXCEPT ![t] = "send"]
          /\ key' = key /\ seen' = seen
      BY <1>12, <2>2 DEF Reclaim, Claim, Continue
    <3>2. Exposure(key[t]) = {}
      BY <2>2, <1>a, <1>c DEF CanClaim
    <3>3. Claimed(clock + 1).status = "PENDING"
      BY DEF Claimed
    <3> QED
      BY <2>0, <3>1, <3>2, <3>3, <1>a, <1>c, <1>g DEF ExposureInv
  <2> QED
    BY <2>1, <2>2
<1>13. ASSUME NEW t \in Threads, SweepLock(t) PROVE ExposureInv'
  BY <1>13, <1>a, <1>d, <1>e, <1>g DEF SweepLock, brokerVars
<1>14. ASSUME NEW t \in Threads, Sweep(t) PROVE ExposureInv'
  <2>1. /\ pc'[t] \notin {"send", "apply"}
        /\ \A s \in Threads : s # t =>
             pc'[s] = pc[s] /\ seen'[s] = seen[s] /\ key'[s] = key[s]
    BY <1>14, <1>a DEF Sweep, Return, Continue
  <2> QED
    BY <1>14, <2>1, <1>d, <1>e, <1>g DEF Sweep, brokerVars
<1>15. ASSUME NEW m \in wire, Receive(m) PROVE ExposureInv'
  <2>1. \A e \in book' : e \in book \/ e.req = m
    BY <1>15 DEF Receive
  <2>2. \A x \in wire' : x \in wire
    BY <1>15 DEF Receive
  <2>3. \A k \in Keys : Exposure(k)' \subseteq Exposure(k)
    BY <2>1, <2>2, ExposureShrinks
  <2> QED
    BY <1>15, <2>3, <1>d, <1>g DEF Receive, procVars
<1>16. ASSUME NEW m \in wire, Lose(m) PROVE ExposureInv'
  <2>1. \A k \in Keys : Exposure(k)' \subseteq Exposure(k)
    BY <1>16, ExposureShrinks DEF Lose
  <2> QED
    BY <1>16, <2>1, <1>d, <1>g DEF Lose, procVars
<1>17. CASE Crash
  <2>1. \A t \in Threads : pc'[t] = "idle"
    BY <1>17 DEF Crash
  <2> QED
    BY <1>17, <2>1, <1>d, <1>e, <1>g DEF Crash, brokerVars
<1>18. CASE UNCHANGED vars
  BY <1>18, <1>d, <1>e, <1>g DEF vars
<1> QED
  BY <1>1, <1>2, <1>3, <1>4, <1>5, <1>6, <1>7, <1>8, <1>9, <1>10, <1>11, <1>12,
     <1>13, <1>14, <1>15, <1>16, <1>17, <1>18 DEF Next, Step, Done

\* The invariant holds in every reachable state.
LEMMA RouterInvHolds ==
  ASSUME BrokerEchoesKey => ~LateDelivery
  PROVE  Spec => [](TypeOK /\ RouterInv)
<1>1. Init => TypeOK /\ RouterInv
  BY TypeInit, RouterInvInit
<1>2. TypeOK /\ RouterInv /\ [Next]_vars => (TypeOK /\ RouterInv)'
  <2>1. ASSUME TypeOK, RouterInv, [Next]_vars PROVE TypeOK' /\ LockDiscipline' /\ ExposureInv'
    BY <2>1, TypeStep, LockStep, ExposureStep DEF RouterInv
  <2> QED
    BY <2>1 DEF RouterInv
<1> QED
  BY <1>1, <1>2, PTL DEF Spec

\* Orders are placed at most once per key, across threads, retries, timeouts and
\* crashes, for any number of each: provided that a broker whose book is taken
\* as proof of absence has settled its requests when the book is read.
THEOREM NoDuplicates ==
  ASSUME BrokerEchoesKey => ~LateDelivery
  PROVE  Spec => []NoDuplicateOrder
<1>1. RouterInv => NoDuplicateOrder
  <2>1. \A k \in Keys : \A e \in LiveOrders(k) : e.req \in Exposure(k)
    BY DEF Exposure
  <2> QED
    BY <2>1 DEF RouterInv, ExposureInv, NoDuplicateOrder
<1> QED
  BY <1>1, RouterInvHolds, PTL

\* Under the same proviso nothing is live or on its way without a ledger row.
THEOREM NoOrphans ==
  ASSUME BrokerEchoesKey => ~LateDelivery
  PROVE  Spec => []NoOrphanOrder
<1>1. RouterInv => NoOrphanOrder
  BY DEF RouterInv, ExposureInv, NoOrphanOrder
<1> QED
  BY <1>1, RouterInvHolds, PTL

-----------------------------------------------------------------------------
\* No step changes a settled row: update_status and release_intent refuse it and
\* record_intent finds the key taken.
LEMMA SettledStep ==
  ASSUME TypeOK, [Next]_vars
  PROVE  \A k \in Keys : orders[k].status \in Terminal => orders'[k] = orders[k]
<1> DEFINE Final == \A k \in Keys : orders[k].status \in Terminal => orders'[k] = orders[k]
<1>a. orders \in [Keys -> RowType] /\ key \in [Threads -> Keys]
  BY DEF TypeOK, RowType
<1>b. ASSUME UNCHANGED orders PROVE Final
  BY <1>b
<1>c. ASSUME NEW t \in Threads, CanClaim(orders[key[t]]), Claim(t) PROVE Final
  BY <1>a, <1>c DEF Claim, CanClaim, Terminal
<1>1. ASSUME NEW t \in Threads, LockAndClaim(t) PROVE Final
  BY <1>1, <1>b, <1>c DEF LockAndClaim
<1>2. ASSUME NEW t \in Threads, Reclaim(t) PROVE Final
  BY <1>2, <1>b, <1>c DEF Reclaim
<1>3. ASSUME NEW t \in Threads, Record(t) PROVE Final
  <2>1. orders[key[t]].status \in Terminal =>
          Updated(orders[key[t]], seen[t].what, seen[t].ids) = orders[key[t]]
    BY DEF Updated
  <2> QED
    BY <1>3, <1>a, <2>1 DEF Record
<1>4. ASSUME NEW t \in Threads, Apply(t) PROVE Final
  <2>1. orders[key[t]].status \in Terminal =>
          Reconciled(orders[key[t]], seen[t]) = orders[key[t]]
    BY DEF Reconciled, Updated, CanRelease, Terminal, Open
  <2> QED
    BY <1>4, <1>a, <2>1 DEF Apply
<1>5. ASSUME NEW t \in Threads,
             \/ PlaceOrder(t) \/ RecoverUnresolved(t) \/ HandleExisting(t) \/ Send(t)
             \/ Respond(t) \/ SendRaises(t) \/ QueryBook(t) \/ QueryFails(t)
             \/ SweepLock(t) \/ Sweep(t)
      PROVE  UNCHANGED orders
  BY <1>5 DEF PlaceOrder, RecoverUnresolved, HandleExisting, Send, Respond,
              SendRaises, QueryBook, QueryFails, SweepLock, Sweep
<1>6. ASSUME (\E m \in wire : Receive(m) \/ Lose(m)) \/ Crash \/ UNCHANGED vars
      PROVE  UNCHANGED orders
  BY <1>6 DEF Receive, Lose, Crash, vars
<1> QED
  BY <1>1, <1>2, <1>3, <1>4, <1>5, <1>6, <1>b DEF Next, Step, Done

\* A settled row never changes again, whatever the broker does: update_status
\* and release_intent refuse it and record_intent finds the key taken.  This
\* needs no assumption about delivery.
THEOREM SettledRowsAreFinal == Spec => SettledIsFinal
<1>1. TypeOK /\ [Next]_vars =>
        (\A k \in Keys : orders[k].status \in Terminal => orders'[k] = orders[k])
  BY SettledStep
<1>2. Spec => []TypeOK
  BY TypeCorrect
<1> QED
  BY <1>1, <1>2, PTL DEF Spec, SettledIsFinal

-----------------------------------------------------------------------------
\* A thread inside the loop of a sweep, and a thread that has called
\* broker_send_fn in its present call.
Sweeping(t) ==
  pc[t] = "sweep" \/ (pc[t] \in {"query", "apply"} /\ frame[t].origin = "sweep")

HasSent(t) ==
  \/ pc[t] \in {"wait", "record"}
  \/ pc[t] \in {"query", "apply"} /\ frame[t].origin = "dispatch"

\* What the row of the thread's key is known to be at each step of a call.
StageOf(t) ==
  /\ pc[t] \in {"send", "wait", "record"} => orders[key[t]].status = "PENDING"
  /\ pc[t] \in {"query", "apply"} => orders[key[t]].status \in Open
  /\ pc[t] = "existing" => orders[key[t]].status # "NONE"
  /\ pc[t] = "record" => seen[t].what \in {"PLACED", "REJECTED", "UNKNOWN"}

\* A call sends once at most, and only when every earlier request under its key
\* has been released.
SentOf(t) ==
  /\ frame[t].sent <= 1
  /\ ~HasSent(t) => frame[t].sent = 0
  /\ pc[t] = "send" => nsent[key[t]] <= archive[key[t]]

\* The keys a sweep has yet to visit are open; unless it is dirty, every open row
\* that it has dealt with was too young for it.
SweepOf(t) ==
  Sweeping(t) =>
    /\ \A k \in frame[t].todo : orders[k].status \in Open
    /\ pc[t] # "sweep" => key[t] \notin frame[t].todo
    /\ ~frame[t].dirty =>
         \A k \in Keys :
           orders[k].status \in Open /\ k \notin frame[t].todo
             /\ (pc[t] # "sweep" => k # key[t]) =>
           frame[t].now < orders[k].created + frame[t].stale

AnswerOf(t) ==
  pc[t] = "idle" /\ ret[t] \in Terminal => orders[key[t]].status = ret[t]

ThreadOf(t) == StageOf(t) /\ SentOf(t) /\ SweepOf(t) /\ AnswerOf(t)

SentInv ==
  \A k \in Keys : nsent[k] <= archive[k] + IF orders[k].status = "NONE" THEN 0 ELSE 1

\* The inductive invariant of AnswerStands, SendsAccountedFor and
\* CleanSweepIsClean: what each thread may rely on between its steps.
ThreadInv == SentInv /\ \A t \in Threads : ThreadOf(t)

\* The variables of thread s are left alone by this step.
Same(s) == /\ pc'[s] = pc[s] /\ key'[s] = key[s] /\ seen'[s] = seen[s]
           /\ frame'[s] = frame[s] /\ ret'[s] = ret[s]

\* A thread that does not move keeps what it relies on when the ledger and the
\* send counters stay as they are.
LEMMA IdleWorld ==
  ASSUME NEW s \in Threads, ThreadOf(s), Same(s), key[s] \in Keys,
         UNCHANGED <<orders, archive, nsent>>
  PROVE  ThreadOf(s)'
BY DEF ThreadOf, StageOf, SentOf, SweepOf, AnswerOf, Same, Sweeping, HasSent

\* A thread outside the send lock relies on settled rows only, and keeps what it
\* relies on whatever the holder of the lock writes.
LEMMA OutsideLock ==
  ASSUME NEW s \in Threads, ThreadOf(s), Same(s), key[s] \in Keys,
         pc[s] \notin Critical,
         \A k \in Keys : orders[k].status \in Terminal => orders'[k] = orders[k]
  PROVE  ThreadOf(s)'
BY DEF ThreadOf, StageOf, SentOf, SweepOf, AnswerOf, Same, Sweeping, HasSent, Critical

\* Every step of thread t leaves the other threads' variables alone.
LEMMA StepIsLocal ==
  ASSUME TypeOK, NEW t \in Threads, PlaceOrder(t) \/ RecoverUnresolved(t) \/ Step(t),
         NEW s \in Threads, s # t
  PROVE  Same(s)
<1>a. /\ pc \in [Threads -> Critical \cup {"idle", "lock", "rlock"}]
      /\ key \in [Threads -> Keys] /\ seen \in [Threads -> SeenType]
      /\ frame \in [Threads -> FrameType] /\ ret \in [Threads -> Returns]
  BY DEF TypeOK, SeenType, FrameType
<1>r. ASSUME NEW v, Return(t, v) PROVE Same(s)
  BY <1>a, <1>r DEF Return, Same
<1>c. ASSUME NEW step, NEW f, Continue(t, step, f), seen'[s] = seen[s] PROVE Same(s)
  BY <1>a, <1>c DEF Continue, Same
<1>1. CASE PlaceOrder(t)
  BY <1>a, <1>1 DEF PlaceOrder, Same
<1>2. CASE RecoverUnresolved(t)
  BY <1>a, <1>2 DEF RecoverUnresolved, Same
<1>3. CASE LockAndClaim(t)
  BY <1>a, <1>3 DEF LockAndClaim, Same
<1>4. CASE HandleExisting(t)
  BY <1>r, <1>c, <1>4 DEF HandleExisting
<1>5. CASE Send(t)
  BY <1>c, <1>5 DEF Send
<1>6. CASE Respond(t)
  <2>1. seen'[s] = seen[s]
    BY <1>a, <1>6 DEF Respond
  <2> QED
    BY <1>c, <1>6, <2>1 DEF Respond
<1>7. CASE SendRaises(t)
  <2>1. seen'[s] = seen[s]
    BY <1>a, <1>7 DEF SendRaises
  <2> QED
    BY <1>c, <1>7, <2>1 DEF SendRaises
<1>8. CASE Record(t)
  BY <1>r, <1>c, <1>8 DEF Record
<1>9. CASE QueryBook(t)
  <2>1. seen'[s] = seen[s]
    BY <1>a, <1>9 DEF QueryBook
  <2> QED
    BY <1>c, <1>9, <2>1 DEF QueryBook
<1>10. CASE QueryFails(t)
  <2>1. seen'[s] = seen[s]
    BY <1>a, <1>10 DEF QueryFails
  <2> QED
    BY <1>c, <1>10, <2>1 DEF QueryFails
<1>11. CASE Apply(t)
  <2>1. seen'[s] = seen[s]
    BY <1>a, <1>11 DEF Apply, Return
  <2> QED
    BY <1>r, <1>c, <1>11, <2>1 DEF Apply
<1>12. CASE Reclaim(t)
  BY <1>r, <1>c, <1>12 DEF Reclaim
<1>13. CASE SweepLock(t)
  BY <1>a, <1>13 DEF SweepLock, Same
<1>14. CASE Sweep(t)
  BY <1>a, <1>14 DEF Sweep, Return, Continue, Same
<1> QED
  BY <1>1, <1>2, <1>3, <1>4, <1>5, <1>6, <1>7, <1>8, <1>9, <1>10, <1>11, <1>12,
     <1>13, <1>14 DEF Step

\* A step inside the send lock, or one that takes it, finds every other thread
\* outside, and leaves its variables alone.
LEMMA OthersOutside ==
  ASSUME TypeOK, LockDiscipline, NEW t \in Threads, Step(t), NEW s \in Threads, s # t
  PROVE  pc[s] \notin Critical /\ Same(s)
<1>1. pc[t] \in Critical \/ sendLock = NoThread
  BY DEF Step, LockAndClaim, HandleExisting, Send, Respond, SendRaises, Record,
         QueryBook, QueryFails, Apply, Reclaim, SweepLock, Sweep, Critical
<1>2. pc[s] \notin Critical
  BY <1>1, RouterAssumption DEF LockDiscipline
<1> QED
  BY <1>2, StepIsLocal

\* Those keep what they rely on.
LEMMA OthersKeep ==
  ASSUME TypeOK, LockDiscipline, ThreadInv, [Next]_vars,
         NEW t \in Threads, Step(t), NEW s \in Threads, s # t
  PROVE  ThreadOf(s)'
<1>1. pc[s] \notin Critical /\ Same(s)
  BY OthersOutside
<1>2. key[s] \in Keys /\ ThreadOf(s)
  BY DEF TypeOK, ThreadInv
<1> QED
  BY <1>1, <1>2, SettledStep, OutsideLock

\* What Reconciled makes of an open row, by outcome.
LEMMA OpenRowReconciled ==
  ASSUME NEW row \in RowType, row.status \in Open, NEW view
  PROVE  LET outcome == Outcome(row, view)
             new == Reconciled(row, view)
         IN  /\ outcome \in {"FOUND_PLACED", "FOUND_REJECTED", "ABSENT", "INCONCLUSIVE"}
             /\ outcome = "FOUND_PLACED" => new.status = "PLACED"
             /\ outcome = "FOUND_REJECTED" => new.status = "REJECTED"
             /\ outcome = "ABSENT" => new = NoRow /\ CanRelease(row)
             /\ outcome = "INCONCLUSIVE" => new = row
<1> DEFINE outcome == Outcome(row, view)
<1>1. outcome \in {"FOUND_PLACED", "FOUND_REJECTED", "ABSENT", "INCONCLUSIVE"}
  BY DEF Outcome
<1>2. \A s \in Terminal : \A x : Updated(row, s, x).status = s
  BY DEF Updated, CanUpdate, Allowed, IntentStatus, Open, Terminal, RowType
<1>3. CanRelease(row)
  BY DEF CanRelease
<1> HIDE DEF outcome
<1>4. Reconciled(row, view) =
        CASE outcome = "FOUND_PLACED"   -> Updated(row, "PLACED", view.ids)
          [] outcome = "FOUND_REJECTED" -> Updated(row, "REJECTED", {})
          [] outcome = "ABSENT" /\ CanRelease(row) -> NoRow
          [] OTHER -> row
  BY DEF Reconciled, outcome
<1>5. "PLACED" \in Terminal /\ "REJECTED" \in Terminal
  BY DEF Terminal
<1> QED
  BY <1>1, <1>2, <1>3, <1>4, <1>5 DEF outcome

\* Every step of thread t keeps what t relies on, and the count of its sends.
LEMMA OwnStep ==
  ASSUME TypeOK, LockDiscipline, ThreadInv, NEW t \in Threads,
         PlaceOrder(t) \/ RecoverUnresolved(t) \/ Step(t)
  PROVE  ThreadOf(t)' /\ SentInv'
<1>a. /\ pc \in [Threads -> Critical \cup {"idle", "lock", "rlock"}]
      /\ key \in [Threads -> Keys] /\ seen \in [Threads -> SeenType]
      /\ frame \in [Threads -> FrameType] /\ ret \in [Threads -> Returns]
      /\ orders \in [Keys -> RowType]
      /\ archive \in [Keys -> Nat] /\ nsent \in [Keys -> Nat]
  BY DEF TypeOK, SeenType, FrameType, RowType
<1>b. /\ StageOf(t) /\ SentOf(t) /\ SweepOf(t) /\ AnswerOf(t) /\ SentInv
  BY DEF ThreadInv, ThreadOf
<1>k. key[t] \in Keys /\ frame[t] \in FrameType /\ orders[key[t]] \in RowType
      /\ seen[t] \in SeenType
  BY <1>a
<1>n. ASSUME UNCHANGED <<orders, archive, nsent>> PROVE SentInv'
  BY <1>b, <1>n DEF SentInv
\* A call that returns leaves its thread at rest: it must have answered truly.
<1>r. ASSUME NEW v, Return(t, v), v \in Terminal => orders'[key[t]].status = v
      PROVE  ThreadOf(t)'
  <2>1. /\ pc'[t] = "idle" /\ ret'[t] = v /\ key'[t] = key[t]
        /\ frame'[t].sent = 0
    BY <1>a, <1>r DEF Return, NewFrame
  <2>2. ~HasSent(t)' /\ ~Sweeping(t)'
    BY <2>1 DEF HasSent, Sweeping
  <2> QED
    BY <1>r, <2>1, <2>2 DEF ThreadOf, StageOf, SentOf, SweepOf, AnswerOf
\* A call that goes on relies on the stage it enters and on its frame.
<1>c. ASSUME pc'[t] # "idle", StageOf(t)', SentOf(t)', SweepOf(t)'
      PROVE  ThreadOf(t)'
  BY <1>c DEF ThreadOf, AnswerOf
<1>1. CASE PlaceOrder(t)
  <2>1. /\ pc[t] = "idle" /\ pc'[t] = "lock" /\ frame'[t].sent = frame[t].sent
        /\ UNCHANGED <<orders, archive, nsent>>
    <3>1. PICK k \in Keys, b \in BOOLEAN :
            frame' = [frame EXCEPT ![t] = [frame[t] EXCEPT !.hasBook = b]]
      BY <1>1 DEF PlaceOrder
    <3>2. frame'[t].sent = frame[t].sent
      BY <1>a, <1>k, <3>1 DEF FrameType
    <3> QED
      BY <1>1, <1>a, <3>2 DEF PlaceOrder
  <2>2. ~HasSent(t) /\ ~HasSent(t)' /\ ~Sweeping(t)'
    BY <2>1 DEF HasSent, Sweeping
  <2> QED
    BY <1>b, <1>c, <1>n, <2>1, <2>2 DEF StageOf, SentOf, SweepOf
<1>2. CASE RecoverUnresolved(t)
  <2>1. /\ pc[t] = "idle" /\ pc'[t] = "rlock" /\ frame'[t].sent = frame[t].sent
        /\ UNCHANGED <<orders, archive, nsent>>
    <3>1. PICK stale \in 0..clock :
            frame' = [frame EXCEPT ![t] = [frame[t] EXCEPT !.now = clock, !.stale = stale]]
      BY <1>2 DEF RecoverUnresolved
    <3>2. frame'[t].sent = frame[t].sent
      BY <1>a, <1>k, <3>1 DEF FrameType
    <3> QED
      BY <1>2, <1>a, <3>2 DEF RecoverUnresolved
  <2>2. ~HasSent(t) /\ ~HasSent(t)' /\ ~Sweeping(t)'
    BY <2>1 DEF HasSent, Sweeping
  <2> QED
    BY <1>b, <1>c, <1>n, <2>1, <2>2 DEF StageOf, SentOf, SweepOf
\* Claiming a free key, in LockAndClaim and in Reclaim.
<1>q. ASSUME CanClaim(orders[key[t]]), Claim(t), pc[t] \in {"lock", "reclaim"},
             pc'[t] = "send", key'[t] = key[t], frame'[t] = frame[t],
             UNCHANGED <<archive, nsent>>
      PROVE  ThreadOf(t)' /\ SentInv'
  <2>1. /\ orders' = [orders EXCEPT ![key[t]] = Claimed(clock + 1)]
        /\ Claimed(clock + 1).status = "PENDING"
        /\ orders[key[t]].status = "NONE"
    BY <1>q DEF Claim, Claimed, CanClaim
  <2>2. orders'[key[t]].status = "PENDING"
        /\ \A k \in Keys : k # key[t] => orders'[k] = orders[k]
    BY <1>a, <1>k, <2>1
  <2>3. nsent[key[t]] <= archive[key[t]]
    BY <1>a, <1>b, <1>k, <2>1 DEF SentInv
  <2>4. ~HasSent(t) /\ ~HasSent(t)' /\ ~Sweeping(t)'
    BY <1>q DEF HasSent, Sweeping
  <2>5. StageOf(t)' /\ SentOf(t)' /\ SweepOf(t)'
    BY <1>b, <1>q, <2>2, <2>3, <2>4 DEF StageOf, SentOf, SweepOf
  <2>6. SentInv'
    <3> SUFFICES ASSUME NEW k \in Keys
                 PROVE nsent[k] <= archive[k] + IF orders'[k].status = "NONE" THEN 0 ELSE 1
      BY <1>q DEF SentInv
    <3>1. CASE k = key[t]
      BY <3>1, <2>2, <2>3, <1>a
    <3>2. CASE k # key[t]
      BY <3>2, <2>2, <1>b DEF SentInv
    <3> QED
      BY <3>1, <3>2
  <2> QED
    BY <1>c, <1>q, <2>5, <2>6
<1>3. CASE LockAndClaim(t)
  <2>1. CASE CanClaim(orders[key[t]])
    BY <1>3, <1>a, <1>q, <2>1 DEF LockAndClaim
  <2>2. CASE ~CanClaim(orders[key[t]])
    <3>1. /\ pc[t] = "lock" /\ pc'[t] = "existing" /\ frame' = frame /\ key' = key
          /\ UNCHANGED <<orders, archive, nsent>>
      BY <1>3, <1>a, <2>2 DEF LockAndClaim
    <3>2. ~HasSent(t) /\ ~HasSent(t)' /\ ~Sweeping(t)'
      BY <3>1 DEF HasSent, Sweeping
    <3> QED
      BY <1>b, <1>c, <1>n, <2>2, <3>1, <3>2 DEF StageOf, SentOf, SweepOf, CanClaim
  <2> QED
    BY <2>1, <2>2
<1>4. CASE HandleExisting(t)
  <2>1. pc[t] = "existing" /\ UNCHANGED <<orders, archive, nsent>>
    BY <1>4 DEF HandleExisting, brokerVars
  <2>2. CASE Return(t, orders[key[t]].status)
    BY <1>n, <1>r, <2>1, <2>2
  <2>3. CASE Return(t, "UNRESOLVED")
    BY <1>n, <1>r, <2>1, <2>3 DEF Terminal
  <2>4. CASE Continue(t, "query", [frame[t] EXCEPT !.origin = "existing"])
             /\ orders[key[t]].status \notin Terminal
    <3>1. /\ pc'[t] = "query" /\ key'[t] = key[t] /\ frame'[t].origin = "existing"
          /\ frame'[t].sent = frame[t].sent
      BY <1>a, <1>k, <2>4 DEF Continue, FrameType
    <3>2. ~HasSent(t) /\ ~HasSent(t)' /\ ~Sweeping(t)'
      BY <2>1, <3>1 DEF HasSent, Sweeping
    <3>3. orders'[key'[t]].status \in Open
      BY <1>b, <1>k, <2>1, <2>4, <3>1
         DEF StageOf, Open, Terminal, RowType, IntentStatus
    <3> QED
      BY <1>b, <1>c, <1>n, <2>1, <3>1, <3>2, <3>3 DEF StageOf, SentOf, SweepOf
  <2>5. \/ Return(t, orders[key[t]].status)
        \/ Return(t, "UNRESOLVED")
        \/ /\ Continue(t, "query", [frame[t] EXCEPT !.origin = "existing"])
           /\ orders[key[t]].status \notin Terminal
    BY <1>4, Zenon DEF HandleExisting
  <2> QED
    BY <2>2, <2>3, <2>4, <2>5
<1>5. CASE Send(t)
  <2>1. /\ pc[t] = "send" /\ pc'[t] = "wait" /\ key'[t] = key[t]
        /\ frame'[t].sent = frame[t].sent + 1 /\ UNCHANGED <<orders, archive>>
        /\ nsent' = [nsent EXCEPT ![key[t]] = nsent[key[t]] + 1]
    BY <1>5, <1>a, <1>k DEF Send, Continue, FrameType
  <2>2. ~HasSent(t) /\ HasSent(t)' /\ ~Sweeping(t)'
    BY <2>1 DEF HasSent, Sweeping
  <2>3. frame'[t].sent <= 1
    BY <1>b, <2>1, <2>2 DEF SentOf
  <2>4. StageOf(t)' /\ SentOf(t)' /\ SweepOf(t)'
    BY <1>b, <2>1, <2>2, <2>3 DEF StageOf, SentOf, SweepOf
  <2>5. SentInv'
    <3> SUFFICES ASSUME NEW k \in Keys
                 PROVE nsent'[k] <= archive[k] + IF orders[k].status = "NONE" THEN 0 ELSE 1
      BY <2>1 DEF SentInv
    <3>1. CASE k = key[t]
      <4>1. orders[k].status = "PENDING" /\ nsent[k] <= archive[k]
        BY <1>b, <2>1, <3>1 DEF StageOf, SentOf
      <4> QED
        BY <4>1, <3>1, <2>1, <1>a
    <3>2. CASE k # key[t]
      BY <3>2, <2>1, <1>a, <1>b DEF SentInv
    <3> QED
      BY <3>1, <3>2
  <2> QED
    BY <1>c, <2>1, <2>4, <2>5
<1>6. CASE Respond(t) \/ SendRaises(t)
  <2>1. /\ pc[t] = "wait" /\ pc'[t] = "record" /\ key'[t] = key[t] /\ frame'[t] = frame[t]
        /\ UNCHANGED <<orders, archive, nsent>>
    BY <1>6, <1>a DEF Respond, SendRaises, Continue
  <2>2. seen'[t].what \in {"PLACED", "REJECTED", "UNKNOWN"}
    <3>1. CASE Respond(t)
      <4>1. PICK r : seen'[t].what = Classify(r)
        BY <1>a, <3>1 DEF Respond
      <4> QED
        BY <4>1, ClassifyType
    <3>2. CASE SendRaises(t)
      BY <1>a, <3>2 DEF SendRaises
    <3> QED
      BY <1>6, <3>1, <3>2
  <2>3. HasSent(t) /\ HasSent(t)' /\ ~Sweeping(t)'
    BY <2>1 DEF HasSent, Sweeping
  <2> QED
    BY <1>b, <1>c, <1>n, <2>1, <2>2, <2>3 DEF StageOf, SentOf, SweepOf
<1>8. CASE Record(t)
  <2> DEFINE row == Updated(orders[key[t]], seen[t].what, seen[t].ids)
  <2>1. /\ pc[t] = "record" /\ UNCHANGED <<archive, nsent>>
        /\ orders' = [orders EXCEPT ![key[t]] = row]
    BY <1>8 DEF Record, brokerVars
  <2>2. row.status = seen[t].what /\ seen[t].what \in {"PLACED", "REJECTED", "UNKNOWN"}
    <3>1. seen[t].what \in {"PLACED", "REJECTED", "UNKNOWN"}
          /\ orders[key[t]].status = "PENDING"
      BY <1>b, <2>1 DEF StageOf
    <3> QED
      BY <3>1, <1>k DEF Updated, CanUpdate, Allowed, IntentStatus, Terminal, RowType
  <2> HIDE DEF row
  <2>3. /\ orders'[key[t]].status = seen[t].what
        /\ \A k \in Keys : k # key[t] => orders'[k] = orders[k]
    BY <1>a, <1>k, <2>1, <2>2
  <2>4. SentInv'
    <3>1. \A k \in Keys : orders'[k].status = "NONE" <=> orders[k].status = "NONE"
      BY <1>b, <2>1, <2>2, <2>3 DEF StageOf
    <3> QED
      BY <1>b, <2>1, <3>1 DEF SentInv
  <2>5. CASE Return(t, seen[t].what)
    BY <1>r, <2>3, <2>4, <2>5
  <2>6. CASE Return(t, "UNRESOLVED")
    BY <1>r, <2>4, <2>6 DEF Terminal
  <2>7. CASE Continue(t, "query", [frame[t] EXCEPT !.origin = "dispatch"])
             /\ seen[t].what \notin Terminal
    <3>1. /\ pc'[t] = "query" /\ key'[t] = key[t] /\ frame'[t].origin = "dispatch"
          /\ frame'[t].sent = frame[t].sent
      BY <1>a, <1>k, <2>7 DEF Continue, FrameType
    <3>2. HasSent(t) /\ HasSent(t)' /\ ~Sweeping(t)'
      BY <2>1, <3>1 DEF HasSent, Sweeping
    <3>3. orders'[key'[t]].status \in Open
      BY <2>2, <2>3, <2>7, <3>1 DEF Open, Terminal
    <3> QED
      BY <1>b, <1>c, <2>4, <3>1, <3>2, <3>3 DEF StageOf, SentOf, SweepOf
  <2>8. \/ Return(t, seen[t].what)
        \/ Return(t, "UNRESOLVED")
        \/ /\ Continue(t, "query", [frame[t] EXCEPT !.origin = "dispatch"])
           /\ seen[t].what \notin Terminal
    BY <1>8, Zenon DEF Record
  <2> QED
    BY <2>5, <2>6, <2>7, <2>8
<1>9. CASE QueryBook(t) \/ QueryFails(t)
  <2>1. /\ pc[t] = "query" /\ pc'[t] = "apply" /\ key'[t] = key[t] /\ frame'[t] = frame[t]
        /\ UNCHANGED <<orders, archive, nsent>>
    BY <1>9, <1>a DEF QueryBook, QueryFails, Continue
  <2>2. HasSent(t)' = HasSent(t) /\ Sweeping(t)' = Sweeping(t)
    BY <2>1 DEF HasSent, Sweeping
  <2>3. StageOf(t)' /\ SentOf(t)'
    BY <1>b, <2>1, <2>2 DEF StageOf, SentOf
  <2>4. SweepOf(t)'
    BY <1>b, <2>1, <2>2 DEF SweepOf
  <2> QED
    BY <1>c, <1>n, <2>1, <2>3, <2>4
<1>11. CASE Apply(t)
  <2> DEFINE outcome == Outcome(orders[key[t]], seen[t])
             row == Reconciled(orders[key[t]], seen[t])
  <2>1. /\ pc[t] = "apply" /\ nsent' = nsent
        /\ orders' = [orders EXCEPT ![key[t]] = row]
        /\ archive' = IF outcome = "ABSENT" /\ CanRelease(orders[key[t]])
                      THEN [archive EXCEPT ![key[t]] = archive[key[t]] + 1] ELSE archive
    BY <1>11 DEF Apply
  <2>2. orders[key[t]].status \in Open
    BY <1>b, <2>1 DEF StageOf
  <2>3. /\ outcome \in {"FOUND_PLACED", "FOUND_REJECTED", "ABSENT", "INCONCLUSIVE"}
        /\ outcome = "FOUND_PLACED" => row.status = "PLACED"
        /\ outcome = "FOUND_REJECTED" => row.status = "REJECTED"
        /\ outcome = "ABSENT" => row = NoRow /\ CanRelease(orders[key[t]])
        /\ outcome = "INCONCLUSIVE" => row = orders[key[t]]
    BY <1>k, <2>2, OpenRowReconciled
  <2>4. \/ /\ frame[t].origin = "sweep"
           /\ Continue(t, "sweep", [frame[t] EXCEPT !.dirty = frame[t].dirty \/ outcome = "INCONCLUSIVE"])
        \/ /\ frame[t].origin = "existing"
           /\ outcome = "ABSENT"
           /\ Continue(t, "reclaim", frame[t])
        \/ Return(t, ReturnOf(outcome))
    BY <1>11, Zenon DEF Apply, Resends, AnyUnresolved
  <2> HIDE DEF outcome, row
  <2>5. /\ orders'[key[t]] = row
        /\ \A k \in Keys : k # key[t] => orders'[k] = orders[k]
    BY <1>a, <1>k, <2>1
  <2>6. SentInv'
    <3> SUFFICES ASSUME NEW k \in Keys
                 PROVE nsent[k] <= archive'[k] + IF orders'[k].status = "NONE" THEN 0 ELSE 1
      BY <2>1 DEF SentInv
    <3>0. nsent[k] <= archive[k] + IF orders[k].status = "NONE" THEN 0 ELSE 1
      BY <1>b DEF SentInv
    <3>1. CASE k # key[t]
      BY <3>0, <3>1, <1>a, <1>k, <2>1, <2>5
    <3>2. CASE k = key[t] /\ outcome = "ABSENT"
      <4>1. archive'[k] = archive[k] + 1
        BY <3>2, <2>1, <2>3, <1>a
      <4> QED
        BY <4>1, <3>0, <1>a
    <3>3. CASE k = key[t] /\ outcome # "ABSENT"
      <4>1. archive'[k] = archive[k]
        BY <3>3, <2>1
      <4>2. orders'[k].status # "NONE"
        BY <3>3, <2>2, <2>3, <2>5 DEF Open
      <4> QED
        BY <4>1, <4>2, <3>0, <1>a
    <3> QED
      BY <3>1, <3>2, <3>3
  <2>7. CASE Return(t, ReturnOf(outcome))
    <3>1. ReturnOf(outcome) \in Terminal => row.status = ReturnOf(outcome)
      BY <2>3 DEF ReturnOf, Terminal
    <3> QED
      BY <1>r, <2>5, <2>6, <2>7, <3>1
  <2>8. CASE /\ frame[t].origin = "existing"
             /\ outcome = "ABSENT"
             /\ Continue(t, "reclaim", frame[t])
    <3>1. pc'[t] = "reclaim" /\ key'[t] = key[t] /\ frame'[t] = frame[t]
      BY <1>a, <2>8 DEF Continue
    <3>2. ~HasSent(t) /\ ~HasSent(t)' /\ ~Sweeping(t)'
      BY <2>1, <2>8, <3>1 DEF HasSent, Sweeping
    <3> QED
      BY <1>b, <1>c, <2>6, <3>1, <3>2 DEF StageOf, SentOf, SweepOf
  <2>9. CASE /\ frame[t].origin = "sweep"
             /\ Continue(t, "sweep", [frame[t] EXCEPT !.dirty = frame[t].dirty \/ outcome = "INCONCLUSIVE"])
    <3>1. /\ pc'[t] = "sweep" /\ key'[t] = key[t]
          /\ frame'[t].sent = frame[t].sent /\ frame'[t].todo = frame[t].todo
          /\ frame'[t].now = frame[t].now /\ frame'[t].stale = frame[t].stale
          /\ frame'[t].dirty = (frame[t].dirty \/ outcome = "INCONCLUSIVE")
      BY <1>a, <1>k, <2>9 DEF Continue, FrameType
    <3>2. ~HasSent(t) /\ ~HasSent(t)' /\ Sweeping(t)
      BY <2>1, <2>9, <3>1 DEF HasSent, Sweeping
    <3>3. StageOf(t)' /\ SentOf(t)'
      BY <1>b, <3>1, <3>2 DEF StageOf, SentOf
    <3>4. \A k \in frame'[t].todo : orders'[k].status \in Open
      <4>1. frame[t].todo \subseteq Keys
        BY <1>k DEF FrameType
      <4> QED
        BY <1>b, <2>1, <2>5, <3>1, <3>2, <4>1 DEF SweepOf
    <3>5. ASSUME ~frame'[t].dirty, NEW k \in Keys, orders'[k].status \in Open,
                 k \notin frame'[t].todo
          PROVE  frame'[t].now < orders'[k].created + frame'[t].stale
      <4>1. outcome # "INCONCLUSIVE" /\ ~frame[t].dirty
        BY <3>1, <3>5
      <4>2. row.status \notin Open
        BY <4>1, <2>3 DEF Open, NoRow
      <4>3. k # key[t] /\ orders'[k] = orders[k]
        BY <4>2, <2>5, <3>5
      <4> QED
        BY <1>b, <3>1, <3>2, <3>5, <4>1, <4>3 DEF SweepOf
    <3>6. SweepOf(t)'
      BY <3>1, <3>4, <3>5 DEF SweepOf
    <3> QED
      BY <1>c, <2>6, <3>1, <3>3, <3>6
  <2> QED
    BY <2>4, <2>7, <2>8, <2>9
<1>12. CASE Reclaim(t)
  <2>1. CASE CanClaim(orders[key[t]])
    <3>1. /\ Claim(t) /\ pc[t] = "reclaim" /\ pc'[t] = "send" /\ key'[t] = key[t]
          /\ frame'[t] = frame[t] /\ UNCHANGED <<archive, nsent>>
      BY <1>12, <1>a, <2>1 DEF Reclaim, Continue
    <3> QED
      BY <1>q, <2>1, <3>1
  <2>2. CASE ~CanClaim(orders[key[t]])
    <3>1. Return(t, "UNRESOLVED") /\ UNCHANGED <<orders, archive, nsent>>
      BY <1>12, <2>2 DEF Reclaim
    <3> QED
      BY <1>n, <1>r, <3>1 DEF Terminal
  <2> QED
    BY <2>1, <2>2
<1>13. CASE SweepLock(t)
  <2>1. /\ pc[t] = "rlock" /\ pc'[t] = "sweep" /\ UNCHANGED <<orders, archive, nsent>>
        /\ frame'[t].sent = frame[t].sent
        /\ frame'[t].todo = {k \in Keys : orders[k].status \in Open}
    BY <1>13, <1>a, <1>k DEF SweepLock, FrameType
  <2>2. ~HasSent(t) /\ ~HasSent(t)'
    BY <2>1 DEF HasSent
  <2>3. StageOf(t)' /\ SentOf(t)'
    BY <1>b, <2>1, <2>2 DEF StageOf, SentOf
  <2>4. SweepOf(t)'
    BY <2>1 DEF SweepOf
  <2> QED
    BY <1>c, <1>n, <2>1, <2>3, <2>4
<1>14. CASE Sweep(t)
  <2>1. pc[t] = "sweep" /\ UNCHANGED <<orders, archive, nsent>>
    BY <1>14 DEF Sweep, brokerVars
  <2>2. Sweeping(t) /\ ~HasSent(t) /\ frame[t].sent = 0
    BY <1>b, <2>1 DEF Sweeping, HasSent, SentOf
  <2>3. CASE Return(t, IF frame[t].dirty THEN "SWEPT_DIRTY" ELSE "SWEPT_CLEAN")
    BY <1>n, <1>r, <2>1, <2>3 DEF Terminal
  <2>4. ASSUME NEW k \in frame[t].todo,
               LET rest == [frame[t] EXCEPT !.todo = frame[t].todo \ {k}]
               IN  IF rest.now < orders[k].created + rest.stale
                   THEN Continue(t, "sweep", rest) /\ UNCHANGED seen
                   ELSE /\ pc' = [pc EXCEPT ![t] = "query"]
                        /\ key' = [key EXCEPT ![t] = k]
                        /\ frame' = [frame EXCEPT ![t] = [rest EXCEPT !.origin = "sweep"]]
                        /\ UNCHANGED <<sendLock, seen, ret>>
        PROVE  ThreadOf(t)'
    <3> DEFINE rest == [frame[t] EXCEPT !.todo = frame[t].todo \ {k}]
               marked == [rest EXCEPT !.origin = "sweep"]
    <3>1. /\ rest.todo = frame[t].todo \ {k} /\ rest.sent = 0
          /\ rest.now = frame[t].now /\ rest.stale = frame[t].stale
          /\ rest.dirty = frame[t].dirty
      BY <1>k, <2>2 DEF FrameType
    <3>2. /\ marked.todo = frame[t].todo \ {k} /\ marked.sent = 0
          /\ marked.now = frame[t].now /\ marked.stale = frame[t].stale
          /\ marked.dirty = frame[t].dirty /\ marked.origin = "sweep"
      BY <1>k, <2>2 DEF FrameType
    <3>3. IF rest.now < orders[k].created + rest.stale
          THEN Continue(t, "sweep", rest)
          ELSE /\ pc' = [pc EXCEPT ![t] = "query"]
               /\ key' = [key EXCEPT ![t] = k]
               /\ frame' = [frame EXCEPT ![t] = marked]
      BY <2>4, Zenon
    <3> HIDE DEF rest, marked
    <3>4. k \in Keys /\ orders[k].status \in Open
      BY <1>b, <1>k, <2>2 DEF SweepOf, FrameType
    <3>5. \A j \in frame[t].todo \ {k} : orders[j].status \in Open
      BY <1>b, <2>2 DEF SweepOf
    <3>6. ASSUME ~frame[t].dirty, NEW j \in Keys, orders[j].status \in Open,
                 j \notin frame[t].todo \ {k}, j # k
          PROVE  frame[t].now < orders[j].created + frame[t].stale
      BY <1>b, <2>1, <2>2, <3>6 DEF SweepOf
    <3>7. CASE rest.now < orders[k].created + rest.stale
      <4>1. pc'[t] = "sweep" /\ frame'[t] = rest
        BY <1>a, <3>3, <3>7 DEF Continue
      <4>2. SweepOf(t)'
        BY <2>1, <3>1, <3>5, <3>6, <3>7, <4>1 DEF SweepOf
      <4>3. StageOf(t)' /\ SentOf(t)'
        BY <3>1, <4>1 DEF StageOf, SentOf
      <4> QED
        BY <1>c, <4>1, <4>2, <4>3
    <3>8. CASE ~(rest.now < orders[k].created + rest.stale)
      <4>1. pc'[t] = "query" /\ frame'[t] = marked /\ key'[t] = k
        BY <1>a, <3>3, <3>8
      <4>2. SweepOf(t)'
        BY <2>1, <3>2, <3>5, <3>6, <4>1 DEF SweepOf
      <4>3. StageOf(t)' /\ SentOf(t)'
        BY <2>1, <3>2, <3>4, <4>1 DEF StageOf, SentOf
      <4> QED
        BY <1>c, <4>1, <4>2, <4>3
    <3> QED
      BY <3>7, <3>8
  <2> QED
    BY <1>14, <1>n, <2>1, <2>3, <2>4 DEF Sweep
<1> QED
  BY <1>1, <1>2, <1>3, <1>4, <1>5, <1>6, <1>8, <1>9, <1>11, <1>12, <1>13, <1>14 DEF Step

\* Initially no thread relies on anything.
LEMMA ThreadInit == Init => ThreadInv
BY RouterAssumption DEF Init, ThreadInv, ThreadOf, StageOf, SentOf, SweepOf, AnswerOf, SentInv,
   Sweeping, HasSent, NewFrame, Terminal, NoRow

\* Every step keeps what every thread relies on.
LEMMA ThreadStep ==
  ASSUME TypeOK, LockDiscipline, ThreadInv, [Next]_vars
  PROVE  ThreadInv'
<1>a. \A s \in Threads : key[s] \in Keys /\ ThreadOf(s)
  BY DEF TypeOK, ThreadInv
<1>b. ASSUME UNCHANGED <<orders, archive, nsent>> PROVE SentInv'
  BY <1>b DEF ThreadInv, SentInv
<1>1. ASSUME NEW t \in Threads, Step(t) PROVE ThreadInv'
  BY <1>1, OwnStep, OthersKeep DEF ThreadInv
<1>2. ASSUME NEW t \in Threads, PlaceOrder(t) \/ RecoverUnresolved(t) PROVE ThreadInv'
  <2>1. UNCHANGED <<orders, archive, nsent>>
    BY <1>2 DEF PlaceOrder, RecoverUnresolved
  <2>2. \A s \in Threads : s # t => ThreadOf(s)'
    BY <1>2, <1>a, <2>1, StepIsLocal, IdleWorld
  <2>3. ThreadOf(t)' /\ SentInv'
    BY <1>2, OwnStep
  <2> QED
    BY <2>2, <2>3 DEF ThreadInv
<1>3. ASSUME NEW m \in wire, Receive(m) \/ Lose(m) PROVE ThreadInv'
  <2>1. UNCHANGED <<orders, archive, nsent, procVars>>
    BY <1>3 DEF Receive, Lose
  <2>2. \A s \in Threads : Same(s)
    BY <2>1 DEF Same, procVars
  <2> QED
    BY <1>a, <1>b, <2>1, <2>2, IdleWorld DEF ThreadInv
<1>4. CASE Crash
  <2>1. UNCHANGED <<orders, archive, nsent>>
    BY <1>4 DEF Crash
  <2>2. \A s \in Threads : pc'[s] = "idle" /\ ret'[s] = "NONE" /\ frame'[s].sent = 0
    BY <1>4 DEF Crash, NewFrame
  <2>3. \A s \in Threads : ThreadOf(s)'
    BY <2>2 DEF ThreadOf, StageOf, SentOf, SweepOf, AnswerOf, Sweeping, HasSent, Terminal
  <2> QED
    BY <1>b, <2>1, <2>3 DEF ThreadInv
<1>5. CASE UNCHANGED vars
  <2>1. \A s \in Threads : Same(s)
    BY <1>5 DEF Same, vars
  <2> QED
    BY <1>5, <1>a, <1>b, <2>1, IdleWorld DEF ThreadInv, vars
<1> QED
  BY <1>1, <1>2, <1>3, <1>4, <1>5 DEF Next, Done

\* The thread invariant holds in every reachable state, whatever is assumed of
\* the broker and the network.
LEMMA ThreadInvHolds == Spec => [](TypeOK /\ LockDiscipline /\ ThreadInv)
<1>1. Init => TypeOK /\ LockDiscipline /\ ThreadInv
  BY TypeInit, RouterInvInit, ThreadInit DEF RouterInv
<1>2. TypeOK /\ LockDiscipline /\ ThreadInv /\ [Next]_vars
        => (TypeOK /\ LockDiscipline /\ ThreadInv)'
  BY TypeStep, LockStep, ThreadStep
<1> QED
  BY <1>1, <1>2, PTL DEF Spec

\* What place_order told a caller stays true of the ledger, for any number of
\* threads, retries and crashes, and whatever the broker does.
THEOREM AnswersStand == Spec => []AnswerStands
<1>1. ThreadInv => AnswerStands
  BY DEF ThreadInv, ThreadOf, AnswerOf, AnswerStands
<1> QED
  BY <1>1, ThreadInvHolds, PTL

\* No call sends twice, and every request but the current one was released.
THEOREM SendsAreAccountedFor == Spec => []SendsAccountedFor
<1>1. ThreadInv => SendsAccountedFor
  BY DEF ThreadInv, ThreadOf, SentOf, SentInv, SendsAccountedFor
<1> QED
  BY <1>1, ThreadInvHolds, PTL

\* A sweep that reports nothing unresolved leaves no open row that was old
\* enough: trading may resume.
THEOREM CleanSweepsAreClean == Spec => CleanSweepIsClean
<1> DEFINE Clean == \A t \in Threads : SweptClean(t) =>
                      \A k \in Keys : orders'[k].status \in Open =>
                        frame[t].now < orders'[k].created + frame[t].stale
<1>1. TypeOK /\ LockDiscipline /\ ThreadInv /\ [Next]_vars => Clean
  <2> SUFFICES ASSUME TypeOK, LockDiscipline, ThreadInv, [Next]_vars,
                      NEW t \in Threads, SweptClean(t),
                      NEW k \in Keys, orders'[k].status \in Open
               PROVE  frame[t].now < orders'[k].created + frame[t].stale
    OBVIOUS
  <2>a. ret \in [Threads -> Returns] /\ key \in [Threads -> Keys]
        /\ seen \in [Threads -> SeenType]
    BY DEF TypeOK, SeenType
  <2>b. ret[t] # "SWEPT_CLEAN" /\ ret'[t] = "SWEPT_CLEAN"
    BY DEF SweptClean
  <2>1. Sweep(t)
    <3>1. ASSUME NEW s \in Threads, s # t, PlaceOrder(s) \/ RecoverUnresolved(s) \/ Step(s)
          PROVE  FALSE
      BY <3>1, <2>b, StepIsLocal DEF Same
    <3>2. ~((\E m \in wire : Receive(m) \/ Lose(m)) \/ Crash \/ UNCHANGED vars)
      BY <2>b DEF Receive, Lose, procVars, Crash, vars
    <3>3. ASSUME NEW v, Return(t, v) PROVE v = "SWEPT_CLEAN"
      BY <3>3, <2>a, <2>b DEF Return
    <3>4. ASSUME NEW step, NEW f PROVE ~Continue(t, step, f)
      BY <2>b DEF Continue
    <3>5. ~(PlaceOrder(t) \/ RecoverUnresolved(t) \/ LockAndClaim(t) \/ SweepLock(t))
      BY <2>a, <2>b DEF PlaceOrder, RecoverUnresolved, LockAndClaim, SweepLock
    <3>6. ~(Send(t) \/ Respond(t) \/ SendRaises(t) \/ QueryBook(t) \/ QueryFails(t))
      BY <3>4 DEF Send, Respond, SendRaises, QueryBook, QueryFails
    <3>7. ~HandleExisting(t) /\ ~Record(t) /\ ~Reclaim(t)
      <4>1. ~Return(t, "UNRESOLVED")
        BY <3>3
      <4>2. ASSUME NEW v \in Terminal PROVE ~Return(t, v)
        BY <3>3 DEF Terminal
      <4> QED
        BY <3>4, <4>1, <4>2, Zenon DEF HandleExisting, Record, Reclaim
    <3>8. ~Apply(t)
      <4>1. ReturnOf(Outcome(orders[key[t]], seen[t])) # "SWEPT_CLEAN"
        BY DEF ReturnOf, Outcome
      <4> QED
        BY <3>3, <3>4, <4>1 DEF Apply
    <3> QED
      BY <3>1, <3>2, <3>5, <3>6, <3>7, <3>8 DEF Next, Step, Done
  <2>2. pc[t] = "sweep" /\ orders' = orders
    BY <2>1 DEF Sweep
  <2>3. frame[t].todo = {} /\ ~frame[t].dirty
    <3>1. ASSUME NEW step, NEW f PROVE ~Continue(t, step, f)
      BY <2>b DEF Continue
    <3>2. frame[t].todo = {}
          /\ Return(t, IF frame[t].dirty THEN "SWEPT_DIRTY" ELSE "SWEPT_CLEAN")
      BY <2>1, <2>b, <3>1 DEF Sweep
    <3> QED
      BY <2>a, <2>b, <3>2 DEF Return
  <2>4. SweepOf(t) /\ Sweeping(t)
    BY <2>2 DEF ThreadInv, ThreadOf, Sweeping
  <2> QED
    BY <2>2, <2>3, <2>4 DEF SweepOf
<1> QED
  BY <1>1, ThreadInvHolds, PTL DEF Spec, CleanSweepIsClean

-----------------------------------------------------------------------------
\* Requests are numbered: those the broker has are among those sent, none is both
\* on the wire and dealt with, and an order id belongs to one book entry.
NumberInv ==
  /\ \A m \in wire \cup processed : m.n <= nsent[m.key]
  /\ \A e \in book : e.req \in processed
  /\ wire \cap processed = {}
  /\ \A d, e \in book : Id(d) = Id(e) => d = e

\* Every step keeps the numbering of requests.
LEMMA NumberStep ==
  ASSUME TypeOK, NumberInv, [Next]_vars
  PROVE  NumberInv'
<1>a. /\ wire \subseteq Requests /\ processed \subseteq Requests
      /\ nsent \in [Keys -> Nat] /\ key \in [Threads -> Keys] /\ book \subseteq BrokerOrders
  BY DEF TypeOK
<1>b. /\ \A m \in wire \cup processed : m.n <= nsent[m.key] /\ m.key \in Keys /\ m.n \in Nat
      /\ \A e \in book : e.req \in processed
      /\ wire \cap processed = {}
      /\ \A d, e \in book : Id(d) = Id(e) => d = e
  BY <1>a DEF NumberInv, Requests
<1>1. ASSUME NEW t \in Threads, Send(t) PROVE NumberInv'
  <2> DEFINE m == [key |-> key[t], n |-> nsent[key[t]] + 1]
  <2>1. /\ wire' = wire \cup {m} /\ processed' = processed /\ book' = book
        /\ nsent' = [nsent EXCEPT ![key[t]] = nsent[key[t]] + 1]
    BY <1>1 DEF Send
  <2>2. m.key = key[t] /\ m.n = nsent[key[t]] + 1 /\ key[t] \in Keys
    BY <1>a
  <2> HIDE DEF m
  <2>3. m \notin processed
    BY <1>a, <1>b, <2>2
  <2>4. \A x \in wire \cup processed : x.n <= nsent'[x.key]
    BY <1>a, <1>b, <2>1
  <2>5. m.n <= nsent'[m.key]
    BY <1>a, <2>1, <2>2
  <2>6. \A d, e \in book' : Id(d)' = Id(e)' => d = e
    BY <1>b, <2>1 DEF Id
  <2>7. \A x \in wire' \cup processed' : x.n <= nsent'[x.key]
    BY <2>1, <2>4, <2>5
  <2>8. wire' \cap processed' = {}
    BY <1>b, <2>1, <2>3
  <2> QED
    BY <1>b, <2>1, <2>6, <2>7, <2>8 DEF NumberInv
<1>2. ASSUME NEW m \in wire, Receive(m) PROVE NumberInv'
  <2>1. wire' = wire \ {m} /\ processed' = processed \cup {m} /\ nsent' = nsent
    BY <1>2 DEF Receive
  <2>0. PICK legs \in 0..MaxSlices : \E live \in [1..legs -> BOOLEAN] :
          book' = book \cup {[req |-> m, leg |-> i, live |-> live[i]] : i \in 1..legs}
    BY <1>2 DEF Receive
  <2>2. PICK live \in [1..legs -> BOOLEAN] :
          book' = book \cup {[req |-> m, leg |-> i, live |-> live[i]] : i \in 1..legs}
    BY <2>0
  <2> DEFINE new == {[req |-> m, leg |-> i, live |-> live[i]] : i \in 1..legs}
  <2>3. \A e \in new : e.req = m
    OBVIOUS
  <2>4. \A d, e \in new : Id(d) = Id(e) => d = e
    BY DEF Id
  <2>5. book' = book \cup new
    BY <2>2
  <2> HIDE DEF new
  <2>6. m \notin processed
    BY <1>b
  <2>7. \A d \in book, e \in new : Id(d) # Id(e)
    BY <1>b, <2>3, <2>6 DEF Id
  <2>8. \A d, e \in book' : Id(d) = Id(e) => d = e
    BY <1>b, <2>4, <2>5, <2>7
  <2>9. \A e \in book' : e.req \in processed'
    BY <1>b, <2>1, <2>3, <2>5
  <2> QED
    BY <1>b, <2>1, <2>8, <2>9 DEF NumberInv, Id
<1>3. ASSUME NEW m \in wire, Lose(m) PROVE NumberInv'
  BY <1>3, <1>b DEF Lose, NumberInv, Id
<1>4. ASSUME UNCHANGED <<brokerVars, nsent>> PROVE NumberInv'
  BY <1>4, <1>b DEF NumberInv, Id, brokerVars
<1>5. ASSUME NEW t \in Threads, PlaceOrder(t) \/ RecoverUnresolved(t) \/ Step(t), ~Send(t)
      PROVE  UNCHANGED <<brokerVars, nsent>>
  BY <1>5 DEF PlaceOrder, RecoverUnresolved, Step, LockAndClaim, HandleExisting, Respond,
              SendRaises, Record, QueryBook, QueryFails, Apply, Reclaim, SweepLock, Sweep
<1>6. CASE Crash \/ UNCHANGED vars
  BY <1>6, <1>4 DEF Crash, vars, brokerVars
<1> QED
  BY <1>1, <1>2, <1>3, <1>4, <1>5, <1>6 DEF Next, Done

\* The orders a row may be linked to: those of its own key when the broker echoes
\* keys, any order in the book when orders are recognised by attributes.
Mine(k) == {Id(e) : e \in IF BrokerEchoesKey THEN KeyMatches(k) ELSE book}

\* What a thread carries from the broker's answer or book to the ledger belongs
\* to no other row; and no row is linked to an order of the request it waits for.
CreditOf(t) ==
  /\ pc[t] \in {"record", "apply"} =>
       /\ seen[t].ids \subseteq Mine(key[t])
       /\ \A j \in Keys \ {key[t]} : seen[t].ids \cap orders[j].ids = {}
  /\ pc[t] = "wait" => \A j \in Keys : \A i \in orders[j].ids : i[1] # Pending(t)

\* The inductive invariant of NoDoubleCredit.
CreditInv ==
  /\ \A k \in Keys : orders[k].ids \subseteq Mine(k)
  /\ \A t \in Threads : CreditOf(t)
  /\ NoDoubleCredit

\* A write to a row links it to what it was linked to or to what was seen.
LEMMA LinksOf ==
  ASSUME NEW row \in RowType, NEW s, NEW view \in SeenType
  PROVE  /\ Updated(row, s, view.ids).ids \subseteq row.ids \cup view.ids
         /\ Reconciled(row, view).ids \subseteq row.ids \cup view.ids
<1>1. \A r, x : Updated(row, r, x).ids \subseteq row.ids \cup x
  BY DEF Updated, RowType
<1>2. NoRow.ids = {}
  BY DEF NoRow
<1> QED
  BY <1>1, <1>2 DEF Reconciled

\* What the order book can show of a key belongs to no other row.
LEMMA ViewIsUnclaimed ==
  ASSUME TypeOK, CreditInv, NEW k \in Keys, NEW view \in BookView(k)
  PROVE  /\ view.ids \subseteq Mine(k)
         /\ \A j \in Keys \ {k} : view.ids \cap orders[j].ids = {}
<1>1. CASE view.ids = {}
  BY <1>1
<1>2. CASE view.ids # {}
  <2>1. PICK e \in IF BrokerEchoesKey THEN KeyMatches(k) ELSE Lookalikes(k) :
          view \in Shown(e)
    BY <1>2 DEF BookView
  <2>2. view.ids = {Id(e)}
    BY <1>2, <2>1 DEF Shown
  <2>3. Id(e) \in Mine(k)
    BY <2>1 DEF Mine, Lookalikes
  <2>4. ASSUME NEW j \in Keys, j # k PROVE Id(e) \notin orders[j].ids
    <3>1. CASE BrokerEchoesKey
      <4>1. e.req.key = k
        BY <2>1, <3>1 DEF KeyMatches
      <4>2. \A i \in orders[j].ids : i[1].key = j
        BY <3>1 DEF CreditInv, Mine, KeyMatches, Id
      <4> QED
        BY <2>4, <4>1, <4>2 DEF Id
    <3>2. CASE ~BrokerEchoesKey
      BY <2>1, <3>2 DEF Lookalikes, Linked
    <3> QED
      BY <3>1, <3>2
  <2> QED
    BY <2>2, <2>3, <2>4
<1> QED
  BY <1>1, <1>2

\* Every step keeps the credit invariant, whether or not keys are echoed.
LEMMA CreditStep ==
  ASSUME TypeOK, LockDiscipline, NumberInv, CreditInv, [Next]_vars
  PROVE  CreditInv'
<1>a. /\ pc \in [Threads -> Critical \cup {"idle", "lock", "rlock"}]
      /\ key \in [Threads -> Keys] /\ seen \in [Threads -> SeenType]
      /\ orders \in [Keys -> RowType] /\ nsent \in [Keys -> Nat]
      /\ book \subseteq BrokerOrders
  BY DEF TypeOK, SeenType, RowType
<1>b. /\ \A k \in Keys : orders[k].ids \subseteq Mine(k)
      /\ \A t \in Threads : CreditOf(t)
      /\ \A j, k \in Keys : j # k => orders[j].ids \cap orders[k].ids = {}
  BY DEF CreditInv, NoDoubleCredit
<1>m. ASSUME book \subseteq book' PROVE \A k \in Keys : Mine(k) \subseteq Mine(k)'
  BY <1>m DEF Mine, KeyMatches, Id
\* Rows that gain no link keep their credits.
<1>r. ASSUME book \subseteq book', \A k \in Keys : orders'[k].ids \subseteq orders[k].ids,
             \A t \in Threads : CreditOf(t)'
      PROVE  CreditInv'
  BY <1>b, <1>m, <1>r DEF CreditInv, NoDoubleCredit
\* A thread that stays where it is keeps its credits.
<1>s. ASSUME NEW s \in Threads, Same(s), orders' = orders, nsent' = nsent,
             book \subseteq book'
      PROVE  CreditOf(s)'
  <2>1. key[s] \in Keys /\ Mine(key[s]) \subseteq Mine(key[s])'
    BY <1>a, <1>m, <1>s DEF Same
  <2>3. Pending(s)' = Pending(s)
    BY <1>s DEF Pending, Same
  <2>4. CreditOf(s)
    BY <1>b
  <2> QED
    BY <1>s, <2>1, <2>3, <2>4 DEF CreditOf, Same
\* Of a thread outside the lock nothing is asked.
<1>o. ASSUME NEW s \in Threads, pc'[s] \notin {"wait", "record", "apply"}
      PROVE  CreditOf(s)'
  BY <1>o DEF CreditOf
<1>t. ASSUME NEW t \in Threads, Step(t) PROVE \A s \in Threads : s # t => CreditOf(s)'
  <2>1. \A s \in Threads : s # t => pc[s] \notin Critical /\ Same(s)
    BY <1>t, OthersOutside
  <2> QED
    BY <2>1, <1>o DEF Critical, Same
<1>1. ASSUME NEW t \in Threads, PlaceOrder(t) \/ RecoverUnresolved(t) PROVE CreditInv'
  <2>1. UNCHANGED <<orders, nsent, book>>
    BY <1>1 DEF PlaceOrder, RecoverUnresolved, brokerVars
  <2>2. \A s \in Threads : s # t => CreditOf(s)'
    BY <1>1, <1>s, <2>1, StepIsLocal
  <2>3. CreditOf(t)'
    BY <1>1, <1>a, <1>o DEF PlaceOrder, RecoverUnresolved
  <2> QED
    BY <1>r, <2>1, <2>2, <2>3
<1>2. ASSUME NEW t \in Threads, LockAndClaim(t) \/ Reclaim(t) PROVE CreditInv'
  <2>1. pc'[t] \notin {"wait", "record", "apply"} /\ UNCHANGED book
    BY <1>2, <1>a DEF LockAndClaim, Reclaim, Continue, Return, brokerVars
  <2>2. Claim(t) \/ UNCHANGED orders
    BY <1>2 DEF LockAndClaim, Reclaim
  <2>3. \A k \in Keys : orders'[k].ids \subseteq orders[k].ids
    BY <1>a, <2>2 DEF Claim, Claimed
  <2> QED
    BY <1>2, <1>o, <1>r, <1>t, <2>1, <2>3 DEF Step
<1>3. ASSUME NEW t \in Threads, HandleExisting(t) \/ SweepLock(t) \/ Sweep(t) PROVE CreditInv'
  <2>1. pc'[t] \notin {"wait", "record", "apply"} /\ UNCHANGED <<orders, book>>
    BY <1>3, <1>a DEF HandleExisting, SweepLock, Sweep, Continue, Return, brokerVars
  <2> QED
    BY <1>3, <1>o, <1>r, <1>t, <2>1 DEF Step
<1>4. ASSUME NEW t \in Threads, Send(t) PROVE CreditInv'
  <2>1. /\ pc'[t] = "wait" /\ key' = key /\ UNCHANGED <<orders, book>>
        /\ nsent' = [nsent EXCEPT ![key[t]] = nsent[key[t]] + 1]
    BY <1>4, <1>a DEF Send, Continue
  <2>2. Pending(t)' = [key |-> key[t], n |-> nsent[key[t]] + 1]
    BY <1>a, <2>1 DEF Pending
  <2>3. ASSUME NEW j \in Keys, NEW i \in orders[j].ids PROVE i[1] # Pending(t)'
    <3>1. PICK e \in book : i = Id(e)
      BY <1>b DEF Mine, KeyMatches
    <3>2. i[1] = e.req /\ e.req.n <= nsent[e.req.key]
      BY <3>1 DEF Id, NumberInv
    <3> QED
      BY <1>a, <2>2, <3>2
  <2>4. CreditOf(t)'
    BY <2>1, <2>3 DEF CreditOf
  <2> QED
    BY <1>4, <1>r, <1>t, <2>1, <2>4 DEF Step
<1>5. ASSUME NEW t \in Threads, Respond(t) PROVE CreditInv'
  <2>1. /\ pc[t] = "wait" /\ pc'[t] = "record" /\ key' = key /\ UNCHANGED <<orders, book>>
    BY <1>5, <1>a DEF Respond, Continue, brokerVars
  <2>2. seen'[t].ids \subseteq {Id(e) : e \in {d \in book : d.req = Pending(t)}}
    BY <1>5, <1>a DEF Respond
  <2>3. \A i \in seen'[t].ids : i[1] = Pending(t)
    BY <2>2 DEF Id
  <2>4. seen'[t].ids \subseteq Mine(key[t])
    BY <2>2 DEF Mine, KeyMatches, Pending
  <2>5. \A j \in Keys : seen'[t].ids \cap orders[j].ids = {}
    BY <1>b, <2>1, <2>3 DEF CreditOf
  <2>6. Mine(key[t]) = Mine(key[t])'
    BY <2>1 DEF Mine, KeyMatches, Id
  <2>7. CreditOf(t)'
    BY <2>1, <2>4, <2>5, <2>6 DEF CreditOf
  <2> QED
    BY <1>5, <1>r, <1>t, <2>1, <2>7 DEF Step
<1>6. ASSUME NEW t \in Threads, SendRaises(t) \/ QueryFails(t) PROVE CreditInv'
  <2>1. /\ pc'[t] # "wait" /\ seen'[t].ids = {} /\ UNCHANGED <<orders, book>>
    BY <1>6, <1>a DEF SendRaises, QueryFails, Continue, brokerVars
  <2>2. CreditOf(t)'
    BY <2>1 DEF CreditOf
  <2> QED
    BY <1>6, <1>r, <1>t, <2>1, <2>2 DEF Step
<1>7. ASSUME NEW t \in Threads, QueryBook(t) PROVE CreditInv'
  <2>1. /\ pc'[t] = "apply" /\ key' = key /\ UNCHANGED <<orders, book>>
        /\ seen'[t] \in BookView(key[t])
    BY <1>7, <1>a DEF QueryBook, Continue, brokerVars
  <2>2. /\ seen'[t].ids \subseteq Mine(key[t])
        /\ \A j \in Keys \ {key[t]} : seen'[t].ids \cap orders[j].ids = {}
    BY <1>a, <2>1, ViewIsUnclaimed
  <2>3. Mine(key[t]) = Mine(key[t])'
    BY <2>1 DEF Mine, KeyMatches, Id
  <2>4. CreditOf(t)'
    BY <2>1, <2>2, <2>3 DEF CreditOf
  <2> QED
    BY <1>7, <1>r, <1>t, <2>1, <2>4 DEF Step
<1>8. ASSUME NEW t \in Threads, Record(t) \/ Apply(t) PROVE CreditInv'
  <2>1. /\ pc[t] \in {"record", "apply"} /\ pc'[t] \notin {"wait", "record", "apply"}
        /\ UNCHANGED book
    BY <1>8, <1>a DEF Record, Apply, Continue, Return, brokerVars
  <2>2. PICK row : /\ orders' = [orders EXCEPT ![key[t]] = row]
                   /\ row.ids \subseteq orders[key[t]].ids \cup seen[t].ids
    <3>0. orders[key[t]] \in RowType /\ seen[t] \in SeenType
      BY <1>a
    <3>1. CASE Record(t)
      <4>1. orders' = [orders EXCEPT ![key[t]] =
                         Updated(orders[key[t]], seen[t].what, seen[t].ids)]
        BY <3>1 DEF Record
      <4>2. Updated(orders[key[t]], seen[t].what, seen[t].ids).ids
              \subseteq orders[key[t]].ids \cup seen[t].ids
        BY <3>0, LinksOf, Zenon
      <4> QED
        BY <4>1, <4>2
    <3>2. CASE Apply(t)
      <4>1. orders' = [orders EXCEPT ![key[t]] = Reconciled(orders[key[t]], seen[t])]
        BY <3>2 DEF Apply
      <4> QED
        BY <3>0, <4>1, LinksOf
    <3> QED
      BY <1>8, <3>1, <3>2
  <2>3. /\ orders'[key[t]].ids \subseteq orders[key[t]].ids \cup seen[t].ids
        /\ \A k \in Keys : k # key[t] => orders'[k] = orders[k]
    BY <1>a, <2>2
  <2>4. /\ seen[t].ids \subseteq Mine(key[t])
        /\ \A j \in Keys \ {key[t]} : seen[t].ids \cap orders[j].ids = {}
    BY <1>b, <2>1 DEF CreditOf
  <2>5. \A k \in Keys : orders'[k].ids \subseteq Mine(k)
    BY <1>b, <2>3, <2>4
  <2>6. \A k \in Keys : Mine(k) = Mine(k)'
    BY <2>1 DEF Mine, KeyMatches, Id
  <2>7. NoDoubleCredit'
    BY <1>b, <2>3, <2>4 DEF NoDoubleCredit
  <2>8. \A s \in Threads : CreditOf(s)'
    BY <1>8, <1>o, <1>t, <2>1 DEF Step
  <2> QED
    BY <2>5, <2>6, <2>7, <2>8 DEF CreditInv
<1>9. ASSUME NEW m \in wire, Receive(m) \/ Lose(m) PROVE CreditInv'
  <2>1. UNCHANGED <<orders, nsent, procVars>> /\ book \subseteq book'
    BY <1>9 DEF Receive, Lose
  <2>2. \A s \in Threads : Same(s)
    BY <2>1 DEF Same, procVars
  <2> QED
    BY <1>r, <1>s, <2>1, <2>2
<1>10. CASE Crash
  BY <1>10, <1>o, <1>r DEF Crash, brokerVars
<1>11. CASE UNCHANGED vars
  <2>1. \A s \in Threads : Same(s)
    BY <1>11 DEF Same, vars
  <2> QED
    BY <1>11, <1>r, <1>s, <2>1 DEF vars
<1> QED
  BY <1>1, <1>2, <1>3, <1>4, <1>5, <1>6, <1>7, <1>8, <1>9, <1>10, <1>11 DEF Next, Step, Done

\* Initially nothing was sent and nothing is linked.
LEMMA CreditInit == Init => NumberInv /\ CreditInv
BY DEF Init, NumberInv, CreditInv, CreditOf, NoDoubleCredit, NoRow

\* Numbering and credits hold in every reachable state.
LEMMA CreditInvHolds ==
  Spec => [](TypeOK /\ LockDiscipline /\ NumberInv /\ CreditInv)
<1>1. Init => TypeOK /\ LockDiscipline /\ NumberInv /\ CreditInv
  BY TypeInit, RouterInvInit, CreditInit DEF RouterInv
<1>2. TypeOK /\ LockDiscipline /\ NumberInv /\ CreditInv /\ [Next]_vars
        => (TypeOK /\ LockDiscipline /\ NumberInv /\ CreditInv)'
  BY TypeStep, LockStep, NumberStep, CreditStep
<1> QED
  BY <1>1, <1>2, PTL DEF Spec

\* No broker order is ever credited to two intents: with echoed keys because the
\* key tells them apart, without because linked orders are excluded from the
\* match.  Nothing is assumed of delivery or of the number of slices.
THEOREM CreditsAreUnique == Spec => []NoDoubleCredit
<1>1. CreditInv => NoDoubleCredit
  BY DEF CreditInv
<1> QED
  BY <1>1, CreditInvHolds, PTL

-----------------------------------------------------------------------------
\* The requests under which key k has left a trace at the broker or on the way to
\* it; nothing of k is on the wire.
Footprint(k) == {m \in wire : m.key = k} \cup {e.req : e \in KeyMatches(k)}

OffWire(k) == \A m \in wire : m.key # k

\* A row says of the broker what is true of it.
RowIsTrue(k) ==
  /\ orders[k].status = "NONE" => Footprint(k) = {}
  /\ orders[k].status \in Terminal => OffWire(k)
  /\ orders[k].status = "PLACED" => orders[k].ids # {}
  /\ orders[k].status = "REJECTED" => Exposure(k) = {}

\* What a thread knows of the broker when it is about to send, waits, or carries
\* a verdict to the ledger.
VerdictOf(t) ==
  /\ pc[t] = "send" => Footprint(key[t]) = {}
  /\ pc[t] = "wait" => \A x \in Footprint(key[t]) : x = Pending(t)
  /\ pc[t] = "record" =>
       /\ seen[t].what \in Terminal => OffWire(key[t])
       /\ seen[t].what = "PLACED" => seen[t].ids # {}
       /\ seen[t].what = "REJECTED" => Exposure(key[t]) = {}
  /\ pc[t] = "apply" =>
       /\ seen[t].what # "failed" => wire = {}
       /\ seen[t].what = "miss" => Footprint(key[t]) = {}
       /\ seen[t].what = "rejected" => Exposure(key[t]) = {}

\* The inductive invariant of LedgerIsTrue and of the refinement: a key leaves
\* the trace of one request at most, and rows and verdicts are true.
TruthInv ==
  /\ \A k \in Keys : \A x, y \in Footprint(k) : x = y
  /\ \A k \in Keys : RowIsTrue(k)
  /\ \A t \in Threads : VerdictOf(t)

\* The broker moves requests from the wire to its book, the network drops them:
\* no key's trace grows.
Recedes ==
  /\ \A m \in wire' : m \in wire
  /\ \A k \in Keys : Footprint(k)' \subseteq Footprint(k)
  /\ \A k \in Keys : Exposure(k)' \subseteq Exposure(k)

\* Of a broker that only deals with what is on the wire, this is true.
LEMMA BrokerRecedes ==
  ASSUME \A m \in wire' : m \in wire,
         \A e \in book' : e \in book \/ e.req \in wire
  PROVE  Recedes
BY ExposureShrinks DEF Recedes, Footprint, KeyMatches

\* Rows that are not written stay true while the broker recedes.
LEMMA RowStaysTrue ==
  ASSUME Recedes, NEW k \in Keys, RowIsTrue(k), orders'[k] = orders[k]
  PROVE  RowIsTrue(k)'
BY DEF Recedes, RowIsTrue, OffWire

\* Verdicts of threads that do not move stay true while the broker recedes.
LEMMA VerdictStaysTrue ==
  ASSUME Recedes, NEW s \in Threads, VerdictOf(s), Same(s), key[s] \in Keys,
         nsent' = nsent
  PROVE  VerdictOf(s)'
<1>1. Pending(s)' = Pending(s)
  BY DEF Pending, Same
<1>2. /\ Footprint(key[s])' \subseteq Footprint(key[s])
      /\ Exposure(key[s])' \subseteq Exposure(key[s])
      /\ \A m \in wire' : m \in wire
  BY DEF Recedes, Same
<1>3. OffWire(key[s]) => OffWire(key[s])'
  BY <1>2 DEF OffWire, Same
<1>4. /\ pc'[s] = pc[s] /\ seen'[s] = seen[s]
      /\ pc[s] = "send" => Footprint(key[s]) = {}
      /\ pc[s] = "wait" => \A x \in Footprint(key[s]) : x = Pending(s)
      /\ pc[s] = "record" =>
           /\ seen[s].what \in Terminal => OffWire(key[s])
           /\ seen[s].what = "PLACED" => seen[s].ids # {}
           /\ seen[s].what = "REJECTED" => Exposure(key[s]) = {}
      /\ pc[s] = "apply" =>
           /\ seen[s].what # "failed" => wire = {}
           /\ seen[s].what = "miss" => Footprint(key[s]) = {}
           /\ seen[s].what = "rejected" => Exposure(key[s]) = {}
  BY DEF VerdictOf, Same
<1>5. wire = {} => wire' = {}
  BY <1>2
<1> QED
  BY <1>1, <1>2, <1>3, <1>4, <1>5 DEF VerdictOf

\* An honest broker's answer: a verdict of PLACED lists an order, a verdict of
\* REJECTED is not given for a live one.
LEMMA HonestVerdict ==
  ASSUME NEW accepted, NEW listed, NEW r \in Honest(accepted, listed)
  PROVE  /\ Classify(r) = "PLACED" => listed
         /\ Classify(r) = "REJECTED" => ~accepted
<1>1. /\ r.token = "reject" \/ (r.error = "refusal" /\ ~r.fault) => ~accepted
      /\ r.ids => listed
  BY DEF Honest
<1>2. Classify(r) = "PLACED" => r.ids
  BY DEF Classify, Acknowledges
<1>3. Classify(r) = "REJECTED" => r.token = "reject" \/ (r.error = "refusal" /\ ~r.fault)
  BY DEF Classify, Refuses
<1> QED
  BY <1>1, <1>2, <1>3

\* When requests are not split and the book is read with nothing on the wire, what
\* it shows of a key at a broker that echoes keys is the whole truth of it.
LEMMA BookTellsTruth ==
  ASSUME TypeOK, NumberInv, BrokerEchoesKey, MaxSlices = 1, wire = {},
         NEW k \in Keys, \A x, y \in Footprint(k) : x = y, NEW view \in BookView(k)
  PROVE  /\ view.what = "miss" => Footprint(k) = {}
         /\ view.what = "rejected" => Exposure(k) = {}
<1>1. ASSUME view.what = "miss" PROVE Footprint(k) = {}
  BY <1>1, MissMeansNoEntry DEF Footprint
<1>2. ASSUME view.what = "rejected" PROVE Exposure(k) = {}
  <2>1. PICK e \in KeyMatches(k) : view \in Shown(e)
    BY <1>2 DEF BookView
  <2>2. ~e.live
    BY <1>2, <2>1 DEF Shown
  <2>3. \A d \in KeyMatches(k) : d = e
    <3> SUFFICES ASSUME NEW d \in KeyMatches(k) PROVE d = e
      OBVIOUS
    <3>1. d \in book /\ e \in book
      BY DEF KeyMatches
    <3>2. d.req = e.req
      BY DEF Footprint
    <3>3. d.leg = 1 /\ e.leg = 1
      BY <3>1 DEF TypeOK, BrokerOrders
    <3> QED
      BY <3>1, <3>2, <3>3 DEF NumberInv, Id
  <2> QED
    BY <2>2, <2>3 DEF Exposure, LiveOrders, KeyMatches
<1> QED
  BY <1>1, <1>2

\* What _reconcile writes rests on what it saw.
LEMMA OutcomeRestsOn ==
  ASSUME NEW row \in RowType, row.status \in Open, NEW view
  PROVE  /\ Outcome(row, view) = "FOUND_PLACED" =>
              view.what = "working" /\ Reconciled(row, view).ids = view.ids /\ view.ids # {}
         /\ Outcome(row, view) = "FOUND_REJECTED" => view.what = "rejected"
         /\ Outcome(row, view) = "ABSENT" => view.what = "miss"
<1>1. /\ Outcome(row, view) = "FOUND_PLACED" => view.what = "working" /\ view.ids # {}
      /\ Outcome(row, view) = "FOUND_REJECTED" => view.what = "rejected"
      /\ Outcome(row, view) = "ABSENT" => view.what = "miss"
  BY DEF Outcome
<1>2. \A x : x # {} => Updated(row, "PLACED", x).ids = x
  BY DEF Updated, CanUpdate, Allowed, IntentStatus, Open, Terminal, RowType
<1>3. Outcome(row, view) = "FOUND_PLACED" =>
        Reconciled(row, view) = Updated(row, "PLACED", view.ids)
  BY DEF Reconciled
<1> QED
  BY <1>1, <1>2, <1>3

\* Every step keeps rows and verdicts true.
LEMMA TruthStep ==
  ASSUME BrokerEchoesKey, ~LateDelivery, MaxSlices = 1,
         TypeOK, LockDiscipline, ThreadInv, NumberInv, TruthInv, [Next]_vars
  PROVE  TruthInv'
<1>a. /\ pc \in [Threads -> Critical \cup {"idle", "lock", "rlock"}]
      /\ key \in [Threads -> Keys] /\ seen \in [Threads -> SeenType]
      /\ orders \in [Keys -> RowType] /\ nsent \in [Keys -> Nat]
      /\ book \subseteq BrokerOrders
  BY DEF TypeOK, SeenType, RowType
<1>b. /\ \A k \in Keys : \A x, y \in Footprint(k) : x = y
      /\ \A k \in Keys : RowIsTrue(k)
      /\ \A t \in Threads : VerdictOf(t)
  BY DEF TruthInv
<1>u. ASSUME UNCHANGED <<wire, book>> PROVE Recedes
  BY <1>u, BrokerRecedes
\* A step that receives nothing new at the broker is left to show that the rows
\* it writes and the verdicts it forms are true.
<1>r. ASSUME Recedes, \A k \in Keys : RowIsTrue(k)', \A t \in Threads : VerdictOf(t)'
      PROVE  TruthInv'
  BY <1>b, <1>r DEF TruthInv, Recedes
<1>o. ASSUME NEW s \in Threads, pc'[s] \notin {"send", "wait", "record", "apply"}
      PROVE  VerdictOf(s)'
  BY <1>o DEF VerdictOf
<1>t. ASSUME NEW t \in Threads, Step(t) PROVE \A s \in Threads : s # t => VerdictOf(s)'
  <2>1. \A s \in Threads : s # t => pc[s] \notin Critical /\ Same(s)
    BY <1>t, OthersOutside
  <2> QED
    BY <2>1, <1>o DEF Critical, Same
\* Steps that write no row.
<1>q. ASSUME NEW t \in Threads, Step(t), UNCHANGED <<orders, wire, book>>, VerdictOf(t)'
      PROVE  TruthInv'
  BY <1>q, <1>b, <1>r, <1>t, <1>u, RowStaysTrue
<1>e. ASSUME UNCHANGED <<wire, book>>
      PROVE  \A k \in Keys : Footprint(k)' = Footprint(k) /\ Exposure(k)' = Exposure(k)
                             /\ OffWire(k)' = OffWire(k)
  BY <1>e DEF Footprint, KeyMatches, Exposure, LiveOrders, OffWire
<1>1. ASSUME NEW t \in Threads, PlaceOrder(t) \/ RecoverUnresolved(t) PROVE TruthInv'
  <2>1. UNCHANGED <<orders, nsent, wire, book>>
    BY <1>1 DEF PlaceOrder, RecoverUnresolved, brokerVars
  <2>2. \A s \in Threads : s # t => VerdictOf(s)'
    BY <1>1, <1>a, <1>b, <1>u, <2>1, StepIsLocal, VerdictStaysTrue
  <2>3. VerdictOf(t)'
    BY <1>1, <1>a, <1>o DEF PlaceOrder, RecoverUnresolved
  <2> QED
    BY <1>b, <1>r, <1>u, <2>1, <2>2, <2>3, RowStaysTrue
<1>2. ASSUME NEW t \in Threads, LockAndClaim(t) \/ Reclaim(t) PROVE TruthInv'
  <2>0. Step(t) /\ UNCHANGED <<wire, book>>
    BY <1>2 DEF Step, LockAndClaim, Reclaim, brokerVars
  <2>1. CASE CanClaim(orders[key[t]])
    <3>1. /\ pc'[t] = "send" /\ key'[t] = key[t]
          /\ orders' = [orders EXCEPT ![key[t]] = Claimed(clock + 1)]
      BY <1>2, <1>a, <2>1 DEF LockAndClaim, Reclaim, Continue, Claim
    <3>2. /\ orders'[key[t]].status = "PENDING"
          /\ \A k \in Keys : k # key[t] => orders'[k] = orders[k]
      BY <1>a, <3>1 DEF Claimed
    <3>3. Footprint(key[t]) = {}
      BY <1>a, <1>b, <2>1 DEF RowIsTrue, CanClaim
    <3>5. \A k \in Keys : RowIsTrue(k)'
      <4>1. \A k \in Keys : k # key[t] => RowIsTrue(k)'
        BY <1>b, <1>u, <2>0, <3>2, RowStaysTrue
      <4>2. orders'[key[t]].status \notin {"NONE", "PLACED", "REJECTED"}
        BY <3>2
      <4> QED
        BY <4>1, <4>2 DEF RowIsTrue, Terminal
    <3>6. VerdictOf(t)'
      <4>1. Footprint(key[t])' = Footprint(key[t])
        BY <1>a, <1>e, <2>0, <3>1
      <4> QED
        BY <3>1, <3>3, <4>1 DEF VerdictOf
    <3> QED
      BY <1>r, <1>t, <1>u, <2>0, <3>5, <3>6
  <2>2. CASE ~CanClaim(orders[key[t]])
    <3>1. pc'[t] \in {"existing", "idle"} /\ orders' = orders
      BY <1>2, <1>a, <2>2 DEF LockAndClaim, Reclaim, Return
    <3> QED
      BY <1>o, <1>q, <2>0, <3>1
  <2> QED
    BY <2>1, <2>2
<1>3. ASSUME NEW t \in Threads, HandleExisting(t) \/ SweepLock(t) \/ Sweep(t) PROVE TruthInv'
  <2>1. /\ pc'[t] \notin {"send", "wait", "record", "apply"}
        /\ UNCHANGED <<orders, wire, book>>
    BY <1>3, <1>a DEF HandleExisting, SweepLock, Sweep, Continue, Return, brokerVars
  <2> QED
    BY <1>3, <1>o, <1>q, <2>1 DEF Step
<1>4. ASSUME NEW t \in Threads, Send(t) PROVE TruthInv'
  <2> DEFINE m == [key |-> key[t], n |-> nsent[key[t]] + 1]
  <2>1. /\ pc[t] = "send" /\ pc'[t] = "wait" /\ key' = key /\ UNCHANGED <<orders, book>>
        /\ wire' = wire \cup {m}
        /\ nsent' = [nsent EXCEPT ![key[t]] = nsent[key[t]] + 1]
    BY <1>4, <1>a DEF Send, Continue
  <2>2. m.key = key[t] /\ Pending(t)' = m
    BY <1>a, <2>1 DEF Pending
  <2> HIDE DEF m
  <2>3. \A k \in Keys : k # key[t] =>
          Footprint(k)' = Footprint(k) /\ Exposure(k)' = Exposure(k) /\ OffWire(k)' = OffWire(k)
    BY <2>1, <2>2 DEF Footprint, KeyMatches, Exposure, LiveOrders, OffWire
  <2>4. ASSUME NEW k \in Keys, k = key[t] PROVE Footprint(k)' = {m}
    <3>1. Footprint(k) = {}
      BY <1>b, <2>1, <2>4 DEF VerdictOf
    <3> QED
      BY <2>1, <2>2, <2>4, <3>1 DEF Footprint, KeyMatches
  <2>5. orders[key[t]].status = "PENDING"
    BY <2>1 DEF ThreadInv, ThreadOf, StageOf
  <2>6. \A k \in Keys : RowIsTrue(k)'
    <3> SUFFICES ASSUME NEW k \in Keys PROVE RowIsTrue(k)'
      OBVIOUS
    <3>1. CASE k = key[t]
      BY <2>1, <2>5, <3>1 DEF RowIsTrue, Terminal
    <3>2. CASE k # key[t]
      BY <1>b, <2>1, <2>3, <3>2 DEF RowIsTrue
    <3> QED
      BY <3>1, <3>2
  <2>7. \A k \in Keys : \A x, y \in Footprint(k)' : x = y
    BY <1>b, <2>3, <2>4
  <2>8. VerdictOf(t)'
    <3>1. \A x \in Footprint(key[t])' : x = m
      BY <1>a, <2>1, <2>4
    <3> QED
      BY <2>1, <2>2, <3>1 DEF VerdictOf
  <2> QED
    BY <1>4, <1>t, <2>6, <2>7, <2>8 DEF TruthInv, Step
<1>5. ASSUME NEW t \in Threads, Respond(t) PROVE TruthInv'
  <2> DEFINE made == {e \in book : e.req = Pending(t)}
  <2>1. /\ pc[t] = "wait" /\ pc'[t] = "record" /\ key' = key /\ Pending(t) \in processed
        /\ UNCHANGED <<orders, wire, book>>
    BY <1>5, <1>a DEF Respond, Continue, brokerVars
  <2>2. PICK r \in Honest(\E e \in made : e.live, made # {}) :
          seen'[t] = [what |-> Classify(r),
                      ids |-> IF Classify(r) = "PLACED" THEN {Id(e) : e \in made} ELSE {}]
    BY <1>5, <1>a DEF Respond
  <2>3. \A x \in Footprint(key[t]) : x = Pending(t)
    BY <1>b, <2>1 DEF VerdictOf
  <2>4. OffWire(key[t])
    BY <2>1, <2>3 DEF OffWire, Footprint, NumberInv
  <2>5. \A e \in LiveOrders(key[t]) : e \in made /\ e.live
    BY <2>3 DEF LiveOrders, Footprint, KeyMatches
  <2>6. /\ seen'[t].what = "PLACED" => made # {} /\ seen'[t].ids = {Id(e) : e \in made}
        /\ seen'[t].what = "REJECTED" => ~\E e \in made : e.live
    <3>1. /\ Classify(r) = "PLACED" => made # {}
          /\ Classify(r) = "REJECTED" => ~\E e \in made : e.live
      BY HonestVerdict
    <3> QED
      BY <2>2, <3>1
  <2>7. seen'[t].what = "REJECTED" => Exposure(key[t]) = {}
    BY <2>4, <2>5, <2>6 DEF Exposure, OffWire
  <2>8. OffWire(key[t])' /\ Exposure(key[t])' = Exposure(key[t])
    BY <1>a, <1>e, <2>1, <2>4
  <2>9. VerdictOf(t)'
    BY <2>1, <2>6, <2>7, <2>8 DEF VerdictOf
  <2> QED
    BY <1>5, <1>q, <2>1, <2>9 DEF Step
<1>6. ASSUME NEW t \in Threads, SendRaises(t) PROVE TruthInv'
  <2>1. /\ pc'[t] = "record" /\ seen'[t].what = "UNKNOWN" /\ UNCHANGED <<orders, wire, book>>
    BY <1>6, <1>a DEF SendRaises, Continue, brokerVars
  <2> QED
    BY <1>6, <1>q, <2>1 DEF Step, VerdictOf, Terminal
<1>7. ASSUME NEW t \in Threads, QueryFails(t) PROVE TruthInv'
  <2>1. /\ pc'[t] = "apply" /\ seen'[t].what = "failed" /\ UNCHANGED <<orders, wire, book>>
    BY <1>7, <1>a DEF QueryFails, Continue, brokerVars
  <2> QED
    BY <1>7, <1>q, <2>1 DEF Step, VerdictOf
<1>8. ASSUME NEW t \in Threads, QueryBook(t) PROVE TruthInv'
  <2>1. /\ pc'[t] = "apply" /\ key' = key /\ UNCHANGED <<orders, wire, book>>
        /\ seen'[t] \in BookView(key[t]) /\ wire = {} /\ key[t] \in Keys
    BY <1>8, <1>a DEF QueryBook, Continue, brokerVars
  <2>2. /\ seen'[t].what = "miss" => Footprint(key[t]) = {}
        /\ seen'[t].what = "rejected" => Exposure(key[t]) = {}
    BY <1>b, <2>1, BookTellsTruth
  <2>3. Footprint(key[t])' = Footprint(key[t]) /\ Exposure(key[t])' = Exposure(key[t])
    BY <1>e, <2>1
  <2>4. VerdictOf(t)'
    BY <2>1, <2>2, <2>3 DEF VerdictOf
  <2> QED
    BY <1>8, <1>q, <2>1, <2>4 DEF Step
\* Writing a row that is true.
<1>w. ASSUME NEW t \in Threads, Step(t), UNCHANGED <<wire, book>>, NEW row,
             orders' = [orders EXCEPT ![key[t]] = row],
             pc'[t] \notin {"send", "wait", "record", "apply"},
             row.status = "NONE" => Footprint(key[t]) = {},
             row.status \in Terminal => OffWire(key[t]),
             row.status = "PLACED" => row.ids # {},
             row.status = "REJECTED" => Exposure(key[t]) = {}
      PROVE  TruthInv'
  <2>1. /\ key[t] \in Keys /\ orders'[key[t]] = row
        /\ \A k \in Keys : k # key[t] => orders'[k] = orders[k]
    BY <1>a, <1>w
  <2>2. \A k \in Keys : RowIsTrue(k)'
    <3> SUFFICES ASSUME NEW k \in Keys PROVE RowIsTrue(k)'
      OBVIOUS
    <3>1. CASE k = key[t]
      <4>1. /\ Footprint(k)' = Footprint(k) /\ Exposure(k)' = Exposure(k)
            /\ OffWire(k)' = OffWire(k)
        BY <1>e, <1>w
      <4> QED
        BY <1>w, <2>1, <3>1, <4>1 DEF RowIsTrue
    <3>2. CASE k # key[t]
      BY <1>b, <1>u, <1>w, <2>1, <3>2, RowStaysTrue
    <3> QED
      BY <3>1, <3>2
  <2> QED
    BY <1>o, <1>r, <1>t, <1>u, <1>w, <2>2
<1>9. ASSUME NEW t \in Threads, Record(t) PROVE TruthInv'
  <2> DEFINE row == Updated(orders[key[t]], seen[t].what, seen[t].ids)
  <2>1. /\ pc[t] = "record" /\ UNCHANGED <<wire, book>>
        /\ orders' = [orders EXCEPT ![key[t]] = row]
        /\ pc'[t] \notin {"send", "wait", "record", "apply"}
    BY <1>9, <1>a DEF Record, Continue, Return, brokerVars
  <2>2. /\ orders[key[t]].status = "PENDING" /\ orders[key[t]] \in RowType
        /\ seen[t].what \in {"PLACED", "REJECTED", "UNKNOWN"}
    BY <1>a, <2>1 DEF ThreadInv, ThreadOf, StageOf
  <2>3. /\ row.status = seen[t].what
        /\ row.ids = IF seen[t].ids = {} THEN orders[key[t]].ids ELSE seen[t].ids
    BY <2>2 DEF Updated, CanUpdate, Allowed, IntentStatus, Terminal, RowType
  <2> HIDE DEF row
  <2>4. /\ seen[t].what \in Terminal => OffWire(key[t])
        /\ seen[t].what = "PLACED" => seen[t].ids # {}
        /\ seen[t].what = "REJECTED" => Exposure(key[t]) = {}
    BY <1>b, <2>1 DEF VerdictOf
  <2>5. Step(t)
    BY <1>9 DEF Step
  <2> QED
    BY <1>w, <2>1, <2>2, <2>3, <2>4, <2>5
<1>10. ASSUME NEW t \in Threads, Apply(t) PROVE TruthInv'
  <2> DEFINE outcome == Outcome(orders[key[t]], seen[t])
             row == Reconciled(orders[key[t]], seen[t])
  <2>1. /\ pc[t] = "apply" /\ UNCHANGED <<wire, book>>
        /\ orders' = [orders EXCEPT ![key[t]] = row]
        /\ pc'[t] \notin {"send", "wait", "record", "apply"}
    BY <1>10, <1>a DEF Apply, Continue, Return, brokerVars
  <2>2. orders[key[t]].status \in Open /\ orders[key[t]] \in RowType /\ key[t] \in Keys
    BY <1>a, <2>1 DEF ThreadInv, ThreadOf, StageOf
  <2>3. /\ outcome \in {"FOUND_PLACED", "FOUND_REJECTED", "ABSENT", "INCONCLUSIVE"}
        /\ outcome = "FOUND_PLACED" => row.status = "PLACED"
        /\ outcome = "FOUND_REJECTED" => row.status = "REJECTED"
        /\ outcome = "ABSENT" => row = NoRow
        /\ outcome = "INCONCLUSIVE" => row = orders[key[t]]
    BY <2>2, OpenRowReconciled
  <2>4. /\ outcome = "FOUND_PLACED" =>
             seen[t].what = "working" /\ row.ids = seen[t].ids /\ seen[t].ids # {}
        /\ outcome = "FOUND_REJECTED" => seen[t].what = "rejected"
        /\ outcome = "ABSENT" => seen[t].what = "miss"
    BY <2>2, OutcomeRestsOn
  <2> HIDE DEF outcome, row
  <2>5. /\ seen[t].what # "failed" => wire = {}
        /\ seen[t].what = "miss" => Footprint(key[t]) = {}
        /\ seen[t].what = "rejected" => Exposure(key[t]) = {}
    BY <1>b, <2>1 DEF VerdictOf
  <2>6. NoRow.status = "NONE"
    BY DEF NoRow
  <2>7. /\ row.status = "NONE" => outcome = "ABSENT"
        /\ row.status = "PLACED" => outcome = "FOUND_PLACED"
        /\ row.status = "REJECTED" => outcome = "FOUND_REJECTED"
    BY <2>2, <2>3, <2>6 DEF Open
  <2>8. /\ row.status = "NONE" => Footprint(key[t]) = {}
        /\ row.status \in Terminal => OffWire(key[t])
        /\ row.status = "PLACED" => row.ids # {}
        /\ row.status = "REJECTED" => Exposure(key[t]) = {}
    BY <2>4, <2>5, <2>7 DEF Terminal, OffWire
  <2>9. Step(t)
    BY <1>10 DEF Step
  <2> QED
    BY <1>w, <2>1, <2>8, <2>9
<1>11. ASSUME NEW m \in wire, Receive(m) \/ Lose(m) PROVE TruthInv'
  <2>1. UNCHANGED <<orders, nsent, procVars>> /\ wire' = wire \ {m}
    BY <1>11 DEF Receive, Lose
  <2>2. \A e \in book' : e \in book \/ e.req = m
    BY <1>11 DEF Receive, Lose
  <2>3. Recedes
    BY <2>1, <2>2, BrokerRecedes
  <2>4. \A s \in Threads : Same(s)
    BY <2>1 DEF Same, procVars
  <2> QED
    BY <1>a, <1>b, <1>r, <2>1, <2>3, <2>4, RowStaysTrue, VerdictStaysTrue
<1>12. CASE Crash
  BY <1>12, <1>b, <1>o, <1>r, <1>u, RowStaysTrue DEF Crash, brokerVars
<1>13. CASE UNCHANGED vars
  <2>1. \A s \in Threads : Same(s)
    BY <1>13 DEF Same, vars
  <2> QED
    BY <1>13, <1>a, <1>b, <1>r, <1>u, <2>1, RowStaysTrue, VerdictStaysTrue DEF vars
<1> QED
  BY <1>1, <1>2, <1>3, <1>4, <1>5, <1>6, <1>7, <1>8, <1>9, <1>10, <1>11, <1>12,
     <1>13 DEF Next, Step, Done

\* Initially no row exists and nothing is at the broker.
LEMMA TruthInit == Init => TruthInv
BY DEF Init, TruthInv, RowIsTrue, VerdictOf, Footprint, KeyMatches, NoRow, Terminal

\* Rows and verdicts are true in every reachable state, provided that the broker
\* echoes keys, has settled its requests when its book is read, and does not
\* split a request into several orders.
LEMMA TruthInvHolds ==
  ASSUME BrokerEchoesKey, ~LateDelivery, MaxSlices = 1
  PROVE  Spec => [](/\ TypeOK /\ LockDiscipline /\ ThreadInv
                    /\ NumberInv /\ CreditInv /\ TruthInv)
<1> DEFINE IInv == /\ TypeOK /\ LockDiscipline /\ ThreadInv
                   /\ NumberInv /\ CreditInv /\ TruthInv
<1>1. Init => IInv
  BY TypeInit, RouterInvInit, ThreadInit, CreditInit, TruthInit DEF RouterInv
<1>2. IInv /\ [Next]_vars => IInv'
  BY TypeStep, LockStep, ThreadStep, NumberStep, CreditStep, TruthStep
<1> QED
  BY <1>1, <1>2, PTL DEF Spec

\* What the ledger calls settled is true at the broker, under that proviso.
THEOREM LedgerStaysTrue ==
  ASSUME BrokerEchoesKey, ~LateDelivery, MaxSlices = 1
  PROVE  Spec => []LedgerIsTrue
<1>1. CreditInv /\ TruthInv => LedgerIsTrue
  BY DEF CreditInv, Mine, TruthInv, RowIsTrue, LedgerIsTrue
<1> QED
  BY <1>1, TruthInvHolds, PTL

-----------------------------------------------------------------------------
\* What the callers see of a ledger row.
LEMMA IntentOfRow ==
  ASSUME NEW row \in RowType
  PROVE  /\ row.status = "NONE" => IntentOf(row) = "free"
         /\ row.status \in Open => IntentOf(row) = "open"
         /\ row.status = "PLACED" => IntentOf(row) = "placed"
         /\ row.status = "REJECTED" => IntentOf(row) = "rejected"
BY DEF IntentOf, Open

\* Initially every intent is free and nothing is live.
LEMMA IntentsInit == Init => Intents!Init
<1>1. NoRow \in RowType /\ NoRow.status = "NONE"
  BY DEF NoRow, RowType
<1>2. IntentOf(NoRow) = "free"
  BY <1>1, IntentOfRow
<1> QED
  BY <1>2 DEF Init, Intents!Init, LiveOrders

\* Every step of the router, the broker or the network is, for the callers, one
\* step of one intent or none at all.
LEMMA IntentsStep ==
  ASSUME BrokerEchoesKey, ~LateDelivery, MaxSlices = 1,
         TypeOK, LockDiscipline, ThreadInv, NumberInv, TruthInv, [Next]_vars
  PROVE  [Intents!Next]_(Intents!vars)
<1> DEFINE intent == [k \in Keys |-> IntentOf(orders[k])]
           live == [k \in Keys |-> LiveOrders(k) # {}]
<1>a. /\ pc \in [Threads -> Critical \cup {"idle", "lock", "rlock"}]
      /\ key \in [Threads -> Keys] /\ seen \in [Threads -> SeenType]
      /\ orders \in [Keys -> RowType]
  BY DEF TypeOK, SeenType, RowType
<1>b. /\ \A k \in Keys : \A x, y \in Footprint(k) : x = y
      /\ \A k \in Keys : RowIsTrue(k)
      /\ \A t \in Threads : VerdictOf(t)
  BY DEF TruthInv
<1>c. orders' \in [Keys -> RowType]
  BY TypeStep DEF TypeOK, RowType
<1>l. ASSUME book' = book PROVE live' = live
  BY <1>l DEF LiveOrders
<1>s. ASSUME orders' = orders, book' = book PROVE UNCHANGED Intents!vars
  BY <1>l, <1>s DEF Intents!vars
\* A step that writes row to the ledger moves one intent.
<1>w. ASSUME NEW k \in Keys, NEW row, orders' = [orders EXCEPT ![k] = row]
      PROVE  intent' = [intent EXCEPT ![k] = IntentOf(row)] /\ row \in RowType
  <2>1. orders'[k] = row /\ \A j \in Keys : j # k => orders'[j] = orders[j]
    BY <1>a, <1>w
  <2> QED
    BY <1>c, <2>1
<1>m. ASSUME NEW k \in Keys, NEW row, orders' = [orders EXCEPT ![k] = row], book' = book,
             \/ orders[k].status = "NONE" /\ row.status \in Open
             \/ orders[k].status \in Open /\ row.status = "PLACED"
             \/ orders[k].status \in Open /\ row.status = "REJECTED" /\ LiveOrders(k) = {}
             \/ orders[k].status \in Open /\ row.status = "NONE" /\ LiveOrders(k) = {}
             \/ orders[k].status \in Open /\ row.status \in Open
      PROVE  Intents!Next \/ UNCHANGED Intents!vars
  <2>1. intent' = [intent EXCEPT ![k] = IntentOf(row)] /\ row \in RowType /\ live' = live
    BY <1>l, <1>m, <1>w
  <2>2. /\ intent[k] = IntentOf(orders[k]) /\ orders[k] \in RowType
        /\ live[k] = (LiveOrders(k) # {})
    BY <1>a
  <2>3. CASE orders[k].status = "NONE" /\ row.status \in Open
    <3>1. intent[k] = "free" /\ IntentOf(row) = "open"
      BY <2>1, <2>2, <2>3, IntentOfRow
    <3>2. Intents!Claim(k)
      BY <2>1, <3>1 DEF Intents!Claim, Intents!Move
    <3> QED
      BY <3>2 DEF Intents!Next
  <2>4. CASE orders[k].status \in Open /\ row.status = "PLACED"
    <3>1. intent[k] = "open" /\ IntentOf(row) = "placed"
      BY <2>1, <2>2, <2>4, IntentOfRow
    <3>2. Intents!SettlePlaced(k)
      BY <2>1, <3>1 DEF Intents!SettlePlaced, Intents!Move
    <3> QED
      BY <3>2 DEF Intents!Next
  <2>5. CASE orders[k].status \in Open /\ row.status = "REJECTED" /\ LiveOrders(k) = {}
    <3>1. intent[k] = "open" /\ IntentOf(row) = "rejected" /\ ~live[k]
      BY <2>1, <2>2, <2>5, IntentOfRow
    <3>2. Intents!SettleRejected(k)
      BY <2>1, <3>1 DEF Intents!SettleRejected, Intents!Move
    <3> QED
      BY <3>2 DEF Intents!Next
  <2>6. CASE orders[k].status \in Open /\ row.status = "NONE" /\ LiveOrders(k) = {}
    <3>1. intent[k] = "open" /\ IntentOf(row) = "free" /\ ~live[k]
      BY <2>1, <2>2, <2>6, IntentOfRow
    <3>2. Intents!Release(k)
      BY <2>1, <3>1 DEF Intents!Release, Intents!Move
    <3> QED
      BY <3>2 DEF Intents!Next
  <2>7. CASE orders[k].status \in Open /\ row.status \in Open
    <3>1. intent[k] = "open" /\ IntentOf(row) = "open"
      BY <2>1, <2>2, <2>7, IntentOfRow
    <3>2. intent' = intent
      BY <2>1, <3>1
    <3> QED
      BY <2>1, <3>2 DEF Intents!vars
  <2> QED
    BY <1>m, <2>3, <2>4, <2>5, <2>6, <2>7
<1>x. \A k \in Keys : Exposure(k) = {} => LiveOrders(k) = {}
  BY DEF Exposure
<1>1. ASSUME NEW t \in Threads, LockAndClaim(t) \/ Reclaim(t)
      PROVE  Intents!Next \/ UNCHANGED Intents!vars
  <2>1. CASE CanClaim(orders[key[t]])
    <3>1. /\ orders' = [orders EXCEPT ![key[t]] = Claimed(clock + 1)]
          /\ book' = book /\ key[t] \in Keys
      BY <1>1, <1>a, <2>1 DEF LockAndClaim, Reclaim, Claim, brokerVars
    <3>2. Claimed(clock + 1).status \in Open /\ orders[key[t]].status = "NONE"
      BY <2>1 DEF Claimed, Open, CanClaim
    <3> QED
      BY <1>m, <3>1, <3>2
  <2>2. CASE ~CanClaim(orders[key[t]])
    BY <1>1, <1>s, <2>2 DEF LockAndClaim, Reclaim, brokerVars
  <2> QED
    BY <2>1, <2>2
<1>2. ASSUME NEW t \in Threads, Record(t) PROVE Intents!Next \/ UNCHANGED Intents!vars
  <2> DEFINE row == Updated(orders[key[t]], seen[t].what, seen[t].ids)
  <2>1. /\ pc[t] = "record" /\ book' = book /\ key[t] \in Keys
        /\ orders' = [orders EXCEPT ![key[t]] = row]
    BY <1>2, <1>a DEF Record, brokerVars
  <2>2. /\ orders[key[t]].status = "PENDING" /\ orders[key[t]] \in RowType
        /\ seen[t].what \in {"PLACED", "REJECTED", "UNKNOWN"}
    BY <1>a, <2>1 DEF ThreadInv, ThreadOf, StageOf
  <2>3. row.status = seen[t].what
    BY <2>2 DEF Updated, CanUpdate, Allowed, IntentStatus, Terminal, RowType
  <2> HIDE DEF row
  <2>4. seen[t].what = "REJECTED" => LiveOrders(key[t]) = {}
    BY <1>b, <1>x, <2>1 DEF VerdictOf
  <2> QED
    BY <1>m, <2>1, <2>2, <2>3, <2>4 DEF Open
<1>3. ASSUME NEW t \in Threads, Apply(t) PROVE Intents!Next \/ UNCHANGED Intents!vars
  <2> DEFINE outcome == Outcome(orders[key[t]], seen[t])
             row == Reconciled(orders[key[t]], seen[t])
  <2>1. /\ pc[t] = "apply" /\ book' = book /\ key[t] \in Keys
        /\ orders' = [orders EXCEPT ![key[t]] = row]
    BY <1>3, <1>a DEF Apply, brokerVars
  <2>2. orders[key[t]].status \in Open /\ orders[key[t]] \in RowType
    BY <1>a, <2>1 DEF ThreadInv, ThreadOf, StageOf
  <2>3. /\ outcome \in {"FOUND_PLACED", "FOUND_REJECTED", "ABSENT", "INCONCLUSIVE"}
        /\ outcome = "FOUND_PLACED" => row.status = "PLACED"
        /\ outcome = "FOUND_REJECTED" => row.status = "REJECTED"
        /\ outcome = "ABSENT" => row = NoRow
        /\ outcome = "INCONCLUSIVE" => row = orders[key[t]]
    BY <2>2, OpenRowReconciled
  <2>4. /\ outcome = "FOUND_REJECTED" => seen[t].what = "rejected"
        /\ outcome = "ABSENT" => seen[t].what = "miss"
    BY <2>2, OutcomeRestsOn
  <2> HIDE DEF outcome, row
  <2>5. seen[t].what \in {"miss", "rejected"} => LiveOrders(key[t]) = {}
    <3>1. seen[t].what = "rejected" => Exposure(key[t]) = {}
      BY <1>b, <2>1 DEF VerdictOf
    <3>2. seen[t].what = "miss" => Footprint(key[t]) = {}
      BY <1>b, <2>1 DEF VerdictOf
    <3>3. Footprint(key[t]) = {} => LiveOrders(key[t]) = {}
      BY DEF Footprint, KeyMatches, LiveOrders
    <3> QED
      BY <1>x, <2>1, <3>1, <3>2, <3>3
  <2>6. NoRow.status = "NONE"
    BY DEF NoRow
  <2> QED
    BY <1>m, <2>1, <2>2, <2>3, <2>4, <2>5, <2>6
<1>4. ASSUME NEW m \in wire, Receive(m) PROVE Intents!Next \/ UNCHANGED Intents!vars
  <2>1. orders' = orders /\ book \subseteq book' /\ m.key \in Keys
    BY <1>4 DEF Receive, TypeOK, Requests
  <2>2. \A e \in book' : e \in book \/ e.req = m
    BY <1>4 DEF Receive
  <2>3. \A k \in Keys : k # m.key => LiveOrders(k)' = LiveOrders(k)
    BY <2>1, <2>2 DEF LiveOrders
  <2>4. m \in Footprint(m.key)
    BY DEF Footprint
  <2>5. LiveOrders(m.key) = {}
    <3>1. \A e \in LiveOrders(m.key) : e.req \in Footprint(m.key) /\ e \in book
      BY DEF Footprint, KeyMatches, LiveOrders
    <3>2. \A e \in LiveOrders(m.key) : e.req = m
      BY <1>b, <2>1, <2>4, <3>1
    <3> QED
      BY <3>1, <3>2 DEF NumberInv
  <2>6. orders[m.key].status \in Open /\ orders[m.key] \in RowType
    <3>1. orders[m.key].status # "NONE" /\ orders[m.key].status \notin Terminal
      BY <1>b, <2>1, <2>4 DEF RowIsTrue, OffWire
    <3>2. orders[m.key] \in RowType
      BY <1>a, <2>1
    <3> QED
      BY <3>1, <3>2 DEF RowType, IntentStatus, Terminal, Open
  <2>7. intent[m.key] = "open" /\ ~live[m.key] /\ intent' = intent
    BY <2>1, <2>5, <2>6, IntentOfRow
  <2>8. CASE LiveOrders(m.key)' = {}
    <3>1. live' = live
      BY <2>3, <2>5, <2>8
    <3> QED
      BY <2>7, <3>1 DEF Intents!vars
  <2>9. CASE LiveOrders(m.key)' # {}
    <3>1. live' = [live EXCEPT ![m.key] = TRUE]
      BY <2>3, <2>9
    <3>2. Intents!Land(m.key)
      BY <2>7, <3>1 DEF Intents!Land
    <3> QED
      BY <2>1, <3>2 DEF Intents!Next
  <2> QED
    BY <2>8, <2>9
<1>5. ASSUME NEW t \in Threads,
             \/ PlaceOrder(t) \/ RecoverUnresolved(t) \/ HandleExisting(t) \/ Send(t)
             \/ Respond(t) \/ SendRaises(t) \/ QueryBook(t) \/ QueryFails(t)
             \/ SweepLock(t) \/ Sweep(t)
      PROVE  UNCHANGED Intents!vars
  <2>1. orders' = orders /\ book' = book
    BY <1>5 DEF PlaceOrder, RecoverUnresolved, HandleExisting, Send, Respond, SendRaises,
                QueryBook, QueryFails, SweepLock, Sweep, brokerVars
  <2> QED
    BY <1>s, <2>1
<1>6. ASSUME (\E m \in wire : Lose(m)) \/ Crash \/ UNCHANGED vars
      PROVE  UNCHANGED Intents!vars
  <2>1. orders' = orders /\ book' = book
    BY <1>6 DEF Lose, Crash, vars, brokerVars
  <2> QED
    BY <1>s, <2>1
<1> QED
  BY <1>1, <1>2, <1>3, <1>4, <1>5, <1>6 DEF Next, Step, Done

\* The router implements the abstract intents: whatever the interleaving, the
\* retries and the crashes, its callers see each key claimed, live at most once
\* while it is claimed, and settled truthfully or given back.
THEOREM RouterImplementsIntents ==
  ASSUME BrokerEchoesKey, ~LateDelivery, MaxSlices = 1
  PROVE  Spec => ImplementsIntents
<1>1. TypeOK /\ LockDiscipline /\ ThreadInv /\ NumberInv /\ CreditInv /\ TruthInv
        /\ [Next]_vars => [Intents!Next]_(Intents!vars)
  BY IntentsStep
<1> QED
  BY <1>1, IntentsInit, TruthInvHolds, PTL DEF Spec, ImplementsIntents, Intents!Spec
==============================================================================
