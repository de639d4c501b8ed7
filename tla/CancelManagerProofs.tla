------------------------- MODULE CancelManagerProofs --------------------------
(***************************************************************************)
(* Proofs about CancelManager: one dispatch per cancel id, one answer per  *)
(* id and the truth of terminal answers, for any number of threads, ids,   *)
(* retries and calls and any size of the answer cache.                     *)
(***************************************************************************)
EXTENDS CancelManager, SequenceTheorems, TLAPS

\* The types of a cached answer and of a thread's step.
EntryType == [cid : Cids, status : CacheableStatuses]

PcType == Dispatching \cup {"idle", "claim", "wait", "woken", "set"}

-----------------------------------------------------------------------------
\* _classify returns one of the statuses.
LEMMA ClassifyType ==
  ASSUME NEW r
  PROVE  Classify(r) \in Statuses
BY DEF Classify, Statuses, CacheableStatuses, TerminalStatuses

\* The lookup finds an answer exactly when the cache holds one, and what it
\* returns is the status of an entry for that id.
LEMMA LookupFinds ==
  ASSUME cache \in Seq(EntryType), NEW c
  PROVE  /\ Lookup(c) \in CacheableStatuses \cup {"NONE"}
         /\ Lookup(c) # "NONE" <=> Kept(c, cache)
         /\ Lookup(c) # "NONE" =>
              \E i \in 1..Len(cache) : cache[i] = [cid |-> c, status |-> Lookup(c)]
<1>1. CASE Kept(c, cache)
  <2> DEFINE k == CHOOSE i \in 1..Len(cache) : cache[i].cid = c
  <2>1. k \in 1..Len(cache) /\ cache[k].cid = c
    BY <1>1 DEF Kept
  <2>2. Lookup(c) = cache[k].status
    BY <1>1 DEF Lookup, Kept
  <2> HIDE DEF k
  <2>3. cache[k] \in EntryType
    BY <2>1
  <2>4. cache[k] = [cid |-> c, status |-> cache[k].status]
    BY <2>1, <2>3 DEF EntryType
  <2>5. cache[k].status \in CacheableStatuses /\ "NONE" \notin CacheableStatuses
    BY <2>3 DEF EntryType, CacheableStatuses, TerminalStatuses
  <2> QED
    BY <1>1, <2>1, <2>2, <2>4, <2>5
<1>2. CASE ~Kept(c, cache)
  BY <1>2 DEF Lookup, Kept
<1> QED
  BY <1>1, <1>2

\* _cache_result on an id that is not cached: the new answer is in, everything
\* else was there before, and the capacity is respected.
LEMMA StoredAppends ==
  ASSUME cache \in Seq(EntryType), Len(cache) <= MaxCacheSize,
         NEW c \in Cids, NEW status \in CacheableStatuses, Lookup(c) = "NONE"
  PROVE  LET new == Stored(c, status)
             entry == [cid |-> c, status |-> status]
         IN  /\ new \in Seq(EntryType) /\ Len(new) <= MaxCacheSize
             /\ \A i \in 1..Len(new) :
                  new[i] = entry \/ \E j \in 1..Len(cache) : new[i] = cache[j]
             /\ \E i \in 1..Len(new) : new[i] = entry
<1> USE CancelAssumption
<1> DEFINE entry == [cid |-> c, status |-> status]
           longer == Append(cache, entry)
           new == Stored(c, status)
<1>1. entry \in EntryType
  BY DEF EntryType
<1>2. /\ Len(cache) \in Nat /\ longer \in Seq(EntryType) /\ Len(longer) = Len(cache) + 1
      /\ \A i \in 1..Len(cache) : longer[i] = cache[i]
      /\ longer[Len(cache) + 1] = entry
  BY <1>1, AppendProperties
<1>3. new = IF Len(longer) > MaxCacheSize THEN Tail(longer) ELSE longer
  BY DEF Stored
<1> HIDE DEF longer, entry, new
<1>4. CASE Len(longer) > MaxCacheSize
  <2>1. longer # <<>>
    BY <1>2
  <2>2. /\ Tail(longer) \in Seq(EntryType) /\ Len(Tail(longer)) = Len(cache)
        /\ \A i \in 1..Len(cache) : Tail(longer)[i] = longer[i + 1]
    BY <1>2, <2>1, HeadTailProperties
  <2>3. Len(cache) \in 1..Len(cache)
    BY <1>2, <1>4
  <2>4. \A i \in 1..Len(cache) : i + 1 \in 1..Len(cache) \/ i + 1 = Len(cache) + 1
    BY <1>2
  <2>5. new = Tail(longer) /\ Len(new) = Len(cache) /\ new \in Seq(EntryType)
    BY <1>3, <1>4, <2>2
  <2>6. \A i \in 1..Len(new) : new[i] = entry \/ \E j \in 1..Len(cache) : new[i] = cache[j]
    BY SMTT(30), <1>2, <2>2, <2>4, <2>5
  <2>7. new[Len(cache)] = entry
    BY <1>2, <2>2, <2>3, <2>5
  <2> QED
    BY <2>3, <2>5, <2>6, <2>7 DEF entry, new
<1>5. CASE ~(Len(longer) > MaxCacheSize)
  <2>1. new = longer /\ Len(new) <= MaxCacheSize
    BY <1>2, <1>3, <1>5
  <2> QED
    BY <1>2, <2>1 DEF entry, new
<1> QED
  BY <1>4, <1>5

\* _cache_result keeps the cache within its type and capacity, also for an id
\* that is stored again.
LEMMA StoredType ==
  ASSUME cache \in Seq(EntryType), Len(cache) <= MaxCacheSize,
         NEW c \in Cids, NEW status \in CacheableStatuses
  PROVE  Stored(c, status) \in Seq(EntryType) /\ Len(Stored(c, status)) <= MaxCacheSize
<1>1. CASE Lookup(c) = "NONE"
  BY <1>1, StoredAppends
<1>2. CASE Lookup(c) # "NONE"
  <2> DEFINE entry == [cid |-> c, status |-> status]
             new == [i \in 1..Len(cache) |-> IF cache[i].cid = c THEN entry ELSE cache[i]]
  <2>1. entry \in EntryType
    BY DEF EntryType
  <2>2. Stored(c, status) = new
    BY <1>2 DEF Stored
  <2> HIDE DEF entry
  <2>3. Len(cache) \in Nat /\ new \in [1..Len(cache) -> EntryType]
    BY <2>1
  <2> HIDE DEF new
  <2>4. new \in Seq(EntryType) /\ Len(new) = Len(cache)
    <3>1. new \in Seq(EntryType)
      BY <2>3, SeqDef
    <3> QED
      BY <2>3, <3>1, LenProperties
  <2> QED
    BY <2>2, <2>4
<1> QED
  BY <1>1, <1>2

-----------------------------------------------------------------------------
\* The attempts of a dispatch are counted from zero and never exceed the retries.
AttemptInv ==
  \A t \in Threads :
    /\ pc[t] \notin Dispatching => attempt[t] = 0
    /\ pc[t] = "call" => attempt[t] <= MaxRetries

\* Type correctness and the count of attempts hold initially.
LEMMA TypeInit == Init => TypeOK /\ AttemptInv
<1> SUFFICES ASSUME Init PROVE TypeOK /\ AttemptInv
  OBVIOUS
<1> USE CancelAssumption
<1>1. cache \in Seq(EntryType) /\ Len(cache) <= MaxCacheSize
  <2>1. <<>> \in Seq(EntryType) /\ Len(<<>>) = 0
    OBVIOUS
  <2> QED
    BY <2>1 DEF Init
<1>2. cid \in [Threads -> Cids]
  <2>1. (CHOOSE c \in Cids : TRUE) \in Cids
    OBVIOUS
  <2> QED
    BY <2>1 DEF Init
<1>3. reply \in [Threads -> Replies]
  <2>1. NoReply \in Replies
    BY DEF NoReply, Replies
  <2> QED
    BY <2>1 DEF Init
<1>4. /\ inFlight \in [Cids -> Threads \cup {NoThread}]
      /\ pc \in [Threads -> PcType]
      /\ event \in [Threads -> Threads \cup {NoThread}]
      /\ ret \in [Threads -> Statuses \cup {"NONE"}]
      /\ answered \in [Cids -> CacheableStatuses \cup {"NONE", "EVICTED"}]
      /\ order \in {"working", "pending", "cancelled", "filled"}
  BY DEF Init, PcType
<1>5. attempt \in [Threads -> 0..(MaxRetries + 1)] /\ calls \in 0..MaxCalls
  BY DEF Init
<1>6. stray \in BOOLEAN
  BY DEF Init
<1>7. AttemptInv
  BY DEF Init, AttemptInv, Dispatching
<1> QED
  BY <1>1, <1>2, <1>3, <1>4, <1>5, <1>6, <1>7 DEF TypeOK, EntryType, PcType

\* Every step keeps every variable in its type and the attempts counted.
LEMMA TypeStep == TypeOK /\ AttemptInv /\ [Next]_vars => (TypeOK /\ AttemptInv)'
<1> SUFFICES ASSUME TypeOK, AttemptInv, [Next]_vars PROVE TypeOK' /\ AttemptInv'
  OBVIOUS
<1> USE CancelAssumption
<1>a. /\ cache \in Seq(EntryType) /\ Len(cache) <= MaxCacheSize
      /\ pc \in [Threads -> PcType]
      /\ attempt \in [Threads -> 0..(MaxRetries + 1)]
      /\ reply \in [Threads -> Replies]
      /\ cid \in [Threads -> Cids]
      /\ ret \in [Threads -> Statuses \cup {"NONE"}]
  BY DEF TypeOK, EntryType, PcType
<1>b. ASSUME cache' \in Seq(EntryType), Len(cache') <= MaxCacheSize,
             inFlight' \in [Cids -> Threads \cup {NoThread}],
             pc' \in [Threads -> PcType], cid' \in [Threads -> Cids],
             event' \in [Threads -> Threads \cup {NoThread}],
             attempt' \in [Threads -> 0..(MaxRetries + 1)],
             reply' \in [Threads -> Replies],
             ret' \in [Threads -> Statuses \cup {"NONE"}],
             answered' \in [Cids -> CacheableStatuses \cup {"NONE", "EVICTED"}],
             order' \in {"working", "pending", "cancelled", "filled"},
             stray' \in BOOLEAN, calls' \in 0..MaxCalls
      PROVE  TypeOK'
  BY <1>b DEF TypeOK, EntryType, PcType
<1>c. \A c : Lookup(c) \in Statuses \cup {"NONE"}
  BY <1>a, LookupFinds DEF Statuses
<1>d. NoReply \in Replies /\ \A h \in {"ok", "retryable", "none"} :
                                [http |-> h, text |-> "other"] \in Replies
  BY DEF NoReply, Replies
<1>1. ASSUME NEW t \in Threads, CancelOrder(t) PROVE TypeOK' /\ AttemptInv'
  <2>1. /\ pc' \in [Threads -> PcType] /\ cid' \in [Threads -> Cids]
        /\ ret' \in [Threads -> Statuses \cup {"NONE"}]
    BY <1>1, <1>a DEF CancelOrder, Goto, PcType
  <2>2. calls' \in 0..MaxCalls
    BY <1>1 DEF CancelOrder, TypeOK
  <2>3. AttemptInv'
    BY <1>1, <1>a DEF CancelOrder, Goto, AttemptInv, Dispatching
  <2> QED
    BY <1>1, <1>a, <1>b, <2>1, <2>2, <2>3 DEF CancelOrder, TypeOK
<1>2. ASSUME NEW t \in Threads, ClaimOrWait(t) PROVE TypeOK' /\ AttemptInv'
  <2>1. pc' \in [Threads -> PcType]
    BY <1>2, <1>a DEF ClaimOrWait, Return, Goto, PcType, Dispatching
  <2>2. ret' \in [Threads -> Statuses \cup {"NONE"}]
    BY <1>2, <1>a, <1>c DEF ClaimOrWait, Return
  <2>3. /\ inFlight' \in [Cids -> Threads \cup {NoThread}]
        /\ event' \in [Threads -> Threads \cup {NoThread}]
    <3>1. inFlight' = inFlight \/ inFlight' = [inFlight EXCEPT ![cid[t]] = t]
      BY <1>2 DEF ClaimOrWait
    <3>2. event' = event \/ event' = [event EXCEPT ![t] = inFlight[cid[t]]]
      BY <1>2 DEF ClaimOrWait
    <3>3. /\ inFlight \in [Cids -> Threads \cup {NoThread}]
          /\ event \in [Threads -> Threads \cup {NoThread}] /\ cid[t] \in Cids
      BY <1>a DEF TypeOK
    <3> QED
      BY <3>1, <3>2, <3>3
  <2>4. AttemptInv'
    <3>1. attempt' = attempt /\ attempt[t] = 0
      BY <1>2, <1>a DEF ClaimOrWait, AttemptInv, Dispatching
    <3>2. \A q \in Threads : q # t => pc'[q] = pc[q]
      BY <1>2, <1>a DEF ClaimOrWait, Return, Goto
    <3> QED
      BY <3>1, <3>2, <1>a DEF AttemptInv
  <2> QED
    BY <1>2, <1>a, <1>b, <2>1, <2>2, <2>3, <2>4 DEF ClaimOrWait, TypeOK
<1>3. ASSUME NEW t \in Threads, WaitTimesOut(t) PROVE TypeOK' /\ AttemptInv'
  <2>1. /\ pc' \in [Threads -> PcType] /\ ret' \in [Threads -> Statuses \cup {"NONE"}]
        /\ event' \in [Threads -> Threads \cup {NoThread}]
    BY <1>3, <1>a DEF WaitTimesOut, Return, Goto, PcType, TypeOK, Statuses
  <2>2. AttemptInv'
    BY <1>3, <1>a DEF WaitTimesOut, Return, Goto, AttemptInv, Dispatching
  <2> QED
    BY <1>3, <1>a, <1>b, <2>1, <2>2 DEF WaitTimesOut, TypeOK
<1>4. ASSUME NEW t \in Threads, ReadAfterWait(t) PROVE TypeOK' /\ AttemptInv'
  <2>1. pc' \in [Threads -> PcType]
    BY <1>4, <1>a DEF ReadAfterWait, Return, Goto, PcType
  <2>2. "UNKNOWN" \in Statuses
    BY DEF Statuses
  <2>3. ret' \in [Threads -> Statuses \cup {"NONE"}]
    BY <1>4, <1>a, <1>c, <2>2 DEF ReadAfterWait, Return
  <2>4. AttemptInv'
    BY <1>4, <1>a DEF ReadAfterWait, Return, Goto, AttemptInv, Dispatching
  <2> QED
    BY <1>4, <1>a, <1>b, <2>1, <2>3, <2>4 DEF ReadAfterWait, TypeOK
<1>5. ASSUME NEW t \in Threads, Call(t) PROVE TypeOK' /\ AttemptInv'
  <2>1. pc' \in [Threads -> PcType]
    BY <1>5, <1>a DEF Call, Goto, PcType, Dispatching
  <2>2. attempt' \in [Threads -> 0..(MaxRetries + 1)]
    BY <1>5, <1>a DEF Call, AttemptInv
  <2>3. Refusals(order) \subseteq Replies
    BY DEF Refusals
  <2>4. reply' \in [Threads -> Replies]
    BY ZenonT(60), <1>5, <1>a, <1>d, <2>3 DEF Call
  <2>5. order' \in {"working", "pending", "cancelled", "filled"} /\ stray' \in BOOLEAN
    BY <1>5 DEF Call, Effect, TypeOK
  <2>6. AttemptInv'
    BY <1>5, <1>a DEF Call, Goto, AttemptInv, Dispatching
  <2> QED
    BY <1>5, <1>a, <1>b, <2>1, <2>2, <2>4, <2>5, <2>6 DEF Call, TypeOK
<1>6. ASSUME NEW t \in Threads, Decide(t) PROVE TypeOK' /\ AttemptInv'
  <2>1. pc' \in [Threads -> PcType]
    BY <1>6, <1>a DEF Decide, Goto, PcType, Dispatching
  <2>2. AttemptInv'
    <3>1. pc'[t] = "call" => attempt[t] <= MaxRetries
      BY <1>6, <1>a DEF Decide, Goto, RetriesLeft
    <3>2. pc'[t] \in Dispatching /\ attempt' = attempt
      BY <1>6, <1>a DEF Decide, Goto, Dispatching
    <3>3. \A q \in Threads : q # t => pc'[q] = pc[q]
      BY <1>6, <1>a DEF Decide, Goto
    <3> QED
      BY <3>1, <3>2, <3>3 DEF AttemptInv
  <2> QED
    BY <1>6, <1>a, <1>b, <2>1, <2>2 DEF Decide, TypeOK
<1>7. ASSUME NEW t \in Threads, StoreResult(t) PROVE TypeOK' /\ AttemptInv'
  <2>1. pc' \in [Threads -> PcType]
    BY <1>7, <1>a DEF StoreResult, Goto, PcType, Dispatching
  <2>2. ret' \in [Threads -> Statuses \cup {"NONE"}]
    BY <1>7, <1>a, ClassifyType DEF StoreResult
  <2>3. cache' \in Seq(EntryType) /\ Len(cache') <= MaxCacheSize
    BY <1>7, <1>a, StoredType DEF StoreResult
  <2>4. answered' \in [Cids -> CacheableStatuses \cup {"NONE", "EVICTED"}]
    <3>1. CASE Classify(reply[t]) \in CacheableStatuses
      BY <1>7, <3>1 DEF StoreResult, TypeOK
    <3>2. CASE Classify(reply[t]) \notin CacheableStatuses
      BY <1>7, <3>2 DEF StoreResult, TypeOK
    <3> QED
      BY <3>1, <3>2
  <2>5. AttemptInv'
    BY <1>7, <1>a DEF StoreResult, Goto, AttemptInv, Dispatching
  <2> QED
    BY <1>7, <1>a, <1>b, <2>1, <2>2, <2>3, <2>4, <2>5 DEF StoreResult, TypeOK
<1>8. ASSUME NEW t \in Threads, Release(t) PROVE TypeOK' /\ AttemptInv'
  <2>1. pc' \in [Threads -> PcType] /\ reply' \in [Threads -> Replies]
    BY <1>8, <1>a, <1>d DEF Release, Goto, PcType
  <2>2. attempt' \in [Threads -> 0..(MaxRetries + 1)]
    BY <1>8, <1>a DEF Release
  <2>3. inFlight' \in [Cids -> Threads \cup {NoThread}]
    BY <1>8, <1>a DEF Release, TypeOK
  <2>4. AttemptInv'
    BY <1>8, <1>a DEF Release, Goto, AttemptInv, Dispatching
  <2> QED
    BY <1>8, <1>a, <1>b, <2>1, <2>2, <2>3, <2>4 DEF Release, TypeOK
<1>9. ASSUME NEW t \in Threads, SetEvent(t) PROVE TypeOK' /\ AttemptInv'
  <2>1. pc' \in [Threads -> PcType] /\ event' \in [Threads -> Threads \cup {NoThread}]
    BY <1>9, <1>a DEF SetEvent, PcType, TypeOK
  <2>2. AttemptInv'
    BY <1>9, <1>a DEF SetEvent, AttemptInv, Dispatching
  <2> QED
    BY <1>9, <1>a, <1>b, <2>1, <2>2 DEF SetEvent, TypeOK
<1>10. ASSUME StrayArrives \/ OrderMoves PROVE TypeOK' /\ AttemptInv'
  <2>1. order' \in {"working", "pending", "cancelled", "filled"} /\ stray' \in BOOLEAN
    BY <1>10 DEF StrayArrives, OrderMoves, Effect, TypeOK
  <2>2. AttemptInv'
    BY <1>10 DEF StrayArrives, OrderMoves, AttemptInv, threadVars
  <2> QED
    BY <1>10, <1>a, <1>b, <2>1, <2>2 DEF StrayArrives, OrderMoves, TypeOK, threadVars
<1>11. ASSUME UNCHANGED vars PROVE TypeOK' /\ AttemptInv'
  <2>1. AttemptInv'
    BY <1>11 DEF vars, AttemptInv
  <2> QED
    BY <1>11, <1>a, <1>b, <2>1 DEF vars, TypeOK
<1> QED
  BY <1>1, <1>2, <1>3, <1>4, <1>5, <1>6, <1>7, <1>8, <1>9, <1>10, <1>11
  DEF Next, Step, Done

\* Type correctness of the cancel manager; in particular the cache never
\* outgrows max_cache_size and a dispatch never exceeds its retries.
THEOREM TypeCorrect == Spec => []TypeOK
BY TypeInit, TypeStep, PTL DEF Spec

-----------------------------------------------------------------------------
\* Every step keeps claims and dispatches matched, and waiters on live events.
LEMMA ClaimsStep ==
  TypeOK /\ ClaimsMatchDispatches /\ [Next]_vars => ClaimsMatchDispatches'
<1> SUFFICES ASSUME TypeOK, ClaimsMatchDispatches, [Next]_vars
             PROVE  ClaimsMatchDispatches'
  OBVIOUS
<1> USE CancelAssumption
<1>a. /\ pc \in [Threads -> PcType] /\ cid \in [Threads -> Cids]
      /\ inFlight \in [Cids -> Threads \cup {NoThread}]
      /\ event \in [Threads -> Threads \cup {NoThread}]
  BY DEF TypeOK, PcType
<1>b. \A t \in Threads : pc[t] = "wait" => event[t] \in Threads
  BY <1>a DEF ClaimsMatchDispatches
<1>c. ASSUME NEW t \in Threads, pc[t] \in {"call", "decide", "store"},
             pc' = [pc EXCEPT ![t] = "call"] \/ pc' = [pc EXCEPT ![t] = "decide"]
               \/ pc' = [pc EXCEPT ![t] = "store"] \/ pc' = [pc EXCEPT ![t] = "release"],
             UNCHANGED <<inFlight, cid, event>>
      PROVE  ClaimsMatchDispatches'
  <2>1. \A q \in Threads : (pc'[q] \in Dispatching <=> pc[q] \in Dispatching)
                         /\ (pc'[q] = "set" <=> pc[q] = "set")
                         /\ (pc'[q] = "wait" <=> pc[q] = "wait")
    BY <1>a, <1>c DEF Dispatching
  <2> QED
    BY <1>a, <1>b, <1>c, <2>1 DEF ClaimsMatchDispatches
<1>d. ASSUME NEW t \in Threads, pc[t] \in {"idle", "claim", "wait", "woken"},
             pc' = [pc EXCEPT ![t] = "idle"] \/ pc' = [pc EXCEPT ![t] = "claim"],
             inFlight' = inFlight,
             \A q \in Threads : q # t => cid'[q] = cid[q] /\ event'[q] = event[q]
      PROVE  ClaimsMatchDispatches'
  <2>1. /\ pc[t] \notin Dispatching \cup {"set"} /\ pc'[t] \notin Dispatching
        /\ pc'[t] # "wait"
    BY <1>a, <1>d DEF Dispatching
  <2>2. \A q \in Threads : q # t => pc'[q] = pc[q]
    BY <1>a, <1>d
  <2>3. ASSUME NEW c \in Cids, NEW q \in Threads
        PROVE  inFlight'[c] = q <=> pc'[q] \in Dispatching /\ cid'[q] = c
    BY <1>d, <2>1, <2>2, <2>3 DEF ClaimsMatchDispatches
  <2>4. ASSUME NEW q \in Threads, pc'[q] = "wait"
        PROVE  /\ event'[q] # NoThread /\ pc'[event'[q]] \in Dispatching \cup {"set"}
               /\ cid'[event'[q]] = cid'[q]
    <3>1. q # t /\ pc[q] = "wait"
      BY <2>1, <2>2, <2>4
    <3>2. event[q] \in Threads /\ event[q] # t
      BY <1>b, <2>1, <3>1 DEF ClaimsMatchDispatches
    <3> QED
      BY <1>d, <2>2, <3>1, <3>2 DEF ClaimsMatchDispatches
  <2> QED
    BY <2>3, <2>4 DEF ClaimsMatchDispatches
<1>1. ASSUME NEW t \in Threads, CancelOrder(t) PROVE ClaimsMatchDispatches'
  BY <1>1, <1>a, <1>d DEF CancelOrder, Goto
<1>2. ASSUME NEW t \in Threads, ClaimOrWait(t) PROVE ClaimsMatchDispatches'
  <2>1. CASE Lookup(cid[t]) # "NONE"
    BY <1>2, <2>1, <1>d DEF ClaimOrWait, Return, Goto
  <2>2. CASE Lookup(cid[t]) = "NONE" /\ inFlight[cid[t]] # NoThread
    <3>1. /\ event' = [event EXCEPT ![t] = inFlight[cid[t]]]
          /\ pc' = [pc EXCEPT ![t] = "wait"] /\ pc[t] = "claim"
          /\ UNCHANGED <<inFlight, cid>>
      BY <1>2, <2>2 DEF ClaimOrWait, Goto
    <3> DEFINE h == inFlight[cid[t]]
    <3>2. h \in Threads /\ pc[h] \in Dispatching /\ cid[h] = cid[t] /\ h # t
      BY <1>a, <2>2, <3>1 DEF ClaimsMatchDispatches, Dispatching
    <3>3. \A q \in Threads : /\ pc'[q] \in Dispatching <=> pc[q] \in Dispatching
                             /\ pc'[q] = "set" <=> pc[q] = "set"
                             /\ q # t => pc'[q] = pc[q] /\ event'[q] = event[q]
      BY <1>a, <3>1 DEF Dispatching
    <3> HIDE DEF h
    <3>4. ASSUME NEW q \in Threads, pc'[q] = "wait"
          PROVE  /\ event'[q] # NoThread /\ pc'[event'[q]] \in Dispatching \cup {"set"}
                 /\ cid'[event'[q]] = cid'[q]
      <4>1. CASE q = t
        <5>1. event'[t] = h
          BY <1>a, <3>1 DEF h
        <5> QED
          BY <4>1, <5>1, <3>1, <3>2, <3>3
      <4>2. CASE q # t
        <5>1. pc[q] = "wait" /\ event'[q] = event[q] /\ event[q] \in Threads
          BY <4>2, <3>3, <3>4, <1>b
        <5> QED
          BY <5>1, <3>1, <3>3 DEF ClaimsMatchDispatches
      <4> QED
        BY <4>1, <4>2
    <3> QED
      BY <3>1, <3>3, <3>4 DEF ClaimsMatchDispatches
  <2>3. CASE Lookup(cid[t]) = "NONE" /\ inFlight[cid[t]] = NoThread
    <3>1. /\ inFlight' = [inFlight EXCEPT ![cid[t]] = t]
          /\ pc' = [pc EXCEPT ![t] = "call"] /\ pc[t] = "claim"
          /\ UNCHANGED <<event, cid>>
      BY <1>2, <2>3 DEF ClaimOrWait, Goto
    <3>2. \A q \in Threads : pc[q] \in Dispatching => cid[q] # cid[t]
      BY <1>a, <2>3 DEF ClaimsMatchDispatches
    <3>3. /\ pc'[t] \in Dispatching /\ pc'[t] # "wait"
          /\ \A q \in Threads : q # t => pc'[q] = pc[q]
      BY <1>a, <3>1 DEF Dispatching
    <3>4. ASSUME NEW c \in Cids, NEW q \in Threads
          PROVE  inFlight'[c] = q <=> pc'[q] \in Dispatching /\ cid'[q] = c
      <4>1. CASE c = cid[t]
        BY <4>1, <1>a, <3>1, <3>2, <3>3
      <4>2. CASE c # cid[t]
        <5>1. inFlight'[c] = inFlight[c] /\ pc[t] \notin Dispatching
          BY <4>2, <1>a, <3>1 DEF Dispatching
        <5> QED
          BY <4>2, <5>1, <3>1, <3>3 DEF ClaimsMatchDispatches
      <4> QED
        BY <4>1, <4>2
    <3>5. ASSUME NEW q \in Threads, pc'[q] = "wait"
          PROVE  /\ event'[q] # NoThread /\ pc'[event'[q]] \in Dispatching \cup {"set"}
                 /\ cid'[event'[q]] = cid'[q]
      <4>1. q # t /\ pc[q] = "wait" /\ event[q] \in Threads
        BY <3>3, <3>5, <1>b
      <4> QED
        BY <4>1, <3>1, <3>3 DEF ClaimsMatchDispatches
    <3> QED
      BY <3>4, <3>5 DEF ClaimsMatchDispatches
  <2> QED
    BY <2>1, <2>2, <2>3
<1>3. ASSUME NEW t \in Threads, WaitTimesOut(t) PROVE ClaimsMatchDispatches'
  BY <1>3, <1>a, <1>d DEF WaitTimesOut, Return, Goto
<1>4. ASSUME NEW t \in Threads, ReadAfterWait(t) PROVE ClaimsMatchDispatches'
  BY <1>4, <1>d DEF ReadAfterWait, Return, Goto
<1>5. ASSUME NEW t \in Threads, Call(t) \/ Decide(t) \/ StoreResult(t)
      PROVE  ClaimsMatchDispatches'
  BY <1>5, <1>c DEF Call, Decide, StoreResult, Goto
<1>6. ASSUME NEW t \in Threads, Release(t) PROVE ClaimsMatchDispatches'
  <2>1. /\ inFlight' = [inFlight EXCEPT ![cid[t]] = NoThread]
        /\ pc' = [pc EXCEPT ![t] = "set"] /\ pc[t] = "release"
        /\ UNCHANGED <<event, cid>>
    BY <1>6 DEF Release, Goto
  <2>2. pc[t] \in Dispatching /\ inFlight[cid[t]] = t
    BY <1>a, <2>1 DEF ClaimsMatchDispatches, Dispatching
  <2>3. /\ pc'[t] = "set" /\ "set" \notin Dispatching
        /\ \A q \in Threads : q # t => pc'[q] = pc[q]
    BY <1>a, <2>1 DEF Dispatching
  <2>4. ASSUME NEW c \in Cids, NEW q \in Threads
        PROVE  inFlight'[c] = q <=> pc'[q] \in Dispatching /\ cid'[q] = c
    <3>1. CASE c = cid[t]
      BY <3>1, <1>a, <2>1, <2>2, <2>3 DEF ClaimsMatchDispatches
    <3>2. CASE c # cid[t]
      BY <3>2, <1>a, <2>1, <2>2, <2>3 DEF ClaimsMatchDispatches
    <3> QED
      BY <3>1, <3>2
  <2>5. ASSUME NEW q \in Threads, pc'[q] = "wait"
        PROVE  /\ event'[q] # NoThread /\ pc'[event'[q]] \in Dispatching \cup {"set"}
               /\ cid'[event'[q]] = cid'[q]
    <3>1. q # t /\ pc[q] = "wait" /\ event[q] \in Threads
      BY <2>3, <2>5, <1>b
    <3> QED
      BY <3>1, <2>1, <2>3 DEF ClaimsMatchDispatches
  <2> QED
    BY <2>4, <2>5 DEF ClaimsMatchDispatches
<1>7. ASSUME NEW t \in Threads, SetEvent(t) PROVE ClaimsMatchDispatches'
  <2> DEFINE waiters == {w \in Threads : pc[w] = "wait" /\ event[w] = t}
  <2>1. /\ pc' = [w \in Threads |-> IF w = t THEN "idle"
                                    ELSE IF w \in waiters THEN "woken" ELSE pc[w]]
        /\ event' = [w \in Threads |-> IF w \in waiters THEN NoThread ELSE event[w]]
        /\ pc[t] = "set" /\ UNCHANGED <<inFlight, cid>>
    BY <1>7 DEF SetEvent
  <2>2. \A q \in Threads : pc'[q] \in Dispatching <=> pc[q] \in Dispatching
    BY <1>a, <2>1 DEF Dispatching
  <2>3. ASSUME NEW q \in Threads, pc'[q] = "wait"
        PROVE  /\ event'[q] # NoThread /\ pc'[event'[q]] \in Dispatching \cup {"set"}
               /\ cid'[event'[q]] = cid'[q]
    <3>1. q # t /\ q \notin waiters /\ pc[q] = "wait"
      BY <2>1, <2>3
    <3>2. event'[q] = event[q] /\ event[q] \in Threads /\ event[q] # t
      BY <1>b, <2>1, <3>1
    <3>3. pc[event[q]] # "wait" /\ pc'[event[q]] = pc[event[q]]
      <4>1. pc[event[q]] \in Dispatching \cup {"set"}
        BY <3>1 DEF ClaimsMatchDispatches
      <4>2. pc[event[q]] # "wait"
        BY <4>1 DEF Dispatching
      <4> QED
        BY <2>1, <3>2, <4>2
    <3> QED
      BY <2>1, <3>1, <3>2, <3>3 DEF ClaimsMatchDispatches
  <2> QED
    BY <2>1, <2>2, <2>3 DEF ClaimsMatchDispatches
<1>8. ASSUME UNCHANGED <<inFlight, pc, cid, event>> PROVE ClaimsMatchDispatches'
  BY <1>8 DEF ClaimsMatchDispatches
<1>9. ASSUME StrayArrives \/ OrderMoves \/ UNCHANGED vars PROVE ClaimsMatchDispatches'
  BY <1>8, <1>9 DEF StrayArrives, OrderMoves, vars, threadVars
<1> QED
  BY <1>1, <1>2, <1>3, <1>4, <1>5, <1>6, <1>7, <1>9 DEF Next, Step, Done

\* Initially nothing is claimed and nobody waits.
LEMMA ClaimsInit == Init => ClaimsMatchDispatches
BY CancelAssumption DEF Init, ClaimsMatchDispatches, Dispatching

\* At most one dispatch of a cancel id is in flight, and nobody waits for an event
\* that will not be set, although the claim is popped and its event set in two steps.
THEOREM ClaimsAlwaysMatch == Spec => []ClaimsMatchDispatches
BY TypeInit, TypeStep, ClaimsInit, ClaimsStep, PTL DEF Spec

-----------------------------------------------------------------------------
\* What the cache says of the answers given: a cached answer is the first one, or
\* a later one after an eviction; an answer that was not evicted is cached; and
\* an id that is being sent is not cached.
CacheInv ==
  /\ \A i \in 1..Len(cache) : answered[cache[i].cid] \in {cache[i].status, "EVICTED"}
  /\ \A c \in Cids : answered[c] \in CacheableStatuses => Kept(c, cache)
  /\ \A t \in Threads : pc[t] \in {"call", "decide", "store"} => ~Kept(cid[t], cache)

\* A replayed answer agrees with the first one.
LEMMA LookupAgrees ==
  ASSUME cache \in Seq(EntryType), CacheInv, NEW c, Lookup(c) # "NONE"
  PROVE  answered[c] \in {Lookup(c), "EVICTED"}
<1>1. PICK i \in 1..Len(cache) : cache[i] = [cid |-> c, status |-> Lookup(c)]
  BY LookupFinds
<1>2. cache[i].cid = c /\ cache[i].status = Lookup(c)
  BY <1>1
<1> QED
  BY <1>2 DEF CacheInv

\* Storing an answer keeps cache and answers in agreement.
LEMMA StoreAgrees ==
  ASSUME TypeOK, ClaimsMatchDispatches, CacheInv, AnswersAgree,
         NEW t \in Threads, StoreResult(t)
  PROVE  CacheInv' /\ AnswersAgree'
<1> DEFINE c == cid[t]
           status == Classify(reply[t])
           entry == [cid |-> c, status |-> status]
<1>a. /\ cache \in Seq(EntryType) /\ Len(cache) <= MaxCacheSize
      /\ pc \in [Threads -> PcType] /\ cid \in [Threads -> Cids] /\ c \in Cids
      /\ answered \in [Cids -> CacheableStatuses \cup {"NONE", "EVICTED"}]
      /\ ret \in [Threads -> Statuses \cup {"NONE"}]
  BY DEF TypeOK, EntryType, PcType
<1>b. /\ pc[t] = "store" /\ pc' = [pc EXCEPT ![t] = "release"] /\ cid' = cid
      /\ ret' = [ret EXCEPT ![t] = status]
  BY DEF StoreResult, Goto
<1>c. "NONE" \notin CacheableStatuses /\ "EVICTED" \notin CacheableStatuses
  BY DEF CacheableStatuses, TerminalStatuses
<1>d. ~Kept(c, cache)
  BY <1>b DEF CacheInv
<1>e. \A q \in Threads : q # t => pc'[q] = pc[q] /\ ret'[q] = ret[q]
  BY <1>a, <1>b
<1>f. pc'[t] = "release" /\ ret'[t] = status
  BY <1>a, <1>b
<1>1. CASE status \notin CacheableStatuses
  <2>1. UNCHANGED <<cache, answered>>
    BY <1>1 DEF StoreResult
  <2>2. CacheInv'
    BY <2>1, <1>b, <1>e, <1>f DEF CacheInv, Kept
  <2>3. AnswersAgree'
    BY <2>1, <1>1, <1>b, <1>e, <1>f DEF AnswersAgree
  <2> QED
    BY <2>2, <2>3
<1>2. CASE status \in CacheableStatuses
  <2>1. /\ cache' = Stored(c, status)
        /\ answered' = [d \in Cids |->
             IF d # c THEN IF Kept(d, cache) /\ ~Kept(d, cache') THEN "EVICTED"
                           ELSE answered[d]
             ELSE IF answered[d] = "NONE" THEN status ELSE answered[d]]
    BY <1>2 DEF StoreResult
  <2>2. Lookup(c) = "NONE"
    BY <1>a, <1>d, LookupFinds
  <2> HIDE DEF status, c
  <2>3. /\ cache' \in Seq(EntryType)
        /\ \A i \in 1..Len(cache') :
             cache'[i] = entry \/ \E j \in 1..Len(cache) : cache'[i] = cache[j]
        /\ \E i \in 1..Len(cache') : cache'[i] = entry
    BY <1>a, <1>2, <2>1, <2>2, StoredAppends
  <2>4. entry.cid = c /\ entry.status = status
    OBVIOUS
  <2> HIDE DEF entry
  <2>5. \A i \in 1..Len(cache) : cache[i].cid # c /\ cache[i].cid \in Cids
    <3>1. \A i \in 1..Len(cache) : cache[i] \in EntryType
      BY <1>a
    <3> QED
      BY <3>1, <1>d DEF Kept, EntryType
  <2>6. Kept(c, cache')
    BY <2>3, <2>4 DEF Kept
  <2>7. answered[c] \notin CacheableStatuses
    BY <1>a, <1>d DEF CacheInv
  <2>8. answered'[c] \in {status, "EVICTED"}
    BY <1>a, <2>1, <2>7
  <2>9. \A d \in Cids : d # c /\ Kept(d, cache') => answered'[d] = answered[d]
    BY <2>1
  <2>10. \A d \in Cids : answered'[d] \in {answered[d], "EVICTED"} \/ (d = c /\ answered[d] = "NONE")
    BY <2>1
  <2>11. ASSUME NEW i \in 1..Len(cache')
         PROVE  answered'[cache'[i].cid] \in {cache'[i].status, "EVICTED"}
    <3>1. CASE cache'[i] = entry
      BY <3>1, <2>4, <2>8
    <3>2. ASSUME NEW j \in 1..Len(cache), cache'[i] = cache[j]
          PROVE  answered'[cache'[i].cid] \in {cache'[i].status, "EVICTED"}
      <4>1. Kept(cache[j].cid, cache')
        BY <3>2 DEF Kept
      <4>2. answered'[cache[j].cid] = answered[cache[j].cid]
        BY <4>1, <2>5, <2>9
      <4> QED
        BY <4>2, <3>2 DEF CacheInv
    <3> QED
      BY <3>1, <3>2, <2>3
  <2>12. ASSUME NEW d \in Cids, answered'[d] \in CacheableStatuses
         PROVE  Kept(d, cache')
    <3>1. CASE d = c
      BY <3>1, <2>6
    <3>2. CASE d # c
      BY <3>2, <2>1, <2>12, <1>c DEF CacheInv
    <3> QED
      BY <3>1, <3>2
  <2>13. ASSUME NEW q \in Threads, pc'[q] \in {"call", "decide", "store"}
         PROVE  ~Kept(cid'[q], cache')
    <3>1. q # t /\ pc[q] \in {"call", "decide", "store"}
      BY <2>13, <1>e, <1>f
    <3>2. cid[q] # c
      <4>1. inFlight[cid[q]] = q /\ inFlight[cid[t]] = t
        BY <1>a, <1>b, <3>1 DEF ClaimsMatchDispatches, Dispatching
      <4> QED
        BY <4>1, <3>1 DEF c
    <3>3. ~Kept(cid[q], cache)
      BY <3>1 DEF CacheInv
    <3> QED
      BY <1>b, <2>3, <2>4, <3>2, <3>3 DEF Kept
  <2>14. AnswersAgree'
    <3> SUFFICES ASSUME NEW q \in Threads, ret'[q] \in CacheableStatuses
                 PROVE  answered'[cid[q]] \in {ret'[q], "EVICTED"}
      BY <1>b DEF AnswersAgree
    <3>1. CASE q = t
      BY <3>1, <1>f, <2>8 DEF c
    <3>2. CASE q # t
      <4>1. answered[cid[q]] \in {ret[q], "EVICTED"} /\ ret'[q] = ret[q] /\ cid[q] \in Cids
        BY <3>2, <1>a, <1>e DEF AnswersAgree
      <4> QED
        BY <4>1, <1>c, <2>10
    <3> QED
      BY <3>1, <3>2
  <2> QED
    BY <2>11, <2>12, <2>13, <2>14 DEF CacheInv
<1> QED
  BY <1>1, <1>2

\* Every step keeps cache and answers in agreement.
LEMMA AgreeStep ==
  /\ TypeOK /\ ClaimsMatchDispatches /\ CacheInv /\ AnswersAgree
  /\ [Next]_vars
  => (CacheInv /\ AnswersAgree)'
<1> SUFFICES ASSUME TypeOK, ClaimsMatchDispatches, CacheInv, AnswersAgree, [Next]_vars
             PROVE  CacheInv' /\ AnswersAgree'
  OBVIOUS
<1>a. /\ cache \in Seq(EntryType)
      /\ pc \in [Threads -> PcType] /\ cid \in [Threads -> Cids]
      /\ ret \in [Threads -> Statuses \cup {"NONE"}]
  BY DEF TypeOK, EntryType, PcType
<1>b. ASSUME UNCHANGED <<cache, answered>>,
             \A q \in Threads : pc'[q] \in {"call", "decide", "store"} => ~Kept(cid'[q], cache)
      PROVE  CacheInv'
  BY <1>b DEF CacheInv, Kept
<1>c. "NONE" \notin CacheableStatuses /\ "UNKNOWN" \notin CacheableStatuses
  BY DEF CacheableStatuses, TerminalStatuses
<1>1. ASSUME NEW t \in Threads, CancelOrder(t) PROVE CacheInv' /\ AnswersAgree'
  <2>1. /\ pc'[t] = "claim" /\ ret'[t] = "NONE" /\ UNCHANGED <<cache, answered>>
        /\ \A q \in Threads : q # t => /\ pc'[q] = pc[q] /\ ret'[q] = ret[q]
                                       /\ cid'[q] = cid[q]
    BY <1>1, <1>a DEF CancelOrder, Goto
  <2>2. CacheInv'
    BY <2>1, <1>b DEF CacheInv
  <2>3. AnswersAgree'
    BY <2>1, <1>c DEF AnswersAgree
  <2> QED
    BY <2>2, <2>3
<1>d. ASSUME NEW t \in Threads, NEW v, UNCHANGED <<cache, answered, cid>>, Return(t, v),
             v \in CacheableStatuses => answered[cid[t]] \in {v, "EVICTED"}
      PROVE  CacheInv' /\ AnswersAgree'
  <2>1. /\ pc'[t] = "idle" /\ ret'[t] = v
        /\ \A q \in Threads : q # t => pc'[q] = pc[q] /\ ret'[q] = ret[q]
    BY <1>a, <1>d DEF Return, Goto
  <2>2. CacheInv'
    BY <2>1, <1>b, <1>d DEF CacheInv
  <2>3. AnswersAgree'
    BY <2>1, <1>d DEF AnswersAgree
  <2> QED
    BY <2>2, <2>3
<1>e. ASSUME UNCHANGED <<cache, answered, cid, ret>>,
             \A q \in Threads : \/ pc'[q] = pc[q]
                                \/ pc'[q] \notin {"call", "decide", "store"}
                                \/ ~Kept(cid[q], cache)
      PROVE  CacheInv' /\ AnswersAgree'
  <2>1. CacheInv'
    BY <1>b, <1>e DEF CacheInv
  <2>2. AnswersAgree'
    BY <1>e DEF AnswersAgree
  <2> QED
    BY <2>1, <2>2
<1>2. ASSUME NEW t \in Threads, ClaimOrWait(t) PROVE CacheInv' /\ AnswersAgree'
  <2>1. CASE Lookup(cid[t]) # "NONE"
    <3>1. answered[cid[t]] \in {Lookup(cid[t]), "EVICTED"}
      BY <2>1, <1>a, LookupAgrees
    <3> QED
      BY <1>2, <2>1, <3>1, <1>d DEF ClaimOrWait
  <2>2. CASE Lookup(cid[t]) = "NONE"
    <3>1. ~Kept(cid[t], cache)
      BY <2>2, <1>a, LookupFinds
    <3>2. /\ UNCHANGED <<cache, answered, cid, ret>>
          /\ \A q \in Threads : q # t => pc'[q] = pc[q]
      BY <1>2, <1>a, <2>2 DEF ClaimOrWait, Goto
    <3> QED
      BY <3>1, <3>2, <1>e
  <2> QED
    BY <2>1, <2>2
<1>3. ASSUME NEW t \in Threads, WaitTimesOut(t) PROVE CacheInv' /\ AnswersAgree'
  BY <1>3, <1>c, <1>d DEF WaitTimesOut
<1>4. ASSUME NEW t \in Threads, ReadAfterWait(t) PROVE CacheInv' /\ AnswersAgree'
  <2> DEFINE v == IF Lookup(cid[t]) = "NONE" THEN "UNKNOWN" ELSE Lookup(cid[t])
  <2>1. v \in CacheableStatuses => answered[cid[t]] \in {v, "EVICTED"}
    BY <1>a, <1>c, LookupAgrees
  <2>2. Return(t, v) /\ UNCHANGED <<cache, answered, cid>>
    BY <1>4 DEF ReadAfterWait
  <2> HIDE DEF v
  <2> QED
    BY <2>1, <2>2, <1>d
<1>5. ASSUME NEW t \in Threads, Call(t) \/ Decide(t) PROVE CacheInv' /\ AnswersAgree'
  <2>1. /\ pc[t] \in {"call", "decide"} /\ UNCHANGED <<cache, answered, cid, ret>>
        /\ \A q \in Threads : q # t => pc'[q] = pc[q]
    BY <1>5, <1>a DEF Call, Decide, Goto
  <2>2. ~Kept(cid[t], cache)
    BY <2>1 DEF CacheInv
  <2> QED
    BY <2>1, <2>2, <1>e
<1>6. ASSUME NEW t \in Threads, StoreResult(t) PROVE CacheInv' /\ AnswersAgree'
  BY <1>6, StoreAgrees
<1>7. ASSUME NEW t \in Threads, Release(t) PROVE CacheInv' /\ AnswersAgree'
  BY <1>7, <1>a, <1>e DEF Release, Goto
<1>8. ASSUME NEW t \in Threads, SetEvent(t) PROVE CacheInv' /\ AnswersAgree'
  BY <1>8, <1>a, <1>e DEF SetEvent
<1>9. ASSUME StrayArrives \/ OrderMoves \/ UNCHANGED vars PROVE CacheInv' /\ AnswersAgree'
  BY <1>9, <1>e DEF StrayArrives, OrderMoves, vars, threadVars
<1> QED
  BY <1>1, <1>2, <1>3, <1>4, <1>5, <1>6, <1>7, <1>8, <1>9 DEF Next, Step, Done

\* Initially there are no answers.
LEMMA AgreeInit == Init => CacheInv /\ AnswersAgree
<1> SUFFICES ASSUME Init PROVE CacheInv /\ AnswersAgree
  OBVIOUS
<1>1. Len(cache) = 0
  BY DEF Init
<1>2. "NONE" \notin CacheableStatuses
  BY DEF CacheableStatuses, TerminalStatuses
<1>3. /\ \A c \in Cids : answered[c] = "NONE"
      /\ \A t \in Threads : pc[t] = "idle" /\ ret[t] = "NONE"
  BY DEF Init
<1> QED
  BY <1>1, <1>2, <1>3 DEF CacheInv, AnswersAgree

\* Owner, waiter and late retry of a cancel id all get the broker's first answer
\* until the cache has had to evict it.
THEOREM AnswersAlwaysAgree == Spec => []AnswersAgree
BY TypeInit, TypeStep, ClaimsInit, ClaimsStep, AgreeInit, AgreeStep, PTL DEF Spec

\* An id the broker has answered is not dispatched again before its answer is
\* evicted: the transport is called only in Call, and never for a cached id.
THEOREM AnsweredIdsAreNotResent == Spec => AnsweredIsNotResent
<1>1. TypeOK /\ CacheInv /\ [Next]_vars =>
        [\A t \in Threads :
           attempt'[t] > attempt[t] => answered[cid[t]] \in {"NONE", "EVICTED"}]_vars
  <2> SUFFICES ASSUME TypeOK, CacheInv, Next, NEW t \in Threads, attempt'[t] > attempt[t]
               PROVE  answered[cid[t]] \in {"NONE", "EVICTED"}
    OBVIOUS
  <2>a. attempt \in [Threads -> Nat] /\ cid[t] \in Cids
    BY CancelAssumption DEF TypeOK
  <2>1. PICK q \in Threads : attempt' # attempt => Call(q) \/ Release(q)
    BY DEF Next, Step, Done, vars, CancelOrder, ClaimOrWait, WaitTimesOut, ReadAfterWait,
           Decide, StoreResult, SetEvent, StrayArrives, OrderMoves, threadVars
  <2>2. pc[t] = "call"
    <3>1. CASE Call(q)
      BY <3>1, <2>a DEF Call
    <3>2. CASE Release(q)
      BY <3>2, <2>a DEF Release
    <3> QED
      BY <2>1, <2>a, <3>1, <3>2
  <2> QED
    BY <2>2, <2>a DEF CacheInv, TypeOK
<1> QED
  BY <1>1, TypeInit, TypeStep, ClaimsInit, ClaimsStep, AgreeInit, AgreeStep, PTL
  DEF Spec, AnsweredIsNotResent

-----------------------------------------------------------------------------
\* A reply that has not been stored yet classifies truthfully, and a broker that
\* cancels at once leaves no order pending.
ReplyInv ==
  /\ TreatAckAsCancelled => order # "pending"
  /\ \A t \in Threads : pc[t] \in {"decide", "store"} => TrueOf(Classify(reply[t]))

\* What a broker that does not call a pending cancel a cancel answers is true of
\* the order after the call.
LEMMA RepliesAreTrue ==
  ASSUME ~SaysPendingCancel, TypeOK, ReplyInv, NEW t \in Threads, Call(t)
  PROVE  TrueOf(Classify(reply[t]))'
<1>a. reply \in [Threads -> Replies]
  BY DEF TypeOK
<1>1. CASE /\ order # "filled" /\ order' = Effect(order)
           /\ \E h \in {"ok", "retryable", "none"} :
                reply' = [reply EXCEPT ![t] = [http |-> h, text |-> "other"]]
  <2>1. PICK h \in {"ok", "retryable", "none"} :
               reply'[t] = [http |-> h, text |-> "other"]
    BY <1>1, <1>a
  <2>2. reply'[t].http = h
    BY <2>1
  <2>3. TreatAckAsCancelled => order' = "cancelled"
    BY <1>1 DEF Effect, ReplyInv, TypeOK
  <2> QED
    BY <2>2, <2>3 DEF TrueOf, Classify, Retryable
<1>2. CASE /\ \E r \in Refusals(order) \cup {[http |-> "retryable", text |-> "other"]} :
                reply' = [reply EXCEPT ![t] = r]
           /\ UNCHANGED order
  <2>1. PICK r \in Refusals(order) \cup {[http |-> "retryable", text |-> "other"]} :
               reply'[t] = r
    BY <1>2, <1>a
  <2>2. CASE r = [http |-> "retryable", text |-> "other"]
    BY <2>1, <2>2 DEF TrueOf, Classify, Retryable
  <2>3. CASE r \in Refusals(order)
    BY <1>2, <2>1, <2>3 DEF Refusals, TrueOf, Classify, Retryable
  <2> QED
    BY <2>2, <2>3
<1>3. CASE reply' = [reply EXCEPT ![t] = NoReply]
  BY <1>3, <1>a DEF NoReply, TrueOf, Classify, Retryable
<1> QED
  BY <1>1, <1>2, <1>3 DEF Call

\* Every step keeps answers and replies true of the order, at such a broker.
LEMMA TruthStep ==
  ASSUME ~SaysPendingCancel
  PROVE  TypeOK /\ TerminalIsTrue /\ ReplyInv /\ [Next]_vars => (TerminalIsTrue /\ ReplyInv)'
<1> SUFFICES ASSUME TypeOK, TerminalIsTrue, ReplyInv, [Next]_vars
             PROVE  TerminalIsTrue' /\ ReplyInv'
  OBVIOUS
<1> USE CancelAssumption
<1>a. /\ cache \in Seq(EntryType) /\ Len(cache) <= MaxCacheSize
      /\ pc \in [Threads -> PcType] /\ cid \in [Threads -> Cids]
      /\ ret \in [Threads -> Statuses \cup {"NONE"}] /\ reply \in [Threads -> Replies]
  BY DEF TypeOK, EntryType, PcType
<1>b. /\ order \in {"filled", "cancelled"} => order' = order
      /\ TreatAckAsCancelled => order' # "pending"
  <2>1. UNCHANGED order \/ order' = Effect(order) \/ OrderMoves
    BY DEF Next, Step, Done, vars, CancelOrder, ClaimOrWait, WaitTimesOut, ReadAfterWait,
           Call, Decide, StoreResult, Release, SetEvent, StrayArrives
  <2> QED
    BY <2>1 DEF Effect, OrderMoves, ReplyInv, TypeOK
<1>c. \A s : TrueOf(s) => /\ s = "FILLED_BEFORE_CANCEL" => order' = "filled"
                          /\ s \in {"CANCELLED", "ALREADY_CANCELLED"} => order' = "cancelled"
  BY <1>b DEF TrueOf
<1>d. \A c : TrueOf(Lookup(c))
  <2> TAKE c
  <2>1. CASE Lookup(c) = "NONE"
    BY <2>1 DEF TrueOf
  <2>2. CASE Lookup(c) # "NONE"
    <3>1. PICK i \in 1..Len(cache) : cache[i] = [cid |-> c, status |-> Lookup(c)]
      BY <2>2, <1>a, LookupFinds
    <3>2. cache[i].status = Lookup(c)
      BY <3>1
    <3> QED
      BY <3>2 DEF TerminalIsTrue
  <2> QED
    BY <2>1, <2>2
<1>e. ASSUME \A q \in Threads : TrueOf(ret'[q]), UNCHANGED cache PROVE TerminalIsTrue'
  <2>1. \A i \in 1..Len(cache) : TrueOf(cache[i].status)
    BY DEF TerminalIsTrue
  <2> QED
    BY <1>e, <1>c, <2>1 DEF TerminalIsTrue, TrueOf
<1>f. ASSUME UNCHANGED reply,
             \A q \in Threads : pc'[q] \in {"decide", "store"} => pc[q] \in {"decide", "store"}
      PROVE  ReplyInv'
  <2>1. \A q \in Threads : pc'[q] \in {"decide", "store"} => TrueOf(Classify(reply[q]))
    BY <1>f DEF ReplyInv
  <2> QED
    BY <1>b, <1>c, <1>f, <2>1 DEF ReplyInv, TrueOf, Classify, Retryable
<1>g. TrueOf("NONE") /\ TrueOf("UNKNOWN")
  BY DEF TrueOf
<1>h. \A q \in Threads : TrueOf(ret[q])
  BY DEF TerminalIsTrue
<1>1. ASSUME NEW t \in Threads, CancelOrder(t) PROVE TerminalIsTrue' /\ ReplyInv'
  BY <1>1, <1>a, <1>e, <1>f, <1>g, <1>h DEF CancelOrder, Goto
<1>2. ASSUME NEW t \in Threads, ClaimOrWait(t) PROVE TerminalIsTrue' /\ ReplyInv'
  <2>1. ret' = ret \/ ret' = [ret EXCEPT ![t] = Lookup(cid[t])]
    BY <1>2 DEF ClaimOrWait, Return
  <2>2. \A q \in Threads : TrueOf(ret'[q])
    BY <2>1, <1>a, <1>d, <1>h
  <2>3. \A q \in Threads : pc'[q] \in {"decide", "store"} => pc[q] \in {"decide", "store"}
    BY <1>2, <1>a DEF ClaimOrWait, Return, Goto
  <2> QED
    BY <1>2, <1>e, <1>f, <2>2, <2>3 DEF ClaimOrWait
<1>3. ASSUME NEW t \in Threads, WaitTimesOut(t) PROVE TerminalIsTrue' /\ ReplyInv'
  BY <1>3, <1>a, <1>e, <1>f, <1>g, <1>h DEF WaitTimesOut, Return, Goto
<1>4. ASSUME NEW t \in Threads, ReadAfterWait(t) PROVE TerminalIsTrue' /\ ReplyInv'
  <2>1. \A q \in Threads : TrueOf(ret'[q])
    BY <1>4, <1>a, <1>d, <1>g, <1>h DEF ReadAfterWait, Return
  <2> QED
    BY <1>4, <1>a, <1>e, <1>f, <2>1 DEF ReadAfterWait, Return, Goto
<1>5. ASSUME NEW t \in Threads, Call(t) PROVE TerminalIsTrue' /\ ReplyInv'
  <2>1. TerminalIsTrue'
    BY <1>5, <1>e, <1>h DEF Call
  <2>2. TrueOf(Classify(reply[t]))'
    BY <1>5, RepliesAreTrue
  <2>3. \A q \in Threads : q # t => pc'[q] = pc[q] /\ reply'[q] = reply[q]
    BY <1>5, <1>a DEF Call, Goto
  <2>4. ASSUME NEW q \in Threads, q # t, pc'[q] \in {"decide", "store"}
        PROVE  TrueOf(Classify(reply[q]))'
    <3>1. TrueOf(Classify(reply[q])) /\ reply'[q] = reply[q]
      BY <2>3, <2>4 DEF ReplyInv
    <3> QED
      BY <3>1, <1>c DEF TrueOf, Classify, Retryable
  <2> QED
    BY <1>b, <2>1, <2>2, <2>4 DEF ReplyInv
<1>6. ASSUME NEW t \in Threads, Decide(t) PROVE TerminalIsTrue' /\ ReplyInv'
  BY <1>6, <1>a, <1>e, <1>f, <1>h DEF Decide, Goto
<1>7. ASSUME NEW t \in Threads, StoreResult(t) PROVE TerminalIsTrue' /\ ReplyInv'
  <2> DEFINE status == Classify(reply[t])
  <2>1. TrueOf(status) /\ ret' = [ret EXCEPT ![t] = status] /\ UNCHANGED <<reply, order>>
    BY <1>7 DEF StoreResult, ReplyInv
  <2>2. \A q \in Threads : TrueOf(ret'[q])
    BY <2>1, <1>a, <1>h
  <2>3. ReplyInv'
    BY <1>7, <1>a, <1>f DEF StoreResult, Goto
  <2>4. CASE status \notin CacheableStatuses
    BY <1>7, <2>2, <2>3, <2>4, <1>e DEF StoreResult
  <2>5. CASE status \in CacheableStatuses
    <3>1. cache' = Stored(cid[t], status)
      BY <1>7, <2>5 DEF StoreResult
    <3> HIDE DEF status
    <3>2. \A i \in 1..Len(cache') : TrueOf(cache'[i].status)
      <4>1. CASE Lookup(cid[t]) = "NONE"
        <5>1. \A i \in 1..Len(cache') :
                \/ cache'[i] = [cid |-> cid[t], status |-> status]
                \/ \E j \in 1..Len(cache) : cache'[i] = cache[j]
          BY <1>a, <2>5, <3>1, <4>1, StoredAppends
        <5>2. \A i \in 1..Len(cache') :
                \/ cache'[i].status = status
                \/ \E j \in 1..Len(cache) : cache'[i].status = cache[j].status
          BY <5>1
        <5> QED
          BY <2>1, <5>2 DEF TerminalIsTrue
      <4>2. CASE Lookup(cid[t]) # "NONE"
        <5>1. cache' = [i \in 1..Len(cache) |->
                          IF cache[i].cid = cid[t] THEN [cid |-> cid[t], status |-> status]
                          ELSE cache[i]]
          BY <3>1, <4>2 DEF Stored
        <5>2. Len(cache') = Len(cache)
          <6>1. cache' \in Seq(EntryType)
            BY <1>a, <2>5, <3>1, StoredType
          <6>2. DOMAIN cache' = 1..Len(cache) /\ DOMAIN cache' = 1..Len(cache')
            BY <5>1, <6>1, LenProperties
          <6> QED
            BY <6>1, <6>2, <1>a
        <5>3. \A i \in 1..Len(cache) : \/ cache'[i].status = status
                                       \/ cache'[i].status = cache[i].status
          BY <5>1
        <5> QED
          BY <2>1, <5>2, <5>3 DEF TerminalIsTrue
      <4> QED
        BY <4>1, <4>2
    <3> QED
      BY <2>1, <2>2, <2>3, <3>2 DEF TerminalIsTrue, TrueOf
  <2> QED
    BY <2>4, <2>5
<1>8. ASSUME NEW t \in Threads, Release(t) PROVE TerminalIsTrue' /\ ReplyInv'
  <2>1. TerminalIsTrue'
    BY <1>8, <1>e, <1>h DEF Release
  <2>2. /\ pc'[t] = "set"
        /\ \A q \in Threads : q # t => pc'[q] = pc[q] /\ reply'[q] = reply[q]
    BY <1>8, <1>a DEF Release, Goto
  <2>3. ASSUME NEW q \in Threads, pc'[q] \in {"decide", "store"}
        PROVE  TrueOf(Classify(reply[q]))'
    <3>1. TrueOf(Classify(reply[q])) /\ reply'[q] = reply[q]
      BY <2>2, <2>3 DEF ReplyInv
    <3> QED
      BY <3>1, <1>c DEF TrueOf, Classify, Retryable
  <2> QED
    BY <1>b, <2>1, <2>3 DEF ReplyInv
<1>9. ASSUME NEW t \in Threads, SetEvent(t) PROVE TerminalIsTrue' /\ ReplyInv'
  BY <1>9, <1>a, <1>e, <1>f, <1>h DEF SetEvent
<1>10. ASSUME StrayArrives \/ OrderMoves \/ UNCHANGED vars
       PROVE  TerminalIsTrue' /\ ReplyInv'
  BY <1>10, <1>e, <1>f, <1>h DEF StrayArrives, OrderMoves, vars, threadVars
<1> QED
  BY <1>1, <1>2, <1>3, <1>4, <1>5, <1>6, <1>7, <1>8, <1>9, <1>10 DEF Next, Step, Done

\* At a broker that does not refuse a cancel with the words "pending cancel", a
\* terminal result is true of the order whenever it is returned, cached or
\* replayed: fills that overtake a cancel and requests that arrive late included.
\* (At one that does, the run cancel_pending refutes it.)
THEOREM TerminalAnswersAreTrue ==
  ASSUME ~SaysPendingCancel
  PROVE  Spec => []TerminalIsTrue
<1>1. Init => TerminalIsTrue /\ ReplyInv
  <2> SUFFICES ASSUME Init PROVE TerminalIsTrue /\ ReplyInv
    OBVIOUS
  <2>1. Len(cache) = 0 /\ order = "working"
    BY DEF Init
  <2>2. \A t \in Threads : pc[t] = "idle" /\ ret[t] = "NONE"
    BY DEF Init
  <2> QED
    BY <2>1, <2>2 DEF TerminalIsTrue, ReplyInv, TrueOf
<1>2. TypeOK /\ TerminalIsTrue /\ ReplyInv /\ [Next]_vars => (TerminalIsTrue /\ ReplyInv)'
  BY TruthStep
<1> QED
  BY <1>1, <1>2, TypeInit, TypeStep, PTL DEF Spec
==============================================================================
