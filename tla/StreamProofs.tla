----------------------------- MODULE StreamProofs -----------------------------
(***************************************************************************)
(* Proofs about the two components that must lose nothing of a stream: the *)
(* drain of GracefulShutdown, which may be refused, cut short or killed,   *)
(* and the books of WsRecovery, fed by lost, repeated and reordered frames *)
(* and by fills that prove nothing.                                        *)
(***************************************************************************)
EXTENDS GracefulShutdown, WsRecovery, SequenceTheorems, TLAPS

\* A sequence that holds the numbers after a given one, in order.
Run(seq, after) == \A i \in 1..Len(seq) : seq[i] = after + i

\* Two sequences joined are a run exactly when the second continues the first.
LEMMA JoinedRuns ==
  ASSUME NEW s \in Seq(Int), NEW t \in Seq(Int), NEW a \in Int
  PROVE  /\ s \o t \in Seq(Int) /\ Len(s \o t) = Len(s) + Len(t)
         /\ Run(s \o t, a) <=> Run(s, a) /\ Run(t, a + Len(s))
<1>1. /\ s \o t \in Seq(Int) /\ Len(s \o t) = Len(s) + Len(t)
      /\ \A i \in 1..Len(s) + Len(t) : (s \o t)[i] = IF i <= Len(s) THEN s[i] ELSE t[i - Len(s)]
  BY ConcatProperties
<1>2. Len(s) \in Nat /\ Len(t) \in Nat
  OBVIOUS
<1>3. ASSUME Run(s \o t, a) PROVE Run(s, a) /\ Run(t, a + Len(s))
  <2>1. ASSUME NEW i \in 1..Len(s) PROVE s[i] = a + i
    <3>1. i \in 1..Len(s) + Len(t) /\ i <= Len(s)
      BY <1>2
    <3> QED
      BY <1>1, <1>3, <3>1 DEF Run
  <2>2. ASSUME NEW i \in 1..Len(t) PROVE t[i] = a + Len(s) + i
    <3>1. /\ i + Len(s) \in 1..Len(s) + Len(t) /\ ~(i + Len(s) <= Len(s))
          /\ (i + Len(s)) - Len(s) = i
      BY <1>2
    <3>2. (s \o t)[i + Len(s)] = t[i]
      BY <1>1, <3>1
    <3>3. (s \o t)[i + Len(s)] = a + (i + Len(s))
      BY <1>1, <1>3, <3>1 DEF Run
    <3> QED
      BY <3>2, <3>3, <1>2
  <2> QED
    BY <2>1, <2>2 DEF Run
<1>4. ASSUME Run(s, a), Run(t, a + Len(s)) PROVE Run(s \o t, a)
  <2> SUFFICES ASSUME NEW i \in 1..Len(s) + Len(t) PROVE (s \o t)[i] = a + i
    BY <1>1 DEF Run
  <2>1. CASE i <= Len(s)
    BY <2>1, <1>1, <1>2, <1>4 DEF Run
  <2>2. CASE ~(i <= Len(s))
    <3>1. i - Len(s) \in 1..Len(t)
      BY <2>2, <1>2
    <3>2. t[i - Len(s)] = a + Len(s) + (i - Len(s))
      BY <3>1, <1>4 DEF Run
    <3> QED
      BY <2>2, <3>2, <1>1, <1>2
  <2> QED
    BY <2>1, <2>2
<1> QED
  BY <1>1, <1>3, <1>4

-----------------------------------------------------------------------------
\* The ticks that are durable for certain: all before the backlog.
Flushed == position - Len(itemQueue) - Len(batch)

\* Where the drain and the ingress thread may be, and what is left to flush then.
DrainInv ==
  /\ batch # <<>> <=> drainer = "flush"
  /\ drainer # "none" => gs.requested
  /\ ingress = "accepted" => position < MaxOffset
  /\ drainer = "count" /\ itemQueue = <<>> => ingress = "idle"
  /\ drainer = "commit" => itemQueue = <<>> /\ ingress = "idle"
  /\ gs.state = "FLUSHED" =>
       /\ drainer = "exit" /\ gs.requested
       /\ ingress = "idle" /\ committed = position

\* The backlog is the newest ticks in order; all older ones are durable.
BacklogInv ==
  /\ itemQueue \in Seq(Int) /\ batch \in Seq(Int)
  /\ Flushed >= 0
  /\ Run(batch, Flushed) /\ Run(itemQueue, Flushed + Len(batch))
  /\ 1..Flushed \subseteq durable /\ 1..committed \subseteq durable

GsInv == GsTypeOK /\ DrainInv /\ BacklogInv

\* The invariant says what ShutdownLosesNothing asks for.
LEMMA GsInvLosesNothing == GsInv => ShutdownLosesNothing
<1> SUFFICES ASSUME GsInv PROVE ShutdownLosesNothing
  OBVIOUS
<1> DEFINE backlog == batch \o itemQueue
<1>1. /\ Len(batch) \in Nat /\ Len(itemQueue) \in Nat /\ position \in Int
      /\ itemQueue \in Seq(Int) /\ batch \in Seq(Int) /\ Flushed \in Int
  BY DEF GsInv, BacklogInv, GsTypeOK, Flushed
<1>2. /\ backlog \in Seq(Int) /\ Len(backlog) = Len(batch) + Len(itemQueue)
      /\ Run(backlog, Flushed)
  BY <1>1, JoinedRuns DEF GsInv, BacklogInv
<1>3. Flushed = position - Len(backlog)
  BY <1>1, <1>2 DEF Flushed
<1>4. DOMAIN backlog = 1..Len(backlog)
  BY <1>2
<1> HIDE DEF backlog
<1>5. \A i \in DOMAIN backlog : backlog[i] = (position - Len(backlog)) + i
  BY <1>2, <1>3, <1>4 DEF Run
<1>6. 1..(position - Len(backlog)) \subseteq durable /\ 1..committed \subseteq durable
  BY <1>3 DEF GsInv, BacklogInv
<1>7. gs.state = "FLUSHED" => committed = position /\ gs.requested
  BY DEF GsInv, DrainInv
<1> QED
  BY <1>5, <1>6, <1>7 DEF ShutdownLosesNothing, backlog

\* The type of the manager's record.
GsRecord == [state : {"RUNNING", "DRAINING", "FLUSHED", "TERMINATED"}, requested : BOOLEAN,
             force : BOOLEAN, signals : 0..MaxSignals]

\* The invariant holds initially.
LEMMA GsInvInit == GsInit => GsInv
<1> SUFFICES ASSUME GsInit PROVE GsInv
  OBVIOUS
<1>a. MaxOffset \in Nat /\ MaxSignals \in Nat
  BY ShutdownAssumption
<1>1. itemQueue = <<>> /\ batch = <<>> /\ Len(itemQueue) = 0 /\ Len(batch) = 0
  BY DEF GsInit
<1>2. /\ drainer = "none" /\ ingress = "idle" /\ position = 0 /\ committed = 0
      /\ durable = {} /\ gs = Running
  BY DEF GsInit
<1>3. Running \in GsRecord /\ Running.state = "RUNNING"
  BY <1>a DEF Running, GsRecord
<1>4. GsTypeOK
  BY <1>2, <1>3, <1>a DEF GsTypeOK, GsRecord
<1>5. DrainInv
  BY <1>1, <1>2, <1>3 DEF DrainInv
<1>6. BacklogInv
  <2>0. <<>> \in Seq(Int)
    OBVIOUS
  <2>1. itemQueue \in Seq(Int) /\ batch \in Seq(Int)
    BY <2>0, <1>1
  <2>2. Flushed = 0
    <3>1. Len(itemQueue) = 0 /\ Len(batch) = 0 /\ position = 0
      BY <1>1, <1>2
    <3> QED
      BY <3>1 DEF Flushed
  <2> QED
    BY <1>1, <1>2, <2>1, <2>2 DEF BacklogInv, Run
<1> QED
  BY <1>4, <1>5, <1>6 DEF GsInv

\* Every step keeps the invariant, when an ingress callback past the gate is
\* waited for before the queue is counted.
LEMMA GsInvStep ==
  ASSUME IngressIsJoined
  PROVE  GsInv /\ [GsNext]_gsVars => GsInv'
<1> SUFFICES ASSUME GsInv, [GsNext]_gsVars PROVE GsInv'
  OBVIOUS
<1>a. MaxOffset \in Nat /\ MaxSignals \in Nat
  BY ShutdownAssumption
<1>b. /\ gs \in GsRecord /\ position \in 0..MaxOffset /\ committed \in 0..MaxOffset
      /\ durable \subseteq 1..MaxOffset
      /\ drainer \in {"none", "loop", "flush", "count", "commit", "exit"}
      /\ ingress \in {"idle", "accepted"}
  BY DEF GsInv, GsTypeOK, GsRecord
<1>c. /\ itemQueue \in Seq(Int) /\ batch \in Seq(Int)
      /\ Len(itemQueue) \in Nat /\ Len(batch) \in Nat /\ Flushed \in Int /\ Flushed >= 0
  BY <1>b DEF GsInv, BacklogInv, Flushed
<1>d. DrainInv /\ BacklogInv
  BY DEF GsInv
<1>e. ASSUME gs' \in GsRecord, position' \in 0..MaxOffset, committed' \in 0..MaxOffset,
             durable' \subseteq 1..MaxOffset,
             drainer' \in {"none", "loop", "flush", "count", "commit", "exit"},
             ingress' \in {"idle", "accepted"}, DrainInv', BacklogInv'
      PROVE  GsInv'
  BY <1>e DEF GsInv, GsTypeOK, GsRecord
<1>f. ASSUME UNCHANGED <<itemQueue, batch, position, durable, committed>> PROVE BacklogInv'
  BY <1>d, <1>f DEF BacklogInv, Flushed, Run
<1>1. CASE PassGate
  <2>1. DrainInv'
    BY <1>1, <1>d DEF PassGate, DrainInv
  <2> QED
    BY <1>1, <1>b, <1>e, <1>f, <2>1 DEF PassGate
<1>2. CASE AppendTick
  <2>1. position' \in 0..MaxOffset /\ position' = position + 1
    BY <1>2, <1>a, <1>b, <1>d DEF AppendTick, DrainInv
  <2>2. /\ itemQueue' \in Seq(Int) /\ Len(itemQueue') = Len(itemQueue) + 1
        /\ itemQueue' # <<>>
        /\ \A i \in 1..Len(itemQueue) : itemQueue'[i] = itemQueue[i]
        /\ itemQueue'[Len(itemQueue) + 1] = position + 1
    <3>1. itemQueue' = Append(itemQueue, position + 1) /\ position + 1 \in Int
      BY <1>2, <1>b DEF AppendTick
    <3> QED
      BY <3>1, <1>c, AppendProperties
  <2>3. Flushed' = Flushed /\ batch' = batch
    BY <1>2, <1>b, <1>c, <2>1, <2>2 DEF Flushed, AppendTick
  <2>4. Run(itemQueue', Flushed + Len(batch))
    <3>1. position + 1 = Flushed + Len(batch) + (Len(itemQueue) + 1)
      BY <1>b, <1>c DEF Flushed
    <3>2. \A i \in 1..Len(itemQueue') : i \in 1..Len(itemQueue) \/ i = Len(itemQueue) + 1
      BY <1>c, <2>2
    <3> QED
      BY <1>d, <2>2, <3>1, <3>2 DEF BacklogInv, Run
  <2>5. BacklogInv'
    BY <1>2, <1>d, <2>2, <2>3, <2>4 DEF BacklogInv, AppendTick, Run
  <2>6. DrainInv'
    BY <1>2, <1>d, <2>2 DEF AppendTick, DrainInv
  <2> QED
    BY <1>2, <1>b, <1>e, <2>1, <2>5, <2>6 DEF AppendTick
<1>3. CASE HandleSignal
  <2>1. /\ gs' \in GsRecord /\ gs'.requested = TRUE
        /\ gs'.state = IF gs.state = "RUNNING" THEN "DRAINING" ELSE gs.state
    BY <1>3, <1>a, <1>b DEF HandleSignal, GsRecord
  <2>2. DrainInv'
    BY <1>3, <1>d, <2>1 DEF HandleSignal, DrainInv
  <2> QED
    BY <1>3, <1>b, <1>e, <1>f, <2>1, <2>2 DEF HandleSignal
<1>4. CASE TriggerShutdown
  <2>1. gs' \in GsRecord /\ gs'.requested = TRUE /\ gs'.state = "DRAINING"
    BY <1>4, <1>b DEF TriggerShutdown, GsRecord
  <2>2. DrainInv'
    BY <1>4, <1>d, <2>1 DEF TriggerShutdown, DrainInv
  <2> QED
    BY <1>4, <1>b, <1>e, <1>f, <2>1, <2>2 DEF TriggerShutdown
<1>5. CASE BeginDrain
  <2>1. gs' \in GsRecord /\ gs'.requested = gs.requested /\ gs'.state = "DRAINING"
    BY <1>5, <1>b DEF BeginDrain, GsRecord
  <2>2. DrainInv'
    BY <1>5, <1>d, <2>1 DEF BeginDrain, DrainInv
  <2> QED
    BY <1>5, <1>b, <1>e, <1>f, <2>1, <2>2 DEF BeginDrain
<1>6. CASE DetachBatch
  <2>1. batch = <<>> /\ Len(batch) = 0
    BY <1>6, <1>d DEF DetachBatch, DrainInv
  <2>2. batch' = itemQueue /\ itemQueue' = <<>> /\ Len(itemQueue') = 0
    BY <1>6 DEF DetachBatch
  <2>3. itemQueue' \in Seq(Int)
    BY <2>2
  <2>4. Flushed' = Flushed
    BY <1>6, <1>b, <1>c, <2>1, <2>2 DEF Flushed, DetachBatch
  <2>5. BacklogInv'
    <3>1. Run(batch', Flushed')
      BY <1>c, <1>d, <2>1, <2>2, <2>4 DEF BacklogInv, Run
    <3>2. Run(itemQueue', Flushed' + Len(batch'))
      BY <2>2 DEF Run
    <3>3. batch' \in Seq(Int) /\ Flushed' >= 0
      BY <1>c, <2>2, <2>4
    <3>4. UNCHANGED <<durable, committed>>
      BY <1>6 DEF DetachBatch
    <3>5. 1..Flushed' \subseteq durable' /\ 1..committed' \subseteq durable'
      BY <1>d, <2>4, <3>4 DEF BacklogInv
    <3> QED
      BY <2>3, <3>1, <3>2, <3>3, <3>5 DEF BacklogInv, Run
  <2>6. DrainInv'
    BY <1>6, <1>d, <2>2 DEF DetachBatch, DrainInv
  <2> QED
    BY <1>6, <1>b, <1>e, <2>5, <2>6 DEF DetachBatch
<1>7. CASE FlushReturns
  <2>1. batch' = <<>> /\ Len(batch') = 0 /\ batch' \in Seq(Int)
    BY <1>7 DEF FlushReturns
  <2>2. Flushed' = Flushed + Len(batch)
    BY <1>7, <1>b, <1>c, <2>1 DEF Flushed, FlushReturns
  <2>3. DOMAIN batch = 1..Len(batch)
    BY <1>c
  <2>4. durable' = durable \cup {batch[i] : i \in 1..Len(batch)}
    BY <1>7, <2>3 DEF FlushReturns
  <2>5. \A i \in 1..Len(batch) : batch[i] = Flushed + i
    BY <1>d DEF BacklogInv, Run
  <2>6. durable' \subseteq 1..MaxOffset
    <3>1. Flushed + Len(batch) <= MaxOffset
      BY <1>a, <1>b, <1>c DEF Flushed
    <3>2. \A i \in 1..Len(batch) : Flushed + i \in 1..MaxOffset
      BY <1>a, <1>c, <3>1
    <3> QED
      BY <1>b, <2>4, <2>5, <3>2
  <2>7. 1..Flushed' \subseteq durable'
    <3> SUFFICES ASSUME NEW k \in 1..(Flushed + Len(batch)) PROVE k \in durable'
      BY <2>2
    <3>1. CASE k \in 1..Flushed
      BY <3>1, <1>d, <2>4 DEF BacklogInv
    <3>2. CASE k \notin 1..Flushed
      <4>1. k - Flushed \in 1..Len(batch) /\ Flushed + (k - Flushed) = k
        BY <3>2, <1>c
      <4>2. batch[k - Flushed] = k
        BY <4>1, <2>5
      <4> QED
        BY <4>1, <4>2, <2>4
    <3> QED
      BY <3>1, <3>2
  <2>8. BacklogInv'
    <3>1. Run(batch', Flushed')
      BY <2>1 DEF Run
    <3>2. Run(itemQueue', Flushed' + Len(batch'))
      <4>1. itemQueue' = itemQueue /\ Flushed' + Len(batch') = Flushed + Len(batch)
        BY <1>7, <1>c, <2>1, <2>2 DEF FlushReturns
      <4> QED
        BY <4>1, <1>d DEF BacklogInv
    <3>3. Flushed' >= 0 /\ itemQueue' \in Seq(Int)
      BY <1>7, <1>c, <2>2 DEF FlushReturns
    <3>4. 1..committed' \subseteq durable'
      BY <1>7, <1>d, <2>4 DEF FlushReturns, BacklogInv
    <3> QED
      BY <2>1, <2>7, <3>1, <3>2, <3>3, <3>4 DEF BacklogInv, Run
  <2>9. DrainInv'
    BY <1>7, <1>d, <2>1 DEF FlushReturns, DrainInv
  <2> QED
    BY <1>7, <1>b, <1>e, <2>6, <2>8, <2>9 DEF FlushReturns
<1>8. CASE FlushRaises
  <2>1. PICK n \in 0..Len(batch) : durable' = durable \cup {batch[i] : i \in 1..n}
    BY <1>8 DEF FlushRaises
  <2>2. /\ batch' = <<>> /\ Len(batch') = 0 /\ batch' \in Seq(Int)
        /\ itemQueue' = batch \o itemQueue
    BY <1>8 DEF FlushRaises, RestoreBatch
  <2>3. /\ itemQueue' \in Seq(Int) /\ Len(itemQueue') = Len(batch) + Len(itemQueue)
        /\ Run(itemQueue', Flushed)
    BY <1>c, <1>d, <2>2, JoinedRuns DEF BacklogInv
  <2>4. Flushed' = Flushed /\ Flushed' + Len(batch') = Flushed
    BY <1>8, <1>b, <1>c, <2>2, <2>3 DEF Flushed, FlushRaises
  <2>5. durable' \subseteq 1..MaxOffset
    <3>1. \A i \in 1..Len(batch) : batch[i] = Flushed + i
      BY <1>d DEF BacklogInv, Run
    <3>2. Flushed + Len(batch) <= MaxOffset
      BY <1>a, <1>b, <1>c DEF Flushed
    <3>3. \A i \in 1..n : i \in 1..Len(batch) /\ Flushed + i \in 1..MaxOffset
      BY <1>a, <1>c, <2>1, <3>2
    <3> QED
      BY <1>b, <2>1, <3>1, <3>3
  <2>6. BacklogInv'
    <3>1. Run(batch', Flushed') /\ Run(itemQueue', Flushed' + Len(batch'))
      BY <2>2, <2>3, <2>4 DEF Run
    <3>2. 1..Flushed' \subseteq durable' /\ 1..committed' \subseteq durable'
      BY <1>8, <1>d, <2>1, <2>4 DEF FlushRaises, BacklogInv
    <3> QED
      BY <1>c, <2>2, <2>3, <2>4, <3>1, <3>2 DEF BacklogInv, Run
  <2>7. itemQueue' # <<>>
    <3>1. Len(batch) > 0
      BY <1>8, <1>c, <1>d, EmptySeq DEF FlushRaises, DrainInv
    <3> QED
      BY <1>c, <2>3, <3>1
  <2>8. DrainInv'
    BY <1>8, <1>d, <2>2, <2>7 DEF FlushRaises, DrainInv
  <2> QED
    BY <1>8, <1>b, <1>e, <2>5, <2>6, <2>8 DEF FlushRaises
<1>9. CASE LoopEnds
  <2>1. DrainInv'
    BY <1>9, <1>d DEF LoopEnds, DrainInv
  <2> QED
    BY <1>9, <1>b, <1>e, <1>f, <2>1 DEF LoopEnds
<1>10. CASE CountUndrained
  <2>1. CASE itemQueue = <<>>
    <3>1. DrainInv'
      BY <1>10, <1>d, <2>1 DEF CountUndrained, DrainInv
    <3> QED
      BY <1>10, <1>b, <1>e, <1>f, <2>1, <3>1 DEF CountUndrained
  <2>2. CASE itemQueue # <<>>
    <3>1. /\ gs' \in GsRecord /\ gs'.requested = gs.requested /\ gs'.state = "TERMINATED"
          /\ drainer' = "exit"
      BY <1>10, <1>b, <2>2 DEF CountUndrained, Exit, GsRecord
    <3>2. DrainInv'
      BY <1>10, <1>d, <3>1 DEF CountUndrained, DrainInv
    <3> QED
      BY <1>10, <1>b, <1>e, <1>f, <3>1, <3>2 DEF CountUndrained
  <2> QED
    BY <2>1, <2>2
<1>11. CASE CommitOffsets
  <2>1. itemQueue = <<>> /\ batch = <<>> /\ ingress = "idle" /\ Flushed = position
    <3>1. itemQueue = <<>> /\ batch = <<>> /\ ingress = "idle"
      BY <1>11, <1>d DEF CommitOffsets, DrainInv
    <3>2. Len(itemQueue) = 0 /\ Len(batch) = 0
      BY <3>1
    <3> QED
      BY <1>b, <3>1, <3>2 DEF Flushed
  <2>2. /\ committed' \in {committed, position} /\ drainer' = "exit"
        /\ gs' \in GsRecord /\ gs'.requested = gs.requested
        /\ gs'.state = "FLUSHED" => committed' = position
    BY <1>11, <1>b DEF CommitOffsets, Exit, GsRecord
  <2>3. UNCHANGED <<itemQueue, batch, ingress, position, durable>>
    BY <1>11 DEF CommitOffsets
  <2>4. BacklogInv'
    <3>1. 1..committed' \subseteq durable' /\ Flushed' = Flushed
      BY <1>d, <2>1, <2>2, <2>3 DEF BacklogInv, Flushed
    <3> QED
      BY <1>d, <2>3, <3>1 DEF BacklogInv, Run
  <2>5. DrainInv'
    BY <1>11, <1>d, <2>1, <2>2, <2>3 DEF CommitOffsets, DrainInv
  <2> QED
    BY <1>b, <1>e, <2>2, <2>3, <2>4, <2>5
<1>12. CASE Restart
  <2>1. /\ itemQueue' = <<>> /\ batch' = <<>> /\ Len(itemQueue') = 0 /\ Len(batch') = 0
        /\ itemQueue' \in Seq(Int) /\ batch' \in Seq(Int)
    BY <1>12 DEF Restart
  <2>2. /\ drainer' = "none" /\ ingress' = "idle" /\ position' = committed
        /\ UNCHANGED <<durable, committed>> /\ gs' = Running
    BY <1>12 DEF Restart
  <2>3. Running \in GsRecord /\ Running.state = "RUNNING"
    BY <1>a DEF Running, GsRecord
  <2>4. Flushed' = committed
    BY <1>b, <2>1, <2>2 DEF Flushed
  <2>5. BacklogInv'
    BY <1>b, <1>d, <2>1, <2>2, <2>4 DEF BacklogInv, Run
  <2>6. DrainInv'
    BY <2>1, <2>2, <2>3 DEF DrainInv
  <2> QED
    BY <1>b, <1>e, <2>2, <2>3, <2>5, <2>6
<1>13. CASE UNCHANGED gsVars
  <2>1. DrainInv'
    BY <1>13, <1>d DEF gsVars, DrainInv
  <2> QED
    BY <1>13, <1>b, <1>e, <1>f, <2>1 DEF gsVars
<1> QED
  BY <1>1, <1>2, <1>3, <1>4, <1>5, <1>6, <1>7, <1>8, <1>9, <1>10, <1>11, <1>12, <1>13
  DEF GsNext, GsDone

\* Zero data loss of drain_queue_and_flush, _restore_batch and the commit, for any
\* number of ticks, signals, refused or partial flushes, kills and restarts,
\* when the drain waits for an ingress callback that is past the gate.
THEOREM NothingIsLostInShutdown ==
  ASSUME IngressIsJoined
  PROVE  GsSpec => [](GsTypeOK /\ ShutdownLosesNothing)
<1>1. GsInv => GsTypeOK
  BY DEF GsInv
<1> QED
  BY <1>1, GsInvLosesNothing, GsInvInit, GsInvStep, PTL DEF GsSpec

-----------------------------------------------------------------------------
\* The types of a frame and of the recovery manager's record.
FrameType == [symbol : Feeds, seq : Int]

WsRecord == [state : {"DISCONNECTED", "SUBSCRIBED", "RECOVERING_GAP", "STREAMING"},
             attempts : Nat, seen : [Feeds -> NoSeq..MaxSeqId], unsynced : SUBSET Feeds]

WsTyped ==
  /\ ws \in WsRecord
  /\ wsBudget \in [drops : 0..MaxDrops, frames : Nat] /\ ws.attempts <= wsBudget.drops
  /\ published \in [Feeds -> (-1)..MaxSeqId]
  /\ book \in [Feeds -> NoSeq..MaxSeqId] /\ rebuilding \in [Feeds -> NoSeq..MaxSeqId]
  /\ inHand \in Seq(FrameType)

\* What the reader holds is a run of one symbol that is not latched, ends at its
\* watermark and continues its book, if it has one.
HandInv ==
  inHand # <<>> =>
    \E s \in Feeds \ ws.unsynced :
      /\ \A i \in 1..Len(inHand) : inHand[i] = Frame(s, ws.seen[s] - Len(inHand) + i)
      /\ book[s] \in {NoSeq, ws.seen[s] - Len(inHand)}

\* A snapshot that is not announced yet belongs to a latched symbol's book.
RebuildInv ==
  \A s \in Feeds : rebuilding[s] # NoSeq => s \in ws.unsynced /\ book[s] = rebuilding[s]

WsInv == WsTyped /\ HandInv /\ RebuildInv /\ BookIsWhole

\* Frames are frames, and a function over an initial range of numbers is a sequence.
LEMMA FrameTypes ==
  /\ \A s \in Feeds, n \in Int : Frame(s, n) \in FrameType
  /\ \A s \in Feeds, n \in Int : Frame(s, n).symbol = s /\ Frame(s, n).seq = n
  /\ \A n \in Nat : \A f \in [1..n -> FrameType] : f \in Seq(FrameType)
<1>1. \A n \in Nat : \A f \in [1..n -> FrameType] : f \in Seq(FrameType)
  BY SeqDef
<1> QED
  BY <1>1 DEF Frame, FrameType

\* Whatever the gap fill answers is a sequence of frames.
LEMMA FillTypes ==
  ASSUME NEW s \in Feeds, NEW first \in Int, NEW last \in Int, first <= last,
         NEW f \in FillAnswers(s, first, last)
  PROVE  f \in Seq(FrameType)
<1>1. ASSUME NEW o \in Feeds, NEW lo \in Int, NEW k \in Nat
      PROVE  [i \in 1..k |-> Frame(o, lo + i - 1)] \in Seq(FrameType)
  <2>1. [i \in 1..k |-> Frame(o, lo + i - 1)] \in [1..k -> FrameType]
    BY FrameTypes
  <2> QED
    BY <2>1, FrameTypes
<1> DEFINE range(lo, hi) == [i \in 1..(hi - lo + 1) |-> Frame(s, lo + i - 1)]
<1>2. \A lo, hi \in Int : lo <= hi + 1 => range(lo, hi) \in Seq(FrameType)
  <2> SUFFICES ASSUME NEW lo \in Int, NEW hi \in Int, lo <= hi + 1
               PROVE  range(lo, hi) \in Seq(FrameType)
    OBVIOUS
  <2>1. hi - lo + 1 \in Nat
    OBVIOUS
  <2> QED
    BY <2>1, <1>1
<1>3. <<>> \in Seq(FrameType)
  OBVIOUS
<1>4. \A o \in Feeds : [i \in 1..(last - first + 1) |-> Frame(o, first + i - 1)] \in Seq(FrameType)
  <2>1. last - first + 1 \in Nat
    OBVIOUS
  <2> QED
    BY <2>1, <1>1
<1>5. \/ f \in {range(first, last), range(first, last - 1), range(first + 1, last),
                range(first - 1, last - 1), <<>>}
      \/ \E o \in Feeds : f = [i \in 1..(last - first + 1) |-> Frame(o, first + i - 1)]
  BY DEF FillAnswers
<1>6. /\ range(first, last) \in Seq(FrameType) /\ range(first, last - 1) \in Seq(FrameType)
      /\ range(first + 1, last) \in Seq(FrameType)
      /\ range(first - 1, last - 1) \in Seq(FrameType)
  <2>1. /\ last - 1 \in Int /\ first + 1 \in Int /\ first - 1 \in Int
        /\ first <= last + 1 /\ first <= (last - 1) + 1 /\ first + 1 <= last + 1
        /\ first - 1 <= (last - 1) + 1
    OBVIOUS
  <2> HIDE DEF range
  <2>2. range(first, last) \in Seq(FrameType)
    BY <1>2, <2>1
  <2>3. range(first, last - 1) \in Seq(FrameType)
    BY <1>2, <2>1
  <2>4. range(first + 1, last) \in Seq(FrameType)
    BY <1>2, <2>1
  <2>5. range(first - 1, last - 1) \in Seq(FrameType)
    BY <1>2, <2>1
  <2> QED
    BY <2>2, <2>3, <2>4, <2>5
<1> HIDE DEF range
<1> QED
  BY <1>3, <1>4, <1>5, <1>6

\* Letting a message through, after a run that ends just before it and begins just
\* after the watermark, keeps the invariant.
LEMMA EmitKeeps ==
  ASSUME WsInv, NEW s \in Feeds, s \notin ws.unsynced, NEW n \in 0..MaxSeqId,
         NEW recovered \in Seq(FrameType), inHand = <<>>,
         \A i \in 1..Len(recovered) : recovered[i] = Frame(s, n - Len(recovered) - 1 + i),
         ws.seen[s] \in {NoSeq, n - Len(recovered) - 1},
         EmitThrough(s, n, recovered),
         wsBudget' = [wsBudget EXCEPT !.frames = @ + 1],
         UNCHANGED <<published, book, rebuilding, torn>>
  PROVE  WsInv'
<1>a. /\ ws \in WsRecord /\ book \in [Feeds -> NoSeq..MaxSeqId] /\ ws.unsynced \subseteq Feeds
      /\ ws.seen \in [Feeds -> NoSeq..MaxSeqId] /\ MaxSeqId \in Nat /\ NoSeq \in Int
      /\ NoSeq < 0
  BY SMTT(30), WsAssumption DEF WsInv, WsTyped, WsRecord, NoSeq
<1>1. /\ ws' = [ws EXCEPT !.seen[s] = n, !.state = "STREAMING", !.attempts = 0]
      /\ inHand' = Append(recovered, Frame(s, n))
  BY DEF EmitThrough
<1>2. /\ ws' \in WsRecord /\ ws'.unsynced = ws.unsynced /\ ws'.attempts = 0
      /\ ws'.seen = [ws.seen EXCEPT ![s] = n]
  <2>1. n \in NoSeq..MaxSeqId
    BY <1>a
  <2> QED
    BY <1>a, <1>1, <2>1 DEF WsRecord
<1>3. ws'.seen[s] = n /\ \A q \in Feeds : q # s => ws'.seen[q] = ws.seen[q]
  BY <1>a, <1>2
<1>4. /\ inHand' \in Seq(FrameType) /\ Len(inHand') = Len(recovered) + 1
      /\ Len(recovered) \in Nat /\ inHand' # <<>>
      /\ \A i \in 1..Len(recovered) : inHand'[i] = recovered[i]
      /\ inHand'[Len(recovered) + 1] = Frame(s, n)
  BY <1>1, FrameTypes, AppendProperties
<1>5. \A i \in 1..Len(inHand') : inHand'[i] = Frame(s, n - Len(inHand') + i)
  <2> SUFFICES ASSUME NEW i \in 1..Len(inHand')
               PROVE  inHand'[i] = Frame(s, n - Len(inHand') + i)
    OBVIOUS
  <2>1. CASE i \in 1..Len(recovered)
    <3>1. n - Len(recovered) - 1 + i = n - Len(inHand') + i
      BY <2>1, <1>4
    <3> QED
      BY <2>1, <3>1, <1>4
  <2>2. CASE i = Len(recovered) + 1
    <3>1. n - Len(inHand') + i = n
      BY <2>2, <1>4
    <3> QED
      BY <2>2, <3>1, <1>4
  <2> QED
    BY <2>1, <2>2, <1>4
<1>6. book'[s] \in {NoSeq, n - Len(inHand')}
  <2>1. book[s] = ws.seen[s]
    BY DEF WsInv, BookIsWhole
  <2>2. n - Len(inHand') = n - Len(recovered) - 1
    BY <1>4
  <2> QED
    BY <2>1, <2>2
<1>7. HandInv'
  <2>1. s \in Feeds \ ws'.unsynced
    BY <1>2
  <2> QED
    BY <1>3, <1>5, <1>6, <2>1 DEF HandInv, Frame
<1>8. RebuildInv'
  BY <1>2 DEF WsInv, RebuildInv
<1>9. BookIsWhole'
  <2>1. ~torn'
    BY DEF WsInv, BookIsWhole
  <2>2. inHand'[Len(inHand')].symbol = s /\ Len(inHand') \in DOMAIN inHand'
    BY <1>4, FrameTypes
  <2>3. \A q \in Feeds \ ws.unsynced : book[q] = ws.seen[q]
    BY DEF WsInv, BookIsWhole
  <2> QED
    BY <1>2, <1>3, <2>1, <2>2, <2>3 DEF BookIsWhole
<1>10. WsTyped'
  <2>1. wsBudget' \in [drops : 0..MaxDrops, frames : Nat] /\ ws'.attempts <= wsBudget'.drops
    <3>1. wsBudget \in [drops : 0..MaxDrops, frames : Nat] /\ MaxDrops \in Nat
      BY WsAssumption DEF WsInv, WsTyped
    <3>2. wsBudget' \in [drops : 0..MaxDrops, frames : Nat]
      BY SMTT(30), <3>1
    <3>3. wsBudget'.drops \in Nat
      BY <3>1, <3>2
    <3> QED
      BY <1>2, <3>2, <3>3
  <2> QED
    BY <1>2, <1>4, <2>1 DEF WsInv, WsTyped
<1> QED
  BY <1>7, <1>8, <1>9, <1>10 DEF WsInv

\* Latching a symbol while the reader holds nothing keeps the invariant.
LEMMA LatchKeeps ==
  ASSUME WsInv, NEW s \in Feeds, inHand = <<>>, ws' = Latch(ws, s),
         wsBudget' = [wsBudget EXCEPT !.frames = @ + 1],
         UNCHANGED <<published, inHand, book, rebuilding, torn>>
  PROVE  WsInv'
<1>1. /\ ws' \in WsRecord /\ ws'.unsynced = ws.unsynced \cup {s}
      /\ ws'.seen = ws.seen /\ ws'.attempts = ws.attempts
  BY DEF WsInv, WsTyped, WsRecord, Latch
<1>2. WsTyped'
  <2>1. wsBudget' \in [drops : 0..MaxDrops, frames : Nat] /\ ws'.attempts <= wsBudget'.drops
    BY <1>1 DEF WsInv, WsTyped
  <2> QED
    BY <1>1, <2>1 DEF WsInv, WsTyped
<1>3. HandInv' /\ RebuildInv'
  BY <1>1 DEF WsInv, HandInv, RebuildInv
<1>4. BookIsWhole'
  BY <1>1 DEF WsInv, BookIsWhole
<1> QED
  BY <1>2, <1>3, <1>4 DEF WsInv

\* process_incoming_message keeps the invariant, whatever frame arrives and
\* whatever the gap fill answers.
LEMMA ProcessKeeps ==
  ASSUME WsInv, NEW s \in Feeds, NEW n \in 0..MaxSeqId, ProcessIncoming(s, n)
  PROVE  WsInv'
<1> DEFINE last == ws.seen[s]
<1>a. /\ inHand = <<>> /\ wsBudget' = [wsBudget EXCEPT !.frames = @ + 1]
      /\ UNCHANGED <<published, book, rebuilding, torn>>
  BY DEF ProcessIncoming
<1>b. last \in Int /\ NoSeq \in Int /\ n \in Int /\ MaxSeqId \in Nat
  BY WsAssumption DEF WsInv, WsTyped, WsRecord, NoSeq
<1>c. <<>> \in Seq(FrameType) /\ Len(<<>>) = 0
  OBVIOUS
<1>1. CASE UNCHANGED <<ws, inHand>>
  <2>1. wsBudget' \in [drops : 0..MaxDrops, frames : Nat] /\ wsBudget'.drops = wsBudget.drops
    BY SMTT(30), <1>a DEF WsInv, WsTyped
  <2>2. WsTyped'
    BY <1>1, <1>a, <2>1 DEF WsInv, WsTyped
  <2>3. HandInv' /\ RebuildInv'
    BY <1>1, <1>a DEF WsInv, HandInv, RebuildInv
  <2>4. BookIsWhole'
    BY <1>1, <1>a DEF WsInv, BookIsWhole
  <2> QED
    BY <2>2, <2>3, <2>4 DEF WsInv
<1>2. CASE s \notin ws.unsynced /\ (last = NoSeq \/ n = last + 1) /\ EmitThrough(s, n, <<>>)
  <2>1. last \in {NoSeq, n - Len(<<>>) - 1}
    BY <1>2, <1>b, <1>c
  <2>2. \A i \in 1..Len(<<>>) : <<>>[i] = Frame(s, n - Len(<<>>) - 1 + i)
    BY <1>c
  <2> QED
    BY <1>2, <1>a, <1>c, <2>1, <2>2, EmitKeeps
<1>3. CASE ws' = Latch(ws, s) /\ UNCHANGED inHand
  BY <1>3, <1>a, LatchKeeps
<1>4. CASE s \notin ws.unsynced /\ last # NoSeq /\ n > last + 1 /\
           \E fetched \in FillAnswers(s, last + 1, n - 1) :
             ValidFill(fetched, s, last + 1, n - 1) /\ EmitThrough(s, n, fetched)
  <2>1. PICK fetched \in FillAnswers(s, last + 1, n - 1) :
               ValidFill(fetched, s, last + 1, n - 1) /\ EmitThrough(s, n, fetched)
    BY <1>4
  <2>2. fetched \in Seq(FrameType)
    <3>1. last + 1 \in Int /\ n - 1 \in Int /\ last + 1 <= n - 1
      BY <1>4, <1>b
    <3> QED
      BY <3>1, FillTypes
  <2>3. Len(fetched) = n - 1 - last /\ DOMAIN fetched = 1..Len(fetched)
    BY <1>b, <2>1, <2>2 DEF ValidFill
  <2>4. \A i \in 1..Len(fetched) : fetched[i] = Frame(s, n - Len(fetched) - 1 + i)
    <3>1. \A i \in 1..Len(fetched) : fetched[i] = Frame(s, (last + 1) + i - 1)
      BY <2>1, <2>3 DEF ValidFill
    <3>2. \A i \in 1..Len(fetched) : (last + 1) + i - 1 = n - Len(fetched) - 1 + i
      BY SMTT(30), <1>b, <2>3
    <3> QED
      BY <3>1, <3>2
  <2>5. last \in {NoSeq, n - Len(fetched) - 1}
    BY SMTT(30), <1>b, <2>3
  <2> QED
    BY <1>4, <1>a, <2>1, <2>2, <2>4, <2>5, EmitKeeps
<1> QED
  BY <1>1, <1>2, <1>3, <1>4 DEF ProcessIncoming

\* Applying what the reader holds keeps the invariant: it is the next run.
LEMMA ApplyKeeps ==
  ASSUME WsInv, ApplyInHand
  PROVE  WsInv'
<1>1. PICK s \in Feeds \ ws.unsynced :
             /\ \A i \in 1..Len(inHand) : inHand[i] = Frame(s, ws.seen[s] - Len(inHand) + i)
             /\ book[s] \in {NoSeq, ws.seen[s] - Len(inHand)}
  BY DEF WsInv, HandInv, ApplyInHand
<1>a. /\ ws \in WsRecord /\ ws.seen[s] \in NoSeq..MaxSeqId /\ ws.seen[s] \in Int
      /\ book \in [Feeds -> NoSeq..MaxSeqId]
      /\ inHand \in Seq(FrameType) /\ inHand # <<>> /\ NoSeq \in Int
  BY SMTT(30), WsAssumption DEF WsInv, WsTyped, WsRecord, ApplyInHand, NoSeq
<1>b. Len(inHand) \in Nat /\ Len(inHand) >= 1 /\ DOMAIN inHand = 1..Len(inHand)
  BY <1>a, EmptySeq
<1> DEFINE base == ws.seen[s] - Len(inHand)
<1>2. \A i \in 1..Len(inHand) : inHand[i].symbol = s /\ inHand[i].seq = base + i
  BY SMTT(30), <1>1, <1>a, <1>b, FrameTypes
<1>3. inHand[Len(inHand)].symbol = s /\ inHand[Len(inHand)].seq = ws.seen[s]
  BY <1>2, <1>a, <1>b
<1>4. /\ book' = [book EXCEPT ![s] = ws.seen[s]] /\ inHand' = <<>>
      /\ UNCHANGED <<ws, published, rebuilding, wsBudget>>
  BY <1>3 DEF ApplyInHand
<1>5. ~torn'
  <2>1. \A i \in 1..Len(inHand) : inHand[i].symbol = s
    BY <1>2
  <2>2. \A i \in 1..Len(inHand) : ~(i > 1 /\ inHand[i].seq # inHand[i - 1].seq + 1)
    <3> SUFFICES ASSUME NEW i \in 1..Len(inHand), i > 1
                 PROVE  inHand[i].seq = inHand[i - 1].seq + 1
      OBVIOUS
    <3>1. i - 1 \in 1..Len(inHand) /\ base \in Int
      BY <1>a, <1>b
    <3>2. inHand[i].seq = base + i /\ inHand[i - 1].seq = base + (i - 1)
      BY <3>1, <1>2
    <3> HIDE DEF base
    <3> QED
      BY <3>1, <3>2
  <2>3. ~(book[s] # NoSeq /\ inHand[1].seq # book[s] + 1)
    BY <1>1, <1>2, <1>b
  <2>4. ~torn
    BY DEF WsInv, BookIsWhole
  <2>5. torn' = (torn \/ \E i \in DOMAIN inHand :
                   \/ inHand[i].symbol # s
                   \/ i > 1 /\ inHand[i].seq # inHand[i - 1].seq + 1
                   \/ i = 1 /\ book[s] # NoSeq /\ inHand[i].seq # book[s] + 1)
    BY <1>3 DEF ApplyInHand
  <2> QED
    BY <1>b, <2>1, <2>2, <2>3, <2>4, <2>5
<1>6. book' \in [Feeds -> NoSeq..MaxSeqId] /\ book'[s] = ws.seen[s]
      /\ \A q \in Feeds : q # s => book'[q] = book[q]
  BY <1>a, <1>4
<1>7. WsTyped'
  <2>1. inHand' \in Seq(FrameType)
    <3>1. <<>> \in Seq(FrameType)
      OBVIOUS
    <3> QED
      BY <3>1, <1>4
  <2> QED
    BY <1>4, <1>6, <2>1 DEF WsInv, WsTyped
<1>8. HandInv'
  BY <1>4 DEF HandInv
<1>9. RebuildInv'
  BY <1>4, <1>6 DEF WsInv, RebuildInv
<1>10. BookIsWhole'
  <2>1. \A q \in Feeds \ ws.unsynced : q # s => book[q] = ws.seen[q]
    BY <1>2, <1>b DEF WsInv, BookIsWhole
  <2> QED
    BY <1>4, <1>5, <1>6, <2>1 DEF BookIsWhole
<1> QED
  BY <1>7, <1>8, <1>9, <1>10 DEF WsInv

\* Every step keeps the invariant.
LEMMA WsInvStep == WsInv /\ [WsNext]_wsVars => WsInv'
<1> SUFFICES ASSUME WsInv, [WsNext]_wsVars PROVE WsInv'
  OBVIOUS
<1>a. /\ WsTyped /\ ws \in WsRecord /\ ws.unsynced \subseteq Feeds
      /\ MaxSeqId \in Nat /\ NoSeq \in Int /\ NoSeq < -1 /\ MaxDrops \in Nat
  BY WsAssumption, SMTT(30) DEF WsInv, WsTyped, WsRecord, NoSeq
<1>b. ASSUME ws' \in WsRecord, ws'.unsynced = ws.unsynced, ws'.seen = ws.seen,
             UNCHANGED <<inHand, book, rebuilding, torn>>, WsTyped'
      PROVE  WsInv'
  <2>1. HandInv' /\ RebuildInv'
    BY <1>b DEF WsInv, HandInv, RebuildInv
  <2>2. BookIsWhole'
    BY <1>b DEF WsInv, BookIsWhole
  <2> QED
    BY <1>b, <2>1, <2>2 DEF WsInv
<1>1. ASSUME NEW s \in Feeds, Publish(s) PROVE WsInv'
  <2>1. published' \in [Feeds -> (-1)..MaxSeqId]
    BY <1>1, <1>a DEF Publish, WsTyped
  <2>2. UNCHANGED <<ws, inHand, book, rebuilding, torn, wsBudget>>
    BY <1>1 DEF Publish
  <2>3. WsTyped'
    BY <1>a, <2>1, <2>2 DEF WsTyped
  <2> QED
    BY <1>a, <1>b, <2>2, <2>3
<1>2. ASSUME NEW scheduled \in BOOLEAN, OnConnectionLost(scheduled) PROVE WsInv'
  <2>1. /\ ws' \in WsRecord /\ ws'.unsynced = ws.unsynced /\ ws'.seen = ws.seen
        /\ ws'.attempts \in {ws.attempts, ws.attempts + 1}
    <3> DEFINE a == IF scheduled THEN ws.attempts ELSE ws.attempts + 1
    <3>1. ws' = [ws EXCEPT !.state = "DISCONNECTED", !.attempts = a]
      BY <1>2 DEF OnConnectionLost
    <3>2. a \in Nat /\ a \in {ws.attempts, ws.attempts + 1}
      BY <1>a DEF WsRecord
    <3> HIDE DEF a
    <3> QED
      BY <1>a, <3>1, <3>2 DEF WsRecord
  <2>2. /\ wsBudget' \in [drops : 0..MaxDrops, frames : Nat]
        /\ wsBudget'.drops = wsBudget.drops + 1
    BY SMTT(30), <1>2, <1>a DEF OnConnectionLost, WsTyped
  <2>3. ws'.attempts <= wsBudget'.drops
    <3>1. ws.attempts \in Nat /\ wsBudget.drops \in Nat /\ ws.attempts <= wsBudget.drops
      BY <1>a DEF WsTyped, WsRecord
    <3> QED
      BY <2>1, <2>2, <3>1
  <2>4. UNCHANGED <<published, inHand, book, rebuilding, torn>>
    BY <1>2 DEF OnConnectionLost
  <2>5. WsTyped'
    BY <1>a, <2>1, <2>2, <2>3, <2>4 DEF WsTyped
  <2> QED
    BY <1>b, <2>1, <2>4, <2>5
<1>3. CASE OnConnectionEstablished
  <2>1. /\ ws' \in WsRecord /\ ws'.unsynced = ws.unsynced /\ ws'.seen = ws.seen
        /\ ws'.attempts = ws.attempts
    BY <1>3, <1>a DEF OnConnectionEstablished, WsRecord
  <2>2. UNCHANGED <<published, inHand, book, rebuilding, torn, wsBudget>>
    BY <1>3 DEF OnConnectionEstablished
  <2>3. WsTyped'
    BY <1>a, <2>1, <2>2 DEF WsTyped
  <2> QED
    BY <1>b, <2>1, <2>2, <2>3
<1>4. ASSUME NEW s \in Feeds, NEW n \in 0..MaxSeqId, ProcessIncoming(s, n) PROVE WsInv'
  BY <1>4, ProcessKeeps
<1>5. CASE ApplyInHand
  BY <1>5, ApplyKeeps
<1>6. ASSUME NEW s \in Feeds, LoadSnapshot(s) PROVE WsInv'
  <2>1. PICK p \in 0..published[s] : /\ book' = [book EXCEPT ![s] = p]
                                     /\ rebuilding' = [rebuilding EXCEPT ![s] = p]
    BY <1>6 DEF LoadSnapshot
  <2>2. s \in ws.unsynced /\ UNCHANGED <<ws, published, inHand, torn, wsBudget>>
    BY <1>6 DEF LoadSnapshot
  <2>3. p \in NoSeq..MaxSeqId
    BY <1>a, <2>1 DEF WsTyped
  <2>4. /\ book' \in [Feeds -> NoSeq..MaxSeqId] /\ rebuilding' \in [Feeds -> NoSeq..MaxSeqId]
        /\ book'[s] = p /\ rebuilding'[s] = p
        /\ \A q \in Feeds : q # s => book'[q] = book[q] /\ rebuilding'[q] = rebuilding[q]
    BY <1>a, <2>1, <2>3 DEF WsTyped
  <2>5. WsTyped'
    BY <1>a, <2>2, <2>4 DEF WsTyped
  <2>6. RebuildInv'
    BY <2>2, <2>4 DEF WsInv, RebuildInv
  <2>7. HandInv' /\ BookIsWhole'
    <3>1. \A q \in Feeds \ ws.unsynced : book'[q] = book[q]
      BY <2>2, <2>4
    <3> QED
      BY <2>2, <3>1 DEF WsInv, HandInv, BookIsWhole
  <2> QED
    BY <2>5, <2>6, <2>7 DEF WsInv
<1>7. ASSUME NEW s \in Feeds, Resynchronize(s) PROVE WsInv'
  <2>1. /\ rebuilding[s] # NoSeq /\ rebuilding' = [rebuilding EXCEPT ![s] = NoSeq]
        /\ UNCHANGED <<published, inHand, book, torn, wsBudget>>
    BY <1>7 DEF Resynchronize
  <2>2. s \in ws.unsynced /\ book[s] = rebuilding[s]
    BY <2>1 DEF WsInv, RebuildInv
  <2>3. /\ ws' \in WsRecord /\ ws'.unsynced = ws.unsynced \ {s}
        /\ ws'.seen = [ws.seen EXCEPT ![s] = rebuilding[s]] /\ ws'.attempts = ws.attempts
    BY <1>7, <1>a DEF Resynchronize, WsRecord, WsTyped
  <2>4. /\ ws'.seen[s] = book[s]
        /\ \A q \in Feeds : q # s => ws'.seen[q] = ws.seen[q]
    BY <1>a, <2>2, <2>3 DEF WsRecord
  <2>5. /\ rebuilding' \in [Feeds -> NoSeq..MaxSeqId] /\ rebuilding'[s] = NoSeq
        /\ \A q \in Feeds : q # s => rebuilding'[q] = rebuilding[q]
    BY <1>a, <2>1 DEF WsTyped
  <2>6. WsTyped'
    BY <1>a, <2>1, <2>3, <2>5 DEF WsTyped
  <2>7. RebuildInv'
    BY <2>1, <2>3, <2>5 DEF WsInv, RebuildInv
  <2>8. HandInv'
    <3>1. \A q \in Feeds \ ws.unsynced : q # s /\ q \in Feeds \ ws'.unsynced
      BY <2>2, <2>3
    <3> QED
      BY <2>1, <2>4, <3>1 DEF WsInv, HandInv
  <2>9. BookIsWhole'
    BY <2>1, <2>3, <2>4 DEF WsInv, BookIsWhole
  <2> QED
    BY <2>6, <2>7, <2>8, <2>9 DEF WsInv
<1>8. CASE UNCHANGED wsVars
  BY <1>8, <1>a, <1>b DEF wsVars, WsTyped
<1> QED
  BY <1>1, <1>2, <1>3, <1>4, <1>5, <1>6, <1>7, <1>8 DEF WsNext, WsDone

\* A book never has a hole or a repetition, and a symbol that is not latched has its
\* book at its watermark, for any number of symbols, frames and reconnects, any
\* order of arrival and any answer of the gap fill.
THEOREM BooksAreWhole == WsSpec => [](WsTypeOK /\ BookIsWhole)
<1>1. WsInit => WsInv
  <2> SUFFICES ASSUME WsInit PROVE WsInv
    OBVIOUS
  <2>1. inHand = <<>> /\ <<>> \in Seq(FrameType) /\ ~torn
    BY DEF WsInit
  <2>2. /\ ws = [state |-> "DISCONNECTED", attempts |-> 0, seen |-> [s \in Feeds |-> NoSeq],
                 unsynced |-> {}]
        /\ published = [s \in Feeds |-> -1]
        /\ book = [s \in Feeds |-> NoSeq] /\ rebuilding = [s \in Feeds |-> NoSeq]
        /\ wsBudget = [drops |-> 0, frames |-> 0]
    BY DEF WsInit
  <2>3. NoSeq \in NoSeq..MaxSeqId /\ -1 \in (-1)..MaxSeqId /\ MaxDrops \in Nat
    BY WsAssumption DEF NoSeq
  <2>4. ws \in WsRecord /\ ws.attempts = 0 /\ ws.seen = [s \in Feeds |-> NoSeq]
    BY <2>2, <2>3 DEF WsRecord
  <2>5. wsBudget \in [drops : 0..MaxDrops, frames : Nat] /\ ws.attempts <= wsBudget.drops
    BY <2>2, <2>3, <2>4
  <2>6. WsTyped
    BY <2>1, <2>2, <2>3, <2>4, <2>5 DEF WsTyped
  <2>7. HandInv /\ RebuildInv /\ BookIsWhole
    BY <2>1, <2>2, <2>4 DEF HandInv, RebuildInv, BookIsWhole
  <2> QED
    BY <2>6, <2>7 DEF WsInv
<1>2. WsInv => WsTypeOK /\ BookIsWhole
  BY WsAssumption DEF WsInv, WsTyped, WsRecord, WsTypeOK
<1> QED
  BY <1>1, <1>2, WsInvStep, PTL DEF WsSpec
==============================================================================
