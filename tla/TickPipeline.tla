---------------------------- MODULE TickPipeline -----------------------------
(***************************************************************************)
(* SymbolPartitionedTickPipeline: a broker's callback thread and the event *)
(* loop itself submit ticks, each symbol goes to one bounded queue, one    *)
(* worker task consumes each queue, and the pipeline is stopped, with a    *)
(* drain or without, and started again on the same loop.                   *)
(*                                                                         *)
(* Code on the event loop is atomic between awaits, so a worker's turn     *)
(* from the end of one tick to the start of the next is one step.  The     *)
(* foreign thread is interrupted between its lock regions.                 *)
(***************************************************************************)
EXTENDS Integers, Sequences, FiniteSets, FiniteSetsExt

CONSTANTS
  Symbols,
  TickWorkers,
  Partition,            \* _get_worker_index: a stable hash of the symbol
  QueueSize,            \* maxsize_per_worker
  MaxPendingHandoffs,   \* max_pending_handoffs
  NoTick, ShutDown,     \* nothing, and the sentinel _SHUTDOWN
  MaxTicks, MaxStarts   \* bounds: ticks submitted, calls of start_consumers

\* A tick: its symbol, its place in the order of submission, who submitted it,
\* and the start of the pipeline it was submitted to, 0 if it was not started.
TickType == [symbol : Symbols, n : Nat, by : {"loop", "thread"}, start : Nat]

ASSUME TickAssumption ==
  /\ Partition \in [Symbols -> TickWorkers]
  /\ QueueSize \in Nat \ {0} /\ MaxPendingHandoffs \in Nat \ {0}
  /\ MaxTicks \in Nat /\ MaxStarts \in Nat
  /\ NoTick \notin TickType /\ ShutDown \notin TickType

VARIABLES
  queue,       \* worker_queues
  task,        \* worker_tasks: what each task does, and the tick in its hands
  running,     \* _running
  loopSet,     \* _loop is not None
  loopClosed,  \* the event loop is gone for good
  pending,     \* _pending_handoffs
  posted,      \* callbacks scheduled on the loop, in order
  thread,      \* the foreign thread: its step and its tick
  stopping,    \* stop_consumers: its step, the sentinels it put, whether the wait timed out
  metrics,
  starts,
  begun,       \* observer: the ticks each worker took, in order
  lost,        \* observer: ticks in the hands of a cancelled task
  due,         \* observer: what was queued or in work when a drain began
  stale        \* observer: a sentinel was left in a queue by a stop

tickVars == <<queue, task, running, loopSet, loopClosed, pending, posted, thread, stopping,
              metrics, starts, begun, lost, due, stale>>

NoTask == [pc |-> "none", tick |-> NoTick]
NoStop == [pc |-> "no", drain |-> FALSE, sentinels |-> {}, timedOut |-> FALSE]

TickInit ==
  /\ queue = [w \in TickWorkers |-> <<>>]
  /\ task = [w \in TickWorkers |-> NoTask]
  /\ running = FALSE /\ loopSet = FALSE /\ loopClosed = FALSE
  /\ pending = 0 /\ posted = <<>>
  /\ thread = [pc |-> "idle", tick |-> NoTick]
  /\ stopping = NoStop
  /\ metrics = [received |-> 0, processed |-> 0, failed |-> 0, dropped |-> 0, undrained |-> 0]
  /\ starts = 0
  /\ begun = [w \in TickWorkers |-> <<>>]
  /\ lost = {} /\ due = {} /\ stale = FALSE

consumerVars == <<task, running, loopSet, loopClosed, stopping, starts, begun, lost, due, stale>>

-----------------------------------------------------------------------------
\* The tick that on_message is handed, the next in the order of submission.
NewTick(symbol, by) ==
  [symbol |-> symbol, n |-> metrics.received + 1, by |-> by,
   start |-> IF loopSet THEN starts ELSE 0]

Full(w) == Len(queue[w]) >= QueueSize

\* Mutant: ticks go to the shortest queue.
WorkerOfShortest(t) ==
  CHOOSE w \in TickWorkers : \A v \in TickWorkers : Len(queue[w]) <= Len(queue[v])

\* The worker a tick belongs to.
WorkerOf(t) == Partition[t.symbol]

\* Mutant: a full queue swallows the tick without counting it.
EnqueueUncounted(t, m) ==
  /\ queue' = IF Full(WorkerOf(t)) THEN queue
              ELSE [queue EXCEPT ![WorkerOf(t)] = Append(@, t)]
  /\ metrics' = m

\* _enqueue, with m the metrics so far: the tick joins its queue or is dropped.
Enqueue(t, m) ==
  IF Full(WorkerOf(t)) THEN metrics' = [m EXCEPT !.dropped = @ + 1] /\ UNCHANGED queue
  ELSE queue' = [queue EXCEPT ![WorkerOf(t)] = Append(@, t)] /\ metrics' = m

\* on_message on the event loop.
OnMessageInLoop(symbol) ==
  /\ ~loopClosed /\ metrics.received < MaxTicks
  /\ Enqueue(NewTick(symbol, "loop"), [metrics EXCEPT !.received = @ + 1])
  /\ UNCHANGED <<pending, posted, thread, consumerVars>>

\* on_message on the foreign thread: the tick is counted, then _loop is looked at.
OnMessage(symbol) ==
  /\ thread.pc = "idle" /\ metrics.received < MaxTicks
  /\ metrics' = [metrics EXCEPT !.received = @ + 1]
  /\ thread' = [pc |-> IF loopSet THEN "handoff" ELSE "direct",
                tick |-> NewTick(symbol, "thread")]
  /\ UNCHANGED <<queue, pending, posted, consumerVars>>

ThreadDone == thread' = [pc |-> "idle", tick |-> NoTick]

\* It saw no loop and enqueues by itself.
EnqueueDirect ==
  /\ thread.pc = "direct"
  /\ Enqueue(thread.tick, metrics)
  /\ ThreadDone
  /\ UNCHANGED <<pending, posted, consumerVars>>

\* _handoff under the lock: stopped meanwhile, buffer full, or a place reserved.
Handoff ==
  /\ thread.pc = "handoff"
  /\ IF ~loopSet \/ pending >= MaxPendingHandoffs
     THEN ThreadDone /\ metrics' = [metrics EXCEPT !.dropped = @ + 1] /\ UNCHANGED pending
     ELSE /\ thread' = [thread EXCEPT !.pc = "post"]
          /\ pending' = pending + 1
          /\ UNCHANGED metrics
  /\ UNCHANGED <<queue, posted, consumerVars>>

\* call_soon_threadsafe; it raises when the loop has been closed.
Post ==
  /\ thread.pc = "post"
  /\ ThreadDone
  /\ IF loopClosed
     THEN /\ pending' = pending - 1
          /\ metrics' = [metrics EXCEPT !.dropped = @ + 1]
          /\ UNCHANGED posted
     ELSE posted' = Append(posted, thread.tick) /\ UNCHANGED <<pending, metrics>>
  /\ UNCHANGED <<queue, consumerVars>>

\* _enqueue_from_handoff, a callback of the loop.
EnqueueFromHandoff ==
  /\ posted # <<>> /\ ~loopClosed
  /\ posted' = Tail(posted)
  /\ pending' = pending - 1
  /\ Enqueue(Head(posted), metrics)
  /\ UNCHANGED <<thread, consumerVars>>

-----------------------------------------------------------------------------
\* Mutant: a worker that finds _running cleared leaves its queue as it is.
TakeNextWhileRunning(w) ==
  IF queue[w] = <<>> \/ ~running \/ Head(queue[w]) = ShutDown
  THEN /\ task' = [task EXCEPT ![w] = [pc |-> IF running THEN "get" ELSE "done",
                                       tick |-> NoTick]]
       /\ UNCHANGED <<queue, begun>>
  ELSE /\ queue' = [queue EXCEPT ![w] = Tail(@)]
       /\ task' = [task EXCEPT ![w] = [pc |-> "busy", tick |-> Head(queue[w])]]
       /\ begun' = [begun EXCEPT ![w] = Append(@, Head(queue[w]))]

\* The worker evaluates its loop condition and, if it goes on, takes what the
\* queue holds or waits.  The sentinel ends it.
TakeNext(w) ==
  IF queue[w] = <<>>
  THEN /\ task' = [task EXCEPT ![w] = [pc |-> IF running THEN "get" ELSE "done",
                                       tick |-> NoTick]]
       /\ UNCHANGED <<queue, begun>>
  ELSE /\ queue' = [queue EXCEPT ![w] = Tail(@)]
       /\ IF Head(queue[w]) = ShutDown
          THEN task' = [task EXCEPT ![w] = [pc |-> "done", tick |-> NoTick]] /\ UNCHANGED begun
          ELSE /\ task' = [task EXCEPT ![w] = [pc |-> "busy", tick |-> Head(queue[w])]]
               /\ begun' = [begun EXCEPT ![w] = Append(@, Head(queue[w]))]

workerFrame == <<running, loopSet, loopClosed, pending, posted, thread, stopping, starts,
                 lost, due, stale>>

\* A task starts, or its get returns.
WorkerTurn(w) ==
  /\ \/ task[w].pc = "new"
     \/ task[w].pc = "get" /\ queue[w] # <<>>
  /\ TakeNext(w)
  /\ UNCHANGED <<metrics, workerFrame>>

\* process_fn returns or raises; the worker goes on.
WorkerFinish(w) ==
  /\ task[w].pc = "busy"
  /\ \/ metrics' = [metrics EXCEPT !.processed = @ + 1]
     \/ metrics' = [metrics EXCEPT !.failed = @ + 1]
  /\ TakeNext(w)
  /\ UNCHANGED workerFrame

-----------------------------------------------------------------------------
\* start_consumers, not while a stop is under way.
StartConsumers ==
  /\ ~running /\ ~loopClosed /\ stopping.pc = "no" /\ starts < MaxStarts
  /\ running' = TRUE /\ loopSet' = TRUE
  /\ task' = [w \in TickWorkers |-> [pc |-> "new", tick |-> NoTick]]
  /\ starts' = starts + 1
  /\ UNCHANGED <<queue, loopClosed, pending, posted, thread, stopping, metrics, begun, lost,
                 due, stale>>

\* Every tick in a queue or in the hands of a worker.
Queued(w) == {t \in {queue[w][i] : i \in DOMAIN queue[w]} : t # ShutDown}
InHand == {task[w].tick : w \in TickWorkers} \ {NoTick}

\* stop_consumers up to the wait: a drain puts a sentinel where there is room.
StopConsumers(drain) ==
  /\ running /\ stopping.pc = "no"
  /\ running' = FALSE
  /\ LET room == IF drain THEN {w \in TickWorkers : ~Full(w)} ELSE {}
     IN  /\ queue' = [w \in TickWorkers |-> IF w \in room THEN Append(queue[w], ShutDown)
                                           ELSE queue[w]]
         /\ stopping' = [pc |-> IF drain THEN "wait" ELSE "count", drain |-> drain,
                         sentinels |-> room, timedOut |-> FALSE]
  /\ due' = (UNION {Queued(w) : w \in TickWorkers}) \cup InHand
  /\ UNCHANGED <<task, loopSet, loopClosed, pending, posted, thread, metrics, starts, begun,
                 lost, stale>>

AllDone == \A w \in TickWorkers : task[w].pc = "done"

\* The wait ends: every task is done, or drain_timeout has passed, which finds
\* the others in the middle of a tick.
WaitEnds ==
  /\ stopping.pc = "wait"
  /\ \A w \in TickWorkers : task[w].pc \in {"done", "busy"}
  /\ stopping' = [stopping EXCEPT !.pc = "count", !.timedOut = ~AllDone]
  /\ UNCHANGED <<queue, pending, posted, thread, metrics, task, running, loopSet, loopClosed,
                 starts, begun, lost, due, stale>>

\* What is left is counted, without the sentinels that were not consumed, and
\* the tasks are cancelled: a tick in the hands of one is gone.
CountAndCancel ==
  LET left(w) == Len(queue[w])
                 - (IF w \in stopping.sentinels /\ task[w].pc # "done" THEN 1 ELSE 0)
  IN
  /\ stopping.pc = "count"
  /\ metrics' = [metrics EXCEPT !.undrained = @ + MapThenSumSet(left, TickWorkers)]
  /\ task' = [w \in TickWorkers |-> [pc |-> "done", tick |-> NoTick]]
  /\ lost' = lost \cup InHand
  /\ stopping' = [stopping EXCEPT !.pc = "gather"]
  /\ UNCHANGED <<queue, running, loopSet, loopClosed, pending, posted, thread, starts, begun,
                 due, stale>>

\* After the gather, stop_consumers forgets the tasks and the loop.
StopEnds ==
  /\ stopping.pc = "gather"
  /\ task' = [w \in TickWorkers |-> NoTask]
  /\ loopSet' = FALSE
  /\ stopping' = NoStop
  /\ stale' = (stale \/ \E w \in TickWorkers : \E i \in DOMAIN queue[w] : queue[w][i] = ShutDown)
  /\ UNCHANGED <<queue, running, loopClosed, pending, posted, thread, metrics, starts, begun,
                 lost, due>>

\* EXTERNAL: the program closes the event loop of a stopped pipeline.
CloseLoop ==
  /\ ~loopSet /\ ~loopClosed /\ starts > 0
  /\ loopClosed' = TRUE
  /\ UNCHANGED <<queue, task, running, loopSet, pending, posted, thread, stopping, metrics,
                 starts, begun, lost, due, stale>>

TickDone ==
  /\ loopClosed /\ thread.pc = "idle"
  /\ UNCHANGED tickVars

TickNext ==
  \/ \E s \in Symbols : OnMessage(s) \/ OnMessageInLoop(s)
  \/ EnqueueDirect \/ Handoff \/ Post \/ EnqueueFromHandoff
  \/ \E w \in TickWorkers : WorkerTurn(w) \/ WorkerFinish(w)
  \/ StartConsumers \/ (\E drain \in BOOLEAN : StopConsumers(drain))
  \/ WaitEnds \/ CountAndCancel \/ StopEnds
  \/ CloseLoop \/ TickDone

TickSpec == TickInit /\ [][TickNext]_tickVars

-----------------------------------------------------------------------------
TickTypeOK ==
  /\ \A w \in TickWorkers : Len(queue[w]) <= QueueSize
  /\ task \in [TickWorkers -> [pc : {"none", "new", "get", "busy", "done"},
                               tick : InHand \cup {NoTick}]]
  /\ pending \in 0..MaxPendingHandoffs
  /\ stopping.pc \in {"no", "wait", "count", "gather"}

\* Every tick is somewhere, exactly once: processed, failed, dropped and counted,
\* queued, on its way between the threads, in the hands of a worker, or cancelled
\* with it; whatever stops, restarts and a closed loop do.
TickConservation ==
  /\ metrics.received =
       metrics.processed + metrics.failed + metrics.dropped + Cardinality(lost)
       + Cardinality(UNION {Queued(w) : w \in TickWorkers}) + Cardinality(InHand)
       + Len(posted) + (IF thread.pc = "idle" THEN 0 ELSE 1)
  /\ pending = Len(posted) + (IF thread.pc = "post" THEN 1 ELSE 0)

\* "Per-symbol order is preserved": of two ticks of a symbol that one thread
\* submitted to one start of the pipeline, the earlier one is begun first, and
\* no tick is begun twice.
TickOrder ==
  \A w, v \in TickWorkers : \A i \in DOMAIN begun[w], j \in DOMAIN begun[v] :
    LET a == begun[w][i]
        b == begun[v][j]
    IN  a.symbol = b.symbol /\ <<w, i>> # <<v, j>> =>
          /\ a # b
          /\ w = v
          /\ i < j /\ a.by = b.by /\ a.start = b.start => a.n < b.n

\* "A graceful shutdown loses nothing": a drain that did not time out has begun
\* and finished every tick that was queued or in work when it started, unless an
\* earlier stop had left a sentinel behind.
TickDrainLosesNothing ==
  stopping.pc = "count" /\ stopping.drain /\ ~stopping.timedOut /\ ~stale =>
    /\ InHand = {}
    /\ \A t \in due : \E w \in TickWorkers : \E i \in DOMAIN begun[w] : begun[w][i] = t

\* "Each queue has exactly one consumer" while the pipeline runs.
TickOneConsumer == running => \A w \in TickWorkers : task[w].pc \in {"new", "get", "busy"}
=============================================================================
