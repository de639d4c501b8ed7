-------------------------- MODULE GracefulShutdown ---------------------------
(***************************************************************************)
(* GracefulShutdownManager: an ingress thread that consults the gate and   *)
(* appends ticks, termination signals, and the drain that detaches the     *)
(* queue, flushes it to a sink that may refuse or take part of it, puts a  *)
(* refused batch back and commits the consumer's offsets at the end.       *)
(*                                                                         *)
(* The source of the ticks, the sink and the supervisor that kills and     *)
(* restarts the process are external.  A tick is its offset in the source. *)
(***************************************************************************)
EXTENDS Integers, Sequences

CONSTANTS
  IngressIsJoined,   \* is an ingress callback past the gate waited for?
  MaxOffset, MaxSignals, MaxFailures, MaxLives   \* bounds

ASSUME ShutdownAssumption ==
  /\ IngressIsJoined \in BOOLEAN
  /\ {MaxOffset, MaxSignals, MaxFailures, MaxLives} \subseteq Nat

VARIABLES
  gs,          \* the manager: state, is_shutdown_requested, force_immediate_exit, _signal_count
  itemQueue,   \* item_queue
  batch,       \* batch_to_flush, between detaching and the end of the flush
  drainer,     \* the step of drain_queue_and_flush
  ingress,     \* the step of the ingress thread
  position,    \* the offset of the last tick the ingress thread appended
  durable,     \* the offsets the sink holds
  committed,   \* the offset a restart resumes after
  gsBudget     \* flushes refused and lives used up

gsVars == <<gs, itemQueue, batch, drainer, ingress, position, durable, committed, gsBudget>>

Running == [state |-> "RUNNING", requested |-> FALSE, force |-> FALSE, signals |-> 0]

GsInit ==
  /\ gs = Running /\ itemQueue = <<>> /\ batch = <<>>
  /\ drainer = "none" /\ ingress = "idle" /\ position = 0
  /\ durable = {} /\ committed = 0
  /\ gsBudget = [failures |-> 0, lives |-> 1]

-----------------------------------------------------------------------------
\* The ingress thread asks is_accepting_ingress ...
PassGate ==
  /\ ingress = "idle" /\ position < MaxOffset
  /\ ~gs.requested
  /\ ingress' = "accepted"
  /\ UNCHANGED <<gs, itemQueue, batch, drainer, position, durable, committed, gsBudget>>

\* ... and appends the next tick, under queue_lock, whatever happened meanwhile.
AppendTick ==
  /\ ingress = "accepted"
  /\ ingress' = "idle"
  /\ position' = position + 1
  /\ itemQueue' = Append(itemQueue, position + 1)
  /\ UNCHANGED <<gs, batch, drainer, durable, committed, gsBudget>>

\* _handle_signal: the first closes the gate, a second one forces the exit.
HandleSignal ==
  /\ drainer # "exit" /\ gs.signals < MaxSignals
  /\ gs' = [state |-> IF gs.state = "RUNNING" THEN "DRAINING" ELSE gs.state,
            requested |-> TRUE, force |-> gs.force \/ gs.signals > 0,
            signals |-> gs.signals + 1]
  /\ UNCHANGED <<itemQueue, batch, drainer, ingress, position, durable, committed, gsBudget>>

\* trigger_shutdown_manual
TriggerShutdown ==
  /\ drainer # "exit" /\ ~gs.requested
  /\ gs' = [gs EXCEPT !.requested = TRUE, !.state = "DRAINING"]
  /\ UNCHANGED <<itemQueue, batch, drainer, ingress, position, durable, committed, gsBudget>>

-----------------------------------------------------------------------------
\* The program calls drain_queue_and_flush once a shutdown is requested.
BeginDrain ==
  /\ drainer = "none" /\ gs.requested
  /\ drainer' = "loop"
  /\ gs' = [gs EXCEPT !.state = "DRAINING"]
  /\ UNCHANGED <<itemQueue, batch, ingress, position, durable, committed, gsBudget>>

\* The loop's head, the queue not empty, no force and time left: _detach_batch.
DetachBatch ==
  /\ drainer = "loop" /\ itemQueue # <<>> /\ ~gs.force
  /\ batch' = itemQueue /\ itemQueue' = <<>>
  /\ drainer' = "flush"
  /\ UNCHANGED <<gs, ingress, position, durable, committed, gsBudget>>

\* flush_callback returns: the batch is durable.
FlushReturns ==
  /\ drainer = "flush"
  /\ durable' = durable \cup {batch[i] : i \in DOMAIN batch}
  /\ batch' = <<>>
  /\ drainer' = "loop"
  /\ UNCHANGED <<gs, itemQueue, ingress, position, committed, gsBudget>>

\* Mutant: the batch goes to the end of the queue.
RestoreBehind == itemQueue' = itemQueue \o batch

\* _restore_batch: the batch goes back to the head of the queue.
RestoreBatch == itemQueue' = batch \o itemQueue

\* flush_callback raises, after the sink took some of the batch; the drain goes
\* on, or its time is up.
FlushRaises ==
  /\ drainer = "flush" /\ gsBudget.failures < MaxFailures
  /\ \E n \in 0..Len(batch) : durable' = durable \cup {batch[i] : i \in 1..n}
  /\ RestoreBatch
  /\ batch' = <<>>
  /\ drainer' \in {"loop", "count"}
  /\ gsBudget' = [gsBudget EXCEPT !.failures = @ + 1]
  /\ UNCHANGED <<gs, ingress, position, committed>>

\* The loop ends: the queue is empty, an exit is forced or the deadline has passed.
LoopEnds ==
  /\ drainer = "loop"
  /\ IngressIsJoined => ingress = "idle"
  /\ drainer' = "count"
  /\ UNCHANGED <<gs, itemQueue, batch, ingress, position, durable, committed, gsBudget>>

Exit(clean) ==
  /\ drainer' = "exit"
  /\ gs' = [gs EXCEPT !.state = IF clean THEN "FLUSHED" ELSE "TERMINATED"]

\* What is left decides: the commit, or an unclean exit without one.
CountUndrained ==
  /\ drainer = "count"
  /\ IF itemQueue = <<>> THEN drainer' = "commit" /\ UNCHANGED gs ELSE Exit(FALSE)
  /\ UNCHANGED <<itemQueue, batch, ingress, position, durable, committed, gsBudget>>

\* commit_offsets_callback commits the consumer's position.  When it raises, the
\* commit may have been made.
CommitOffsets ==
  /\ drainer = "commit"
  /\ \/ committed' = position /\ Exit(TRUE)
     \/ committed' \in {committed, position} /\ Exit(FALSE)
  /\ UNCHANGED <<itemQueue, batch, ingress, position, durable, gsBudget>>

\* EXTERNAL: the process has exited, or is killed at any step, and is started
\* again; it resumes after the committed offset.
Restart ==
  /\ gsBudget.lives < MaxLives
  /\ gsBudget' = [gsBudget EXCEPT !.lives = @ + 1]
  /\ gs' = Running /\ itemQueue' = <<>> /\ batch' = <<>>
  /\ drainer' = "none" /\ ingress' = "idle"
  /\ position' = committed
  /\ UNCHANGED <<durable, committed>>

GsDone == drainer = "exit" /\ UNCHANGED gsVars

GsNext ==
  \/ PassGate \/ AppendTick \/ HandleSignal \/ TriggerShutdown
  \/ BeginDrain \/ DetachBatch \/ FlushReturns \/ FlushRaises \/ LoopEnds
  \/ CountUndrained \/ CommitOffsets \/ Restart \/ GsDone

GsSpec == GsInit /\ [][GsNext]_gsVars

-----------------------------------------------------------------------------
GsTypeOK ==
  /\ gs \in [state : {"RUNNING", "DRAINING", "FLUSHED", "TERMINATED"}, requested : BOOLEAN,
             force : BOOLEAN, signals : 0..MaxSignals]
  /\ drainer \in {"none", "loop", "flush", "count", "commit", "exit"}
  /\ ingress \in {"idle", "accepted"}
  /\ position \in 0..MaxOffset /\ committed \in 0..MaxOffset /\ durable \subseteq 1..MaxOffset

\* Zero data loss: what is detached and what is queued are, in order, the newest
\* ticks taken in, every older one is durable, a restart never resumes past a
\* tick that is not, and a shutdown that reports itself clean has flushed and
\* committed everything; whatever the sink refused, took in part or was killed in.
ShutdownLosesNothing ==
  LET backlog == batch \o itemQueue
      flushed == position - Len(backlog)
  IN  /\ \A i \in DOMAIN backlog : backlog[i] = flushed + i
      /\ 1..flushed \subseteq durable
      /\ 1..committed \subseteq durable
      /\ gs.state = "FLUSHED" => committed = position /\ gs.requested
=============================================================================
