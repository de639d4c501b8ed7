---------------------------- MODULE RebalanceGuard ----------------------------
(***************************************************************************)
(* ConsumerGroupRebalanceGuard of rebalance_guard.py: the workers of a     *)
(* consumer group, each with a guard between its Kafka client and its      *)
(* executor, while the group moves partitions between them in an orderly   *)
(* way (revoked) or not (lost).                                            *)
(*                                                                         *)
(* Every method holds the guard's lock to its end and is one step, the     *)
(* calls of flush_fn and commit_fn included; both are configured.  The     *)
(* poll thread hands messages to the worker thread, which presents them to *)
(* the guard later, across a rebalance too: nothing in the guard empties   *)
(* the worker's hands.  A message is a partition and an offset and has an  *)
(* idempotency key of its own.  The count of rebalances is only reported   *)
(* and left out.                                                           *)
(***************************************************************************)
EXTENDS Integers, Sequences, FiniteSets, SequencesExt

CONSTANTS
  Members, Partitions,
  MaxKeys,           \* max_idempotency_keys
  MaxOffsetOf,       \* bound: messages of a partition
  MaxMoves           \* bound: assignments

Nobody == "nobody"

ASSUME RebalanceAssumption ==
  /\ MaxKeys \in Nat \ {0} /\ Nobody \notin Members
  /\ {MaxOffsetOf, MaxMoves} \subseteq Nat

VARIABLES
  guard,       \* active_partitions, processed_idempotency_keys (oldest first),
               \* in_flight_buffer and last_processed_offsets of each worker
  owner,       \* external: the member the group gave a partition to
  groupOffset, \* external: the offset from which the next owner reads
  readFrom,    \* external: the next offset each member polls
  polled,      \* the message a worker has polled and not yet presented
  moves,
  done,        \* observer: the messages each worker has executed
  twice,       \* observer: messages a worker executed again
  refused,     \* observer: messages refused although nobody had executed them
  settled,     \* observer: messages executed and then committed by the one who executed them
  again,       \* observer: executions of a settled message, and whether the worker
               \* still owned the partition
  crossed,     \* observer: partitions assigned to a worker that still had a message
               \* of them in its hands, polled before the assignment
  evicted      \* observer: keys a worker has forgotten

rgObservers == <<done, twice, refused, settled, again, crossed, evicted>>
rgVars == <<guard, owner, groupOffset, readFrom, polled, moves, rgObservers>>

Messages == Partitions \X (0..(MaxOffsetOf - 1))
Nothing == <<>>
NoOffset == -1   \* no entry in last_processed_offsets

RgInit ==
  /\ guard = [w \in Members |-> [active |-> {}, keys |-> <<>>,
                buffer |-> [p \in Partitions |-> <<>>], last |-> [p \in Partitions |-> NoOffset]]]
  /\ owner = [p \in Partitions |-> Nobody]
  /\ groupOffset = [p \in Partitions |-> 0]
  /\ readFrom = [w \in Members |-> [p \in Partitions |-> 0]]
  /\ polled = [w \in Members |-> Nothing]
  /\ moves = 0
  /\ done = [w \in Members |-> {}]
  /\ twice = {} /\ refused = {} /\ settled = {} /\ again = {} /\ crossed = {}
  /\ evicted = [w \in Members |-> {}]

Executed == UNION {done[w] : w \in Members}

-----------------------------------------------------------------------------
\* on_partitions_assigned; the member reads on from the committed offset.
OnPartitionsAssigned(w, p) ==
  /\ owner[p] = Nobody /\ p \notin guard[w].active /\ moves < MaxMoves
  /\ moves' = moves + 1
  /\ owner' = [owner EXCEPT ![p] = w]
  /\ guard' = [guard EXCEPT ![w].active = @ \cup {p}]
  /\ readFrom' = [readFrom EXCEPT ![w][p] = groupOffset[p]]
  /\ crossed' = crossed \cup IF polled[w] # Nothing /\ polled[w][1] = p THEN {p} ELSE {}
  /\ UNCHANGED <<groupOffset, polled, done, twice, refused, settled, again, evicted>>

\* The poll thread hands the next message to the worker thread.
Poll(w, p) ==
  /\ p \in guard[w].active /\ polled[w] = Nothing /\ readFrom[w][p] < MaxOffsetOf
  /\ polled' = [polled EXCEPT ![w] = <<p, readFrom[w][p]>>]
  /\ readFrom' = [readFrom EXCEPT ![w][p] = @ + 1]
  /\ UNCHANGED <<guard, owner, groupOffset, moves, rgObservers>>

\* _remember_key
Remember(keys, m) ==
  IF Len(keys) = MaxKeys THEN Append(Tail(keys), m) ELSE Append(keys, m)

\* process_message: fenced, refused as a duplicate or as a step backwards, or admitted.
ProcessMessage(w) ==
  LET g == guard[w]
      m == polled[w]
      p == m[1]
      duplicate == m \in ToSet(g.keys)
      regression == g.last[p] # NoOffset /\ m[2] <= g.last[p]
  IN
  /\ m # Nothing
  /\ polled' = [polled EXCEPT ![w] = Nothing]
  /\ \/ /\ p \notin g.active
        /\ UNCHANGED <<guard, refused, evicted>>
     \/ /\ p \in g.active /\ (duplicate \/ regression)
        /\ refused' = IF m \in Executed THEN refused ELSE refused \cup {m}
        /\ UNCHANGED <<guard, evicted>>
     \/ /\ p \in g.active /\ ~duplicate /\ ~regression
        /\ guard' = [guard EXCEPT ![w].keys = Remember(@, m), ![w].buffer[p] = Append(@, m),
                                  ![w].last[p] = m[2]]
        /\ evicted' = [evicted EXCEPT ![w] = @ \cup (ToSet(g.keys) \ ToSet(guard'[w].keys))]
        /\ UNCHANGED refused
  /\ UNCHANGED <<owner, groupOffset, readFrom, moves, done, twice, settled, again, crossed>>

-----------------------------------------------------------------------------
\* _discard_partition_state, after the fence
Fenced(g, parts) ==
  [g EXCEPT !.active = @ \ parts,
            !.buffer = [p \in Partitions |-> IF p \in parts THEN <<>> ELSE @[p]],
            !.last = [p \in Partitions |-> IF p \in parts THEN NoOffset ELSE @[p]]]

\* Mutant: the last processed offset itself is committed.
NextOffsetOfLast(g, p) == g.last[p]

\* What is committed is the offset of the next message to consume.
NextOffset(g, p) == g.last[p] + 1

\* on_partitions_revoked: the partitions are fenced and drained; those whose flush did
\* not raise are committed together, which works while the group lets it.  A flush that
\* raises may have executed a part of its messages ("reached").
OnPartitionsRevoked(w, parts, raising, reached, commits) ==
  LET g == guard[w]
      toCommit == {p \in parts \ raising : g.last[p] # NoOffset}
      ran == UNION {{g.buffer[p][i] : i \in 1..(IF p \in raising THEN reached[p]
                                               ELSE Len(g.buffer[p]))} : p \in parts}
      lasting == IF commits THEN {m \in ran : m[1] \in toCommit} ELSE {}
  IN
  /\ parts # {} /\ parts \subseteq g.active
  /\ raising \subseteq {p \in parts : g.buffer[p] # <<>>}
  /\ commits => \A p \in toCommit : owner[p] = w
  /\ guard' = [guard EXCEPT ![w] = Fenced(@, parts)]
  /\ groupOffset' = [p \in Partitions |-> IF commits /\ p \in toCommit THEN NextOffset(g, p)
                                        ELSE groupOffset[p]]
  /\ owner' = [p \in Partitions |-> IF p \in parts /\ owner[p] = w THEN Nobody ELSE owner[p]]
  /\ done' = [done EXCEPT ![w] = @ \cup ran]
  /\ twice' = twice \cup {<<w, m>> : m \in ran \cap done[w]}
  /\ settled' = settled \cup lasting
  /\ again' = again \cup {[by |-> w, msg |-> m, owned |-> owner[m[1]] = w] : m \in ran \cap settled}
  /\ UNCHANGED <<readFrom, polled, moves, refused, crossed, evicted>>

\* The group gives up on a member that does not know it yet.
GroupEvicts(p) ==
  /\ owner[p] # Nobody
  /\ owner' = [owner EXCEPT ![p] = Nobody]
  /\ UNCHANGED <<guard, groupOffset, readFrom, polled, moves, rgObservers>>

\* on_partitions_lost: nothing is flushed or committed.
OnPartitionsLost(w, parts) ==
  /\ parts # {} /\ parts \subseteq guard[w].active /\ \A p \in parts : owner[p] # w
  /\ guard' = [guard EXCEPT ![w] = Fenced(@, parts)]
  /\ UNCHANGED <<owner, groupOffset, readFrom, polled, moves, rgObservers>>

RgDone ==
  /\ \A w \in Members : guard[w].active = {} /\ polled[w] = Nothing
  /\ UNCHANGED rgVars

RgNext ==
  \/ \E w \in Members :
       \/ \E p \in Partitions : OnPartitionsAssigned(w, p) \/ Poll(w, p)
       \/ ProcessMessage(w)
       \/ \E parts \in SUBSET guard[w].active :
            \/ \E raising \in SUBSET parts, commits \in BOOLEAN,
                  reached \in [parts -> 0..MaxOffsetOf] :
                 /\ \A p \in parts : reached[p] <= (IF p \in raising THEN Len(guard[w].buffer[p]) ELSE 0)
                 /\ OnPartitionsRevoked(w, parts, raising, reached, commits)
            \/ OnPartitionsLost(w, parts)
  \/ \E p \in Partitions : GroupEvicts(p)
  \/ RgDone

RgSpec == RgInit /\ [][RgNext]_rgVars

-----------------------------------------------------------------------------
RgTypeOK ==
  /\ \A w \in Members :
       /\ guard[w].active \subseteq Partitions
       /\ Len(guard[w].keys) <= MaxKeys /\ ToSet(guard[w].keys) \subseteq Messages
       /\ \A p \in Partitions : /\ ToSet(guard[w].buffer[p]) \subseteq Messages
                                /\ guard[w].last[p] \in {NoOffset} \cup 0..(MaxOffsetOf - 1)
       /\ polled[w] \in Messages \cup {Nothing}
       /\ done[w] \subseteq Messages /\ evicted[w] \subseteq Messages
  /\ owner \in [Partitions -> Members \cup {Nobody}]
  /\ groupOffset \in [Partitions -> 0..MaxOffsetOf]
  /\ readFrom \in [Members -> [Partitions -> 0..MaxOffsetOf]]
  /\ moves \in 0..MaxMoves
  /\ twice \subseteq Members \X Messages
  /\ refused \subseteq Messages /\ settled \subseteq Messages /\ crossed \subseteq Partitions
  /\ again \subseteq [by : Members, msg : Messages, owned : BOOLEAN]

\* However the partitions move, what lies below a committed offset has been executed or
\* was refused by the guard although nobody had executed it; what was executed and
\* committed is executed again only by a worker the group had already evicted, never by
\* the owner of the partition; and one worker executes a message again only if its key
\* was evicted.  The first two hold of a partition until it is assigned to a worker that
\* still has a message of it in its hands.
RebalanceIsSafe ==
  /\ \A m \in Messages : m[1] \notin crossed /\ m[2] < groupOffset[m[1]] => m \in Executed \cup refused
  /\ \A x \in again : x.msg[1] \notin crossed => ~x.owned
  /\ \A x \in twice : x[2] \in evicted[x[1]]

\* "Buffered work is dropped and will be redelivered": no offset is committed past a
\* message that was never executed, be it dropped by a loss or by a flush that raised,
\* on a partition that was never assigned with an older message still in hand.
DroppedWorkRuns ==
  \A m \in Messages : m[1] \notin crossed /\ m[2] < groupOffset[m[1]] => m \in Executed
=============================================================================
