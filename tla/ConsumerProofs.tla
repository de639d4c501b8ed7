---------------------------- MODULE ConsumerProofs ----------------------------
(***************************************************************************)
(* Proofs about the two consumers of a stream: RebalanceGuard, the guards  *)
(* of a consumer group whose partitions move, and TickPipeline, the queues *)
(* and workers that a thread and the event loop submit ticks to.           *)
(***************************************************************************)
EXTENDS RebalanceGuard, TickPipeline, FiniteSetTheorems, SequenceTheorems, TLAPS

GuardType ==
  [active : SUBSET Partitions, keys : Seq(Messages), buffer : [Partitions -> Seq(Messages)],
   last : [Partitions -> Int]]

RgTyped ==
  /\ guard \in [Members -> GuardType]
  /\ owner \in [Partitions -> Members \cup {Nobody}]
  /\ groupOffset \in [Partitions -> 0..MaxOffsetOf]
  /\ readFrom \in [Members -> [Partitions -> 0..MaxOffsetOf]]
  /\ polled \in [Members -> Messages \cup {Nothing}]
  /\ moves \in 0..MaxMoves
  /\ done \in [Members -> SUBSET Messages] /\ evicted \in [Members -> SUBSET Messages]
  /\ twice \subseteq Members \X Messages
  /\ refused \subseteq Messages /\ settled \subseteq Messages /\ crossed \subseteq Partitions
  /\ again \subseteq [by : Members, msg : Messages, owned : BOOLEAN]
  /\ \A w \in Members :
       /\ Len(guard[w].keys) <= MaxKeys
       /\ \A p \in Partitions : guard[w].last[p] \in {NoOffset} \cup 0..(MaxOffsetOf - 1)

Buffered(w, p) == ToSet(guard[w].buffer[p])
HasPolled(w, p) == polled[w] # Nothing /\ polled[w][1] = p

\* What a worker holds of a partition it may process: every message before the next
\* one to read is executed, refused, buffered or in its hands, in the order of offsets,
\* unless the partition was assigned over a message still in hand.
ReadPair(w, p) ==
  /\ p \notin guard[w].active => guard[w].last[p] = NoOffset
  /\ \A m \in Buffered(w, p) : m[1] = p /\ m[2] <= guard[w].last[p]
  /\ p \in guard[w].active /\ p \notin crossed =>
       /\ guard[w].last[p] < readFrom[w][p]
       /\ HasPolled(w, p) => polled[w][2] = readFrom[w][p] - 1 /\ guard[w].last[p] < polled[w][2]
       /\ \A m \in Messages : m[1] = p /\ m[2] < readFrom[w][p] =>
            m \in Executed \cup refused \cup Buffered(w, p) \cup {polled[w]}

ReadInv == \A w \in Members, p \in Partitions : ReadPair(w, p)

\* A worker has forgotten no key of what it executed or will execute but the evicted ones.
KeyInv ==
  \A w \in Members :
    /\ done[w] \subseteq ToSet(guard[w].keys) \cup evicted[w]
    /\ \A p \in Partitions :
         /\ Buffered(w, p) \subseteq ToSet(guard[w].keys) \cup evicted[w]
         /\ Buffered(w, p) \cap done[w] \subseteq evicted[w]

\* The owner of a partition holds nothing that lies below the committed offset, and
\* what was executed and committed lies below it.
OwnPair(w, p) ==
  owner[p] = w =>
    /\ p \in guard[w].active
    /\ p \notin crossed =>
         /\ groupOffset[p] <= readFrom[w][p]
         /\ guard[w].last[p] # NoOffset => groupOffset[p] <= guard[w].last[p]
         /\ HasPolled(w, p) => groupOffset[p] <= polled[w][2]
         /\ \A m \in Buffered(w, p) : groupOffset[p] <= m[2]

OwnerInv ==
  /\ \A w \in Members, p \in Partitions : OwnPair(w, p)
  /\ \A m \in settled : m[1] \notin crossed => m[2] < groupOffset[m[1]]

\* The inductive invariant of RebalanceIsSafe.
RgInv == RgTyped /\ ReadInv /\ KeyInv /\ OwnerInv /\ RebalanceIsSafe

-----------------------------------------------------------------------------
(* Lemmas on the operators. *)

\* A message is a pair, and Nothing is not a message.
LEMMA MessageIsPair ==
  /\ Nothing \notin Messages
  /\ \A m \in Messages : m = <<m[1], m[2]>> /\ m[1] \in Partitions /\ m[2] \in 0..(MaxOffsetOf - 1)
PROOF
<1>1. \A m \in Messages : m = <<m[1], m[2]>> /\ m[1] \in Partitions /\ m[2] \in 0..(MaxOffsetOf - 1)
  BY DEF Messages
<1>2. ASSUME NEW p \in Partitions, NEW n \in 0..(MaxOffsetOf - 1), Nothing = <<p, n>> PROVE FALSE
  <2>1. Len(<<p, n>>) = 2 /\ Len(<<>>) = 0
    OBVIOUS
  <2> QED BY <2>1, <1>2 DEF Nothing
<1> QED BY <1>1, <1>2 DEF Messages

\* Appending adds one element to what a sequence holds.
LEMMA AppendHolds ==
  ASSUME NEW S, NEW s \in Seq(S), NEW e \in S
  PROVE /\ Append(s, e) \in Seq(S) /\ ToSet(Append(s, e)) = ToSet(s) \cup {e}
        /\ ToSet(s) \subseteq S
PROOF
<1>1. /\ Append(s, e) \in Seq(S) /\ Len(Append(s, e)) = Len(s) + 1
      /\ \A i \in 1..Len(s) : Append(s, e)[i] = s[i]
      /\ Append(s, e)[Len(s) + 1] = e
  OBVIOUS
<1>2. Len(s) \in Nat /\ DOMAIN s = 1..Len(s) /\ DOMAIN Append(s, e) = 1..(Len(s) + 1)
  BY <1>1
<1>3. ASSUME NEW x \in ToSet(Append(s, e)) PROVE x \in ToSet(s) \cup {e}
  <2>1. PICK i \in 1..(Len(s) + 1) : x = Append(s, e)[i]
    BY <1>3, <1>2 DEF ToSet
  <2>2. CASE i = Len(s) + 1
    BY <2>1, <2>2, <1>1
  <2>3. CASE i # Len(s) + 1
    <3>1. i \in 1..Len(s)
      BY <2>3, <1>2
    <3> QED BY <3>1, <2>1, <1>1, <1>2 DEF ToSet
  <2> QED BY <2>2, <2>3
<1>4. ASSUME NEW x \in ToSet(s) PROVE x \in ToSet(Append(s, e))
  <2>1. PICK i \in 1..Len(s) : x = s[i]
    BY <1>4, <1>2 DEF ToSet
  <2>2. i \in 1..(Len(s) + 1) /\ x = Append(s, e)[i]
    BY <2>1, <1>1, <1>2
  <2> QED BY <2>2, <1>2 DEF ToSet
<1>5. e \in ToSet(Append(s, e))
  <2>1. Len(s) + 1 \in 1..(Len(s) + 1)
    BY <1>2
  <2> QED BY <2>1, <1>1, <1>2 DEF ToSet
<1>6. ToSet(s) \subseteq S
  BY <1>2 DEF ToSet
<1> QED BY <1>1, <1>3, <1>4, <1>5, <1>6

\* _remember_key keeps at most max_idempotency_keys keys, the new one among them.
LEMMA RememberHolds ==
  ASSUME NEW keys \in Seq(Messages), NEW m \in Messages, Len(keys) <= MaxKeys
  PROVE /\ Remember(keys, m) \in Seq(Messages) /\ Len(Remember(keys, m)) <= MaxKeys
        /\ m \in ToSet(Remember(keys, m))
PROOF
<1>0. Len(keys) \in Nat /\ MaxKeys \in Nat \ {0}
  BY RebalanceAssumption
<1>1. CASE Len(keys) = MaxKeys
  <2>1. keys # <<>>
    BY <1>1, <1>0
  <2>2. Tail(keys) \in Seq(Messages) /\ Len(Tail(keys)) = Len(keys) - 1
    BY <2>1
  <2>3. Remember(keys, m) = Append(Tail(keys), m)
    BY <1>1 DEF Remember
  <2>4. Len(Append(Tail(keys), m)) = Len(keys)
    BY <2>2, <1>0
  <2>5. Append(Tail(keys), m) \in Seq(Messages) /\ m \in ToSet(Append(Tail(keys), m))
    <3>1. \A t \in Seq(Messages) : /\ Append(t, m) \in Seq(Messages)
                                   /\ ToSet(Append(t, m)) = ToSet(t) \cup {m}
      BY AppendHolds
    <3> QED BY <3>1, <2>2
  <2> QED BY <2>3, <2>4, <2>5, <1>1, <1>0
<1>2. CASE Len(keys) # MaxKeys
  <2>1. Remember(keys, m) = Append(keys, m)
    BY <1>2 DEF Remember
  <2>2. Len(Append(keys, m)) = Len(keys) + 1
    OBVIOUS
  <2>3. Len(keys) + 1 <= MaxKeys
    BY <1>0, <1>2
  <2> QED BY <2>1, <2>2, <2>3, AppendHolds
<1> QED BY <1>1, <1>2

\* Fencing takes the partitions away with all that was held of them, and nothing else.
LEMMA FencedHolds ==
  ASSUME NEW g \in GuardType, NEW parts \in SUBSET Partitions
  PROVE /\ Fenced(g, parts) \in GuardType
        /\ Fenced(g, parts).active = g.active \ parts /\ Fenced(g, parts).keys = g.keys
        /\ \A p \in parts : Fenced(g, parts).buffer[p] = <<>> /\ Fenced(g, parts).last[p] = NoOffset
        /\ \A p \in Partitions \ parts : /\ Fenced(g, parts).buffer[p] = g.buffer[p]
                                         /\ Fenced(g, parts).last[p] = g.last[p]
PROOF
<1> DEFINE b == [p \in Partitions |-> IF p \in parts THEN <<>> ELSE g.buffer[p]]
           l == [p \in Partitions |-> IF p \in parts THEN NoOffset ELSE g.last[p]]
<1>1. b \in [Partitions -> Seq(Messages)] /\ l \in [Partitions -> Int]
  BY DEF GuardType, NoOffset
<1>2. Fenced(g, parts) = [g EXCEPT !.active = g.active \ parts, !.buffer = b, !.last = l]
  BY DEF Fenced
<1>3. /\ \A p \in parts : b[p] = <<>> /\ l[p] = NoOffset
      /\ \A p \in Partitions \ parts : b[p] = g.buffer[p] /\ l[p] = g.last[p]
  OBVIOUS
<1> HIDE DEF b, l
<1>4. /\ Fenced(g, parts) \in GuardType
      /\ Fenced(g, parts).active = g.active \ parts /\ Fenced(g, parts).keys = g.keys
      /\ Fenced(g, parts).buffer = b /\ Fenced(g, parts).last = l
  BY <1>1, <1>2 DEF GuardType
<1> QED BY <1>3, <1>4

\* What has been executed stays executed.
LEMMA ExecutedGrows ==
  ASSUME \A w \in Members : done[w] \subseteq done'[w]
  PROVE Executed \subseteq Executed'
BY DEF Executed

\* The empty sequence holds nothing.
LEMMA EmptyHoldsNothing == ToSet(<<>>) = {}
BY DEF ToSet

-----------------------------------------------------------------------------
(* The steps. *)

\* A step changes nothing of what a worker holds of a partition.
SamePair(w, p) ==
  /\ guard'[w].last[p] = guard[w].last[p] /\ guard'[w].buffer[p] = guard[w].buffer[p]
  /\ p \in guard'[w].active <=> p \in guard[w].active
  /\ readFrom'[w][p] = readFrom[w][p]
  /\ HasPolled(w, p)' = HasPolled(w, p) /\ (HasPolled(w, p) => polled'[w] = polled[w])

\* What such a step keeps.
LEMMA SamePairKeeps ==
  ASSUME NEW w \in Members, NEW p \in Partitions, SamePair(w, p),
         Executed \subseteq Executed', refused \subseteq refused', crossed \subseteq crossed'
  PROVE /\ ReadPair(w, p) => ReadPair(w, p)'
        /\ OwnPair(w, p) /\ (owner'[p] = w => owner[p] = w /\ groupOffset'[p] = groupOffset[p])
             => OwnPair(w, p)'
PROOF
<1>1. Buffered(w, p)' = Buffered(w, p)
  BY DEF SamePair, Buffered
<1>2. \A m \in Messages : m[1] = p /\ m = polled[w] => m = polled'[w]
  BY MessageIsPair DEF SamePair, HasPolled
<1>3. ASSUME ReadPair(w, p) PROVE ReadPair(w, p)'
  <2>1. ASSUME p \in guard'[w].active, p \notin crossed'
        PROVE \A m \in Messages : m[1] = p /\ m[2] < readFrom'[w][p] =>
                m \in Executed' \cup refused' \cup Buffered(w, p)' \cup {polled'[w]}
    BY <2>1, <1>1, <1>2, <1>3 DEF SamePair, ReadPair
  <2> QED BY <2>1, <1>1, <1>3 DEF SamePair, ReadPair
<1>4. ASSUME OwnPair(w, p), owner'[p] = w => owner[p] = w /\ groupOffset'[p] = groupOffset[p]
      PROVE OwnPair(w, p)'
  BY <1>1, <1>4 DEF SamePair, OwnPair
<1> QED BY <1>3, <1>4


\* An assignment keeps the types and only adds the partition to the active ones.
LEMMA AssignTypes ==
  ASSUME RgTyped, NEW w \in Members, NEW p \in Partitions, OnPartitionsAssigned(w, p)
  PROVE /\ RgTyped'
        /\ guard'[w].active = guard[w].active \cup {p} /\ guard'[w].keys = guard[w].keys
        /\ guard'[w].buffer = guard[w].buffer /\ guard'[w].last = guard[w].last
        /\ \A x \in Members : x # w => guard'[x] = guard[x]
PROOF
<1> DEFINE g == [guard[w] EXCEPT !.active = @ \cup {p}]
<1>1. guard[w] \in GuardType
  BY DEF RgTyped
<1>2. /\ g \in GuardType /\ g.active = guard[w].active \cup {p} /\ g.keys = guard[w].keys
      /\ g.buffer = guard[w].buffer /\ g.last = guard[w].last
  BY <1>1 DEF GuardType
<1>3. guard' = [guard EXCEPT ![w] = g]
  BY DEF OnPartitionsAssigned
<1> HIDE DEF g
<1>4. /\ guard' \in [Members -> GuardType] /\ guard'[w] = g
      /\ \A x \in Members : x # w => guard'[x] = guard[x]
  BY <1>2, <1>3 DEF RgTyped
<1>5. owner' \in [Partitions -> Members \cup {Nobody}]
  BY DEF RgTyped, OnPartitionsAssigned
<1>6. readFrom' \in [Members -> [Partitions -> 0..MaxOffsetOf]]
  BY DEF RgTyped, OnPartitionsAssigned
<1>7. polled' \in [Members -> Messages \cup {Nothing}] /\ crossed' \subseteq Partitions
  BY DEF RgTyped, OnPartitionsAssigned
<1>8. moves' \in 0..MaxMoves
  BY RebalanceAssumption DEF RgTyped, OnPartitionsAssigned
<1>9. ASSUME NEW x \in Members
      PROVE /\ Len(guard'[x].keys) <= MaxKeys
            /\ \A q \in Partitions : guard'[x].last[q] \in {NoOffset} \cup 0..(MaxOffsetOf - 1)
  BY <1>2, <1>4 DEF RgTyped
<1> QED BY <1>2, <1>4, <1>5, <1>6, <1>7, <1>8, <1>9 DEF RgTyped, OnPartitionsAssigned

\* A new owner reads on from the committed offset and holds nothing of the partition, or
\* the partition is crossed from then on.
LEMMA AssignStep ==
  ASSUME RgInv, NEW w \in Members, NEW p \in Partitions, OnPartitionsAssigned(w, p)
  PROVE RgInv'
PROOF
<1> USE DEF RgInv
<1>1. /\ RgTyped'
      /\ guard'[w].active = guard[w].active \cup {p} /\ guard'[w].keys = guard[w].keys
      /\ guard'[w].buffer = guard[w].buffer /\ guard'[w].last = guard[w].last
      /\ \A x \in Members : x # w => guard'[x] = guard[x]
  BY AssignTypes
<1>2. /\ owner[p] = Nobody /\ p \notin guard[w].active /\ Nobody \notin Members
      /\ owner'[p] = w /\ \A q \in Partitions : q # p => owner'[q] = owner[q]
      /\ readFrom'[w][p] = groupOffset[p]
      /\ \A x \in Members, q \in Partitions : x # w \/ q # p => readFrom'[x][q] = readFrom[x][q]
      /\ UNCHANGED <<groupOffset, polled, done, twice, refused, settled, again, evicted>>
  BY RebalanceAssumption DEF OnPartitionsAssigned, RgTyped
<1>3. /\ crossed \subseteq crossed' /\ crossed' \subseteq crossed \cup {p}
      /\ p \notin crossed' => ~HasPolled(w, p)'
  BY DEF OnPartitionsAssigned, RgTyped, HasPolled
<1>4. Executed' = Executed
  BY <1>2 DEF Executed
<1>5. \A x \in Members, q \in Partitions : Buffered(x, q)' = Buffered(x, q)
  BY <1>1 DEF Buffered
<1>6. \A x \in Members, q \in Partitions : HasPolled(x, q)' = HasPolled(x, q)
  BY <1>2 DEF HasPolled
<1>7. \A x \in Members, q \in Partitions : guard'[x].last[q] = guard[x].last[q]
                                        /\ guard[x].last[q] \in Int /\ guard'[x].keys = guard[x].keys
  <2>1. \A x \in Members : /\ guard'[x].last = guard[x].last /\ guard'[x].keys = guard[x].keys
                           /\ guard[x].last \in [Partitions -> Int]
    BY <1>1 DEF RgTyped, GuardType
  <2> QED BY <2>1
<1>8. guard[w].last[p] = NoOffset /\ Buffered(w, p) = {} /\ groupOffset[p] \in Nat
  <2>1. guard[w].last[p] = NoOffset
    BY <1>2 DEF ReadInv, ReadPair
  <2>2. guard[w].buffer[p] \in Seq(Messages)
    BY DEF RgTyped, GuardType
  <2>3. ASSUME NEW m \in Buffered(w, p) PROVE FALSE
    <3>1. m \in Messages
      BY <2>2, <2>3 DEF Buffered, ToSet
    <3>2. m[2] <= NoOffset /\ m[2] \in 0..(MaxOffsetOf - 1)
      BY <3>1, <2>1, <2>3, MessageIsPair DEF ReadInv, ReadPair
    <3> QED BY <3>2 DEF NoOffset
  <2> QED BY <2>1, <2>3 DEF RgTyped
<1>9. ReadInv'
  <2> SUFFICES ASSUME NEW x \in Members, NEW q \in Partitions
               PROVE /\ q \notin guard'[x].active => guard'[x].last[q] = NoOffset
                     /\ \A m \in Buffered(x, q)' : m[1] = q /\ m[2] <= guard'[x].last[q]
                     /\ q \in guard'[x].active /\ q \notin crossed' =>
                        /\ guard'[x].last[q] < readFrom'[x][q]
                        /\ HasPolled(x, q)' => /\ polled'[x][2] = readFrom'[x][q] - 1
                                               /\ guard'[x].last[q] < polled'[x][2]
                        /\ \A m \in Messages : m[1] = q /\ m[2] < readFrom'[x][q] =>
                             m \in Executed' \cup refused' \cup Buffered(x, q)' \cup {polled'[x]}
    BY DEF ReadInv, ReadPair
  <2>1. CASE x = w /\ q = p
    <3>1. p \notin crossed' =>
            \A m \in Messages : m[1] = p /\ m[2] < groupOffset[p] => m \in Executed \cup refused
      BY <1>3 DEF RebalanceIsSafe
    <3>2. guard'[w].last[p] < readFrom'[w][p]
      BY <1>2, <1>7, <1>8 DEF NoOffset
    <3> QED BY <2>1, <3>1, <3>2, <1>1, <1>2, <1>3, <1>4, <1>5, <1>8
  <2>2. CASE x # w \/ q # p
    <3>1. q \in guard'[x].active <=> q \in guard[x].active
      BY <1>1, <2>2
    <3>3. q \notin guard'[x].active => guard'[x].last[q] = NoOffset
      BY <3>1, <1>7 DEF ReadInv, ReadPair
    <3>4. \A m \in Buffered(x, q)' : m[1] = q /\ m[2] <= guard'[x].last[q]
      BY <1>5, <1>7 DEF ReadInv, ReadPair
    <3>5. ASSUME q \in guard'[x].active, q \notin crossed'
          PROVE /\ guard'[x].last[q] < readFrom'[x][q]
                /\ HasPolled(x, q)' => /\ polled'[x][2] = readFrom'[x][q] - 1
                                       /\ guard'[x].last[q] < polled'[x][2]
      BY <3>1, <3>5, <2>2, <1>2, <1>3, <1>6, <1>7 DEF ReadInv, ReadPair
    <3>6. ASSUME q \in guard'[x].active, q \notin crossed'
          PROVE \A m \in Messages : m[1] = q /\ m[2] < readFrom'[x][q] =>
                             m \in Executed' \cup refused' \cup Buffered(x, q)' \cup {polled'[x]}
      BY <3>1, <3>6, <2>2, <1>2, <1>3, <1>4, <1>5 DEF ReadInv, ReadPair
    <3> QED BY <3>3, <3>4, <3>5, <3>6
  <2> QED BY <2>1, <2>2
<1>10. KeyInv'
  BY <1>2, <1>5, <1>7 DEF KeyInv
<1>11. OwnerInv'
  <2>1. ASSUME NEW x \in Members, NEW q \in Partitions, owner'[q] = x
        PROVE /\ q \in guard'[x].active
              /\ q \notin crossed' =>
                   /\ groupOffset[q] <= readFrom'[x][q]
                   /\ guard'[x].last[q] # NoOffset => groupOffset[q] <= guard'[x].last[q]
                   /\ HasPolled(x, q)' => groupOffset[q] <= polled'[x][2]
                   /\ \A m \in Buffered(x, q)' : groupOffset[q] <= m[2]
    <3>1. CASE q = p
      BY <3>1, <2>1, <1>1, <1>2, <1>3, <1>5, <1>7, <1>8
    <3>2. CASE q # p
      <4>1. owner[q] = x /\ q \in guard'[x].active
        BY <3>2, <2>1, <1>1, <1>2 DEF OwnerInv, OwnPair
      <4> QED BY <4>1, <3>2, <1>2, <1>3, <1>5, <1>6, <1>7 DEF OwnerInv, OwnPair
    <3> QED BY <3>1, <3>2
  <2>2. \A m \in settled' : m[1] \notin crossed' => m[2] < groupOffset'[m[1]]
    BY <1>2, <1>3 DEF OwnerInv
  <2> QED BY <2>1, <2>2, <1>2 DEF OwnerInv, OwnPair
<1>12. RebalanceIsSafe'
  BY <1>2, <1>3, <1>4 DEF RebalanceIsSafe
<1> QED BY <1>1, <1>9, <1>10, <1>11, <1>12

\* A poll hands over the next message in the order of offsets.
LEMMA PollStep ==
  ASSUME RgInv, NEW w \in Members, NEW p \in Partitions, Poll(w, p)
  PROVE RgInv'
PROOF
<1> USE DEF RgInv
<1> DEFINE rf == readFrom[w][p]
<1>1. /\ p \in guard[w].active /\ polled[w] = Nothing /\ rf < MaxOffsetOf /\ rf \in Nat
      /\ polled'[w] = <<p, rf>> /\ readFrom'[w][p] = rf + 1
      /\ \A x \in Members : x # w => polled'[x] = polled[x]
      /\ \A x \in Members, q \in Partitions : x # w \/ q # p => readFrom'[x][q] = readFrom[x][q]
      /\ UNCHANGED <<guard, owner, groupOffset, moves, done, twice, refused, settled, again, crossed,
                     evicted>>
  BY DEF Poll, RgTyped, rgObservers
<1>2. <<p, rf>> \in Messages
  <2>1. rf \in 0..(MaxOffsetOf - 1)
    BY <1>1, RebalanceAssumption
  <2> QED BY <2>1 DEF Messages
<1>3. RgTyped'
  <2>1. polled' \in [Members -> Messages \cup {Nothing}]
    BY <1>2 DEF Poll, RgTyped
  <2>2. readFrom' \in [Members -> [Partitions -> 0..MaxOffsetOf]]
    <3>1. rf + 1 \in 0..MaxOffsetOf
      BY <1>1, RebalanceAssumption
    <3> QED BY <3>1 DEF Poll, RgTyped
  <2> QED BY <2>1, <2>2, <1>1 DEF RgTyped
<1>4. Executed' = Executed
  BY <1>1 DEF Executed
<1>5. \A x \in Members, q \in Partitions : x # w \/ q # p => SamePair(x, q)
  BY <1>1 DEF SamePair, HasPolled
<1>6. \A x \in Members, q \in Partitions : Buffered(x, q)' = Buffered(x, q)
  BY <1>1 DEF Buffered
<1>7. HasPolled(w, p)' /\ polled'[w][2] = rf
  BY <1>1, <1>2, MessageIsPair DEF HasPolled
<1>8. guard[w].last[p] \in Int /\ groupOffset[p] \in Int
  BY DEF RgTyped, GuardType
<1>9. ReadPair(w, p)'
  <2>1. p \notin crossed' => guard'[w].last[p] < readFrom'[w][p] /\ guard'[w].last[p] < rf
    BY <1>1, <1>8 DEF ReadInv, ReadPair
  <2>2. ASSUME p \notin crossed', NEW m \in Messages, m[1] = p, m[2] < readFrom'[w][p]
        PROVE m \in Executed' \cup refused' \cup Buffered(w, p)' \cup {polled'[w]}
    <3>1. CASE m[2] = rf
      BY <3>1, <2>2, <1>1, MessageIsPair
    <3>2. CASE m[2] # rf
      <4>1. m[2] < rf
        BY <3>2, <2>2, <1>1, MessageIsPair
      <4>2. m # polled[w]
        BY <1>1, MessageIsPair
      <4> QED BY <4>1, <4>2, <2>2, <1>1, <1>4, <1>6 DEF ReadInv, ReadPair
    <3> QED BY <3>1, <3>2
  <2>3. \A m \in Buffered(w, p)' : m[1] = p /\ m[2] <= guard'[w].last[p]
    BY <1>1, <1>6 DEF ReadInv, ReadPair
  <2> QED BY <2>1, <2>2, <2>3, <1>1, <1>7 DEF ReadPair
<1>10. OwnPair(w, p)'
  BY <1>1, <1>6, <1>7, <1>8 DEF OwnerInv, OwnPair
<1>11. \A x \in Members, q \in Partitions : ReadPair(x, q)' /\ OwnPair(x, q)'
  BY <1>1, <1>4, <1>5, <1>9, <1>10, SamePairKeeps DEF ReadInv, OwnerInv
<1>12. ReadInv' /\ OwnerInv'
  BY <1>1, <1>11 DEF ReadInv, OwnerInv
<1>13. KeyInv'
  BY <1>1, <1>6 DEF KeyInv
<1>14. RebalanceIsSafe'
  BY <1>1, <1>4 DEF RebalanceIsSafe
<1> QED BY <1>3, <1>12, <1>13, <1>14

\* A message that is fenced or refused leaves the guard as it is, and is accounted for.
LEMMA RefuseStep ==
  ASSUME RgInv, NEW w \in Members, polled[w] # Nothing,
         polled' = [polled EXCEPT ![w] = Nothing],
         \/ polled[w][1] \notin guard[w].active /\ refused' = refused
         \/ refused' = IF polled[w] \in Executed THEN refused ELSE refused \cup {polled[w]},
         UNCHANGED <<guard, owner, groupOffset, readFrom, moves, done, twice, settled, again, crossed,
                     evicted>>
  PROVE RgInv'
PROOF
<1> USE DEF RgInv
<1>1. polled'[w] = Nothing /\ \A x \in Members : x # w => polled'[x] = polled[x]
  BY DEF RgTyped
<1>2. polled[w] \in Messages
  BY DEF RgTyped
<1>3. RgTyped'
  <2>1. polled' \in [Members -> Messages \cup {Nothing}]
    BY DEF RgTyped
  <2>2. refused' \subseteq Messages
    BY <1>2 DEF RgTyped
  <2> QED BY <2>1, <2>2 DEF RgTyped
<1>4. Executed' = Executed
  BY DEF Executed
<1>5. refused \subseteq refused'
  OBVIOUS
<1>6. \A x \in Members, q \in Partitions : Buffered(x, q)' = Buffered(x, q)
  BY DEF Buffered
<1>7. \A x \in Members, q \in Partitions : x # w => SamePair(x, q)
  BY <1>1 DEF SamePair, HasPolled
<1>8. ASSUME NEW q \in Partitions PROVE ReadPair(w, q)' /\ OwnPair(w, q)'
  <2>1. ~HasPolled(w, q)'
    BY <1>1 DEF HasPolled
  <2>2. ASSUME q \in guard[w].active, q \notin crossed, NEW m \in Messages, m[1] = q,
               m[2] < readFrom[w][q]
        PROVE m \in Executed \cup refused' \cup Buffered(w, q)
    <3>1. m \in Executed \cup refused \cup Buffered(w, q) \cup {polled[w]}
      BY <2>2 DEF ReadInv, ReadPair
    <3> QED BY <3>1, <2>2, <1>5
  <2>3. ReadPair(w, q)'
    BY <2>1, <2>2, <1>4, <1>6 DEF ReadInv, ReadPair
  <2>4. OwnPair(w, q)'
    BY <2>1, <1>6 DEF OwnerInv, OwnPair
  <2> QED BY <2>3, <2>4
<1>9. \A x \in Members, q \in Partitions : ReadPair(x, q)' /\ OwnPair(x, q)'
  BY <1>4, <1>5, <1>7, <1>8, SamePairKeeps DEF ReadInv, OwnerInv
<1>10. ReadInv' /\ OwnerInv'
  BY <1>9 DEF ReadInv, OwnerInv
<1>11. KeyInv'
  BY <1>6 DEF KeyInv
<1>12. RebalanceIsSafe'
  BY <1>4, <1>5 DEF RebalanceIsSafe
<1> QED BY <1>3, <1>10, <1>11, <1>12

\* A guard that has admitted a message.
Admitted(g, m, p) ==
  [g EXCEPT !.keys = Remember(g.keys, m), !.buffer[p] = Append(g.buffer[p], m), !.last[p] = m[2]]

\* Guard f holds message m of partition p besides what guard g holds.
TookIn(g, m, p, f) ==
  /\ f \in GuardType /\ Len(f.keys) <= MaxKeys /\ m \in ToSet(f.keys)
  /\ f.active = g.active
  /\ ToSet(f.buffer[p]) = ToSet(g.buffer[p]) \cup {m} /\ f.last[p] = m[2]
  /\ \A q \in Partitions : q # p => f.buffer[q] = g.buffer[q] /\ f.last[q] = g.last[q]

\* What admitting a message changes in the guard.
LEMMA AdmitGuard ==
  ASSUME NEW g \in GuardType, NEW m \in Messages, Len(g.keys) <= MaxKeys, NEW p \in Partitions,
         NEW f, f = Admitted(g, m, p)
  PROVE TookIn(g, m, p, f)
PROOF
<1> DEFINE k == Remember(g.keys, m)
           a == Append(g.buffer[p], m)
           b == [g.buffer EXCEPT ![p] = a]
           l == [g.last EXCEPT ![p] = m[2]]
<1>1. /\ g.keys \in Seq(Messages) /\ g.buffer \in [Partitions -> Seq(Messages)]
      /\ g.last \in [Partitions -> Int] /\ m[2] \in Int
  BY MessageIsPair DEF GuardType
<1>2. k \in Seq(Messages) /\ Len(k) <= MaxKeys /\ m \in ToSet(k)
  BY <1>1, RememberHolds
<1>3. a \in Seq(Messages) /\ ToSet(a) = ToSet(g.buffer[p]) \cup {m}
  BY <1>1, AppendHolds
<1>4. f = [g EXCEPT !.keys = k, !.buffer = b, !.last = l]
  BY DEF GuardType, Admitted
<1> HIDE DEF k, a
<1>5. /\ b \in [Partitions -> Seq(Messages)] /\ b[p] = a
      /\ \A q \in Partitions : q # p => b[q] = g.buffer[q]
  BY <1>1, <1>3
<1>6. /\ l \in [Partitions -> Int] /\ l[p] = m[2]
      /\ \A q \in Partitions : q # p => l[q] = g.last[q]
  BY <1>1
<1> HIDE DEF b, l
<1>7. f \in GuardType /\ f.keys = k /\ f.buffer = b /\ f.last = l /\ f.active = g.active
  BY <1>2, <1>4, <1>5, <1>6 DEF GuardType
<1> QED BY <1>2, <1>3, <1>5, <1>6, <1>7 DEF TookIn

\* The step that admits message m of partition p.
Admits(w, m, p) ==
  /\ m = polled[w] /\ m # Nothing /\ p = m[1]
  /\ p \in guard[w].active /\ m \notin ToSet(guard[w].keys)
  /\ guard[w].last[p] = NoOffset \/ ~(m[2] <= guard[w].last[p])
  /\ polled' = [polled EXCEPT ![w] = Nothing]
  /\ guard' = [guard EXCEPT ![w].keys = Remember(@, m), ![w].buffer[p] = Append(@, m),
                            ![w].last[p] = m[2]]
  /\ evicted' = [evicted EXCEPT ![w] = @ \cup (ToSet(guard[w].keys) \ ToSet(guard'[w].keys))]
  /\ UNCHANGED <<owner, groupOffset, readFrom, moves, done, twice, refused, settled, again, crossed>>

\* A message that is admitted comes after all that the worker took of its partition.
LEMMA AdmitStep ==
  ASSUME RgInv, NEW w \in Members, NEW m, NEW p, Admits(w, m, p)
  PROVE RgInv'
PROOF
<1> USE DEF RgInv
<1> DEFINE f == guard'[w]
<1>0. /\ m = polled[w] /\ m # Nothing /\ p = m[1]
      /\ p \in guard[w].active /\ m \notin ToSet(guard[w].keys)
      /\ UNCHANGED <<owner, groupOffset, readFrom, moves, done, twice, refused, settled, again, crossed>>
  BY DEF Admits
<1>1. m \in Messages /\ p \in Partitions /\ guard[w] \in GuardType /\ Len(guard[w].keys) <= MaxKeys
  BY <1>0, MessageIsPair DEF RgTyped
<1>2. f = Admitted(guard[w], m, p)
  BY <1>1 DEF RgTyped, GuardType, Admitted, Admits
<1>3. /\ f \in GuardType /\ Len(f.keys) <= MaxKeys /\ m \in ToSet(f.keys)
      /\ f.active = guard[w].active
      /\ ToSet(f.buffer[p]) = ToSet(guard[w].buffer[p]) \cup {m} /\ f.last[p] = m[2]
      /\ \A q \in Partitions : q # p => f.buffer[q] = guard[w].buffer[q] /\ f.last[q] = guard[w].last[q]
  <2> HIDE DEF f
  <2>1. TookIn(guard[w], m, p, f)
    BY <1>1, <1>2, AdmitGuard
  <2> QED BY <2>1 DEF TookIn
<1>4. DOMAIN guard' = Members /\ \A x \in Members : x # w => guard'[x] = guard[x]
  BY DEF RgTyped, Admits
<1>5. polled'[w] = Nothing /\ \A x \in Members : x # w => polled'[x] = polled[x]
  BY DEF RgTyped, Admits
<1>6. /\ evicted'[w] = evicted[w] \cup (ToSet(guard[w].keys) \ ToSet(f.keys))
      /\ \A x \in Members : x # w => evicted'[x] = evicted[x]
  BY DEF RgTyped, Admits
<1>7. RgTyped'
  <2>1. guard' \in [Members -> GuardType]
    <3>1. guard' = [x \in Members |-> guard'[x]]
      BY ZenonT(60) DEF RgTyped, Admits
    <3>2. \A x \in Members : guard'[x] \in GuardType
      BY <1>3, <1>4 DEF RgTyped
    <3> QED BY <3>1, <3>2
  <2>2. polled' \in [Members -> Messages \cup {Nothing}]
    BY DEF RgTyped, Admits
  <2>3. ToSet(guard[w].keys) \subseteq Messages
    BY <1>1 DEF GuardType, ToSet
  <2>4. evicted' \in [Members -> SUBSET Messages]
    BY <2>3 DEF RgTyped, Admits
  <2>5. ASSUME NEW x \in Members
        PROVE /\ Len(guard'[x].keys) <= MaxKeys
              /\ \A q \in Partitions : guard'[x].last[q] \in {NoOffset} \cup 0..(MaxOffsetOf - 1)
    <3>1. CASE x = w
      <4>1. m[2] \in 0..(MaxOffsetOf - 1)
        BY <1>1, MessageIsPair
      <4> QED BY <4>1, <3>1, <1>3 DEF RgTyped
    <3>2. CASE x # w
      BY <3>2, <1>4 DEF RgTyped
    <3> QED BY <3>1, <3>2
  <2> QED BY <2>1, <2>2, <2>4, <2>5, <1>0 DEF RgTyped
<1> HIDE DEF f
<1>8. Executed' = Executed
  BY <1>0 DEF Executed
<1>9. \A x \in Members, q \in Partitions : x # w => SamePair(x, q)
  BY <1>0, <1>4, <1>5 DEF SamePair, HasPolled
<1>10. /\ Buffered(w, p)' = Buffered(w, p) \cup {m}
       /\ \A x \in Members, q \in Partitions : x # w \/ q # p => Buffered(x, q)' = Buffered(x, q)
  <2>1. ToSet(guard'[w].buffer[p]) = ToSet(guard[w].buffer[p]) \cup {m}
    BY <1>3 DEF f
  <2>2. \A x \in Members, q \in Partitions : x # w \/ q # p => guard'[x].buffer[q] = guard[x].buffer[q]
    BY <1>3, <1>4 DEF f
  <2> QED BY <2>1, <2>2 DEF Buffered
<1>11. /\ HasPolled(w, p) /\ \A q \in Partitions : ~HasPolled(w, q)'
       /\ \A q \in Partitions : HasPolled(w, q) => q = p
  BY <1>0, <1>5 DEF HasPolled
<1>12. \A q \in Partitions : guard[w].last[q] \in Int /\ readFrom[w][q] \in Int
                          /\ groupOffset[q] \in Int /\ m[2] \in Int
  BY <1>1, MessageIsPair DEF RgTyped, GuardType
<1>13. /\ p \notin crossed => m[2] = readFrom[w][p] - 1
       /\ \A x \in Buffered(w, p) : x[1] = p /\ x[2] <= guard[w].last[p]
       /\ guard[w].last[p] < m[2]
  <2>1. /\ p \notin crossed => m[2] = readFrom[w][p] - 1
        /\ \A x \in Buffered(w, p) : x[1] = p /\ x[2] <= guard[w].last[p]
    BY <1>0, <1>1, <1>11 DEF ReadInv, ReadPair
  <2>2. m[2] \in Nat /\ (guard[w].last[p] = NoOffset \/ ~(m[2] <= guard[w].last[p]))
    BY <1>0, <1>1, MessageIsPair DEF Admits
  <2>3. guard[w].last[p] < m[2]
    BY <2>2, <1>1, <1>12 DEF NoOffset
  <2> QED BY <2>1, <2>3
<1>14. ASSUME NEW q \in Partitions, q # p PROVE SamePair(w, q)
  <2>1. /\ guard'[w].buffer[q] = guard[w].buffer[q] /\ guard'[w].last[q] = guard[w].last[q]
        /\ guard'[w].active = guard[w].active
    BY <1>14, <1>3 DEF f
  <2>2. HasPolled(w, q)' = FALSE /\ HasPolled(w, q) = FALSE
    BY <1>14, <1>11 DEF HasPolled
  <2> QED BY <2>1, <2>2, <1>0 DEF SamePair
<1>15. ReadPair(w, p)'
  <2>1. ASSUME NEW x \in Buffered(w, p)' PROVE x[1] = p /\ x[2] <= m[2]
    <3>1. CASE x = m
      BY <3>1, <1>0, <1>12, <1>1
    <3>2. CASE x # m
      <4>1. x \in Buffered(w, p)
        BY <2>1, <3>2, <1>10
      <4>2. x \in Messages
        <5>1. guard[w].buffer[p] \in Seq(Messages)
          BY <1>1 DEF GuardType
        <5> QED BY <5>1, <4>1 DEF Buffered, ToSet
      <4>3. x[2] \in Int
        BY <4>2, MessageIsPair
      <4> QED BY <4>1, <4>3, <1>1, <1>12, <1>13
    <3> QED BY <3>1, <3>2
  <2>2. guard'[w].last[p] = m[2] /\ guard'[w].active = guard[w].active
    BY <1>3 DEF f
  <2>3. p \notin crossed => guard'[w].last[p] < readFrom'[w][p]
    <3>1. readFrom'[w][p] = readFrom[w][p] /\ readFrom[w][p] \in Int
      BY <1>0, <1>1, <1>12
    <3> QED BY <3>1, <2>2, <1>13
  <2>4. ASSUME p \notin crossed, NEW x \in Messages, x[1] = p, x[2] < readFrom[w][p]
        PROVE x \in Executed \cup refused \cup Buffered(w, p)'
    BY <2>4, <1>0, <1>1, <1>10 DEF ReadInv, ReadPair
  <2> QED BY <2>1, <2>2, <2>3, <2>4, <1>0, <1>1, <1>8, <1>11 DEF ReadPair
<1>16. OwnPair(w, p)'
  <2>1. ASSUME owner[p] = w, p \notin crossed PROVE groupOffset[p] <= m[2]
    BY <2>1, <1>0, <1>1, <1>11 DEF OwnerInv, OwnPair
  <2>2. guard'[w].last[p] = m[2] /\ guard'[w].active = guard[w].active
    BY <1>3 DEF f
  <2> QED BY <2>1, <2>2, <1>0, <1>1, <1>10, <1>11 DEF OwnerInv, OwnPair
<1>17. \A x \in Members, q \in Partitions : ReadPair(x, q)' /\ OwnPair(x, q)'
  BY <1>0, <1>8, <1>9, <1>14, <1>15, <1>16, SamePairKeeps DEF ReadInv, OwnerInv
<1>18. ReadInv' /\ OwnerInv'
  BY <1>0, <1>17 DEF ReadInv, OwnerInv
<1>19. KeyInv'
  <2> DEFINE known == ToSet(guard[w].keys) \cup evicted[w]
             known2 == ToSet(f.keys) \cup evicted'[w]
  <2>1. known \subseteq known2 /\ m \in known2 /\ evicted[w] \subseteq evicted'[w]
    BY <1>3, <1>6
  <2>2. m \in done[w] => m \in evicted[w]
    BY <1>0 DEF KeyInv
  <2>3. ASSUME NEW q \in Partitions
        PROVE Buffered(w, q)' \subseteq known2 /\ Buffered(w, q)' \cap done[w] \subseteq evicted'[w]
    <3>1. Buffered(w, q)' \subseteq Buffered(w, q) \cup {m}
      BY <1>10
    <3>2. Buffered(w, q) \subseteq known /\ Buffered(w, q) \cap done[w] \subseteq evicted[w]
      BY DEF KeyInv
    <3> HIDE DEF known, known2
    <3> QED BY <2>1, <2>2, <3>1, <3>2
  <2>4. done[w] \subseteq known2
    BY <2>1 DEF KeyInv
  <2>5. ASSUME NEW x \in Members, x # w
        PROVE /\ done'[x] \subseteq ToSet(guard'[x].keys) \cup evicted'[x]
              /\ \A q \in Partitions : /\ Buffered(x, q)' \subseteq ToSet(guard'[x].keys) \cup evicted'[x]
                                      /\ Buffered(x, q)' \cap done'[x] \subseteq evicted'[x]
    BY <2>5, <1>0, <1>4, <1>6, <1>10 DEF KeyInv
  <2>6. known2 = ToSet(guard'[w].keys) \cup evicted'[w]
    BY DEF f
  <2> HIDE DEF known, known2
  <2> QED BY <2>3, <2>4, <2>5, <2>6, <1>0 DEF KeyInv
<1>20. RebalanceIsSafe'
  <2>1. \A x \in Members : evicted[x] \subseteq evicted'[x]
    BY <1>6
  <2> QED BY <2>1, <1>0, <1>8 DEF RebalanceIsSafe, RgTyped
<1> QED BY <1>7, <1>18, <1>19, <1>20

\* What fencing leaves of a guard's pairs, and the types after a step that fences.
LEMMA FenceGuard ==
  ASSUME RgTyped, NEW w \in Members, NEW parts \in SUBSET Partitions,
         guard' = [guard EXCEPT ![w] = Fenced(@, parts)]
  PROVE /\ guard' \in [Members -> GuardType]
        /\ \A x \in Members : guard'[x].keys = guard[x].keys
        /\ \A x \in Members : x # w => guard'[x] = guard[x]
        /\ guard'[w].active = guard[w].active \ parts
        /\ \A p \in parts : guard'[w].buffer[p] = <<>> /\ guard'[w].last[p] = NoOffset
        /\ \A p \in Partitions \ parts : /\ guard'[w].buffer[p] = guard[w].buffer[p]
                                         /\ guard'[w].last[p] = guard[w].last[p]
        /\ \A x \in Members :
             /\ Len(guard'[x].keys) <= MaxKeys
             /\ \A p \in Partitions : guard'[x].last[p] \in {NoOffset} \cup 0..(MaxOffsetOf - 1)
PROOF
<1> DEFINE f == Fenced(guard[w], parts)
<1>1. guard[w] \in GuardType
  BY DEF RgTyped
<1>2. /\ f \in GuardType /\ f.active = guard[w].active \ parts /\ f.keys = guard[w].keys
      /\ \A p \in parts : f.buffer[p] = <<>> /\ f.last[p] = NoOffset
      /\ \A p \in Partitions \ parts : f.buffer[p] = guard[w].buffer[p] /\ f.last[p] = guard[w].last[p]
  BY <1>1, FencedHolds
<1> HIDE DEF f
<1>3. guard' = [guard EXCEPT ![w] = f]
  BY DEF f
<1>4. /\ guard' \in [Members -> GuardType] /\ guard'[w] = f
      /\ \A x \in Members : x # w => guard'[x] = guard[x]
  BY <1>2, <1>3 DEF RgTyped
<1>5. \A x \in Members : guard'[x].keys = guard[x].keys
  BY <1>2, <1>4
<1>6. ASSUME NEW x \in Members, NEW p \in Partitions
      PROVE guard'[x].last[p] \in {NoOffset} \cup 0..(MaxOffsetOf - 1)
  <2>1. guard'[x].last[p] = NoOffset \/ guard'[x].last[p] = guard[x].last[p]
    BY <1>2, <1>4
  <2> QED BY <2>1 DEF RgTyped
<1>7. \A x \in Members : Len(guard'[x].keys) <= MaxKeys
  BY <1>5 DEF RgTyped
<1> QED BY <1>2, <1>4, <1>5, <1>6, <1>7

\* What is held of the fenced partitions is gone, the rest is as it was.
LEMMA FencePairs ==
  ASSUME RgTyped, NEW w \in Members, NEW parts \in SUBSET Partitions,
         guard' = [guard EXCEPT ![w] = Fenced(@, parts)], UNCHANGED <<readFrom, polled>>
  PROVE /\ \A x \in Members, p \in Partitions : x # w \/ p \notin parts => SamePair(x, p)
        /\ \A p \in parts : ReadPair(w, p)' /\ Buffered(w, p)' = {}
        /\ \A x \in Members, p \in Partitions : Buffered(x, p)' \subseteq Buffered(x, p)
PROOF
<1>1. /\ \A x \in Members : x # w => guard'[x] = guard[x]
      /\ guard'[w].active = guard[w].active \ parts
      /\ \A p \in parts : guard'[w].buffer[p] = <<>> /\ guard'[w].last[p] = NoOffset
      /\ \A p \in Partitions \ parts : /\ guard'[w].buffer[p] = guard[w].buffer[p]
                                       /\ guard'[w].last[p] = guard[w].last[p]
  BY ZenonT(60), FenceGuard
<1>2. ASSUME NEW x \in Members, NEW p \in Partitions, x # w \/ p \notin parts PROVE SamePair(x, p)
  <2>1. HasPolled(x, p)' = HasPolled(x, p)
    BY DEF HasPolled
  <2>2. /\ guard'[x].last[p] = guard[x].last[p] /\ guard'[x].buffer[p] = guard[x].buffer[p]
        /\ p \in guard'[x].active <=> p \in guard[x].active
    BY <1>1, <1>2
  <2> QED BY <2>1, <2>2 DEF SamePair
<1>3. ASSUME NEW p \in parts PROVE ReadPair(w, p)' /\ Buffered(w, p)' = {}
  <2>1. Buffered(w, p)' = {}
    BY <1>1, EmptyHoldsNothing DEF Buffered
  <2>2. p \notin guard'[w].active /\ guard'[w].last[p] = NoOffset
    BY <1>1
  <2> QED BY <2>1, <2>2 DEF ReadPair
<1>4. ASSUME NEW x \in Members, NEW p \in Partitions PROVE Buffered(x, p)' \subseteq Buffered(x, p)
  <2>1. CASE x # w \/ p \notin parts
    BY <2>1, <1>2 DEF SamePair, Buffered
  <2>2. CASE x = w /\ p \in parts
    BY <2>2, <1>3
  <2> QED BY <2>1, <2>2
<1> QED BY <1>2, <1>3, <1>4

\* A partition lost is not the worker's any more; nothing is executed or committed.
LEMMA LostStep ==
  ASSUME RgInv, NEW w \in Members, NEW parts \in SUBSET guard[w].active, OnPartitionsLost(w, parts)
  PROVE RgInv'
PROOF
<1> USE DEF RgInv
<1>0. /\ \A p \in parts : owner[p] # w
      /\ guard' = [guard EXCEPT ![w] = Fenced(@, parts)]
      /\ UNCHANGED <<owner, groupOffset, readFrom, polled, moves, done, twice, refused, settled, again,
                     crossed, evicted>>
  BY DEF OnPartitionsLost, rgObservers
<1>1. parts \in SUBSET Partitions
  BY DEF RgTyped, GuardType
<1>2. RgTyped'
  <2>1. /\ guard' \in [Members -> GuardType]
        /\ \A x \in Members :
             /\ Len(guard'[x].keys) <= MaxKeys
             /\ \A p \in Partitions : guard'[x].last[p] \in {NoOffset} \cup 0..(MaxOffsetOf - 1)
    BY <1>0, <1>1, FenceGuard
  <2> QED BY <2>1, <1>0 DEF RgTyped
<1>3. \A x \in Members : guard'[x].keys = guard[x].keys
  BY <1>0, <1>1, FenceGuard
<1>4. /\ \A x \in Members, p \in Partitions : x # w \/ p \notin parts => SamePair(x, p)
      /\ \A p \in parts : ReadPair(w, p)' /\ Buffered(w, p)' = {}
      /\ \A x \in Members, p \in Partitions : Buffered(x, p)' \subseteq Buffered(x, p)
  BY <1>0, <1>1, FencePairs
<1>5. Executed' = Executed
  BY <1>0 DEF Executed
<1>6. \A x \in Members, p \in Partitions : x # w \/ p \notin parts => ReadPair(x, p)' /\ OwnPair(x, p)'
  BY <1>0, <1>4, <1>5, SamePairKeeps DEF ReadInv, OwnerInv
<1>7. \A p \in parts : OwnPair(w, p)'
  BY <1>0 DEF OwnPair
<1>8. ReadInv' /\ OwnerInv'
  BY <1>0, <1>4, <1>6, <1>7 DEF ReadInv, OwnerInv
<1>9. KeyInv'
  <2>1. \A x \in Members, p \in Partitions :
          /\ Buffered(x, p) \subseteq ToSet(guard[x].keys) \cup evicted[x]
          /\ Buffered(x, p) \cap done[x] \subseteq evicted[x]
          /\ done[x] \subseteq ToSet(guard[x].keys) \cup evicted[x]
    BY DEF KeyInv
  <2>2. \A x \in Members, p \in Partitions :
          /\ Buffered(x, p)' \subseteq ToSet(guard'[x].keys) \cup evicted'[x]
          /\ Buffered(x, p)' \cap done'[x] \subseteq evicted'[x]
    BY <2>1, <1>0, <1>3, <1>4
  <2>3. \A x \in Members : done'[x] \subseteq ToSet(guard'[x].keys) \cup evicted'[x]
    BY <1>0, <1>3 DEF KeyInv
  <2> QED BY <2>2, <2>3 DEF KeyInv
<1>10. RebalanceIsSafe'
  BY <1>0, <1>5 DEF RebalanceIsSafe
<1> QED BY <1>2, <1>8, <1>9, <1>10

\* A member the group has given up on may go on processing, but owns nothing.
LEMMA EvictStep ==
  ASSUME RgInv, NEW p \in Partitions, GroupEvicts(p)
  PROVE RgInv'
PROOF
<1> USE DEF RgInv
<1>1. /\ owner'[p] = Nobody /\ Nobody \notin Members
      /\ \A q \in Partitions : q # p => owner'[q] = owner[q]
      /\ owner' \in [Partitions -> Members \cup {Nobody}]
      /\ UNCHANGED <<guard, groupOffset, readFrom, polled, moves, done, twice, refused, settled, again,
                     crossed, evicted>>
  BY RebalanceAssumption DEF GroupEvicts, RgTyped, rgObservers
<1>2. RgTyped'
  BY <1>1 DEF RgTyped
<1>3. Executed' = Executed
  BY <1>1 DEF Executed
<1>4. \A x \in Members, q \in Partitions : SamePair(x, q) /\ Buffered(x, q)' = Buffered(x, q)
  BY <1>1 DEF SamePair, HasPolled, Buffered
<1>5. \A x \in Members, q \in Partitions : ReadPair(x, q)' /\ OwnPair(x, q)'
  BY <1>1, <1>3, <1>4, SamePairKeeps DEF ReadInv, OwnerInv
<1>6. ReadInv' /\ OwnerInv'
  BY <1>1, <1>5 DEF ReadInv, OwnerInv
<1>7. KeyInv'
  BY <1>1, <1>4 DEF KeyInv
<1>8. RebalanceIsSafe'
  BY <1>1, <1>3 DEF RebalanceIsSafe
<1> QED BY <1>2, <1>6, <1>7, <1>8

\* The messages the flushes of a revocation execute.
Ran(w, parts, raising, reached) ==
  UNION {{guard[w].buffer[p][i] : i \in 1..(IF p \in raising THEN reached[p]
                                            ELSE Len(guard[w].buffer[p]))} : p \in parts}

\* They are buffered messages of those partitions, all of them where no flush raised.
LEMMA RanHolds ==
  ASSUME RgTyped, NEW w \in Members, NEW parts \in SUBSET Partitions, NEW raising \in SUBSET parts,
         NEW reached \in [parts -> 0..MaxOffsetOf],
         \A p \in parts : reached[p] <= (IF p \in raising THEN Len(guard[w].buffer[p]) ELSE 0)
  PROVE /\ \A m \in Ran(w, parts, raising, reached) : \E p \in parts : m \in Buffered(w, p)
        /\ \A p \in parts \ raising : Buffered(w, p) \subseteq Ran(w, parts, raising, reached)
        /\ \A p \in Partitions : Buffered(w, p) \subseteq Messages
PROOF
<1> DEFINE n(p) == IF p \in raising THEN reached[p] ELSE Len(guard[w].buffer[p])
<1>1. \A p \in Partitions : guard[w].buffer[p] \in Seq(Messages)
  BY DEF RgTyped, GuardType
<1>2. \A p \in Partitions : /\ Len(guard[w].buffer[p]) \in Nat
                            /\ DOMAIN guard[w].buffer[p] = 1..Len(guard[w].buffer[p])
  BY <1>1
<1>3. \A p \in parts : n(p) \in Nat /\ n(p) <= Len(guard[w].buffer[p])
  BY <1>2, RebalanceAssumption
<1>4. ASSUME NEW m \in Ran(w, parts, raising, reached) PROVE \E p \in parts : m \in Buffered(w, p)
  <2>1. PICK p \in parts : m \in {guard[w].buffer[p][i] : i \in 1..n(p)}
    BY <1>4 DEF Ran
  <2>2. PICK i \in 1..n(p) : m = guard[w].buffer[p][i]
    BY <2>1
  <2>3. i \in 1..Len(guard[w].buffer[p])
    <3> HIDE DEF n
    <3> QED BY <1>2, <1>3
  <2>4. m \in Buffered(w, p)
    BY <2>2, <2>3, <1>2 DEF Buffered, ToSet
  <2> QED BY <2>4
<1>5. ASSUME NEW p \in parts \ raising PROVE Buffered(w, p) \subseteq Ran(w, parts, raising, reached)
  <2>1. Buffered(w, p) = {guard[w].buffer[p][i] : i \in 1..n(p)}
    BY <1>2 DEF Buffered, ToSet
  <2> QED BY <2>1 DEF Ran
<1>6. ASSUME NEW p \in Partitions PROVE Buffered(w, p) \subseteq Messages
  BY <1>1, <1>2 DEF Buffered, ToSet
<1> QED BY <1>4, <1>5, <1>6

\* A revocation executes what was buffered and commits no further than that.
LEMMA RevokeStep ==
  ASSUME RgInv, NEW w \in Members, NEW parts \in SUBSET guard[w].active,
         NEW raising \in SUBSET parts, NEW commits \in BOOLEAN,
         NEW reached \in [parts -> 0..MaxOffsetOf],
         \A p \in parts : reached[p] <= (IF p \in raising THEN Len(guard[w].buffer[p]) ELSE 0),
         OnPartitionsRevoked(w, parts, raising, reached, commits)
  PROVE RgInv'
PROOF
<1> USE DEF RgInv
<1> DEFINE ran == Ran(w, parts, raising, reached)
           toCommit == {p \in parts \ raising : guard[w].last[p] # NoOffset}
           kept == IF commits THEN toCommit ELSE {}
<1>0. /\ commits => \A p \in toCommit : owner[p] = w
      /\ guard' = [guard EXCEPT ![w] = Fenced(@, parts)]
      /\ groupOffset' = [p \in Partitions |-> IF commits /\ p \in toCommit THEN guard[w].last[p] + 1
                                              ELSE groupOffset[p]]
      /\ owner' = [p \in Partitions |-> IF p \in parts /\ owner[p] = w THEN Nobody ELSE owner[p]]
      /\ done' = [done EXCEPT ![w] = @ \cup ran]
      /\ twice' = twice \cup {<<w, m>> : m \in ran \cap done[w]}
      /\ settled' = settled \cup (IF commits THEN {m \in ran : m[1] \in toCommit} ELSE {})
      /\ again' = again \cup {[by |-> w, msg |-> m, owned |-> owner[m[1]] = w] : m \in ran \cap settled}
      /\ UNCHANGED <<readFrom, polled, moves, refused, crossed, evicted>>
  BY DEF OnPartitionsRevoked, Ran, NextOffset
<1>1. parts \in SUBSET Partitions /\ Nobody \notin Members
  BY RebalanceAssumption DEF RgTyped, GuardType
<1>2. /\ \A m \in ran : \E p \in parts : m \in Buffered(w, p)
      /\ \A p \in parts \ raising : Buffered(w, p) \subseteq ran
      /\ \A p \in Partitions : Buffered(w, p) \subseteq Messages
  BY <1>1, RanHolds
<1>3. /\ guard' \in [Members -> GuardType]
      /\ \A x \in Members : guard'[x].keys = guard[x].keys
      /\ \A x \in Members :
           /\ Len(guard'[x].keys) <= MaxKeys
           /\ \A p \in Partitions : guard'[x].last[p] \in {NoOffset} \cup 0..(MaxOffsetOf - 1)
  BY <1>0, <1>1, FenceGuard
<1>4. /\ \A x \in Members, p \in Partitions : x # w \/ p \notin parts => SamePair(x, p)
      /\ \A p \in parts : ReadPair(w, p)' /\ Buffered(w, p)' = {}
      /\ \A x \in Members, p \in Partitions : Buffered(x, p)' \subseteq Buffered(x, p)
  BY <1>0, <1>1, FencePairs
<1>5. /\ kept \subseteq parts \ raising /\ \A p \in kept : owner[p] = w /\ guard[w].last[p] # NoOffset
      /\ \A p \in kept : groupOffset'[p] = guard[w].last[p] + 1
      /\ \A p \in Partitions \ kept : groupOffset'[p] = groupOffset[p]
      /\ \A m \in settled' : m \in settled \/ (m \in ran /\ m[1] \in kept)
  BY <1>0, <1>1
<1>6. /\ \A p \in parts : owner'[p] # w /\ (owner[p] # w => owner'[p] = owner[p])
      /\ \A p \in parts : owner[p] = w => owner'[p] = Nobody
      /\ \A p \in Partitions \ parts : owner'[p] = owner[p]
  BY <1>0, <1>1 DEF RgTyped
<1>7. /\ done'[w] = done[w] \cup ran /\ \A x \in Members : x # w => done'[x] = done[x]
  BY <1>0 DEF RgTyped
<1>8. /\ twice' = twice \cup {<<w, m>> : m \in ran \cap done[w]}
      /\ again' = again \cup {[by |-> w, msg |-> m, owned |-> owner[m[1]] = w] : m \in ran \cap settled}
      /\ UNCHANGED <<readFrom, polled, moves, refused, crossed, evicted>>
  BY <1>0
<1>9. /\ owner' \in [Partitions -> Members \cup {Nobody}] /\ DOMAIN groupOffset' = Partitions
      /\ done' = [x \in Members |-> done'[x]]
  BY <1>0 DEF RgTyped
<1>10. groupOffset' = [p \in Partitions |-> groupOffset'[p]]
  BY <1>0
<1> HIDE DEF ran, toCommit, kept
<1>11. \A m \in ran : m \in Messages /\ m[1] \in parts /\ m \in Buffered(w, m[1])
                   /\ m[2] <= guard[w].last[m[1]]
  <2> SUFFICES ASSUME NEW m \in ran
               PROVE m \in Messages /\ m[1] \in parts /\ m \in Buffered(w, m[1])
                     /\ m[2] <= guard[w].last[m[1]]
    OBVIOUS
  <2>1. PICK p \in parts : m \in Buffered(w, p)
    BY <1>2
  <2>2. m[1] = p /\ m[2] <= guard[w].last[p] /\ m \in Messages
    BY <2>1, <1>1, <1>2 DEF ReadInv, ReadPair
  <2> QED BY <2>1, <2>2
<1>12. \A p \in Partitions : /\ guard[w].last[p] \in {NoOffset} \cup 0..(MaxOffsetOf - 1)
                             /\ groupOffset[p] \in 0..MaxOffsetOf /\ MaxOffsetOf \in Nat
  BY RebalanceAssumption DEF RgTyped
<1>13. \A p \in Partitions : /\ groupOffset'[p] \in 0..MaxOffsetOf
                             /\ p \notin crossed => groupOffset[p] <= groupOffset'[p]
  <2> SUFFICES ASSUME NEW p \in Partitions
               PROVE /\ groupOffset'[p] \in 0..MaxOffsetOf
                     /\ p \notin crossed => groupOffset[p] <= groupOffset'[p]
    OBVIOUS
  <2>1. CASE p \in kept
    <3>1. owner[p] = w /\ guard[w].last[p] # NoOffset /\ groupOffset'[p] = guard[w].last[p] + 1
      BY <2>1, <1>5
    <3>2. p \notin crossed => groupOffset[p] <= guard[w].last[p]
      BY <3>1 DEF OwnerInv, OwnPair
    <3> QED BY <3>1, <3>2, <1>12 DEF NoOffset
  <2>2. CASE p \notin kept
    <3>1. groupOffset'[p] = groupOffset[p]
      BY <2>2, <1>5
    <3> QED BY <3>1, <1>12
  <2> QED BY <2>1, <2>2
<1>14. RgTyped'
  <2>1. groupOffset' \in [Partitions -> 0..MaxOffsetOf]
    BY <1>10, <1>13
  <2>2. ran \subseteq Messages
    BY <1>11
  <2>3. \A x \in Members : done'[x] \subseteq Messages
    BY <2>2, <1>7 DEF RgTyped
  <2>4. done' \in [Members -> SUBSET Messages]
    BY <2>3, <1>9
  <2>5. twice' \subseteq Members \X Messages
    BY <2>2, <1>8 DEF RgTyped
  <2>6. settled' \subseteq Messages
    BY <2>2, <1>5 DEF RgTyped
  <2>7. again' \subseteq [by : Members, msg : Messages, owned : BOOLEAN]
    <3>1. \A m \in ran : [by |-> w, msg |-> m, owned |-> owner[m[1]] = w]
                          \in [by : Members, msg : Messages, owned : BOOLEAN]
      BY <2>2
    <3>2. again \subseteq [by : Members, msg : Messages, owned : BOOLEAN]
      BY DEF RgTyped
    <3> QED BY <3>1, <3>2, <1>8, ZenonT(30)
  <2> QED BY <2>1, <2>4, <2>5, <2>6, <2>7, <1>3, <1>8, <1>9 DEF RgTyped
<1>15. Executed \subseteq Executed' /\ ran \subseteq Executed'
  BY <1>7 DEF Executed
<1>16. \A x \in Members, p \in Partitions : owner'[p] = x => owner[p] = x /\ groupOffset'[p] = groupOffset[p]
  BY <1>1, <1>5, <1>6
<1>17. \A x \in Members, p \in Partitions : x # w \/ p \notin parts => ReadPair(x, p)' /\ OwnPair(x, p)'
  <2> SUFFICES ASSUME NEW x \in Members, NEW p \in Partitions, x # w \/ p \notin parts
               PROVE ReadPair(x, p)' /\ OwnPair(x, p)'
    OBVIOUS
  <2>1. /\ SamePair(x, p) /\ ReadPair(x, p) /\ OwnPair(x, p)
        /\ refused \subseteq refused' /\ crossed \subseteq crossed'
    BY <1>4, <1>8 DEF ReadInv, OwnerInv
  <2> QED BY <2>1, <1>15, <1>16, SamePairKeeps
<1>18. \A p \in parts : OwnPair(w, p)'
  BY <1>6 DEF OwnPair
<1>19. ReadInv'
  BY <1>4, <1>17 DEF ReadInv
<1>20. OwnerInv'
  <2>1. ASSUME NEW m \in settled', m[1] \notin crossed' PROVE m[2] < groupOffset'[m[1]]
    <3>1. CASE m \in settled
      <4>1. m[2] < groupOffset[m[1]] /\ m \in Messages
        BY <3>1, <2>1, <1>8 DEF OwnerInv, RgTyped
      <4>2. m[1] \in Partitions /\ m[2] \in Int
        BY <4>1, MessageIsPair
      <4>3. groupOffset[m[1]] <= groupOffset'[m[1]] /\ groupOffset'[m[1]] \in Int
        BY <4>2, <2>1, <1>8, <1>12, <1>13
      <4> QED BY <4>1, <4>2, <4>3, <1>12
    <3>2. CASE m \notin settled
      <4>1. m \in ran /\ m[1] \in kept
        BY <3>2, <2>1, <1>5
      <4>2. m[2] <= guard[w].last[m[1]] /\ m[1] \in Partitions /\ m[2] \in Int
        BY <4>1, <1>11, MessageIsPair
      <4>3. groupOffset'[m[1]] = guard[w].last[m[1]] + 1 /\ guard[w].last[m[1]] \in Int
        BY <4>1, <4>2, <1>5, <1>12 DEF NoOffset
      <4> QED BY <4>2, <4>3
    <3> QED BY <3>1, <3>2
  <2> QED BY <2>1, <1>17, <1>18 DEF OwnerInv
<1>21. KeyInv'
  <2>1. \A x \in Members, p \in Partitions :
          /\ Buffered(x, p) \subseteq ToSet(guard[x].keys) \cup evicted[x]
          /\ Buffered(x, p) \cap done[x] \subseteq evicted[x]
    BY DEF KeyInv
  <2>2. ran \subseteq ToSet(guard[w].keys) \cup evicted[w]
    BY <2>1, <1>1, <1>11
  <2>3. \A x \in Members : done'[x] \subseteq ToSet(guard'[x].keys) \cup evicted'[x]
    BY <2>2, <1>3, <1>7, <1>8 DEF KeyInv
  <2>4. ASSUME NEW x \in Members, NEW p \in Partitions, NEW m \in Buffered(x, p)'
        PROVE m \in ToSet(guard'[x].keys) \cup evicted'[x] /\ (m \in done'[x] => m \in evicted'[x])
    <3>1. m \in Buffered(x, p) /\ m[1] = p
      BY <2>4, <1>4 DEF ReadInv, ReadPair
    <3>2. x = w => p \notin parts
      BY <2>4, <1>4
    <3>3. m \in done'[x] => m \in done[x]
      BY <3>1, <3>2, <1>7, <1>11
    <3> QED BY <3>1, <3>3, <2>1, <1>3, <1>8
  <2> QED BY <2>3, <2>4 DEF KeyInv
<1>22. RebalanceIsSafe'
  <2>1. ASSUME NEW m \in Messages, m[1] \notin crossed', m[2] < groupOffset'[m[1]]
        PROVE m \in Executed' \cup refused'
    <3>0. m[1] \notin crossed
      BY <2>1, <1>8
    <3>1. m[1] \in Partitions /\ m[2] \in Int
      BY MessageIsPair
    <3>2. CASE m[1] \in kept
      <4> DEFINE p == m[1]
      <4>1. p \in parts \ raising /\ p \in guard[w].active /\ groupOffset'[p] = guard[w].last[p] + 1
        BY <3>2, <1>5
      <4>2. guard[w].last[p] \in Int /\ readFrom[w][p] \in Int
        BY <3>1 DEF RgTyped, GuardType
      <4>3. guard[w].last[p] < readFrom[w][p] /\ (HasPolled(w, p) => guard[w].last[p] < polled[w][2])
        BY <3>0, <3>1, <4>1 DEF ReadInv, ReadPair
      <4>4. m[2] <= guard[w].last[p] /\ m[2] < readFrom[w][p]
        BY <2>1, <3>1, <4>1, <4>2, <4>3
      <4>5. m \in Executed \cup refused \cup Buffered(w, p) \cup {polled[w]}
        BY <3>0, <3>1, <4>1, <4>4 DEF ReadInv, ReadPair
      <4>6. m # polled[w]
        <5>1. SUFFICES ASSUME m = polled[w] PROVE FALSE
          OBVIOUS
        <5>2. HasPolled(w, p)
          BY <5>1, MessageIsPair DEF HasPolled
        <5>3. guard[w].last[p] < m[2]
          BY <5>1, <5>2, <4>3
        <5> QED BY <5>3, <4>2, <4>4, <3>1
      <4>7. Buffered(w, p) \subseteq ran
        BY <4>1, <1>2
      <4> QED BY <4>5, <4>6, <4>7, <1>8, <1>15
    <3>3. CASE m[1] \notin kept
      <4>1. m[2] < groupOffset[m[1]]
        BY <2>1, <3>1, <3>3, <1>5
      <4> QED BY <4>1, <3>0, <1>8, <1>15 DEF RebalanceIsSafe
    <3> QED BY <3>2, <3>3
  <2>2. ASSUME NEW m \in ran \cap settled, m[1] \notin crossed, owner[m[1]] = w PROVE FALSE
    <3>1. m[1] \in Partitions /\ m[2] \in Int /\ m \in Buffered(w, m[1])
      BY <1>11, MessageIsPair
    <3>2. groupOffset[m[1]] <= m[2]
      BY <3>1, <2>2 DEF OwnerInv, OwnPair
    <3>3. m[2] < groupOffset[m[1]]
      BY <2>2 DEF OwnerInv
    <3> QED BY <3>1, <3>2, <3>3, <1>12
  <2>3. ASSUME NEW x \in again', x.msg[1] \notin crossed' PROVE ~x.owned
    <3>1. CASE x \in again
      BY <3>1, <2>3, <1>8 DEF RebalanceIsSafe
    <3>2. CASE x \notin again
      <4>1. PICK m \in ran \cap settled : x = [by |-> w, msg |-> m, owned |-> owner[m[1]] = w]
        BY <3>2, <2>3, <1>8
      <4>2. x.msg = m /\ x.owned = (owner[m[1]] = w)
        BY <4>1
      <4> QED BY <4>2, <2>2, <2>3, <1>8
    <3> QED BY <3>1, <3>2
  <2>4. ASSUME NEW x \in twice' PROVE x[2] \in evicted'[x[1]]
    <3>1. CASE x \in twice
      BY <3>1, <1>8 DEF RebalanceIsSafe
    <3>2. CASE x \notin twice
      <4>1. PICK m \in ran \cap done[w] : x = <<w, m>>
        BY <3>2, <2>4, <1>8
      <4>2. m \in Buffered(w, m[1]) /\ m[1] \in Partitions
        BY <1>1, <1>11
      <4>3. m \in evicted[w]
        BY <4>2 DEF KeyInv
      <4> QED BY <4>1, <4>3, <1>8
    <3> QED BY <3>1, <3>2
  <2> QED BY <2>1, <2>3, <2>4 DEF RebalanceIsSafe
<1> QED BY <1>14, <1>19, <1>20, <1>21, <1>22

-----------------------------------------------------------------------------
(* The theorem. *)

\* Before any assignment no worker holds anything.
LEMMA RgStart == RgInit => RgInv
PROOF
<1> SUFFICES ASSUME RgInit PROVE RgInv
  OBVIOUS
<1> DEFINE g0 == [active |-> {}, keys |-> <<>>, buffer |-> [p \in Partitions |-> <<>>],
                  last |-> [p \in Partitions |-> NoOffset]]
<1>1. g0 \in GuardType
  <2>1. [p \in Partitions |-> <<>>] \in [Partitions -> Seq(Messages)]
    OBVIOUS
  <2>2. [p \in Partitions |-> NoOffset] \in [Partitions -> Int]
    BY DEF NoOffset
  <2> QED BY <2>1, <2>2 DEF GuardType
<1>2. /\ g0.active = {} /\ g0.keys = <<>>
      /\ \A p \in Partitions : g0.buffer[p] = <<>> /\ g0.last[p] = NoOffset
  OBVIOUS
<1> HIDE DEF g0
<1>3. /\ guard \in [Members -> GuardType] /\ \A w \in Members : guard[w] = g0
      /\ \A p \in Partitions : owner[p] = Nobody /\ groupOffset[p] = 0
      /\ \A w \in Members : done[w] = {}
      /\ twice = {} /\ refused = {} /\ settled = {} /\ again = {} /\ crossed = {}
  BY <1>1 DEF RgInit, g0
<1>4. RgTyped
  <2>1. Len(<<>>) <= MaxKeys
    BY RebalanceAssumption
  <2>2. 0 \in 0..MaxOffsetOf /\ 0 \in 0..MaxMoves
    BY RebalanceAssumption
  <2> QED BY <2>1, <2>2, <1>2, <1>3 DEF RgInit, RgTyped
<1>5. \A w \in Members, p \in Partitions : Buffered(w, p) = {} /\ guard[w].active = {}
                                        /\ guard[w].last[p] = NoOffset
  BY <1>2, <1>3, EmptyHoldsNothing DEF Buffered
<1>6. ReadInv
  BY <1>5 DEF ReadInv, ReadPair
<1>7. KeyInv
  BY <1>3, <1>5 DEF KeyInv
<1>8. OwnerInv
  BY <1>3, RebalanceAssumption DEF OwnerInv, OwnPair
<1>9. RebalanceIsSafe
  <2>1. \A m \in Messages : m[1] \in Partitions /\ ~(m[2] < groupOffset[m[1]])
    BY <1>3, MessageIsPair
  <2> QED BY <2>1, <1>3 DEF RebalanceIsSafe
<1> QED BY <1>4, <1>6, <1>7, <1>8, <1>9 DEF RgInv

\* A message presented to the guard is fenced, refused or admitted.
LEMMA ProcessStep ==
  ASSUME RgInv, NEW w \in Members, ProcessMessage(w)
  PROVE RgInv'
PROOF
<1> DEFINE m == polled[w]
<1>1. /\ m # Nothing /\ polled' = [polled EXCEPT ![w] = Nothing]
      /\ UNCHANGED <<owner, groupOffset, readFrom, moves, done, twice, settled, again, crossed>>
  BY DEF ProcessMessage
<1>2. CASE m[1] \notin guard[w].active /\ UNCHANGED <<guard, refused, evicted>>
  BY <1>1, <1>2, RefuseStep
<1>3. CASE /\ refused' = IF m \in Executed THEN refused ELSE refused \cup {m}
           /\ UNCHANGED <<guard, evicted>>
  BY <1>1, <1>3, RefuseStep
<1>4. CASE Admits(w, m, m[1])
  BY <1>4, AdmitStep
<1>5. \/ m[1] \notin guard[w].active /\ UNCHANGED <<guard, refused, evicted>>
      \/ /\ refused' = IF m \in Executed THEN refused ELSE refused \cup {m}
         /\ UNCHANGED <<guard, evicted>>
      \/ Admits(w, m, m[1])
  BY ZenonT(30) DEF ProcessMessage, Admits
<1> QED BY <1>2, <1>3, <1>4, <1>5

\* A step that changes nothing keeps the invariant.
LEMMA RgStutter == RgInv /\ UNCHANGED rgVars => RgInv'
BY DEF RgInv, RgTyped, ReadInv, ReadPair, KeyInv, OwnerInv, OwnPair, RebalanceIsSafe, Buffered,
       HasPolled, Executed, rgVars, rgObservers

\* Every step of the group keeps the invariant.
LEMMA RgStep == ASSUME RgInv, [RgNext]_rgVars PROVE RgInv'
PROOF
<1>1. CASE \E w \in Members, p \in Partitions : OnPartitionsAssigned(w, p)
  BY <1>1, AssignStep
<1>2. CASE \E w \in Members, p \in Partitions : Poll(w, p)
  BY <1>2, PollStep
<1>3. CASE \E w \in Members : ProcessMessage(w)
  BY <1>3, ProcessStep
<1>4. ASSUME NEW w \in Members, NEW parts \in SUBSET guard[w].active,
             NEW raising \in SUBSET parts, NEW commits \in BOOLEAN,
             NEW reached \in [parts -> 0..MaxOffsetOf],
             \A p \in parts : reached[p] <= (IF p \in raising THEN Len(guard[w].buffer[p]) ELSE 0),
             OnPartitionsRevoked(w, parts, raising, reached, commits)
      PROVE RgInv'
  BY <1>4, RevokeStep
<1>5. ASSUME NEW w \in Members, NEW parts \in SUBSET guard[w].active, OnPartitionsLost(w, parts)
      PROVE RgInv'
  BY <1>5, LostStep
<1>6. CASE \E p \in Partitions : GroupEvicts(p)
  BY <1>6, EvictStep
<1>7. CASE RgDone \/ UNCHANGED rgVars
  BY <1>7, RgStutter DEF RgDone
<1> QED BY <1>1, <1>2, <1>3, <1>4, <1>5, <1>6, <1>7 DEF RgNext

\* The types of the proof are those of the model.
LEMMA RgTypes == RgTyped => RgTypeOK
PROOF
<1> SUFFICES ASSUME RgTyped PROVE RgTypeOK
  OBVIOUS
<1>1. ASSUME NEW w \in Members
      PROVE /\ guard[w].active \subseteq Partitions
            /\ ToSet(guard[w].keys) \subseteq Messages
            /\ \A p \in Partitions : ToSet(guard[w].buffer[p]) \subseteq Messages
  <2>1. /\ guard[w].active \subseteq Partitions /\ guard[w].keys \in Seq(Messages)
        /\ \A p \in Partitions : guard[w].buffer[p] \in Seq(Messages)
    BY DEF RgTyped, GuardType
  <2>2. \A s \in Seq(Messages) : ToSet(s) \subseteq Messages
    BY DEF ToSet
  <2> QED BY <2>1, <2>2
<1> QED BY <1>1 DEF RgTyped, RgTypeOK

\* For any members, partitions, cache size and number of rebalances, on a partition that
\* was never assigned to a worker with a message of it still in hand: nothing below a
\* committed offset was skipped without being refused, and what was executed and
\* committed is executed again by no owner of the partition, only by a worker evicted
\* from it.  On every partition, one worker executes a message twice only after it
\* evicted its key (on_partitions_revoked, on_partitions_lost, process_message).
THEOREM RebalancesAreSafe == RgSpec => [](RgTypeOK /\ RebalanceIsSafe)
PROOF
<1>1. RgInit => RgInv
  BY RgStart
<1>2. RgInv /\ [RgNext]_rgVars => RgInv'
  BY RgStep
<1>3. RgInv => RgTypeOK /\ RebalanceIsSafe
  BY RgTypes DEF RgInv
<1> QED BY <1>1, <1>2, <1>3, PTL DEF RgSpec

-----------------------------------------------------------------------------
(* TickPipeline: the invariant. *)

Items == TickType \cup {ShutDown}

TaskType == [pc : {"none", "new", "get", "busy", "done"}, tick : TickType \cup {NoTick}]
ThreadType == [pc : {"idle", "direct", "handoff", "post"}, tick : TickType \cup {NoTick}]
StopType == [pc : {"no", "wait", "count", "gather"}, drain : BOOLEAN,
             sentinels : SUBSET TickWorkers, timedOut : BOOLEAN]

\* The undrained count is a sum over the workers and stays without a type.
MetricsOk(m) ==
  /\ m = [received |-> m.received, processed |-> m.processed, failed |-> m.failed,
          dropped |-> m.dropped, undrained |-> m.undrained]
  /\ m.received \in Nat /\ m.processed \in Nat /\ m.failed \in Nat /\ m.dropped \in Nat

TickTyped ==
  /\ queue \in [TickWorkers -> Seq(Items)] /\ task \in [TickWorkers -> TaskType]
  /\ running \in BOOLEAN /\ loopSet \in BOOLEAN /\ loopClosed \in BOOLEAN /\ stale \in BOOLEAN
  /\ pending \in 0..MaxPendingHandoffs /\ posted \in Seq(TickType)
  /\ thread \in ThreadType /\ stopping \in StopType /\ starts \in Nat
  /\ begun \in [TickWorkers -> Seq(TickType)] /\ lost \subseteq TickType
  /\ \A w \in TickWorkers : Len(queue[w]) <= QueueSize
  /\ MetricsOk(metrics)

\* Of two ticks of a symbol that one thread submitted to one start, a was submitted first.
Before(a, b) == a.symbol = b.symbol /\ a.by = b.by /\ a.start = b.start => a.n < b.n
Precede(A, C) == \A a \in A, c \in C : Before(a, c)

\* The ticks of a sequence, and that they stand in the order of their submission.
Contents(q) == {t \in {q[i] : i \in DOMAIN q} : t # ShutDown}
InOrder(q) ==
  \A i, j \in DOMAIN q : i < j /\ q[i] # ShutDown /\ q[j] # ShutDown => Before(q[i], q[j])

\* The ticks a worker has begun or has in its queue, and the one the thread is at.
Taken(w) == Contents(begun[w])
Known(w) == Taken(w) \cup Queued(w)
AtThread == IF thread.pc = "idle" THEN {} ELSE {thread.tick}

\* Where a tick can be: with its worker, of a number given out, and, until it is
\* queued, from the foreign thread on the way that its start says.
PlaceInv ==
  /\ \A w \in TickWorkers : \A t \in Known(w) : Partition[t.symbol] = w /\ t.n <= metrics.received
  /\ \A t \in Contents(posted) : t.by = "thread" /\ t.start # 0 /\ t.n <= metrics.received
  /\ \A t \in AtThread : /\ t \in TickType /\ t.by = "thread" /\ t.n <= metrics.received
                         /\ t.start = 0 <=> thread.pc = "direct"
  /\ loopSet => starts > 0

\* Every path is first in, first out.
OrderInv ==
  /\ \A w \in TickWorkers :
       /\ InOrder(begun[w]) /\ InOrder(queue[w])
       /\ Precede(Taken(w), Queued(w)) /\ Precede(Known(w), Contents(posted) \cup AtThread)
  /\ InOrder(posted) /\ Precede(Contents(posted), AtThread)

\* A busy worker holds the last tick it began, which is not lost.
HandInv ==
  /\ \A w \in TickWorkers :
       /\ task[w].pc # "busy" => task[w].tick = NoTick
       /\ task[w].pc = "busy" => task[w].tick \in Taken(w) \ lost
  /\ \A t \in lost : \E w \in TickWorkers : t \in Taken(w)

\* What the tasks do while the pipeline runs, stops and is stopped.
PhaseInv ==
  /\ running => stopping.pc = "no"
  /\ ~running /\ stopping.pc = "no" => \A w \in TickWorkers : task[w] = NoTask
  /\ stopping.pc = "gather" => AllDone

InQueues == UNION {Queued(w) : w \in TickWorkers}

CountInv ==
  /\ IsFiniteSet(lost) /\ IsFiniteSet(InHand) /\ IsFiniteSet(InQueues)
  /\ TickConservation

\* A tick stands before any sentinel.
Ahead(q, t) == \E i \in DOMAIN q : q[i] = t /\ \A k \in 1..i : q[k] # ShutDown

\* A tick that is due has been begun, or waits in the queue of a worker that is not
\* done, before any sentinel.
Served(w, t) == t \in Taken(w) \/ (task[w].pc # "done" /\ Ahead(queue[w], t))

DrainInv ==
  ~stale =>
    /\ stopping.pc = "no" =>
         \A w \in TickWorkers : ShutDown \notin {queue[w][i] : i \in DOMAIN queue[w]}
                             /\ task[w].pc # "done"
    /\ stopping.pc \in {"wait", "count"} /\ stopping.drain =>
         \A t \in due : \E w \in TickWorkers : Served(w, t)
    /\ stopping.pc = "count" /\ stopping.drain /\ ~stopping.timedOut => AllDone

\* The inductive invariant of the three properties.
TickInv == TickTyped /\ PlaceInv /\ OrderInv /\ HandInv /\ PhaseInv /\ CountInv /\ DrainInv

-----------------------------------------------------------------------------
(* Lemmas on sequences of ticks. *)

\* What appending changes in a sequence, element by element.
LEMMA AppendAt ==
  ASSUME NEW S, NEW q \in Seq(S), NEW e \in S
  PROVE /\ Append(q, e) \in Seq(S) /\ Len(Append(q, e)) = Len(q) + 1 /\ Len(q) \in Nat
        /\ DOMAIN q = 1..Len(q) /\ DOMAIN Append(q, e) = 1..(Len(q) + 1)
        /\ \A i \in 1..Len(q) : Append(q, e)[i] = q[i]
        /\ Append(q, e)[Len(q) + 1] = e
OBVIOUS

\* Appending a tick adds it to the contents; appending a sentinel adds nothing.
LEMMA ContentsAppend ==
  ASSUME NEW q \in Seq(Items), NEW e \in Items
  PROVE Contents(Append(q, e)) = Contents(q) \cup ({e} \ {ShutDown})
PROOF
<1> DEFINE a == Append(q, e)
<1>1. /\ Len(q) \in Nat /\ DOMAIN q = 1..Len(q) /\ DOMAIN a = 1..(Len(q) + 1)
      /\ \A i \in 1..Len(q) : a[i] = q[i]
      /\ a[Len(q) + 1] = e
  BY AppendAt
<1> HIDE DEF a
<1>2. {a[i] : i \in DOMAIN a} = {q[i] : i \in DOMAIN q} \cup {e}
  <2>1. \A i \in DOMAIN a : i \in DOMAIN q \/ i = Len(q) + 1
    BY <1>1
  <2>2. \A i \in DOMAIN q : i \in DOMAIN a
    BY <1>1
  <2>3. Len(q) + 1 \in DOMAIN a
    BY <1>1
  <2> QED BY <2>1, <2>2, <2>3, <1>1
<1> QED BY <1>2 DEF Contents, a

\* Appending what comes after everything keeps the order.
LEMMA InOrderAppend ==
  ASSUME NEW q \in Seq(Items), NEW e \in Items, InOrder(q),
         e # ShutDown => \A x \in Contents(q) : Before(x, e)
  PROVE InOrder(Append(q, e))
PROOF
<1> DEFINE a == Append(q, e)
<1>1. /\ Len(q) \in Nat /\ DOMAIN q = 1..Len(q) /\ DOMAIN a = 1..(Len(q) + 1)
      /\ \A i \in 1..Len(q) : a[i] = q[i]
      /\ a[Len(q) + 1] = e
  BY AppendAt
<1> HIDE DEF a
<1>2. ASSUME NEW i \in DOMAIN a, NEW j \in DOMAIN a, i < j, a[i] # ShutDown, a[j] # ShutDown
      PROVE Before(a[i], a[j])
  <2>1. i \in DOMAIN q /\ a[i] = q[i]
    BY <1>1, <1>2
  <2>2. CASE j = Len(q) + 1
    <3>1. a[i] \in Contents(q) /\ a[j] = e
      BY <2>1, <2>2, <1>1, <1>2 DEF Contents
    <3> QED BY <3>1, <1>2
  <2>3. CASE j # Len(q) + 1
    <3>1. j \in DOMAIN q /\ a[j] = q[j]
      BY <2>3, <1>1
    <3> QED BY <3>1, <2>1, <1>2 DEF InOrder
  <2> QED BY <2>2, <2>3
<1> QED BY <1>2 DEF InOrder, a

\* What taking the head leaves.
LEMMA TailAt ==
  ASSUME NEW S, NEW q \in Seq(S), q # <<>>
  PROVE /\ Head(q) \in S /\ Tail(q) \in Seq(S) /\ Len(Tail(q)) = Len(q) - 1 /\ Len(q) \in Nat \ {0}
        /\ Head(q) = q[1] /\ DOMAIN q = 1..Len(q) /\ DOMAIN Tail(q) = 1..(Len(q) - 1)
        /\ \A i \in 1..(Len(q) - 1) : Tail(q)[i] = q[i + 1]
BY HeadTailProperties, LenProperties, EmptySeq

\* The head is gone from an ordered sequence, precedes the rest, and the rest is in order.
LEMMA TakeHead ==
  ASSUME NEW q \in Seq(Items), q # <<>>, InOrder(q)
  PROVE /\ InOrder(Tail(q))
        /\ Contents(q) = Contents(Tail(q)) \cup ({Head(q)} \ {ShutDown})
        /\ Head(q) # ShutDown => \A x \in Contents(Tail(q)) : Before(Head(q), x)
PROOF
<1> DEFINE r == Tail(q)
<1>1. /\ Len(q) \in Nat \ {0} /\ Head(q) = q[1] /\ DOMAIN q = 1..Len(q)
      /\ DOMAIN r = 1..(Len(q) - 1)
      /\ \A i \in 1..(Len(q) - 1) : r[i] = q[i + 1]
  BY TailAt
<1> HIDE DEF r
<1>2. \A i \in DOMAIN r : i + 1 \in DOMAIN q /\ r[i] = q[i + 1] /\ i \in Int /\ 1 < i + 1
  BY <1>1
<1>3. \A i \in DOMAIN q : i = 1 \/ (i - 1 \in DOMAIN r /\ q[i] = r[i - 1])
  <2> SUFFICES ASSUME NEW i \in DOMAIN q, i # 1 PROVE i - 1 \in DOMAIN r /\ q[i] = r[i - 1]
    OBVIOUS
  <2>1. i - 1 \in 1..(Len(q) - 1) /\ (i - 1) + 1 = i
    BY <1>1
  <2> QED BY <2>1, <1>1
<1>4. 1 \in DOMAIN q
  BY <1>1
<1>5. {q[i] : i \in DOMAIN q} = {r[i] : i \in DOMAIN r} \cup {q[1]}
  BY <1>2, <1>3, <1>4
<1>6. InOrder(r)
  BY <1>2 DEF InOrder
<1>7. ASSUME Head(q) # ShutDown, NEW x \in Contents(r) PROVE Before(Head(q), x)
  <2>1. PICK i \in DOMAIN r : x = r[i] /\ x # ShutDown
    BY <1>7 DEF Contents
  <2> QED BY <2>1, <1>1, <1>2, <1>4, <1>7 DEF InOrder
<1> QED BY <1>1, <1>5, <1>6, <1>7 DEF Contents, r

\* A tick before all sentinels stays so when more is appended.
LEMMA AheadAppend ==
  ASSUME NEW q \in Seq(Items), NEW e \in Items, NEW t, Ahead(q, t)
  PROVE Ahead(Append(q, e), t)
PROOF
<1>1. PICK i \in DOMAIN q : q[i] = t /\ \A k \in 1..i : q[k] # ShutDown
  BY DEF Ahead
<1>2. /\ Len(q) \in Nat /\ DOMAIN q = 1..Len(q) /\ DOMAIN Append(q, e) = 1..(Len(q) + 1)
      /\ \A j \in 1..Len(q) : Append(q, e)[j] = q[j]
  BY AppendAt
<1>3. i \in 1..(Len(q) + 1) /\ \A k \in 1..i : k \in 1..Len(q)
  BY <1>1, <1>2
<1> QED BY <1>1, <1>2, <1>3 DEF Ahead

\* A tick before all sentinels is the head, or stays so when the head is taken.
LEMMA AheadTail ==
  ASSUME NEW q \in Seq(Items), q # <<>>, NEW t, Ahead(q, t)
  PROVE Head(q) # ShutDown /\ (Head(q) = t \/ Ahead(Tail(q), t))
PROOF
<1>1. PICK i \in DOMAIN q : q[i] = t /\ \A k \in 1..i : q[k] # ShutDown
  BY DEF Ahead
<1>2. /\ Len(q) \in Nat \ {0} /\ Head(q) = q[1] /\ DOMAIN q = 1..Len(q)
      /\ DOMAIN Tail(q) = 1..(Len(q) - 1)
      /\ \A j \in 1..(Len(q) - 1) : Tail(q)[j] = q[j + 1]
  BY TailAt
<1>3. Head(q) # ShutDown
  <2>1. 1 \in 1..i
    BY <1>1, <1>2
  <2> QED BY <2>1, <1>1, <1>2
<1>4. CASE i = 1
  BY <1>1, <1>2, <1>3, <1>4
<1>5. CASE i # 1
  <2>1. i - 1 \in 1..(Len(q) - 1) /\ (i - 1) + 1 = i
    BY <1>1, <1>2, <1>5
  <2>2. \A k \in 1..(i - 1) : k \in 1..(Len(q) - 1) /\ k + 1 \in 1..i
    BY <1>1, <1>2
  <2>3. Tail(q)[i - 1] = t /\ \A k \in 1..(i - 1) : Tail(q)[k] # ShutDown
    BY <2>1, <2>2, <1>1, <1>2
  <2> QED BY <2>1, <2>3, <1>2, <1>3 DEF Ahead
<1> QED BY <1>4, <1>5

\* Without a sentinel everything is before all sentinels.
LEMMA AheadAll ==
  ASSUME NEW q \in Seq(Items), ShutDown \notin {q[i] : i \in DOMAIN q}, NEW t \in Contents(q)
  PROVE Ahead(q, t)
PROOF
<1>1. PICK i \in DOMAIN q : q[i] = t
  BY DEF Contents
<1>2. DOMAIN q = 1..Len(q) /\ Len(q) \in Nat
  OBVIOUS
<1>3. \A k \in 1..i : k \in DOMAIN q
  BY <1>1, <1>2
<1> QED BY <1>1, <1>3 DEF Ahead

\* The contents of a sequence of items are ticks.
LEMMA ContentsAreTicks ==
  /\ \A q \in Seq(Items) : Contents(q) \subseteq TickType
  /\ \A q \in Seq(TickType) : q \in Seq(Items) /\ Contents(q) \subseteq TickType
  /\ Contents(<<>>) = {}
PROOF
<1>1. \A q \in Seq(Items) : Contents(q) \subseteq TickType
  BY DEF Contents, Items
<1>2. \A q \in Seq(TickType) : q \in Seq(Items)
  BY DEF Items
<1>3. Contents(<<>>) = {}
  BY DEF Contents
<1> QED BY <1>1, <1>2, <1>3

\* What a worker has begun or has in its queue are ticks.
LEMMA KnownAreTicks ==
  ASSUME TickInv
  PROVE \A w \in TickWorkers :
          /\ Queued(w) = Contents(queue[w]) /\ queue[w] \in Seq(Items)
          /\ begun[w] \in Seq(TickType) /\ begun[w] \in Seq(Items)
          /\ Known(w) \subseteq TickType /\ Taken(w) \subseteq TickType /\ Queued(w) \subseteq TickType
PROOF
<1>1. \A w \in TickWorkers : queue[w] \in Seq(Items) /\ begun[w] \in Seq(TickType)
  BY DEF TickInv, TickTyped
<1>2. \A w : Queued(w) = Contents(queue[w]) /\ Taken(w) = Contents(begun[w])
  BY DEF Queued, Contents, Taken
<1> QED BY <1>1, <1>2, ContentsAreTicks DEF Known

\* No tick is before itself: what precedes a set is not in it.
LEMMA BeforeIsStrict == \A t \in TickType : ~Before(t, t)
BY DEF Before, TickType

\* Counting an event changes one field.
LEMMA Counted ==
  ASSUME NEW m, MetricsOk(m)
  PROVE /\ LET x == [m EXCEPT !.received = @ + 1]
           IN /\ MetricsOk(x) /\ x.received = m.received + 1 /\ x.processed = m.processed
              /\ x.failed = m.failed /\ x.dropped = m.dropped
        /\ LET x == [m EXCEPT !.processed = @ + 1]
           IN /\ MetricsOk(x) /\ x.received = m.received /\ x.processed = m.processed + 1
              /\ x.failed = m.failed /\ x.dropped = m.dropped
        /\ LET x == [m EXCEPT !.failed = @ + 1]
           IN /\ MetricsOk(x) /\ x.received = m.received /\ x.processed = m.processed
              /\ x.failed = m.failed + 1 /\ x.dropped = m.dropped
        /\ LET x == [m EXCEPT !.dropped = @ + 1]
           IN /\ MetricsOk(x) /\ x.received = m.received /\ x.processed = m.processed
              /\ x.failed = m.failed /\ x.dropped = m.dropped + 1
        /\ \A u : LET x == [m EXCEPT !.undrained = u]
                  IN /\ MetricsOk(x) /\ x.received = m.received /\ x.processed = m.processed
                     /\ x.failed = m.failed /\ x.dropped = m.dropped
BY DEF MetricsOk

-----------------------------------------------------------------------------
(* TickPipeline: the invariant holds at the start. *)

\* The fresh pipeline satisfies the inductive invariant: no tick has been submitted.
LEMMA TickStart == TickInit => TickInv
PROOF
<1> SUFFICES ASSUME TickInit PROVE TickInv
  OBVIOUS
<1>0. /\ queue = [w \in TickWorkers |-> <<>>] /\ task = [w \in TickWorkers |-> NoTask]
      /\ begun = [w \in TickWorkers |-> <<>>]
  BY DEF TickInit
<1>1. /\ running = FALSE /\ loopSet = FALSE /\ loopClosed = FALSE /\ stale = FALSE
      /\ pending = 0 /\ posted = <<>> /\ starts = 0 /\ lost = {} /\ due = {}
  BY DEF TickInit
<1>2. thread = [pc |-> "idle", tick |-> NoTick] /\ stopping = NoStop
  BY DEF TickInit
<1>3. MetricsOk(metrics) /\ metrics.received = 0 /\ metrics.processed = 0 /\ metrics.failed = 0
      /\ metrics.dropped = 0
  BY DEF TickInit, MetricsOk
<1>4. thread \in ThreadType /\ thread.pc = "idle" /\ stopping \in StopType /\ stopping.pc = "no"
      /\ NoTask \in TaskType /\ NoTask.pc = "none" /\ NoTask.tick = NoTick
  BY <1>2 DEF ThreadType, StopType, TaskType, NoStop, NoTask
<1>5. \A w \in TickWorkers : queue[w] = <<>> /\ begun[w] = <<>> /\ task[w] = NoTask
  BY <1>0
<1>6. Contents(<<>>) = {} /\ InOrder(<<>>) /\ DOMAIN <<>> = {} /\ Len(<<>>) = 0
  BY ContentsAreTicks DEF InOrder
<1>7. \A w \in TickWorkers : Taken(w) = {} /\ Queued(w) = {} /\ Known(w) = {}
  BY <1>5, <1>6 DEF Taken, Known, Queued, Contents
<1>8. AtThread = {} /\ Contents(posted) = {}
  BY <1>1, <1>4, <1>6 DEF AtThread
<1>9. InQueues = {} /\ InHand = {}
  BY <1>5, <1>7, <1>4 DEF InQueues, InHand
<1>10. TickTyped
  <2>1. queue \in [TickWorkers -> Seq(Items)] /\ begun \in [TickWorkers -> Seq(TickType)]
        /\ posted \in Seq(TickType) /\ \A w \in TickWorkers : Len(queue[w]) <= QueueSize
    BY <1>0, <1>1, TickAssumption
  <2>2. task \in [TickWorkers -> TaskType]
    BY <1>0, <1>4
  <2>3. pending \in 0..MaxPendingHandoffs /\ starts \in Nat /\ lost \subseteq TickType
    BY <1>1, TickAssumption
  <2> QED BY <2>1, <2>2, <2>3, <1>1, <1>3, <1>4 DEF TickTyped
<1>11. PlaceInv
  BY <1>1, <1>7, <1>8 DEF PlaceInv
<1>12. OrderInv
  BY <1>1, <1>5, <1>6, <1>7, <1>8 DEF OrderInv, Precede
<1>13. HandInv /\ PhaseInv
  BY <1>1, <1>4, <1>5 DEF HandInv, PhaseInv
<1>14. CountInv
  <2>1. IsFiniteSet({}) /\ Cardinality({}) = 0
    BY FS_EmptySet
  <2>2. /\ Cardinality(UNION {Queued(w) : w \in TickWorkers}) = 0 /\ Cardinality(InHand) = 0
        /\ Cardinality(lost) = 0 /\ Len(posted) = 0
    BY <2>1, <1>1, <1>6, <1>9 DEF InQueues
  <2>3. TickConservation
    BY <2>2, <1>1, <1>3, <1>4 DEF TickConservation
  <2> QED BY <2>1, <2>3, <1>1, <1>9 DEF CountInv
<1>15. DrainInv
  <2>1. \A w \in TickWorkers : ShutDown \notin {queue[w][i] : i \in DOMAIN queue[w]}
    BY <1>5, <1>6
  <2> QED BY <2>1, <1>4, <1>5 DEF DrainInv
<1> QED BY <1>10, <1>11, <1>12, <1>13, <1>14, <1>15 DEF TickInv

-----------------------------------------------------------------------------
(* TickPipeline: the producers' steps. *)

\* The queues keep what they hold, and no sentinel joins.
QueuesKeep ==
  \A w \in TickWorkers :
    /\ \A x : Ahead(queue[w], x) => Ahead(queue'[w], x)
    /\ ShutDown \in {queue'[w][i] : i \in DOMAIN queue'[w]} =>
         ShutDown \in {queue[w][i] : i \in DOMAIN queue[w]}

\* A step of a producer leaves the workers and a stop as they are.
LEMMA ConsumersKeep ==
  ASSUME TickInv, UNCHANGED consumerVars, QueuesKeep
  PROVE /\ HandInv' /\ PhaseInv' /\ DrainInv' /\ InHand' = InHand
        /\ \A w \in TickWorkers : Taken(w)' = Taken(w)
PROOF
<1>0. /\ task' = task /\ running' = running /\ stopping' = stopping /\ begun' = begun
      /\ lost' = lost /\ due' = due /\ stale' = stale
  BY DEF consumerVars
<1>1. InHand' = InHand /\ AllDone' = AllDone /\ \A w : Taken(w)' = Taken(w)
  BY <1>0 DEF InHand, AllDone, Taken
<1>2. HandInv' /\ PhaseInv'
  BY <1>0, <1>1 DEF TickInv, HandInv, PhaseInv
<1>3. DrainInv'
  <2>1. \A w \in TickWorkers, t \in due : Served(w, t) => Served(w, t)'
    BY <1>0, <1>1 DEF Served, QueuesKeep
  <2>2. ASSUME ~stale', stopping'.pc = "no", NEW w \in TickWorkers
        PROVE ShutDown \notin {queue'[w][i] : i \in DOMAIN queue'[w]} /\ task'[w].pc # "done"
    BY <2>2, <1>0 DEF TickInv, DrainInv, QueuesKeep
  <2>3. ASSUME ~stale', stopping'.pc \in {"wait", "count"}, stopping'.drain, NEW t \in due'
        PROVE \E w \in TickWorkers : Served(w, t)'
    <3>1. PICK w \in TickWorkers : Served(w, t)
      BY <2>3, <1>0 DEF TickInv, DrainInv
    <3> QED BY <3>1, <2>1, <2>3, <1>0
  <2>4. ~stale' /\ stopping'.pc = "count" /\ stopping'.drain /\ ~stopping'.timedOut => AllDone'
    BY <1>0, <1>1 DEF TickInv, DrainInv
  <2> QED BY <2>2, <2>3, <2>4 DEF DrainInv
<1> QED BY <1>1, <1>2, <1>3

\* _enqueue appends to the queue of the tick's worker, or counts a drop.
LEMMA EnqueueHolds ==
  ASSUME TickInv, NEW t \in TickType, NEW m, MetricsOk(m), Enqueue(t, m),
         Precede(Known(WorkerOf(t)), {t})
  PROVE /\ queue' \in [TickWorkers -> Seq(Items)] /\ QueuesKeep
        /\ \A w \in TickWorkers :
             /\ Len(queue'[w]) <= QueueSize /\ InOrder(queue'[w])
             /\ Queued(w)' \subseteq Queued(w) \cup (IF w = WorkerOf(t) THEN {t} ELSE {})
        /\ MetricsOk(metrics') /\ metrics'.received = m.received
        /\ metrics'.processed = m.processed /\ metrics'.failed = m.failed
        /\ IsFiniteSet(InQueues') /\ Cardinality(InQueues) \in Nat /\ Cardinality(InQueues') \in Nat
        /\ metrics'.dropped + Cardinality(InQueues') = m.dropped + Cardinality(InQueues) + 1
PROOF
<1> DEFINE w0 == Partition[t.symbol]
<1>0. t \in Items /\ t # ShutDown /\ w0 \in TickWorkers /\ WorkerOf(t) = w0
  BY TickAssumption DEF TickType, Items, WorkerOf
<1> HIDE DEF w0
<1>1. /\ queue \in [TickWorkers -> Seq(Items)] /\ \A w \in TickWorkers : Len(queue[w]) <= QueueSize
      /\ \A w \in TickWorkers : InOrder(queue[w])
  BY DEF TickInv, TickTyped, OrderInv
<1>2. \A w : Queued(w) = Contents(queue[w]) /\ Queued(w)' = Contents(queue'[w])
  BY DEF Queued, Contents
<1>3. IsFiniteSet(InQueues) /\ Cardinality(InQueues) \in Nat
  BY FS_CardinalityType DEF TickInv, CountInv
<1>4. CASE Full(w0)
  <2>0. metrics' = [m EXCEPT !.dropped = @ + 1] /\ queue' = queue
    BY <1>4, <1>0 DEF Enqueue
  <2>1. /\ MetricsOk(metrics') /\ metrics'.received = m.received
        /\ metrics'.processed = m.processed /\ metrics'.failed = m.failed
        /\ metrics'.dropped = m.dropped + 1
    BY <2>0, Counted
  <2>2. InQueues' = InQueues /\ m.dropped \in Nat
    BY <2>0 DEF InQueues, Queued, MetricsOk
  <2>3. QueuesKeep
    BY <2>0 DEF QueuesKeep
  <2>4. metrics'.dropped + Cardinality(InQueues') = m.dropped + Cardinality(InQueues) + 1
    BY <2>1, <2>2, <1>3
  <2> QED BY <2>0, <2>1, <2>2, <2>3, <2>4, <1>1, <1>2, <1>3
<1>5. CASE ~Full(w0)
  <2> DEFINE a == Append(queue[w0], t)
  <2>0. metrics' = m /\ queue' = [queue EXCEPT ![w0] = a]
    BY <1>5, <1>0 DEF Enqueue
  <2>1. a \in Seq(Items) /\ Len(a) = Len(queue[w0]) + 1
        /\ DOMAIN a = 1..(Len(queue[w0]) + 1) /\ Len(queue[w0]) \in Nat
    BY <1>0, <1>1, AppendAt
  <2>2. Contents(a) = Contents(queue[w0]) \cup {t}
    BY <1>0, <1>1, ContentsAppend
  <2>3. InOrder(a)
    <3>1. \A x \in Contents(queue[w0]) : Before(x, t)
      BY <1>0, <1>2 DEF Precede, Known
    <3> QED BY <3>1, <1>0, <1>1, InOrderAppend
  <2>4. \A x : Ahead(queue[w0], x) => Ahead(a, x)
    BY <1>0, <1>1, AheadAppend
  <2>5. ShutDown \in {a[i] : i \in DOMAIN a} =>
          ShutDown \in {queue[w0][i] : i \in DOMAIN queue[w0]}
    <3>1. /\ DOMAIN queue[w0] = 1..Len(queue[w0]) /\ a[Len(queue[w0]) + 1] = t
          /\ \A i \in 1..Len(queue[w0]) : a[i] = queue[w0][i]
      BY <1>0, <1>1, AppendAt
    <3> HIDE DEF a
    <3>2. \A i \in DOMAIN a : i \in DOMAIN queue[w0] \/ i = Len(queue[w0]) + 1
      BY <3>1, <2>1
    <3> QED BY <3>1, <3>2, <1>0
  <2>6. Len(a) <= QueueSize
    BY <2>1, <1>0, <1>5, TickAssumption DEF Full
  <2> HIDE DEF a
  <2>7. queue'[w0] = a /\ \A w \in TickWorkers : w # w0 => queue'[w] = queue[w]
    BY <2>0, <1>0, <1>1
  <2>8. queue' \in [TickWorkers -> Seq(Items)]
    BY <2>0, <2>1, <1>0, <1>1
  <2>9. QueuesKeep
    BY <2>4, <2>5, <2>7 DEF QueuesKeep
  <2>10. Queued(w0)' = Queued(w0) \cup {t}
         /\ \A w \in TickWorkers : w # w0 => Queued(w)' = Queued(w)
    BY <2>2, <2>7, <1>2
  <2>11. \A w \in TickWorkers :
           /\ Len(queue'[w]) <= QueueSize /\ InOrder(queue'[w])
           /\ Queued(w)' \subseteq Queued(w) \cup (IF w = WorkerOf(t) THEN {t} ELSE {})
    BY <2>3, <2>6, <2>7, <2>10, <1>0, <1>1
  <2>12. InQueues' = InQueues \cup {t}
    BY <2>10, <1>0 DEF InQueues
  <2>13. t \notin InQueues
    <3>1. SUFFICES ASSUME NEW w \in TickWorkers, t \in Queued(w) PROVE FALSE
      BY DEF InQueues
    <3>2. w = w0
      BY <3>1 DEF TickInv, PlaceInv, Known, w0
    <3>3. Before(t, t)
      BY <3>1, <3>2, <1>0 DEF Precede, Known
    <3> QED BY <3>3, BeforeIsStrict
  <2>14. IsFiniteSet(InQueues') /\ Cardinality(InQueues') = Cardinality(InQueues) + 1
    BY <2>12, <2>13, <1>3, FS_AddElement
  <2>15. metrics'.dropped + Cardinality(InQueues') = m.dropped + Cardinality(InQueues) + 1
         /\ Cardinality(InQueues') \in Nat
    BY <2>0, <2>14, <1>3 DEF MetricsOk
  <2> QED BY <2>0, <2>8, <2>9, <2>11, <2>14, <2>15, <1>3
<1> QED BY <1>4, <1>5

\* What TickConservation counts: the ticks that are finished, lost or with a worker,
\* and those on the way to one.
Settled ==
  metrics.processed + metrics.failed + metrics.dropped + Cardinality(lost)
  + Cardinality(InQueues) + Cardinality(InHand)
Held == IF thread.pc = "idle" THEN 0 ELSE 1
OnTheWay == Len(posted) + Held
Reserved == Len(posted) + (IF thread.pc = "post" THEN 1 ELSE 0)

\* The count in these terms, before and after a step.
LEMMA CountForm ==
  /\ TickConservation <=> metrics.received = Settled + Len(posted) + Held /\ pending = Reserved
  /\ TickConservation' <=>
       metrics'.received = Settled' + Len(posted') + Held' /\ pending' = Reserved'
BY DEF TickConservation, Settled, Held, Reserved, InQueues

CountTerms ==
  /\ Cardinality(lost) \in Nat /\ Cardinality(InHand) \in Nat /\ Cardinality(InQueues) \in Nat
  /\ OnTheWay \in Nat /\ metrics.received \in Nat /\ metrics.processed \in Nat
  /\ metrics.failed \in Nat /\ metrics.dropped \in Nat

\* The terms of the count are numbers.
LEMMA CountTermsHold == TickInv => CountTerms
PROOF
<1> SUFFICES ASSUME TickInv PROVE CountTerms
  OBVIOUS
<1>1. /\ Cardinality(lost) \in Nat /\ Cardinality(InHand) \in Nat
      /\ Cardinality(InQueues) \in Nat
  BY FS_CardinalityType DEF TickInv, CountInv
<1>2. /\ metrics.received \in Nat /\ metrics.processed \in Nat /\ metrics.failed \in Nat
      /\ metrics.dropped \in Nat /\ Len(posted) \in Nat
  BY DEF MetricsOk, TickInv, TickTyped
<1> QED BY <1>1, <1>2 DEF Held, OnTheWay, CountTerms

\* What was received grows as the terms of the count do.
CountGrows ==
  metrics'.received - metrics.received =
    (metrics'.processed - metrics.processed) + (metrics'.failed - metrics.failed)
    + (metrics'.dropped - metrics.dropped) + (Cardinality(lost') - Cardinality(lost))
    + (Cardinality(InQueues') - Cardinality(InQueues))
    + (Cardinality(InHand') - Cardinality(InHand)) + (OnTheWay' - OnTheWay)

\* Then the sum goes on.
LEMMA SumKeeps ==
  ASSUME CountTerms, CountTerms', CountGrows, metrics.received = Settled + OnTheWay
  PROVE metrics'.received = Settled' + OnTheWay' /\ Settled' \in Nat
PROOF
<1>1. Settled \in Nat
  BY DEF Settled, CountTerms
<1>2. Settled' \in Nat
  BY DEF Settled, CountTerms
<1>3. (Settled' + OnTheWay') - (Settled + OnTheWay) = metrics'.received - metrics.received
  BY DEF Settled, CountGrows, CountTerms
<1> QED BY <1>1, <1>2, <1>3 DEF CountTerms

\* Then the count goes on.
LEMMA CountKeeps ==
  ASSUME TickInv, MetricsOk(metrics'), posted' \in Seq(TickType), pending' = Reserved',
         IsFiniteSet(lost'), IsFiniteSet(InHand'), IsFiniteSet(InQueues'), CountGrows
  PROVE CountInv'
PROOF
<1>1. CountTerms
  BY CountTermsHold
<1>2. Len(posted) \in Nat /\ Len(posted') \in Nat /\ Held \in Nat /\ Held' \in Nat
  BY DEF TickInv, TickTyped, Held
<1>3. OnTheWay' \in Nat
  BY <1>2 DEF OnTheWay
<1>4. CountTerms'
  BY <1>3, FS_CardinalityType DEF MetricsOk, CountTerms
<1>5. metrics.received = Settled + Len(posted) + Held /\ Settled \in Nat
  BY <1>1, CountForm, SMTT(30) DEF TickInv, CountInv, Settled, CountTerms
<1>6. metrics.received = Settled + OnTheWay
  BY <1>2, <1>5 DEF OnTheWay
<1>7. metrics'.received = Settled' + OnTheWay' /\ Settled' \in Nat
  BY <1>1, <1>4, <1>6, SumKeeps
<1>8. metrics'.received = Settled' + Len(posted') + Held'
  BY <1>2, <1>7 DEF OnTheWay
<1>9. TickConservation'
  BY <1>8, CountForm
<1> QED BY <1>9 DEF CountInv

\* A tick leaves the way between the threads for a queue, or is dropped.
LEMMA CountEnters ==
  ASSUME CountTerms, CountTerms',
         metrics'.received - metrics.received + OnTheWay = OnTheWay' + 1,
         metrics'.dropped + Cardinality(InQueues') = metrics.dropped + Cardinality(InQueues) + 1,
         metrics'.processed = metrics.processed, metrics'.failed = metrics.failed,
         lost' = lost, InHand' = InHand
  PROVE CountGrows
PROOF
<1> DEFINE dd == metrics'.dropped - metrics.dropped
           dq == Cardinality(InQueues') - Cardinality(InQueues)
           dw == OnTheWay' - OnTheWay
<1>1. /\ metrics'.processed - metrics.processed = 0 /\ metrics'.failed - metrics.failed = 0
      /\ Cardinality(lost') - Cardinality(lost) = 0
      /\ Cardinality(InHand') - Cardinality(InHand) = 0
  BY DEF CountTerms
<1>2. /\ dd \in Int /\ dq \in Int /\ dw \in Int /\ dd + dq = 1
      /\ metrics'.received - metrics.received = dw + 1
  BY DEF CountTerms
<1> HIDE DEF dd, dq, dw
<1>3. dw + 1 = 0 + 0 + dd + 0 + dq + 0 + dw
  BY <1>2
<1> QED BY <1>1, <1>2, <1>3, Zenon DEF CountGrows, dd, dq, dw

\* A tick comes to the thread, goes on between the threads, or is dropped there.
LEMMA CountMoves ==
  ASSUME CountTerms, CountTerms',
         metrics'.received - metrics.received =
           (metrics'.dropped - metrics.dropped) + (OnTheWay' - OnTheWay),
         metrics'.processed = metrics.processed, metrics'.failed = metrics.failed,
         lost' = lost, InHand' = InHand, InQueues' = InQueues
  PROVE CountGrows
PROOF
<1> DEFINE dd == metrics'.dropped - metrics.dropped
           dw == OnTheWay' - OnTheWay
<1>1. /\ metrics'.processed - metrics.processed = 0 /\ metrics'.failed - metrics.failed = 0
      /\ Cardinality(lost') - Cardinality(lost) = 0
      /\ Cardinality(InHand') - Cardinality(InHand) = 0
      /\ Cardinality(InQueues') - Cardinality(InQueues) = 0
  BY DEF CountTerms
<1>2. dd \in Int /\ dw \in Int /\ metrics'.received - metrics.received = dd + dw
  BY DEF CountTerms
<1> HIDE DEF dd, dw
<1>3. dd + dw = 0 + 0 + dd + 0 + 0 + 0 + dw
  BY <1>2
<1> QED BY <1>1, <1>2, <1>3, Zenon DEF CountGrows, dd, dw

\* A tick that nothing of its worker comes after, and that nothing still on the way
\* comes before, may be enqueued.
LEMMA EnqueueStep ==
  ASSUME TickInv, NEW t \in TickType, NEW m, MetricsOk(m), Enqueue(t, m), UNCHANGED consumerVars,
         metrics.received <= m.received, m.processed = metrics.processed,
         m.failed = metrics.failed, m.dropped = metrics.dropped,
         t.n <= m.received, Precede(Known(WorkerOf(t)), {t}),
         posted' \in Seq(TickType), InOrder(posted'), Contents(posted') \subseteq Contents(posted),
         thread' \in ThreadType, thread' = thread \/ AtThread' = {},
         Precede({t}, Contents(posted') \cup AtThread'),
         pending' \in 0..MaxPendingHandoffs, pending' = Reserved',
         m.received - metrics.received + OnTheWay = OnTheWay' + 1, OnTheWay' \in Nat
  PROVE TickInv'
PROOF
<1> DEFINE w0 == WorkerOf(t)
<1>0. /\ task' = task /\ running' = running /\ loopSet' = loopSet /\ loopClosed' = loopClosed
      /\ stopping' = stopping /\ starts' = starts /\ begun' = begun /\ lost' = lost
      /\ due' = due /\ stale' = stale
  BY DEF consumerVars
<1>1. /\ queue' \in [TickWorkers -> Seq(Items)] /\ QueuesKeep
      /\ \A w \in TickWorkers :
           /\ Len(queue'[w]) <= QueueSize /\ InOrder(queue'[w])
           /\ Queued(w)' \subseteq Queued(w) \cup (IF w = w0 THEN {t} ELSE {})
      /\ MetricsOk(metrics') /\ metrics'.received = m.received
      /\ metrics'.processed = m.processed /\ metrics'.failed = m.failed
      /\ IsFiniteSet(InQueues') /\ Cardinality(InQueues) \in Nat /\ Cardinality(InQueues') \in Nat
      /\ metrics'.dropped + Cardinality(InQueues') = m.dropped + Cardinality(InQueues) + 1
  BY EnqueueHolds
<1>2. /\ HandInv' /\ PhaseInv' /\ DrainInv' /\ InHand' = InHand
      /\ \A w \in TickWorkers : Taken(w)' = Taken(w)
  BY <1>1, ConsumersKeep
<1>3. \A w \in TickWorkers : Known(w)' \subseteq Known(w) \cup (IF w = w0 THEN {t} ELSE {})
  BY <1>1, <1>2 DEF Known
<1>4. AtThread' \subseteq AtThread /\ Contents(posted)' = Contents(posted')
  BY DEF AtThread, Contents
<1>5. m.received \in Nat /\ m.dropped \in Nat /\ metrics'.dropped \in Nat /\ metrics'.received \in Nat
  BY <1>1 DEF MetricsOk
<1>6. TickTyped'
  <2>1. task \in [TickWorkers -> TaskType] /\ begun \in [TickWorkers -> Seq(TickType)]
        /\ running \in BOOLEAN /\ loopSet \in BOOLEAN /\ loopClosed \in BOOLEAN /\ stale \in BOOLEAN
        /\ stopping \in StopType /\ starts \in Nat /\ lost \subseteq TickType
    BY DEF TickInv, TickTyped
  <2> QED BY <2>1, <1>0, <1>1 DEF TickTyped
<1>7. PlaceInv'
  <2>1. metrics.received \in Nat /\ metrics'.received >= metrics.received
    BY <1>1, <1>5, CountTermsHold DEF CountTerms
  <2>2. ASSUME NEW w \in TickWorkers, NEW x \in Known(w)'
        PROVE Partition[x.symbol] = w /\ x.n <= metrics'.received
    <3>1. CASE x \in Known(w)
      <4>1. Partition[x.symbol] = w /\ x.n <= metrics.received /\ x \in TickType
        BY <3>1, KnownAreTicks DEF TickInv, PlaceInv
      <4>2. x.n \in Nat
        BY <4>1 DEF TickType
      <4> QED BY <4>1, <4>2, <2>1, <1>5
    <3>2. CASE w = w0 /\ x = t
      BY <3>2, <1>1 DEF WorkerOf
    <3> QED BY <3>1, <3>2, <2>2, <1>3
  <2>3. ASSUME NEW x \in Contents(posted') PROVE x.by = "thread" /\ x.start # 0 /\ x.n <= metrics'.received
    <3>1. x \in Contents(posted) /\ x \in TickType
      BY ContentsAreTicks
    <3>2. x.by = "thread" /\ x.start # 0 /\ x.n <= metrics.received
      BY <3>1 DEF TickInv, PlaceInv
    <3>3. x.n \in Nat
      BY <3>1 DEF TickType
    <3> QED BY <3>2, <3>3, <2>1, <1>5
  <2>4. ASSUME NEW x \in AtThread'
        PROVE /\ x \in TickType /\ x.by = "thread" /\ x.n <= metrics'.received
              /\ x.start = 0 <=> thread'.pc = "direct"
    <3>1. x \in AtThread /\ thread' = thread
      BY <1>4, <2>4
    <3>2. /\ x \in TickType /\ x.by = "thread" /\ x.n <= metrics.received
          /\ x.start = 0 <=> thread.pc = "direct"
      BY <3>1 DEF TickInv, PlaceInv
    <3>3. x.n \in Nat
      BY <3>2 DEF TickType
    <3> QED BY <3>1, <3>2, <3>3, <2>1, <1>5
  <2>5. loopSet' => starts' > 0
    BY <1>0 DEF TickInv, PlaceInv
  <2> QED BY <2>2, <2>3, <2>4, <2>5, <1>4 DEF PlaceInv
<1>8. OrderInv'
  <2>1. ASSUME NEW w \in TickWorkers
        PROVE /\ Precede(Taken(w)', Queued(w)')
              /\ Precede(Known(w)', Contents(posted') \cup AtThread')
    <3>1. Precede(Taken(w), Queued(w)) /\ Precede(Known(w), Contents(posted) \cup AtThread)
      BY DEF TickInv, OrderInv
    <3>2. w = w0 => Precede(Taken(w), {t})
      BY DEF Precede, Known
    <3> QED BY <3>1, <3>2, <1>0, <1>1, <1>2, <1>3, <1>4 DEF Precede
  <2>2. \A w \in TickWorkers : InOrder(begun'[w]) /\ InOrder(queue'[w])
    BY <1>0, <1>1 DEF TickInv, OrderInv
  <2>3. Precede(Contents(posted'), AtThread')
    BY <1>4 DEF TickInv, OrderInv, Precede
  <2> QED BY <2>1, <2>2, <2>3, <1>4 DEF OrderInv, InOrder
<1>9. CountInv'
  <2>1. IsFiniteSet(lost') /\ IsFiniteSet(InHand')
    BY <1>0, <1>2 DEF TickInv, CountInv
  <2>2. CountTerms
    BY CountTermsHold
  <2>3. CountTerms'
    BY <2>1, <1>1, FS_CardinalityType DEF MetricsOk, CountTerms
  <2>4. /\ metrics'.received - metrics.received + OnTheWay = OnTheWay' + 1
        /\ metrics'.dropped + Cardinality(InQueues') = metrics.dropped + Cardinality(InQueues) + 1
        /\ metrics'.processed = metrics.processed /\ metrics'.failed = metrics.failed
        /\ lost' = lost /\ InHand' = InHand
    BY <1>0, <1>1, <1>2
  <2>5. CountGrows
    BY <2>2, <2>3, <2>4, CountEnters
  <2> QED BY <2>1, <2>5, <1>1, CountKeeps
<1> QED BY <1>2, <1>6, <1>7, <1>8, <1>9 DEF TickInv

\* A new tick has the next number.
LEMMA NewTickHolds ==
  ASSUME TickInv, NEW s \in Symbols, NEW by \in {"loop", "thread"}
  PROVE LET t == NewTick(s, by)
        IN  /\ t \in TickType /\ t.n = metrics.received + 1 /\ t.by = by
            /\ t.start = IF loopSet THEN starts ELSE 0
            /\ \A w \in TickWorkers : Precede(Known(w), {t})
            /\ Precede(Contents(posted), {t})
PROOF
<1> DEFINE t == NewTick(s, by)
<1>1. metrics.received \in Nat /\ starts \in Nat /\ posted \in Seq(TickType)
  BY DEF TickInv, TickTyped, MetricsOk
<1>2. t \in TickType /\ t.n = metrics.received + 1 /\ t.by = by
      /\ t.start = IF loopSet THEN starts ELSE 0
  BY <1>1 DEF NewTick, TickType
<1> HIDE DEF t
<1>3. ASSUME NEW x \in TickType, x.n <= metrics.received PROVE Before(x, t)
  <2>1. x.n \in Nat
    BY DEF TickType
  <2> QED BY <2>1, <1>1, <1>2, <1>3 DEF Before
<1>4. \A w \in TickWorkers : \A x \in Known(w) : x \in TickType /\ x.n <= metrics.received
  BY KnownAreTicks DEF TickInv, PlaceInv
<1>5. \A x \in Contents(posted) : x \in TickType /\ x.n <= metrics.received
  BY <1>1, ContentsAreTicks DEF TickInv, PlaceInv
<1> QED BY <1>2, <1>3, <1>4, <1>5 DEF Precede, t

\* on_message on the event loop.
LEMMA OnMessageInLoopStep ==
  ASSUME TickInv, NEW s \in Symbols, OnMessageInLoop(s)
  PROVE TickInv'
PROOF
<1> DEFINE t == NewTick(s, "loop")
           m == [metrics EXCEPT !.received = @ + 1]
<1>0. /\ Enqueue(t, m) /\ UNCHANGED consumerVars
      /\ pending' = pending /\ posted' = posted /\ thread' = thread
  BY DEF OnMessageInLoop
<1>1. /\ t \in TickType /\ t.n = metrics.received + 1 /\ t.by = "loop"
      /\ \A w \in TickWorkers : Precede(Known(w), {t})
  BY NewTickHolds, Zenon
<1>2. /\ MetricsOk(m) /\ m.received = metrics.received + 1 /\ m.processed = metrics.processed
      /\ m.failed = metrics.failed /\ m.dropped = metrics.dropped
  BY Counted DEF TickInv, TickTyped
<1> HIDE DEF t, m
<1>3. WorkerOf(t) \in TickWorkers
  BY <1>1, TickAssumption DEF WorkerOf, TickType
<1>4. Precede({t}, Contents(posted') \cup AtThread')
  <2>1. \A x \in Contents(posted) \cup AtThread : x.by = "thread"
    BY DEF TickInv, PlaceInv
  <2>2. AtThread' = AtThread
    BY <1>0 DEF AtThread
  <2> QED BY <2>1, <2>2, <1>0, <1>1 DEF Precede, Before
<1>5. /\ posted' \in Seq(TickType) /\ InOrder(posted') /\ Contents(posted') \subseteq Contents(posted)
      /\ thread' \in ThreadType /\ pending' \in 0..MaxPendingHandoffs
  BY <1>0 DEF TickInv, TickTyped, OrderInv
<1>6. OnTheWay' = OnTheWay /\ Reserved' = Reserved
  BY <1>0 DEF OnTheWay, Held, Reserved
<1>7. pending' = Reserved'
  BY <1>0, <1>6, CountForm DEF TickInv, CountInv
<1>8. /\ m.received - metrics.received + OnTheWay = OnTheWay' + 1 /\ OnTheWay' \in Nat
      /\ metrics.received <= m.received /\ t.n <= m.received
  BY <1>1, <1>2, <1>6, CountTermsHold DEF CountTerms
<1> QED BY <1>0, <1>1, <1>2, <1>3, <1>4, <1>5, <1>7, <1>8, EnqueueStep, Zenon

\* The thread's own _enqueue.
LEMMA EnqueueDirectStep ==
  ASSUME TickInv, EnqueueDirect
  PROVE TickInv'
PROOF
<1> DEFINE t == thread.tick
<1>0. /\ Enqueue(t, metrics) /\ UNCHANGED consumerVars /\ thread.pc = "direct"
      /\ pending' = pending /\ posted' = posted /\ thread' = [pc |-> "idle", tick |-> NoTick]
  BY DEF EnqueueDirect, ThreadDone
<1>1. /\ AtThread = {t} /\ AtThread' = {} /\ Held = 1 /\ Held' = 0 /\ thread' \in ThreadType
      /\ thread'.pc = "idle"
  BY <1>0 DEF AtThread, Held, ThreadType
<1> HIDE DEF t
<1>2. t \in TickType /\ t.n <= metrics.received /\ t.start = 0
  BY <1>0, <1>1 DEF TickInv, PlaceInv
<1>3. WorkerOf(t) \in TickWorkers
  BY <1>2, TickAssumption DEF WorkerOf, TickType
<1>4. Precede(Known(WorkerOf(t)), {t})
  BY <1>1, <1>3 DEF TickInv, OrderInv, Precede
<1>5. Precede({t}, Contents(posted') \cup AtThread')
  <2>1. \A x \in Contents(posted) : x.start # 0
    BY DEF TickInv, PlaceInv
  <2> QED BY <2>1, <1>0, <1>1, <1>2 DEF Precede, Before
<1>6. /\ posted' \in Seq(TickType) /\ InOrder(posted') /\ Contents(posted') \subseteq Contents(posted)
      /\ pending' \in 0..MaxPendingHandoffs /\ MetricsOk(metrics)
  BY <1>0 DEF TickInv, TickTyped, OrderInv
<1>7. Len(posted) \in Nat
  BY DEF TickInv, TickTyped
<1>8. OnTheWay = OnTheWay' + 1 /\ OnTheWay' \in Nat /\ Reserved' = Reserved
  BY <1>0, <1>1, <1>7 DEF OnTheWay, Reserved
<1>9. pending' = Reserved'
  BY <1>0, <1>8, CountForm DEF TickInv, CountInv
<1>10. /\ metrics.received - metrics.received + OnTheWay = OnTheWay' + 1
       /\ metrics.received <= metrics.received
  BY <1>8, CountTermsHold DEF CountTerms
<1> QED BY <1>0, <1>1, <1>2, <1>3, <1>4, <1>5, <1>6, <1>8, <1>9, <1>10, EnqueueStep, Zenon

\* The callback of a handoff on the loop.
LEMMA EnqueueFromHandoffStep ==
  ASSUME TickInv, EnqueueFromHandoff
  PROVE TickInv'
PROOF
<1> DEFINE t == Head(posted)
<1>0. /\ Enqueue(t, metrics) /\ UNCHANGED consumerVars /\ posted # <<>>
      /\ pending' = pending - 1 /\ posted' = Tail(posted) /\ thread' = thread
  BY DEF EnqueueFromHandoff
<1>1. posted \in Seq(TickType) /\ posted \in Seq(Items) /\ InOrder(posted)
  BY ContentsAreTicks DEF TickInv, TickTyped, OrderInv
<1>2. /\ t \in TickType /\ posted' \in Seq(TickType) /\ Len(posted') = Len(posted) - 1
      /\ Len(posted) \in Nat \ {0}
  BY <1>0, <1>1, TailAt
<1>3. /\ InOrder(posted') /\ Contents(posted) = Contents(posted') \cup ({t} \ {ShutDown})
      /\ t # ShutDown => \A x \in Contents(posted') : Before(t, x)
  BY <1>0, <1>1, TakeHead
<1> HIDE DEF t
<1>4. t \in Contents(posted) /\ Contents(posted') \subseteq Contents(posted)
      /\ \A x \in Contents(posted') : Before(t, x)
  BY <1>2, <1>3, TickAssumption
<1>5. WorkerOf(t) \in TickWorkers
  BY <1>2, TickAssumption DEF WorkerOf, TickType
<1>6. Precede(Known(WorkerOf(t)), {t}) /\ t.n <= metrics.received
  BY <1>4, <1>5 DEF TickInv, OrderInv, PlaceInv, Precede
<1>7. AtThread' = AtThread /\ Held' = Held /\ thread' \in ThreadType /\ MetricsOk(metrics)
  BY <1>0 DEF AtThread, Held, TickInv, TickTyped
<1>8. Precede({t}, Contents(posted') \cup AtThread')
  BY <1>4, <1>7 DEF Precede, TickInv, OrderInv
<1>9. pending = Reserved /\ pending \in 0..MaxPendingHandoffs
  BY CountForm DEF TickInv, CountInv, TickTyped
<1>10. Held \in Nat
  BY DEF Held
<1>11. OnTheWay = OnTheWay' + 1 /\ OnTheWay' \in Nat
  BY <1>2, <1>7, <1>10 DEF OnTheWay
<1>12. pending' = Reserved' /\ pending' \in 0..MaxPendingHandoffs
  <2> DEFINE r == IF thread.pc = "post" THEN 1 ELSE 0
  <2>1. Reserved = Len(posted) + r /\ Reserved' = Len(posted') + r /\ r \in Nat
    BY <1>0 DEF Reserved
  <2> HIDE DEF r
  <2>2. Reserved' = pending - 1 /\ pending - 1 >= 0 /\ pending \in Int
    BY <2>1, <1>2, <1>9
  <2> QED BY <2>2, <1>0, <1>9, TickAssumption
<1>13. /\ metrics.received - metrics.received + OnTheWay = OnTheWay' + 1
       /\ metrics.received <= metrics.received
  BY <1>11, CountTermsHold DEF CountTerms
<1> QED BY <1>0, <1>2, <1>3, <1>4, <1>6, <1>7, <1>8, <1>11, <1>12, <1>13, EnqueueStep, Zenon

\* A step of the foreign thread that touches no queue.
LEMMA ThreadStep ==
  ASSUME TickInv, queue' = queue, UNCHANGED consumerVars,
         MetricsOk(metrics'), metrics.received <= metrics'.received,
         posted' \in Seq(TickType), InOrder(posted'), thread' \in ThreadType,
         Precede(Contents(posted'), AtThread'),
         \A x \in Contents(posted') : x.by = "thread" /\ x.start # 0 /\ x.n <= metrics'.received,
         \A x \in AtThread' : /\ x \in TickType /\ x.by = "thread" /\ x.n <= metrics'.received
                              /\ x.start = 0 <=> thread'.pc = "direct",
         \A w \in TickWorkers : Precede(Known(w), Contents(posted') \cup AtThread'),
         pending' \in 0..MaxPendingHandoffs, pending' = Reserved',
         metrics'.processed = metrics.processed, metrics'.failed = metrics.failed,
         metrics'.received - metrics.received =
           (metrics'.dropped - metrics.dropped) + (OnTheWay' - OnTheWay)
  PROVE TickInv'
PROOF
<1>0. /\ task' = task /\ running' = running /\ loopSet' = loopSet /\ loopClosed' = loopClosed
      /\ stopping' = stopping /\ starts' = starts /\ begun' = begun /\ lost' = lost
      /\ due' = due /\ stale' = stale
  BY DEF consumerVars
<1>1. QueuesKeep
  BY DEF QueuesKeep
<1>2. HandInv' /\ PhaseInv' /\ DrainInv' /\ InHand' = InHand
  BY <1>1, ConsumersKeep
<1>3. /\ \A w \in TickWorkers : Known(w)' = Known(w) /\ Taken(w)' = Taken(w) /\ Queued(w)' = Queued(w)
      /\ InQueues' = InQueues /\ Contents(posted)' = Contents(posted')
  BY <1>0 DEF Known, Taken, Queued, InQueues, Contents
<1>4. TickTyped'
  <2>1. /\ queue \in [TickWorkers -> Seq(Items)] /\ task \in [TickWorkers -> TaskType]
        /\ begun \in [TickWorkers -> Seq(TickType)]
        /\ running \in BOOLEAN /\ loopSet \in BOOLEAN /\ loopClosed \in BOOLEAN /\ stale \in BOOLEAN
        /\ stopping \in StopType /\ starts \in Nat /\ lost \subseteq TickType
        /\ \A w \in TickWorkers : Len(queue[w]) <= QueueSize
    BY DEF TickInv, TickTyped
  <2> QED BY <2>1, <1>0 DEF TickTyped
<1>5. PlaceInv'
  <2>1. ASSUME NEW w \in TickWorkers, NEW x \in Known(w)
        PROVE Partition[x.symbol] = w /\ x.n <= metrics'.received
    <3>1. Partition[x.symbol] = w /\ x.n <= metrics.received /\ x \in TickType
      BY <2>1, KnownAreTicks DEF TickInv, PlaceInv
    <3>2. x.n \in Nat /\ metrics.received \in Nat /\ metrics'.received \in Nat
      BY <3>1, CountTermsHold DEF TickType, CountTerms, MetricsOk
    <3> QED BY <3>1, <3>2
  <2>2. loopSet' => starts' > 0
    BY <1>0 DEF TickInv, PlaceInv
  <2> QED BY <2>1, <2>2, <1>3, Zenon DEF PlaceInv
<1>6. OrderInv'
  <2>1. \A w \in TickWorkers :
          InOrder(begun[w]) /\ InOrder(queue[w]) /\ Precede(Taken(w), Queued(w))
    BY DEF TickInv, OrderInv
  <2> QED BY <2>1, <1>0, <1>3, Zenon DEF OrderInv, Precede, InOrder
<1>7. CountInv'
  <2>1. IsFiniteSet(lost') /\ IsFiniteSet(InHand') /\ IsFiniteSet(InQueues')
    BY <1>0, <1>2, <1>3 DEF TickInv, CountInv
  <2>2. CountTerms
    BY CountTermsHold
  <2>3. Len(posted') \in Nat /\ Held' \in Nat
    BY DEF Held
  <2>4. OnTheWay' \in Nat
    BY <2>3 DEF OnTheWay
  <2>5. CountTerms'
    BY <2>1, <2>4, FS_CardinalityType DEF MetricsOk, CountTerms
  <2>6. CountGrows
    BY <2>2, <2>5, <1>0, <1>2, <1>3, CountMoves
  <2> QED BY <2>1, <2>6, CountKeeps
<1> QED BY <1>2, <1>4, <1>5, <1>6, <1>7 DEF TickInv

\* What the invariant says of the thread and the callbacks it posted.
LEMMA WayHolds ==
  ASSUME TickInv
  PROVE /\ posted \in Seq(TickType) /\ Len(posted) \in Nat /\ InOrder(posted)
        /\ thread \in ThreadType
        /\ MetricsOk(metrics) /\ metrics.received \in Nat /\ metrics.dropped \in Nat
        /\ pending \in 0..MaxPendingHandoffs /\ pending = Reserved
        /\ Precede(Contents(posted), AtThread)
        /\ \A x \in Contents(posted) : x.by = "thread" /\ x.start # 0 /\ x.n <= metrics.received
        /\ \A x \in AtThread : /\ x \in TickType /\ x.by = "thread" /\ x.n <= metrics.received
                               /\ x.start = 0 <=> thread.pc = "direct"
        /\ \A w \in TickWorkers : Precede(Known(w), Contents(posted) \cup AtThread)
PROOF
<1>1. /\ posted \in Seq(TickType) /\ thread \in ThreadType /\ MetricsOk(metrics)
      /\ pending \in 0..MaxPendingHandoffs
  BY DEF TickInv, TickTyped
<1>2. pending = Reserved
  BY CountForm DEF TickInv, CountInv
<1>3. /\ InOrder(posted) /\ Precede(Contents(posted), AtThread)
      /\ \A w \in TickWorkers : Precede(Known(w), Contents(posted) \cup AtThread)
  BY DEF TickInv, OrderInv
<1>4. /\ \A x \in Contents(posted) : x.by = "thread" /\ x.start # 0 /\ x.n <= metrics.received
      /\ \A x \in AtThread : /\ x \in TickType /\ x.by = "thread" /\ x.n <= metrics.received
                             /\ x.start = 0 <=> thread.pc = "direct"
  BY DEF TickInv, PlaceInv
<1>5. Len(posted) \in Nat
  BY <1>1
<1> QED BY <1>1, <1>2, <1>3, <1>4, <1>5 DEF MetricsOk

\* on_message on the foreign thread.
LEMMA OnMessageStep ==
  ASSUME TickInv, NEW s \in Symbols, OnMessage(s)
  PROVE TickInv'
PROOF
<1> DEFINE t == NewTick(s, "thread")
<1>0. /\ thread.pc = "idle" /\ metrics' = [metrics EXCEPT !.received = @ + 1]
      /\ thread' = [pc |-> IF loopSet THEN "handoff" ELSE "direct", tick |-> t]
      /\ queue' = queue /\ pending' = pending /\ posted' = posted /\ UNCHANGED consumerVars
  BY DEF OnMessage
<1>1. /\ t \in TickType /\ t.n = metrics.received + 1 /\ t.by = "thread"
      /\ t.start = (IF loopSet THEN starts ELSE 0)
      /\ \A w \in TickWorkers : Precede(Known(w), {t})
      /\ Precede(Contents(posted), {t})
  BY NewTickHolds, Zenon
<1> HIDE DEF t
<1>2. /\ MetricsOk(metrics') /\ metrics'.received = metrics.received + 1
      /\ metrics'.processed = metrics.processed /\ metrics'.failed = metrics.failed
      /\ metrics'.dropped = metrics.dropped
  BY <1>0, Counted DEF TickInv, TickTyped
<1>3. /\ thread' \in ThreadType /\ AtThread = {} /\ AtThread' = {t} /\ Held = 0 /\ Held' = 1
      /\ Reserved' = Reserved
  BY <1>0, <1>1 DEF ThreadType, AtThread, Held, Reserved
<1>4. /\ posted \in Seq(TickType) /\ Len(posted) \in Nat /\ InOrder(posted)
      /\ metrics.received \in Nat /\ metrics.dropped \in Nat
      /\ pending \in 0..MaxPendingHandoffs /\ pending = Reserved
      /\ \A x \in Contents(posted) : x.by = "thread" /\ x.start # 0 /\ x.n <= metrics.received
      /\ \A w \in TickWorkers : Precede(Known(w), Contents(posted))
  BY <1>3, WayHolds
<1>5. t.start = 0 <=> thread'.pc = "direct"
  <2>1. loopSet => starts > 0
    BY DEF TickInv, PlaceInv
  <2>2. starts \in Nat /\ loopSet \in BOOLEAN
    BY DEF TickInv, TickTyped
  <2>3. CASE loopSet
    BY <2>1, <2>2, <2>3, <1>0, <1>1
  <2>4. CASE ~loopSet
    BY <2>4, <1>0, <1>1
  <2> QED BY <2>3, <2>4
<1>6. \A x \in Contents(posted) : x.n <= metrics'.received
  <2>1. \A x \in Contents(posted) : x.n \in Nat
    BY <1>4, ContentsAreTicks DEF TickType
  <2> QED BY <2>1, <1>2, <1>4
<1>7. /\ OnTheWay' - OnTheWay = 1 /\ metrics'.received - metrics.received = 1
      /\ metrics'.dropped - metrics.dropped = 0
      /\ metrics.received <= metrics'.received /\ t.n <= metrics'.received
  BY <1>0, <1>1, <1>2, <1>3, <1>4 DEF OnTheWay
<1>8. metrics'.received - metrics.received = (metrics'.dropped - metrics.dropped) + (OnTheWay' - OnTheWay)
  BY <1>7
<1>9. \A w \in TickWorkers : Precede(Known(w), Contents(posted') \cup AtThread')
  BY <1>0, <1>1, <1>3, <1>4 DEF Precede
<1>10. \A x \in AtThread' : /\ x \in TickType /\ x.by = "thread" /\ x.n <= metrics'.received
                            /\ x.start = 0 <=> thread'.pc = "direct"
  BY <1>1, <1>3, <1>5, <1>7
<1>11. \A x \in Contents(posted') : x.by = "thread" /\ x.start # 0 /\ x.n <= metrics'.received
  BY <1>0, <1>4, <1>6
<1>12. Precede(Contents(posted'), AtThread')
  BY <1>0, <1>1, <1>3
<1>13. /\ posted' \in Seq(TickType) /\ InOrder(posted')
       /\ pending' \in 0..MaxPendingHandoffs /\ pending' = Reserved'
  BY <1>0, <1>3, <1>4
<1> QED BY <1>0, <1>2, <1>3, <1>7, <1>8, <1>9, <1>10, <1>11, <1>12, <1>13, ThreadStep, Zenon

\* _handoff under the lock.
LEMMA HandoffStep ==
  ASSUME TickInv, Handoff
  PROVE TickInv'
PROOF
<1>0. /\ thread.pc = "handoff" /\ queue' = queue /\ posted' = posted /\ UNCHANGED consumerVars
  BY DEF Handoff
<1>1. /\ posted \in Seq(TickType) /\ Len(posted) \in Nat /\ InOrder(posted)
      /\ thread \in ThreadType
      /\ MetricsOk(metrics) /\ metrics.received \in Nat /\ metrics.dropped \in Nat
      /\ pending \in 0..MaxPendingHandoffs /\ pending = Reserved
      /\ Precede(Contents(posted), AtThread)
      /\ \A x \in Contents(posted) : x.by = "thread" /\ x.start # 0 /\ x.n <= metrics.received
      /\ \A x \in AtThread : /\ x \in TickType /\ x.by = "thread" /\ x.n <= metrics.received
                             /\ x.start = 0 <=> thread.pc = "direct"
      /\ \A w \in TickWorkers : Precede(Known(w), Contents(posted) \cup AtThread)
  BY WayHolds
<1>2. Held = 1 /\ Reserved = Len(posted)
  BY <1>0, <1>1 DEF Held, Reserved
<1>3. CASE ~loopSet \/ pending >= MaxPendingHandoffs
  <2>0. /\ thread' = [pc |-> "idle", tick |-> NoTick] /\ metrics' = [metrics EXCEPT !.dropped = @ + 1]
        /\ pending' = pending
    BY <1>3 DEF Handoff, ThreadDone
  <2>1. /\ MetricsOk(metrics') /\ metrics'.received = metrics.received
        /\ metrics'.processed = metrics.processed /\ metrics'.failed = metrics.failed
        /\ metrics'.dropped = metrics.dropped + 1
    BY <2>0, <1>1, Counted
  <2>2. thread' \in ThreadType /\ AtThread' = {} /\ Held' = 0 /\ Reserved' = Len(posted')
    BY <2>0, <1>0, <1>1 DEF ThreadType, AtThread, Held, Reserved
  <2>3. /\ OnTheWay' - OnTheWay = -1 /\ metrics'.received - metrics.received = 0
        /\ metrics'.dropped - metrics.dropped = 1 /\ metrics.received <= metrics'.received
    BY <2>1, <2>2, <1>0, <1>1, <1>2 DEF OnTheWay
  <2>4. metrics'.received - metrics.received
          = (metrics'.dropped - metrics.dropped) + (OnTheWay' - OnTheWay)
    BY <2>3
  <2>5. /\ \A w \in TickWorkers : Precede(Known(w), Contents(posted') \cup AtThread')
        /\ Precede(Contents(posted'), AtThread')
        /\ \A x \in AtThread' : /\ x \in TickType /\ x.by = "thread" /\ x.n <= metrics'.received
                                /\ x.start = 0 <=> thread'.pc = "direct"
    BY <2>2, <1>0, <1>1 DEF Precede
  <2>6. /\ posted' \in Seq(TickType) /\ InOrder(posted')
        /\ pending' \in 0..MaxPendingHandoffs /\ pending' = Reserved'
        /\ \A x \in Contents(posted') : x.by = "thread" /\ x.start # 0 /\ x.n <= metrics'.received
    BY <2>0, <2>1, <2>2, <1>0, <1>1, <1>2
  <2> QED BY <2>1, <2>2, <2>3, <2>4, <2>5, <2>6, <1>0, ThreadStep, Zenon
<1>4. CASE ~(~loopSet \/ pending >= MaxPendingHandoffs)
  <2>0. /\ thread' = [thread EXCEPT !.pc = "post"] /\ pending' = pending + 1 /\ metrics' = metrics
    BY <1>4 DEF Handoff
  <2>1. thread' \in ThreadType /\ thread'.pc = "post" /\ thread'.tick = thread.tick
    BY <2>0, <1>1 DEF ThreadType
  <2>2. AtThread' = AtThread /\ Held' = 1 /\ Reserved' = Len(posted') + 1
    BY <2>1, <1>0 DEF AtThread, Held, Reserved
  <2>3. /\ OnTheWay' - OnTheWay = 0 /\ metrics'.received - metrics.received = 0
        /\ metrics'.dropped - metrics.dropped = 0 /\ metrics.received <= metrics'.received
    BY <2>0, <2>2, <1>0, <1>1, <1>2 DEF OnTheWay
  <2>4. metrics'.received - metrics.received
          = (metrics'.dropped - metrics.dropped) + (OnTheWay' - OnTheWay)
    BY <2>3
  <2>5. pending' \in 0..MaxPendingHandoffs /\ pending' = Reserved'
    BY <2>0, <2>2, <1>0, <1>1, <1>2, <1>4, TickAssumption
  <2>6. /\ \A w \in TickWorkers : Precede(Known(w), Contents(posted') \cup AtThread')
        /\ Precede(Contents(posted'), AtThread') /\ posted' \in Seq(TickType) /\ InOrder(posted')
    BY <2>2, <1>0, <1>1
  <2>7. \A x \in AtThread' : /\ x \in TickType /\ x.by = "thread" /\ x.n <= metrics'.received
                             /\ x.start = 0 <=> thread'.pc = "direct"
    BY <2>0, <2>1, <2>2, <1>0, <1>1
  <2>8. \A x \in Contents(posted') : x.by = "thread" /\ x.start # 0 /\ x.n <= metrics'.received
    BY <2>0, <1>0, <1>1
  <2> QED BY <2>0, <2>1, <2>3, <2>4, <2>5, <2>6, <2>7, <2>8, <1>0, <1>1, ThreadStep, Zenon
<1> QED BY <1>3, <1>4

\* call_soon_threadsafe.
LEMMA PostStep ==
  ASSUME TickInv, Post
  PROVE TickInv'
PROOF
<1>0. /\ thread.pc = "post" /\ queue' = queue /\ UNCHANGED consumerVars
      /\ thread' = [pc |-> "idle", tick |-> NoTick]
  BY DEF Post, ThreadDone
<1>1. /\ posted \in Seq(TickType) /\ Len(posted) \in Nat /\ InOrder(posted)
      /\ MetricsOk(metrics) /\ metrics.received \in Nat /\ metrics.dropped \in Nat
      /\ pending \in 0..MaxPendingHandoffs /\ pending = Reserved
      /\ Precede(Contents(posted), AtThread)
      /\ \A x \in Contents(posted) : x.by = "thread" /\ x.start # 0 /\ x.n <= metrics.received
      /\ \A x \in AtThread : /\ x \in TickType /\ x.by = "thread" /\ x.n <= metrics.received
                             /\ x.start = 0 <=> thread.pc = "direct"
      /\ \A w \in TickWorkers : Precede(Known(w), Contents(posted) \cup AtThread)
  BY WayHolds
<1>2. /\ Held = 1 /\ Reserved = Len(posted) + 1 /\ AtThread = {thread.tick}
      /\ thread' \in ThreadType /\ AtThread' = {} /\ Held' = 0 /\ Reserved' = Len(posted')
  BY <1>0, <1>1 DEF Held, Reserved, ThreadType, AtThread
<1>3. CASE loopClosed
  <2>0. /\ metrics' = [metrics EXCEPT !.dropped = @ + 1] /\ pending' = pending - 1 /\ posted' = posted
    BY <1>3 DEF Post
  <2>1. /\ MetricsOk(metrics') /\ metrics'.received = metrics.received
        /\ metrics'.processed = metrics.processed /\ metrics'.failed = metrics.failed
        /\ metrics'.dropped = metrics.dropped + 1
    BY <2>0, <1>1, Counted
  <2>2. /\ OnTheWay' - OnTheWay = -1 /\ metrics'.received - metrics.received = 0
        /\ metrics'.dropped - metrics.dropped = 1 /\ metrics.received <= metrics'.received
    BY <2>0, <2>1, <1>1, <1>2 DEF OnTheWay
  <2>3. metrics'.received - metrics.received
          = (metrics'.dropped - metrics.dropped) + (OnTheWay' - OnTheWay)
    BY <2>2
  <2>4. pending' \in 0..MaxPendingHandoffs /\ pending' = Reserved'
    BY <2>0, <1>1, <1>2, TickAssumption
  <2>5. /\ \A w \in TickWorkers : Precede(Known(w), Contents(posted') \cup AtThread')
        /\ Precede(Contents(posted'), AtThread') /\ posted' \in Seq(TickType) /\ InOrder(posted')
        /\ \A x \in AtThread' : /\ x \in TickType /\ x.by = "thread" /\ x.n <= metrics'.received
                                /\ x.start = 0 <=> thread'.pc = "direct"
        /\ \A x \in Contents(posted') : x.by = "thread" /\ x.start # 0 /\ x.n <= metrics'.received
    BY <2>0, <2>1, <1>1, <1>2 DEF Precede
  <2> QED BY <2>1, <2>2, <2>3, <2>4, <2>5, <1>0, <1>2, ThreadStep, Zenon
<1>4. CASE ~loopClosed
  <2> DEFINE t == thread.tick
  <2>0. metrics' = metrics /\ pending' = pending /\ posted' = Append(posted, t)
    BY <1>4 DEF Post
  <2> HIDE DEF t
  <2>1. /\ t \in TickType /\ t \in AtThread /\ t \in Items /\ t # ShutDown
        /\ t.by = "thread" /\ t.n <= metrics.received /\ t.start # 0
    BY <1>0, <1>1, <1>2, TickAssumption DEF Items, t
  <2>2. posted \in Seq(Items) /\ posted' \in Seq(TickType) /\ Len(posted') = Len(posted) + 1
    BY <2>0, <2>1, <1>1, AppendAt, ContentsAreTicks
  <2>3. Contents(posted') = Contents(posted) \cup {t}
    BY <2>0, <2>1, <2>2, ContentsAppend
  <2>4. InOrder(posted')
    <3>1. \A x \in Contents(posted) : Before(x, t)
      BY <2>1, <1>1 DEF Precede
    <3> QED BY <3>1, <2>0, <2>1, <2>2, <1>1, InOrderAppend
  <2>5. /\ OnTheWay' - OnTheWay = 0 /\ metrics'.received - metrics.received = 0
        /\ metrics'.dropped - metrics.dropped = 0 /\ metrics.received <= metrics'.received
    BY <2>0, <2>2, <1>1, <1>2 DEF OnTheWay
  <2>6. metrics'.received - metrics.received
          = (metrics'.dropped - metrics.dropped) + (OnTheWay' - OnTheWay)
    BY <2>5
  <2>7. pending' \in 0..MaxPendingHandoffs /\ pending' = Reserved'
    BY <2>0, <2>2, <1>1, <1>2
  <2>8. /\ \A w \in TickWorkers : Precede(Known(w), Contents(posted') \cup AtThread')
        /\ Precede(Contents(posted'), AtThread')
    BY <2>1, <2>3, <1>1, <1>2 DEF Precede
  <2>9. /\ \A x \in AtThread' : /\ x \in TickType /\ x.by = "thread" /\ x.n <= metrics'.received
                                /\ x.start = 0 <=> thread'.pc = "direct"
        /\ \A x \in Contents(posted') : x.by = "thread" /\ x.start # 0 /\ x.n <= metrics'.received
    BY <2>0, <2>1, <2>3, <1>1, <1>2
  <2> QED BY <2>0, <2>2, <2>4, <2>5, <2>6, <2>7, <2>8, <2>9, <1>0, <1>1, <1>2, ThreadStep, Zenon
<1> QED BY <1>3, <1>4

-----------------------------------------------------------------------------
(* TickPipeline: a worker's turn. *)

\* What a worker's turn leaves of the queue and the tasks: it waits, is done, or has
\* the head of its queue in hand.
TurnIdle(w) ==
  /\ task'[w].pc \in {"get", "done"} /\ task'[w].tick = NoTick
  /\ Queued(w)' = Queued(w) /\ Taken(w)' = Taken(w)
TurnBusy(w) ==
  LET t == task'[w].tick
  IN  /\ task'[w].pc = "busy" /\ t \in TickType /\ t \in Queued(w) /\ t \notin Taken(w)
      /\ Queued(w)' = Queued(w) \ {t} /\ Taken(w)' = Taken(w) \cup {t}
Took(w) ==
  /\ queue' \in [TickWorkers -> Seq(Items)] /\ begun' \in [TickWorkers -> Seq(TickType)]
  /\ task' \in [TickWorkers -> TaskType]
  /\ \A v \in TickWorkers \ {w} :
       task'[v] = task[v] /\ queue'[v] = queue[v] /\ begun'[v] = begun[v]
  /\ Len(queue'[w]) <= QueueSize /\ InOrder(queue'[w]) /\ InOrder(begun'[w])
  /\ Precede(Taken(w)', Queued(w)')
  /\ TurnIdle(w) \/ TurnBusy(w)
  /\ \A x : Ahead(queue[w], x) =>
       task'[w].pc = "busy" /\ (x = task'[w].tick \/ Ahead(queue'[w], x))
  /\ ShutDown \notin {queue[w][i] : i \in DOMAIN queue[w]} =>
       /\ ShutDown \notin {queue'[w][i] : i \in DOMAIN queue'[w]}
       /\ task'[w].pc = "done" => ~running

\* Taking the next item off a queue (a tick, a sentinel or nothing) does what Took says.
LEMMA TakeNextHolds ==
  ASSUME TickInv, NEW w \in TickWorkers, TakeNext(w)
  PROVE Took(w)
PROOF
<1>1. /\ queue \in [TickWorkers -> Seq(Items)] /\ begun \in [TickWorkers -> Seq(TickType)]
      /\ task \in [TickWorkers -> TaskType] /\ Len(queue[w]) <= QueueSize
      /\ InOrder(queue[w]) /\ InOrder(begun[w]) /\ Precede(Taken(w), Queued(w))
  BY DEF TickInv, TickTyped, OrderInv
<1>2. /\ queue[w] \in Seq(Items) /\ begun[w] \in Seq(TickType) /\ begun[w] \in Seq(Items)
      /\ Queued(w) = Contents(queue[w]) /\ Taken(w) \subseteq TickType
  BY KnownAreTicks
<1>3. Queued(w)' = Contents(queue'[w]) /\ Taken(w)' = Contents(begun'[w]) /\ Taken(w) = Contents(begun[w])
  BY DEF Queued, Contents, Taken
<1>4. QueueSize \in Nat /\ NoTick \notin TickType /\ ShutDown \notin TickType
  BY TickAssumption
<1>5. CASE queue[w] = <<>>
  <2> DEFINE e == [pc |-> IF running THEN "get" ELSE "done", tick |-> NoTick]
  <2>0. task' = [task EXCEPT ![w] = e] /\ queue' = queue /\ begun' = begun
    BY <1>5 DEF TakeNext
  <2>1. e \in TaskType /\ e.pc \in {"get", "done"} /\ e.tick = NoTick /\ (e.pc = "done" => ~running)
    BY DEF TaskType
  <2> HIDE DEF e
  <2>2. /\ task' \in [TickWorkers -> TaskType] /\ task'[w] = e
        /\ \A v \in TickWorkers \ {w} : task'[v] = task[v]
    BY <2>0, <2>1, <1>1
  <2>3. TurnIdle(w)
    BY <2>0, <2>1, <2>2, <1>2, <1>3 DEF TurnIdle
  <2>4. \A x : ~Ahead(queue[w], x)
    BY <1>5 DEF Ahead
  <2>5. Precede(Taken(w)', Queued(w)')
    BY <2>0, <1>1, <1>2, <1>3
  <2> QED BY <2>0, <2>1, <2>2, <2>3, <2>4, <2>5, <1>1 DEF Took
<1>6. CASE queue[w] # <<>>
  <2> DEFINE h == Head(queue[w])
             r == Tail(queue[w])
  <2>0. queue' = [queue EXCEPT ![w] = r]
    BY <1>6 DEF TakeNext
  <2>1. /\ h \in Items /\ r \in Seq(Items) /\ Len(r) = Len(queue[w]) - 1 /\ Len(queue[w]) \in Nat
        /\ DOMAIN queue[w] = 1..Len(queue[w]) /\ DOMAIN r = 1..(Len(queue[w]) - 1)
        /\ \A i \in 1..(Len(queue[w]) - 1) : r[i] = queue[w][i + 1]
        /\ h = queue[w][1] /\ Len(queue[w]) # 0
    BY <1>6, <1>2, TailAt
  <2>2. /\ InOrder(r) /\ Contents(queue[w]) = Contents(r) \cup ({h} \ {ShutDown})
        /\ h # ShutDown => \A x \in Contents(r) : Before(h, x)
    BY <1>6, <1>1, <1>2, TakeHead
  <2>3. \A x : Ahead(queue[w], x) => h # ShutDown /\ (h = x \/ Ahead(r, x))
    BY <1>6, <1>2, AheadTail
  <2> HIDE DEF h, r
  <2>4. ShutDown \notin {queue[w][i] : i \in DOMAIN queue[w]} =>
          h # ShutDown /\ ShutDown \notin {r[i] : i \in DOMAIN r}
    <3>1. \A i \in DOMAIN r : i + 1 \in DOMAIN queue[w] /\ r[i] = queue[w][i + 1]
      BY <2>1
    <3>2. 1 \in DOMAIN queue[w]
      BY <2>1
    <3> QED BY <3>1, <3>2, <2>1
  <2>5. /\ queue' \in [TickWorkers -> Seq(Items)] /\ queue'[w] = r
        /\ \A v \in TickWorkers \ {w} : queue'[v] = queue[v]
    BY <2>0, <2>1, <1>1
  <2>6. Len(queue'[w]) <= QueueSize
    BY <2>1, <2>5, <1>1, <1>4
  <2>7. CASE h = ShutDown
    <3> DEFINE e == [pc |-> "done", tick |-> NoTick]
    <3>0. task' = [task EXCEPT ![w] = e] /\ begun' = begun
      BY <2>7, <1>6 DEF TakeNext, h
    <3>1. e \in TaskType /\ e.pc = "done" /\ e.tick = NoTick
      BY DEF TaskType
    <3> HIDE DEF e
    <3>2. /\ task' \in [TickWorkers -> TaskType] /\ task'[w] = e
          /\ \A v \in TickWorkers \ {w} : task'[v] = task[v]
      BY <3>0, <3>1, <1>1
    <3>3. Queued(w)' = Queued(w) /\ Taken(w)' = Taken(w)
      BY <3>0, <2>2, <2>5, <2>7, <1>2, <1>3
    <3>4. TurnIdle(w)
      BY <3>1, <3>2, <3>3 DEF TurnIdle
    <3>5. Precede(Taken(w)', Queued(w)')
      BY <3>3, <1>1
    <3> QED BY <3>0, <3>1, <3>2, <3>4, <3>5, <2>2, <2>3, <2>4, <2>5, <2>6, <2>7, <1>1 DEF Took
  <2>8. CASE h # ShutDown
    <3> DEFINE e == [pc |-> "busy", tick |-> h]
               b == Append(begun[w], h)
    <3>0. task' = [task EXCEPT ![w] = e] /\ begun' = [begun EXCEPT ![w] = b]
      BY <2>8, <1>6 DEF TakeNext, h
    <3>1. h \in TickType
      BY <2>1, <2>8 DEF Items
    <3>2. e \in TaskType /\ e.pc = "busy" /\ e.tick = h
      BY <3>1 DEF TaskType
    <3>3. b \in Seq(TickType)
      BY <3>1, <1>2, AppendAt
    <3>4. Contents(b) = Contents(begun[w]) \cup {h}
      BY <3>1, <2>1, <2>8, <1>2, ContentsAppend
    <3>5. h \in Queued(w) /\ \A x \in Taken(w) : Before(x, h)
      BY <2>2, <2>8, <1>1, <1>2 DEF Precede
    <3>6. InOrder(b)
      BY <3>5, <2>1, <1>1, <1>2, <1>3, InOrderAppend
    <3> HIDE DEF e, b
    <3>7. /\ task' \in [TickWorkers -> TaskType] /\ task'[w] = e
          /\ begun' \in [TickWorkers -> Seq(TickType)] /\ begun'[w] = b
          /\ \A v \in TickWorkers \ {w} : task'[v] = task[v] /\ begun'[v] = begun[v]
      BY <3>0, <3>2, <3>3, <1>1
    <3>8. Queued(w)' = Contents(r) /\ Queued(w) = Contents(r) \cup {h} /\ Taken(w)' = Taken(w) \cup {h}
      BY <3>4, <3>7, <2>2, <2>5, <2>8, <1>2, <1>3
    <3>9. h \notin Contents(r) /\ h \notin Taken(w)
      BY <3>1, <3>5, <2>2, <2>8, BeforeIsStrict
    <3>10. TurnBusy(w)
      BY <3>1, <3>2, <3>5, <3>7, <3>8, <3>9 DEF TurnBusy
    <3>11. Precede(Taken(w)', Queued(w)')
      BY <3>8, <2>2, <2>8, <1>1 DEF Precede
    <3> QED BY <3>2, <3>6, <3>7, <3>10, <3>11, <2>2, <2>3, <2>4, <2>5, <2>6, <2>8 DEF Took
  <2> QED BY <2>7, <2>8
<1> QED BY <1>5, <1>6

\* A turn changes the ticks in hand by the worker's own.
LEMMA HandCount ==
  ASSUME TickInv, NEW w \in TickWorkers, Took(w)
  PROVE LET was == IF task[w].pc = "busy" THEN 1 ELSE 0
            is == IF task'[w].pc = "busy" THEN 1 ELSE 0
        IN  /\ IsFiniteSet(InHand') /\ IsFiniteSet(InQueues')
            /\ Cardinality(InHand') + was = Cardinality(InHand) + is
            /\ Cardinality(InQueues') + is = Cardinality(InQueues)
PROOF
<1> DEFINE others == {task[v].tick : v \in TickWorkers \ {w}} \ {NoTick}
           was == IF task[w].pc = "busy" THEN 1 ELSE 0
           is == IF task'[w].pc = "busy" THEN 1 ELSE 0
<1>0. /\ \A v \in TickWorkers \ {w} :
           task'[v] = task[v] /\ queue'[v] = queue[v] /\ begun'[v] = begun[v]
      /\ TurnIdle(w) \/ TurnBusy(w)
  BY DEF Took
<1>1. /\ IsFiniteSet(InHand) /\ IsFiniteSet(InQueues) /\ NoTick \notin TickType
      /\ Cardinality(InQueues) \in Nat
  BY TickAssumption, FS_CardinalityType DEF TickInv, CountInv
<1>2. \A v \in TickWorkers : \A x \in Known(v) : x \in TickType /\ Partition[x.symbol] = v
  BY KnownAreTicks DEF TickInv, PlaceInv
<1>3. /\ \A v \in TickWorkers : task[v].pc # "busy" => task[v].tick = NoTick
      /\ \A v \in TickWorkers : task[v].pc = "busy" => task[v].tick \in Known(v)
  BY DEF TickInv, HandInv, Known
<1>4. \A x \in others : x \in TickType /\ Partition[x.symbol] # w
  BY <1>2, <1>3
<1>5. InHand = others \cup ({task[w].tick} \ {NoTick}) /\ InHand' = others \cup ({task'[w].tick} \ {NoTick})
  BY <1>0 DEF InHand
<1>6. IsFiniteSet(others) /\ Cardinality(others) \in Nat
  <2>1. others \subseteq InHand
    BY <1>5
  <2> QED BY <2>1, <1>1, FS_Subset, FS_CardinalityType
<1> HIDE DEF others
<1>7. Cardinality(InHand) = Cardinality(others) + was
  <2>1. CASE task[w].pc = "busy"
    <3>1. task[w].tick \notin others /\ InHand = others \cup {task[w].tick}
      BY <2>1, <1>1, <1>2, <1>3, <1>4, <1>5
    <3>2. Cardinality(InHand) = Cardinality(others) + 1
      BY <3>1, <1>6, FS_AddElement
    <3> QED BY <3>2, <2>1
  <2>2. CASE task[w].pc # "busy"
    <3>1. InHand = others
      BY <2>2, <1>1, <1>3, <1>4, <1>5
    <3> QED BY <3>1, <2>2, <1>6
  <2> QED BY <2>1, <2>2
<1>8. /\ IsFiniteSet(InHand') /\ Cardinality(InHand') = Cardinality(others) + is
      /\ IsFiniteSet(InQueues') /\ Cardinality(InQueues') + is = Cardinality(InQueues)
  <2>0. \A v \in TickWorkers \ {w} : Queued(v)' = Queued(v)
    BY <1>0 DEF Queued
  <2>1. CASE TurnBusy(w)
    <3> DEFINE t == task'[w].tick
    <3>0. /\ task'[w].pc = "busy" /\ t \in TickType /\ t \in Queued(w)
          /\ Queued(w)' = Queued(w) \ {t}
      BY <2>1 DEF TurnBusy
    <3> HIDE DEF t
    <3>1. Partition[t.symbol] = w
      BY <3>0, <1>2 DEF Known
    <3>2. t \notin others /\ InHand' = others \cup {t}
      BY <3>0, <3>1, <1>1, <1>4, <1>5 DEF t
    <3>3. IsFiniteSet(InHand') /\ Cardinality(InHand') = Cardinality(others) + 1
      BY <3>2, <1>6, FS_AddElement
    <3>4. \A v \in TickWorkers \ {w} : t \notin Queued(v)
      BY <3>1, <1>2 DEF Known
    <3>5. InQueues' = InQueues \ {t} /\ t \in InQueues
      <4>1. InQueues' \subseteq InQueues \ {t}
        BY <3>0, <3>4, <2>0 DEF InQueues
      <4>2. InQueues \ {t} \subseteq InQueues'
        BY <3>0, <2>0 DEF InQueues
      <4>3. t \in InQueues
        BY <3>0 DEF InQueues
      <4> QED BY <4>1, <4>2, <4>3
    <3>6. IsFiniteSet(InQueues') /\ Cardinality(InQueues') = Cardinality(InQueues) - 1
      BY <3>5, <1>1, FS_RemoveElement
    <3>7. is = 1
      BY <3>0
    <3> QED BY <3>3, <3>6, <3>7, <1>1
  <2>2. CASE TurnIdle(w)
    <3>0. /\ task'[w].pc # "busy" /\ task'[w].tick = NoTick /\ Queued(w)' = Queued(w)
      BY <2>2 DEF TurnIdle
    <3>1. InHand' = others
      BY <3>0, <1>1, <1>4, <1>5
    <3>2. InQueues' = InQueues
      BY <3>0, <2>0 DEF InQueues
    <3> QED BY <3>0, <3>1, <3>2, <1>1, <1>6
  <2> QED BY <2>1, <2>2, <1>0
<1>9. was \in Nat /\ is \in Nat
  OBVIOUS
<1>10. Cardinality(InHand') + was = Cardinality(InHand) + is
  <2> HIDE DEF was, is
  <2> QED BY <1>6, <1>7, <1>8, <1>9
<1> QED BY <1>8, <1>10

\* What a turn does to the queues and to the ticks in hand, as differences.
LEMMA TurnDifferences ==
  ASSUME CountTerms, CountTerms', NEW was \in Nat, NEW is \in Nat,
         Cardinality(InHand') + was = Cardinality(InHand) + is,
         Cardinality(InQueues') + is = Cardinality(InQueues)
  PROVE /\ (Cardinality(InQueues') - Cardinality(InQueues)) + is = 0
        /\ (Cardinality(InHand') - Cardinality(InHand)) + was = is
BY DEF CountTerms

\* The count when a worker finishes a tick, takes one, or both.
LEMMA CountTurns ==
  ASSUME CountTerms, CountTerms', NEW was \in Nat, NEW is \in Nat,
         Cardinality(InHand') + was = Cardinality(InHand) + is,
         Cardinality(InQueues') + is = Cardinality(InQueues),
         metrics'.processed + metrics'.failed = metrics.processed + metrics.failed + was,
         metrics'.received = metrics.received, metrics'.dropped = metrics.dropped,
         lost' = lost, OnTheWay' = OnTheWay
  PROVE CountGrows
PROOF
<1> DEFINE dp == metrics'.processed - metrics.processed
           df == metrics'.failed - metrics.failed
           dq == Cardinality(InQueues') - Cardinality(InQueues)
           dh == Cardinality(InHand') - Cardinality(InHand)
<1>1. /\ metrics'.received - metrics.received = 0 /\ metrics'.dropped - metrics.dropped = 0
      /\ Cardinality(lost') - Cardinality(lost) = 0 /\ OnTheWay' - OnTheWay = 0
  BY DEF CountTerms
<1>2. dp \in Int /\ df \in Int /\ dq \in Int /\ dh \in Int
  BY DEF CountTerms
<1>3. dp + df = was
  BY DEF CountTerms
<1>4. dq + is = 0 /\ dh + was = is
  BY TurnDifferences
<1> HIDE DEF dp, df, dq, dh
<1>5. 0 = dp + df + 0 + 0 + dq + dh + 0
  BY <1>2, <1>3, <1>4
<1> QED BY <1>1, <1>5, Zenon DEF CountGrows, dp, df, dq, dh

\* A worker's turn, with what it adds to the metrics.
LEMMA TakeStep ==
  ASSUME TickInv, NEW w \in TickWorkers, task[w].pc \in {"new", "get", "busy"},
         TakeNext(w), UNCHANGED workerFrame, MetricsOk(metrics'),
         metrics'.received = metrics.received, metrics'.dropped = metrics.dropped,
         metrics'.processed + metrics'.failed =
           metrics.processed + metrics.failed + (IF task[w].pc = "busy" THEN 1 ELSE 0)
  PROVE TickInv'
PROOF
<1> DEFINE n == task'[w].tick
<1>0. /\ running' = running /\ loopSet' = loopSet /\ loopClosed' = loopClosed
      /\ pending' = pending /\ posted' = posted /\ thread' = thread /\ stopping' = stopping
      /\ starts' = starts /\ lost' = lost /\ due' = due /\ stale' = stale
  BY DEF workerFrame
<1>1. Took(w)
  BY TakeNextHolds
<1>2. /\ queue' \in [TickWorkers -> Seq(Items)] /\ begun' \in [TickWorkers -> Seq(TickType)]
      /\ task' \in [TickWorkers -> TaskType]
      /\ \A v \in TickWorkers \ {w} :
           task'[v] = task[v] /\ queue'[v] = queue[v] /\ begun'[v] = begun[v]
      /\ Len(queue'[w]) <= QueueSize /\ InOrder(queue'[w]) /\ InOrder(begun'[w])
      /\ Precede(Taken(w)', Queued(w)')
      /\ TurnIdle(w) \/ TurnBusy(w)
  BY <1>1 DEF Took
<1>3. /\ \A v \in TickWorkers \ {w} :
           Queued(v)' = Queued(v) /\ Taken(v)' = Taken(v) /\ Known(v)' = Known(v)
      /\ Contents(posted)' = Contents(posted) /\ AtThread' = AtThread
  BY <1>0, <1>2 DEF Queued, Taken, Known, Contents, AtThread
<1>4. Known(w)' = Known(w) /\ Taken(w) \subseteq Taken(w)'
  BY <1>2 DEF TurnIdle, TurnBusy, Known
<1>5. \A v \in TickWorkers : Known(v)' = Known(v) /\ Taken(v) \subseteq Taken(v)'
  BY <1>3, <1>4
<1>6. TickTyped'
  <2>1. /\ running \in BOOLEAN /\ loopSet \in BOOLEAN /\ loopClosed \in BOOLEAN /\ stale \in BOOLEAN
        /\ pending \in 0..MaxPendingHandoffs /\ posted \in Seq(TickType)
        /\ thread \in ThreadType /\ stopping \in StopType /\ starts \in Nat /\ lost \subseteq TickType
        /\ \A v \in TickWorkers : Len(queue[v]) <= QueueSize
    BY DEF TickInv, TickTyped
  <2>2. \A v \in TickWorkers : Len(queue'[v]) <= QueueSize
    BY <2>1, <1>2
  <2> QED BY <2>1, <2>2, <1>0, <1>2 DEF TickTyped
<1>7. PlaceInv'
  BY <1>0, <1>3, <1>5 DEF TickInv, PlaceInv
<1>8. OrderInv'
  <2>1. \A v \in TickWorkers :
          /\ InOrder(begun[v]) /\ InOrder(queue[v]) /\ Precede(Taken(v), Queued(v))
          /\ Precede(Known(v), Contents(posted) \cup AtThread)
    BY DEF TickInv, OrderInv
  <2>2. \A v \in TickWorkers :
          /\ InOrder(begun'[v]) /\ InOrder(queue'[v]) /\ Precede(Taken(v)', Queued(v)')
          /\ Precede(Known(v)', Contents(posted') \cup AtThread')
    BY <2>1, <1>0, <1>2, <1>3, <1>5
  <2>3. InOrder(posted') /\ Precede(Contents(posted'), AtThread')
    BY <1>0, <1>3 DEF TickInv, OrderInv
  <2> QED BY <2>2, <2>3, Zenon DEF OrderInv, InOrder, Precede, Contents
<1>9. HandInv'
  <2>0. \A v \in TickWorkers :
          /\ task[v].pc # "busy" => task[v].tick = NoTick
          /\ task[v].pc = "busy" => task[v].tick \in Taken(v) \ lost
    BY DEF TickInv, HandInv
  <2>1. \A t \in lost : \E v \in TickWorkers : t \in Taken(v)
    BY DEF TickInv, HandInv
  <2>2. task'[w].pc # "busy" => n = NoTick
    BY <1>2 DEF TurnIdle, TurnBusy
  <2>3. task'[w].pc = "busy" => n \in Taken(w)' \ lost
    <3>1. SUFFICES ASSUME task'[w].pc = "busy" PROVE n \in Taken(w)' \ lost
      OBVIOUS
    <3>2. n \in Queued(w) /\ n \notin Taken(w) /\ Taken(w)' = Taken(w) \cup {n}
      BY <3>1, <1>2 DEF TurnIdle, TurnBusy
    <3>3. \A v \in TickWorkers : n \in Taken(v) => v = w
      BY <3>2 DEF TickInv, PlaceInv, Known
    <3> QED BY <3>2, <3>3, <2>1
  <2>4. \A v \in TickWorkers :
          /\ task'[v].pc # "busy" => task'[v].tick = NoTick
          /\ task'[v].pc = "busy" => task'[v].tick \in Taken(v)' \ lost
    BY <2>0, <2>2, <2>3, <1>2, <1>3
  <2>5. \A t \in lost : \E v \in TickWorkers : t \in Taken(v)'
    BY <2>1, <1>5
  <2> QED BY <2>4, <2>5, <1>0 DEF HandInv
<1>10. \/ running /\ stopping.pc = "no"
       \/ ~running /\ stopping.pc \in {"wait", "count"}
  <2>1. stopping.pc \in {"no", "wait", "count", "gather"} /\ running \in BOOLEAN
    BY DEF TickInv, TickTyped, StopType
  <2>2. task[w] # NoTask /\ task[w].pc # "done"
    BY DEF NoTask
  <2>3. /\ (running => stopping.pc = "no") /\ (~running /\ stopping.pc = "no" => task[w] = NoTask)
        /\ stopping.pc = "gather" => task[w].pc = "done"
    BY DEF TickInv, PhaseInv, AllDone
  <2> QED BY <2>1, <2>2, <2>3
<1>11. PhaseInv'
  BY <1>0, <1>10 DEF PhaseInv
<1>12. CountInv'
  <2> DEFINE was == IF task[w].pc = "busy" THEN 1 ELSE 0
             is == IF task'[w].pc = "busy" THEN 1 ELSE 0
  <2>1. /\ IsFiniteSet(InHand') /\ IsFiniteSet(InQueues')
        /\ Cardinality(InHand') + was = Cardinality(InHand) + is
        /\ Cardinality(InQueues') + is = Cardinality(InQueues)
    BY <1>1, HandCount, Zenon
  <2>2. was \in Nat /\ is \in Nat
    OBVIOUS
  <2>3. metrics'.processed + metrics'.failed = metrics.processed + metrics.failed + was
    OBVIOUS
  <2> HIDE DEF was, is
  <2>4. CountTerms /\ IsFiniteSet(lost')
    BY <1>0, CountTermsHold DEF TickInv, CountInv
  <2>5. OnTheWay' = OnTheWay /\ Reserved' = Reserved
    BY <1>0 DEF OnTheWay, Held, Reserved
  <2>6. CountTerms'
    BY <2>1, <2>4, <2>5, FS_CardinalityType DEF MetricsOk, CountTerms
  <2>7. CountGrows
    BY <2>1, <2>2, <2>3, <2>4, <2>5, <2>6, <1>0, CountTurns
  <2>8. pending' = Reserved' /\ posted' \in Seq(TickType)
    BY <2>5, <1>0, WayHolds
  <2> QED BY <2>1, <2>4, <2>7, <2>8, CountKeeps
<1>13. DrainInv'
  <2>1. /\ \A x : Ahead(queue[w], x) => task'[w].pc = "busy" /\ (x = n \/ Ahead(queue'[w], x))
        /\ ShutDown \notin {queue[w][i] : i \in DOMAIN queue[w]} =>
             /\ ShutDown \notin {queue'[w][i] : i \in DOMAIN queue'[w]}
             /\ task'[w].pc = "done" => ~running
    BY <1>1 DEF Took
  <2>2. task'[w].pc = "busy" => n \in Taken(w)'
    BY <1>2 DEF TurnIdle, TurnBusy
  <2>3. ASSUME NEW v \in TickWorkers, NEW t, Served(v, t) PROVE Served(v, t)'
    <3>1. CASE v = w
      BY <3>1, <2>1, <2>2, <2>3, <1>4 DEF Served
    <3>2. CASE v # w
      BY <3>2, <2>3, <1>2, <1>3 DEF Served
    <3> QED BY <3>1, <3>2
  <2>4. ASSUME ~stale', stopping'.pc = "no", NEW v \in TickWorkers
        PROVE ShutDown \notin {queue'[v][i] : i \in DOMAIN queue'[v]} /\ task'[v].pc # "done"
    <3>1. /\ ShutDown \notin {queue[v][i] : i \in DOMAIN queue[v]} /\ task[v].pc # "done" /\ running
      BY <2>4, <1>0, <1>10 DEF TickInv, DrainInv
    <3>2. CASE v = w
      BY <3>1, <3>2, <2>1
    <3>3. CASE v # w
      BY <3>1, <3>3, <1>2
    <3> QED BY <3>2, <3>3
  <2>5. ASSUME ~stale', stopping'.pc \in {"wait", "count"}, stopping'.drain, NEW t \in due'
        PROVE \E v \in TickWorkers : Served(v, t)'
    <3>1. PICK v \in TickWorkers : Served(v, t)
      BY <2>5, <1>0 DEF TickInv, DrainInv
    <3> QED BY <3>1, <2>3
  <2>6. ~(~stale' /\ stopping'.pc = "count" /\ stopping'.drain /\ ~stopping'.timedOut)
    <3>1. task[w].pc # "done"
      OBVIOUS
    <3> QED BY <3>1, <1>0 DEF TickInv, DrainInv, AllDone
  <2> QED BY <2>4, <2>5, <2>6 DEF DrainInv
<1> QED BY <1>6, <1>7, <1>8, <1>9, <1>11, <1>12, <1>13 DEF TickInv

\* A task starts, or its get returns.
LEMMA WorkerTurnStep ==
  ASSUME TickInv, NEW w \in TickWorkers, WorkerTurn(w)
  PROVE TickInv'
PROOF
<1>0. /\ task[w].pc \in {"new", "get"} /\ TakeNext(w) /\ metrics' = metrics /\ UNCHANGED workerFrame
  BY DEF WorkerTurn
<1>1. MetricsOk(metrics') /\ metrics.processed \in Nat /\ metrics.failed \in Nat
  BY <1>0 DEF TickInv, TickTyped, MetricsOk
<1>2. metrics'.processed + metrics'.failed =
        metrics.processed + metrics.failed + (IF task[w].pc = "busy" THEN 1 ELSE 0)
  BY <1>0, <1>1
<1> QED BY <1>0, <1>1, <1>2, TakeStep

\* process_fn returns or raises.
LEMMA WorkerFinishStep ==
  ASSUME TickInv, NEW w \in TickWorkers, WorkerFinish(w)
  PROVE TickInv'
PROOF
<1>0. /\ task[w].pc = "busy" /\ TakeNext(w) /\ UNCHANGED workerFrame
      /\ \/ metrics' = [metrics EXCEPT !.processed = @ + 1]
         \/ metrics' = [metrics EXCEPT !.failed = @ + 1]
  BY DEF WorkerFinish
<1>1. MetricsOk(metrics) /\ metrics.processed \in Nat /\ metrics.failed \in Nat
  BY DEF TickInv, TickTyped, MetricsOk
<1>2. /\ MetricsOk(metrics') /\ metrics'.received = metrics.received
      /\ metrics'.dropped = metrics.dropped
      /\ \/ metrics'.processed = metrics.processed + 1 /\ metrics'.failed = metrics.failed
         \/ metrics'.processed = metrics.processed /\ metrics'.failed = metrics.failed + 1
  <2> DEFINE x == [metrics EXCEPT !.processed = @ + 1]
             y == [metrics EXCEPT !.failed = @ + 1]
  <2>1. /\ MetricsOk(x) /\ x.received = metrics.received
        /\ x.processed = metrics.processed + 1 /\ x.failed = metrics.failed
        /\ x.dropped = metrics.dropped
    BY <1>1, Counted, Zenon
  <2>2. /\ MetricsOk(y) /\ y.received = metrics.received
        /\ y.processed = metrics.processed /\ y.failed = metrics.failed + 1
        /\ y.dropped = metrics.dropped
    BY <1>1, Counted, Zenon
  <2>3. metrics' = x \/ metrics' = y
    BY <1>0
  <2> HIDE DEF x, y
  <2> QED
    BY <2>1, <2>2, <2>3, Zenon
<1>3. metrics'.processed + metrics'.failed = metrics.processed + metrics.failed + 1
  BY <1>1, <1>2
<1> QED BY <1>0, <1>2, <1>3, TakeStep

-----------------------------------------------------------------------------
(* TickPipeline: starting and stopping. *)

\* A start or a stop leaves every tick where it is.
LEMMA PathsKeep ==
  ASSUME TickInv, begun' = begun, posted' = posted, thread' = thread, pending' = pending,
         metrics'.received = metrics.received,
         \A w \in TickWorkers : Queued(w)' = Queued(w) /\ InOrder(queue'[w]),
         loopSet' => starts' > 0
  PROVE /\ PlaceInv' /\ OrderInv' /\ InQueues' = InQueues /\ OnTheWay' = OnTheWay
        /\ pending' = Reserved'
        /\ \A w \in TickWorkers : Taken(w)' = Taken(w)
PROOF
<1>1. \A w \in TickWorkers : Taken(w)' = Taken(w) /\ Known(w)' = Known(w)
  BY DEF Taken, Known
<1>2. Contents(posted)' = Contents(posted) /\ AtThread' = AtThread
  BY DEF Contents, AtThread
<1>3. InQueues' = InQueues
  BY DEF InQueues
<1>4. OnTheWay' = OnTheWay /\ Reserved' = Reserved
  BY DEF OnTheWay, Held, Reserved
<1>5. PlaceInv'
  BY <1>1, <1>2 DEF TickInv, PlaceInv
<1>6. OrderInv'
  <2>1. \A w \in TickWorkers :
          /\ InOrder(begun[w]) /\ Precede(Taken(w), Queued(w))
          /\ Precede(Known(w), Contents(posted) \cup AtThread)
    BY DEF TickInv, OrderInv
  <2>2. \A w \in TickWorkers :
          /\ InOrder(begun'[w]) /\ InOrder(queue'[w]) /\ Precede(Taken(w)', Queued(w)')
          /\ Precede(Known(w)', Contents(posted') \cup AtThread')
    BY <2>1, <1>1, <1>2
  <2>3. InOrder(posted') /\ Precede(Contents(posted'), AtThread')
    BY <1>2 DEF TickInv, OrderInv
  <2> QED BY <2>2, <2>3, Zenon DEF OrderInv, InOrder, Precede, Contents
<1>7. pending' = Reserved'
  BY <1>4, WayHolds
<1> QED BY <1>1, <1>3, <1>4, <1>5, <1>6, <1>7

\* The count when no tick leaves a hand.
LEMMA CountSame ==
  ASSUME TickInv, metrics' = metrics, posted' = posted, lost' = lost, InHand' = InHand,
         InQueues' = InQueues, OnTheWay' = OnTheWay, pending' = Reserved'
  PROVE CountInv'
PROOF
<1>1. CountTerms /\ IsFiniteSet(lost) /\ IsFiniteSet(InHand) /\ IsFiniteSet(InQueues)
  BY CountTermsHold DEF TickInv, CountInv
<1>2. CountTerms'
  BY <1>1 DEF CountTerms
<1>3. /\ metrics'.received - metrics.received = 0 /\ metrics'.dropped - metrics.dropped = 0
      /\ OnTheWay' - OnTheWay = 0
  BY <1>1 DEF CountTerms
<1>4. metrics'.received - metrics.received = (metrics'.dropped - metrics.dropped) + (OnTheWay' - OnTheWay)
  BY <1>3
<1>5. CountGrows
  BY <1>1, <1>2, <1>4, CountMoves
<1>6. MetricsOk(metrics') /\ posted' \in Seq(TickType)
  BY WayHolds
<1> QED BY <1>1, <1>5, <1>6, CountKeeps

\* start_consumers.
LEMMA StartConsumersStep ==
  ASSUME TickInv, StartConsumers
  PROVE TickInv'
PROOF
<1> DEFINE e == [pc |-> "new", tick |-> NoTick]
<1>0. /\ ~running /\ stopping.pc = "no" /\ running' = TRUE /\ loopSet' = TRUE
      /\ task' = [w \in TickWorkers |-> e] /\ starts' = starts + 1
  BY DEF StartConsumers
<1>1. /\ queue' = queue /\ loopClosed' = loopClosed /\ pending' = pending /\ posted' = posted
      /\ thread' = thread /\ stopping' = stopping /\ metrics' = metrics /\ begun' = begun
      /\ lost' = lost /\ due' = due /\ stale' = stale
  BY DEF StartConsumers
<1>2. e \in TaskType /\ e.pc = "new" /\ e.tick = NoTick /\ NoTask.tick = NoTick
  BY DEF TaskType, NoTask
<1> HIDE DEF e
<1>3. \A w \in TickWorkers : task[w] = NoTask /\ task'[w] = e
  BY <1>0 DEF TickInv, PhaseInv
<1>4. InHand = {} /\ InHand' = {}
  BY <1>2, <1>3 DEF InHand
<1>5. starts \in Nat /\ starts' \in Nat /\ starts' > 0
  BY <1>0 DEF TickInv, TickTyped
<1>6. \A w \in TickWorkers : Queued(w)' = Queued(w) /\ InOrder(queue'[w])
  BY <1>1 DEF Queued, TickInv, OrderInv
<1>7. /\ PlaceInv' /\ OrderInv' /\ InQueues' = InQueues /\ OnTheWay' = OnTheWay
      /\ pending' = Reserved' /\ \A w \in TickWorkers : Taken(w)' = Taken(w)
  BY <1>1, <1>5, <1>6, PathsKeep
<1>8. TickTyped'
  <2>1. task' \in [TickWorkers -> TaskType]
    BY <1>0, <1>2
  <2> QED BY <2>1, <1>0, <1>1, <1>5 DEF TickInv, TickTyped
<1>9. HandInv'
  BY <1>1, <1>2, <1>3, <1>7 DEF TickInv, HandInv
<1>10. PhaseInv'
  BY <1>0, <1>1 DEF PhaseInv
<1>11. CountInv'
  BY <1>1, <1>4, <1>7, CountSame
<1>12. DrainInv'
  BY <1>0, <1>1, <1>2, <1>3 DEF TickInv, DrainInv
<1> QED BY <1>7, <1>8, <1>9, <1>10, <1>11, <1>12 DEF TickInv

\* stop_consumers up to the wait.
LEMMA StopConsumersStep ==
  ASSUME TickInv, NEW drain \in BOOLEAN, StopConsumers(drain)
  PROVE TickInv'
PROOF
<1> DEFINE room == IF drain THEN {w \in TickWorkers : ~Full(w)} ELSE {}
<1>0. /\ running /\ stopping.pc = "no" /\ running' = FALSE
      /\ queue' = [w \in TickWorkers |-> IF w \in room THEN Append(queue[w], ShutDown) ELSE queue[w]]
      /\ stopping' = [pc |-> IF drain THEN "wait" ELSE "count", drain |-> drain,
                      sentinels |-> room, timedOut |-> FALSE]
      /\ due' = InQueues \cup InHand
  <2>1. running /\ stopping.pc = "no" /\ running' = FALSE
    BY DEF StopConsumers
  <2>2. queue' = [w \in TickWorkers |-> IF w \in room THEN Append(queue[w], ShutDown) ELSE queue[w]]
    BY DEF StopConsumers
  <2>3. stopping' = [pc |-> IF drain THEN "wait" ELSE "count", drain |-> drain,
                    sentinels |-> room, timedOut |-> FALSE]
    BY DEF StopConsumers
  <2>4. due' = InQueues \cup InHand
    BY DEF StopConsumers, InQueues
  <2> QED BY <2>1, <2>2, <2>3, <2>4
<1>1. /\ task' = task /\ loopSet' = loopSet /\ loopClosed' = loopClosed /\ pending' = pending
      /\ posted' = posted /\ thread' = thread /\ metrics' = metrics /\ starts' = starts
      /\ begun' = begun /\ lost' = lost /\ stale' = stale
  BY DEF StopConsumers
<1>2. room \in SUBSET TickWorkers /\ \A w \in room : ~Full(w)
  OBVIOUS
<1> HIDE DEF room
<1>3. /\ stopping' \in StopType /\ stopping'.pc = (IF drain THEN "wait" ELSE "count")
      /\ stopping'.drain = drain
  BY <1>0, <1>2 DEF StopType
<1>4. ASSUME NEW w \in TickWorkers
      PROVE /\ queue'[w] \in Seq(Items) /\ Len(queue'[w]) <= QueueSize /\ InOrder(queue'[w])
            /\ Queued(w)' = Queued(w)
            /\ \A x : Ahead(queue[w], x) => Ahead(queue'[w], x)
  <2>1. /\ queue[w] \in Seq(Items) /\ Len(queue[w]) <= QueueSize /\ InOrder(queue[w])
    BY DEF TickInv, TickTyped, OrderInv
  <2>2. Queued(w)' = Contents(queue'[w]) /\ Queued(w) = Contents(queue[w]) /\ ShutDown \in Items
    BY DEF Queued, Contents, Items
  <2>3. CASE w \in room
    <3>1. queue'[w] = Append(queue[w], ShutDown)
      BY <2>3, <1>0
    <3>2. Append(queue[w], ShutDown) \in Seq(Items) /\ Len(Append(queue[w], ShutDown)) <= QueueSize
      <4>1. /\ Len(Append(queue[w], ShutDown)) = Len(queue[w]) + 1 /\ Len(queue[w]) \in Nat
            /\ Append(queue[w], ShutDown) \in Seq(Items)
        BY <2>1, <2>2, AppendAt
      <4>2. ~(Len(queue[w]) >= QueueSize)
        BY <2>3, <1>2 DEF Full
      <4> QED BY <4>1, <4>2, TickAssumption
    <3>3. Contents(queue'[w]) = Contents(queue[w])
      <4>1. Contents(queue'[w]) = Contents(queue[w]) \cup ({ShutDown} \ {ShutDown})
        BY <3>1, <2>1, <2>2, ContentsAppend, Zenon
      <4> QED BY <4>1
    <3>4. InOrder(queue'[w])
      BY <3>1, <2>1, <2>2, InOrderAppend
    <3>5. \A x : Ahead(queue[w], x) => Ahead(queue'[w], x)
      BY <3>1, <2>1, <2>2, AheadAppend
    <3> QED BY <3>1, <3>2, <3>3, <3>4, <3>5, <2>2
  <2>4. CASE w \notin room
    <3>1. queue'[w] = queue[w]
      BY <2>4, <1>0
    <3> QED BY <3>1, <2>1, <2>2
  <2> QED BY <2>3, <2>4
<1>5. InHand' = InHand
  BY <1>1 DEF InHand
<1>6. loopSet' => starts' > 0
  BY <1>1 DEF TickInv, PlaceInv
<1>7. /\ PlaceInv' /\ OrderInv' /\ InQueues' = InQueues /\ OnTheWay' = OnTheWay
      /\ pending' = Reserved' /\ \A w \in TickWorkers : Taken(w)' = Taken(w)
  BY <1>1, <1>4, <1>6, PathsKeep
<1>8. TickTyped'
  <2>1. queue' \in [TickWorkers -> Seq(Items)]
    <3>1. DOMAIN queue' = TickWorkers /\ queue' = [w \in TickWorkers |-> queue'[w]]
      BY <1>0
    <3> QED BY <3>1, <1>4
  <2>2. \A w \in TickWorkers : Len(queue'[w]) <= QueueSize
    BY <1>4
  <2>3. /\ task \in [TickWorkers -> TaskType] /\ begun \in [TickWorkers -> Seq(TickType)]
        /\ loopSet \in BOOLEAN /\ loopClosed \in BOOLEAN /\ stale \in BOOLEAN
        /\ pending \in 0..MaxPendingHandoffs /\ posted \in Seq(TickType) /\ MetricsOk(metrics)
        /\ thread \in ThreadType /\ starts \in Nat /\ lost \subseteq TickType
    BY DEF TickInv, TickTyped
  <2> QED BY <2>1, <2>2, <2>3, <1>0, <1>1, <1>3 DEF TickTyped
<1>9. HandInv'
  BY <1>1, <1>7 DEF TickInv, HandInv
<1>10. PhaseInv'
  BY <1>0, <1>3 DEF PhaseInv
<1>11. CountInv'
  BY <1>1, <1>5, <1>7, CountSame
<1>12. DrainInv'
  <2>1. SUFFICES ASSUME ~stale', drain, NEW t \in due' PROVE \E w \in TickWorkers : Served(w, t)'
    BY <1>3 DEF DrainInv
  <2>2. \A w \in TickWorkers : /\ ShutDown \notin {queue[w][i] : i \in DOMAIN queue[w]}
                               /\ task[w].pc # "done"
    BY <2>1, <1>0, <1>1 DEF TickInv, DrainInv
  <2>3. CASE t \in InQueues
    <3>1. PICK w \in TickWorkers : t \in Queued(w)
      BY <2>3 DEF InQueues
    <3>2. queue[w] \in Seq(Items) /\ t \in Contents(queue[w])
      BY <3>1, KnownAreTicks
    <3>3. Ahead(queue'[w], t)
      BY <3>2, <2>2, <1>4, AheadAll
    <3> QED BY <3>3, <2>2, <1>1 DEF Served
  <2>4. CASE t \in InHand
    <3>1. PICK w \in TickWorkers : t = task[w].tick /\ t # NoTick
      BY <2>4 DEF InHand
    <3>2. t \in Taken(w)
      BY <3>1 DEF TickInv, HandInv
    <3> QED BY <3>2, <1>7 DEF Served
  <2> QED BY <2>1, <2>3, <2>4, <1>0
<1> QED BY <1>7, <1>8, <1>9, <1>10, <1>11, <1>12 DEF TickInv

\* The wait of stop_consumers ends.
LEMMA WaitEndsStep ==
  ASSUME TickInv, WaitEnds
  PROVE TickInv'
PROOF
<1>0. /\ stopping.pc = "wait"
      /\ stopping' = [stopping EXCEPT !.pc = "count", !.timedOut = ~AllDone]
  BY DEF WaitEnds
<1>1. /\ queue' = queue /\ pending' = pending /\ posted' = posted /\ thread' = thread
      /\ metrics' = metrics /\ task' = task /\ running' = running /\ loopSet' = loopSet
      /\ loopClosed' = loopClosed /\ starts' = starts /\ begun' = begun /\ lost' = lost
      /\ due' = due /\ stale' = stale
  BY DEF WaitEnds
<1>2. /\ stopping' \in StopType /\ stopping'.pc = "count" /\ stopping'.drain = stopping.drain
      /\ stopping'.timedOut = ~AllDone
  BY <1>0 DEF TickInv, TickTyped, StopType, AllDone
<1>3. \A w \in TickWorkers : Queued(w)' = Queued(w) /\ InOrder(queue'[w])
  BY <1>1 DEF Queued, TickInv, OrderInv
<1>4. InHand' = InHand /\ AllDone' = AllDone /\ (loopSet' => starts' > 0)
  BY <1>1 DEF InHand, AllDone, TickInv, PlaceInv
<1>5. /\ PlaceInv' /\ OrderInv' /\ InQueues' = InQueues /\ OnTheWay' = OnTheWay
      /\ pending' = Reserved' /\ \A w \in TickWorkers : Taken(w)' = Taken(w)
  BY <1>1, <1>3, <1>4, PathsKeep
<1>6. TickTyped'
  BY <1>1, <1>2 DEF TickInv, TickTyped
<1>7. HandInv'
  BY <1>1, <1>5 DEF TickInv, HandInv
<1>8. PhaseInv'
  <2>1. ~running
    BY <1>0 DEF TickInv, PhaseInv
  <2> QED BY <2>1, <1>1, <1>2 DEF PhaseInv
<1>9. CountInv'
  BY <1>1, <1>4, <1>5, CountSame
<1>10. DrainInv'
  <2>1. \A w \in TickWorkers : \A t : Served(w, t)' <=> Served(w, t)
    BY <1>1, <1>5 DEF Served
  <2>2. ASSUME ~stale', stopping'.drain, NEW t \in due' PROVE \E w \in TickWorkers : Served(w, t)'
    <3>1. PICK w \in TickWorkers : Served(w, t)
      BY <2>2, <1>0, <1>1, <1>2 DEF TickInv, DrainInv
    <3> QED BY <3>1, <2>1
  <2> QED BY <2>2, <1>2, <1>4 DEF DrainInv
<1> QED BY <1>5, <1>6, <1>7, <1>8, <1>9, <1>10 DEF TickInv

\* The count when the ticks in hand are lost.
LEMMA CountLoses ==
  ASSUME CountTerms, CountTerms',
         Cardinality(lost') = Cardinality(lost) + Cardinality(InHand), Cardinality(InHand') = 0,
         metrics'.received = metrics.received, metrics'.dropped = metrics.dropped,
         metrics'.processed = metrics.processed, metrics'.failed = metrics.failed,
         InQueues' = InQueues, OnTheWay' = OnTheWay
  PROVE CountGrows
PROOF
<1> DEFINE dl == Cardinality(lost') - Cardinality(lost)
           dh == Cardinality(InHand') - Cardinality(InHand)
<1>1. /\ metrics'.received - metrics.received = 0 /\ metrics'.dropped - metrics.dropped = 0
      /\ metrics'.processed - metrics.processed = 0 /\ metrics'.failed - metrics.failed = 0
      /\ Cardinality(InQueues') - Cardinality(InQueues) = 0 /\ OnTheWay' - OnTheWay = 0
  BY DEF CountTerms
<1>2. dl \in Int /\ dh \in Int /\ dl + dh = 0
  BY DEF CountTerms
<1> HIDE DEF dl, dh
<1>3. 0 = 0 + 0 + 0 + dl + 0 + dh + 0
  BY <1>2
<1> QED BY <1>1, <1>3, Zenon DEF CountGrows, dl, dh

\* What is left is counted and the tasks are cancelled.
LEMMA CountAndCancelStep ==
  ASSUME TickInv, CountAndCancel
  PROVE TickInv'
PROOF
<1> DEFINE e == [pc |-> "done", tick |-> NoTick]
<1>0. /\ stopping.pc = "count" /\ task' = [w \in TickWorkers |-> e] /\ lost' = lost \cup InHand
      /\ stopping' = [stopping EXCEPT !.pc = "gather"]
  BY DEF CountAndCancel
<1>1. /\ queue' = queue /\ pending' = pending /\ posted' = posted /\ thread' = thread
      /\ running' = running /\ loopSet' = loopSet /\ loopClosed' = loopClosed /\ starts' = starts
      /\ begun' = begun /\ due' = due /\ stale' = stale
  BY DEF CountAndCancel
<1>2. PICK u : metrics' = [metrics EXCEPT !.undrained = u]
  BY DEF CountAndCancel
<1>3. /\ MetricsOk(metrics') /\ metrics'.received = metrics.received
      /\ metrics'.dropped = metrics.dropped
      /\ metrics'.processed = metrics.processed /\ metrics'.failed = metrics.failed
  <2>1. MetricsOk(metrics)
    BY DEF TickInv, TickTyped
  <2> DEFINE x == [metrics EXCEPT !.undrained = u]
  <2>2. /\ MetricsOk(x) /\ x.received = metrics.received /\ x.processed = metrics.processed
        /\ x.failed = metrics.failed /\ x.dropped = metrics.dropped
    BY <2>1, Counted, Zenon
  <2> QED BY <2>2, <1>2, Zenon
<1>4. stopping' \in StopType /\ stopping'.pc = "gather"
  BY <1>0 DEF TickInv, TickTyped, StopType
<1>5. e \in TaskType /\ e.pc = "done" /\ e.tick = NoTick
  BY DEF TaskType
<1> HIDE DEF e
<1>6. \A w \in TickWorkers : task'[w] = e
  BY <1>0
<1>7. InHand' = {} /\ AllDone' /\ (loopSet' => starts' > 0)
  BY <1>1, <1>5, <1>6 DEF InHand, AllDone, TickInv, PlaceInv
<1>8. \A w \in TickWorkers : Queued(w)' = Queued(w) /\ InOrder(queue'[w])
  BY <1>1 DEF Queued, TickInv, OrderInv
<1>9. /\ PlaceInv' /\ OrderInv' /\ InQueues' = InQueues /\ OnTheWay' = OnTheWay
      /\ pending' = Reserved' /\ \A w \in TickWorkers : Taken(w)' = Taken(w)
  BY <1>1, <1>3, <1>7, <1>8, PathsKeep
<1>10. \A t \in InHand : t \in TickType /\ t \notin lost /\ \E w \in TickWorkers : t \in Taken(w)
  <2>1. SUFFICES ASSUME NEW t \in InHand
                 PROVE t \in TickType /\ t \notin lost /\ \E w \in TickWorkers : t \in Taken(w)
    OBVIOUS
  <2>2. PICK w \in TickWorkers : t = task[w].tick /\ t # NoTick
    BY DEF InHand
  <2>3. t \in Taken(w) \ lost
    BY <2>2 DEF TickInv, HandInv
  <2> QED BY <2>3, KnownAreTicks
<1>11. TickTyped'
  <2>1. task' \in [TickWorkers -> TaskType]
    BY <1>0, <1>5
  <2>2. lost' \subseteq TickType
    BY <1>0, <1>10 DEF TickInv, TickTyped
  <2> QED BY <2>1, <2>2, <1>1, <1>3, <1>4 DEF TickInv, TickTyped
<1>12. HandInv'
  <2>1. \A t \in lost' : \E w \in TickWorkers : t \in Taken(w)'
    BY <1>0, <1>9, <1>10 DEF TickInv, HandInv
  <2> QED BY <2>1, <1>5, <1>6 DEF HandInv
<1>13. PhaseInv'
  <2>1. ~running
    BY <1>0 DEF TickInv, PhaseInv
  <2> QED BY <2>1, <1>1, <1>4, <1>7 DEF PhaseInv
<1>14. CountInv'
  <2>1. /\ CountTerms /\ IsFiniteSet(lost) /\ IsFiniteSet(InHand) /\ IsFiniteSet(InQueues)
        /\ posted \in Seq(TickType)
    BY CountTermsHold, WayHolds DEF TickInv, CountInv
  <2>2. IsFiniteSet({}) /\ Cardinality({}) = 0
    BY FS_EmptySet
  <2>3. lost \cap InHand = {}
    BY <1>10
  <2>4. /\ IsFiniteSet(lost')
        /\ Cardinality(lost') = Cardinality(lost) + Cardinality(InHand) - Cardinality(lost \cap InHand)
    BY <2>1, <1>0, FS_Union
  <2>5. Cardinality(lost') = Cardinality(lost) + Cardinality(InHand)
    <3>1. Cardinality(lost \cap InHand) = 0
      BY <2>2, <2>3
    <3>2. Cardinality(lost) \in Nat /\ Cardinality(InHand) \in Nat
      BY <2>1 DEF CountTerms
    <3>3. Cardinality(lost') = Cardinality(lost) + Cardinality(InHand) - 0
      BY <3>1, <2>4
    <3> QED BY <3>2, <3>3
  <2>6. IsFiniteSet(InHand') /\ Cardinality(InHand') = 0 /\ IsFiniteSet(InQueues')
    BY <2>1, <2>2, <1>7, <1>9
  <2>7. CountTerms'
    BY <2>1, <2>4, <2>6, <1>3, <1>9, FS_CardinalityType DEF CountTerms
  <2>8. CountGrows
    BY <2>1, <2>5, <2>6, <2>7, <1>3, <1>9, CountLoses
  <2> QED BY <2>1, <2>4, <2>6, <2>8, <1>1, <1>3, <1>9, CountKeeps
<1>15. DrainInv'
  BY <1>4 DEF DrainInv
<1> QED BY <1>9, <1>11, <1>12, <1>13, <1>14, <1>15 DEF TickInv

\* The tasks are gathered and forgotten.
LEMMA StopEndsStep ==
  ASSUME TickInv, StopEnds
  PROVE TickInv'
PROOF
<1>0. /\ stopping.pc = "gather" /\ task' = [w \in TickWorkers |-> NoTask] /\ loopSet' = FALSE
      /\ stopping' = NoStop
      /\ stale' = (stale \/ \E w \in TickWorkers : \E i \in DOMAIN queue[w] : queue[w][i] = ShutDown)
  BY DEF StopEnds
<1>1. /\ queue' = queue /\ pending' = pending /\ posted' = posted /\ thread' = thread
      /\ running' = running /\ loopClosed' = loopClosed /\ starts' = starts /\ metrics' = metrics
      /\ begun' = begun /\ due' = due /\ lost' = lost
  BY DEF StopEnds
<1>2. /\ stopping' \in StopType /\ stopping'.pc = "no"
      /\ NoTask \in TaskType /\ NoTask.pc = "none" /\ NoTask.tick = NoTick
  BY <1>0 DEF StopType, NoStop, NoTask, TaskType
<1>3. \A w \in TickWorkers : task[w].tick = NoTick /\ task'[w] = NoTask
  BY <1>0 DEF TickInv, PhaseInv, AllDone, HandInv
<1>4. InHand = {} /\ InHand' = {}
  BY <1>2, <1>3 DEF InHand
<1>5. \A w \in TickWorkers : Queued(w)' = Queued(w) /\ InOrder(queue'[w])
  BY <1>1 DEF Queued, TickInv, OrderInv
<1>6. /\ PlaceInv' /\ OrderInv' /\ InQueues' = InQueues /\ OnTheWay' = OnTheWay
      /\ pending' = Reserved' /\ \A w \in TickWorkers : Taken(w)' = Taken(w)
  BY <1>0, <1>1, <1>5, PathsKeep
<1>7. TickTyped'
  <2>1. task' \in [TickWorkers -> TaskType]
    BY <1>0, <1>2
  <2>2. stale' \in BOOLEAN
    BY <1>0
  <2> QED BY <2>1, <2>2, <1>0, <1>1, <1>2 DEF TickInv, TickTyped
<1>8. HandInv'
  BY <1>1, <1>2, <1>3, <1>6 DEF TickInv, HandInv
<1>9. PhaseInv'
  BY <1>2, <1>3 DEF PhaseInv
<1>10. CountInv'
  BY <1>1, <1>4, <1>6, CountSame
<1>11. DrainInv'
  <2>1. ~stale' => \A w \in TickWorkers : ShutDown \notin {queue'[w][i] : i \in DOMAIN queue'[w]}
    BY <1>0, <1>1
  <2> QED BY <2>1, <1>2, <1>3 DEF DrainInv
<1> QED BY <1>6, <1>7, <1>8, <1>9, <1>10, <1>11 DEF TickInv

\* The loop is closed, or nothing happens.
LEMMA TickStutter ==
  ASSUME TickInv, loopClosed' \in BOOLEAN,
         UNCHANGED <<queue, task, running, loopSet, pending, posted, thread, stopping,
                     metrics, starts, begun, lost, due, stale>>
  PROVE TickInv'
PROOF
<1>1. /\ queue' = queue /\ pending' = pending /\ posted' = posted /\ thread' = thread
      /\ running' = running /\ loopSet' = loopSet /\ starts' = starts /\ metrics' = metrics
      /\ begun' = begun /\ due' = due /\ lost' = lost /\ task' = task /\ stopping' = stopping
      /\ stale' = stale
  OBVIOUS
<1>2. \A w \in TickWorkers : Queued(w)' = Queued(w) /\ InOrder(queue'[w])
  BY <1>1 DEF Queued, TickInv, OrderInv
<1>3. InHand' = InHand /\ AllDone' = AllDone /\ (loopSet' => starts' > 0)
  BY <1>1 DEF InHand, AllDone, TickInv, PlaceInv
<1>4. /\ PlaceInv' /\ OrderInv' /\ InQueues' = InQueues /\ OnTheWay' = OnTheWay
      /\ pending' = Reserved' /\ \A w \in TickWorkers : Taken(w)' = Taken(w)
  BY <1>1, <1>2, <1>3, PathsKeep
<1>5. TickTyped'
  BY <1>1 DEF TickInv, TickTyped
<1>6. HandInv' /\ PhaseInv'
  BY <1>1, <1>3, <1>4 DEF TickInv, HandInv, PhaseInv
<1>7. CountInv'
  BY <1>1, <1>3, <1>4, CountSame
<1>8. DrainInv'
  <2>1. \A w \in TickWorkers : \A t : Served(w, t)' <=> Served(w, t)
    BY <1>1, <1>4 DEF Served
  <2> QED BY <2>1, <1>1, <1>3 DEF TickInv, DrainInv
<1> QED BY <1>4, <1>5, <1>6, <1>7, <1>8 DEF TickInv

-----------------------------------------------------------------------------
(* TickPipeline: the invariant and what it says. *)

\* Every step of the pipeline, and every stutter, keeps the inductive invariant.
LEMMA TickStep == ASSUME TickInv, [TickNext]_tickVars PROVE TickInv'
PROOF
<1>1. ASSUME NEW s \in Symbols, OnMessage(s) \/ OnMessageInLoop(s) PROVE TickInv'
  BY <1>1, OnMessageStep, OnMessageInLoopStep
<1>2. CASE EnqueueDirect
  BY <1>2, EnqueueDirectStep
<1>3. CASE Handoff
  BY <1>3, HandoffStep
<1>4. CASE Post
  BY <1>4, PostStep
<1>5. CASE EnqueueFromHandoff
  BY <1>5, EnqueueFromHandoffStep
<1>6. ASSUME NEW w \in TickWorkers, WorkerTurn(w) \/ WorkerFinish(w) PROVE TickInv'
  BY <1>6, WorkerTurnStep, WorkerFinishStep
<1>7. CASE StartConsumers
  BY <1>7, StartConsumersStep
<1>8. ASSUME NEW drain \in BOOLEAN, StopConsumers(drain) PROVE TickInv'
  BY <1>8, StopConsumersStep
<1>9. CASE WaitEnds
  BY <1>9, WaitEndsStep
<1>10. CASE CountAndCancel
  BY <1>10, CountAndCancelStep
<1>11. CASE StopEnds
  BY <1>11, StopEndsStep
<1>12. CASE CloseLoop
  BY <1>12, TickStutter DEF CloseLoop
<1>13. CASE UNCHANGED tickVars
  <2>1. loopClosed' = loopClosed /\ loopClosed \in BOOLEAN
    BY <1>13 DEF tickVars, TickInv, TickTyped
  <2> QED BY <2>1, <1>13, TickStutter DEF tickVars
<1>14. CASE TickDone
  BY <1>13, <1>14 DEF TickDone
<1> QED BY <1>1, <1>2, <1>3, <1>4, <1>5, <1>6, <1>7, <1>8, <1>9, <1>10, <1>11, <1>12, <1>13,
           <1>14 DEF TickNext

\* TickInv contains the type.
LEMMA TickTypes == TickInv => TickTypeOK
PROOF
<1> SUFFICES ASSUME TickInv PROVE TickTypeOK
  OBVIOUS
<1>1. /\ \A w \in TickWorkers : Len(queue[w]) <= QueueSize
      /\ task \in [TickWorkers -> TaskType] /\ pending \in 0..MaxPendingHandoffs
      /\ stopping \in StopType
  BY DEF TickInv, TickTyped
<1>2. stopping.pc \in {"no", "wait", "count", "gather"}
  BY <1>1 DEF StopType
<1>3. \A w \in TickWorkers :
        task[w] \in [pc : {"none", "new", "get", "busy", "done"}, tick : InHand \cup {NoTick}]
  <2>1. \A w \in TickWorkers : task[w].tick \in InHand \cup {NoTick}
    BY DEF InHand
  <2>2. \A k \in TaskType : \A S : k.tick \in S =>
          k \in [pc : {"none", "new", "get", "busy", "done"}, tick : S]
    BY DEF TaskType
  <2>3. \A w \in TickWorkers : task[w] \in TaskType
    BY <1>1
  <2> QED BY <2>1, <2>2, <2>3
<1>4. task \in [TickWorkers -> [pc : {"none", "new", "get", "busy", "done"},
                               tick : InHand \cup {NoTick}]]
  BY <1>1, <1>3
<1> QED BY <1>1, <1>2, <1>4 DEF TickTypeOK

\* What a worker began is routed to it and stands in order.
LEMMA TickOrders == TickInv => TickOrder
PROOF
<1> SUFFICES ASSUME TickInv, NEW w \in TickWorkers, NEW v \in TickWorkers,
                    NEW i \in DOMAIN begun[w], NEW j \in DOMAIN begun[v],
                    begun[w][i].symbol = begun[v][j].symbol, <<w, i>> # <<v, j>>
             PROVE /\ begun[w][i] # begun[v][j]
                   /\ w = v
                   /\ (i < j /\ begun[w][i].by = begun[v][j].by
                        /\ begun[w][i].start = begun[v][j].start) => begun[w][i].n < begun[v][j].n
  BY ZenonT(60) DEF TickOrder
<1> DEFINE a == begun[w][i]
           b == begun[v][j]
<1>1. begun[w] \in Seq(TickType) /\ begun[v] \in Seq(TickType)
  BY KnownAreTicks
<1>2. a \in TickType /\ b \in TickType /\ i \in Nat /\ j \in Nat
  BY <1>1
<1>3. a # ShutDown /\ b # ShutDown
  BY <1>2, TickAssumption
<1>4. a \in Taken(w) /\ b \in Taken(v)
  BY <1>3 DEF Taken, Contents
<1>5. Partition[a.symbol] = w /\ Partition[b.symbol] = v
  BY <1>4 DEF TickInv, PlaceInv, Known
<1>6. w = v
  BY <1>5
<1>7. InOrder(begun[w])
  BY DEF TickInv, OrderInv
<1>8. i < j => Before(a, b)
  BY <1>3, <1>6, <1>7 DEF InOrder
<1>9. j < i => Before(b, a)
  BY <1>3, <1>6, <1>7 DEF InOrder
<1>10. i < j \/ j < i
  BY <1>2, <1>6
<1>11. a # b
  BY <1>2, <1>8, <1>9, <1>10, BeforeIsStrict
<1> QED BY <1>6, <1>8, <1>11 DEF Before

\* A drain that ran to its end has served everything that was due.
LEMMA TickDrains == TickInv => TickDrainLosesNothing
PROOF
<1> SUFFICES ASSUME TickInv, stopping.pc = "count", stopping.drain, ~stopping.timedOut, ~stale
             PROVE /\ InHand = {}
                   /\ \A t \in due : \E w \in TickWorkers :
                        \E i \in DOMAIN begun[w] : begun[w][i] = t
  BY DEF TickDrainLosesNothing
<1>1. AllDone /\ \A t \in due : \E w \in TickWorkers : Served(w, t)
  BY DEF TickInv, DrainInv
<1>2. \A w \in TickWorkers : task[w].tick = NoTick
  BY <1>1 DEF AllDone, TickInv, HandInv
<1>3. InHand = {}
  BY <1>2 DEF InHand
<1>4. \A t \in due : \E w \in TickWorkers : t \in Taken(w)
  BY <1>1 DEF Served, AllDone
<1>5. \A w : \A t \in Taken(w) : \E i \in DOMAIN begun[w] : begun[w][i] = t
  BY DEF Taken, Contents
<1> QED BY <1>3, <1>4, <1>5

\* The inductive invariant holds in every reachable state.
LEMMA TickInvariant == TickSpec => []TickInv
PROOF
<1>1. TickInit => TickInv
  BY TickStart
<1>2. TickInv /\ [TickNext]_tickVars => TickInv'
  BY TickStep
<1> QED BY <1>1, <1>2, PTL DEF TickSpec

\* Every tick that on_message counted is processed, failed, dropped and counted, lost with
\* a cancelled task, or in exactly one place on its way, and _pending_handoffs is the number
\* of handoffs that hold a place: for any number of workers, symbols, ticks and restarts,
\* whatever the stops and a closed loop interrupt.
THEOREM TicksAreConserved == TickSpec => [](TickTypeOK /\ TickConservation)
PROOF
<1>1. TickInv => TickTypeOK /\ TickConservation
  BY TickTypes DEF TickInv, CountInv
<1> QED BY <1>1, TickInvariant, PTL

\* No tick is begun twice or by another worker than its symbol's, and of two ticks of a
\* symbol that one thread submitted to one start of the pipeline the earlier is begun first,
\* through the handoff of the foreign thread, the queue and the worker.
THEOREM TicksStayInOrder == TickSpec => []TickOrder
BY TickInvariant, TickOrders, PTL

\* stop_consumers with a drain whose wait was not cut off by drain_timeout has begun and
\* finished every tick that was queued or in work when it began, as long as no earlier stop
\* left a sentinel behind.
THEOREM DrainsLoseNothing == TickSpec => []TickDrainLosesNothing
BY TickInvariant, TickDrains, PTL
==============================================================================
