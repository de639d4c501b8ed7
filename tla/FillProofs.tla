------------------------------ MODULE FillProofs ------------------------------
(***************************************************************************)
(* Proofs about the components that decide whether a fill is applied:      *)
(* WebhookFills, whose claims expire while deliveries are repeated, and    *)
(* FixSession, whose messages are lost, repeated and resent.               *)
(***************************************************************************)
EXTENDS WebhookFills, FixSession, FiniteSetTheorems, SequenceTheorems, TLAPS

RequestType == [pc : {"idle", "verified", "claimed"}, exec : Execs \cup {0}, at : Nat]

WhTyped ==
  /\ whClock \in Nat /\ stamp \in [Execs -> Int] /\ ledger \in [Execs -> Nat]
  /\ request \in [Requests -> RequestType]
  /\ orderState \in [highest : Int, seen : SUBSET Execs]
  /\ \A c \in claims : c.exec \in Execs /\ c.at \in Nat

\* The stamp ts was fresh at time v.
FreshAt(ts, v) == v - ts <= Drift /\ ts - v <= FutureDrift

\* A request under way is about a signed execution; one that is not yet claimed was
\* fresh not long ago.
RequestInv ==
  \A r \in Requests :
    /\ request[r].pc # "idle" =>
         request[r].exec \in Execs /\ stamp[request[r].exec] # Unstamped
    /\ request[r].pc = "verified" =>
         /\ request[r].at <= whClock /\ whClock - request[r].at <= MaxStall
         /\ FreshAt(stamp[request[r].exec], request[r].at)

ClaimedBy(r, e) == request[r].pc = "claimed" /\ request[r].exec = e
Taken(e) == ledger[e] > 0 \/ \E r \in Requests : ClaimedBy(r, e)

\* The claim of e is there, or it has expired, and then every delivery of e is stale.
Guarded(e) ==
  \/ \E c \in claims : c.exec = e /\ stamp[e] <= c.at + FutureDrift
  \/ stamp[e] + Retention < whClock + FutureDrift

OnceInv ==
  \A e \in Execs : e \notin forgotten =>
    /\ ledger[e] <= 1
    /\ ledger[e] > 0 => \A r \in Requests : ~ClaimedBy(r, e)
    /\ \A r, s \in Requests : ClaimedBy(r, e) /\ ClaimedBy(s, e) => r = s
    /\ Taken(e) => stamp[e] # Unstamped /\ Guarded(e)

SeenInv ==
  /\ orderState.seen = {e \in Execs : ledger[e] > 0}
  /\ \A d \in orderState.seen : d <= orderState.highest

\* The inductive invariant of WebhookAppliedOnce.
WhInv == WhTyped /\ RequestInv /\ OnceInv /\ SeenInv
\* The constants, one by one.
LEMMA WhConstants ==
  /\ Execs \subseteq Nat /\ Drift \in Nat /\ FutureDrift \in Nat /\ MaxStall \in Nat
  /\ Retention \in Nat /\ Retention >= Drift + FutureDrift + MaxStall
  /\ \A s \in Skews : s \in Int /\ s > Unstamped
  /\ Unstamped \in Int /\ Unstamped < 0
BY WebhookAssumption DEF Unstamped

\* A request that has yet to claim an execution whose claim was taken finds that claim
\* unexpired: the retention outlives every delivery that can still be fresh.
LEMMA ClaimIsFound ==
  ASSUME WhInv, NEW r \in Requests, request[r].pc = "verified",
         request[r].exec \notin forgotten, Taken(request[r].exec)
  PROVE  \E c \in Swept : c.exec = request[r].exec /\ ~Expired(c)
<1> DEFINE e == request[r].exec
           ts == stamp[e]
           v == request[r].at
<1>1. /\ whClock \in Nat /\ e \in Execs /\ ts \in Int /\ v \in Nat
      /\ v <= whClock /\ whClock - v <= MaxStall /\ v - ts <= Drift /\ ts - v <= FutureDrift
      /\ Guarded(e) /\ \A c \in claims : c.at \in Nat
  <2>1. /\ request[r] \in RequestType /\ whClock \in Nat /\ stamp \in [Execs -> Int]
        /\ \A c \in claims : c.at \in Nat
    BY DEF WhInv, WhTyped
  <2>2. /\ e \in Execs /\ v <= whClock /\ whClock - v <= MaxStall /\ FreshAt(ts, v)
    BY DEF WhInv, RequestInv
  <2>3. Guarded(e)
    BY <2>2 DEF WhInv, OnceInv
  <2> QED
    BY <2>1, <2>2, <2>3 DEF RequestType, FreshAt
<1> HIDE DEF e, ts, v
<1>2. ts + Retention >= whClock + FutureDrift
  BY <1>1, WhConstants
<1>3. PICK c \in claims : c.exec = e /\ ts <= c.at + FutureDrift
  BY <1>1, <1>2, WhConstants DEF Guarded, ts
<1>4. c.at >= whClock - Retention
  BY <1>1, <1>2, <1>3, WhConstants
<1>5. ~Expired(c)
  BY <1>1, <1>4, WhConstants DEF Expired
<1>6. c \in Swept
  BY <1>3, <1>5 DEF Swept
<1> QED
  BY <1>3, <1>5, <1>6 DEF e

\* A claim that is dropped because it has expired leaves its execution guarded by time.
LEMMA ExpiryGuards ==
  ASSUME WhInv, NEW e \in Execs, Guarded(e), whClock' = whClock, stamp' = stamp,
         \A c \in claims : c.exec = e => c \in claims' \/ Expired(c)
  PROVE  Guarded(e)'
<1>1. whClock \in Nat /\ stamp[e] \in Int /\ \A c \in claims : c.at \in Nat
  BY DEF WhInv, WhTyped
<1>2. CASE stamp[e] + Retention < whClock + FutureDrift
  BY <1>2 DEF Guarded
<1>3. ASSUME NEW c \in claims, c.exec = e, stamp[e] <= c.at + FutureDrift
      PROVE  Guarded(e)'
  <2>1. CASE c \in claims'
    BY <1>3, <2>1 DEF Guarded
  <2>2. CASE Expired(c)
    <3>1. c.at < whClock - Retention /\ c.at \in Nat
      BY <1>1, <2>2 DEF Expired
    <3>2. stamp[e] + Retention < whClock + FutureDrift
      BY <1>1, <1>3, <3>1, WhConstants
    <3> QED
      BY <3>2 DEF Guarded
  <2> QED
    BY <1>3, <2>1, <2>2
<1> QED
  BY <1>2, <1>3 DEF Guarded

\* Claiming an execution, or finding it claimed.
LEMMA ClaimKeeps ==
  ASSUME WhInv, NEW r \in Requests, ClaimExecution(r)
  PROVE  WhInv'
<1> DEFINE e == request[r].exec
           held == \E c \in Swept : c.exec = e /\ ~Expired(c)
           others == {c \in Swept : c.exec # e}
           last == CHOOSE n \in {0} \cup {c.n : c \in others} : \A c \in others : c.n <= n
           mine == [exec |-> e, at |-> whClock, n |-> last + 1]
           longer == others \cup {mine}
<1>1. /\ whClock \in Nat /\ stamp \in [Execs -> Int] /\ ledger \in [Execs -> Nat]
      /\ request \in [Requests -> RequestType] /\ request[r] \in RequestType
      /\ \A c \in claims : c.exec \in Execs /\ c.at \in Nat
  BY DEF WhInv, WhTyped
<1>2. /\ request[r].pc = "verified" /\ UNCHANGED <<whClock, orderState, stamp, deliveries, ledger>>
  BY DEF ClaimExecution
<1>3. /\ e \in Execs /\ stamp[e] # Unstamped
      /\ stamp[e] - request[r].at <= FutureDrift /\ request[r].at <= whClock
  BY <1>2 DEF WhInv, RequestInv, FreshAt
<1>4. Swept \subseteq claims /\ \A c \in claims : c \in Swept \/ Expired(c)
  BY DEF Swept
<1>5. SeenInv'
  BY <1>2 DEF WhInv, SeenInv
<1>6. CASE held
  <2>1. claims' = Swept /\ request' = [request EXCEPT ![r] = IdleRequest] /\ forgotten' = forgotten
    BY <1>6 DEF ClaimExecution
  <2>2. IdleRequest \in RequestType /\ IdleRequest.pc = "idle"
    BY DEF IdleRequest, RequestType
  <2>3. /\ request' \in [Requests -> RequestType] /\ request'[r].pc = "idle"
        /\ \A s \in Requests : s # r => request'[s] = request[s]
    BY <1>1, <2>1, <2>2
  <2>4. WhTyped'
    BY <1>1, <1>2, <1>4, <2>1, <2>3 DEF WhInv, WhTyped
  <2>5. RequestInv'
    BY <1>2, <2>3 DEF WhInv, RequestInv
  <2>6. \A s \in Requests, d \in Execs : ClaimedBy(s, d)' => ClaimedBy(s, d)
    BY <2>3 DEF ClaimedBy
  <2>7. \A d \in Execs : Guarded(d) => Guarded(d)'
    BY <1>2, <1>4, <2>1, ExpiryGuards
  <2>8. OnceInv'
    <3> SUFFICES ASSUME NEW d \in Execs, d \notin forgotten'
                 PROVE  /\ ledger'[d] <= 1
                        /\ ledger'[d] > 0 => \A s \in Requests : ~ClaimedBy(s, d)'
                        /\ \A s, u \in Requests : ClaimedBy(s, d)' /\ ClaimedBy(u, d)' => s = u
                        /\ Taken(d)' => stamp'[d] # Unstamped /\ Guarded(d)'
      BY DEF OnceInv
    <3>1. /\ ledger[d] <= 1
          /\ ledger[d] > 0 => \A s \in Requests : ~ClaimedBy(s, d)
          /\ \A s, u \in Requests : ClaimedBy(s, d) /\ ClaimedBy(u, d) => s = u
          /\ Taken(d) => stamp[d] # Unstamped /\ Guarded(d)
      BY <2>1 DEF WhInv, OnceInv
    <3>2. Taken(d)' => Taken(d)
      BY <1>2, <2>6 DEF Taken
    <3> QED
      BY <1>2, <2>6, <2>7, <3>1, <3>2
  <2> QED
    BY <1>5, <2>4, <2>5, <2>8 DEF WhInv
<1>7. CASE ~held
  <2>1. /\ claims' = KeptClaims(longer)
        /\ forgotten' = forgotten \cup {c.exec : c \in longer \ KeptClaims(longer)}
        /\ request' = [request EXCEPT ![r].pc = "claimed"]
    BY <1>7 DEF ClaimExecution
  <2>2. mine.exec = e /\ mine.at = whClock /\ mine \in longer
    OBVIOUS
  <2> HIDE DEF mine
  <2>3. /\ KeptClaims(longer) \subseteq longer
        /\ \A c \in longer : c \in claims' \/ c.exec \in forgotten'
        /\ forgotten \subseteq forgotten'
        /\ \A c \in claims' : c \in claims \/ c = mine
        /\ \A c \in claims : c.exec # e => c \in claims' \/ c.exec \in forgotten' \/ Expired(c)
    <3>1. KeptClaims(longer) \subseteq longer
      BY DEF KeptClaims
    <3>2. \A c \in claims : c.exec # e => c \in longer \/ Expired(c)
      BY <1>4
    <3>3. \A c \in longer : c \in claims \/ c = mine
      BY <1>4
    <3> HIDE DEF longer
    <3> QED
      BY <2>1, <3>1, <3>2, <3>3
  <2> HIDE DEF longer
  <2>4. /\ request' \in [Requests -> RequestType] /\ request'[r].pc = "claimed"
        /\ request'[r].exec = e /\ \A s \in Requests : s # r => request'[s] = request[s]
    BY <1>1, <2>1 DEF RequestType
  <2>5. WhTyped'
    <3>1. \A c \in claims' : c.exec \in Execs /\ c.at \in Nat
      BY <1>1, <1>3, <2>2, <2>3
    <3> QED
      BY <1>1, <1>2, <2>4, <3>1 DEF WhInv, WhTyped
  <2>6. RequestInv'
    BY <1>2, <1>3, <2>4 DEF WhInv, RequestInv
  <2>7. e \notin forgotten => ~Taken(e)
    BY <1>2, <1>7, ClaimIsFound
  <2>8. \A s \in Requests, d \in Execs : ClaimedBy(s, d)' => ClaimedBy(s, d) \/ (s = r /\ d = e)
    BY <2>4 DEF ClaimedBy
  <2> HIDE DEF e
  <2>9. OnceInv'
    <3> SUFFICES ASSUME NEW d \in Execs, d \notin forgotten'
                 PROVE  /\ ledger'[d] <= 1
                        /\ ledger'[d] > 0 => \A s \in Requests : ~ClaimedBy(s, d)'
                        /\ \A s, u \in Requests : ClaimedBy(s, d)' /\ ClaimedBy(u, d)' => s = u
                        /\ Taken(d)' => stamp'[d] # Unstamped /\ Guarded(d)'
      BY DEF OnceInv
    <3>1. /\ ledger[d] <= 1
          /\ ledger[d] > 0 => \A s \in Requests : ~ClaimedBy(s, d)
          /\ \A s, u \in Requests : ClaimedBy(s, d) /\ ClaimedBy(u, d) => s = u
          /\ Taken(d) => stamp[d] # Unstamped /\ Guarded(d)
      BY <2>3 DEF WhInv, OnceInv
    <3>2. CASE d = e
      <4>1. ledger[d] <= 0 /\ \A s \in Requests : ClaimedBy(s, d)' => s = r
        BY <1>1, <2>3, <2>7, <2>8, <3>2 DEF Taken
      <4>2. mine \in claims'
        BY <2>2, <2>3, <3>2
      <4>3. stamp[e] <= whClock + FutureDrift
        <5>1. request[r].at \in Nat /\ stamp[e] \in Int
          BY <1>1, <1>3 DEF RequestType
        <5> QED
          BY <1>1, <1>3, <5>1, WhConstants
      <4>4. Guarded(d)'
        BY <1>2, <2>2, <3>2, <4>2, <4>3 DEF Guarded
      <4>5. ~(ledger'[d] > 0)
        BY <1>1, <1>2, <4>1
      <4> QED
        BY <1>2, <1>3, <3>1, <3>2, <4>1, <4>4, <4>5
    <3>3. CASE d # e
      <4>1. \A c \in claims : c.exec = d => c \in claims' \/ Expired(c)
        BY <2>3, <3>3
      <4>2. Guarded(d) => Guarded(d)'
        BY <1>2, <4>1, ExpiryGuards
      <4>3. \A s \in Requests : ClaimedBy(s, d)' => ClaimedBy(s, d)
        BY <2>8, <3>3
      <4>4. Taken(d)' => Taken(d)
        BY <1>2, <4>3 DEF Taken
      <4> QED
        BY <1>2, <3>1, <4>2, <4>3, <4>4
    <3> QED
      BY <3>2, <3>3
  <2> QED
    BY <1>5, <2>5, <2>6, <2>9 DEF WhInv
<1> QED
  BY <1>6, <1>7

\* Steps that neither claim nor apply anything: what was guarded stays so.
LEMMA NothingTaken ==
  ASSUME WhInv, UNCHANGED <<ledger, forgotten, orderState>>,
         \A s \in Requests, d \in Execs : ClaimedBy(s, d)' => ClaimedBy(s, d),
         \A d \in Execs : Guarded(d) /\ stamp[d] # Unstamped =>
                            Guarded(d)' /\ stamp'[d] # Unstamped
  PROVE  OnceInv' /\ SeenInv'
<1>1. OnceInv'
  <2> SUFFICES ASSUME NEW d \in Execs, d \notin forgotten'
               PROVE  /\ ledger'[d] <= 1
                      /\ ledger'[d] > 0 => \A s \in Requests : ~ClaimedBy(s, d)'
                      /\ \A s, u \in Requests : ClaimedBy(s, d)' /\ ClaimedBy(u, d)' => s = u
                      /\ Taken(d)' => stamp'[d] # Unstamped /\ Guarded(d)'
    BY DEF OnceInv
  <2>1. /\ ledger[d] <= 1
        /\ ledger[d] > 0 => \A s \in Requests : ~ClaimedBy(s, d)
        /\ \A s, u \in Requests : ClaimedBy(s, d) /\ ClaimedBy(u, d) => s = u
        /\ Taken(d) => stamp[d] # Unstamped /\ Guarded(d)
    BY DEF WhInv, OnceInv
  <2>2. Taken(d)' => Taken(d)
    BY DEF Taken
  <2> QED
    BY <2>1, <2>2
<1>2. SeenInv'
  BY DEF WhInv, SeenInv
<1> QED
  BY <1>1, <1>2

\* A delivery signs its execution once, and only a fresh one goes on.
LEMMA DeliverKeeps ==
  ASSUME WhInv, NEW r \in Requests, NEW e \in Execs, Deliver(r, e)
  PROVE  WhInv'
<1>1. /\ whClock \in Nat /\ stamp \in [Execs -> Int] /\ request \in [Requests -> RequestType]
      /\ WhTyped
  BY DEF WhInv, WhTyped
<1>2. /\ UNCHANGED <<whClock, claims, nextSweep, orderState, ledger, forgotten>>
      /\ request[r].pc = "idle"
  BY DEF Deliver
<1>3. /\ stamp' \in [Execs -> Int] /\ stamp'[e] # Unstamped
      /\ \A d \in Execs : stamp[d] # Unstamped => stamp'[d] = stamp[d]
  <2>1. CASE stamp[e] = Unstamped
    <3>1. PICK skew \in Skews : stamp' = [stamp EXCEPT ![e] = whClock + skew]
      BY <2>1 DEF Deliver
    <3>2. whClock + skew \in Int /\ whClock + skew # Unstamped
      BY <1>1, WhConstants
    <3> QED
      BY <1>1, <2>1, <3>1, <3>2
  <2>2. CASE stamp[e] # Unstamped
    BY <1>1, <2>2 DEF Deliver
  <2> QED
    BY <2>1, <2>2
<1>4. CASE Fresh(stamp'[e])
  <2> DEFINE q == [pc |-> "verified", exec |-> e, at |-> whClock]
  <2>1. request' = [request EXCEPT ![r] = q]
    BY <1>4 DEF Deliver
  <2>2. q \in RequestType /\ q.pc = "verified" /\ q.exec = e /\ q.at = whClock
    BY <1>1 DEF RequestType
  <2>3. FreshAt(stamp'[e], whClock)
    <3>1. stamp'[e] \in Int
      BY <1>3
    <3> QED
      BY <1>1, <1>4, <3>1, WhConstants DEF Fresh, FreshAt
  <2> HIDE DEF q
  <2>4. /\ request' \in [Requests -> RequestType] /\ request'[r] = q
        /\ \A s \in Requests : s # r => request'[s] = request[s]
    BY <1>1, <2>1, <2>2
  <2>5. WhTyped'
    BY <1>1, <1>2, <1>3, <2>4 DEF WhTyped
  <2>6. RequestInv'
    <3>1. whClock <= whClock /\ whClock - whClock <= MaxStall
      BY <1>1, WhConstants
    <3> SUFFICES ASSUME NEW s \in Requests
                 PROVE  /\ request'[s].pc # "idle" =>
                             request'[s].exec \in Execs /\ stamp'[request'[s].exec] # Unstamped
                        /\ request'[s].pc = "verified" =>
                             /\ request'[s].at <= whClock' /\ whClock' - request'[s].at <= MaxStall
                             /\ FreshAt(stamp'[request'[s].exec], request'[s].at)
      BY DEF RequestInv
    <3>2. CASE s = r
      BY <1>2, <1>3, <2>2, <2>3, <2>4, <3>1, <3>2
    <3>3. CASE s # r
      BY <1>2, <1>3, <2>4, <3>3 DEF WhInv, RequestInv
    <3> QED
      BY <3>2, <3>3
  <2>7. \A s \in Requests, d \in Execs : ClaimedBy(s, d)' => ClaimedBy(s, d)
    BY <2>2, <2>4 DEF ClaimedBy
  <2>8. \A d \in Execs : Guarded(d) /\ stamp[d] # Unstamped =>
                           Guarded(d)' /\ stamp'[d] # Unstamped
    BY <1>2, <1>3 DEF Guarded
  <2>9. OnceInv' /\ SeenInv'
    BY <1>2, <2>7, <2>8, NothingTaken
  <2> QED
    BY <2>5, <2>6, <2>9 DEF WhInv
<1>5. CASE ~Fresh(stamp'[e])
  <2>1. request' = request
    BY <1>5 DEF Deliver
  <2>2. WhTyped'
    BY <1>1, <1>2, <1>3, <2>1 DEF WhTyped
  <2>3. RequestInv'
    BY <1>2, <1>3, <2>1 DEF WhInv, RequestInv
  <2>4. \A s \in Requests, d \in Execs : ClaimedBy(s, d)' => ClaimedBy(s, d)
    BY <2>1 DEF ClaimedBy
  <2>5. \A d \in Execs : Guarded(d) /\ stamp[d] # Unstamped =>
                           Guarded(d)' /\ stamp'[d] # Unstamped
    BY <1>2, <1>3 DEF Guarded
  <2>6. OnceInv' /\ SeenInv'
    BY <1>2, <2>4, <2>5, NothingTaken
  <2> QED
    BY <2>2, <2>3, <2>6 DEF WhInv
<1> QED
  BY <1>4, <1>5

\* The one request that claimed an execution applies it.
LEMMA RecordKeeps ==
  ASSUME WhInv, NEW r \in Requests, RecordSequence(r)
  PROVE  WhInv'
<1> DEFINE e == request[r].exec
<1>1. /\ whClock \in Nat /\ stamp \in [Execs -> Int] /\ ledger \in [Execs -> Nat]
      /\ request \in [Requests -> RequestType]
      /\ orderState \in [highest : Int, seen : SUBSET Execs]
      /\ \A c \in claims : c.exec \in Execs /\ c.at \in Nat
  BY DEF WhInv, WhTyped
<1>2. /\ request[r].pc = "claimed" /\ UNCHANGED <<whClock, claims, stamp, forgotten>>
      /\ ledger' = [ledger EXCEPT ![e] = ledger[e] + 1]
      /\ request' = [request EXCEPT ![r] = IdleRequest]
      /\ orderState' = [highest |-> IF e > orderState.highest THEN e ELSE orderState.highest,
                        seen |-> orderState.seen \cup {e}]
  BY DEF RecordSequence
<1>3. e \in Execs /\ e \in Nat /\ ClaimedBy(r, e)
  <2>1. e \in Execs
    BY <1>2 DEF WhInv, RequestInv
  <2> QED
    BY <1>2, <2>1, WhConstants DEF ClaimedBy
<1> HIDE DEF e
<1>4. /\ ledger' \in [Execs -> Nat] /\ ledger'[e] = ledger[e] + 1 /\ ledger[e] \in Nat
      /\ \A d \in Execs : d # e => ledger'[d] = ledger[d]
  BY <1>1, <1>2, <1>3
<1>5. IdleRequest \in RequestType /\ IdleRequest.pc = "idle"
  BY DEF IdleRequest, RequestType
<1>6. /\ request' \in [Requests -> RequestType] /\ request'[r].pc = "idle"
      /\ \A s \in Requests : s # r => request'[s] = request[s]
  BY <1>1, <1>2, <1>5
<1>7. /\ orderState' \in [highest : Int, seen : SUBSET Execs]
      /\ orderState'.seen = orderState.seen \cup {e}
      /\ orderState'.highest = IF e > orderState.highest THEN e ELSE orderState.highest
  BY <1>1, <1>2, <1>3
<1>8. WhTyped'
  BY <1>1, <1>2, <1>4, <1>6, <1>7 DEF WhTyped
<1>9. RequestInv'
  BY <1>2, <1>6 DEF WhInv, RequestInv
<1>10. \A s \in Requests, d \in Execs : ClaimedBy(s, d)' => ClaimedBy(s, d) /\ s # r
  BY <1>6 DEF ClaimedBy
<1>11. \A d \in Execs : Guarded(d)' = Guarded(d)
  BY <1>2 DEF Guarded
<1>12. OnceInv'
  <2> SUFFICES ASSUME NEW d \in Execs, d \notin forgotten'
               PROVE  /\ ledger'[d] <= 1
                      /\ ledger'[d] > 0 => \A s \in Requests : ~ClaimedBy(s, d)'
                      /\ \A s, u \in Requests : ClaimedBy(s, d)' /\ ClaimedBy(u, d)' => s = u
                      /\ Taken(d)' => stamp'[d] # Unstamped /\ Guarded(d)'
    BY DEF OnceInv
  <2>1. /\ ledger[d] <= 1
        /\ ledger[d] > 0 => \A s \in Requests : ~ClaimedBy(s, d)
        /\ \A s, u \in Requests : ClaimedBy(s, d) /\ ClaimedBy(u, d) => s = u
        /\ Taken(d) => stamp[d] # Unstamped /\ Guarded(d)
    BY <1>2 DEF WhInv, OnceInv
  <2>2. CASE d = e
    <3>1. ~(ledger[e] > 0) /\ Taken(e) /\ \A s \in Requests : ClaimedBy(s, e) => s = r
      BY <1>3, <2>1, <2>2 DEF Taken
    <3>2. ledger'[d] = 1
      BY <1>4, <2>2, <3>1
    <3>3. \A s \in Requests : ~ClaimedBy(s, d)'
      BY <1>10, <2>2, <3>1
    <3> QED
      BY <1>2, <1>11, <2>1, <2>2, <3>1, <3>2, <3>3
  <2>3. CASE d # e
    <3>1. Taken(d)' => Taken(d)
      BY <1>4, <1>10, <2>3 DEF Taken
    <3> QED
      BY <1>2, <1>4, <1>10, <1>11, <2>1, <2>3, <3>1
  <2> QED
    BY <2>2, <2>3
<1>13. SeenInv'
  <2>1. orderState.seen = {d \in Execs : ledger[d] > 0}
        /\ \A d \in orderState.seen : d <= orderState.highest
    BY DEF WhInv, SeenInv
  <2>2. orderState'.seen = {d \in Execs : ledger'[d] > 0}
    <3>1. ledger'[e] > 0
      BY <1>4
    <3>2. \A d \in Execs : d \in orderState.seen \cup {e} <=> ledger'[d] > 0
      BY <1>3, <1>4, <2>1, <3>1
    <3>3. orderState.seen \cup {e} \subseteq Execs
      BY <1>3, <2>1
    <3> QED
      BY <1>7, <3>2, <3>3
  <2>3. orderState.highest \in Int /\ \A d \in orderState.seen : d \in Int
    BY <1>1, WhConstants
  <2>4. \A d \in orderState'.seen : d <= orderState'.highest
    BY <1>3, <1>7, <2>1, <2>3
  <2> QED
    BY <2>2, <2>4 DEF SeenInv
<1> QED
  BY <1>8, <1>9, <1>12, <1>13 DEF WhInv

\* Every step keeps the invariant.
LEMMA WhStep == WhInv /\ [WhNext]_whVars => WhInv'
<1> SUFFICES ASSUME WhInv, [WhNext]_whVars PROVE WhInv'
  OBVIOUS
<1>1. ASSUME NEW r \in Requests, Refuse(r) PROVE WhInv'
  BY <1>1 DEF Refuse, WhInv, WhTyped, RequestInv, OnceInv, SeenInv, ClaimedBy, Taken, Guarded
<1>2. ASSUME NEW r \in Requests, ClaimExecution(r) PROVE WhInv'
  BY <1>2, ClaimKeeps
<1>3. ASSUME NEW r \in Requests, RecordSequence(r) PROVE WhInv'
  BY <1>3, RecordKeeps
<1>4. ASSUME NEW r \in Requests, NEW e \in Execs, Deliver(r, e) PROVE WhInv'
  BY <1>4, DeliverKeeps
<1>5. ASSUME NEW e \in Execs, IsDuplicate(e) PROVE WhInv'
  <2>1. /\ UNCHANGED <<whClock, orderState, request, stamp, ledger, forgotten>>
        /\ claims' \subseteq claims /\ \A c \in claims : c \in claims' \/ Expired(c)
    BY <1>5 DEF IsDuplicate, Swept
  <2>2. \A d \in Execs : Guarded(d) => Guarded(d)'
    BY <2>1, ExpiryGuards
  <2>3. \A s \in Requests, d \in Execs : ClaimedBy(s, d)' => ClaimedBy(s, d)
    BY <2>1 DEF ClaimedBy
  <2>4. OnceInv' /\ SeenInv'
    BY <2>1, <2>2, <2>3, NothingTaken
  <2>5. WhTyped' /\ RequestInv'
    BY <2>1 DEF WhInv, WhTyped, RequestInv
  <2> QED
    BY <2>4, <2>5 DEF WhInv
<1>6. CASE WhTick
  <2>1. /\ UNCHANGED <<claims, orderState, request, stamp, ledger, forgotten>>
        /\ whClock' = whClock + 1 /\ whClock \in Nat /\ whClock' \in Nat
        /\ \A s \in Requests : request[s].pc = "verified" => whClock - request[s].at < MaxStall
        /\ \A s \in Requests : request[s].at \in Nat
        /\ \A d \in Execs : stamp[d] \in Int
    BY <1>6 DEF WhTick, WhInv, WhTyped, RequestType
  <2>2. \A d \in Execs : Guarded(d) => Guarded(d)'
    BY <2>1, WhConstants DEF Guarded
  <2>3. \A s \in Requests, d \in Execs : ClaimedBy(s, d)' => ClaimedBy(s, d)
    BY <2>1 DEF ClaimedBy
  <2>4. OnceInv' /\ SeenInv'
    BY <2>1, <2>2, <2>3, NothingTaken
  <2>5. \A s \in Requests : request[s].pc = "verified" =>
          request[s].at <= whClock' /\ whClock' - request[s].at <= MaxStall
    BY <2>1, WhConstants DEF WhInv, RequestInv
  <2>6. WhTyped' /\ RequestInv'
    BY <2>1, <2>5 DEF WhInv, WhTyped, RequestInv
  <2> QED
    BY <2>4, <2>6 DEF WhInv
<1>7. CASE WhDone \/ UNCHANGED whVars
  BY <1>7 DEF WhDone, whVars, WhInv, WhTyped, RequestInv, OnceInv, SeenInv, ClaimedBy, Taken,
              Guarded
<1> QED
  BY <1>1, <1>2, <1>3, <1>4, <1>5, <1>6, <1>7 DEF WhNext

\* The start.
LEMMA WhStart == WhInit => WhInv
<1> SUFFICES ASSUME WhInit PROVE WhInv
  OBVIOUS
<1>1. IdleRequest \in RequestType /\ IdleRequest.pc = "idle"
  BY DEF IdleRequest, RequestType
<1>2. WhTyped
  BY <1>1, WhConstants DEF WhInit, WhTyped
<1>3. \A r \in Requests : request[r].pc = "idle"
  BY <1>1 DEF WhInit
<1>4. \A e \in Execs : ledger[e] = 0
  BY DEF WhInit
<1>5. orderState.seen = {}
  BY DEF WhInit
<1> QED
  BY <1>2, <1>3, <1>4, <1>5 DEF WhInv, RequestInv, OnceInv, SeenInv, ClaimedBy, Taken

\* For any number of request threads and executions, any drift and skew, and any
\* capacity: an execution is applied at most once unless the store dropped it, and
\* every gap between applied sequence numbers is reported.  It rests on the assumed
\* retention, which covers both drifts and the time from the check to the claim.
THEOREM FillsApplyOnce == WhSpec => []WebhookAppliedOnce
<1>1. WhInv => WebhookAppliedOnce
  <2> SUFFICES ASSUME WhInv, NEW e \in Execs
               PROVE  /\ e \notin forgotten => ledger[e] <= 1
                      /\ ledger[e] = 0 /\ (\E d \in Execs : d < e /\ ledger[d] > 0)
                           /\ (\E d \in Execs : d > e /\ ledger[d] > 0) => e \in MissingSequences
    BY DEF WebhookAppliedOnce
  <2>1. e \notin forgotten => ledger[e] <= 1
    BY DEF WhInv, OnceInv
  <2>2. ASSUME ledger[e] = 0, NEW d \in Execs, d < e, ledger[d] > 0,
               NEW f \in Execs, f > e, ledger[f] > 0
        PROVE  e \in MissingSequences
    <3>1. d \in orderState.seen /\ f \in orderState.seen /\ f <= orderState.highest
      BY <2>2 DEF WhInv, SeenInv
    <3>2. e \notin orderState.seen
      BY <2>2 DEF WhInv, SeenInv
    <3>3. d \in Nat /\ e \in Nat /\ f \in Nat /\ orderState.highest \in Int
      BY WhConstants DEF WhInv, WhTyped
    <3>4. d <= e /\ e < orderState.highest
      BY <2>2, <3>1, <3>3
    <3> QED
      BY <3>1, <3>2, <3>4 DEF MissingSequences
  <2> QED
    BY <2>1, <2>2
<1> QED
  BY <1>1, WhStart, WhStep, PTL DEF WhSpec
-------------------------------------------------------------------------------
\* How many numbers of S are no greater than s.
Rank(S, s) == Cardinality({t \in S : t <= s})

\* The rank of a number of a finite set is at least 1, at most the size of the set, and
\* grows with the number.
LEMMA RankGrows ==
  ASSUME NEW S, S \subseteq Int, IsFiniteSet(S)
  PROVE  /\ Cardinality(S) \in Nat
         /\ \A s \in S : Rank(S, s) \in 1..Cardinality(S)
         /\ \A s, t \in S : s < t => Rank(S, s) < Rank(S, t)
<1> DEFINE upto(s) == {u \in S : u <= s}
<1>1. Cardinality(S) \in Nat
  BY FS_CardinalityType
<1>2. ASSUME NEW s \in S
      PROVE  /\ IsFiniteSet(upto(s)) /\ Cardinality(upto(s)) \in Nat
             /\ Cardinality(upto(s)) <= Cardinality(S) /\ Cardinality(upto(s)) # 0
  <2>1. upto(s) \in SUBSET S /\ s \in upto(s)
    OBVIOUS
  <2> HIDE DEF upto
  <2>2. IsFiniteSet(upto(s)) /\ Cardinality(upto(s)) <= Cardinality(S)
    BY <2>1, FS_Subset
  <2> QED
    BY <2>1, <2>2, FS_EmptySet, FS_CardinalityType
<1>3. \A s \in S : Rank(S, s) \in 1..Cardinality(S)
  BY <1>1, <1>2 DEF Rank
<1>4. ASSUME NEW s \in S, NEW t \in S, s < t
      PROVE  Rank(S, s) < Rank(S, t)
  <2>i. s \in Int /\ t \in Int /\ \A u \in S : u \in Int
    OBVIOUS
  <2>0. \A u \in S : u <= s => u <= t
    BY <1>4, <2>i
  <2>p. upto(s) \in SUBSET upto(t)
    BY <2>0
  <2>q. t <= t /\ ~(t <= s)
    BY <1>4, <2>i
  <2>1. upto(s) \in SUBSET upto(t) /\ t \in upto(t) /\ t \notin upto(s)
    BY <2>p, <2>q
  <2>2. IsFiniteSet(upto(t)) /\ Cardinality(upto(t)) \in Nat /\ Cardinality(upto(s)) \in Nat
    BY <1>2
  <2>3. Rank(S, s) = Cardinality(upto(s)) /\ Rank(S, t) = Cardinality(upto(t))
    BY DEF Rank
  <2> HIDE DEF upto
  <2>4. Cardinality(upto(s)) <= Cardinality(upto(t))
        /\ (Cardinality(upto(t)) = Cardinality(upto(s)) => upto(t) = upto(s))
    BY <2>1, <2>2, FS_Subset
  <2> QED
    BY <2>1, <2>2, <2>3, <2>4
<1> QED
  BY <1>1, <1>3, <1>4

\* Counting upwards from 1 names every number of a finite set once, in order: by the
\* pigeon hole principle the ranks of the members are all the numbers up to its size.
LEMMA NthIs ==
  ASSUME NEW S, S \subseteq Int, IsFiniteSet(S)
  PROVE  /\ \A i \in 1..Cardinality(S) : Nth(S, i) \in S /\ Rank(S, Nth(S, i)) = i
         /\ \A s \in S : Nth(S, Rank(S, s)) = s
         /\ \A i, j \in 1..Cardinality(S) : i < j => Nth(S, i) < Nth(S, j)
<1> DEFINE n == Cardinality(S)
           f == [s \in S |-> Rank(S, s)]
<1>1. /\ n \in Nat /\ \A s \in S : Rank(S, s) \in 1..n
      /\ \A s, t \in S : s < t => Rank(S, s) < Rank(S, t)
  BY RankGrows
<1>2. \A s, t \in S : Rank(S, s) = Rank(S, t) => s = t
  BY <1>1
<1>3. f \in Injection(S, 1..n)
  BY <1>1, <1>2 DEF Injection, IsInjective
<1>4. IsFiniteSet(1..n) /\ Cardinality(1..n) = n
  BY <1>1, FS_Interval
<1>5. f \in Surjection(S, 1..n)
  BY <1>3, <1>4, FS_Injection
<1>6. \A i \in 1..n : \E s \in S : Rank(S, s) = i
  BY <1>5 DEF Surjection
<1>7. \A i \in 1..n : Nth(S, i) \in S /\ Rank(S, Nth(S, i)) = i
  BY <1>6 DEF Nth, Rank
<1>8. \A s \in S : Nth(S, Rank(S, s)) = s
  BY <1>1, <1>2, <1>7
<1>9. \A i, j \in 1..n : i < j => Nth(S, i) < Nth(S, j)
  <2> TAKE i, j \in 1..n
  <2> HAVE i < j
  <2>1. Nth(S, i) \in S /\ Nth(S, j) \in S /\ Rank(S, Nth(S, i)) = i /\ Rank(S, Nth(S, j)) = j
    BY <1>7
  <2>2. Nth(S, i) \in Int /\ Nth(S, j) \in Int
    BY <2>1
  <2>3. Nth(S, j) < Nth(S, i) => j < i
    BY <2>1, <1>1
  <2> QED
    BY <2>1, <2>2, <2>3
<1> QED
  BY <1>7, <1>8, <1>9

\* A finite set of numbers that is not empty has a greatest one.
LEMMA GreatestExists ==
  ASSUME NEW S, S \subseteq Int, IsFiniteSet(S), S # {}
  PROVE  \E m \in S : \A t \in S : t <= m
<1> DEFINE n == Cardinality(S)
<1>1. n \in Nat /\ n # 0
  BY FS_CardinalityType, FS_EmptySet
<1>2. Nth(S, n) \in S /\ Rank(S, Nth(S, n)) = n
  <2>1. n \in 1..n
    BY <1>1
  <2> QED
    BY <2>1, NthIs
<1>3. \A t \in S : Rank(S, t) \in 1..n /\ (Nth(S, n) < t => n < Rank(S, t))
  <2>1. \A t \in S : Rank(S, t) \in 1..n
    BY RankGrows
  <2>2. \A t \in S : Nth(S, n) < t => Rank(S, Nth(S, n)) < Rank(S, t)
    BY <1>2, RankGrows
  <2> QED
    BY <1>2, <2>1, <2>2
<1>4. ASSUME NEW t \in S
      PROVE  t <= Nth(S, n)
  <2>1. t \in Int /\ Nth(S, n) \in Int
    BY <1>2
  <2> HIDE DEF n
  <2> QED
    BY <1>1, <1>3, <2>1
<1> QED
  BY <1>2, <1>4

\* The number at which the i-th message of an answer ends, exclusively.
UpTo(H, last, i) == IF i = Cardinality(H) THEN last + 1 ELSE Nth(H, i + 1)

\* The heads of a range, in order, begin with the first number asked for, leave no head
\* out between two of them, and a replayable one is directly followed by the next.
LEMMA HeadsWalk ==
  ASSUME NEW e, NEW begin \in Nat, NEW last \in Nat, 1 <= begin, begin <= last
  PROVE  LET H == Heads(e, begin, last)
             n == Cardinality(H)
         IN  /\ n \in Nat /\ n >= 1 /\ Nth(H, 1) = begin
             /\ \A s \in H : \E i \in 1..n : Nth(H, i) = s
             /\ \A i \in 1..n :
                  /\ Nth(H, i) \in H /\ Nth(H, i) \in begin..last
                  /\ UpTo(H, last, i) \in (Nth(H, i) + 1)..(last + 1)
                  /\ Replayable(e, Nth(H, i)) => UpTo(H, last, i) = Nth(H, i) + 1
                  /\ \A u \in Int : Nth(H, i) < u /\ u < UpTo(H, last, i) => u \notin H
<1> DEFINE H == Heads(e, begin, last)
           n == Cardinality(H)
<1>1. H \in SUBSET (begin..last) /\ begin \in H
  BY DEF Heads
<1>2. \A s \in begin..last : s \in H <=> s = begin \/ Replayable(e, s) \/ Replayable(e, s - 1)
  BY DEF Heads
<1> HIDE DEF H
<1>3. IsFiniteSet(H)
  <2>1. begin \in Int /\ last \in Int
    OBVIOUS
  <2>2. IsFiniteSet(begin..last)
    BY <2>1, FS_Interval
  <2> QED
    BY <1>1, <2>2, FS_Subset
<1>4. H \subseteq Int /\ \A s \in H : s \in Int /\ begin <= s /\ s <= last
  BY <1>1
<1>5. n \in Nat /\ n # 0
  BY <1>1, <1>3, FS_CardinalityType, FS_EmptySet
<1>6. /\ \A i \in 1..n : Nth(H, i) \in H /\ Rank(H, Nth(H, i)) = i
      /\ \A s \in H : Nth(H, Rank(H, s)) = s
      /\ \A i, j \in 1..n : i < j => Nth(H, i) < Nth(H, j)
  BY <1>3, <1>4, NthIs
<1>7. /\ \A s \in H : Rank(H, s) \in 1..n
      /\ \A s, t \in H : s < t => Rank(H, s) < Rank(H, t)
  BY <1>3, <1>4, RankGrows
<1>8. Nth(H, 1) = begin
  <2>1. 1 \in 1..n /\ Rank(H, begin) \in 1..n /\ Nth(H, Rank(H, begin)) = begin
    BY <1>1, <1>5, <1>6, <1>7
  <2>2. Rank(H, begin) # 1 => Nth(H, 1) < begin
    BY <2>1, <1>5, <1>6
  <2>3. Nth(H, 1) \in Int /\ begin <= Nth(H, 1)
    BY <2>1, <1>4, <1>6
  <2> QED
    BY <2>1, <2>2, <2>3
<1>9. ASSUME NEW i \in 1..n
      PROVE  /\ UpTo(H, last, i) \in (Nth(H, i) + 1)..(last + 1)
             /\ Replayable(e, Nth(H, i)) => UpTo(H, last, i) = Nth(H, i) + 1
             /\ \A u \in Int : Nth(H, i) < u /\ u < UpTo(H, last, i) => u \notin H
  <2> DEFINE s == Nth(H, i)
             t == UpTo(H, last, i)
  <2>1. s \in H /\ Rank(H, s) = i /\ s \in Int /\ begin <= s /\ s <= last
    BY <1>4, <1>6
  <2>2. CASE i = n
    <3>1. t = last + 1
      BY <2>2 DEF UpTo
    <3>2. \A u \in H : ~(s < u)
      BY <2>1, <2>2, <1>5, <1>7
    <3>3. Replayable(e, s) => s = last
      <4> SUFFICES ASSUME Replayable(e, s), s # last PROVE FALSE
        OBVIOUS
      <4>1. s + 1 \in begin..last /\ (s + 1) - 1 = s /\ s < s + 1
        BY <2>1
      <4> HIDE DEF s
      <4>2. s + 1 \in H
        BY <4>1, <1>2
      <4> QED
        BY <4>1, <4>2, <3>2
    <3> HIDE DEF s, t
    <3> QED
      BY <3>1, <3>2, <3>3, <2>1 DEF s, t
  <2>3. CASE i # n
    <3>1. t = Nth(H, i + 1) /\ i + 1 \in 1..n /\ i \in 1..n /\ i < i + 1
      BY <2>3, <1>5 DEF UpTo
    <3>2. t \in H /\ Rank(H, t) = i + 1 /\ t \in Int /\ t <= last /\ s < t
      BY <3>1, <1>4, <1>6
    <3> HIDE DEF s, t
    <3>3. ASSUME NEW u \in H, s < u, u < t PROVE FALSE
      <4>1. Rank(H, u) \in 1..n /\ i < Rank(H, u) /\ Rank(H, u) < i + 1
        BY <2>1, <3>2, <3>3, <1>7
      <4> QED
        BY <4>1
    <3>4. Replayable(e, s) => t = s + 1
      <4> SUFFICES ASSUME Replayable(e, s) PROVE t = s + 1
        OBVIOUS
      <4>1. s + 1 \in begin..last /\ (s + 1) - 1 = s /\ s < s + 1
        BY <2>1, <3>2
      <4>2. s + 1 \in H
        BY <4>1, <1>2
      <4> QED
        BY <4>1, <4>2, <3>2, <3>3, <2>1
    <3> QED
      BY <3>2, <3>3, <3>4, <2>1 DEF s, t
  <2> QED
    BY <2>2, <2>3
<1>10. \A s \in H : \E i \in 1..n : Nth(H, i) = s
  BY <1>6, <1>7
<1>11. \A i \in 1..n : Nth(H, i) \in H /\ Nth(H, i) \in begin..last
  BY <1>1, <1>6
<1>12. n >= 1
  BY <1>5
<1> QED
  BY <1>5, <1>8, <1>9, <1>10, <1>11, <1>12 DEF H

FixMsgs == {"Logon", "Logout", "App", "GapFill", "SequenceReset", "Heartbeat", "TestRequest",
            "ResendRequest", "Reject"}
MsgType == [type : FixMsgs, seq : Nat, dup : BOOLEAN, arg : Int, to : Int, fill : Nat,
            flag : BOOLEAN, own : BOOLEAN]

\* A message without options.
LEMMA MsgIs ==
  ASSUME NEW t \in FixMsgs, NEW n \in Nat
  PROVE  LET m == Msg(t, n)
         IN  /\ m \in MsgType /\ m.type = t /\ m.seq = n /\ m.fill = 0 /\ m.own
             /\ ~m.dup /\ ~m.flag /\ m.arg = 0
BY DEF Msg, MsgType

\* The number a receiver expects after a message of a replay.
After(m) == IF m.type = "App" THEN m.seq + 1 ELSE m.arg

\* What a message of a replay says is so: an application message can be replayed, and
\* nothing in the range of a GapFill can.
Faithful(e, m, last) ==
  /\ m.type \in {"App", "GapFill"} /\ m.own /\ m.dup /\ m.fill = 0
  /\ m.seq \in Nat /\ m.seq >= 1 /\ m.seq <= last
  /\ m.type = "App" <=> Replayable(e, m.seq)
  /\ m.type = "GapFill" => m.arg \in (m.seq + 1)..(last + 1)
                           /\ \A u \in m.seq..(m.arg - 1) : ~Replayable(e, u)

\* What an answer a to a request for the range from begin to last amounts to.
Walks(e, begin, last, a) ==
  /\ a \in Seq(MsgType) /\ \A i \in DOMAIN a : Faithful(e, a[i], last)
  /\ begin < 1 \/ begin > last => a = <<>>
  /\ begin >= 1 /\ begin <= last =>
       /\ Len(a) >= 1 /\ a[1].seq = begin /\ After(a[Len(a)]) = last + 1
       /\ \A i \in 2..Len(a) : a[i].seq = After(a[i - 1])
       /\ \A i \in DOMAIN a : a[i].seq >= begin
       /\ \A s \in begin..last : Replayable(e, s) => \E i \in DOMAIN a : a[i].seq = s

\* build_resend_response covers the range asked for without a hole, in order, and replays
\* what it can.
LEMMA ResponseWalks ==
  ASSUME NEW e, e.out \in Nat, NEW begin \in Int, NEW end \in Int
  PROVE  Walks(e, begin, LastAsked(e, end), BuildResendResponse(e, begin, end))
<1> DEFINE last == LastAsked(e, end)
           a == BuildResendResponse(e, begin, end)
           H == Heads(e, begin, last)
           n == Cardinality(H)
<1>1. last \in Int /\ last < e.out
  BY DEF LastAsked
<1>2. CASE begin < 1 \/ begin > last
  <2>1. a = <<>>
    BY <1>2 DEF BuildResendResponse
  <2> HIDE DEF a, last
  <2>2. a \in Seq(MsgType) /\ DOMAIN a = {}
    BY <2>1
  <2> QED
    BY <1>1, <1>2, <2>1, <2>2 DEF Walks, a, last
<1>3. CASE ~(begin < 1 \/ begin > last)
  <2> DEFINE app(i) == [Msg("App", Nth(H, i)) EXCEPT !.dup = TRUE]
             gap(i) == [Msg("GapFill", Nth(H, i)) EXCEPT
                          !.dup = TRUE, !.arg = UpTo(H, last, i)]
             m(i) == IF Replayable(e, Nth(H, i)) THEN app(i) ELSE gap(i)
  <2>1. a = [i \in 1..n |-> m(i)]
    BY <1>3 DEF BuildResendResponse, UpTo
  <2>2. begin \in Nat /\ last \in Nat /\ 1 <= begin /\ begin <= last
    BY <1>1, <1>3
  <2> HIDE DEF a, last, m
  <2>3. /\ n \in Nat /\ n >= 1 /\ Nth(H, 1) = begin
        /\ \A s \in H : \E i \in 1..n : Nth(H, i) = s
        /\ \A i \in 1..n :
             /\ Nth(H, i) \in H /\ Nth(H, i) \in begin..last
             /\ UpTo(H, last, i) \in (Nth(H, i) + 1)..(last + 1)
             /\ Replayable(e, Nth(H, i)) => UpTo(H, last, i) = Nth(H, i) + 1
             /\ \A u \in Int : Nth(H, i) < u /\ u < UpTo(H, last, i) => u \notin H
    BY <2>2, HeadsWalk
  <2>4. \A u \in begin..last : Replayable(e, u) => u \in H
    BY <2>2 DEF Heads
  <2>m. a = [i \in 1..n |-> m(i)] /\ DOMAIN a = 1..n
    BY <2>1
  <2> HIDE DEF H, n
  <2>5. ASSUME NEW i \in 1..n
        PROVE  /\ m(i) \in MsgType /\ Faithful(e, m(i), last)
               /\ m(i).seq = Nth(H, i) /\ After(m(i)) = UpTo(H, last, i)
    <3> DEFINE s == Nth(H, i)
               t == UpTo(H, last, i)
    <3>1. /\ s \in Int /\ begin <= s /\ s <= last /\ t \in Int /\ s < t /\ t <= last + 1
          /\ Replayable(e, s) => t = s + 1
          /\ \A u \in Int : s < u /\ u < t => u \notin H
      BY <2>2, <2>3
    <3> HIDE DEF s, t
    <3>2. s \in Nat /\ s >= 1 /\ t \in (s + 1)..(last + 1)
      BY <2>2, <3>1
    <3>3. CASE Replayable(e, s)
      <4>1. m(i) = [type |-> "App", seq |-> s, dup |-> TRUE, arg |-> 0, to |-> 0, fill |-> 0,
                    flag |-> FALSE, own |-> TRUE]
        BY <3>3 DEF m, s, Msg
      <4>2. m(i) \in MsgType
        BY <4>1, <3>2 DEF MsgType, FixMsgs
      <4> QED
        BY <4>1, <4>2, <3>1, <3>2, <3>3 DEF Faithful, After, s, t
    <3>4. CASE ~Replayable(e, s)
      <4>1. m(i) = [type |-> "GapFill", seq |-> s, dup |-> TRUE, arg |-> t, to |-> 0,
                    fill |-> 0, flag |-> FALSE, own |-> TRUE]
        BY <3>4 DEF m, s, t, Msg
      <4>2. m(i) \in MsgType
        BY <4>1, <3>1, <3>2 DEF MsgType, FixMsgs
      <4>3. ASSUME NEW u \in s..(t - 1) PROVE ~Replayable(e, u)
        <5>1. u \in Int /\ s <= u /\ u < t /\ u \in begin..last
          BY <3>1, <2>2
        <5>2. u = s \/ u \notin H
          BY <5>1, <3>1
        <5> QED
          BY <5>1, <5>2, <3>4, <2>4
      <4> HIDE DEF m
      <4> QED
        BY <4>1, <4>2, <4>3, <3>1, <3>2, <3>4 DEF Faithful, After, s, t
    <3> QED
      BY <3>3, <3>4
  <2>6. a \in Seq(MsgType) /\ Len(a) = n
    BY <2>m, <2>3, <2>5
  <2>7. \A i \in 1..n : /\ a[i] = m(i) /\ a[i].seq = Nth(H, i) /\ Faithful(e, a[i], last)
                        /\ After(a[i]) = UpTo(H, last, i)
    BY <2>m, <2>5
  <2> HIDE DEF m
  <2>8. /\ a[1].seq = begin /\ After(a[n]) = last + 1
        /\ \A i \in 1..n : a[i].seq >= begin
    BY <2>2, <2>3, <2>7 DEF UpTo, n
  <2>9. ASSUME NEW i \in 2..n PROVE a[i].seq = After(a[i - 1])
    <3>1. i - 1 \in 1..n /\ i \in 1..n /\ i - 1 # n /\ (i - 1) + 1 = i
      BY <2>3
    <3>2. UpTo(H, last, i - 1) = Nth(H, i)
      BY <3>1 DEF UpTo, n
    <3> QED
      BY <3>1, <3>2, <2>7
  <2>10. \A s \in begin..last : Replayable(e, s) => \E i \in 1..n : a[i].seq = s
    BY <2>3, <2>4, <2>7
  <2> QED
    BY <1>1, <1>3, <2>2, <2>3, <2>m, <2>6, <2>7, <2>8, <2>9, <2>10 DEF Walks, a, last
<1> QED
  BY <1>2, <1>3

EngType == [state : FixStates, out : Nat \ {0}, expect : Nat \ {0},
            sent : SUBSET [seq : Nat, app : BOOLEAN], probe : BOOLEAN]

\* What the resend buffer has to hold: the last ResendBufferSize messages, those numbered
\* in Q as orders.
Retained(out) == {s \in 1..(out - 1) : s >= out - ResendBufferSize}
Entry(Q, s) == [seq |-> s, app |-> s \in Q]
Sound(e, Q) ==
  /\ e \in EngType /\ Q \subseteq 1..(e.out - 1)
  /\ e.sent = {Entry(Q, s) : s \in Retained(e.out)}

\* create_outbound_msg keeps the buffer exact: the trim drops the one message that is now
\* too old, because the numbers in the buffer have no hole.
LEMMA CreateIs ==
  ASSUME NEW e, NEW Q, NEW type, Sound(e, Q)
  PROVE  LET c == CreateOutbound(e, type)
         IN  /\ Sound(c, IF type = "App" THEN Q \cup {e.out} ELSE Q)
             /\ c.out = e.out + 1 /\ c.expect = e.expect /\ c.state = e.state
             /\ c.probe = e.probe
<1> DEFINE k == ResendBufferSize
           out == e.out
           P == IF type = "App" THEN Q \cup {out} ELSE Q
           new == [seq |-> out, app |-> type = "App"]
           S == e.sent \cup {new}
           above(s) == {n \in S : n.seq >= s}
           c == CreateOutbound(e, type)
           R == Retained(out) \cup {out}
<1>1. /\ out \in Nat /\ out >= 1 /\ k \in Nat /\ k >= 1
      /\ Q \subseteq 1..(out - 1) /\ e.sent = {Entry(Q, s) : s \in Retained(out)}
  BY FixAssumption DEF Sound, EngType
<1>2. c = [e EXCEPT !.out = out + 1, !.sent = TrimResendBuffer(S)]
  BY DEF CreateOutbound
<1>3. \A s \in Retained(out) : s \in Int /\ 1 <= s /\ s < out /\ s >= out - k
  BY <1>1 DEF Retained
<1>4. \A s \in R : s \in Int /\ 1 <= s /\ s <= out
  BY <1>1, <1>3
<1>5. out \notin Q /\ P \subseteq 1..out
  <2>1. \A q \in Q : q \in 1..(out - 1)
    BY <1>1
  <2>2. \A q \in Q : q \in 1..out /\ q # out
    BY <1>1, <2>1
  <2>3. out \in 1..out /\ P \subseteq Q \cup {out}
    BY <1>1
  <2> HIDE DEF P, out
  <2> QED
    BY <2>2, <2>3
<1>6. \A s \in Retained(out) : Entry(P, s) = Entry(Q, s)
  BY <1>3, <1>1 DEF Entry
<1>7. Entry(P, out) = new
  BY <1>5 DEF Entry
<1>8. S = {Entry(P, s) : s \in R}
  BY <1>1, <1>6, <1>7
<1>9. \A s : Entry(P, s).seq = s
  BY DEF Entry
<1>10. \A s \in R : \A u \in s..out : u \in R
  BY <1>1, <1>3 DEF Retained
<1> HIDE DEF S, R, P, new, k, out, c
<1>11. ASSUME NEW s \in R PROVE Cardinality(above(s)) = out - s + 1
  <2> DEFINE f == [u \in s..out |-> Entry(P, u)]
             T == above(s)
  <2>1. s \in Int /\ s <= out /\ out \in Int
    BY <1>1, <1>4
  <2>2. \A u \in s..out : u \in R /\ Entry(P, u) \in S /\ Entry(P, u).seq >= s
    BY <2>1, <1>8, <1>9, <1>10
  <2>3. f \in [s..out -> T]
    BY <2>2
  <2>4. \A u, v \in s..out : f[u] = f[v] => u = v
    BY <1>9
  <2>5. \A n \in T : \E u \in s..out : f[u] = n
    <3> TAKE n \in T
    <3>1. n \in S /\ n.seq >= s
      OBVIOUS
    <3>2. PICK u \in R : n = Entry(P, u)
      BY <3>1, <1>8
    <3>3. u \in s..out
      BY <3>1, <3>2, <1>4, <1>9, <2>1
    <3> QED
      BY <3>2, <3>3
  <2> HIDE DEF T, f
  <2>6. DOMAIN f = s..out
    BY <2>3
  <2>7. f \in Bijection(s..out, T)
    BY <2>3, <2>4, <2>5, <2>6 DEF Bijection, Injection, Surjection, IsInjective
  <2>8. IsFiniteSet(s..out) /\ Cardinality(s..out) = out - s + 1
    BY <2>1, FS_Interval
  <2>9. ExistsBijection(s..out, T)
    BY <2>7 DEF ExistsBijection
  <2>10. Cardinality(T) = Cardinality(s..out)
    BY <2>8, <2>9, FS_Bijection
  <2> QED
    BY <2>8, <2>10 DEF T
<1>12. TrimResendBuffer(S) = {m \in S : Cardinality(above(m.seq)) <= k}
  BY DEF TrimResendBuffer, k
<1>13. ASSUME NEW s \in R PROVE Cardinality(above(s)) <= k <=> s \in Retained(out + 1)
  <2>1. Cardinality(above(s)) <= k <=> out - s + 1 <= k
    BY <1>11
  <2>2. s \in Int /\ 1 <= s /\ s <= out
    BY <1>4
  <2>3. s \in Retained(out + 1) <=> s >= out + 1 - k
    BY <2>2, <1>1 DEF Retained, k
  <2> HIDE DEF above
  <2> QED
    BY <2>1, <2>2, <2>3, <1>1
<1>14. Retained(out + 1) \subseteq R
  BY <1>1 DEF Retained, R, k
<1>15. TrimResendBuffer(S) = {Entry(P, s) : s \in Retained(out + 1)}
  <2> HIDE DEF above
  <2>1. \A m \in TrimResendBuffer(S) : \E s \in Retained(out + 1) : m = Entry(P, s)
    BY <1>8, <1>9, <1>12, <1>13
  <2>2. \A s \in Retained(out + 1) : Entry(P, s) \in TrimResendBuffer(S)
    BY <1>8, <1>9, <1>12, <1>13, <1>14
  <2> QED
    BY <2>1, <2>2
<1>16. TrimResendBuffer(S) \in SUBSET [seq : Nat, app : BOOLEAN]
  <2>1. \A s \in Retained(out + 1) : s \in Nat /\ Entry(P, s) \in [seq : Nat, app : BOOLEAN]
    BY <1>4, <1>14 DEF Entry
  <2> QED
    BY <2>1, <1>15
<1>17. /\ c \in EngType /\ c.out = out + 1 /\ c.sent = TrimResendBuffer(S)
       /\ c.expect = e.expect /\ c.state = e.state /\ c.probe = e.probe
  <2>1. e \in EngType /\ out + 1 \in Nat \ {0}
    BY <1>1 DEF Sound
  <2> QED
    BY <1>2, <1>16, <2>1 DEF EngType
<1>18. P \subseteq 1..(c.out - 1)
  BY <1>1, <1>5, <1>17
<1> QED
  BY <1>15, <1>17, <1>18 DEF Sound, P, c, out

\* An administrative message is no order: the numbers of the orders stay.
LEMMA AdminIs ==
  ASSUME NEW e, NEW Q, NEW type, type # "App", Sound(e, Q)
  PROVE  /\ Sound(CreateOutbound(e, type), Q)
         /\ CreateOutbound(e, type).expect = e.expect
<1> DEFINE c == CreateOutbound(e, type)
           P == IF type = "App" THEN Q \cup {e.out} ELSE Q
<1>1. Sound(c, P) /\ c.expect = e.expect
  BY CreateIs, Zenon
<1>2. P = Q
  OBVIOUS
<1> HIDE DEF P
<1> QED
  BY <1>1, <1>2, Zenon

\* An engine that differs in state, expected number and probe only is as sound.
LEMMA SoundStays ==
  ASSUME NEW e, NEW Q, Sound(e, Q), NEW d \in EngType, d.out = e.out, d.sent = e.sent
  PROVE  Sound(d, Q)
BY DEF Sound

\* What follows from an outcome: the engine stays sound, only demands reach the venue.
Demanded(rs) ==
  /\ rs \in Seq(MsgType)
  /\ \A i \in DOMAIN rs : rs[i].type \in {"ResendRequest", "Logout"}
Proper(o, Q) == Sound(o.eng, Q) /\ Demanded(Demands(o.responses)) /\ o.through \in BOOLEAN

\* No message is made of an outcome without responses.
LEMMA SilentIs ==
  ASSUME NEW e, NEW Q, NEW th \in BOOLEAN, Sound(e, Q)
  PROVE  LET o == Outcome(e, <<>>, th)
         IN  Proper(o, Q) /\ o.eng = e /\ o.through = th
<1> DEFINE o == Outcome(e, <<>>, th)
<1>1. o.eng = e /\ o.responses = <<>> /\ o.through = th
  BY DEF Outcome
<1>2. Demands(<<>>) = <<>>
  BY DEF Demands
<1>3. Demanded(<<>>)
  BY DEF Demanded
<1> QED
  BY <1>1, <1>2, <1>3 DEF Proper

\* The engine creates one administrative message: one number is consumed, the expected
\* number stays.
LEMMA AnswerIs ==
  ASSUME NEW e, NEW Q, NEW s \in FixStates, NEW m \in MsgType, m.type # "App", Sound(e, Q)
  PROVE  LET o == Answer(e, s, m)
         IN  Proper(o, Q) /\ ~o.through /\ o.eng.expect = e.expect /\ o.eng.state = s
<1> DEFINE c == CreateOutbound(e, m.type)
           d == [c EXCEPT !.state = s]
           o == Answer(e, s, m)
<1>1. Sound(c, Q) /\ c.expect = e.expect
  BY AdminIs, Zenon
<1> HIDE DEF c
<1>2. c \in EngType
  BY <1>1 DEF Sound
<1>3. d \in EngType /\ d.out = c.out /\ d.sent = c.sent /\ d.expect = c.expect /\ d.state = s
  BY <1>2 DEF EngType
<1>4. o.eng = d /\ o.responses = <<m>> /\ o.through = FALSE
  BY DEF Answer, Outcome, c
<1> HIDE DEF d, o
<1>5. Sound(d, Q)
  BY <1>1, <1>3, SoundStays
<1>6. \/ Demands(<<m>>) = <<m>> /\ m.type \in {"ResendRequest", "Logout"}
      \/ Demands(<<m>>) = <<>>
  BY DEF Demands
<1>7. Demanded(Demands(<<m>>))
  <2>1. CASE Demands(<<m>>) = <<m>> /\ m.type \in {"ResendRequest", "Logout"}
    <3>1. <<m>> \in Seq(MsgType) /\ \A i \in DOMAIN <<m>> : <<m>>[i] = m
      OBVIOUS
    <3> QED
      BY <2>1, <3>1 DEF Demanded
  <2>2. CASE Demands(<<m>>) = <<>>
    BY <2>2 DEF Demanded
  <2> QED
    BY <1>6, <2>1, <2>2
<1>8. Proper(o, Q)
  BY <1>4, <1>5, <1>7 DEF Proper
<1> QED
  BY <1>1, <1>3, <1>4, <1>8 DEF o

\* The three messages the engine creates on its own account.
LEMMA CreatedAre ==
  ASSUME NEW e, NEW Q, Sound(e, Q)
  PROVE  \A o \in {SendLogout(e), SendReject(e), RequestResend(e),
                   Answer(e, e.state, Msg("Heartbeat", e.out))} :
           Proper(o, Q) /\ ~o.through /\ o.eng.expect = e.expect
<1>1. e.out \in Nat /\ e.expect \in Int /\ e.state \in FixStates
  BY DEF Sound, EngType
<1>2. \A t \in FixMsgs : Msg(t, e.out) \in MsgType /\ Msg(t, e.out).type = t
  BY <1>1 DEF Msg, MsgType
<1> DEFINE r == [Msg("ResendRequest", e.out) EXCEPT !.arg = e.expect]
<1>3. r \in MsgType /\ r.type = "ResendRequest"
  <2>1. Msg("ResendRequest", e.out) \in MsgType
        /\ Msg("ResendRequest", e.out).type = "ResendRequest"
    BY <1>2 DEF FixMsgs
  <2> QED
    BY <2>1, <1>1 DEF MsgType
<1>4. /\ "LOGOUT_SENT" \in FixStates /\ "RESEND_REQUEST_SENT" \in FixStates
      /\ {"Logout", "Reject", "Heartbeat"} \subseteq FixMsgs
  BY DEF FixStates, FixMsgs
<1> DEFINE Good(o) == Proper(o, Q) /\ ~o.through /\ o.eng.expect = e.expect
<1>5. Good(SendLogout(e))
  BY <1>2, <1>4, AnswerIs DEF SendLogout
<1>6. Good(SendReject(e))
  BY <1>1, <1>2, <1>4, AnswerIs DEF SendReject
<1>7. Good(Answer(e, e.state, Msg("Heartbeat", e.out)))
  BY <1>1, <1>2, <1>4, AnswerIs
<1>8. Good(RequestResend(e))
  <2>1. RequestResend(e) = Answer(e, "RESEND_REQUEST_SENT", r)
    BY DEF RequestResend
  <2> HIDE DEF r
  <2> QED
    BY <2>1, <1>3, <1>4, AnswerIs
<1> QED
  BY <1>5, <1>6, <1>7, <1>8

\* How one message may move the expected number, and when it reaches the application.
Moves(e, m, o) ==
  \/ o.eng.expect = e.expect /\ ~o.through
  \/ /\ m.own /\ m.type = "SequenceReset" /\ e.expect < m.arg
     /\ o.eng.expect = m.arg /\ ~o.through
  \/ /\ m.own /\ m.type = "GapFill" /\ m.seq = e.expect /\ e.expect < m.arg
     /\ o.eng.expect = m.arg /\ ~o.through
  \/ /\ m.own /\ m.type \notin {"SequenceReset", "GapFill"} /\ m.seq = e.expect
     /\ o.eng.expect = e.expect + 1 /\ (o.through <=> m.type = "App")

Processed(e, Q, m, o) == Proper(o, Q) /\ Moves(e, m, o)

\* A message that changes nothing, or that is answered by a message of the engine's own.
LEMMA StaysPut ==
  ASSUME NEW e, NEW Q, Sound(e, Q), NEW m
  PROVE  /\ Processed(e, Q, m, Silent(e)) /\ Processed(e, Q, m, SendLogout(e))
         /\ Processed(e, Q, m, SendReject(e)) /\ Processed(e, Q, m, RequestResend(e))
<1>1. Processed(e, Q, m, Silent(e))
  BY SilentIs DEF Silent, Processed, Moves
<1> QED
  BY <1>1, CreatedAre DEF Processed, Moves

\* _handle_logon, for a Logon that asks for a reset only of an engine that begins anew.
LEMMA LogonIs ==
  ASSUME NEW e, NEW Q, Sound(e, Q), NEW m \in MsgType, m.own, m.type = "Logon", ~m.dup,
         m.flag => e.expect = 1
  PROVE  Processed(e, Q, m, HandleLogon(e, m))
<1> DEFINE b  == IF m.flag THEN [e EXCEPT !.expect = 1] ELSE e
           on == [e EXCEPT !.state = "LOGGED_IN", !.probe = FALSE]
           next == [on EXCEPT !.expect = m.seq + 1]
<1>1. e \in EngType /\ e.expect \in Nat /\ m.seq \in Nat
  BY DEF Sound, EngType, MsgType
<1>2. b = e
  <2>1. e.expect = 1 => [e EXCEPT !.expect = 1] = e
    BY <1>1 DEF EngType
  <2> QED
    BY <2>1
<1>3. on \in EngType /\ on.out = e.out /\ on.sent = e.sent /\ on.expect = e.expect
  BY <1>1 DEF EngType, FixStates
<1>4. next \in EngType /\ next.out = on.out /\ next.sent = on.sent /\ next.expect = m.seq + 1
  <2>1. m.seq + 1 \in Nat \ {0}
    BY <1>1
  <2> HIDE DEF on
  <2> QED
    BY <2>1, <1>3 DEF EngType
<1>5. HandleLogon(e, m) = IF m.seq < e.expect THEN SendLogout(e)
                          ELSE IF m.seq > e.expect
                          THEN IF AutoResendOnGap THEN RequestResend(on) ELSE Silent(on)
                          ELSE Silent(next)
  BY <1>2 DEF HandleLogon
<1> HIDE DEF on, next
<1>6. Sound(on, Q) /\ Sound(next, Q)
  BY <1>3, <1>4, SoundStays
<1>7. /\ Proper(RequestResend(on), Q) /\ ~RequestResend(on).through
      /\ RequestResend(on).eng.expect = e.expect
  BY <1>3, <1>6, CreatedAre
<1>8. /\ Proper(Silent(on), Q) /\ ~Silent(on).through /\ Silent(on).eng = on
      /\ Proper(Silent(next), Q) /\ ~Silent(next).through /\ Silent(next).eng = next
  BY <1>6, SilentIs DEF Silent
<1>9. CASE m.seq < e.expect
  BY <1>5, <1>9, StaysPut
<1>10. CASE m.seq > e.expect
  BY <1>1, <1>3, <1>5, <1>7, <1>8, <1>10 DEF Processed, Moves
<1>11. CASE m.seq = e.expect
  BY <1>1, <1>4, <1>5, <1>8, <1>11 DEF Processed, Moves
<1> QED
  BY <1>1, <1>9, <1>10, <1>11

\* The expected number moves to a NewSeqNo.
LEMMA ResynchronizedIs ==
  ASSUME NEW e, NEW Q, Sound(e, Q), NEW x \in Nat \ {0}
  PROVE  /\ Proper(Silent(Resynchronized(e, x)), Q) /\ ~Silent(Resynchronized(e, x)).through
         /\ Silent(Resynchronized(e, x)).eng.expect = x
<1> DEFINE d == Resynchronized(e, x)
<1>1. e \in EngType
  BY DEF Sound
<1>2. d \in EngType /\ d.out = e.out /\ d.sent = e.sent /\ d.expect = x
  BY <1>1 DEF EngType, Resynchronized, FixStates
<1> HIDE DEF d
<1>3. Sound(d, Q)
  BY <1>2, SoundStays
<1> QED
  BY <1>2, <1>3, SilentIs DEF Silent, d

\* _handle_in_sequence, by the type of the message.
LEMMA InSequenceIs ==
  ASSUME NEW e, NEW Q, Sound(e, Q), NEW m \in MsgType, m.own,
         m.type \notin {"Logon", "SequenceReset"}, m.seq = e.expect
  PROVE  Processed(e, Q, m, HandleInSequence(e, m))
<1> DEFINE next == [e EXCEPT !.expect = m.seq + 1]
           o == HandleInSequence(e, m)
<1>1. e \in EngType /\ e.expect \in Nat /\ e.expect >= 1 /\ m.seq \in Nat /\ m.arg \in Int
      /\ m.to \in Int /\ e.out \in Nat /\ e.state \in FixStates
  BY DEF Sound, EngType, MsgType
<1>2. /\ next \in EngType /\ next.out = e.out /\ next.sent = e.sent
      /\ next.expect = e.expect + 1 /\ next.state = e.state
  BY <1>1 DEF EngType
<1>3. Sound(next, Q)
  BY <1>2, SoundStays
<1> DEFINE Good(r) == Proper(r, Q) /\ ~r.through /\ r.eng.expect = e.expect + 1
<1> HIDE DEF next
<1>4. CASE m.type = "GapFill"
  <2>1. o = IF m.arg <= e.expect THEN SendReject(e) ELSE Silent(Resynchronized(e, m.arg))
    BY <1>4 DEF HandleInSequence
  <2>2. CASE m.arg <= e.expect
    BY <2>1, <2>2, StaysPut
  <2>3. CASE ~(m.arg <= e.expect)
    <3>1. m.arg \in Nat \ {0} /\ e.expect < m.arg
      BY <1>1, <2>3
    <3> QED
      BY <1>4, <2>1, <2>3, <3>1, ResynchronizedIs DEF Processed, Moves
  <2> QED
    BY <2>2, <2>3
<1>5. CASE m.type = "TestRequest"
  <2>1. o = Answer(next, next.state, Msg("Heartbeat", next.out))
    BY <1>2, <1>5 DEF HandleInSequence, next
  <2>2. Good(o)
    BY <2>1, <1>2, <1>3, CreatedAre
  <2> QED
    BY <1>5, <2>2 DEF Processed, Moves
<1>6. CASE m.type = "Heartbeat"
  <2> DEFINE d == [next EXCEPT !.probe = IF m.flag THEN FALSE ELSE @]
  <2>1. o = Silent(d)
    BY <1>6 DEF HandleInSequence, next
  <2>2. d \in EngType /\ d.out = next.out /\ d.sent = next.sent /\ d.expect = next.expect
    BY <1>2 DEF EngType
  <2> HIDE DEF d
  <2>3. Sound(d, Q)
    BY <1>3, <2>2, SoundStays
  <2>4. Good(o)
    BY <2>1, <2>2, <2>3, <1>2, SilentIs DEF Silent
  <2> QED
    BY <1>6, <2>4 DEF Processed, Moves
<1>7. CASE m.type = "ResendRequest"
  <2> DEFINE a == BuildResendResponse(next, m.arg, m.to)
  <2>1. o = IF m.arg = NotANumber THEN SendReject(next) ELSE Outcome(next, a, FALSE)
    BY <1>7 DEF HandleInSequence, next
  <2>2. Good(SendReject(next))
    BY <1>2, <1>3, CreatedAre
  <2>3. \A i \in DOMAIN a : Faithful(next, a[i], LastAsked(next, m.to))
    BY <1>1, <1>2, ResponseWalks DEF Walks
  <2>4. Demands(a) = <<>>
    BY <2>3 DEF Faithful, Demands
  <2>5. Demanded(Demands(a))
    BY <2>4 DEF Demanded
  <2> HIDE DEF a
  <2>6. Good(Outcome(next, a, FALSE))
    BY <1>2, <1>3, <2>5 DEF Outcome, Proper
  <2> QED
    BY <1>7, <2>1, <2>2, <2>6 DEF Processed, Moves
<1>8. CASE m.type = "Logout"
  <2> DEFINE acked == IF e.state = "LOGOUT_SENT" THEN Silent(next) ELSE SendLogout(next)
             d == [acked.eng EXCEPT !.state = "DISCONNECTED"]
  <2>1. o = [acked EXCEPT !.eng.state = "DISCONNECTED"]
    BY <1>8 DEF HandleInSequence, next
  <2>2. Good(acked)
    BY <1>2, <1>3, CreatedAre, SilentIs DEF Silent
  <2>3. /\ acked \in [eng : {acked.eng}, responses : {acked.responses}, through : {acked.through}]
    BY DEF Silent, SendLogout, Answer, Outcome
  <2> HIDE DEF acked
  <2>4. o.eng = d /\ o.responses = acked.responses /\ o.through = acked.through
    BY <2>1, <2>3
  <2>5. acked.eng \in EngType /\ Sound(acked.eng, Q)
    BY <2>2 DEF Proper, Sound
  <2>6. /\ d \in EngType /\ d.out = acked.eng.out /\ d.sent = acked.eng.sent
        /\ d.expect = acked.eng.expect
    BY <2>5 DEF EngType, FixStates
  <2> HIDE DEF d
  <2>7. Sound(d, Q)
    BY <2>5, <2>6, SoundStays
  <2>8. Good(o)
    BY <2>2, <2>4, <2>6, <2>7 DEF Proper
  <2> QED
    BY <1>8, <2>8 DEF Processed, Moves
<1>9. CASE m.type \in {"App", "Reject"}
  <2>1. o = Outcome(next, <<>>, m.type = "App")
    BY <1>9 DEF HandleInSequence, next
  <2>2. Proper(o, Q) /\ o.eng = next /\ o.through = (m.type = "App")
    BY <2>1, <1>3, SilentIs
  <2> QED
    BY <1>2, <1>9, <2>2 DEF Processed, Moves
<1>10. m.type \in FixMsgs
  BY DEF MsgType
<1> QED
  BY <1>4, <1>5, <1>6, <1>7, <1>8, <1>9, <1>10 DEF FixMsgs

\* process_inbound_msg: whatever comes in, the engine stays sound, and the expected number
\* moves, and a message reaches the application, in these four ways only.
LEMMA ProcessIs ==
  ASSUME NEW e, NEW Q, Sound(e, Q), NEW m \in MsgType,
         m.own /\ m.type = "Logon" => ~m.dup /\ (m.flag => e.expect = 1)
  PROVE  Processed(e, Q, m, Process(e, m))
<1>1. e.expect \in Nat /\ m.seq \in Nat /\ m.arg \in Int /\ e.expect >= 1
  BY DEF Sound, EngType, MsgType
<1>2. CASE m.own /\ m.type = "Logon"
  BY <1>2, LogonIs, StaysPut DEF Process
<1>3. CASE m.own /\ m.type = "SequenceReset"
  <2>1. Processed(e, Q, m, HandleSequenceResetMode(e, m))
    <3>1. CASE m.arg = NotANumber \/ m.arg <= e.expect
      BY <3>1, StaysPut DEF HandleSequenceResetMode
    <3>2. CASE ~(m.arg = NotANumber \/ m.arg <= e.expect)
      <4>1. m.arg \in Nat \ {0} /\ e.expect < m.arg
        BY <1>1, <3>2
      <4> QED
        BY <1>3, <3>2, <4>1, ResynchronizedIs DEF HandleSequenceResetMode, Processed, Moves
    <3> QED
      BY <3>1, <3>2
  <2> QED
    BY <1>3, <2>1, StaysPut DEF Process
<1>4. CASE m.own /\ m.type \notin {"Logon", "SequenceReset"}
  <2>1. Processed(e, Q, m, HandleGap(e))
    BY StaysPut DEF HandleGap
  <2>2. m.seq = e.expect => Processed(e, Q, m, HandleInSequence(e, m))
    BY <1>4, InSequenceIs
  <2>3. m.seq < e.expect \/ m.seq = e.expect \/ m.seq > e.expect
    BY <1>1
  <2>4. m.seq = e.expect => ~(m.seq < e.expect) /\ ~(m.seq > e.expect)
    BY <1>1
  <2> QED
    BY <1>4, <2>1, <2>2, <2>3, <2>4, StaysPut DEF Process
<1>5. CASE ~m.own
  BY <1>5, StaysPut DEF Process
<1> QED
  BY <1>2, <1>3, <1>4, <1>5

-----------------------------------------------------------------------------
FixTyped ==
  /\ Sound(eng, orderSeqs) /\ conn \in {"down", "up", "on"}
  /\ inbound \in Seq(MsgType) /\ outbound \in Seq(MsgType)
  /\ fills \in Nat /\ history \in Seq(0..fills) /\ applied \in Seq(1..fills)
  /\ jumped \subseteq 1..fills
  /\ fixBudget \in [connects : Nat, orders : Nat, admin : Nat, resetting : BOOLEAN]

\* The connection: nothing comes in before the venue has accepted the Logon, which is
\* all that goes out until then, and a reset that was asked for keeps the engine at 1.
LinkInv ==
  /\ conn # "on" => inbound = <<>>
  /\ conn = "down" => outbound = <<>>
  /\ conn = "up" =>
       /\ Len(outbound) = 1 /\ outbound[1].type = "Logon"
       /\ outbound[1].flag = fixBudget.resetting
       /\ eng.state = "LOGON_SENT"
  /\ conn = "on" =>
       /\ ~fixBudget.resetting
       /\ \A i \in DOMAIN outbound : outbound[i].type \in {"ResendRequest", "Logout", "TestRequest"}
  /\ fixBudget.resetting => eng.expect = 1

\* The venue numbers its fills upwards, and the engine expects no number beyond the next.
HistoryInv ==
  /\ \A s, t \in 1..Len(history) :
       s < t /\ history[s] # 0 /\ history[t] # 0 => history[s] < history[t]
  /\ eng.expect <= Len(history) + 1

\* What a message of the venue says of its history h is so.
Truthful(h, m) ==
  /\ m.type = "App" => m.seq \in 1..Len(h) /\ m.fill = h[m.seq] /\ m.fill # 0
  /\ m.type = "GapFill" =>
       m.seq >= 1 /\ m.arg <= Len(h) + 1 /\ \A t \in m.seq..(m.arg - 1) : h[t] = 0
  /\ m.type = "SequenceReset" => m.arg <= Len(h) + 1
  /\ m.type \notin {"App", "GapFill", "SequenceReset"} => m.seq \in 1..Len(h) /\ h[m.seq] = 0
  /\ m.type = "Logon" => ~m.dup

\* Everything on its way to the engine is truthful, however late it arrives, and a Logon
\* that confirms a reset arrives first, before the engine has moved.
InboundInv ==
  \A i \in 1..Len(inbound) :
    /\ inbound[i].own => Truthful(history, inbound[i])
    /\ inbound[i].type = "Logon" /\ inbound[i].flag => i = 1 /\ eng.expect = 1

\* Fills are applied upwards; those below the expected number are applied or given up, and
\* those from there on come after all that was applied.
AppliedInv ==
  /\ \A i, j \in 1..Len(applied) : i < j => applied[i] < applied[j]
  /\ \A s \in 1..Len(history) : s < eng.expect /\ history[s] # 0 =>
       history[s] \in jumped \/ \E i \in 1..Len(applied) : applied[i] = history[s]
  /\ ~fixBudget.resetting =>
       \A s \in 1..Len(history) : s >= eng.expect /\ history[s] # 0 =>
         \A i \in 1..Len(applied) : applied[i] < history[s]

\* The inductive invariant of the session.
FixInv == FixTyped /\ LinkInv /\ HistoryInv /\ InboundInv /\ AppliedInv

\* What was truthful stays so when the venue numbers another message.
LEMMA TruthExtends ==
  ASSUME NEW h \in Seq(Nat), NEW x \in Nat, NEW m \in MsgType, Truthful(h, m)
  PROVE  Truthful(Append(h, x), m)
<1> DEFINE g == Append(h, x)
<1>1. Len(h) \in Nat /\ Len(g) = Len(h) + 1 /\ \A i \in 1..Len(h) : g[i] = h[i]
  BY AppendProperties
<1> HIDE DEF g
<1>2. m.seq \in Nat /\ m.arg \in Int
  BY DEF MsgType
<1>3. m.seq \in 1..Len(h) => m.seq \in 1..Len(g) /\ g[m.seq] = h[m.seq]
  BY <1>1, <1>2
<1>4. m.type = "GapFill" => \A t \in m.seq..(m.arg - 1) : g[t] = 0
  <2> SUFFICES ASSUME m.type = "GapFill", NEW t \in m.seq..(m.arg - 1) PROVE g[t] = 0
    OBVIOUS
  <2>1. m.seq >= 1 /\ m.arg <= Len(h) + 1 /\ h[t] = 0
    BY DEF Truthful
  <2>2. t \in 1..Len(h)
    BY <1>1, <1>2, <2>1
  <2> QED
    BY <1>1, <2>1, <2>2
<1>5. m.arg <= Len(h) + 1 => m.arg <= Len(g) + 1
  BY <1>1, <1>2
<1> QED
  BY <1>3, <1>4, <1>5 DEF Truthful, g

\* The venue numbers a message: an administrative one, or its next fill.
Numbers == \/ history' = history /\ fills' = fills
           \/ history' = Append(history, 0) /\ fills' = fills
           \/ history' = Append(history, fills + 1) /\ fills' = fills + 1

\* The history grows at its end, which neither what was applied nor what is on its way
\* can have reached.
LEMMA NumbersKeeps ==
  ASSUME FixInv, Numbers, UNCHANGED <<eng, applied, jumped>>,
         fixBudget'.resetting = fixBudget.resetting
  PROVE  /\ fills' \in Nat /\ history' \in Seq(0..fills') /\ applied' \in Seq(1..fills')
         /\ jumped' \subseteq 1..fills' /\ HistoryInv' /\ AppliedInv'
         /\ \A m \in MsgType : Truthful(history, m) => Truthful(history', m)
<1>1. /\ fills \in Nat /\ history \in Seq(0..fills) /\ applied \in Seq(1..fills)
      /\ jumped \subseteq 1..fills /\ eng.expect \in Nat
  BY DEF FixInv, FixTyped, Sound, EngType
<1>2. /\ Len(history) \in Nat /\ \A s \in 1..Len(history) : history[s] \in 0..fills
      /\ Len(applied) \in Nat /\ \A s \in 1..Len(applied) : applied[s] \in 1..fills
  BY <1>1
<1>3. fills' \in Nat /\ (0..fills) \subseteq (0..fills') /\ (1..fills) \subseteq (1..fills')
  BY <1>1 DEF Numbers
<1>4. history \in Seq(0..fills') /\ history \in Seq(Nat)
  <2>1. (0..fills) \subseteq Nat
    BY <1>1
  <2> QED
    BY <1>1, <1>3, <2>1, SeqMonotonic
<1>5. applied' \in Seq(1..fills') /\ jumped' \subseteq 1..fills'
  BY <1>1, <1>3, SeqMonotonic
<1>6. CASE history' = history /\ fills' = fills
  BY <1>3, <1>4, <1>5, <1>6 DEF FixInv, HistoryInv, AppliedInv
<1>7. ASSUME NEW x \in Nat, history' = Append(history, x), x = 0 \/ x = fills + 1,
             x \in 0..fills'
      PROVE  /\ history' \in Seq(0..fills') /\ HistoryInv' /\ AppliedInv'
             /\ \A m \in MsgType : Truthful(history, m) => Truthful(history', m)
  <2>1. history' \in Seq(0..fills')
    BY <1>4, <1>7, AppendProperties
  <2>2. /\ Len(history') = Len(history) + 1 /\ history'[Len(history) + 1] = x
        /\ \A s \in 1..Len(history) : history'[s] = history[s]
    BY <1>4, <1>7, AppendProperties
  <2>3. \A s \in 1..Len(history') : s \in 1..Len(history) \/ s = Len(history) + 1
    BY <1>2, <2>2
  <2>4. HistoryInv'
    <3>1. eng'.expect <= Len(history') + 1
      BY <1>1, <1>2, <2>2 DEF FixInv, HistoryInv
    <3>2. ASSUME NEW s \in 1..Len(history'), NEW t \in 1..Len(history'),
                 s < t, history'[s] # 0, history'[t] # 0
          PROVE  history'[s] < history'[t]
      <4>1. s \in 1..Len(history)
        BY <1>2, <2>2, <3>2
      <4>2. CASE t \in 1..Len(history)
        BY <2>2, <3>2, <4>1, <4>2 DEF FixInv, HistoryInv
      <4>3. CASE t = Len(history) + 1
        <5>1. history'[t] = fills + 1 /\ history'[s] = history[s]
          BY <1>7, <2>2, <3>2, <4>1, <4>3
        <5>2. history[s] \in 0..fills
          BY <1>2, <4>1
        <5> QED
          BY <1>1, <5>1, <5>2
      <4> QED
        BY <2>3, <4>2, <4>3
    <3> QED
      BY <3>1, <3>2 DEF HistoryInv
  <2>5. AppliedInv'
    <3>1. ASSUME NEW s \in 1..Len(history'), s < eng'.expect, history'[s] # 0
          PROVE  history'[s] \in jumped' \/ \E i \in 1..Len(applied') : applied'[i] = history'[s]
      <4>1. s \in 1..Len(history)
        BY <1>1, <1>2, <2>2, <3>1 DEF FixInv, HistoryInv
      <4> QED
        BY <2>2, <3>1, <4>1 DEF FixInv, AppliedInv
    <3>2. ASSUME ~fixBudget'.resetting, NEW s \in 1..Len(history'), s >= eng'.expect,
                 history'[s] # 0, NEW i \in 1..Len(applied')
          PROVE  applied'[i] < history'[s]
      <4>1. CASE s \in 1..Len(history)
        BY <2>2, <3>2, <4>1 DEF FixInv, AppliedInv
      <4>2. CASE s = Len(history) + 1
        <5>1. history'[s] = fills + 1 /\ applied'[i] = applied[i]
          BY <1>7, <2>2, <3>2, <4>2
        <5>2. applied[i] \in 1..fills
          BY <1>2
        <5> QED
          BY <1>1, <5>1, <5>2
      <4> QED
        BY <2>3, <4>1, <4>2
    <3>3. \A i, j \in 1..Len(applied') : i < j => applied'[i] < applied'[j]
      BY DEF FixInv, AppliedInv
    <3> QED
      BY <3>1, <3>2, <3>3 DEF AppliedInv
  <2>6. \A m \in MsgType : Truthful(history, m) => Truthful(history', m)
    BY <1>4, <1>7, TruthExtends
  <2> QED
    BY <2>1, <2>4, <2>5, <2>6
<1>8. history' # history \/ fills' # fills =>
        \E x \in Nat : history' = Append(history, x) /\ (x = 0 \/ x = fills + 1) /\ x \in 0..fills'
  <2>1. /\ 0 \in Nat /\ fills + 1 \in Nat /\ 0 \in 0..fills'
        /\ fills' = fills + 1 => fills + 1 \in 0..fills'
    BY <1>1, <1>3
  <2> QED
    BY <2>1 DEF Numbers
<1> QED
  BY <1>3, <1>5, <1>6, <1>7, <1>8

\* A step of the caller that creates messages and leaves the expected number alone.
LEMMA EngineKeeps ==
  ASSUME FixInv, conn = "on", Sound(eng', orderSeqs'), eng'.expect = eng.expect,
         UNCHANGED <<conn, inbound, history, fills, applied, jumped>>,
         fixBudget' \in [connects : Nat, orders : Nat, admin : Nat, resetting : BOOLEAN],
         fixBudget'.resetting = fixBudget.resetting,
         \/ outbound' = outbound
         \/ \E m \in MsgType : /\ m.type \in {"Logout", "TestRequest"}
                               /\ outbound' = Append(outbound, m)
  PROVE  FixInv'
<1>1. /\ outbound \in Seq(MsgType)
      /\ \A i \in 1..Len(outbound) :
           outbound[i].type \in {"ResendRequest", "Logout", "TestRequest"}
  BY DEF FixInv, FixTyped, LinkInv
<1>2. /\ outbound' \in Seq(MsgType)
      /\ \A i \in DOMAIN outbound' :
           outbound'[i].type \in {"ResendRequest", "Logout", "TestRequest"}
  <2>1. ASSUME NEW m \in MsgType, m.type \in {"Logout", "TestRequest"},
               outbound' = Append(outbound, m)
        PROVE  <1>2
    <3>1. /\ outbound' \in Seq(MsgType) /\ Len(outbound') = Len(outbound) + 1
          /\ \A i \in 1..Len(outbound) : outbound'[i] = outbound[i]
          /\ outbound'[Len(outbound) + 1] = m /\ DOMAIN outbound' = 1..Len(outbound')
          /\ Len(outbound) \in Nat
      BY <1>1, <2>1, AppendProperties
    <3>2. \A i \in 1..Len(outbound') : i \in 1..Len(outbound) \/ i = Len(outbound) + 1
      BY <3>1
    <3> QED
      BY <1>1, <2>1, <3>1, <3>2
  <2> QED
    BY <1>1, <2>1
<1>3. FixTyped'
  BY <1>2 DEF FixInv, FixTyped
<1>4. LinkInv'
  BY <1>2 DEF FixInv, LinkInv
<1> QED
  BY <1>3, <1>4 DEF FixInv, HistoryInv, InboundInv, AppliedInv

\* A step of the venue: it numbers a message or none, transmits truthful messages over an
\* established session, and may have taken a demand.
LEMMA VenueKeeps ==
  ASSUME FixInv, UNCHANGED <<eng, conn, applied, jumped, orderSeqs>>, Numbers,
         fixBudget' \in [connects : Nat, orders : Nat, admin : Nat, resetting : BOOLEAN],
         fixBudget'.resetting = fixBudget.resetting,
         NEW r \in Seq(MsgType), inbound' = inbound \o r, r # <<>> => conn = "on",
         \A i \in 1..Len(r) : r[i].type # "Logon" /\ (r[i].own => Truthful(history', r[i])),
         \/ outbound' = outbound
         \/ conn = "on" /\ outbound # <<>> /\ outbound' = Tail(outbound)
  PROVE  FixInv'
<1>1. /\ fills' \in Nat /\ history' \in Seq(0..fills') /\ applied' \in Seq(1..fills')
      /\ jumped' \subseteq 1..fills' /\ HistoryInv' /\ AppliedInv'
      /\ \A m \in MsgType : Truthful(history, m) => Truthful(history', m)
  BY NumbersKeeps
<1>2. inbound \in Seq(MsgType) /\ outbound \in Seq(MsgType)
  BY DEF FixInv, FixTyped
<1>3. /\ inbound' \in Seq(MsgType) /\ Len(inbound') = Len(inbound) + Len(r)
      /\ \A i \in 1..Len(inbound') :
           inbound'[i] = IF i <= Len(inbound) THEN inbound[i] ELSE r[i - Len(inbound)]
      /\ Len(inbound) \in Nat /\ Len(r) \in Nat
  BY <1>2, ConcatProperties
<1>4. InboundInv'
  <2>1. ASSUME NEW i \in 1..Len(inbound')
        PROVE  /\ inbound'[i].own => Truthful(history', inbound'[i])
               /\ inbound'[i].type = "Logon" /\ inbound'[i].flag => i = 1 /\ eng'.expect = 1
    <3>1. CASE i <= Len(inbound)
      <4>1. i \in 1..Len(inbound) /\ inbound'[i] = inbound[i] /\ inbound[i] \in MsgType
        BY <1>2, <1>3, <3>1
      <4> QED
        BY <1>1, <4>1 DEF FixInv, InboundInv
    <3>2. CASE ~(i <= Len(inbound))
      <4>1. i - Len(inbound) \in 1..Len(r) /\ inbound'[i] = r[i - Len(inbound)]
        BY <1>3, <3>2
      <4> QED
        BY <4>1
    <3> QED
      BY <3>1, <3>2
  <2> QED
    BY <2>1 DEF InboundInv
<1>5. /\ outbound' \in Seq(MsgType)
      /\ conn = "on" => \A i \in DOMAIN outbound' :
           outbound'[i].type \in {"ResendRequest", "Logout", "TestRequest"}
  <2>1. conn = "on" => \A i \in 1..Len(outbound) :
          outbound[i].type \in {"ResendRequest", "Logout", "TestRequest"}
    BY <1>2 DEF FixInv, LinkInv
  <2>2. CASE outbound' = outbound
    BY <1>2, <2>1, <2>2
  <2>3. CASE conn = "on" /\ outbound # <<>> /\ outbound' = Tail(outbound)
    <3>1. /\ outbound' \in Seq(MsgType) /\ Len(outbound') = Len(outbound) - 1
          /\ \A i \in 1..Len(outbound') : outbound'[i] = outbound[i + 1]
          /\ DOMAIN outbound' = 1..Len(outbound') /\ Len(outbound) \in Nat
      BY <1>2, <2>3, HeadTailProperties
    <3>2. \A i \in 1..Len(outbound') : i + 1 \in 1..Len(outbound)
      BY <3>1
    <3> QED
      BY <2>1, <3>1, <3>2, SMTT(30)
  <2> QED
    BY <2>2, <2>3
<1>6. FixTyped'
  BY <1>1, <1>3, <1>5 DEF FixInv, FixTyped
<1>7. LinkInv'
  <2>1. r = <<>> => inbound' = inbound
    BY <1>2
  <2> QED
    BY <1>5, <2>1 DEF FixInv, LinkInv
<1> QED
  BY <1>1, <1>4, <1>6, <1>7 DEF FixInv

\* The session begins without a message and without a fill.
LEMMA FixStart == FixInit => FixInv
<1> SUFFICES ASSUME FixInit PROVE FixInv
  OBVIOUS
<1>1. /\ eng \in EngType /\ eng.sent = {} /\ eng.out = 1 /\ eng.expect = 1
  BY DEF FixInit, EngType, FixStates
<1>2. Retained(1) = {} /\ orderSeqs = {}
  BY DEF Retained, FixInit
<1>3. Sound(eng, orderSeqs)
  BY <1>1, <1>2 DEF Sound
<1>4. FixTyped
  BY <1>3 DEF FixInit, FixTyped
<1>5. Len(history) = 0 /\ Len(inbound) = 0 /\ Len(applied) = 0
  BY DEF FixInit
<1>6. LinkInv
  BY DEF FixInit, LinkInv
<1> QED
  BY <1>1, <1>4, <1>5, <1>6 DEF FixInv, HistoryInv, InboundInv, AppliedInv

\* A fresh connection: the engine forgets its numbers if it asks for a reset.
LEMMA InitiateLogonKeeps ==
  ASSUME FixInv, NEW reset \in BOOLEAN, InitiateLogon(reset)
  PROVE  FixInv'
<1> DEFINE e == IF reset THEN [eng EXCEPT !.out = 1, !.expect = 1, !.sent = {}] ELSE eng
           c == CreateOutbound(e, "Logon")
           m == [Msg("Logon", e.out) EXCEPT !.flag = reset]
<1>1. /\ conn = "down" /\ conn' = "up" /\ outbound' = <<m>>
      /\ eng' = [c EXCEPT !.state = "LOGON_SENT"]
      /\ orderSeqs' = (IF reset THEN {} ELSE orderSeqs)
      /\ fixBudget' = [fixBudget EXCEPT !.connects = @ + 1, !.resetting = reset]
      /\ UNCHANGED <<inbound, history, fills, applied, jumped>>
      /\ fixBudget.resetting => reset
  BY DEF InitiateLogon
<1>2. Sound(eng, orderSeqs) /\ eng \in EngType
  BY DEF FixInv, FixTyped, Sound
<1>3. Sound(e, orderSeqs') /\ e.expect = (IF reset THEN 1 ELSE eng.expect)
  <2>1. CASE reset
    <3>0. e = [eng EXCEPT !.out = 1, !.expect = 1, !.sent = {}]
      BY <2>1
    <3>1. e \in EngType /\ e.out = 1 /\ e.expect = 1 /\ e.sent = {}
      <4> HIDE DEF e
      <4>1. 1 \in Nat \ {0} /\ {} \in SUBSET [seq : Nat, app : BOOLEAN]
        OBVIOUS
      <4> QED
        BY <1>2, <3>0, <4>1 DEF EngType
    <3>2. Retained(1) = {} /\ orderSeqs' = {}
      BY <1>1, <2>1 DEF Retained
    <3> HIDE DEF e
    <3> QED
      BY <2>1, <3>1, <3>2 DEF Sound
  <2>2. CASE ~reset
    BY <1>1, <1>2, <2>2
  <2> QED
    BY <2>1, <2>2
<1>4. e.out \in Nat
  BY <1>3 DEF Sound, EngType
<1>5. m \in MsgType /\ m.type = "Logon" /\ m.flag = reset
  <2> HIDE DEF e
  <2> DEFINE g == Msg("Logon", e.out)
  <2>1. g \in MsgType /\ g.type = "Logon" /\ m = [g EXCEPT !.flag = reset]
    BY <1>4, MsgIs DEF FixMsgs
  <2> HIDE DEF g, m
  <2> QED
    BY <2>1 DEF MsgType
<1> HIDE DEF e, m
<1>6. Sound(c, orderSeqs') /\ c.expect = e.expect
  BY <1>3, CreateIs
<1> HIDE DEF c
<1>7. c \in EngType
  BY <1>6 DEF Sound
<1>8. /\ eng' \in EngType /\ eng'.out = c.out /\ eng'.sent = c.sent /\ eng'.expect = e.expect
      /\ eng'.state = "LOGON_SENT"
  BY <1>1, <1>6, <1>7 DEF EngType, FixStates
<1>9. Sound(eng', orderSeqs')
  BY <1>6, <1>8, SoundStays
<1>10. /\ fixBudget' \in [connects : Nat, orders : Nat, admin : Nat, resetting : BOOLEAN]
       /\ fixBudget'.resetting = reset
  <2>1. fixBudget \in [connects : Nat, orders : Nat, admin : Nat, resetting : BOOLEAN]
    BY DEF FixInv, FixTyped
  <2>2. fixBudget' = [fixBudget EXCEPT !.connects = @ + 1, !.resetting = reset]
    BY <1>1
  <2>3. fixBudget.connects + 1 \in Nat
    BY <2>1
  <2> QED
    BY <2>1, <2>2, <2>3
<1>11. outbound' \in Seq(MsgType) /\ Len(outbound') = 1 /\ outbound'[1] = m
  BY <1>1, <1>5
<1>12. inbound = <<>> /\ inbound' = <<>>
  BY <1>1 DEF FixInv, LinkInv
<1>13. FixTyped'
  BY <1>1, <1>9, <1>10, <1>11, <1>12 DEF FixInv, FixTyped
<1>14. LinkInv'
  BY <1>1, <1>3, <1>5, <1>8, <1>10, <1>11, <1>12 DEF LinkInv
<1>15. Len(history) \in Nat /\ eng.expect \in Nat /\ eng.expect >= 1
  BY <1>2 DEF FixInv, FixTyped, EngType
<1>16. HistoryInv' /\ AppliedInv'
  <2>1. CASE reset
    <3>1. eng'.expect = 1 /\ fixBudget'.resetting
      BY <1>3, <1>8, <1>10, <2>1
    <3>2. \A s \in 1..Len(history) : ~(s < 1)
      BY <1>15
    <3> QED
      BY <1>1, <1>15, <3>1, <3>2 DEF FixInv, HistoryInv, AppliedInv
  <2>2. CASE ~reset
    <3>1. eng'.expect = eng.expect /\ ~fixBudget.resetting /\ ~fixBudget'.resetting
      BY <1>1, <1>3, <1>8, <1>10, <2>2
    <3> QED
      BY <1>1, <3>1 DEF FixInv, HistoryInv, AppliedInv
  <2> QED
    BY <2>1, <2>2
<1>17. InboundInv'
  BY <1>12 DEF InboundInv
<1> QED
  BY <1>13, <1>14, <1>16, <1>17 DEF FixInv

\* A lost connection takes with it what was under way.
LEMMA ConnectionLostKeeps ==
  ASSUME FixInv, ConnectionLost
  PROVE  FixInv'
<1>1. inbound' = <<>> /\ outbound' = <<>> /\ conn' = "down"
      /\ UNCHANGED <<eng, history, fills, applied, jumped, orderSeqs, fixBudget>>
  BY DEF ConnectionLost
<1>2. FixTyped'
  BY <1>1 DEF FixInv, FixTyped
<1>3. LinkInv'
  BY <1>1 DEF FixInv, LinkInv
<1>4. InboundInv'
  BY <1>1 DEF InboundInv
<1> QED
  BY <1>1, <1>2, <1>3, <1>4 DEF FixInv, HistoryInv, AppliedInv

\* The caller acts on an established session, so the venue has accepted its Logon; its
\* budget changes in one count only.
LEMMA SpendIs ==
  ASSUME FixInv, SpendOrder, eng.state \in Established
  PROVE  /\ conn = "on" /\ UNCHANGED <<conn, inbound, history, fills, applied, jumped>>
         /\ fixBudget' \in [connects : Nat, orders : Nat, admin : Nat, resetting : BOOLEAN]
         /\ fixBudget'.resetting = fixBudget.resetting
         /\ Sound(eng, orderSeqs) /\ eng.out \in Nat
<1>1. fixBudget \in [connects : Nat, orders : Nat, admin : Nat, resetting : BOOLEAN]
      /\ Sound(eng, orderSeqs) /\ conn \in {"down", "up", "on"} /\ eng.out \in Nat
  BY DEF FixInv, FixTyped, Sound, EngType
<1>2. fixBudget' = [fixBudget EXCEPT !.orders = @ + 1] /\ conn # "down"
      /\ UNCHANGED <<conn, inbound, history, fills, applied, jumped>>
  BY DEF SpendOrder
<1>3. fixBudget.orders + 1 \in Nat
  BY <1>1
<1>4. fixBudget' \in [connects : Nat, orders : Nat, admin : Nat, resetting : BOOLEAN]
      /\ fixBudget'.resetting = fixBudget.resetting
  BY <1>1, <1>2, <1>3
<1>5. conn = "on"
  BY <1>1, <1>2 DEF FixInv, LinkInv, Established
<1> QED
  BY <1>1, <1>2, <1>4, <1>5

\* The caller sends an order.
LEMMA SendOrderKeeps ==
  ASSUME FixInv, SendOrder
  PROVE  FixInv'
<1>1. /\ conn = "on" /\ UNCHANGED <<conn, inbound, history, fills, applied, jumped>>
      /\ fixBudget' \in [connects : Nat, orders : Nat, admin : Nat, resetting : BOOLEAN]
      /\ fixBudget'.resetting = fixBudget.resetting
      /\ Sound(eng, orderSeqs)
  BY SpendIs DEF SendOrder
<1>2. /\ eng' = CreateOutbound(eng, "App") /\ orderSeqs' = orderSeqs \cup {eng.out}
      /\ outbound' = outbound
  BY DEF SendOrder
<1>3. Sound(eng', orderSeqs') /\ eng'.expect = eng.expect
  BY <1>1, <1>2, CreateIs
<1> QED
  BY <1>1, <1>2, <1>3, EngineKeeps

\* The caller logs out.
LEMMA InitiateLogoutKeeps ==
  ASSUME FixInv, InitiateLogout
  PROVE  FixInv'
<1> DEFINE c == CreateOutbound(eng, "Logout")
<1>1. /\ conn = "on" /\ UNCHANGED <<conn, inbound, history, fills, applied, jumped>>
      /\ fixBudget' \in [connects : Nat, orders : Nat, admin : Nat, resetting : BOOLEAN]
      /\ fixBudget'.resetting = fixBudget.resetting
      /\ Sound(eng, orderSeqs) /\ eng.out \in Nat
  BY SpendIs DEF InitiateLogout
<1>2. /\ eng' = [c EXCEPT !.state = "LOGOUT_SENT"] /\ orderSeqs' = orderSeqs
      /\ outbound' = Append(outbound, Msg("Logout", eng.out))
  BY DEF InitiateLogout
<1>3. Sound(c, orderSeqs) /\ c.expect = eng.expect
  BY <1>1, CreateIs
<1> HIDE DEF c
<1>4. c \in EngType
  BY <1>3 DEF Sound
<1>5. eng' \in EngType /\ eng'.out = c.out /\ eng'.sent = c.sent /\ eng'.expect = c.expect
  BY <1>2, <1>4 DEF EngType, FixStates
<1>6. Sound(eng', orderSeqs') /\ eng'.expect = eng.expect
  BY <1>2, <1>3, <1>5, SoundStays
<1>7. Msg("Logout", eng.out) \in MsgType /\ Msg("Logout", eng.out).type = "Logout"
  BY <1>1, MsgIs DEF FixMsgs
<1> QED
  BY <1>1, <1>2, <1>6, <1>7, EngineKeeps

\* check_liveness creates a Heartbeat, a TestRequest, both or neither.
LEMMA CheckLivenessKeeps ==
  ASSUME FixInv, NEW idle \in BOOLEAN, NEW silent \in BOOLEAN, CheckLiveness(idle, silent)
  PROVE  FixInv'
<1> DEFINE b == IF idle THEN CreateOutbound(eng, "Heartbeat") ELSE eng
           c == CreateOutbound(b, "TestRequest")
           p == [c EXCEPT !.probe = TRUE]
           m == Msg("TestRequest", b.out)
<1>1. /\ conn = "on" /\ UNCHANGED <<conn, inbound, history, fills, applied, jumped>>
      /\ fixBudget' \in [connects : Nat, orders : Nat, admin : Nat, resetting : BOOLEAN]
      /\ fixBudget'.resetting = fixBudget.resetting
      /\ Sound(eng, orderSeqs)
  BY SpendIs DEF CheckLiveness
<1>2. /\ \/ eng' = p /\ outbound' = Append(outbound, m)
         \/ eng' = b /\ outbound' = outbound
      /\ orderSeqs' = orderSeqs
  BY DEF CheckLiveness
<1>3. Sound(b, orderSeqs) /\ b.expect = eng.expect
  BY <1>1, CreateIs
<1> HIDE DEF b, p, m
<1>4. Sound(c, orderSeqs) /\ c.expect = eng.expect
  <2>1. Sound(c, orderSeqs) /\ c.expect = b.expect
    <3>1. "TestRequest" # "App"
      OBVIOUS
    <3> QED
      BY <1>3, <3>1, AdminIs, Zenon
  <2> QED
    BY <1>3, <2>1
<1> HIDE DEF c
<1>5. c \in EngType /\ b.out \in Nat
  BY <1>3, <1>4 DEF Sound, EngType
<1>6. p \in EngType /\ p.out = c.out /\ p.sent = c.sent /\ p.expect = c.expect
  BY <1>5 DEF EngType, p
<1>7. Sound(p, orderSeqs)
  BY <1>4, <1>6, SoundStays
<1>8. m \in MsgType /\ m.type = "TestRequest"
  BY <1>5, MsgIs DEF FixMsgs, m
<1>9. Sound(eng', orderSeqs') /\ eng'.expect = eng.expect
  BY <1>2, <1>3, <1>4, <1>6, <1>7
<1>10. \/ outbound' = outbound
       \/ \E g \in MsgType : g.type \in {"Logout", "TestRequest"} /\ outbound' = Append(outbound, g)
  BY <1>2, <1>8
<1> QED
  BY <1>1, <1>9, <1>10, EngineKeeps

\* A message of the venue is numbered, and transmitted, lost, or not transmitted because
\* there is no session.
LEMMA VenueNumbersKeeps ==
  ASSUME FixInv, NEW m \in MsgType, VenueNumbers(m) \/ VenueLoses(m), m.own,
         \/ m.fill = 0 /\ fills' = fills /\ m.type \in {"Heartbeat", "TestRequest", "Logout", "ResendRequest"}
         \/ m.fill = fills + 1 /\ fills' = fills + 1 /\ m.type = "App",
         UNCHANGED <<eng, conn, applied, jumped, orderSeqs>>,
         fixBudget' \in [connects : Nat, orders : Nat, admin : Nat, resetting : BOOLEAN],
         fixBudget'.resetting = fixBudget.resetting,
         \/ outbound' = outbound
         \/ conn = "on" /\ outbound # <<>> /\ outbound' = Tail(outbound)
  PROVE  FixInv'
<1> DEFINE n == Len(history) + 1
           g == [m EXCEPT !.seq = n]
<1>1. history \in Seq(0..fills) /\ fills \in Nat /\ inbound \in Seq(MsgType)
  BY DEF FixInv, FixTyped
<1>2. history' = Append(history, m.fill)
  BY DEF VenueNumbers, VenueLoses
<1>3. Numbers
  BY <1>2 DEF Numbers
<1>4. Len(history) \in Nat /\ Len(history') = n /\ history'[n] = m.fill
  BY <1>1, <1>2
<1>5. /\ g \in MsgType /\ g.seq = n /\ g.type = m.type /\ g.fill = m.fill /\ g.own = m.own
  <2>1. n \in Nat
    BY <1>4
  <2> HIDE DEF n
  <2> QED
    BY <2>1 DEF MsgType
<1>6. Truthful(history', g)
  <2>1. n \in 1..n /\ fills + 1 # 0
    BY <1>1, <1>4
  <2> HIDE DEF n, g
  <2> QED
    BY <1>4, <1>5, <2>1 DEF Truthful
<1>7. CASE inbound' = inbound
  <2>1. /\ <<>> \in Seq(MsgType) /\ inbound' = inbound \o <<>> /\ Len(<<>>) = 0
    BY <1>1, <1>7
  <2>2. \A i \in 1..Len(<<>>) :
          <<>>[i].type # "Logon" /\ (<<>>[i].own => Truthful(history', <<>>[i]))
    BY <2>1
  <2> QED
    BY <1>3, <2>1, <2>2, VenueKeeps
<1>8. CASE conn = "on" /\ inbound' = Append(inbound, g)
  <2> HIDE DEF g
  <2>1. /\ <<g>> \in Seq(MsgType) /\ inbound' = inbound \o <<g>> /\ Len(<<g>>) = 1
        /\ <<g>>[1] = g
    BY <1>1, <1>5, <1>8
  <2>2. \A i \in 1..Len(<<g>>) :
          <<g>>[i].type # "Logon" /\ (<<g>>[i].own => Truthful(history', <<g>>[i]))
    BY <1>5, <1>6, <2>1
  <2> QED
    BY <1>3, <1>8, <2>1, <2>2, VenueKeeps
<1> QED
  BY <1>7, <1>8 DEF VenueNumbers, VenueLoses

\* An execution report of the venue.
LEMMA VenueReportsKeeps ==
  ASSUME FixInv, VenueReports
  PROVE  FixInv'
<1> DEFINE a == Msg("App", 0)
           m == [a EXCEPT !.fill = fills + 1]
<1>1. fills \in Nat
      /\ fixBudget \in [connects : Nat, orders : Nat, admin : Nat, resetting : BOOLEAN]
  BY DEF FixInv, FixTyped
<1>2. /\ fills' = fills + 1 /\ (VenueNumbers(m) \/ VenueLoses(m))
      /\ UNCHANGED <<eng, conn, outbound, applied, jumped, orderSeqs, fixBudget>>
  BY DEF VenueReports
<1>3. a \in MsgType /\ a.type = "App" /\ a.own
  BY MsgIs DEF FixMsgs
<1>4. m \in MsgType /\ m.type = "App" /\ m.own /\ m.fill = fills + 1
  <2>1. fills + 1 \in Nat
    BY <1>1
  <2> HIDE DEF a
  <2> QED
    BY <2>1, <1>3 DEF MsgType
<1> HIDE DEF m
<1> QED
  BY <1>1, <1>2, <1>4, VenueNumbersKeeps

\* What the venue spends on a message of its own.
LEMMA SpendAdminIs ==
  ASSUME FixInv, SpendAdmin
  PROVE  /\ conn = "on"
         /\ UNCHANGED <<eng, conn, outbound, fills, applied, jumped, orderSeqs>>
         /\ fixBudget' \in [connects : Nat, orders : Nat, admin : Nat, resetting : BOOLEAN]
         /\ fixBudget'.resetting = fixBudget.resetting
<1>1. fixBudget \in [connects : Nat, orders : Nat, admin : Nat, resetting : BOOLEAN]
  BY DEF FixInv, FixTyped
<1>2. fixBudget' = [fixBudget EXCEPT !.admin = @ + 1] /\ fixBudget.admin + 1 \in Nat
  BY <1>1 DEF SpendAdmin
<1>3. /\ fixBudget' \in [connects : Nat, orders : Nat, admin : Nat, resetting : BOOLEAN]
      /\ fixBudget'.resetting = fixBudget.resetting
  BY <1>1, <1>2
<1> QED
  BY <1>3 DEF SpendAdmin

\* A session message of the venue's own.
LEMMA VenueAdminKeeps ==
  ASSUME FixInv, VenueAdmin
  PROVE  FixInv'
<1>1. /\ UNCHANGED <<eng, conn, outbound, fills, applied, jumped, orderSeqs>>
      /\ fixBudget' \in [connects : Nat, orders : Nat, admin : Nat, resetting : BOOLEAN]
      /\ fixBudget'.resetting = fixBudget.resetting
  BY SpendAdminIs DEF VenueAdmin
<1> DEFINE r == Msg("ResendRequest", 0)
           Kinds == {Msg("Heartbeat", 0), Msg("TestRequest", 0), Msg("Logout", 0),
                     [r EXCEPT !.arg = 1], [r EXCEPT !.arg = NotANumber]}
<1>2. PICK m \in Kinds : VenueNumbers(m) \/ VenueLoses(m)
  BY DEF VenueAdmin
<1>3. /\ m \in MsgType /\ m.own /\ m.fill = 0
      /\ m.type \in {"Heartbeat", "TestRequest", "Logout", "ResendRequest"}
  <2>1. \A t \in {"Heartbeat", "TestRequest", "Logout", "ResendRequest"} :
          LET g == Msg(t, 0) IN g \in MsgType /\ g.own /\ g.fill = 0 /\ g.type = t
    BY MsgIs DEF FixMsgs
  <2>2. r \in MsgType /\ r.own /\ r.fill = 0 /\ r.type = "ResendRequest"
    BY <2>1
  <2>3. NotANumber \in Int
    BY DEF NotANumber
  <2> HIDE DEF r
  <2> DEFINE R(x) == [r EXCEPT !.arg = x]
  <2>4. \A x \in Int : R(x) \in MsgType /\ R(x).own /\ R(x).fill = 0 /\ R(x).type = "ResendRequest"
    BY <2>2 DEF MsgType
  <2>5. \/ m \in {Msg(t, 0) : t \in {"Heartbeat", "TestRequest", "Logout"}}
        \/ m \in {R(x) : x \in {1, NotANumber}}
    OBVIOUS
  <2> HIDE DEF R, Kinds
  <2> QED
    BY <2>1, <2>3, <2>4, <2>5
<1> QED
  BY <1>1, <1>2, <1>3, VenueNumbersKeeps

\* A Reset may give up a number, a message of another session says nothing of this one.
LEMMA VenueResetsKeeps ==
  ASSUME FixInv, VenueResets \/ Misrouted
  PROVE  FixInv'
<1>1. /\ conn = "on"
      /\ UNCHANGED <<eng, conn, outbound, fills, applied, jumped, orderSeqs>>
      /\ fixBudget' \in [connects : Nat, orders : Nat, admin : Nat, resetting : BOOLEAN]
      /\ fixBudget'.resetting = fixBudget.resetting
  BY SpendAdminIs DEF VenueResets, Misrouted
<1>2. history \in Seq(0..fills) /\ Len(history) \in Nat /\ inbound \in Seq(MsgType)
  BY DEF FixInv, FixTyped
<1>3. ASSUME NEW g \in MsgType, inbound' = Append(inbound, g), Numbers, g.type # "Logon",
             g.own => Truthful(history', g)
      PROVE  FixInv'
  <2>1. /\ <<g>> \in Seq(MsgType) /\ inbound' = inbound \o <<g>> /\ Len(<<g>>) = 1
        /\ <<g>>[1] = g
    BY <1>2, <1>3
  <2>2. \A i \in 1..Len(<<g>>) :
          <<g>>[i].type # "Logon" /\ (<<g>>[i].own => Truthful(history', <<g>>[i]))
    BY <1>3, <2>1
  <2> QED
    BY <1>1, <1>3, <2>1, <2>2, VenueKeeps
<1>4. CASE Misrouted
  <2> DEFINE h == Msg("Heartbeat", 1)
             g == [h EXCEPT !.own = FALSE]
  <2>1. h \in MsgType /\ h.type = "Heartbeat"
    BY MsgIs DEF FixMsgs
  <2>2. inbound' = Append(inbound, g) /\ history' = history
    BY <1>4 DEF Misrouted
  <2> HIDE DEF h
  <2>3. g \in MsgType /\ g.type = "Heartbeat" /\ ~g.own
    BY <2>1 DEF MsgType
  <2>4. Numbers
    BY <1>1, <2>2 DEF Numbers
  <2> HIDE DEF g
  <2> QED
    BY <1>3, <2>2, <2>3, <2>4
<1>5. CASE VenueResets
  <2> DEFINE z == Msg("SequenceReset", 1)
             G(x) == [z EXCEPT !.arg = x]
  <2>1. PICK new \in {NotANumber, 1, Len(history) + 2} :
          /\ inbound' = Append(inbound, G(new))
          /\ history' = IF new > Len(history) THEN Append(history, 0) ELSE history
    BY <1>5 DEF VenueResets
  <2>2. z \in MsgType /\ z.type = "SequenceReset"
    BY MsgIs DEF FixMsgs
  <2>3. new \in Int
    BY <1>2 DEF NotANumber
  <2> HIDE DEF z
  <2>4. G(new) \in MsgType /\ G(new).type = "SequenceReset" /\ G(new).arg = new
    BY <2>2, <2>3 DEF MsgType
  <2>5. Numbers
    BY <1>1, <2>1 DEF Numbers
  <2>6. new <= Len(history') + 1
    <3>1. Len(Append(history, 0)) = Len(history) + 1
      BY <1>2
    <3> QED
      BY <1>2, <2>1, <3>1 DEF NotANumber
  <2> HIDE DEF G
  <2>7. Truthful(history', G(new))
    BY <2>4, <2>6 DEF Truthful
  <2> QED
    BY <1>3, <2>1, <2>4, <2>5, <2>7
<1> QED
  BY <1>4, <1>5

\* The venue's replay says the truth about its history.
LEMMA VenueResendIs ==
  ASSUME FixInv, NEW begin \in Int
  PROVE  LET r == VenueResend(begin)
         IN  /\ r \in Seq(MsgType)
             /\ \A i \in 1..Len(r) : r[i].type # "Logon" /\ Truthful(history, r[i])
<1> DEFINE n == Len(history)
           all == [out |-> n + 1,
                   sent |-> {[seq |-> s, app |-> history[s] # 0] : s \in DOMAIN history}]
           a == BuildResendResponse(all, begin, 0)
           R(i) == [a[i] EXCEPT !.fill = IF @ = 0 /\ a[i].type = "App"
                                         THEN history[a[i].seq] ELSE 0]
           r == VenueResend(begin)
<1>1. history \in Seq(0..fills) /\ fills \in Nat /\ n \in Nat /\ DOMAIN history = 1..n
  BY DEF FixInv, FixTyped
<1>2. r = [i \in DOMAIN a |-> R(i)]
  BY DEF VenueResend
<1>3. all.out = n + 1 /\ all.sent = {[seq |-> s, app |-> history[s] # 0] : s \in 1..n}
  BY <1>1
<1> HIDE DEF all
<1>4. \A s \in 1..n : Replayable(all, s) <=> history[s] # 0
  <2> DEFINE E(s) == [seq |-> s, app |-> history[s] # 0]
  <2>1. \A s : E(s).seq = s /\ (E(s).app <=> history[s] # 0)
    OBVIOUS
  <2>2. all.sent = {E(s) : s \in 1..n}
    BY <1>3
  <2> HIDE DEF E, n
  <2>3. ASSUME NEW s \in 1..n PROVE Replayable(all, s) <=> history[s] # 0
    <3>1. ASSUME history[s] # 0 PROVE \E m \in all.sent : m.seq = s /\ m.app
      BY <2>1, <2>2, <3>1
    <3>2. ASSUME NEW m \in all.sent, m.seq = s, m.app PROVE history[s] # 0
      BY <2>1, <2>2, <3>2
    <3> QED
      BY <3>1, <3>2 DEF Replayable
  <2> QED
    BY <2>3
<1>5. LastAsked(all, 0) = n
  BY <1>1, <1>3 DEF LastAsked
<1>6. a \in Seq(MsgType) /\ \A i \in DOMAIN a : Faithful(all, a[i], n)
  <2>1. n + 1 \in Nat /\ 0 \in Int
    BY <1>1
  <2>2. Walks(all, begin, n, a)
    BY <1>3, <1>5, <2>1, ResponseWalks
  <2> QED
    BY <2>2 DEF Walks
<1> HIDE DEF a, r, R
<1>7. Len(a) \in Nat /\ DOMAIN a = 1..Len(a) /\ \A i \in 1..Len(a) : a[i] \in MsgType
  BY <1>6
<1>8. ASSUME NEW i \in 1..Len(a)
      PROVE  R(i) \in MsgType /\ R(i).type # "Logon" /\ Truthful(history, R(i))
  <2> DEFINE m == a[i]
  <2>1. m \in MsgType /\ Faithful(all, m, n)
    BY <1>6, <1>7
  <2>2. R(i) = [m EXCEPT !.fill = IF @ = 0 /\ m.type = "App" THEN history[m.seq] ELSE 0]
    BY DEF R
  <2> HIDE DEF m
  <2>3. m.seq \in 1..n /\ m.fill = 0
    BY <1>1, <2>1 DEF Faithful
  <2>4. history[m.seq] \in Nat
    BY <1>1, <2>3
  <2>5. /\ R(i) \in MsgType /\ R(i).type = m.type /\ R(i).seq = m.seq /\ R(i).arg = m.arg
        /\ m.type = "App" => R(i).fill = history[m.seq]
    BY <2>1, <2>2, <2>3, <2>4 DEF MsgType
  <2>6. CASE m.type = "App"
    <3>1. history[m.seq] # 0
      BY <1>4, <2>1, <2>3, <2>6 DEF Faithful
    <3> QED
      BY <2>3, <2>5, <2>6, <3>1 DEF Truthful
  <2>7. CASE m.type = "GapFill"
    <3>1. m.seq \in Nat /\ m.seq >= 1 /\ m.arg \in (m.seq + 1)..(n + 1)
          /\ \A u \in m.seq..(m.arg - 1) : ~Replayable(all, u)
      BY <2>1, <2>7 DEF Faithful
    <3>2. \A u \in m.seq..(m.arg - 1) : u \in 1..n
      BY <1>1, <3>1
    <3>3. \A u \in m.seq..(m.arg - 1) : history[u] = 0
      BY <1>4, <3>1, <3>2
    <3>4. m.arg <= n + 1
      BY <1>1, <3>1
    <3> QED
      BY <2>5, <2>7, <3>1, <3>3, <3>4 DEF Truthful
  <2> QED
    BY <2>1, <2>6, <2>7 DEF Faithful
<1>9. r \in Seq(MsgType) /\ Len(r) = Len(a)
  BY <1>2, <1>7, <1>8
<1>10. \A i \in 1..Len(r) : r[i] = R(i)
  BY <1>2, <1>7, <1>9
<1> QED
  BY <1>8, <1>9, <1>10 DEF r

\* The venue accepts a Logon.  One that asks for a reset finds an engine that expects 1.
LEMMA LogonReplyKeeps ==
  ASSUME FixInv, VenueReplies, Head(outbound).type = "Logon"
  PROVE  FixInv'
<1> DEFINE m == Head(outbound)
           n == Len(history')
           g == Msg("Logon", n)
           a == [g EXCEPT !.flag = m.flag]
<1>1. /\ conn \in {"down", "up", "on"} /\ outbound \in Seq(MsgType) /\ inbound \in Seq(MsgType)
      /\ fills \in Nat /\ history \in Seq(0..fills) /\ Len(history) \in Nat
      /\ fixBudget \in [connects : Nat, orders : Nat, admin : Nat, resetting : BOOLEAN]
      /\ eng.expect \in Nat
  BY DEF FixInv, FixTyped, Sound, EngType
<1>2. outbound # <<>> /\ conn # "down"
  BY DEF VenueReplies
<1>3. m = outbound[1] /\ 1 \in DOMAIN outbound /\ m \in MsgType
  BY <1>1, <1>2
<1>4. /\ conn = "up" /\ inbound = <<>> /\ Len(outbound) = 1
      /\ m.flag = fixBudget.resetting
      /\ fixBudget.resetting => eng.expect = 1
  BY <1>1, <1>2, <1>3 DEF FixInv, LinkInv
<1>5. /\ outbound' = Tail(outbound) /\ conn' = "on"
      /\ history' = (IF m.flag THEN <<0>> ELSE Append(history, 0))
      /\ inbound' = Append(inbound, a)
      /\ jumped' = (IF m.flag THEN jumped \cup (FillsAt(DOMAIN history) \ Range(applied))
                    ELSE jumped)
      /\ fixBudget' = [fixBudget EXCEPT !.resetting = FALSE]
      /\ UNCHANGED <<eng, fills, applied, orderSeqs>>
  BY DEF VenueReplies
<1>6. outbound' = <<>>
  BY <1>1, <1>4, <1>5, SMTT(30)
<1>7. /\ fixBudget' \in [connects : Nat, orders : Nat, admin : Nat, resetting : BOOLEAN]
      /\ ~fixBudget'.resetting
  <2>1. fixBudget' = [fixBudget EXCEPT !.resetting = FALSE]
    BY <1>5
  <2> QED
    BY <1>1, <2>1
<1>8. /\ history' \in Seq(0..fills) /\ n \in Nat /\ n >= 1 /\ history'[n] = 0
  <2>1. 0 \in 0..fills
    BY <1>1
  <2>2. CASE m.flag
    BY <1>5, <2>1, <2>2
  <2>3. CASE ~m.flag
    <3>1. history' = Append(history, 0)
      BY <1>5, <2>3
    <3>2. history' \in Seq(0..fills) /\ Len(history') = Len(history) + 1
          /\ history'[Len(history) + 1] = 0
      BY <1>1, <2>1, <3>1, AppendProperties
    <3> QED
      BY <1>1, <3>2
  <2> QED
    BY <2>2, <2>3
<1>9. jumped' \subseteq 1..fills
  <2>1. \A s \in DOMAIN history : history[s] \in 0..fills
    BY <1>1
  <2>2. FillsAt(DOMAIN history) \subseteq 1..fills
    BY <1>1, <2>1 DEF FillsAt
  <2>3. jumped \subseteq 1..fills
    BY DEF FixInv, FixTyped
  <2> QED
    BY <1>5, <2>2, <2>3
<1>10. /\ a \in MsgType /\ a.type = "Logon" /\ a.seq = n /\ ~a.dup /\ a.flag = m.flag
  <2>1. g \in MsgType /\ g.type = "Logon" /\ g.seq = n /\ ~g.dup
    BY <1>8, MsgIs DEF FixMsgs
  <2>2. m.flag \in BOOLEAN
    BY <1>3 DEF MsgType
  <2> HIDE DEF g, n, m
  <2> QED
    BY <2>1, <2>2 DEF MsgType
<1> HIDE DEF a
<1>11. inbound' = <<a>> /\ inbound' \in Seq(MsgType) /\ Len(inbound') = 1 /\ inbound'[1] = a
  BY <1>4, <1>5, <1>10
<1>12. n \in 1..n
  BY <1>8
<1>13. Truthful(history', a)
  BY <1>8, <1>10, <1>12 DEF Truthful
<1>14. InboundInv'
  <2>1. \A i \in 1..Len(inbound') : i = 1
    BY <1>11
  <2> QED
    BY <1>4, <1>5, <1>10, <1>11, <1>13, <2>1 DEF InboundInv
<1>15. FixTyped'
  <2>0. eng' = eng /\ orderSeqs' = orderSeqs /\ applied' = applied /\ fills' = fills
    BY <1>5
  <2>1. Sound(eng', orderSeqs') /\ applied' \in Seq(1..fills') /\ fills' = fills
    BY <2>0 DEF FixInv, FixTyped
  <2>2. outbound' \in Seq(MsgType) /\ conn' \in {"down", "up", "on"}
    <3>1. conn' = "on"
      BY <1>5
    <3>2. <<>> \in Seq(MsgType)
      OBVIOUS
    <3> QED
      BY <1>6, <3>1, <3>2
  <2> QED
    BY <1>1, <1>7, <1>8, <1>9, <1>11, <2>1, <2>2 DEF FixTyped
<1>16. LinkInv'
  BY <1>5, <1>6, <1>7 DEF LinkInv
<1>17. HistoryInv' /\ AppliedInv'
  <2>1. CASE m.flag
    <3>1. history' = <<0>> /\ Len(history') = 1 /\ history'[1] = 0
      BY <1>5, <2>1
    <3>2. \A s \in 1..Len(history') : history'[s] = 0
      BY <3>1
    <3>3. eng'.expect = 1
      BY <1>4, <1>5, <2>1
    <3>4. \A i, j \in 1..Len(applied') : i < j => applied'[i] < applied'[j]
      BY <1>5 DEF FixInv, AppliedInv
    <3>5. HistoryInv'
      BY <3>1, <3>2, <3>3 DEF HistoryInv
    <3> QED
      BY <3>2, <3>4, <3>5 DEF AppliedInv
  <2>2. CASE ~m.flag
    <3>1. Numbers /\ UNCHANGED <<eng, applied, jumped>>
          /\ fixBudget'.resetting = fixBudget.resetting
      BY <1>4, <1>5, <1>7, <1>1, <2>2 DEF Numbers
    <3> QED
      BY <3>1, NumbersKeeps
  <2> QED
    BY <2>1, <2>2
<1> QED
  BY <1>14, <1>15, <1>16, <1>17 DEF FixInv

\* The venue replies to a ResendRequest, a TestRequest or a Logout.
LEMMA VenueRepliesKeeps ==
  ASSUME FixInv, VenueReplies
  PROVE  FixInv'
<1> DEFINE m == Head(outbound)
<1>1. /\ outbound \in Seq(MsgType) /\ inbound \in Seq(MsgType) /\ conn \in {"down", "up", "on"}
      /\ fixBudget \in [connects : Nat, orders : Nat, admin : Nat, resetting : BOOLEAN]
  BY DEF FixInv, FixTyped
<1>2. conn # "down" /\ outbound # <<>> /\ outbound' = Tail(outbound)
      /\ UNCHANGED <<eng, fills, applied, orderSeqs>>
  BY DEF VenueReplies
<1>3. m = outbound[1] /\ m \in MsgType
  BY <1>1, <1>2
<1>4. CASE m.type = "Logon"
  BY <1>4, LogonReplyKeeps
<1>5. CASE m.type # "Logon"
  <2>1. conn = "on"
    BY <1>1, <1>2, <1>3, <1>5 DEF FixInv, LinkInv
  <2>2. CASE m.type = "ResendRequest" /\ inbound' = inbound \o VenueResend(m.arg)
             /\ UNCHANGED <<conn, history, jumped, fixBudget>>
    <3>1. m.arg \in Int
      BY <1>3 DEF MsgType
    <3> DEFINE r == VenueResend(m.arg)
    <3>2. /\ r \in Seq(MsgType)
          /\ \A i \in 1..Len(r) : r[i].type # "Logon" /\ Truthful(history, r[i])
      BY <3>1, VenueResendIs
    <3>3. inbound' = inbound \o r
      BY <2>2
    <3> HIDE DEF r
    <3>4. Numbers
      BY <1>2, <2>2 DEF Numbers
    <3>5. \A i \in 1..Len(r) : r[i].type # "Logon" /\ (r[i].own => Truthful(history', r[i]))
      BY <2>2, <3>2
    <3> QED
      BY <1>1, <1>2, <2>1, <2>2, <3>2, <3>3, <3>4, <3>5, VenueKeeps
  <2>3. CASE /\ m.type \in {"TestRequest", "Logout"}
             /\ LET r == IF m.type = "Logout" THEN Msg("Logout", 0)
                         ELSE [Msg("Heartbeat", 0) EXCEPT !.flag = TRUE]
                IN  VenueNumbers(r) \/ VenueLoses(r)
             /\ UNCHANGED <<conn, jumped, fixBudget>>
    <3> DEFINE h == Msg("Heartbeat", 0)
               f == [h EXCEPT !.flag = TRUE]
               r == IF m.type = "Logout" THEN Msg("Logout", 0) ELSE f
    <3>1. VenueNumbers(r) \/ VenueLoses(r)
      BY <2>3
    <3>2. /\ h \in MsgType /\ h.type = "Heartbeat" /\ h.own /\ h.fill = 0
          /\ Msg("Logout", 0) \in MsgType /\ Msg("Logout", 0).type = "Logout"
          /\ Msg("Logout", 0).own /\ Msg("Logout", 0).fill = 0
      BY MsgIs DEF FixMsgs
    <3> HIDE DEF h
    <3>3. f \in MsgType /\ f.type = "Heartbeat" /\ f.own /\ f.fill = 0
      BY <3>2 DEF MsgType
    <3> HIDE DEF f
    <3>4. r \in MsgType /\ r.type \in {"Heartbeat", "Logout"} /\ r.own /\ r.fill = 0
      BY <3>2, <3>3
    <3> HIDE DEF r
    <3> QED
      BY <1>1, <1>2, <2>1, <2>3, <3>1, <3>4, VenueNumbersKeeps
  <2> QED
    BY <1>5, <2>2, <2>3 DEF VenueReplies
<1> QED
  BY <1>4, <1>5

\* The next message goes to the engine: a fill that reaches the application is the next of
\* the history, and whatever else moves the expected number passes no fill, or gives it up.
LEMMA ReceiveKeeps ==
  ASSUME FixInv, Receive
  PROVE  FixInv'
<1> DEFINE m == Head(inbound)
           o == Process(eng, m)
           d == Demands(o.responses)
           x == eng.expect
           y == o.eng.expect
           n == Len(history)
           skipped == m.type = "SequenceReset" /\ y > x
<1>1. /\ inbound \in Seq(MsgType) /\ outbound \in Seq(MsgType) /\ inbound # <<>>
      /\ conn \in {"down", "up", "on"} /\ fills \in Nat /\ history \in Seq(0..fills)
      /\ applied \in Seq(1..fills) /\ jumped \subseteq 1..fills /\ Sound(eng, orderSeqs)
  BY DEF FixInv, FixTyped, Receive
<1>2. /\ n \in Nat /\ Len(applied) \in Nat /\ x \in Nat /\ x >= 1 /\ x <= n + 1
      /\ \A s \in 1..n : history[s] \in 0..fills
      /\ \A i \in 1..Len(applied) : applied[i] \in 1..fills
  BY <1>1, SMTT(30) DEF FixInv, HistoryInv, Sound, EngType
<1>3. /\ eng' = o.eng /\ outbound' = outbound \o d
      /\ applied' = (IF o.through THEN Append(applied, m.fill) ELSE applied)
      /\ jumped' = (IF skipped THEN jumped \cup FillsAt(x..(y - 1)) ELSE jumped)
      /\ inbound' = Tail(inbound) /\ UNCHANGED <<conn, history, fills, orderSeqs, fixBudget>>
  BY DEF Receive
<1>4. m = inbound[1] /\ m \in MsgType /\ 1 \in 1..Len(inbound)
  BY <1>1
<1>5. conn = "on" /\ ~fixBudget.resetting
  BY <1>1 DEF FixInv, LinkInv
<1>6. /\ m.own => Truthful(history, m)
      /\ m.type = "Logon" /\ m.flag => eng.expect = 1
  BY <1>4 DEF FixInv, InboundInv
<1>7. Processed(eng, orderSeqs, m, o)
  <2>1. m.own /\ m.type = "Logon" => ~m.dup /\ (m.flag => eng.expect = 1)
    BY <1>6 DEF Truthful
  <2> QED
    BY <1>1, <1>4, <2>1, ProcessIs
<1>8. m.seq \in Nat /\ m.arg \in Int /\ m.fill \in Nat
  BY <1>4 DEF MsgType
<1> HIDE DEF o, m
<1>9. Sound(eng', orderSeqs') /\ Demanded(d) /\ o.through \in BOOLEAN /\ eng'.expect = y
  BY <1>3, <1>7 DEF Processed, Proper
<1>10. /\ inbound' \in Seq(MsgType) /\ Len(inbound) \in Nat /\ Len(inbound') = Len(inbound) - 1
       /\ \A i \in 1..Len(inbound') : inbound'[i] = inbound[i + 1]
  BY <1>1, <1>3, HeadTailProperties
<1>11. InboundInv'
  <2>1. ASSUME NEW i \in 1..Len(inbound')
        PROVE  /\ inbound'[i].own => Truthful(history', inbound'[i])
               /\ ~(inbound'[i].type = "Logon" /\ inbound'[i].flag)
    <3>1. i + 1 \in 1..Len(inbound) /\ i + 1 # 1 /\ inbound'[i] = inbound[i + 1]
      BY <1>10
    <3>2. history' = history
      BY <1>3
    <3> QED
      BY <3>1, <3>2 DEF FixInv, InboundInv
  <2> QED
    BY <2>1 DEF InboundInv
<1>12. /\ outbound' \in Seq(MsgType)
       /\ \A i \in DOMAIN outbound' :
            outbound'[i].type \in {"ResendRequest", "Logout", "TestRequest"}
  <2>1. d \in Seq(MsgType) /\ \A i \in 1..Len(d) : d[i].type \in {"ResendRequest", "Logout"}
    BY <1>9 DEF Demanded
  <2>2. \A i \in 1..Len(outbound) :
          outbound[i].type \in {"ResendRequest", "Logout", "TestRequest"}
    BY <1>1, <1>5 DEF FixInv, LinkInv
  <2> HIDE DEF d
  <2>3. /\ outbound' \in Seq(MsgType) /\ Len(outbound') = Len(outbound) + Len(d)
        /\ \A i \in 1..Len(outbound') :
             outbound'[i] = IF i <= Len(outbound) THEN outbound[i] ELSE d[i - Len(outbound)]
        /\ Len(outbound) \in Nat /\ Len(d) \in Nat /\ DOMAIN outbound' = 1..Len(outbound')
    BY <1>1, <1>3, <2>1, ConcatProperties
  <2>4. ASSUME NEW i \in 1..Len(outbound')
        PROVE  outbound'[i].type \in {"ResendRequest", "Logout", "TestRequest"}
    <3>1. CASE i <= Len(outbound)
      BY <2>2, <2>3, <3>1
    <3>2. CASE ~(i <= Len(outbound))
      <4>1. i - Len(outbound) \in 1..Len(d)
        BY <2>3, <3>2
      <4> QED
        BY <2>1, <2>3, <3>2, <4>1
    <3> QED
      BY <3>1, <3>2
  <2> QED
    BY <2>3, <2>4
<1>13. LinkInv'
  BY <1>3, <1>5, <1>12 DEF LinkInv
<1> DEFINE After1 == \A s \in 1..n : s < y /\ history[s] # 0 =>
                       history[s] \in jumped' \/ \E i \in 1..Len(applied') : applied'[i] = history[s]
           After2 == \A s \in 1..n : s >= y /\ history[s] # 0 =>
                       \A i \in 1..Len(applied') : applied'[i] < history[s]
           Up == \A i, j \in 1..Len(applied') : i < j => applied'[i] < applied'[j]
           Goal == /\ y <= n + 1 /\ applied' \in Seq(1..fills) /\ jumped' \subseteq 1..fills
                   /\ Up /\ After1 /\ After2
<1>14. /\ \A i, j \in 1..Len(applied) : i < j => applied[i] < applied[j]
       /\ \A s \in 1..n : s < x /\ history[s] # 0 =>
            history[s] \in jumped \/ \E i \in 1..Len(applied) : applied[i] = history[s]
       /\ \A s \in 1..n : s >= x /\ history[s] # 0 =>
            \A i \in 1..Len(applied) : applied[i] < history[s]
       /\ \A s, t \in 1..n :
            s < t /\ history[s] # 0 /\ history[t] # 0 => history[s] < history[t]
  BY <1>5 DEF FixInv, AppliedInv, HistoryInv
<1> HIDE DEF d, x, y, n
<1>15. Goal
  <2>1. CASE y = x /\ ~o.through
    <3>1. applied' = applied /\ jumped' = jumped
      BY <1>2, <1>3, <2>1
    <3> QED
      BY <1>1, <1>2, <1>14, <2>1, <3>1
  <2>2. CASE m.own /\ m.type = "SequenceReset" /\ x < m.arg /\ y = m.arg /\ ~o.through
    <3>1. applied' = applied /\ jumped' = jumped \cup FillsAt(x..(y - 1))
      BY <1>2, <1>3, <1>8, <2>2
    <3>2. y <= n + 1 /\ y \in Int /\ x < y
      BY <1>6, <1>8, <2>2 DEF Truthful, n
    <3>3. FillsAt(x..(y - 1)) \subseteq 1..fills
      <4>1. DOMAIN history = 1..n
        BY <1>1 DEF n
      <4>2. \A s \in 1..n : history[s] # 0 => history[s] \in 1..fills
        BY <1>1, <1>2
      <4> QED
        BY <4>1, <4>2 DEF FillsAt
    <3>4. \A s \in 1..n : s >= x /\ s < y /\ history[s] # 0 => history[s] \in FillsAt(x..(y - 1))
      <4>1. DOMAIN history = 1..n
        BY <1>1 DEF n
      <4>2. \A s \in 1..n : s >= x /\ s < y => s \in x..(y - 1)
        BY <1>2, <3>2
      <4> QED
        BY <4>1, <4>2 DEF FillsAt
    <3>5. After1
      <4>1. \A s \in 1..n : s < x \/ s >= x
        BY <1>2
      <4> QED
        BY <1>14, <3>1, <3>4, <4>1
    <3>6. \A s \in 1..n : s >= y => s >= x
      BY <1>2, <3>2
    <3>7. After2 /\ Up
      BY <1>14, <3>1, <3>6
    <3> QED
      BY <1>1, <3>1, <3>2, <3>3, <3>5, <3>7
  <2>3. CASE /\ m.own /\ m.type = "GapFill" /\ m.seq = x /\ x < m.arg /\ y = m.arg
             /\ ~o.through
    <3>1. applied' = applied /\ jumped' = jumped
      BY <1>3, <2>3
    <3>2. y <= n + 1 /\ y \in Int /\ x < y /\ \A s \in x..(y - 1) : history[s] = 0
      BY <1>6, <1>8, <2>3 DEF Truthful, n
    <3>3. \A s \in 1..n : /\ s < y /\ history[s] # 0 => s < x
                          /\ s >= y => s >= x
      BY <1>2, <3>2
    <3> QED
      BY <1>1, <1>14, <3>1, <3>2, <3>3
  <2>4. CASE /\ m.own /\ m.type \notin {"SequenceReset", "GapFill"} /\ m.seq = x
             /\ y = x + 1 /\ (o.through <=> m.type = "App")
    <3>1. jumped' = jumped
      BY <1>3, <2>4
    <3>2. x \in 1..n /\ y <= n + 1 /\ y \in Int
      BY <1>2, <1>6, <2>4 DEF Truthful, n
    <3>3. \A s \in 1..n : /\ s < y => s < x \/ s = x
                          /\ s >= y => s >= x /\ x < s
      BY <1>2, <2>4, <3>2
    <3>4. CASE m.type # "App"
      <4>1. applied' = applied /\ history[x] = 0
        BY <1>3, <1>6, <2>4, <3>4 DEF Truthful
      <4> QED
        BY <1>1, <1>14, <3>1, <3>2, <3>3, <4>1
    <3>5. CASE m.type = "App"
      <4> DEFINE k == Len(applied)
      <4>1. /\ applied' = Append(applied, m.fill) /\ m.fill = history[x] /\ history[x] # 0
        BY <1>3, <1>6, <2>4, <3>5 DEF Truthful
      <4>2. m.fill \in 1..fills
        BY <1>1, <1>2, <3>2, <4>1
      <4>3. /\ applied' \in Seq(1..fills) /\ Len(applied') = k + 1 /\ applied'[k + 1] = history[x]
            /\ \A i \in 1..k : applied'[i] = applied[i]
        BY <1>1, <4>1, <4>2, AppendProperties
      <4>4. /\ \A i \in 1..(k + 1) : i \in 1..k \/ i = k + 1
            /\ \A i, j \in 1..(k + 1) : i < j => i \in 1..k
            /\ k + 1 \in 1..(k + 1) /\ \A i \in 1..k : i \in 1..(k + 1)
        BY <1>2
      <4>x. x >= x
        BY <1>2
      <4>5. \A i \in 1..k : applied[i] < history[x]
        BY <1>14, <3>2, <4>1, <4>x
      <4> HIDE DEF k
      <4>6. Up
        BY <1>14, <4>3, <4>4, <4>5 DEF k
      <4>7. After1
        <5> SUFFICES ASSUME NEW s \in 1..n, s < y, history[s] # 0
                     PROVE  history[s] \in jumped'
                            \/ \E i \in 1..Len(applied') : applied'[i] = history[s]
          OBVIOUS
        <5>1. CASE s = x
          BY <4>3, <4>4, <5>1
        <5>2. CASE s < x
          <6>1. history[s] \in jumped \/ \E i \in 1..k : applied[i] = history[s]
            BY <1>14, <5>2 DEF k
          <6> QED
            BY <3>1, <4>3, <4>4, <6>1
        <5> QED
          BY <3>3, <5>1, <5>2
      <4>8. After2
        <5> SUFFICES ASSUME NEW s \in 1..n, s >= y, history[s] # 0, NEW i \in 1..Len(applied')
                     PROVE  applied'[i] < history[s]
          OBVIOUS
        <5>1. s >= x /\ x < s
          BY <3>3
        <5>2. CASE i \in 1..k
          BY <1>14, <4>3, <5>1, <5>2 DEF k
        <5>3. CASE i = k + 1
          BY <1>14, <3>2, <4>1, <4>3, <5>1, <5>3
        <5> QED
          BY <4>3, <4>4, <5>2, <5>3
      <4> QED
        BY <1>1, <3>1, <3>2, <4>3, <4>6, <4>7, <4>8
    <3> QED
      BY <3>4, <3>5
  <2> QED
    BY <1>7, <2>1, <2>2, <2>3, <2>4 DEF Processed, Moves, x, y
<1>16. history' = history /\ fills' = fills /\ conn' = conn /\ fixBudget' = fixBudget
  BY <1>3
<1>17. FixTyped'
  <2>1. fixBudget \in [connects : Nat, orders : Nat, admin : Nat, resetting : BOOLEAN]
    BY DEF FixInv, FixTyped
  <2> QED
    BY <1>1, <1>9, <1>10, <1>12, <1>15, <1>16, <2>1 DEF FixTyped
<1>18. HistoryInv'
  BY <1>9, <1>14, <1>15, <1>16 DEF HistoryInv, n
<1>19. AppliedInv'
  BY <1>9, <1>15, <1>16 DEF AppliedInv, n
<1> QED
  BY <1>11, <1>13, <1>17, <1>18, <1>19 DEF FixInv

\* Every step of the session, and every stutter, keeps the inductive invariant.
LEMMA FixStep == FixInv /\ [FixNext]_fixVars => FixInv'
<1> SUFFICES ASSUME FixInv, [FixNext]_fixVars PROVE FixInv'
  OBVIOUS
<1>1. CASE UNCHANGED fixVars
  <2>1. UNCHANGED <<eng, conn, inbound, outbound, history, fills, applied, jumped, orderSeqs,
                    fixBudget>>
    BY <1>1 DEF fixVars
  <2>2. FixTyped' /\ LinkInv'
    BY <2>1 DEF FixInv, FixTyped, LinkInv
  <2>3. HistoryInv' /\ InboundInv' /\ AppliedInv'
    BY <2>1 DEF FixInv, HistoryInv, InboundInv, AppliedInv
  <2> QED
    BY <2>2, <2>3 DEF FixInv
<1>2. CASE FixNext
  <2>1. CASE \E reset \in BOOLEAN : InitiateLogon(reset)
    BY <2>1, InitiateLogonKeeps
  <2>2. CASE ConnectionLost
    BY <2>2, ConnectionLostKeeps
  <2>3. CASE SendOrder
    BY <2>3, SendOrderKeeps
  <2>4. CASE InitiateLogout
    BY <2>4, InitiateLogoutKeeps
  <2>5. CASE \E idle, silent \in BOOLEAN : CheckLiveness(idle, silent)
    BY <2>5, CheckLivenessKeeps
  <2>6. CASE Receive
    BY <2>6, ReceiveKeeps
  <2>7. CASE VenueReports
    BY <2>7, VenueReportsKeeps
  <2>8. CASE VenueAdmin
    BY <2>8, VenueAdminKeeps
  <2>9. CASE VenueResets \/ Misrouted
    BY <2>9, VenueResetsKeeps
  <2>10. CASE VenueReplies
    BY <2>10, VenueRepliesKeeps
  <2>11. CASE FixDone
    BY <1>1, <2>11 DEF FixDone
  <2> QED
    BY <1>2, <2>1, <2>2, <2>3, <2>4, <2>5, <2>6, <2>7, <2>8, <2>9, <2>10, <2>11 DEF FixNext
<1> QED
  BY <1>1, <1>2

\* The inductive invariant says what FixFillsOnce says of the numbers below the expected one.
LEMMA OnceFollows == FixInv => FixFillsOnce
<1> SUFFICES ASSUME FixInv PROVE FixFillsOnce
  OBVIOUS
<1>1. /\ history \in Seq(0..fills) /\ applied \in Seq(1..fills) /\ eng.expect \in Nat
  BY DEF FixInv, FixTyped, Sound, EngType
<1>2. DOMAIN history = 1..Len(history) /\ DOMAIN applied = 1..Len(applied)
      /\ Len(history) \in Nat
  BY <1>1
<1>3. ASSUME NEW f \in FillsAt(1..(eng.expect - 1)) PROVE f \in Range(applied) \cup jumped
  <2>1. PICK s \in 1..Len(history) : s \in 1..(eng.expect - 1) /\ f = history[s] /\ f # 0
    BY <1>2 DEF FillsAt
  <2>2. s < eng.expect
    BY <1>1, <2>1
  <2>3. f \in jumped \/ \E i \in 1..Len(applied) : applied[i] = f
    BY <2>1, <2>2 DEF FixInv, AppliedInv
  <2> QED
    BY <1>2, <2>3 DEF Range
<1>4. \A i, j \in DOMAIN applied : i < j => applied[i] < applied[j]
  BY <1>2 DEF FixInv, AppliedInv
<1> QED
  BY <1>3, <1>4 DEF FixFillsOnce

\* A sound buffer holds no more than ResendBufferSize messages.
LEMMA BufferIsBounded ==
  ASSUME NEW e, NEW Q, Sound(e, Q)
  PROVE  /\ Cardinality(e.sent) <= ResendBufferSize
         /\ e.sent \subseteq [seq : 1..(e.out - 1), app : BOOLEAN]
<1> DEFINE k == ResendBufferSize
           R == Retained(e.out)
           f == [s \in R |-> Entry(Q, s)]
<1>1. e.out \in Nat /\ k \in Nat /\ e.sent = {Entry(Q, s) : s \in R}
  BY FixAssumption DEF Sound, EngType
<1>2. R \subseteq (e.out - k)..(e.out - 1) /\ R \subseteq 1..(e.out - 1)
  BY <1>1 DEF Retained
<1>3. /\ IsFiniteSet((e.out - k)..(e.out - 1)) /\ Cardinality((e.out - k)..(e.out - 1)) <= k
  <2>1. e.out - k \in Int /\ e.out - 1 \in Int
    BY <1>1
  <2>2. IsFiniteSet((e.out - k)..(e.out - 1))
        /\ Cardinality((e.out - k)..(e.out - 1)) =
             IF e.out - k > e.out - 1 THEN 0 ELSE (e.out - 1) - (e.out - k) + 1
    BY <2>1, FS_Interval
  <2> QED
    BY <1>1, <2>2
<1> HIDE DEF R, k
<1>4. IsFiniteSet(R) /\ Cardinality(R) <= Cardinality((e.out - k)..(e.out - 1))
  BY <1>2, <1>3, FS_Subset
<1>5. f \in Surjection(R, e.sent)
  <2>1. f \in [R -> e.sent]
    BY <1>1
  <2>2. \A t \in e.sent : \E s \in R : f[s] = t
    BY <1>1
  <2> QED
    BY <2>1, <2>2 DEF Surjection
<1> HIDE DEF f
<1>6. IsFiniteSet(e.sent) /\ Cardinality(e.sent) <= Cardinality(R)
  BY <1>4, <1>5, FS_Surjection
<1>7. /\ Cardinality(e.sent) \in Nat /\ Cardinality(R) \in Nat
      /\ Cardinality((e.out - k)..(e.out - 1)) \in Nat
  BY <1>3, <1>4, <1>6, FS_CardinalityType
<1>8. e.sent \subseteq [seq : 1..(e.out - 1), app : BOOLEAN]
  <2>1. \A s \in R : Entry(Q, s) \in [seq : 1..(e.out - 1), app : BOOLEAN]
    BY <1>2 DEF Entry
  <2> QED
    BY <1>1, <2>1
<1> QED
  BY <1>1, <1>3, <1>4, <1>6, <1>7, <1>8 DEF k

\* The types and capacities of the session.
LEMMA FixTypesFollow == FixInv => FixTypeOK
<1> SUFFICES ASSUME FixInv PROVE FixTypeOK
  OBVIOUS
<1>1. Sound(eng, orderSeqs)
  BY DEF FixInv, FixTyped
<1>2. /\ eng.state \in FixStates /\ eng.out \in Nat /\ eng.expect \in Nat \ {0}
      /\ eng.probe \in BOOLEAN /\ orderSeqs \subseteq 1..(eng.out - 1)
  BY <1>1 DEF Sound, EngType
<1> QED
  BY <1>1, <1>2, BufferIsBounded DEF FixTypeOK, FixInv, FixTyped

\* A sound buffer can replay exactly the orders it has to hold.
LEMMA ResendFollows ==
  ASSUME Sound(eng, orderSeqs)
  PROVE  FixResendIsFaithful
<1>1. /\ eng.out \in Nat /\ eng.out >= 1 /\ ResendBufferSize \in Nat
      /\ orderSeqs \subseteq 1..(eng.out - 1)
      /\ eng.sent = {Entry(orderSeqs, s) : s \in Retained(eng.out)}
  BY FixAssumption DEF Sound, EngType
<1>2. ASSUME NEW s \in 1..(eng.out - 1)
      PROVE  Replayable(eng, s) <=> s \in orderSeqs /\ s >= eng.out - ResendBufferSize
  <2>1. \A t : Entry(orderSeqs, t).seq = t /\ (Entry(orderSeqs, t).app <=> t \in orderSeqs)
    BY DEF Entry
  <2>2. Replayable(eng, s) <=> s \in Retained(eng.out) /\ s \in orderSeqs
    <3>1. ASSUME s \in Retained(eng.out), s \in orderSeqs
          PROVE  \E m \in eng.sent : m.seq = s /\ m.app
      BY <1>1, <2>1, <3>1
    <3>2. ASSUME NEW m \in eng.sent, m.seq = s, m.app
          PROVE  s \in Retained(eng.out) /\ s \in orderSeqs
      BY <1>1, <2>1, <3>2
    <3> QED
      BY <3>1, <3>2 DEF Replayable
  <2>3. s \in Retained(eng.out) <=> s >= eng.out - ResendBufferSize
    BY <1>1 DEF Retained
  <2> QED
    BY <2>2, <2>3
<1>3. ASSUME NEW begin \in 1..(eng.out - 1), NEW end \in 0..eng.out
      PROVE  LET last == IF end = 0 \/ end >= eng.out THEN eng.out - 1 ELSE end
                 answer == BuildResendResponse(eng, begin, end)
                 next(i) == IF answer[i].type = "App" THEN answer[i].seq + 1 ELSE answer[i].arg
             IN  begin <= last =>
                   /\ answer # <<>> /\ answer[1].seq = begin /\ next(Len(answer)) = last + 1
                   /\ \A i \in 2..Len(answer) : answer[i].seq = next(i - 1)
                   /\ {answer[i].seq : i \in {k \in DOMAIN answer : answer[k].type = "App"}}
                        = {s \in orderSeqs : begin <= s /\ s <= last
                                             /\ s >= eng.out - ResendBufferSize}
  <2> DEFINE last == IF end = 0 \/ end >= eng.out THEN eng.out - 1 ELSE end
             answer == BuildResendResponse(eng, begin, end)
             next(i) == IF answer[i].type = "App" THEN answer[i].seq + 1 ELSE answer[i].arg
  <2> SUFFICES ASSUME begin <= last
               PROVE  /\ answer # <<>> /\ answer[1].seq = begin /\ next(Len(answer)) = last + 1
                      /\ \A i \in 2..Len(answer) : answer[i].seq = next(i - 1)
                      /\ {answer[i].seq : i \in {k \in DOMAIN answer : answer[k].type = "App"}}
                           = {s \in orderSeqs : begin <= s /\ s <= last
                                                /\ s >= eng.out - ResendBufferSize}
    OBVIOUS
  <2>1. begin \in Int /\ begin >= 1 /\ end \in Int /\ last \in Int /\ last < eng.out
    BY <1>1
  <2>2. LastAsked(eng, end) = last
    BY <1>1 DEF LastAsked
  <2> HIDE DEF last, answer
  <2>3. /\ answer \in Seq(MsgType) /\ \A i \in DOMAIN answer : Faithful(eng, answer[i], last)
        /\ Len(answer) >= 1 /\ answer[1].seq = begin /\ After(answer[Len(answer)]) = last + 1
        /\ \A i \in 2..Len(answer) : answer[i].seq = After(answer[i - 1])
        /\ \A i \in DOMAIN answer : answer[i].seq >= begin
        /\ \A s \in begin..last : Replayable(eng, s) => \E i \in DOMAIN answer : answer[i].seq = s
    <3>1. eng.out \in Nat /\ begin \in Int /\ end \in Int
      BY <1>1, <2>1
    <3>2. Walks(eng, begin, last, answer)
      BY <2>2, <3>1, ResponseWalks DEF answer
    <3> QED
      BY <2>1, <3>2 DEF Walks
  <2>4. answer # <<>>
    BY <2>3
  <2>5. next(Len(answer)) = After(answer[Len(answer)])
        /\ \A i \in 2..Len(answer) : next(i - 1) = After(answer[i - 1])
    BY DEF After
  <2> HIDE DEF next
  <2>6. ASSUME NEW i \in DOMAIN answer, answer[i].type = "App"
        PROVE  /\ answer[i].seq \in orderSeqs /\ begin <= answer[i].seq /\ answer[i].seq <= last
               /\ answer[i].seq >= eng.out - ResendBufferSize
    <3>1. /\ Faithful(eng, answer[i], last) /\ answer[i].seq >= begin
      BY <2>3
    <3>2. /\ answer[i].seq \in Nat /\ answer[i].seq <= last /\ Replayable(eng, answer[i].seq)
      BY <2>6, <3>1 DEF Faithful
    <3>3. answer[i].seq \in 1..(eng.out - 1)
      BY <1>1, <2>1, <3>1, <3>2
    <3> QED
      BY <1>2, <2>1, <3>1, <3>2, <3>3
  <2>7. ASSUME NEW s \in orderSeqs, begin <= s, s <= last, s >= eng.out - ResendBufferSize
        PROVE  \E i \in DOMAIN answer : answer[i].type = "App" /\ answer[i].seq = s
    <3>1. s \in 1..(eng.out - 1) /\ s \in begin..last
      BY <1>1, <2>1, <2>7
    <3>2. Replayable(eng, s)
      BY <1>2, <2>7, <3>1
    <3>3. PICK i \in DOMAIN answer : answer[i].seq = s
      BY <2>3, <3>1, <3>2
    <3> QED
      BY <2>3, <3>2, <3>3 DEF Faithful
  <2>8. {answer[i].seq : i \in {k \in DOMAIN answer : answer[k].type = "App"}}
          = {s \in orderSeqs : begin <= s /\ s <= last /\ s >= eng.out - ResendBufferSize}
    BY <2>6, <2>7
  <2> QED
    BY <2>3, <2>4, <2>5, <2>8
<1> QED
  BY <1>3 DEF FixResendIsFaithful

\* Types and capacities of the FIX engine: whatever the venue, the connection and the caller
\* do, the resend buffer keeps to its size and holds numbers that were given out.
THEOREM FixTypesHold == FixSpec => []FixTypeOK
<1>1. FixSpec => []FixInv
  BY FixStart, FixStep, PTL DEF FixSpec
<1> QED
  BY <1>1, FixTypesFollow, PTL

\* Fills that come in over a FIX session are applied once and in order, over gaps, replays,
\* resets and reconnects, and the expected number never passes a fill that was not applied
\* unless the venue gave it up.
THEOREM FixFillsApplyOnce == FixSpec => []FixFillsOnce
<1>1. FixSpec => []FixInv
  BY FixStart, FixStep, PTL DEF FixSpec
<1> QED
  BY <1>1, OnceFollows, PTL

\* Every answer to a ResendRequest covers its range without a hole and replays exactly the
\* orders the buffer has to hold, for any buffer size and any history of logons and probes.
THEOREM FixResendsAreFaithful == FixSpec => []FixResendIsFaithful
<1>1. FixSpec => []FixInv
  BY FixStart, FixStep, PTL DEF FixSpec
<1>2. FixInv => FixResendIsFaithful
  BY ResendFollows DEF FixInv, FixTyped
<1> QED
  BY <1>1, <1>2, PTL

-------------------------------------------------------------------------------
\* The store's claims: no more than its capacity, each with a place of its own in the
\* order they were taken.
ClaimsInv ==
  /\ IsFiniteSet(claims) /\ Cardinality(claims) <= MaxTracked
  /\ \A c \in claims : c.n \in Nat /\ c.at <= whClock
  /\ \A c, d \in claims : c.n = d.n => c = d

\* _enforce_capacity_locked: what stays of any finite number of claims fits the capacity,
\* because no two of those that stay have the same number of claims from them onwards.
LEMMA KeptFit ==
  ASSUME NEW S, IsFiniteSet(S), \A c \in S : c.n \in Nat, \A c, d \in S : c.n = d.n => c = d
  PROVE  IsFiniteSet(KeptClaims(S)) /\ Cardinality(KeptClaims(S)) <= MaxTracked
<1> DEFINE from(c) == {d \in S : d.n >= c.n}
           K == KeptClaims(S)
           f == [c \in K |-> Cardinality(from(c))]
<1>1. K \subseteq S /\ \A c \in K : Cardinality(from(c)) <= MaxTracked
  BY DEF KeptClaims
<1>2. ASSUME NEW c \in S
      PROVE  /\ IsFiniteSet(from(c)) /\ Cardinality(from(c)) \in Nat /\ Cardinality(from(c)) # 0
             /\ from(c) \in SUBSET S
  <2>1. from(c) \in SUBSET S /\ c \in from(c)
    OBVIOUS
  <2> HIDE DEF from
  <2> QED
    BY <2>1, FS_Subset, FS_EmptySet, FS_CardinalityType
<1>3. ASSUME NEW c \in S, NEW d \in S, c.n < d.n
      PROVE  Cardinality(from(d)) < Cardinality(from(c))
  <2>1. c.n \in Nat /\ d.n \in Nat /\ \A u \in S : u.n \in Nat
    OBVIOUS
  <2>2. c \in from(c) /\ c \notin from(d)
    BY <1>3, <2>1
  <2>3. \A u \in S : u.n >= d.n => u.n >= c.n
    BY <1>3, <2>1
  <2>4. from(d) \in SUBSET from(c)
    BY <2>3
  <2>5. /\ IsFiniteSet(from(c)) /\ Cardinality(from(c)) \in Nat /\ Cardinality(from(d)) \in Nat
    BY <1>2
  <2> HIDE DEF from
  <2>6. /\ Cardinality(from(d)) <= Cardinality(from(c))
        /\ Cardinality(from(c)) = Cardinality(from(d)) => from(c) = from(d)
    BY <2>4, <2>5, FS_Subset
  <2> QED
    BY <2>2, <2>5, <2>6
<1> HIDE DEF from, K
<1>4. MaxTracked \in Nat
  BY WebhookAssumption
<1>5. \A c \in K : f[c] \in 1..MaxTracked
  BY <1>1, <1>2, <1>4
<1>6. ASSUME NEW c \in K, NEW d \in K, f[c] = f[d]
      PROVE  c = d
  <2>1. c \in S /\ d \in S /\ c.n \in Nat /\ d.n \in Nat
    BY <1>1
  <2>2. Cardinality(from(c)) = Cardinality(from(d)) /\ Cardinality(from(c)) \in Nat
    BY <1>2, <1>6, <2>1
  <2>3. ~(c.n < d.n) /\ ~(d.n < c.n)
    BY <1>3, <2>1, <2>2
  <2> QED
    BY <2>1, <2>3
<1>7. f \in Injection(K, 1..MaxTracked)
  BY <1>5, <1>6 DEF Injection, IsInjective
<1>8. IsFiniteSet(1..MaxTracked) /\ Cardinality(1..MaxTracked) = MaxTracked
  BY <1>4, FS_Interval, WebhookAssumption
<1> HIDE DEF f
<1>9. IsFiniteSet(K) /\ Cardinality(K) <= Cardinality(1..MaxTracked)
  BY <1>7, <1>8, FS_Injection
<1> QED
  BY <1>8, <1>9 DEF K

\* A subset of the claims keeps what the claims have.
LEMMA FewerClaims ==
  ASSUME WhInv, ClaimsInv, claims' \subseteq claims, whClock' = whClock
  PROVE  ClaimsInv'
<1>1. IsFiniteSet(claims) /\ claims' \in SUBSET claims
  BY DEF ClaimsInv
<1>2. IsFiniteSet(claims') /\ Cardinality(claims') <= Cardinality(claims)
  BY <1>1, FS_Subset
<1>3. Cardinality(claims') \in Nat /\ Cardinality(claims) \in Nat /\ MaxTracked \in Nat
  BY <1>1, <1>2, FS_CardinalityType, WebhookAssumption
<1>4. Cardinality(claims') <= MaxTracked
  BY <1>2, <1>3 DEF ClaimsInv
<1> QED
  BY <1>2, <1>4 DEF ClaimsInv

\* The place a new claim takes is after those of all the others.
LEMMA LastPlace ==
  ASSUME NEW S, IsFiniteSet(S), \A c \in S : c.n \in Nat
  PROVE  LET last == CHOOSE n \in {0} \cup {c.n : c \in S} : \A c \in S : c.n <= n
         IN  last \in Nat /\ \A c \in S : c.n <= last
<1> DEFINE places == {c.n : c \in S}
           N == {0} \cup places
           P(n) == \A c \in S : c.n <= n
           f == [c \in S |-> c.n]
<1>1. f \in Surjection(S, places)
  BY DEF Surjection
<1>2. IsFiniteSet(places)
  <2> HIDE DEF f, places
  <2> QED
    BY <1>1, FS_Surjection
<1>3. N \subseteq Nat /\ N \subseteq Int /\ 0 \in N /\ \A c \in S : c.n \in N
  OBVIOUS
<1>4. IsFiniteSet(N)
  <2> HIDE DEF places
  <2> QED
    BY <1>2, FS_Singleton, FS_Union
<1> HIDE DEF places
<1>5. PICK m \in N : \A t \in N : t <= m
  <2> HIDE DEF N
  <2> QED
    BY <1>3, <1>4, GreatestExists
<1>6. \E n \in N : P(n)
  BY <1>3, <1>5
<1> QED
  BY <1>3, <1>6 DEF places

\* The claims stay within the capacity when an execution is claimed or found claimed.
LEMMA ClaimFits ==
  ASSUME WhInv, ClaimsInv, NEW r \in Requests, ClaimExecution(r)
  PROVE  ClaimsInv'
<1> DEFINE e == request[r].exec
           held == \E c \in Swept : c.exec = e /\ ~Expired(c)
           others == {c \in Swept : c.exec # e}
           last == CHOOSE n \in {0} \cup {c.n : c \in others} : \A c \in others : c.n <= n
           mine == [exec |-> e, at |-> whClock, n |-> last + 1]
           longer == others \cup {mine}
<1>1. Swept \subseteq claims /\ whClock \in Nat
  BY DEF Swept, WhInv, WhTyped
<1>2. whClock' = whClock /\ (claims' = Swept \/ claims' = KeptClaims(longer))
  BY DEF ClaimExecution
<1>3. CASE claims' = Swept
  BY <1>1, <1>2, <1>3, FewerClaims
<1>4. CASE claims' = KeptClaims(longer)
  <2>1. others \in SUBSET claims
    BY <1>1
  <2>2. IsFiniteSet(others) /\ \A c \in others : c.n \in Nat /\ c.at <= whClock
    <3> HIDE DEF others
    <3> QED
      BY <2>1, FS_Subset DEF ClaimsInv
  <2>3. \A c, d \in others : c.n = d.n => c = d
    BY <2>1 DEF ClaimsInv
  <2> HIDE DEF others
  <2>4. last \in Nat /\ \A c \in others : c.n <= last
    BY <2>2, LastPlace
  <2> HIDE DEF last
  <2>5. mine.n = last + 1 /\ mine.at = whClock
    OBVIOUS
  <2> HIDE DEF mine
  <2>6. IsFiniteSet(longer)
    BY <2>2, FS_AddElement
  <2>7. \A c \in longer : c.n \in Nat /\ c.at <= whClock
    BY <1>1, <2>2, <2>4, <2>5
  <2>8. \A c, d \in longer : c.n = d.n => c = d
    BY <2>2, <2>3, <2>4, <2>5
  <2> HIDE DEF longer
  <2>9. IsFiniteSet(KeptClaims(longer)) /\ Cardinality(KeptClaims(longer)) <= MaxTracked
    BY <2>6, <2>7, <2>8, KeptFit
  <2>10. KeptClaims(longer) \subseteq longer
    BY DEF KeptClaims
  <2> QED
    BY <1>2, <1>4, <2>7, <2>8, <2>9, <2>10 DEF ClaimsInv
<1> QED
  BY <1>2, <1>3, <1>4

\* Every step keeps the claims within the capacity.
LEMMA ClaimsStep == WhInv /\ ClaimsInv /\ [WhNext]_whVars => ClaimsInv'
<1> SUFFICES ASSUME WhInv, ClaimsInv, [WhNext]_whVars PROVE ClaimsInv'
  OBVIOUS
<1>1. CASE UNCHANGED <<claims, whClock>>
  BY <1>1 DEF ClaimsInv
<1>2. ASSUME NEW r \in Requests, ClaimExecution(r)
      PROVE  ClaimsInv'
  BY <1>2, ClaimFits
<1>3. ASSUME NEW e \in Execs, IsDuplicate(e)
      PROVE  ClaimsInv'
  <2>1. claims' \subseteq claims /\ whClock' = whClock
    BY <1>3 DEF IsDuplicate, Swept
  <2> QED
    BY <2>1, FewerClaims
<1>4. CASE WhTick
  <2>1. claims' = claims /\ whClock' = whClock + 1 /\ whClock \in Nat
    BY <1>4 DEF WhTick, WhInv, WhTyped
  <2>2. \A c \in claims : c.at \in Nat /\ c.at <= whClock
    BY DEF ClaimsInv, WhInv, WhTyped
  <2>3. \A c \in claims : c.at <= whClock'
    BY <2>1, <2>2
  <2> QED
    BY <2>1, <2>3 DEF ClaimsInv
<1>5. ASSUME NEW r \in Requests, Refuse(r) \/ RecordSequence(r) \/ \E e \in Execs : Deliver(r, e)
      PROVE  ClaimsInv'
  BY <1>1, <1>5 DEF Refuse, RecordSequence, Deliver
<1> QED
  BY <1>1, <1>2, <1>3, <1>4, <1>5 DEF WhNext, WhDone, whVars

\* The claim store never holds more claims than max_tracked_executions, whichever
\* executions are delivered, and none is dated in the future; every request is at a step
\* of process_webhook and only executions are recorded as seen.
THEOREM WhTypesHold == WhSpec => []WhTypeOK
<1>1. WhInit => ClaimsInv
  <2>1. WhInit => claims = {} /\ IsFiniteSet({}) /\ Cardinality({}) = 0 /\ 0 <= MaxTracked
    BY FS_EmptySet, WebhookAssumption DEF WhInit
  <2> QED
    BY <2>1 DEF ClaimsInv
<1>2. WhInv /\ ClaimsInv => WhTypeOK
  <2> SUFFICES ASSUME WhInv, ClaimsInv PROVE WhTypeOK
    OBVIOUS
  <2>1. \A c \in claims : c.exec \in Execs /\ c.at \in 0..whClock
    BY DEF WhInv, WhTyped, ClaimsInv
  <2>2. orderState.seen \subseteq Execs
    BY DEF WhInv, WhTyped
  <2> QED
    BY <2>1, <2>2 DEF WhTypeOK, WhInv, WhTyped, ClaimsInv, RequestType
<1> QED
  BY <1>1, <1>2, WhStart, WhStep, ClaimsStep, PTL DEF WhSpec
==============================================================================
