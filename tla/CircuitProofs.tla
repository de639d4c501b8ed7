----------------------------- MODULE CircuitProofs -----------------------------
(***************************************************************************)
(* Proofs about the two circuit breakers: DownstreamBreaker, whose callers *)
(* report back in a generation that may be over, and BrokerFailover, whose *)
(* threads open and reduce a position through two accounts.                *)
(***************************************************************************)
EXTENDS DownstreamBreaker, BrokerFailover, FiniteSetTheorems, TLAPS

BreakerType ==
  [state : {"CLOSED", "OPEN", "HALF_OPEN"}, gen : Nat, failures : 0..FailureThreshold,
   lastFailure : Int, openedAt : Int, timeout : RecoveryTimeout..MaxRecoveryTimeout,
   successes : 0..SuccessThreshold, inFlight : 0..HalfOpenMaxCalls]
PermitType == [state : {"none", "CLOSED", "HALF_OPEN"}, gen : Nat, at : Nat]

\* The counters are below their thresholds in the states that count.
Bounded(b) == b.successes < SuccessThreshold /\ (b.state = "CLOSED" => b.failures < FailureThreshold)

\* The probes in flight of the current generation.
Probes == {c \in Callers : permit[c].state = "HALF_OPEN" /\ permit[c].gen = cb.gen}

CbTyped ==
  /\ cb \in BreakerType /\ Bounded(cb) /\ cbClock \in Nat
  /\ permit \in [Callers -> PermitType]

\* No permit is of a generation to come, and one that was given while the circuit was
\* closed is of the current generation only while it still is.
PermitInv ==
  \A c \in Callers :
    /\ permit[c].state = "none" => permit[c] = NoPermit
    /\ permit[c].gen <= cb.gen
    /\ permit[c].state = "CLOSED" /\ permit[c].gen = cb.gen => cb.state = "CLOSED"

ProbeInv == IsFiniteSet(Probes) /\ cb.inFlight = Cardinality(Probes)

CbInv == CbTyped /\ PermitInv /\ ProbeInv

\* What the report of the call with permit p may make of the breaker b: a new generation
\* without probes, or the same one with the slot of p free again.
Settled(b, p, r) ==
  /\ r \in BreakerType /\ Bounded(r)
  /\ \/ r.gen = b.gen + 1 /\ r.inFlight = 0
     \/ /\ r.gen = b.gen /\ r.state = b.state
        /\ r.inFlight = IF p.state = "HALF_OPEN" /\ p.gen = b.gen THEN b.inFlight - 1
                        ELSE b.inFlight

-----------------------------------------------------------------------------
\* The constants, one by one.
LEMMA CbConstants ==
  /\ FailureThreshold \in Nat /\ FailureThreshold > 0 /\ SuccessThreshold \in Nat
  /\ SuccessThreshold > 0 /\ HalfOpenMaxCalls \in Nat /\ HalfOpenMaxCalls > 0
  /\ RecoveryTimeout \in Nat /\ BackoffMultiplier \in Nat /\ BackoffMultiplier >= 1
  /\ MaxRecoveryTimeout \in Nat /\ RecoveryTimeout <= MaxRecoveryTimeout
BY DownstreamAssumption

\* The lesser of two numbers.
LEMMA MinOfTwo == ASSUME NEW a \in Nat, NEW b \in Nat PROVE Min({a, b}) = IF a <= b THEN a ELSE b
<1> DEFINE m == IF a <= b THEN a ELSE b
<1>1. m \in {a, b} /\ \A y \in {a, b} : m <= y
  OBVIOUS
<1>2. \A x \in {a, b} : (\A y \in {a, b} : x <= y) => x = m
  OBVIOUS
<1> QED
  BY <1>1, <1>2 DEF Min

\* A new generation: no successes, no probes, the rest as it was.
LEMMA EnterIs ==
  ASSUME NEW b \in BreakerType, NEW s \in {"CLOSED", "OPEN", "HALF_OPEN"}
  PROVE  /\ Enter(b, s) \in BreakerType /\ Enter(b, s).state = s
         /\ Enter(b, s).gen = b.gen + 1 /\ Enter(b, s).inFlight = 0
         /\ Enter(b, s).successes = 0 /\ Enter(b, s).failures = b.failures
<1>1. 0 \in 0..SuccessThreshold /\ 0 \in 0..HalfOpenMaxCalls /\ b.gen + 1 \in Nat
  BY CbConstants DEF BreakerType
<1> QED
  BY <1>1 DEF BreakerType, Enter

\* The escalated timeout stays between the configured one and the ceiling.
LEMMA EscalatedTimeout ==
  ASSUME NEW t \in RecoveryTimeout..MaxRecoveryTimeout
  PROVE  Min({t * BackoffMultiplier, MaxRecoveryTimeout}) \in RecoveryTimeout..MaxRecoveryTimeout
<1> DEFINE p == t * BackoffMultiplier
<1>1. t \in Nat /\ t >= RecoveryTimeout
  BY CbConstants
<1>2. p \in Nat /\ p >= t
  <2>1. \A m, k \in Nat : k >= 1 => m * k \in Nat /\ m * k >= m
    OBVIOUS
  <2> QED
    BY <1>1, <2>1, CbConstants
<1> HIDE DEF p
<1>3. Min({p, MaxRecoveryTimeout}) = IF p <= MaxRecoveryTimeout THEN p ELSE MaxRecoveryTimeout
  BY <1>2, CbConstants, MinOfTwo
<1>4. Min({p, MaxRecoveryTimeout}) \in RecoveryTimeout..MaxRecoveryTimeout
  BY <1>1, <1>2, <1>3, CbConstants
<1> QED
  BY <1>4 DEF p

\* _open_locked and _close_locked start a generation with the counters in bounds.
LEMMA OpenIs ==
  ASSUME NEW b \in BreakerType, NEW escalate \in BOOLEAN, cbClock \in Nat
  PROVE  /\ Open(b, escalate) \in BreakerType /\ Bounded(Open(b, escalate))
         /\ Open(b, escalate).gen = b.gen + 1 /\ Open(b, escalate).inFlight = 0
<1> DEFINE e == Enter(b, "OPEN")
           t == IF escalate THEN Min({e.timeout * BackoffMultiplier, MaxRecoveryTimeout})
                ELSE RecoveryTimeout
           o == [e EXCEPT !.openedAt = cbClock, !.timeout = t]
<1>1. /\ e \in BreakerType /\ e.state = "OPEN" /\ e.gen = b.gen + 1 /\ e.inFlight = 0
      /\ e.successes = 0
  BY EnterIs
<1>2. Open(b, escalate) = o
  BY DEF Open
<1> HIDE DEF e
<1>3. t \in RecoveryTimeout..MaxRecoveryTimeout
  <2>1. e.timeout \in RecoveryTimeout..MaxRecoveryTimeout
    BY <1>1 DEF BreakerType
  <2>2. RecoveryTimeout \in RecoveryTimeout..MaxRecoveryTimeout
    BY CbConstants
  <2> QED
    BY <2>1, <2>2, EscalatedTimeout
<1> HIDE DEF t
<1>4. cbClock \in Int
  OBVIOUS
<1>5. /\ o \in BreakerType /\ o.state = "OPEN" /\ o.gen = e.gen /\ o.inFlight = e.inFlight
      /\ o.successes = e.successes
  BY <1>1, <1>3, <1>4 DEF BreakerType
<1> HIDE DEF o
<1>6. Bounded(o)
  BY <1>1, <1>5, CbConstants DEF Bounded
<1> QED
  BY <1>1, <1>2, <1>5, <1>6

\* _close_locked: the circuit is closed, its generation new, its slots and timeout reset.
LEMMA CloseIs ==
  ASSUME NEW b \in BreakerType
  PROVE  /\ Close(b) \in BreakerType /\ Bounded(Close(b))
         /\ Close(b).gen = b.gen + 1 /\ Close(b).inFlight = 0
<1> DEFINE e == Enter(b, "CLOSED")
           o == [e EXCEPT !.failures = 0, !.lastFailure = Never, !.openedAt = Never,
                          !.timeout = RecoveryTimeout]
<1>1. e \in BreakerType /\ e.gen = b.gen + 1 /\ e.inFlight = 0 /\ e.successes = 0
  BY EnterIs
<1>2. Close(b) = o
  BY DEF Close
<1> HIDE DEF e
<1>3. /\ 0 \in 0..FailureThreshold /\ Never \in Int
      /\ RecoveryTimeout \in RecoveryTimeout..MaxRecoveryTimeout
  BY CbConstants DEF Never
<1>4. /\ o \in BreakerType /\ o.gen = e.gen /\ o.inFlight = e.inFlight
      /\ o.successes = e.successes /\ o.failures = 0
  BY <1>1, <1>3 DEF BreakerType
<1> HIDE DEF o
<1>5. Bounded(o)
  BY <1>1, <1>4, CbConstants DEF Bounded
<1> QED
  BY <1>1, <1>2, <1>4, <1>5

\* _release_permit, or the first part of a record: the slot of a probe of this generation.
LEMMA GiveBackIs ==
  ASSUME NEW b \in BreakerType, NEW p \in PermitType, Bounded(b),
         p.state = "HALF_OPEN" /\ p.gen = b.gen => b.inFlight > 0
  PROVE  /\ Settled(b, p, GiveBack(b, p)) /\ GiveBack(b, p).gen = b.gen
         /\ GiveBack(b, p).successes = b.successes /\ GiveBack(b, p).state = b.state
<1>1. CASE p.state = "HALF_OPEN" /\ p.gen = b.gen
  <2> DEFINE r == [b EXCEPT !.inFlight = b.inFlight - 1]
  <2>1. GiveBack(b, p) = r
    BY <1>1 DEF GiveBack
  <2>2. b.inFlight - 1 \in 0..HalfOpenMaxCalls
    <3>1. b.inFlight \in 0..HalfOpenMaxCalls
      BY DEF BreakerType
    <3> QED
      BY <1>1, <3>1, CbConstants
  <2>3. /\ r \in BreakerType /\ r.state = b.state /\ r.gen = b.gen /\ r.successes = b.successes
        /\ r.failures = b.failures /\ r.inFlight = b.inFlight - 1
    BY <2>2 DEF BreakerType
  <2> HIDE DEF r
  <2> QED
    BY <1>1, <2>1, <2>3 DEF Settled, Bounded
<1>2. CASE ~(p.state = "HALF_OPEN" /\ p.gen = b.gen)
  <2>1. GiveBack(b, p) = b
    BY <1>2 DEF GiveBack
  <2> QED
    BY <1>2, <2>1 DEF Settled
<1> QED
  BY <1>1, <1>2

\* _record_success_locked and _record_failure_locked settle the call.
LEMMA SucceededSettles ==
  ASSUME NEW b \in BreakerType, NEW p \in PermitType, Bounded(b),
         p.state = "HALF_OPEN" /\ p.gen = b.gen => b.inFlight > 0
  PROVE  Settled(b, p, Succeeded(b, p))
<1>1. CASE p.gen # b.gen
  BY <1>1 DEF Succeeded, Settled
<1>2. CASE p.gen = b.gen /\ p.state = "HALF_OPEN"
  <2> DEFINE g == GiveBack(b, p)
             c == [g EXCEPT !.successes = g.successes + 1]
  <2>1. /\ Settled(b, p, g) /\ g.gen = b.gen /\ g.successes = b.successes /\ g.state = b.state
    BY <1>2, GiveBackIs
  <2>2. Succeeded(b, p) = IF c.successes >= SuccessThreshold THEN Close(c) ELSE c
    BY <1>2 DEF Succeeded
  <2> HIDE DEF g
  <2>a. g \in BreakerType /\ Bounded(g) /\ g.inFlight = b.inFlight - 1
    <3>1. b.gen # b.gen + 1
      BY DEF BreakerType
    <3> QED
      BY <1>2, <2>1, <3>1 DEF Settled
  <2>3. g.successes + 1 \in 0..SuccessThreshold
    <3>1. g.successes \in 0..SuccessThreshold /\ g.successes < SuccessThreshold
      BY <2>a DEF BreakerType, Bounded
    <3> QED
      BY <3>1, CbConstants
  <2>4. /\ c \in BreakerType /\ c.state = g.state /\ c.gen = g.gen /\ c.inFlight = g.inFlight
        /\ c.failures = g.failures /\ c.successes = g.successes + 1
    BY <2>a, <2>3 DEF BreakerType
  <2> HIDE DEF c
  <2>5. CASE c.successes >= SuccessThreshold
    BY <2>1, <2>2, <2>4, <2>5, CloseIs DEF Settled
  <2>6. CASE ~(c.successes >= SuccessThreshold)
    <3>1. c.successes < SuccessThreshold
      BY <2>3, <2>4, <2>6, CbConstants
    <3>2. Bounded(c)
      BY <2>a, <2>4, <3>1 DEF Bounded
    <3> QED
      BY <1>2, <2>1, <2>2, <2>a, <2>4, <2>6, <3>2 DEF Settled
  <2> QED
    BY <2>5, <2>6
<1>3. CASE p.gen = b.gen /\ p.state # "HALF_OPEN"
  <2> DEFINE r == [b EXCEPT !.failures = 0, !.lastFailure = Never]
  <2>1. Succeeded(b, p) = r
    BY <1>3 DEF Succeeded
  <2>2. 0 \in 0..FailureThreshold /\ Never \in Int
    BY CbConstants DEF Never
  <2>3. /\ r \in BreakerType /\ r.state = b.state /\ r.gen = b.gen /\ r.inFlight = b.inFlight
        /\ r.successes = b.successes /\ r.failures = 0
    BY <2>2 DEF BreakerType
  <2> HIDE DEF r
  <2>4. Bounded(r)
    BY <2>3, CbConstants DEF Bounded
  <2> QED
    BY <1>3, <2>1, <2>3, <2>4 DEF Settled
<1> QED
  BY <1>1, <1>2, <1>3

\* A failure recorded with a permit leaves a breaker that has settled that permit.
LEMMA FailedSettles ==
  ASSUME NEW b \in BreakerType, NEW p \in PermitType, Bounded(b), cbClock \in Nat,
         p.state # "none",
         p.state = "HALF_OPEN" /\ p.gen = b.gen => b.inFlight > 0,
         p.state = "CLOSED" /\ p.gen = b.gen => b.state = "CLOSED"
  PROVE  Settled(b, p, Failed(b, p))
<1> DEFINE expired == /\ FailureWindow # 0 /\ b.lastFailure # Never
                      /\ cbClock - b.lastFailure > FailureWindow
           f == (IF expired THEN 0 ELSE b.failures) + 1
           c == [b EXCEPT !.failures = f, !.lastFailure = cbClock]
<1>0. Failed(b, p) = IF p.gen # b.gen THEN b
                     ELSE IF p.state = "HALF_OPEN" THEN Open(GiveBack(b, p), TRUE)
                     ELSE IF c.failures >= FailureThreshold THEN Open(c, FALSE) ELSE c
  BY DEF Failed
<1>f. f = 1 \/ f = b.failures + 1
  OBVIOUS
<1> HIDE DEF f
<1>1. CASE p.gen # b.gen
  BY <1>0, <1>1 DEF Settled
<1>2. CASE p.gen = b.gen /\ p.state = "HALF_OPEN"
  <2>1. GiveBack(b, p) \in BreakerType /\ GiveBack(b, p).gen = b.gen
    BY <1>2, GiveBackIs DEF Settled
  <2> QED
    BY <1>0, <1>2, <2>1, OpenIs DEF Settled
<1>3. CASE p.gen = b.gen /\ p.state = "CLOSED"
  <2>1. f \in 0..FailureThreshold
    <3>1. b.failures \in 0..FailureThreshold /\ b.failures < FailureThreshold
      BY <1>3 DEF BreakerType, Bounded
    <3> QED
      BY <1>f, <3>1, CbConstants
  <2>2. /\ c \in BreakerType /\ c.state = b.state /\ c.gen = b.gen /\ c.inFlight = b.inFlight
        /\ c.successes = b.successes /\ c.failures = f
    <3>1. cbClock \in Int
      OBVIOUS
    <3> HIDE DEF expired
    <3> QED
      BY <2>1, <3>1 DEF BreakerType
  <2> HIDE DEF c
  <2>3. CASE c.failures >= FailureThreshold
    BY <1>0, <1>3, <2>2, <2>3, OpenIs DEF Settled
  <2>4. CASE ~(c.failures >= FailureThreshold)
    <3>1. c.failures < FailureThreshold
      BY <2>1, <2>2, <2>4, CbConstants
    <3>2. Bounded(c)
      BY <2>2, <3>1 DEF Bounded
    <3> QED
      BY <1>0, <1>3, <2>2, <2>4, <3>2 DEF Settled
  <2> QED
    BY <2>3, <2>4
<1> QED
  BY <1>1, <1>2, <1>3 DEF PermitType

\* A new generation has no probes, because no permit is of a generation to come.
LEMMA NewGeneration ==
  ASSUME CbInv, cb' \in BreakerType, Bounded(cb)', cb'.gen = cb.gen + 1, cb'.inFlight = 0,
         permit' \in [Callers -> PermitType], cbClock' \in Nat,
         \A c \in Callers : /\ permit'[c].gen <= cb.gen
                            /\ permit'[c].state = "none" => permit'[c] = NoPermit
  PROVE  CbInv'
<1>1. CbTyped'
  BY DEF CbTyped
<1>2. cb.gen \in Nat /\ \A c \in Callers : permit'[c].gen \in Nat
  BY DEF CbInv, CbTyped, BreakerType, PermitType
<1>3. \A c \in Callers : permit'[c].gen <= cb'.gen /\ permit'[c].gen # cb'.gen
  BY <1>2
<1>4. PermitInv'
  BY <1>3 DEF PermitInv
<1>5. Probes' = {}
  BY <1>3 DEF Probes
<1>6. ProbeInv'
  BY <1>5, FS_EmptySet DEF ProbeInv
<1> QED
  BY <1>1, <1>4, <1>6 DEF CbInv

\* The report of a call that settles it keeps the invariant.
LEMMA ReportKeeps ==
  ASSUME CbInv, NEW c \in Callers, Settled(cb, permit[c], cb'),
         permit' = [permit EXCEPT ![c] = NoPermit], cbClock' = cbClock
  PROVE  CbInv'
<1>a. /\ cb \in BreakerType /\ cb' \in BreakerType /\ Bounded(cb)'
      /\ permit \in [Callers -> PermitType] /\ cbClock' \in Nat /\ PermitInv /\ ProbeInv
  BY DEF CbInv, CbTyped, Settled, Bounded
<1>b. NoPermit \in PermitType /\ NoPermit.state = "none" /\ NoPermit.gen = 0
  BY DEF NoPermit, PermitType
<1>1. /\ permit' \in [Callers -> PermitType] /\ permit'[c] = NoPermit
      /\ \A d \in Callers : d # c => permit'[d] = permit[d]
  BY <1>a, <1>b
<1>2. cb.gen \in Nat
  BY <1>a DEF BreakerType
<1>3. \A d \in Callers : /\ permit'[d].gen <= cb.gen
                         /\ permit'[d].state = "none" => permit'[d] = NoPermit
  BY <1>a, <1>b, <1>1, <1>2 DEF PermitInv
<1>4. CASE cb'.gen = cb.gen + 1 /\ cb'.inFlight = 0
  BY <1>a, <1>1, <1>3, <1>4, NewGeneration
<1>5. CASE /\ cb'.gen = cb.gen /\ cb'.state = cb.state
           /\ cb'.inFlight = IF permit[c].state = "HALF_OPEN" /\ permit[c].gen = cb.gen
                             THEN cb.inFlight - 1 ELSE cb.inFlight
  <2>1. CbTyped'
    BY <1>a, <1>1 DEF CbTyped
  <2>2. PermitInv'
    BY <1>a, <1>b, <1>1, <1>3, <1>5 DEF PermitInv
  <2>3. Probes' = Probes \ {c}
    BY <1>b, <1>1, <1>5 DEF Probes
  <2>4. c \in Probes <=> permit[c].state = "HALF_OPEN" /\ permit[c].gen = cb.gen
    BY DEF Probes
  <2>5. /\ IsFiniteSet(Probes')
        /\ Cardinality(Probes') = IF c \in Probes THEN Cardinality(Probes) - 1
                                  ELSE Cardinality(Probes)
    BY <1>a, <2>3, FS_RemoveElement DEF ProbeInv
  <2>6. ProbeInv'
    BY <1>a, <1>5, <2>4, <2>5 DEF ProbeInv
  <2> QED
    BY <2>1, <2>2, <2>6 DEF CbInv
<1> QED
  BY <1>4, <1>5 DEF Settled

\* In flight a permit of this generation has its slot.
LEMMA ProbeHasSlot ==
  ASSUME CbInv, NEW c \in Callers
  PROVE  permit[c].state = "HALF_OPEN" /\ permit[c].gen = cb.gen => cb.inFlight > 0
<1> SUFFICES ASSUME permit[c].state = "HALF_OPEN", permit[c].gen = cb.gen PROVE cb.inFlight > 0
  OBVIOUS
<1>1. Probes # {}
  BY DEF Probes
<1>2. IsFiniteSet(Probes) /\ cb.inFlight = Cardinality(Probes)
  BY DEF CbInv, ProbeInv
<1>3. Cardinality(Probes) # 0 /\ Cardinality(Probes) \in Nat
  BY <1>1, <1>2, FS_EmptySet, FS_CardinalityType
<1> QED
  BY <1>2, <1>3

\* A permit of the current generation, given in its state; in the half-open one it
\* takes a slot, of which there was one left.
LEMMA GrantKeeps ==
  ASSUME CbInv, NEW c \in Callers, permit[c] = NoPermit, cb.state # "OPEN",
         cb.state = "HALF_OPEN" => cb.inFlight < HalfOpenMaxCalls,
         permit' = [permit EXCEPT ![c] = [state |-> cb.state, gen |-> cb.gen, at |-> cbClock]],
         cb' = IF cb.state = "HALF_OPEN" THEN [cb EXCEPT !.inFlight = @ + 1] ELSE cb,
         cbClock' = cbClock
  PROVE  CbInv'
<1>a. /\ cb \in BreakerType /\ Bounded(cb) /\ permit \in [Callers -> PermitType]
      /\ cbClock \in Nat /\ PermitInv /\ ProbeInv
  BY DEF CbInv, CbTyped
<1> DEFINE p == [state |-> cb.state, gen |-> cb.gen, at |-> cbClock]
<1>1. cb.state \in {"CLOSED", "HALF_OPEN"} /\ cb.gen \in Nat /\ cb.inFlight \in 0..HalfOpenMaxCalls
  BY <1>a DEF BreakerType
<1>2. p \in PermitType /\ p.state = cb.state /\ p.gen = cb.gen
  BY <1>a, <1>1 DEF PermitType
<1> HIDE DEF p
<1>3. /\ permit' \in [Callers -> PermitType] /\ permit'[c] = p
      /\ \A d \in Callers : d # c => permit'[d] = permit[d]
  BY <1>a, <1>2 DEF p
<1>4. c \notin Probes
  BY DEF Probes, NoPermit
<1>5. CASE cb.state = "HALF_OPEN"
  <2> DEFINE b == [cb EXCEPT !.inFlight = cb.inFlight + 1]
  <2>1. cb' = b
    BY <1>5
  <2>2. cb.inFlight + 1 \in 0..HalfOpenMaxCalls
    BY <1>1, <1>5, CbConstants
  <2>3. /\ b \in BreakerType /\ b.state = cb.state /\ b.gen = cb.gen /\ b.failures = cb.failures
        /\ b.successes = cb.successes /\ b.inFlight = cb.inFlight + 1
    BY <1>a, <2>2 DEF BreakerType
  <2> HIDE DEF b
  <2>4. CbTyped'
    BY <1>a, <1>3, <2>1, <2>3 DEF CbTyped, Bounded
  <2>5. PermitInv'
    BY <1>a, <1>1, <1>2, <1>3, <1>5, <2>1, <2>3 DEF PermitInv
  <2>6. Probes' = Probes \cup {c}
    BY <1>2, <1>3, <1>5, <2>1, <2>3 DEF Probes
  <2>7. ProbeInv'
    BY <1>a, <1>4, <2>1, <2>3, <2>6, FS_AddElement DEF ProbeInv
  <2> QED
    BY <2>4, <2>5, <2>7 DEF CbInv
<1>6. CASE cb.state = "CLOSED"
  <2>1. cb' = cb
    BY <1>6
  <2>2. CbTyped'
    BY <1>a, <1>3, <2>1 DEF CbTyped, Bounded
  <2>3. PermitInv'
    BY <1>a, <1>1, <1>2, <1>3, <1>6, <2>1 DEF PermitInv
  <2>4. Probes' = Probes
    BY <1>2, <1>3, <1>4, <1>6, <2>1 DEF Probes
  <2>5. ProbeInv'
    BY <1>a, <2>1, <2>4 DEF ProbeInv
  <2> QED
    BY <2>2, <2>3, <2>5 DEF CbInv
<1> QED
  BY <1>1, <1>5, <1>6

\* An overdue circuit half-opens: a new generation whose first permit, if it is given
\* one, takes the first slot.
LEMMA HalfOpenGrant ==
  ASSUME CbInv, NEW c \in Callers, cb' \in BreakerType, Bounded(cb)', cbClock' \in Nat,
         cb'.gen = cb.gen + 1, cb'.inFlight = 1, permit' \in [Callers -> PermitType],
         permit'[c].state = "HALF_OPEN", permit'[c].gen = cb.gen + 1,
         \A d \in Callers : d # c => permit'[d] = permit[d]
  PROVE  CbInv'
<1>1. CbTyped'
  BY DEF CbTyped
<1>2. /\ cb.gen \in Nat
      /\ \A d \in Callers : /\ permit[d].gen \in Nat /\ permit[d].gen <= cb.gen
                            /\ permit[d].state = "none" => permit[d] = NoPermit
  BY DEF CbInv, CbTyped, PermitInv, BreakerType, PermitType
<1>3. \A d \in Callers : d # c => /\ permit'[d].gen <= cb'.gen /\ permit'[d].gen # cb'.gen
                                  /\ permit'[d].state = "none" => permit'[d] = NoPermit
  BY <1>2
<1>7. permit'[c].gen = cb'.gen /\ cb'.gen <= cb'.gen
  BY <1>2
<1>4. PermitInv'
  BY <1>3, <1>7 DEF PermitInv
<1>5. Probes' = {c}
  BY <1>3, <1>7 DEF Probes
<1>6. ProbeInv'
  BY <1>5, FS_Singleton DEF ProbeInv
<1> QED
  BY <1>1, <1>4, <1>6 DEF CbInv

\* _acquire_permit keeps the invariant.
LEMMA AcquireKeeps ==
  ASSUME CbInv, NEW c \in Callers, AcquirePermit(c) PROVE CbInv'
<1>a. /\ cb \in BreakerType /\ Bounded(cb) /\ permit \in [Callers -> PermitType]
      /\ cbClock \in Nat /\ PermitInv /\ ProbeInv
  BY DEF CbInv, CbTyped
<1> DEFINE b == MaybeHalfOpen(cb)
           refused == b.state = "OPEN" \/ (b.state = "HALF_OPEN" /\ b.inFlight >= HalfOpenMaxCalls)
<1>1. /\ permit[c] = NoPermit /\ cbClock' = cbClock
      /\ IF refused THEN cb' = b /\ UNCHANGED permit
         ELSE /\ cb' = IF b.state = "HALF_OPEN" THEN [b EXCEPT !.inFlight = @ + 1] ELSE b
              /\ permit' = [permit EXCEPT ![c] = [state |-> b.state, gen |-> b.gen, at |-> cbClock]]
  BY DEF AcquirePermit
<1>2. b = cb \/ b = Enter(cb, "HALF_OPEN")
  BY DEF MaybeHalfOpen
<1> HIDE DEF b
<1>3. CASE refused
  <2>1. cb' = b /\ permit' = permit
    BY <1>1, <1>3
  <2>2. CASE b = cb
    <3>1. CbTyped' /\ PermitInv' /\ Probes' = Probes
      BY <1>a, <1>1, <2>1, <2>2 DEF CbTyped, PermitInv, Probes, Bounded
    <3> QED
      BY <1>a, <2>1, <2>2, <3>1 DEF CbInv, ProbeInv
  <2>3. CASE b = Enter(cb, "HALF_OPEN")
    <3>1. /\ b \in BreakerType /\ b.gen = cb.gen + 1 /\ b.inFlight = 0 /\ b.state = "HALF_OPEN"
          /\ b.successes = 0
      BY <1>a, <2>3, EnterIs
    <3>2. Bounded(cb)'
      BY <2>1, <3>1, CbConstants DEF Bounded
    <3>3. \A d \in Callers : /\ permit'[d].gen <= cb.gen
                             /\ permit'[d].state = "none" => permit'[d] = NoPermit
      BY <1>a, <2>1 DEF PermitInv
    <3> QED
      BY <1>a, <1>1, <2>1, <3>1, <3>2, <3>3, NewGeneration
  <2> QED
    BY <1>2, <2>2, <2>3
<1>4. CASE ~refused
  <2>1. /\ cb' = IF b.state = "HALF_OPEN" THEN [b EXCEPT !.inFlight = @ + 1] ELSE b
        /\ permit' = [permit EXCEPT ![c] = [state |-> b.state, gen |-> b.gen, at |-> cbClock]]
        /\ b.state # "OPEN" /\ (b.state = "HALF_OPEN" => ~(b.inFlight >= HalfOpenMaxCalls))
    BY <1>1, <1>4
  <2>2. CASE b = cb
    <3>1. cb.inFlight \in 0..HalfOpenMaxCalls
      BY <1>a DEF BreakerType
    <3>2. cb.state = "HALF_OPEN" => cb.inFlight < HalfOpenMaxCalls
      BY <2>1, <2>2, <3>1, CbConstants
    <3> QED
      BY <1>1, <2>1, <2>2, <3>2, GrantKeeps
  <2>3. CASE b = Enter(cb, "HALF_OPEN")
    <3>1. /\ b \in BreakerType /\ b.gen = cb.gen + 1 /\ b.state = "HALF_OPEN"
          /\ b.inFlight = 0 /\ b.successes = 0
      BY <1>a, <2>3, EnterIs
    <3> DEFINE f == [b EXCEPT !.inFlight = b.inFlight + 1]
               p == [state |-> b.state, gen |-> b.gen, at |-> cbClock]
    <3>2. cb' = f /\ permit' = [permit EXCEPT ![c] = p]
      BY <2>1, <3>1
    <3>3. 1 \in 0..HalfOpenMaxCalls /\ cb.gen + 1 \in Nat
      BY <1>a, CbConstants DEF BreakerType
    <3>4. f \in BreakerType /\ f.gen = b.gen /\ f.successes = 0 /\ f.inFlight = 1 /\ f.state = b.state
      BY <3>1, <3>3 DEF BreakerType
    <3>5. p \in PermitType /\ p.state = "HALF_OPEN" /\ p.gen = b.gen
      BY <1>a, <3>1, <3>3 DEF PermitType
    <3> HIDE DEF f, p
    <3>6. Bounded(cb)'
      BY <3>1, <3>2, <3>4, CbConstants DEF Bounded
    <3>7. /\ permit' \in [Callers -> PermitType] /\ permit'[c] = p
          /\ \A d \in Callers : d # c => permit'[d] = permit[d]
      BY <1>a, <3>2, <3>5
    <3> QED
      BY <1>a, <1>1, <3>1, <3>2, <3>4, <3>5, <3>6, <3>7, HalfOpenGrant
  <2> QED
    BY <1>2, <2>2, <2>3
<1> QED
  BY <1>3, <1>4

\* The start.
LEMMA CbStart == CbInit => CbInv
<1> SUFFICES ASSUME CbInit PROVE CbInv
  OBVIOUS
<1>a. /\ 0 \in 0..FailureThreshold /\ 0 \in 0..SuccessThreshold /\ 0 \in 0..HalfOpenMaxCalls
      /\ Never \in Int /\ RecoveryTimeout \in RecoveryTimeout..MaxRecoveryTimeout
  BY CbConstants DEF Never
<1>1. /\ cb \in BreakerType /\ cb.successes = 0 /\ cb.failures = 0 /\ cb.gen = 0
      /\ cb.inFlight = 0
  BY <1>a DEF CbInit, BreakerType
<1>2. NoPermit \in PermitType /\ NoPermit.state = "none" /\ NoPermit.gen = 0
  BY DEF NoPermit, PermitType
<1>3. permit \in [Callers -> PermitType] /\ \A c \in Callers : permit[c] = NoPermit
  BY <1>2 DEF CbInit
<1>4. CbTyped
  BY <1>1, <1>3, CbConstants DEF CbInit, CbTyped, Bounded
<1>5. PermitInv
  BY <1>1, <1>2, <1>3 DEF PermitInv
<1>6. Probes = {}
  BY <1>2, <1>3 DEF Probes
<1>7. ProbeInv
  BY <1>1, <1>6, FS_EmptySet DEF ProbeInv
<1> QED
  BY <1>4, <1>5, <1>7 DEF CbInv

\* Every step keeps the invariant.
LEMMA CbStep == CbInv /\ [CbNext]_cbVars => CbInv'
<1> SUFFICES ASSUME CbInv, [CbNext]_cbVars PROVE CbInv'
  OBVIOUS
<1>a. /\ cb \in BreakerType /\ Bounded(cb) /\ permit \in [Callers -> PermitType]
      /\ cbClock \in Nat /\ PermitInv /\ ProbeInv
  BY DEF CbInv, CbTyped
<1>1. ASSUME NEW c \in Callers, AcquirePermit(c) PROVE CbInv'
  BY <1>1, AcquireKeeps
<1>2. ASSUME NEW c \in Callers, CallSucceeds(c) \/ CallFails(c) \/ CallReleased(c) PROVE CbInv'
  <2>1. /\ permit[c] # NoPermit /\ permit' = [permit EXCEPT ![c] = NoPermit]
        /\ cbClock' = cbClock /\ permit[c] \in PermitType
    BY <1>a, <1>2 DEF CallSucceeds, CallFails, CallReleased
  <2>2. \/ cb' = Succeeded(cb, permit[c]) \/ cb' = Failed(cb, permit[c])
        \/ cb' = GiveBack(cb, permit[c])
    BY <1>2 DEF CallSucceeds, CallFails, CallReleased
  <2>3. permit[c].state = "HALF_OPEN" /\ permit[c].gen = cb.gen => cb.inFlight > 0
    BY ProbeHasSlot
  <2>4. permit[c].state = "CLOSED" /\ permit[c].gen = cb.gen => cb.state = "CLOSED"
    BY <1>a DEF PermitInv
  <2>5. Settled(cb, permit[c], Succeeded(cb, permit[c]))
    BY <1>a, <2>1, <2>3, SucceededSettles
  <2>6. Settled(cb, permit[c], GiveBack(cb, permit[c]))
    BY <1>a, <2>1, <2>3, GiveBackIs
  <2>7. permit[c].state # "none"
    BY <1>a, <2>1 DEF PermitInv
  <2>8. Settled(cb, permit[c], Failed(cb, permit[c]))
    BY <1>a, <2>1, <2>3, <2>4, <2>7, FailedSettles
  <2>9. Settled(cb, permit[c], cb')
    BY <2>2, <2>5, <2>6, <2>8
  <2> QED
    BY <2>1, <2>9, ReportKeeps
<1>3. CASE Override
  <2>1. /\ cb' = Close(cb) \/ cb' = Open(cb, FALSE)
        /\ permit' = permit /\ cbClock' = cbClock
    BY <1>3 DEF Override
  <2>2. /\ cb' \in BreakerType /\ Bounded(cb)' /\ cb'.gen = cb.gen + 1 /\ cb'.inFlight = 0
    <3>1. CASE cb' = Close(cb)
      BY <1>a, <3>1, CloseIs DEF Bounded
    <3>2. CASE cb' = Open(cb, FALSE)
      BY <1>a, <3>2, OpenIs DEF Bounded
    <3> QED
      BY <2>1, <3>1, <3>2
  <2>3. \A c \in Callers : /\ permit'[c].gen <= cb.gen
                           /\ permit'[c].state = "none" => permit'[c] = NoPermit
    BY <1>a, <2>1 DEF PermitInv
  <2> QED
    BY <1>a, <2>1, <2>2, <2>3, NewGeneration
<1>4. CASE CbTick \/ UNCHANGED cbVars
  <2>1. cb' = cb /\ permit' = permit /\ cbClock' \in Nat
    BY <1>a, <1>4 DEF CbTick, cbVars
  <2>2. CbTyped' /\ PermitInv' /\ Probes' = Probes
    BY <1>a, <2>1 DEF CbTyped, PermitInv, Probes, Bounded
  <2> QED
    BY <1>a, <2>1, <2>2 DEF CbInv, ProbeInv
<1> QED
  BY <1>1, <1>2, <1>3, <1>4 DEF CbNext, CbDone

\* For any number of callers and any thresholds: the half-open slots in use are exactly
\* the probes in flight of the current generation, never more than half_open_max_calls,
\* however late the probes of earlier generations report; and every counter, timeout and
\* state stays in its range.
THEOREM ProbesStayCounted == CbSpec => [](CbTypeOK /\ CbProbesCounted)
<1>1. CbInv => CbTypeOK /\ CbProbesCounted
  <2> SUFFICES ASSUME CbInv PROVE CbTypeOK /\ CbProbesCounted
    OBVIOUS
  <2>1. CbTypeOK
    BY DEF CbInv, CbTyped, CbTypeOK, BreakerType, PermitType
  <2>2. cb.inFlight \in 0..HalfOpenMaxCalls
    BY DEF CbInv, CbTyped, BreakerType
  <2>3. cb.inFlight <= HalfOpenMaxCalls
    BY <2>2, CbConstants
  <2> QED
    BY <2>1, <2>3 DEF CbInv, ProbeInv, Probes, CbProbesCounted
<1> QED
  BY <1>1, CbStart, CbStep, PTL DEF CbSpec

-----------------------------------------------------------------------------
\* A circuit that is not closed knows when it opened and waits for the recovery timeout
\* grown with the failed probes; a half-open one has at most as many successes as there is
\* evidence; and its probes began after it opened.
EarnInv ==
  /\ growth \in Nat /\ growth > 0 /\ evidence \in Nat
  /\ cb.state # "CLOSED" =>
       /\ lastOpen \in Nat /\ cb.openedAt = lastOpen
       /\ cb.timeout = Min({RecoveryTimeout * growth, MaxRecoveryTimeout})
  /\ cb.state = "HALF_OPEN" => lastOpen < cbClock /\ cb.successes <= evidence
  /\ \A c \in Callers : permit[c].state = "HALF_OPEN" /\ permit[c].gen = cb.gen =>
       cb.state = "HALF_OPEN" /\ lastOpen < permit[c].at

\* Capping at every failed probe comes to the same as capping once.
LEMMA CappedOnce ==
  ASSUME NEW g \in Nat, g > 0, NEW t, t = Min({RecoveryTimeout * g, MaxRecoveryTimeout})
  PROVE  /\ g * BackoffMultiplier \in Nat /\ g * BackoffMultiplier > 0
         /\ Min({t * BackoffMultiplier, MaxRecoveryTimeout})
              = Min({RecoveryTimeout * (g * BackoffMultiplier), MaxRecoveryTimeout})
<1> DEFINE x == RecoveryTimeout * g
           y == RecoveryTimeout * (g * BackoffMultiplier)
<1>1. \A m, k \in Nat : m * k \in Nat
  OBVIOUS
<1>2. \A m, k \in Nat : k >= 1 => m * k >= m
  OBVIOUS
<1>3. \A m, k, l \in Nat : m * (k * l) = (m * k) * l
  OBVIOUS
<1>4. x \in Nat /\ g * BackoffMultiplier \in Nat /\ g * BackoffMultiplier >= g
  BY <1>1, <1>2, CbConstants
<1>5. y = x * BackoffMultiplier
  BY <1>3, CbConstants
<1>6. g * BackoffMultiplier > 0
  BY <1>4
<1> HIDE DEF x, y
<1>7. y \in Nat /\ y >= x
  BY <1>1, <1>2, <1>4, <1>5, CbConstants
<1>8. t = IF x <= MaxRecoveryTimeout THEN x ELSE MaxRecoveryTimeout
  BY <1>4, MinOfTwo, CbConstants DEF x
<1>9. CASE x <= MaxRecoveryTimeout
  BY <1>4, <1>5, <1>6, <1>8, <1>9 DEF y
<1>10. CASE ~(x <= MaxRecoveryTimeout)
  <2>1. t = MaxRecoveryTimeout /\ ~(y <= MaxRecoveryTimeout)
    BY <1>4, <1>7, <1>8, <1>10, CbConstants
  <2>2. t * BackoffMultiplier \in Nat /\ t * BackoffMultiplier >= MaxRecoveryTimeout
    BY <1>1, <1>2, <2>1, CbConstants
  <2>3. Min({y, MaxRecoveryTimeout}) = MaxRecoveryTimeout
    BY <1>7, <2>1, MinOfTwo, CbConstants
  <2>4. Min({t * BackoffMultiplier, MaxRecoveryTimeout}) = MaxRecoveryTimeout
    <3> DEFINE z == t * BackoffMultiplier
    <3>1. z \in Nat /\ z >= MaxRecoveryTimeout
      BY <2>2
    <3> HIDE DEF z
    <3>2. Min({z, MaxRecoveryTimeout}) = MaxRecoveryTimeout
      BY <3>1, MinOfTwo, CbConstants
    <3> QED
      BY <3>2 DEF z
  <2> QED
    BY <1>4, <1>6, <2>3, <2>4 DEF y
<1> QED
  BY <1>9, <1>10

\* The circuit that has just opened waits from now on; one that has just closed is closed.
LEMMA OpenTimes ==
  ASSUME NEW b \in BreakerType, NEW escalate \in BOOLEAN
  PROVE  /\ Open(b, escalate).state = "OPEN" /\ Open(b, escalate).openedAt = cbClock
         /\ Open(b, escalate).timeout =
              IF escalate THEN Min({b.timeout * BackoffMultiplier, MaxRecoveryTimeout})
              ELSE RecoveryTimeout
         /\ Close(b).state = "CLOSED"
<1>1. /\ DOMAIN Enter(b, "OPEN") = DOMAIN b /\ Enter(b, "OPEN").timeout = b.timeout
      /\ Enter(b, "OPEN").state = "OPEN" /\ Enter(b, "CLOSED").state = "CLOSED"
  BY DEF Enter, BreakerType
<1> QED
  BY <1>1 DEF Open, Close, Enter, BreakerType

\* The part of the breaker that EarnInv speaks of, successes apart, is as it was.
SameWait(b, r) ==
  r.state = b.state /\ r.gen = b.gen /\ r.openedAt = b.openedAt /\ r.timeout = b.timeout

\* Giving a slot back changes nothing else.
LEMMA GiveBackWaits ==
  ASSUME NEW b \in BreakerType, NEW p
  PROVE  SameWait(b, GiveBack(b, p)) /\ GiveBack(b, p).successes = b.successes
BY DEF GiveBack, SameWait, BreakerType

\* A success of a probe counts, and the last one that is needed closes the circuit; any
\* other success leaves the circuit where it is.
LEMMA SucceededEarns ==
  ASSUME NEW b \in BreakerType, NEW p \in PermitType, Bounded(b),
         p.state = "HALF_OPEN" /\ p.gen = b.gen => b.inFlight > 0
  PROVE  LET r == Succeeded(b, p)
             probe == p.state = "HALF_OPEN" /\ p.gen = b.gen
         IN  \/ probe /\ r.state = "CLOSED" /\ r.gen = b.gen + 1 /\ b.successes + 1 >= SuccessThreshold
             \/ SameWait(b, r) /\ r.successes = IF probe THEN b.successes + 1 ELSE b.successes
<1>1. CASE p.gen # b.gen
  BY <1>1 DEF Succeeded, SameWait
<1>2. CASE p.gen = b.gen /\ p.state = "HALF_OPEN"
  <2> DEFINE g == GiveBack(b, p)
             c == [g EXCEPT !.successes = g.successes + 1]
  <2>1. SameWait(b, g) /\ g.successes = b.successes
    BY GiveBackWaits
  <2>2. g \in BreakerType /\ Bounded(g)
    BY <1>2, GiveBackIs DEF Settled
  <2>3. Succeeded(b, p) = IF c.successes >= SuccessThreshold THEN Close(c) ELSE c
    BY <1>2 DEF Succeeded
  <2> HIDE DEF g
  <2>4. g.successes + 1 \in 0..SuccessThreshold
    <3>1. g.successes \in 0..SuccessThreshold /\ g.successes < SuccessThreshold
      BY <2>2 DEF BreakerType, Bounded
    <3> QED
      BY <3>1, CbConstants
  <2>5. c \in BreakerType /\ SameWait(g, c) /\ c.successes = g.successes + 1
    BY <2>2, <2>4 DEF BreakerType, SameWait
  <2> HIDE DEF c
  <2>6. CASE c.successes >= SuccessThreshold
    <3>1. Close(c).state = "CLOSED" /\ Close(c).gen = c.gen + 1
      BY <2>5, OpenTimes, CloseIs
    <3> QED
      BY <1>2, <2>1, <2>3, <2>5, <2>6, <3>1 DEF SameWait
  <2>7. CASE ~(c.successes >= SuccessThreshold)
    BY <1>2, <2>1, <2>3, <2>5, <2>7 DEF SameWait
  <2> QED
    BY <2>6, <2>7
<1>3. CASE p.gen = b.gen /\ p.state # "HALF_OPEN"
  <2>1. Succeeded(b, p) = [b EXCEPT !.failures = 0, !.lastFailure = Never]
    BY <1>3 DEF Succeeded
  <2> QED
    BY <1>3, <2>1 DEF SameWait, BreakerType
<1> QED
  BY <1>1, <1>2, <1>3

\* A failed probe opens the circuit for longer, another failure opens it for the
\* configured timeout or leaves it where it is.
LEMMA FailedEarns ==
  ASSUME NEW b \in BreakerType, NEW p \in PermitType, Bounded(b), cbClock \in Nat,
         p.state # "none",
         p.state = "HALF_OPEN" /\ p.gen = b.gen => b.inFlight > 0,
         p.state = "CLOSED" /\ p.gen = b.gen => b.state = "CLOSED"
  PROVE  LET r == Failed(b, p)
         IN  \/ /\ p.gen = b.gen /\ r.state = "OPEN" /\ r.gen = b.gen + 1 /\ r.openedAt = cbClock
                /\ r.timeout = IF p.state = "HALF_OPEN"
                               THEN Min({b.timeout * BackoffMultiplier, MaxRecoveryTimeout})
                               ELSE RecoveryTimeout
             \/ SameWait(b, r) /\ r.successes = b.successes
<1> DEFINE expired == /\ FailureWindow # 0 /\ b.lastFailure # Never
                      /\ cbClock - b.lastFailure > FailureWindow
           f == (IF expired THEN 0 ELSE b.failures) + 1
           c == [b EXCEPT !.failures = f, !.lastFailure = cbClock]
<1>0. Failed(b, p) = IF p.gen # b.gen THEN b
                     ELSE IF p.state = "HALF_OPEN" THEN Open(GiveBack(b, p), TRUE)
                     ELSE IF c.failures >= FailureThreshold THEN Open(c, FALSE) ELSE c
  BY DEF Failed
<1>f. f = 1 \/ f = b.failures + 1
  OBVIOUS
<1> HIDE DEF f
<1>1. CASE p.gen # b.gen
  BY <1>0, <1>1 DEF SameWait
<1>2. CASE p.gen = b.gen /\ p.state = "HALF_OPEN"
  <2> DEFINE g == GiveBack(b, p)
  <2>1. g \in BreakerType /\ SameWait(b, g)
    BY <1>2, GiveBackIs, GiveBackWaits DEF Settled
  <2>2. Failed(b, p) = Open(g, TRUE)
    BY <1>0, <1>2
  <2> HIDE DEF g
  <2>3. /\ Open(g, TRUE).state = "OPEN" /\ Open(g, TRUE).openedAt = cbClock
        /\ Open(g, TRUE).timeout = Min({g.timeout * BackoffMultiplier, MaxRecoveryTimeout})
        /\ Open(g, TRUE).gen = g.gen + 1
    BY <2>1, OpenTimes, OpenIs
  <2> QED
    BY <1>2, <2>1, <2>2, <2>3 DEF SameWait
<1>3. CASE p.gen = b.gen /\ p.state = "CLOSED"
  <2>1. f \in 0..FailureThreshold
    <3>1. b.failures \in 0..FailureThreshold /\ b.failures < FailureThreshold
      BY <1>3 DEF BreakerType, Bounded
    <3> QED
      BY <1>f, <3>1, CbConstants
  <2>2. c \in BreakerType /\ SameWait(b, c) /\ c.successes = b.successes
    <3>1. cbClock \in Int
      OBVIOUS
    <3> HIDE DEF expired
    <3> QED
      BY <2>1, <3>1 DEF BreakerType, SameWait
  <2> HIDE DEF c
  <2>3. CASE c.failures >= FailureThreshold
    <3>1. /\ Open(c, FALSE).state = "OPEN" /\ Open(c, FALSE).openedAt = cbClock
          /\ Open(c, FALSE).timeout = RecoveryTimeout /\ Open(c, FALSE).gen = c.gen + 1
      BY <2>2, OpenTimes, OpenIs
    <3> QED
      BY <1>0, <1>3, <2>2, <2>3, <3>1 DEF SameWait
  <2>4. CASE ~(c.failures >= FailureThreshold)
    BY <1>0, <1>3, <2>2, <2>4
  <2> QED
    BY <2>3, <2>4
<1> QED
  BY <1>1, <1>2, <1>3 DEF PermitType

\* What CbCloseIsEarned says of a step.
Earned ==
  /\ cb.state = "HALF_OPEN" /\ cb'.state = "CLOSED" /\ overrides' = overrides =>
       evidence' >= SuccessThreshold
  /\ cb.state = "OPEN" /\ cb'.state = "HALF_OPEN" =>
       cbClock - lastOpen >= Min({RecoveryTimeout * growth, MaxRecoveryTimeout})

\* The circuit stays in its state.
LEMMA EarnStays ==
  ASSUME CbInv, EarnInv, SameWait(cb, cb'), growth' = growth, lastOpen' = lastOpen,
         evidence' \in Nat, cbClock' \in Nat, cbClock' >= cbClock,
         cb.state = "HALF_OPEN" => cb'.successes <= evidence',
         \A c \in Callers : \/ permit'[c] = permit[c] \/ permit'[c].state # "HALF_OPEN"
                            \/ cb.state = "HALF_OPEN" /\ permit'[c].at = cbClock
  PROVE  EarnInv' /\ Earned
<1>1. cbClock \in Nat
  BY DEF CbInv, CbTyped
<1>2. cb.state = "HALF_OPEN" => lastOpen \in Nat /\ lastOpen < cbClock /\ lastOpen < cbClock'
  BY <1>1 DEF EarnInv
<1>3. \A c \in Callers : permit'[c].state = "HALF_OPEN" /\ permit'[c].gen = cb'.gen =>
        cb'.state = "HALF_OPEN" /\ lastOpen' < permit'[c].at
  BY <1>2 DEF EarnInv, SameWait
<1> QED
  BY <1>2, <1>3 DEF EarnInv, SameWait, Earned

\* No permit is of the new generation when a circuit opens or closes.
LEMMA NoneIsNew ==
  ASSUME CbInv, NEW c \in Callers, permit'[c] = permit[c] \/ permit'[c] = NoPermit,
         cb'.gen = cb.gen + 1
  PROVE  permit'[c].state = "HALF_OPEN" => permit'[c].gen # cb'.gen
<1>1. cb.gen \in Nat /\ permit[c].gen \in Nat /\ permit[c].gen <= cb.gen
  BY DEF CbInv, CbTyped, PermitInv, BreakerType, PermitType
<1>2. NoPermit.state # "HALF_OPEN"
  BY DEF NoPermit
<1> QED
  BY <1>1, <1>2

\* The circuit opens.
LEMMA EarnOpens ==
  ASSUME CbInv, EarnInv, cb'.state = "OPEN", cb'.gen = cb.gen + 1, cb'.openedAt = cbClock,
         lastOpen' = cbClock, evidence' = 0, growth' \in Nat, growth' > 0,
         cb'.timeout = Min({RecoveryTimeout * growth', MaxRecoveryTimeout}),
         \A c \in Callers : permit'[c] = permit[c] \/ permit'[c] = NoPermit
  PROVE  EarnInv' /\ Earned
<1>1. cbClock \in Nat
  BY DEF CbInv, CbTyped
<1>2. \A c \in Callers : permit'[c].state = "HALF_OPEN" => permit'[c].gen # cb'.gen
  BY NoneIsNew
<1> QED
  BY <1>1, <1>2 DEF EarnInv, Earned

\* The circuit closes.
LEMMA EarnCloses ==
  ASSUME CbInv, EarnInv, cb'.state = "CLOSED", cb'.gen = cb.gen + 1,
         growth' = growth, evidence' \in Nat,
         cb.state = "HALF_OPEN" /\ overrides' = overrides => evidence' >= SuccessThreshold,
         \A c \in Callers : permit'[c] = permit[c] \/ permit'[c] = NoPermit
  PROVE  EarnInv' /\ Earned
<1>1. \A c \in Callers : permit'[c].state = "HALF_OPEN" => permit'[c].gen # cb'.gen
  BY NoneIsNew
<1> QED
  BY <1>1 DEF EarnInv, Earned

\* _acquire_permit half-opens a circuit only when its timeout has passed.
LEMMA EarnAcquires ==
  ASSUME CbInv, EarnInv, NEW c \in Callers, AcquirePermit(c)
  PROVE  EarnInv' /\ Earned
<1>a. /\ cb \in BreakerType /\ Bounded(cb) /\ permit \in [Callers -> PermitType]
      /\ cbClock \in Nat /\ PermitInv
  BY DEF CbInv, CbTyped
<1> DEFINE b == MaybeHalfOpen(cb)
           f == [b EXCEPT !.inFlight = b.inFlight + 1]
           p == [state |-> b.state, gen |-> b.gen, at |-> cbClock]
<1>1. /\ cbClock' = cbClock /\ lastOpen' = lastOpen /\ growth' = growth /\ evidence' = evidence
      /\ \/ cb' = b /\ permit' = permit
         \/ cb' \in {b, f} /\ permit' = [permit EXCEPT ![c] = p]
  BY DEF AcquirePermit
<1>2. \/ b = cb
      \/ /\ b = Enter(cb, "HALF_OPEN") /\ cb.state = "OPEN"
         /\ cbClock - cb.openedAt >= cb.timeout
  BY DEF MaybeHalfOpen
<1>3. p.state = b.state /\ p.gen = b.gen /\ p.at = cbClock
  OBVIOUS
<1> HIDE DEF b, p
<1>4. b \in BreakerType
  BY <1>a, <1>2, EnterIs
<1>5. SameWait(b, f) /\ f.successes = b.successes
  BY <1>4 DEF BreakerType, SameWait
<1> HIDE DEF f
<1>6. /\ SameWait(b, cb') /\ cb'.successes = b.successes
      /\ \A d \in Callers : permit'[d] = permit[d] \/ (d = c /\ permit'[d] = p)
  BY <1>a, <1>1, <1>5 DEF SameWait
<1>7. CASE b = cb
  <2>1. \A d \in Callers : \/ permit'[d] = permit[d] \/ permit'[d].state # "HALF_OPEN"
                           \/ cb.state = "HALF_OPEN" /\ permit'[d].at = cbClock
    BY <1>3, <1>6, <1>7
  <2>2. cb.state = "HALF_OPEN" => cb'.successes <= evidence'
    BY <1>1, <1>6, <1>7 DEF EarnInv
  <2>3. evidence' \in Nat /\ cbClock' \in Nat /\ cbClock' >= cbClock
    BY <1>a, <1>1 DEF EarnInv
  <2> QED
    BY <1>1, <1>6, <1>7, <2>1, <2>2, <2>3, EarnStays
<1>8. CASE /\ b = Enter(cb, "HALF_OPEN") /\ cb.state = "OPEN"
           /\ cbClock - cb.openedAt >= cb.timeout
  <2>1. /\ b.state = "HALF_OPEN" /\ b.gen = cb.gen + 1 /\ b.successes = 0
    BY <1>a, <1>8, EnterIs
  <2>2. b.openedAt = cb.openedAt /\ b.timeout = cb.timeout
    BY <1>a, <1>8 DEF Enter, BreakerType
  <2>3. /\ lastOpen \in Nat /\ cb.openedAt = lastOpen
        /\ cb.timeout = Min({RecoveryTimeout * growth, MaxRecoveryTimeout})
    BY <1>8 DEF EarnInv
  <2>4. cb.timeout \in Nat /\ cb.timeout >= 1
    <3>1. cb.timeout \in RecoveryTimeout..MaxRecoveryTimeout
      BY <1>a DEF BreakerType
    <3> QED
      BY <3>1, DownstreamAssumption
  <2>5. lastOpen < cbClock
    BY <1>a, <1>8, <2>3, <2>4
  <2>6. Earned
    BY <1>6, <1>8, <2>1, <2>3 DEF Earned, SameWait
  <2>7. \A d \in Callers : permit[d].gen # b.gen
    BY <1>a, <2>1 DEF PermitInv, BreakerType, PermitType
  <2>8. \A d \in Callers : permit'[d].state = "HALF_OPEN" /\ permit'[d].gen = cb'.gen =>
          cb'.state = "HALF_OPEN" /\ lastOpen' < permit'[d].at
    BY <1>1, <1>3, <1>6, <2>1, <2>5, <2>7 DEF SameWait
  <2>9. EarnInv'
    BY <1>1, <1>6, <2>1, <2>2, <2>3, <2>5, <2>8 DEF EarnInv, SameWait
  <2> QED
    BY <2>6, <2>9
<1> QED
  BY <1>2, <1>7, <1>8

\* The configured timeout is the one that has not grown.
LEMMA FirstTimeout == RecoveryTimeout = Min({RecoveryTimeout * 1, MaxRecoveryTimeout})
<1>1. RecoveryTimeout * 1 = RecoveryTimeout
  BY CbConstants
<1> QED
  BY <1>1, MinOfTwo, CbConstants

\* A call in flight was given its permit in a state that is still known.
LEMMA InFlight ==
  ASSUME CbInv, EarnInv, NEW c \in Callers, permit[c] # NoPermit
  PROVE  /\ permit[c] \in PermitType /\ permit[c].state # "none"
         /\ permit[c].state = "HALF_OPEN" /\ permit[c].gen = cb.gen =>
              cb.inFlight > 0 /\ cb.state = "HALF_OPEN" /\ lastOpen < permit[c].at
         /\ permit[c].state = "CLOSED" /\ permit[c].gen = cb.gen => cb.state = "CLOSED"
<1>1. permit[c] \in PermitType /\ permit[c].state # "none"
  BY DEF CbInv, CbTyped, PermitInv
<1> QED
  BY <1>1, ProbeHasSlot DEF CbInv, PermitInv, EarnInv

\* A failure, of the call or because it was slow.
LEMMA EarnFails ==
  ASSUME CbInv, EarnInv, NEW c \in Callers, permit[c] # NoPermit, NEW counts \in BOOLEAN,
         cb' = Failed(cb, permit[c]), Observe(Failed(cb, permit[c]), counts), ~counts,
         permit' = [permit EXCEPT ![c] = NoPermit], UNCHANGED <<cbClock, overrides>>
  PROVE  EarnInv' /\ Earned
<1> DEFINE p == permit[c]
           r == Failed(cb, p)
<1>a. /\ cb \in BreakerType /\ Bounded(cb) /\ permit \in [Callers -> PermitType] /\ cbClock \in Nat
  BY DEF CbInv, CbTyped
<1>1. /\ p \in PermitType /\ p.state # "none"
      /\ p.state = "HALF_OPEN" /\ p.gen = cb.gen =>
           cb.inFlight > 0 /\ cb.state = "HALF_OPEN" /\ lastOpen < p.at
      /\ p.state = "CLOSED" /\ p.gen = cb.gen => cb.state = "CLOSED"
  BY InFlight
<1>2. \A d \in Callers : permit'[d] = permit[d] \/ permit'[d] = NoPermit
  BY <1>a
<1> HIDE DEF p
<1>3. \/ /\ p.gen = cb.gen /\ r.state = "OPEN" /\ r.gen = cb.gen + 1 /\ r.openedAt = cbClock
         /\ r.timeout = IF p.state = "HALF_OPEN"
                        THEN Min({cb.timeout * BackoffMultiplier, MaxRecoveryTimeout})
                        ELSE RecoveryTimeout
      \/ SameWait(cb, r) /\ r.successes = cb.successes
  BY <1>a, <1>1, FailedEarns
<1>4. cb' = r /\ Observe(r, counts)
  BY DEF p
<1> HIDE DEF r
<1>5. CASE /\ p.gen = cb.gen /\ r.state = "OPEN" /\ r.gen = cb.gen + 1 /\ r.openedAt = cbClock
           /\ r.timeout = IF p.state = "HALF_OPEN"
                          THEN Min({cb.timeout * BackoffMultiplier, MaxRecoveryTimeout})
                          ELSE RecoveryTimeout
  <2>1. r.gen # cb.gen
    BY <1>a, <1>5 DEF BreakerType
  <2>2. /\ lastOpen' = cbClock /\ evidence' = 0
        /\ growth' = IF cb.state = "HALF_OPEN" THEN growth * BackoffMultiplier ELSE 1
    BY <1>4, <1>5, <2>1 DEF Observe
  <2>3. /\ growth' \in Nat /\ growth' > 0
        /\ r.timeout = Min({RecoveryTimeout * growth', MaxRecoveryTimeout})
    <3>1. CASE p.state = "HALF_OPEN"
      <4>1. cb.state = "HALF_OPEN"
        BY <1>1, <1>5, <3>1
      <4>2. /\ growth \in Nat /\ growth > 0
            /\ cb.timeout = Min({RecoveryTimeout * growth, MaxRecoveryTimeout})
        BY <4>1 DEF EarnInv
      <4> QED
        BY <1>5, <2>2, <3>1, <4>1, <4>2, CappedOnce
    <3>2. CASE p.state = "CLOSED"
      <4>1. cb.state = "CLOSED"
        BY <1>1, <1>5, <3>2
      <4>2. growth' = 1 /\ r.timeout = RecoveryTimeout
        BY <1>5, <2>2, <3>2, <4>1
      <4> QED
        BY <4>2, FirstTimeout
    <3> QED
      BY <1>1, <3>1, <3>2 DEF PermitType
  <2> QED
    BY <1>2, <1>4, <1>5, <2>2, <2>3, EarnOpens
<1>6. CASE SameWait(cb, r) /\ r.successes = cb.successes
  <2>1. lastOpen' = lastOpen /\ growth' = growth /\ evidence' = evidence
    BY <1>4, <1>6 DEF Observe, SameWait
  <2>2. evidence' \in Nat /\ cbClock' \in Nat /\ cbClock' >= cbClock
    BY <1>a, <2>1 DEF EarnInv
  <2>3. cb.state = "HALF_OPEN" => cb'.successes <= evidence'
    BY <1>4, <1>6, <2>1 DEF EarnInv
  <2>4. \A d \in Callers : permit'[d] = permit[d] \/ permit'[d].state # "HALF_OPEN"
    BY <1>2 DEF NoPermit
  <2> QED
    BY <1>4, <1>6, <2>1, <2>2, <2>3, <2>4, EarnStays
<1> QED
  BY <1>3, <1>5, <1>6

\* A success in time: a probe's is evidence, because the probe began after the opening.
LEMMA EarnSucceeds ==
  ASSUME CbInv, EarnInv, NEW c \in Callers, permit[c] # NoPermit,
         cb' = Succeeded(cb, permit[c]), NEW counts \in BOOLEAN,
         counts <=> lastOpen # Never /\ permit[c].at > lastOpen,
         Observe(Succeeded(cb, permit[c]), counts),
         permit' = [permit EXCEPT ![c] = NoPermit], UNCHANGED <<cbClock, overrides>>
  PROVE  EarnInv' /\ Earned
<1> DEFINE p == permit[c]
           r == Succeeded(cb, p)
           probe == p.state = "HALF_OPEN" /\ p.gen = cb.gen
<1>a. /\ cb \in BreakerType /\ Bounded(cb) /\ permit \in [Callers -> PermitType] /\ cbClock \in Nat
      /\ cb.successes \in Nat
  BY CbConstants DEF CbInv, CbTyped, BreakerType
<1>1. /\ p \in PermitType /\ p.state # "none"
      /\ probe => cb.inFlight > 0 /\ cb.state = "HALF_OPEN" /\ lastOpen < p.at
  BY InFlight
<1>2. \A d \in Callers : permit'[d] = permit[d] \/ permit'[d] = NoPermit
  BY <1>a
<1>3. counts <=> lastOpen # Never /\ p.at > lastOpen
  OBVIOUS
<1> HIDE DEF p
<1>4. \/ probe /\ r.state = "CLOSED" /\ r.gen = cb.gen + 1 /\ cb.successes + 1 >= SuccessThreshold
      \/ SameWait(cb, r) /\ r.successes = IF probe THEN cb.successes + 1 ELSE cb.successes
  BY <1>a, <1>1, SucceededEarns
<1>5. cb' = r /\ Observe(r, counts)
  BY DEF p
<1>6. ~(r.state = "OPEN" /\ r.gen # cb.gen)
  BY <1>4 DEF SameWait
<1> HIDE DEF r
<1>7. /\ lastOpen' = lastOpen /\ growth' = growth
      /\ evidence' = IF counts THEN evidence + 1 ELSE evidence
  BY <1>5, <1>6 DEF Observe
<1>8. evidence \in Nat /\ evidence' \in Nat /\ evidence' >= evidence
  BY <1>7 DEF EarnInv
<1>9. probe => evidence' = evidence + 1 /\ cb.successes <= evidence /\ cb.state = "HALF_OPEN"
  <2> SUFFICES ASSUME probe PROVE evidence' = evidence + 1 /\ cb.successes <= evidence
                                  /\ cb.state = "HALF_OPEN"
    OBVIOUS
  <2>1. cb.state = "HALF_OPEN" /\ lastOpen < p.at
    BY <1>1
  <2>2. lastOpen \in Nat /\ cb.successes <= evidence /\ p.at \in Nat
    BY <1>1, <2>1 DEF EarnInv, PermitType
  <2>3. counts
    BY <1>3, <2>1, <2>2 DEF Never
  <2> QED
    BY <1>7, <2>1, <2>2, <2>3
<1> HIDE DEF probe
<1>10. CASE probe /\ r.state = "CLOSED" /\ r.gen = cb.gen + 1 /\ cb.successes + 1 >= SuccessThreshold
  <2>1. evidence' >= SuccessThreshold
    BY <1>a, <1>8, <1>9, <1>10, CbConstants
  <2> QED
    BY <1>2, <1>5, <1>7, <1>8, <1>10, <2>1, EarnCloses
<1>11. CASE SameWait(cb, r) /\ r.successes = IF probe THEN cb.successes + 1 ELSE cb.successes
  <2>1. cb.state = "HALF_OPEN" => cb.successes <= evidence
    BY DEF EarnInv
  <2>2. cb.state = "HALF_OPEN" => cb'.successes <= evidence'
    BY <1>a, <1>5, <1>8, <1>9, <1>11, <2>1
  <2>3. \A d \in Callers : permit'[d] = permit[d] \/ permit'[d].state # "HALF_OPEN"
    BY <1>2 DEF NoPermit
  <2>4. cbClock' \in Nat /\ cbClock' >= cbClock
    BY <1>a
  <2> QED
    BY <1>5, <1>7, <1>8, <1>11, <2>2, <2>3, <2>4, EarnStays
<1> QED
  BY <1>4, <1>10, <1>11

\* The number of overrides is a number, so an override changes it.
OverridesCounted == overrides \in Nat

\* Every step is earned and keeps EarnInv.
LEMMA EarnStep ==
  CbInv /\ EarnInv /\ OverridesCounted /\ [CbNext]_cbVars =>
    EarnInv' /\ Earned /\ OverridesCounted'
<1> SUFFICES ASSUME CbInv, EarnInv, OverridesCounted, [CbNext]_cbVars
             PROVE  EarnInv' /\ Earned /\ OverridesCounted'
  OBVIOUS
<1>a. /\ cb \in BreakerType /\ Bounded(cb) /\ permit \in [Callers -> PermitType] /\ cbClock \in Nat
  BY DEF CbInv, CbTyped
<1>1. ASSUME NEW c \in Callers, AcquirePermit(c) PROVE EarnInv' /\ Earned
  BY <1>1, EarnAcquires
<1>2. ASSUME NEW c \in Callers, CallSucceeds(c) PROVE EarnInv' /\ Earned
  <2> DEFINE p == permit[c]
             counts == ~Slow(p) /\ lastOpen # Never /\ p.at > lastOpen
  <2>1. /\ p # NoPermit /\ permit' = [permit EXCEPT ![c] = NoPermit]
        /\ UNCHANGED <<cbClock, overrides>>
    BY <1>2 DEF CallSucceeds
  <2>2. CASE Slow(p)
    <3>1. cb' = Failed(cb, p) /\ Observe(Failed(cb, p), counts) /\ ~counts
      BY <1>2, <2>2 DEF CallSucceeds
    <3> QED
      BY <2>1, <3>1, EarnFails
  <2>3. CASE ~Slow(p)
    <3>1. cb' = Succeeded(cb, p) /\ Observe(Succeeded(cb, p), counts)
      BY <1>2, <2>3 DEF CallSucceeds
    <3>2. counts <=> lastOpen # Never /\ p.at > lastOpen
      BY <2>3
    <3> QED
      BY <2>1, <3>1, <3>2, EarnSucceeds
  <2> QED
    BY <2>2, <2>3
<1>3. ASSUME NEW c \in Callers, CallFails(c) PROVE EarnInv' /\ Earned
  <2>1. /\ permit[c] # NoPermit /\ permit' = [permit EXCEPT ![c] = NoPermit]
        /\ UNCHANGED <<cbClock, overrides>> /\ cb' = Failed(cb, permit[c])
        /\ Observe(Failed(cb, permit[c]), FALSE)
    BY <1>3 DEF CallFails
  <2> QED
    BY <2>1, EarnFails
<1>4. ASSUME NEW c \in Callers, CallReleased(c) PROVE EarnInv' /\ Earned
  <2>1. /\ permit' = [permit EXCEPT ![c] = NoPermit] /\ cb' = GiveBack(cb, permit[c])
        /\ UNCHANGED <<cbClock, overrides, lastOpen, growth, evidence>>
    BY <1>4 DEF CallReleased
  <2>2. SameWait(cb, cb') /\ cb'.successes = cb.successes
    BY <1>a, <2>1, GiveBackWaits
  <2>3. \A d \in Callers : permit'[d] = permit[d] \/ permit'[d].state # "HALF_OPEN"
    BY <1>a, <2>1 DEF NoPermit
  <2>4. /\ evidence' \in Nat /\ cbClock' \in Nat /\ cbClock' >= cbClock
        /\ cb.state = "HALF_OPEN" => cb'.successes <= evidence'
    BY <1>a, <2>1, <2>2 DEF EarnInv
  <2> QED
    BY <2>1, <2>2, <2>3, <2>4, EarnStays
<1>5. ASSUME Override PROVE EarnInv' /\ Earned
  <2>o. overrides' # overrides
    BY <1>5 DEF Override, OverridesCounted
  <2>p. \A c \in Callers : permit'[c] = permit[c] \/ permit'[c] = NoPermit
    BY <1>5 DEF Override
  <2>1. \/ cb' = Close(cb) /\ Observe(Close(cb), FALSE)
        \/ cb' = Open(cb, FALSE) /\ Observe(Open(cb, FALSE), FALSE)
    BY <1>5, Zenon DEF Override
  <2>2. CASE cb' = Close(cb) /\ Observe(Close(cb), FALSE)
    <3>1. Close(cb).state = "CLOSED" /\ Close(cb).gen = cb.gen + 1
      BY <1>a, OpenTimes, CloseIs
    <3>2. growth' = growth /\ evidence' = evidence /\ evidence' \in Nat
      BY <2>2, <3>1 DEF Observe, EarnInv
    <3> QED
      BY <2>o, <2>p, <2>2, <3>1, <3>2, EarnCloses
  <2>3. CASE cb' = Open(cb, FALSE) /\ Observe(Open(cb, FALSE), FALSE)
    <3>1. /\ cb'.state = "OPEN" /\ cb'.gen = cb.gen + 1 /\ cb'.openedAt = cbClock
          /\ cb'.timeout = RecoveryTimeout /\ cb'.gen # cb.gen
      <4>1. cb.gen # cb.gen + 1
        BY <1>a DEF BreakerType
      <4> QED
        BY <1>a, <2>3, <4>1, OpenTimes, OpenIs
    <3>2. lastOpen' = cbClock /\ evidence' = 0 /\ growth' = 1
      BY <2>o, <2>3, <3>1 DEF Observe
    <3>3. /\ growth' \in Nat /\ growth' > 0
          /\ cb'.timeout = Min({RecoveryTimeout * growth', MaxRecoveryTimeout})
      BY <3>1, <3>2, FirstTimeout
    <3> QED
      BY <2>p, <3>1, <3>2, <3>3, EarnOpens
  <2> QED
    BY <2>1, <2>2, <2>3
<1>6. ASSUME CbTick \/ UNCHANGED cbVars PROVE EarnInv' /\ Earned
  <2>1. /\ cb' = cb /\ permit' = permit /\ cbClock' \in Nat /\ cbClock' >= cbClock
        /\ lastOpen' = lastOpen /\ growth' = growth /\ evidence' = evidence
    BY <1>a, <1>6 DEF CbTick, cbVars
  <2>2. SameWait(cb, cb') /\ evidence' \in Nat /\ (cb.state = "HALF_OPEN" => cb'.successes <= evidence')
    BY <2>1 DEF SameWait, EarnInv
  <2>3. \A c \in Callers : \/ permit'[c] = permit[c] \/ permit'[c].state # "HALF_OPEN"
                           \/ cb.state = "HALF_OPEN" /\ permit'[c].at = cbClock
    BY <2>1
  <2> QED
    BY <2>1, <2>2, <2>3, EarnStays
<1>7. OverridesCounted'
  <2>1. overrides' = overrides \/ overrides' = overrides + 1
    BY Zenon DEF CbNext, cbVars, AcquirePermit, CallSucceeds, CallFails, CallReleased, Override,
                 CbTick, CbDone
  <2> QED
    BY <2>1 DEF OverridesCounted
<1> QED
  BY <1>1, <1>2, <1>3, <1>4, <1>5, <1>6, <1>7 DEF CbNext, CbDone

\* For any number of callers, any thresholds and timeouts: a half-open circuit closes by
\* itself only on half_open_success_threshold successes in time of calls that began after
\* it opened, and it half-opens only after the recovery timeout, multiplied once for each
\* probe that failed in a row and capped, however late other calls report.
THEOREM ClosesAreEarned == CbSpec => CbCloseIsEarned
<1>1. CbInit => EarnInv /\ OverridesCounted
  <2> SUFFICES ASSUME CbInit PROVE EarnInv /\ OverridesCounted
    OBVIOUS
  <2>1. cb.state = "CLOSED" /\ growth = 1 /\ evidence = 0 /\ overrides = 0
    BY DEF CbInit
  <2>2. \A c \in Callers : permit[c].state = "none"
    BY DEF CbInit, NoPermit
  <2> QED
    BY <2>1, <2>2 DEF EarnInv, OverridesCounted
<1>2. CbInv /\ EarnInv /\ OverridesCounted /\ [CbNext]_cbVars =>
        [/\ cb.state = "HALF_OPEN" /\ cb'.state = "CLOSED" /\ overrides' = overrides =>
              evidence' >= SuccessThreshold
         /\ cb.state = "OPEN" /\ cb'.state = "HALF_OPEN" =>
              cbClock - lastOpen >= Min({RecoveryTimeout * growth, MaxRecoveryTimeout})]_cbVars
  BY EarnStep DEF Earned
<1> QED
  BY <1>1, <1>2, CbStart, CbStep, EarnStep, PTL DEF CbSpec, CbCloseIsEarned
-----------------------------------------------------------------------------
\* The failover router.
CircuitType ==
  [state : {"CLOSED", "OPEN", "HALF_OPEN"}, failures : Nat, gen : Nat,
   probes : 0..HalfOpenMaxProbes, successes : 0..(HalfOpenSuccessesToClose - 1),
   manual : BOOLEAN, elapsed : BOOLEAN, backoff : BOOLEAN]
FoOrderType == [effect : {"OPEN", "REDUCE"}, live : SUBSET Accounts,
                told : {"nothing", "OK", "Ambiguous", "not placed"}]
FoCallType == [pc : {"idle", "backoff", "permit", "failover", "give back", "leave", "send",
                     "can reduce", "generation", "record", "resolve", "apply"},
               id : 0..MaxFoOrders, at : Accounts, gen : Nat, probe : BOOLEAN,
               class : BrokerErrors \cup {"OK"}, retryAfter : BOOLEAN]

\* An operator's lock-out keeps the circuit open.
CircuitOk(c) == c \in CircuitType /\ (c.manual => c.state = "OPEN")

\* The call is under way; its last step, giving back a permit, is not about an order.
InCall(t) == foCall[t].pc \notin {"idle", "leave"}

\* What a call f knows of its order o: where it can be live at each step.
FoKnows(f, o) ==
  /\ f.pc \in {"backoff", "permit", "failover", "give back", "can reduce", "send"} =>
       o.live = {}
  /\ f.pc \in {"generation", "record"} =>
       /\ f.at = "primary"
       /\ f.class = "OK" => o.live = {"primary"}
       /\ f.class = "AMBIGUOUS" => o.live \subseteq {"primary"}
       /\ f.class \notin {"OK", "AMBIGUOUS"} => o.live = {}
  /\ f.pc = "resolve" => f.at = "primary" /\ o.live \subseteq {"primary"}
  /\ f.pc = "apply" => o.live = {f.at}

\* What the caller of an order was told is true of it.
FoTruth(o) ==
  /\ o.live \in {{}, {"primary"}, {"secondary"}}
  /\ o.told = "OK" => o.live # {}
  /\ o.told = "not placed" => o.live = {}

FoHolds(t) ==
  InCall(t) => /\ foCall[t].id \in DOMAIN foOrder /\ Order(t).told = "nothing"
               /\ FoKnows(foCall[t], Order(t))

FoTyped ==
  /\ CircuitOk(circuit) /\ positions \in [Accounts -> Int] /\ foManual \in 0..MaxFoManual
  /\ foOrder \in Seq(FoOrderType) /\ Len(foOrder) <= MaxFoOrders
  /\ foCall \in [FoThreads -> FoCallType]

\* Every order without an answer has one call, which knows where it is.
FoCalls ==
  /\ \A t \in FoThreads : FoHolds(t)
  /\ \A s, t \in FoThreads : InCall(s) /\ InCall(t) /\ foCall[s].id = foCall[t].id => s = t
  /\ \A i \in DOMAIN foOrder :
       /\ FoTruth(foOrder[i])
       /\ foOrder[i].told = "nothing" => \E t \in FoThreads : InCall(t) /\ foCall[t].id = i

OkAt(b) == {i \in LiveAt(b) : foOrder[i].told = "OK"}
PositionInv == \A b \in Accounts : positions[b] = Holdings[b] + Lots(OkAt(b))

\* The inductive invariant of FailoverIsSafe.
FoInv == FoTyped /\ FoCalls /\ PositionInv

\* The constants, one by one.
LEMMA FoConstants ==
  /\ MaxConsecutiveFailures \in Nat /\ HalfOpenMaxProbes \in Nat /\ HalfOpenMaxProbes > 0
  /\ HalfOpenSuccessesToClose \in Nat /\ HalfOpenSuccessesToClose > 0
  /\ MaxFoOrders \in Nat /\ MaxFoManual \in Nat
  /\ Holdings \in [Accounts -> Nat]
BY FailoverAssumption DEF Accounts

\* Opening the circuit starts a generation without probes and successes.
LEMMA TripIs ==
  ASSUME NEW c \in CircuitType
  PROVE  Trip(c) \in CircuitType /\ Trip(c).state = "OPEN" /\ Trip(c).manual = c.manual
<1>1. 0 \in 0..HalfOpenMaxProbes /\ 0 \in 0..(HalfOpenSuccessesToClose - 1)
  BY FoConstants
<1>2. c.gen + 1 \in Nat
  BY DEF CircuitType
<1> QED
  BY <1>1, <1>2 DEF Trip, CircuitType

\* Half-opening, and recording an outcome of the primary, keep the circuit sound: a
\* locked-out circuit is neither half-opened nor closed.
LEMMA CircuitSteps ==
  ASSUME NEW c, CircuitOk(c), NEW gen, NEW probe \in BOOLEAN, NEW retryAfter \in BOOLEAN
  PROVE  /\ CircuitOk(Promoted(c))
         /\ CircuitOk(PrimarySucceeded(c, gen, probe))
         /\ CircuitOk(PrimaryFailed(c, gen, retryAfter))
<1> USE FoConstants
<1>0. /\ c \in CircuitType /\ (c.manual => c.state = "OPEN")
      /\ 0 \in 0..HalfOpenMaxProbes /\ 0 \in 0..(HalfOpenSuccessesToClose - 1)
  BY DEF CircuitOk
<1>1. CircuitOk(Promoted(c))
  BY <1>0 DEF Promoted, CircuitOk, CircuitType
<1>2. CircuitOk(PrimarySucceeded(c, gen, probe))
  <2>1. CASE gen # c.gen \/ c.state = "OPEN"
    BY <2>1 DEF PrimarySucceeded
  <2>2. CASE /\ ~(gen # c.gen \/ c.state = "OPEN")
             /\ c.state = "HALF_OPEN" /\ probe /\ c.successes + 1 < HalfOpenSuccessesToClose
    <3>1. c.successes + 1 \in 0..(HalfOpenSuccessesToClose - 1)
      BY <1>0, <2>2 DEF CircuitType
    <3> DEFINE d == [c EXCEPT !.successes = @ + 1]
    <3>2. d \in CircuitType /\ d.manual = c.manual /\ d.state = c.state
      BY <1>0, <3>1 DEF CircuitType
    <3>3. PrimarySucceeded(c, gen, probe) = d
      BY <2>2 DEF PrimarySucceeded
    <3> QED
      BY <1>0, <3>2, <3>3 DEF CircuitOk
  <2>3. CASE /\ ~(gen # c.gen \/ c.state = "OPEN")
             /\ ~(c.state = "HALF_OPEN" /\ probe /\ c.successes + 1 < HalfOpenSuccessesToClose)
    <3> DEFINE d == [c EXCEPT !.state = "CLOSED", !.failures = 0, !.successes = 0,
                              !.backoff = FALSE]
    <3>1. d \in CircuitType /\ d.manual = c.manual
      BY <1>0 DEF CircuitType
    <3>2. PrimarySucceeded(c, gen, probe) = d
      BY <2>3 DEF PrimarySucceeded
    <3> QED
      BY <1>0, <2>3, <3>1, <3>2 DEF CircuitOk
  <2> QED
    BY <2>1, <2>2, <2>3
<1>3. CircuitOk(PrimaryFailed(c, gen, retryAfter))
  <2> DEFINE noted == [c EXCEPT !.elapsed = FALSE, !.backoff = @ \/ retryAfter]
             counted == [noted EXCEPT !.failures = @ + 1]
  <2>1. noted \in CircuitType /\ noted.manual = c.manual /\ noted.state = c.state
    BY <1>0 DEF CircuitType
  <2>2. PrimaryFailed(c, gen, retryAfter) \in {noted, counted, Trip(counted)}
    BY DEF PrimaryFailed
  <2> HIDE DEF noted
  <2>3. counted \in CircuitType /\ counted.manual = noted.manual /\ counted.state = noted.state
    <3>1. noted.failures + 1 \in Nat
      BY <2>1 DEF CircuitType
    <3> QED
      BY <2>1, <3>1 DEF CircuitType
  <2> HIDE DEF counted
  <2> QED
    BY <1>0, <2>1, <2>2, <2>3, TripIs DEF CircuitOk
<1> QED
  BY <1>1, <1>2, <1>3

-----------------------------------------------------------------------------
\* Every set of orders is finite, and has a balance.
LEMMA LotsOf ==
  ASSUME foOrder \in Seq(FoOrderType), NEW S \in SUBSET DOMAIN foOrder
  PROVE  /\ IsFiniteSet({i \in S : foOrder[i].effect = "OPEN"})
         /\ IsFiniteSet({i \in S : foOrder[i].effect = "REDUCE"})
         /\ Lots(S) \in Int
<1>1. IsFiniteSet(1..Len(foOrder))
  BY FS_Interval
<1>2. DOMAIN foOrder = 1..Len(foOrder)
  OBVIOUS
<1>3. \A T \in SUBSET (1..Len(foOrder)) : IsFiniteSet(T) /\ Cardinality(T) \in Nat
  BY <1>1, FS_Subset, FS_CardinalityType
<1> DEFINE O == {i \in S : foOrder[i].effect = "OPEN"}
           R == {i \in S : foOrder[i].effect = "REDUCE"}
<1>4. O \in SUBSET (1..Len(foOrder)) /\ R \in SUBSET (1..Len(foOrder))
  BY <1>2
<1>5. Lots(S) = Cardinality(O) - Cardinality(R)
  BY DEF Lots
<1> HIDE DEF O, R
<1>6. Cardinality(O) \in Nat /\ Cardinality(R) \in Nat /\ IsFiniteSet(O) /\ IsFiniteSet(R)
  BY <1>3, <1>4
<1>7. Lots(S) \in Int
  BY <1>5, <1>6
<1> QED
  BY <1>6, <1>7 DEF O, R

\* One order more changes the balance by its lot.
LEMMA LotsAdd ==
  ASSUME foOrder \in Seq(FoOrderType), NEW S \in SUBSET DOMAIN foOrder,
         NEW i \in DOMAIN foOrder, i \notin S
  PROVE  Lots(S \cup {i}) = Lots(S) + IF foOrder[i].effect = "OPEN" THEN 1 ELSE -1
<1> DEFINE O == {j \in S : foOrder[j].effect = "OPEN"}
           R == {j \in S : foOrder[j].effect = "REDUCE"}
           OI == {j \in S \cup {i} : foOrder[j].effect = "OPEN"}
           RI == {j \in S \cup {i} : foOrder[j].effect = "REDUCE"}
<1>1. IsFiniteSet(O) /\ IsFiniteSet(R)
  BY LotsOf
<1>2. Cardinality(O) \in Nat /\ Cardinality(R) \in Nat
  BY <1>1, FS_CardinalityType
<1>3. /\ Lots(S) = Cardinality(O) - Cardinality(R)
      /\ Lots(S \cup {i}) = Cardinality(OI) - Cardinality(RI)
  BY DEF Lots
<1>4. i \notin O /\ i \notin R
  OBVIOUS
<1>5. CASE foOrder[i].effect = "OPEN"
  <2>1. OI = O \cup {i} /\ RI = R
    BY <1>5
  <2> HIDE DEF O, R, OI, RI
  <2>2. Cardinality(O \cup {i}) = Cardinality(O) + 1
    BY <1>1, <1>4, FS_AddElement
  <2> QED
    BY <1>2, <1>3, <1>5, <2>1, <2>2
<1>6. CASE foOrder[i].effect = "REDUCE"
  <2>1. RI = R \cup {i} /\ OI = O
    BY <1>6
  <2> HIDE DEF O, R, OI, RI
  <2>2. Cardinality(R \cup {i}) = Cardinality(R) + 1
    BY <1>1, <1>4, FS_AddElement
  <2> QED
    BY <1>2, <1>3, <1>6, <2>1, <2>2
<1>7. foOrder[i] \in FoOrderType
  OBVIOUS
<1> QED
  BY <1>5, <1>6, <1>7 DEF FoOrderType

\* The positions stay right while no order is confirmed.
LEMMA PositionsKept ==
  ASSUME PositionInv, positions' = positions,
         \A b \in Accounts : OkAt(b)' = OkAt(b),
         \A b \in Accounts : \A i \in OkAt(b) : foOrder'[i].effect = foOrder[i].effect
  PROVE  PositionInv'
<1> SUFFICES ASSUME NEW b \in Accounts PROVE positions'[b] = Holdings[b] + Lots(OkAt(b))'
  BY DEF PositionInv
<1> DEFINE S == OkAt(b)
<1>1. OkAt(b)' = S /\ \A i \in S : foOrder'[i].effect = foOrder[i].effect
  OBVIOUS
<1> HIDE DEF S
<1>2. /\ {i \in S : foOrder'[i].effect = "OPEN"} = {i \in S : foOrder[i].effect = "OPEN"}
      /\ {i \in S : foOrder'[i].effect = "REDUCE"} = {i \in S : foOrder[i].effect = "REDUCE"}
  BY <1>1
<1>3. Lots(OkAt(b))' = Lots(S)
  BY <1>1, <1>2 DEF Lots
<1> QED
  BY <1>3 DEF PositionInv, S

\* The call of a thread and its order.
LEMMA CallKnows ==
  ASSUME FoInv, NEW t \in FoThreads, InCall(t)
  PROVE  /\ foOrder \in Seq(FoOrderType) /\ foCall[t].id \in DOMAIN foOrder
         /\ Order(t) = foOrder[foCall[t].id] /\ Order(t) \in FoOrderType
         /\ Order(t).told = "nothing" /\ FoTruth(Order(t))
         /\ foCall[t] \in FoCallType /\ FoKnows(foCall[t], Order(t))
<1>1. /\ foOrder \in Seq(FoOrderType) /\ foCall[t].id \in DOMAIN foOrder
      /\ Order(t).told = "nothing" /\ FoTruth(foOrder[foCall[t].id])
      /\ foCall[t] \in FoCallType /\ FoKnows(foCall[t], Order(t))
  BY DEF FoInv, FoTyped, FoCalls, FoHolds
<1>2. \A j \in DOMAIN foOrder : foOrder[j] \in FoOrderType
  BY <1>1
<1> QED
  BY <1>1, <1>2, Zenon DEF Order

\* A step of a call that writes order o and goes on as f, or ends with an answer that is
\* true of the order, leaves every order without an answer with its one call.
LEMMA CallMoves ==
  ASSUME FoInv, NEW t \in FoThreads, InCall(t), NEW f \in FoCallType, NEW o \in FoOrderType,
         foCall' = [foCall EXCEPT ![t] = f],
         foOrder' = [foOrder EXCEPT ![foCall[t].id] = o],
         FoTruth(o),
         \/ /\ f.pc \notin {"idle", "leave"} /\ f.id = foCall[t].id
            /\ o.told = "nothing" /\ FoKnows(f, o)
         \/ f.pc \in {"idle", "leave"} /\ o.told # "nothing"
  PROVE  /\ FoCalls'
         /\ foOrder' \in Seq(FoOrderType) /\ Len(foOrder') = Len(foOrder)
         /\ foCall' \in [FoThreads -> FoCallType]
<1> DEFINE i == foCall[t].id
<1>1. /\ foOrder \in Seq(FoOrderType) /\ foCall \in [FoThreads -> FoCallType]
      /\ i \in DOMAIN foOrder
      /\ \A s \in FoThreads : FoHolds(s)
      /\ \A s, u \in FoThreads : InCall(s) /\ InCall(u) /\ foCall[s].id = foCall[u].id => s = u
      /\ \A j \in DOMAIN foOrder :
           /\ FoTruth(foOrder[j])
           /\ foOrder[j].told = "nothing" => \E s \in FoThreads : InCall(s) /\ foCall[s].id = j
  BY DEF FoInv, FoTyped, FoCalls, FoHolds
<1>2. /\ foCall'[t] = f /\ \A s \in FoThreads : s # t => foCall'[s] = foCall[s]
      /\ foCall' \in [FoThreads -> FoCallType]
  BY <1>1
<1>3. /\ foOrder' \in Seq(FoOrderType) /\ Len(foOrder') = Len(foOrder)
      /\ DOMAIN foOrder' = DOMAIN foOrder /\ foOrder'[i] = o
      /\ \A j \in DOMAIN foOrder : j # i => foOrder'[j] = foOrder[j]
  BY <1>1
<1>4. ASSUME NEW s \in FoThreads, InCall(s)' PROVE
        /\ foCall'[s].id \in DOMAIN foOrder' /\ foOrder'[foCall'[s].id].told = "nothing"
        /\ FoKnows(foCall'[s], foOrder'[foCall'[s].id])
        /\ InCall(s) /\ foCall'[s].id = foCall[s].id
  <2>1. CASE s = t
    BY <1>1, <1>2, <1>3, <1>4, <2>1 DEF InCall
  <2>2. CASE s # t
    <3>1. foCall'[s] = foCall[s] /\ InCall(s)
      BY <1>2, <1>4, <2>2 DEF InCall
    <3>2. foCall[s].id # i
      BY <1>1, <2>2, <3>1
    <3> QED
      BY <1>1, <1>3, <3>1, <3>2 DEF FoHolds, Order
  <2> QED
    BY <2>1, <2>2
<1>5. \A s \in FoThreads : FoHolds(s)'
  BY <1>4 DEF FoHolds, Order
<1>6. \A s, u \in FoThreads :
        InCall(s)' /\ InCall(u)' /\ foCall'[s].id = foCall'[u].id => s = u
  BY <1>1, <1>4
<1>7. ASSUME NEW j \in DOMAIN foOrder'
      PROVE  /\ FoTruth(foOrder'[j])
             /\ foOrder'[j].told = "nothing" => \E s \in FoThreads : InCall(s)' /\ foCall'[s].id = j
  <2>1. CASE j = i
    BY <1>2, <1>3, <2>1 DEF InCall
  <2>2. CASE j # i
    <3>1. FoTruth(foOrder[j]) /\ foOrder'[j] = foOrder[j]
      BY <1>1, <1>3, <2>2
    <3>2. ASSUME foOrder[j].told = "nothing"
          PROVE  \E s \in FoThreads : InCall(s)' /\ foCall'[s].id = j
      <4>1. PICK s \in FoThreads : InCall(s) /\ foCall[s].id = j
        BY <1>1, <1>3, <3>2
      <4>2. s # t
        BY <2>2, <4>1
      <4> QED
        BY <1>2, <4>1, <4>2 DEF InCall
    <3> QED
      BY <3>1, <3>2
  <2> QED
    BY <2>1, <2>2
<1>8. FoCalls'
  BY <1>5, <1>6, <1>7 DEF FoCalls
<1> QED
  BY <1>2, <1>3, <1>8

\* When such a step confirms no order, the whole invariant is kept.
LEMMA UnconfirmedMoves ==
  ASSUME FoInv, NEW t \in FoThreads, InCall(t), NEW f \in FoCallType, NEW o \in FoOrderType,
         foCall' = [foCall EXCEPT ![t] = f],
         foOrder' = [foOrder EXCEPT ![foCall[t].id] = o],
         FoTruth(o), o.effect = Order(t).effect, o.told # "OK",
         \/ /\ f.pc \notin {"idle", "leave"} /\ f.id = foCall[t].id
            /\ o.told = "nothing" /\ FoKnows(f, o)
         \/ f.pc \in {"idle", "leave"} /\ o.told # "nothing",
         CircuitOk(circuit'), UNCHANGED <<positions, foManual>>
  PROVE  FoInv'
<1> DEFINE i == foCall[t].id
<1>1. /\ FoCalls' /\ foOrder' \in Seq(FoOrderType) /\ Len(foOrder') = Len(foOrder)
      /\ foCall' \in [FoThreads -> FoCallType]
  BY CallMoves
<1>2. FoTyped'
  BY <1>1 DEF FoInv, FoTyped
<1>3. foOrder \in Seq(FoOrderType) /\ i \in DOMAIN foOrder /\ foOrder[i].told = "nothing"
  BY DEF FoInv, FoTyped, FoCalls, FoHolds, Order
<1>4. /\ DOMAIN foOrder' = DOMAIN foOrder /\ foOrder'[i] = o
      /\ \A j \in DOMAIN foOrder : j # i => foOrder'[j] = foOrder[j]
  BY <1>3
<1>5. \A b \in Accounts : OkAt(b)' = OkAt(b)
  BY <1>3, <1>4 DEF OkAt, LiveAt
<1>6. \A b \in Accounts : \A j \in OkAt(b) : foOrder'[j].effect = foOrder[j].effect
  BY <1>3, <1>4 DEF OkAt, LiveAt
<1>7. PositionInv'
  BY <1>5, <1>6, PositionsKept DEF FoInv
<1> QED
  BY <1>1, <1>2, <1>7 DEF FoInv

\* A step that leaves the orders alone and takes its call on.
LEMMA GoesOn ==
  ASSUME FoInv, NEW t \in FoThreads, InCall(t), NEW f \in FoCallType,
         foCall' = [foCall EXCEPT ![t] = f], foOrder' = foOrder,
         f.pc \notin {"idle", "leave"}, f.id = foCall[t].id, FoKnows(f, Order(t)),
         CircuitOk(circuit'), UNCHANGED <<positions, foManual>>
  PROVE  FoInv'
<1> DEFINE i == foCall[t].id
<1>1. /\ foOrder \in Seq(FoOrderType) /\ i \in DOMAIN foOrder /\ Order(t) = foOrder[i]
      /\ foOrder[i].told = "nothing" /\ FoTruth(foOrder[i])
  BY DEF FoInv, FoTyped, FoCalls, FoHolds, Order
<1>2. foOrder[i] \in FoOrderType /\ foOrder' = [foOrder EXCEPT ![i] = foOrder[i]]
  BY <1>1
<1>3. foOrder[i].told # "OK"
  BY <1>1
<1> HIDE DEF i
<1>4. foOrder' = [foOrder EXCEPT ![foCall[t].id] = foOrder[i]]
  BY <1>2 DEF i
<1> QED
  BY <1>1, <1>2, <1>3, <1>4, UnconfirmedMoves

\* A call that is over, with or without a permit to give back.
LEMMA EndedCall ==
  /\ NoCall \in FoCallType /\ NoCall.pc = "idle"
  /\ [NoCall EXCEPT !.pc = "leave"] \in FoCallType
  /\ [NoCall EXCEPT !.pc = "leave"].pc = "leave"
<1>1. 0 \in 0..MaxFoOrders /\ 0 \in Nat /\ "primary" \in Accounts
  BY FoConstants DEF Accounts
<1> QED
  BY <1>1 DEF NoCall, FoCallType

\* A call that ends with an answer other than OK, which must be true of its order.
LEMMA EndsUnconfirmed ==
  ASSUME FoInv, NEW t \in FoThreads, InCall(t), NEW told \in {"Ambiguous", "not placed"},
         Finish(t, told), told = "not placed" => Order(t).live = {},
         CircuitOk(circuit'), UNCHANGED <<positions, foManual>>
  PROVE  FoInv'
<1> DEFINE i == foCall[t].id
           o == [foOrder[i] EXCEPT !.told = told]
           f == IF foCall[t].probe THEN [NoCall EXCEPT !.pc = "leave"] ELSE NoCall
<1>1. /\ foOrder \in Seq(FoOrderType) /\ i \in DOMAIN foOrder /\ Order(t) = foOrder[i]
      /\ FoTruth(foOrder[i]) /\ foOrder[i] \in FoOrderType
  BY CallKnows
<1>2. /\ o \in FoOrderType /\ o.told = told /\ o.live = foOrder[i].live
      /\ o.effect = foOrder[i].effect
  <2>1. \A r \in FoOrderType :
          LET q == [r EXCEPT !.told = told]
          IN  q \in FoOrderType /\ q.told = told /\ q.live = r.live /\ q.effect = r.effect
    BY DEF FoOrderType
  <2> QED
    BY <1>1, <2>1
<1>3. f \in FoCallType /\ f.pc \in {"idle", "leave"}
  BY EndedCall
<1>4. foCall' = [foCall EXCEPT ![t] = f] /\ foOrder' = [foOrder EXCEPT ![foCall[t].id] = o]
  <2>1. foOrder' = [foOrder EXCEPT ![i] = [foOrder[i] EXCEPT !.told = told]]
    BY DEF Finish
  <2>2. foCall' = [foCall EXCEPT ![t] = f]
    BY DEF Finish
  <2> QED
    BY <2>1, <2>2
<1> HIDE DEF o, f
<1>5. FoTruth(o)
  BY <1>1, <1>2 DEF FoTruth
<1> QED
  BY <1>1, <1>2, <1>3, <1>4, <1>5, UnconfirmedMoves

\* What appending one element does to a sequence.
LEMMA OneMore ==
  ASSUME NEW S, NEW q \in Seq(S), NEW x \in S, NEW r, r = Append(q, x)
  PROVE  /\ r \in Seq(S) /\ Len(r) = Len(q) + 1 /\ Len(q) \in Nat
         /\ Len(q) + 1 \notin DOMAIN q /\ Len(q) + 1 \in DOMAIN r /\ r[Len(q) + 1] = x
         /\ \A j \in DOMAIN q : j \in DOMAIN r /\ r[j] = q[j]
         /\ \A j \in DOMAIN r : j # Len(q) + 1 => j \in DOMAIN q
<1>1. Len(q) \in Nat /\ DOMAIN q = 1..Len(q)
  OBVIOUS
<1>2. r \in Seq(S) /\ Len(r) = Len(q) + 1 /\ r[Len(q) + 1] = x
  OBVIOUS
<1>3. DOMAIN r = 1..(Len(q) + 1)
  BY <1>1, <1>2
<1>4. \A j \in 1..Len(q) : r[j] = q[j]
  OBVIOUS
<1>5. Len(q) + 1 \notin 1..Len(q) /\ Len(q) + 1 \in 1..(Len(q) + 1)
  BY <1>1
<1>6. \A j \in 1..Len(q) : j \in 1..(Len(q) + 1)
  BY <1>1
<1>7. \A j \in 1..(Len(q) + 1) : j # Len(q) + 1 => j \in 1..Len(q)
  BY <1>1
<1> QED
  BY <1>1, <1>2, <1>3, <1>4, <1>5, <1>6, <1>7, Zenon

\* What one order more does to the sequence of orders.
LEMMA OneMoreOrder ==
  ASSUME foOrder \in Seq(FoOrderType), NEW o \in FoOrderType, foOrder' = Append(foOrder, o),
         Len(foOrder) < MaxFoOrders
  PROVE  \E n \in Nat :
           /\ n = Len(foOrder) + 1 /\ n <= MaxFoOrders
           /\ foOrder' \in Seq(FoOrderType) /\ Len(foOrder') = n
           /\ n \notin DOMAIN foOrder /\ n \in DOMAIN foOrder' /\ foOrder'[n] = o
           /\ \A j \in DOMAIN foOrder : j \in DOMAIN foOrder' /\ foOrder'[j] = foOrder[j]
           /\ \A j \in DOMAIN foOrder' : j # n => j \in DOMAIN foOrder
<1>1. Len(foOrder) + 1 \in Nat /\ Len(foOrder) + 1 <= MaxFoOrders
  BY FoConstants
<1> QED
  BY <1>1, OneMore

\* A new order is nowhere live, and the call that submits it is its only one.
LEMMA SubmitKeeps ==
  ASSUME FoInv, NEW t \in FoThreads, foCall[t].pc = "idle", Len(foOrder) < MaxFoOrders,
         NEW o \in FoOrderType, o.live = {}, o.told = "nothing",
         foOrder' = Append(foOrder, o),
         NEW f \in FoCallType, f.id = Len(foOrder) + 1,
         f.pc \in {"backoff", "permit", "failover", "can reduce"},
         foCall' = [foCall EXCEPT ![t] = f],
         CircuitOk(circuit'), UNCHANGED <<positions, foManual>>
  PROVE  FoInv'
<1>1. /\ foOrder \in Seq(FoOrderType) /\ foCall \in [FoThreads -> FoCallType]
      /\ \A s \in FoThreads : FoHolds(s)
      /\ \A s, u \in FoThreads : InCall(s) /\ InCall(u) /\ foCall[s].id = foCall[u].id => s = u
      /\ \A j \in DOMAIN foOrder :
           /\ FoTruth(foOrder[j])
           /\ foOrder[j].told = "nothing" => \E s \in FoThreads : InCall(s) /\ foCall[s].id = j
  BY DEF FoInv, FoTyped, FoCalls
<1>2. /\ foCall'[t] = f /\ \A s \in FoThreads : s # t => foCall'[s] = foCall[s]
      /\ foCall' \in [FoThreads -> FoCallType]
  BY <1>1
<1>3. PICK n \in Nat :
        /\ n = Len(foOrder) + 1 /\ n <= MaxFoOrders
        /\ foOrder' \in Seq(FoOrderType) /\ Len(foOrder') = n
        /\ n \notin DOMAIN foOrder /\ n \in DOMAIN foOrder' /\ foOrder'[n] = o
        /\ \A j \in DOMAIN foOrder : j \in DOMAIN foOrder' /\ foOrder'[j] = foOrder[j]
        /\ \A j \in DOMAIN foOrder' : j # n => j \in DOMAIN foOrder
  BY <1>1, OneMoreOrder, Zenon
<1>4. f.id = n
  BY <1>3
<1>5. FoTyped'
  BY <1>2, <1>3 DEF FoInv, FoTyped
<1>6. ASSUME NEW s \in FoThreads, InCall(s)', s # t PROVE
        /\ foCall'[s] = foCall[s] /\ InCall(s) /\ foCall[s].id \in DOMAIN foOrder
  BY <1>1, <1>2, <1>6 DEF InCall, FoHolds
<1>7. \A s \in FoThreads : FoHolds(s)'
  <2> SUFFICES ASSUME NEW s \in FoThreads, InCall(s)'
               PROVE /\ foCall'[s].id \in DOMAIN foOrder'
                     /\ foOrder'[foCall'[s].id].told = "nothing"
                     /\ FoKnows(foCall'[s], foOrder'[foCall'[s].id])
    BY DEF FoHolds, Order
  <2>1. CASE s = t
    <3>1. FoKnows(f, o)
      BY DEF FoKnows
    <3> QED
      BY <1>2, <1>3, <1>4, <2>1, <3>1
  <2>2. CASE s # t
    <3>1. foCall'[s] = foCall[s] /\ InCall(s) /\ foCall[s].id \in DOMAIN foOrder
      BY <1>6, <2>2
    <3>2. foCall[s].id \in DOMAIN foOrder' /\ foOrder'[foCall[s].id] = foOrder[foCall[s].id]
      BY <1>3, <3>1
    <3>3. /\ foOrder[foCall[s].id].told = "nothing"
          /\ FoKnows(foCall[s], foOrder[foCall[s].id])
      BY <1>1, <3>1 DEF FoHolds, Order
    <3> QED
      BY <3>1, <3>2, <3>3
  <2> QED
    BY <2>1, <2>2
<1>8. \A s, u \in FoThreads :
         InCall(s)' /\ InCall(u)' /\ foCall'[s].id = foCall'[u].id => s = u
  <2>1. \A s \in FoThreads : InCall(s)' /\ s # t => foCall'[s].id # n
    BY <1>3, <1>6
  <2> QED
    BY <1>1, <1>2, <1>4, <1>6, <2>1
<1>9. ASSUME NEW j \in DOMAIN foOrder'
       PROVE  /\ FoTruth(foOrder'[j])
              /\ foOrder'[j].told = "nothing" => \E s \in FoThreads : InCall(s)' /\ foCall'[s].id = j
  <2>1. CASE j = n
    <3>1. FoTruth(o)
      BY DEF FoTruth
    <3> QED
      BY <1>2, <1>3, <1>4, <2>1, <3>1 DEF InCall
  <2>2. CASE j # n
    <3>1. j \in DOMAIN foOrder /\ FoTruth(foOrder[j]) /\ foOrder'[j] = foOrder[j]
      BY <1>1, <1>3, <2>2
    <3>2. ASSUME foOrder[j].told = "nothing"
          PROVE  \E s \in FoThreads : InCall(s)' /\ foCall'[s].id = j
      <4>1. PICK s \in FoThreads : InCall(s) /\ foCall[s].id = j
        BY <1>1, <3>1, <3>2
      <4>2. s # t
        BY <4>1 DEF InCall
      <4> QED
        BY <1>2, <4>1, <4>2 DEF InCall
    <3> QED
      BY <3>1, <3>2
  <2> QED
    BY <2>1, <2>2
<1>10. \A b \in Accounts : OkAt(b)' = OkAt(b)
  <2>1. foOrder'[n].told # "OK"
    BY <1>3
  <2> QED
    BY <1>3, <2>1 DEF OkAt, LiveAt
<1>11. \A b \in Accounts : \A j \in OkAt(b) : foOrder'[j].effect = foOrder[j].effect
  BY <1>3 DEF OkAt, LiveAt
<1>12. PositionInv'
  BY <1>10, <1>11, PositionsKept DEF FoInv
<1>13. FoCalls'
  BY <1>7, <1>8, <1>9 DEF FoCalls
<1> QED
  BY <1>5, <1>12, <1>13 DEF FoInv

\* Steps that touch no order and no call under way.
LEMMA Aside ==
  ASSUME FoInv, UNCHANGED <<foOrder, positions>>, CircuitOk(circuit'),
         foManual' \in 0..MaxFoManual, foCall' \in [FoThreads -> FoCallType],
         \A s \in FoThreads : InCall(s)' = InCall(s) /\ (InCall(s) => foCall'[s] = foCall[s])
  PROVE  FoInv'
<1>1. FoTyped'
  BY DEF FoInv, FoTyped
<1>2. FoCalls'
  BY DEF FoInv, FoCalls, FoHolds, Order
<1>3. PositionInv'
  BY PositionsKept DEF FoInv, OkAt, LiveAt
<1> QED
  BY <1>1, <1>2, <1>3 DEF FoInv

\* Confirming an order adds its lot to the account where it is live.
LEMMA ConfirmKeeps ==
  ASSUME FoInv, NEW t \in FoThreads, ApplyFill(t)
  PROVE  FoInv'
<1> DEFINE i == foCall[t].id
           a == foCall[t].at
           o == [foOrder[i] EXCEPT !.told = "OK"]
           f == IF foCall[t].probe THEN [NoCall EXCEPT !.pc = "leave"] ELSE NoCall
           lot == IF foOrder[i].effect = "OPEN" THEN 1 ELSE -1
<1>0. foCall[t].pc = "apply" /\ InCall(t)
  BY DEF ApplyFill, InCall
<1>1. /\ foOrder \in Seq(FoOrderType) /\ i \in DOMAIN foOrder /\ Order(t) = foOrder[i]
      /\ foOrder[i] \in FoOrderType /\ foOrder[i].live = {a} /\ a \in Accounts
      /\ FoTruth(foOrder[i]) /\ foOrder[i].told = "nothing"
  <2>1. /\ foOrder \in Seq(FoOrderType) /\ i \in DOMAIN foOrder /\ Order(t) = foOrder[i]
        /\ Order(t) \in FoOrderType /\ FoTruth(Order(t)) /\ foCall[t] \in FoCallType
        /\ FoKnows(foCall[t], Order(t)) /\ Order(t).told = "nothing"
    BY <1>0, CallKnows
  <2>2. Order(t).live = {a}
    BY <1>0, <2>1 DEF FoKnows
  <2>3. a \in Accounts
    BY <2>1 DEF FoCallType
  <2> QED
    BY <2>1, <2>2, <2>3
<1>2. /\ o \in FoOrderType /\ o.told = "OK" /\ o.live = {a} /\ o.effect = foOrder[i].effect
  <2>1. \A r \in FoOrderType :
          LET q == [r EXCEPT !.told = "OK"]
          IN  q \in FoOrderType /\ q.told = "OK" /\ q.live = r.live /\ q.effect = r.effect
    BY DEF FoOrderType
  <2> QED
    BY <1>1, <2>1
<1>3. f \in FoCallType /\ f.pc \in {"idle", "leave"}
  BY EndedCall
<1>4. foCall' = [foCall EXCEPT ![t] = f] /\ foOrder' = [foOrder EXCEPT ![foCall[t].id] = o]
  <2>1. foOrder' = [foOrder EXCEPT ![i] = [foOrder[i] EXCEPT !.told = "OK"]]
    BY DEF ApplyFill, Finish
  <2>2. foCall' = [foCall EXCEPT ![t] = f]
    BY DEF ApplyFill, Finish
  <2> QED
    BY <2>1, <2>2
<1>5. positions' = [positions EXCEPT ![a] = positions[a] + lot]
  BY <1>1 DEF ApplyFill
<1> HIDE DEF o, f
<1>6. FoTruth(o)
  BY <1>1, <1>2 DEF FoTruth
<1>7. /\ FoCalls' /\ foOrder' \in Seq(FoOrderType) /\ Len(foOrder') = Len(foOrder)
      /\ foCall' \in [FoThreads -> FoCallType]
  BY <1>0, <1>2, <1>3, <1>4, <1>6, CallMoves
<1>8. positions \in [Accounts -> Int] /\ lot \in Int
      /\ \A b \in Accounts : positions[b] = Holdings[b] + Lots(OkAt(b))
  BY DEF FoInv, FoTyped, PositionInv
<1>9. FoTyped'
  BY <1>1, <1>5, <1>7, <1>8 DEF FoInv, FoTyped, ApplyFill
<1> HIDE DEF lot
<1>10. /\ DOMAIN foOrder' = DOMAIN foOrder /\ foOrder'[i] = o
       /\ \A j \in DOMAIN foOrder : j # i => foOrder'[j] = foOrder[j]
  BY <1>1, <1>4
<1>11. \A j \in DOMAIN foOrder : foOrder'[j].effect = foOrder[j].effect
  BY <1>2, <1>10
<1> HIDE DEF i, a
<1>12. ASSUME NEW b \in Accounts PROVE positions'[b] = Holdings[b] + Lots(OkAt(b))'
  <2>1. OkAt(b) \subseteq DOMAIN foOrder /\ i \notin OkAt(b)
    BY <1>1 DEF OkAt, LiveAt
  <2>2. OkAt(b)' = IF b = a THEN OkAt(b) \cup {i} ELSE OkAt(b)
    BY <1>1, <1>2, <1>10 DEF OkAt, LiveAt
  <2> DEFINE S == OkAt(b)
             T == IF b = a THEN S \cup {i} ELSE S
  <2>3. T \subseteq DOMAIN foOrder /\ OkAt(b)' = T
    BY <1>1, <2>1, <2>2
  <2>4. Lots(OkAt(b))' = Lots(T)
    <3> HIDE DEF T
    <3>1. /\ {j \in T : foOrder'[j].effect = "OPEN"} = {j \in T : foOrder[j].effect = "OPEN"}
          /\ {j \in T : foOrder'[j].effect = "REDUCE"} = {j \in T : foOrder[j].effect = "REDUCE"}
      BY <1>11, <2>3
    <3> QED
      BY <2>3, <3>1 DEF Lots
  <2>5. Lots(S) \in Int
    BY <1>1, <2>1, LotsOf
  <2>6. positions[b] = Holdings[b] + Lots(S) /\ Holdings[b] \in Int
    BY <1>8, FoConstants
  <2>7. CASE b = a
    <3>1. Lots(S \cup {i}) = Lots(S) + lot
      BY <1>1, <2>1, LotsAdd DEF lot
    <3>2. positions'[b] = positions[b] + lot
      BY <1>1, <1>5, <1>8, <2>7
    <3> HIDE DEF S
    <3>3. positions'[b] = Holdings[b] + Lots(S \cup {i})
      BY <1>8, <2>5, <2>6, <3>1, <3>2
    <3> QED
      BY <2>4, <2>7, <3>3
  <2>8. CASE b # a
    BY <1>1, <1>5, <1>8, <2>4, <2>6, <2>8
  <2> QED
    BY <2>7, <2>8
<1>13. PositionInv'
  BY <1>12 DEF PositionInv
<1> QED
  BY <1>7, <1>9, <1>13 DEF FoInv

\* The operator's correction settles the open orders of an account, and no other's.
LEMMA CorrectionKeeps ==
  ASSUME FoInv, NEW b \in Accounts, SetPosition(b)
  PROVE  FoInv'
<1>1. /\ foOrder \in Seq(FoOrderType) /\ foCall \in [FoThreads -> FoCallType]
      /\ positions \in [Accounts -> Int] /\ foManual \in 0..MaxFoManual
      /\ \A j \in DOMAIN foOrder :
           /\ FoTruth(foOrder[j])
           /\ foOrder[j].told = "nothing" => \E s \in FoThreads : InCall(s) /\ foCall[s].id = j
      /\ \A c \in Accounts : positions[c] = Holdings[c] + Lots(OkAt(c))
      /\ CircuitOk(circuit) /\ Len(foOrder) <= MaxFoOrders
  BY DEF FoInv, FoTyped, FoCalls, PositionInv
<1>2. foCall' = foCall /\ circuit' = circuit /\ \A s \in FoThreads : ~InCall(s)
  BY DEF SetPosition, InCall
<1>3. \A j \in DOMAIN foOrder : foOrder[j] \in FoOrderType /\ foOrder[j].told # "nothing"
  BY <1>1, <1>2
<1>4. /\ DOMAIN foOrder' = DOMAIN foOrder
      /\ \A j \in DOMAIN foOrder :
           foOrder'[j] = IF foOrder[j].told = "Ambiguous" /\ b \in foOrder[j].live
                         THEN [foOrder[j] EXCEPT !.told = "OK"] ELSE foOrder[j]
  BY DEF SetPosition
<1>5. ASSUME NEW j \in DOMAIN foOrder
      PROVE  /\ foOrder'[j] \in FoOrderType /\ foOrder'[j].live = foOrder[j].live
             /\ foOrder'[j].effect = foOrder[j].effect /\ FoTruth(foOrder'[j])
             /\ foOrder'[j].told # "nothing"
             /\ foOrder'[j].told = IF foOrder[j].told = "Ambiguous" /\ b \in foOrder[j].live
                                   THEN "OK" ELSE foOrder[j].told
  <2>1. \A r \in FoOrderType :
          LET q == [r EXCEPT !.told = "OK"]
          IN  q \in FoOrderType /\ q.told = "OK" /\ q.live = r.live /\ q.effect = r.effect
    BY DEF FoOrderType
  <2>2. FoTruth(foOrder[j]) /\ foOrder[j] \in FoOrderType /\ foOrder[j].told # "nothing"
    BY <1>1, <1>3
  <2>3. CASE foOrder[j].told = "Ambiguous" /\ b \in foOrder[j].live
    <3>1. foOrder'[j] = [foOrder[j] EXCEPT !.told = "OK"]
      BY <1>4, <2>3
    <3>2. /\ foOrder'[j] \in FoOrderType /\ foOrder'[j].told = "OK"
          /\ foOrder'[j].live = foOrder[j].live /\ foOrder'[j].effect = foOrder[j].effect
      BY <2>1, <2>2, <3>1
    <3> QED
      BY <2>2, <2>3, <3>2 DEF FoTruth
  <2>4. CASE ~(foOrder[j].told = "Ambiguous" /\ b \in foOrder[j].live)
    <3>1. foOrder'[j] = foOrder[j]
      BY <1>4, <2>4, Zenon
    <3> QED
      BY <2>2, <2>4, <3>1
  <2> QED
    BY <2>3, <2>4
<1>6. foOrder' \in Seq(FoOrderType) /\ Len(foOrder') = Len(foOrder)
  <2>1. DOMAIN foOrder = 1..Len(foOrder) /\ Len(foOrder) \in Nat
    BY <1>1
  <2>2. foOrder' = [j \in 1..Len(foOrder) |-> foOrder'[j]]
    <3>1. foOrder' = [j \in DOMAIN foOrder |-> foOrder'[j]]
      BY DEF SetPosition
    <3> QED
      BY <2>1, <3>1
  <2>3. \A j \in 1..Len(foOrder) : foOrder'[j] \in FoOrderType
    BY <1>5, <2>1
  <2> QED
    BY <2>1, <2>2, <2>3
<1>7. foManual' \in 0..MaxFoManual
  BY <1>1, FoConstants DEF SetPosition
<1>8. /\ LiveAt(b) \subseteq DOMAIN foOrder /\ OkAt(b)' = LiveAt(b)
      /\ \A c \in Accounts : OkAt(c) \subseteq DOMAIN foOrder
      /\ \A c \in Accounts : c # b => OkAt(c)' = OkAt(c)
  <2>1. LiveAt(b) \subseteq DOMAIN foOrder /\ \A c \in Accounts : OkAt(c) \subseteq DOMAIN foOrder
    BY DEF OkAt, LiveAt
  <2>2. \A c \in Accounts : LiveAt(c)' = LiveAt(c)
    BY <1>4, <1>5 DEF LiveAt
  <2>3. \A j \in LiveAt(b) : foOrder'[j].told = "OK"
    <3> TAKE j \in LiveAt(b)
    <3>1. j \in DOMAIN foOrder /\ b \in foOrder[j].live /\ FoTruth(foOrder[j])
          /\ foOrder[j] \in FoOrderType /\ foOrder[j].told # "nothing"
      BY <1>1, <1>3 DEF LiveAt
    <3>2. foOrder[j].told \in {"OK", "Ambiguous"}
      BY <3>1 DEF FoOrderType, FoTruth
    <3> QED
      BY <1>5, <3>1, <3>2
  <2>4. \A c \in Accounts : c # b => \A j \in LiveAt(c) : foOrder'[j].told = foOrder[j].told
    <3> TAKE c \in Accounts
    <3> HAVE c # b
    <3> TAKE j \in LiveAt(c)
    <3>1. j \in DOMAIN foOrder /\ c \in foOrder[j].live /\ FoTruth(foOrder[j])
      BY <1>1 DEF LiveAt
    <3>2. foOrder[j].live \in {{}, {"primary"}, {"secondary"}}
      BY <3>1 DEF FoTruth
    <3>3. foOrder[j].live = {c}
      BY <3>1, <3>2
    <3>4. b \notin foOrder[j].live
      BY <3>3
    <3> QED
      BY <1>5, <3>1, <3>4
  <2>5. OkAt(b)' = LiveAt(b)
    BY <2>2, <2>3 DEF OkAt
  <2>6. \A c \in Accounts : c # b => OkAt(c)' = OkAt(c)
    BY <2>2, <2>4 DEF OkAt
  <2> QED
    BY <2>1, <2>5, <2>6
<1>9. ASSUME NEW T \in SUBSET DOMAIN foOrder, NEW c \in Accounts, OkAt(c)' = T
      PROVE  Lots(OkAt(c))' = Lots(T)
  <2>1. /\ {j \in T : foOrder'[j].effect = "OPEN"} = {j \in T : foOrder[j].effect = "OPEN"}
        /\ {j \in T : foOrder'[j].effect = "REDUCE"} = {j \in T : foOrder[j].effect = "REDUCE"}
    BY <1>5
  <2> QED
    BY <1>9, <2>1 DEF Lots
<1>10. Lots(LiveAt(b)) \in Int /\ Holdings[b] \in Int /\ Held(b) \in Int
  <2>1. Lots(LiveAt(b)) \in Int
    BY <1>1, <1>8, LotsOf
  <2>2. Holdings[b] \in Int
    BY FoConstants
  <2> QED
    BY <2>1, <2>2 DEF Held
<1>11. positions' = [positions EXCEPT ![b] = Held(b)]
  BY DEF SetPosition
<1>12. PositionInv'
  <2> SUFFICES ASSUME NEW c \in Accounts PROVE positions'[c] = Holdings[c] + Lots(OkAt(c))'
    BY DEF PositionInv
  <2>1. CASE c = b
    <3>1. Lots(OkAt(c))' = Lots(LiveAt(b))
      BY <1>8, <1>9, <2>1
    <3> QED
      BY <1>1, <1>11, <2>1, <3>1 DEF Held
  <2>2. CASE c # b
    <3>1. Lots(OkAt(c))' = Lots(OkAt(c))
      BY <1>8, <1>9, <2>2
    <3> QED
      BY <1>1, <1>11, <2>2, <3>1
  <2> QED
    BY <2>1, <2>2
<1>13. FoTyped'
  BY <1>1, <1>2, <1>6, <1>7, <1>10, <1>11 DEF FoTyped
<1>14. FoCalls'
  <2>1. \A s \in FoThreads : ~InCall(s)'
    BY <1>2 DEF InCall
  <2> QED
    BY <1>4, <1>5, <2>1 DEF FoCalls, FoHolds
<1> QED
  BY <1>12, <1>13, <1>14 DEF FoInv

\* Proceed keeps the order and the account of a call.
LEMMA ProceedIs ==
  ASSUME FoInv, NEW t \in FoThreads, NEW pc \in {"failover", "give back", "send", "resolve", "apply"},
         Proceed(t, pc)
  PROVE  \E f \in FoCallType :
           /\ foCall' = [foCall EXCEPT ![t] = f]
           /\ f.pc = pc /\ f.id = foCall[t].id /\ f.at = foCall[t].at
<1>1. foCall[t] \in FoCallType /\ foCall \in [FoThreads -> FoCallType]
  BY DEF FoInv, FoTyped
<1>2. foCall' = [foCall EXCEPT ![t] = foCall'[t]]
  BY <1>1 DEF Proceed
<1>3. /\ foCall'[t] \in FoCallType /\ foCall'[t].pc = pc
      /\ foCall'[t].id = foCall[t].id /\ foCall'[t].at = foCall[t].at
  BY <1>1 DEF Proceed, FoCallType
<1> QED
  BY <1>2, <1>3

\* The steps that begin a call.
LEMMA SubmitSteps ==
  ASSUME FoInv, NEW t \in FoThreads, SubmitOpen(t) \/ SubmitReduce(t)
  PROVE  FoInv'
<1>0. /\ CircuitOk(circuit) /\ foOrder \in Seq(FoOrderType) /\ Len(foOrder) \in Nat
      /\ foCall \in [FoThreads -> FoCallType]
  <2>1. CircuitOk(circuit) /\ foOrder \in Seq(FoOrderType) /\ foCall \in [FoThreads -> FoCallType]
    BY DEF FoInv, FoTyped
  <2> QED
    BY <2>1
<1>1. \A e \in {"OPEN", "REDUCE"} :
        LET o == [effect |-> e, live |-> {}, told |-> "nothing"]
        IN  o \in FoOrderType /\ o.live = {} /\ o.told = "nothing"
  BY DEF FoOrderType
<1>3. CASE SubmitOpen(t)
  <2> DEFINE c == Promoted(circuit)
             p == CASE c.state = "CLOSED" -> "backoff"
                    [] c.state = "HALF_OPEN" -> "permit"
                    [] c.state = "OPEN" -> "failover"
             g == IF c.state = "OPEN" THEN 0 ELSE c.gen
             o == [effect |-> "OPEN", live |-> {}, told |-> "nothing"]
             n == Len(foOrder) + 1
             f == [NoCall EXCEPT !.pc = p, !.id = n, !.gen = g]
  <2>1. CircuitOk(c) /\ c.state \in {"CLOSED", "HALF_OPEN", "OPEN"} /\ c.gen \in Nat
    <3>1. CircuitOk(Promoted(circuit))
      BY <1>0, CircuitSteps
    <3> QED
      BY <3>1 DEF CircuitOk, CircuitType
  <2>2. /\ foCall[t].pc = "idle" /\ Len(foOrder) < MaxFoOrders /\ foOrder' = Append(foOrder, o)
        /\ UNCHANGED <<positions, foManual>> /\ circuit' = c
    BY <1>3 DEF SubmitOpen
  <2>3. n \in 0..MaxFoOrders /\ Len(foOrder') = n
    <3>1. n \in 0..MaxFoOrders
      BY <1>0, <2>2, FoConstants
    <3>2. o \in FoOrderType
      BY <1>1
    <3> QED
      BY <1>0, <2>2, <3>1, <3>2
  <2>4. foCall' = [foCall EXCEPT ![t] = f]
    BY <1>3, <2>3 DEF SubmitOpen
  <2> HIDE DEF c
  <2>5. p \in {"backoff", "permit", "failover", "can reduce"} /\ g \in Nat
    <3>1. CASE c.state = "CLOSED"
      BY <2>1, <3>1
    <3>2. CASE c.state = "HALF_OPEN"
      BY <2>1, <3>2
    <3>3. CASE c.state = "OPEN"
      BY <2>1, <3>3
    <3> QED
      BY <2>1, <3>1, <3>2, <3>3
  <2> HIDE DEF p, g, n
  <2>6. f \in FoCallType /\ f.pc = p /\ f.id = n
    BY <2>3, <2>5 DEF FoCallType, NoCall, Accounts, BrokerErrors
  <2>7. o \in FoOrderType /\ o.live = {} /\ o.told = "nothing"
    BY <1>1
  <2> HIDE DEF f, o
  <2>8. f.id = Len(foOrder) + 1 /\ f.pc \in {"backoff", "permit", "failover", "can reduce"}
        /\ CircuitOk(circuit')
    BY <2>1, <2>2, <2>5, <2>6 DEF n
  <2> QED
    BY <2>2, <2>4, <2>6, <2>7, <2>8, SubmitKeeps
<1>4. CASE SubmitReduce(t)
  <2> DEFINE o == [effect |-> "REDUCE", live |-> {}, told |-> "nothing"]
             n == Len(foOrder) + 1
             f == [NoCall EXCEPT !.pc = "can reduce", !.id = n]
  <2>2. /\ foCall[t].pc = "idle" /\ Len(foOrder) < MaxFoOrders /\ foOrder' = Append(foOrder, o)
        /\ UNCHANGED <<positions, foManual>> /\ circuit' = circuit
    BY <1>4 DEF SubmitReduce
  <2>3. n \in 0..MaxFoOrders /\ Len(foOrder') = n
    <3>1. n \in 0..MaxFoOrders
      BY <1>0, <2>2, FoConstants
    <3>2. o \in FoOrderType
      BY <1>1
    <3> QED
      BY <1>0, <2>2, <3>1, <3>2
  <2>4. foCall' = [foCall EXCEPT ![t] = f]
    BY <1>4, <2>3 DEF SubmitReduce
  <2> HIDE DEF n
  <2>6. f \in FoCallType /\ f.pc = "can reduce" /\ f.id = n
    BY <2>3 DEF FoCallType, NoCall, Accounts, BrokerErrors
  <2>7. o \in FoOrderType /\ o.live = {} /\ o.told = "nothing"
    BY <1>1
  <2> HIDE DEF f, o
  <2>8. f.id = Len(foOrder) + 1 /\ CircuitOk(circuit')
        /\ f.pc \in {"backoff", "permit", "failover", "can reduce"}
    BY <1>0, <2>2, <2>6 DEF n
  <2> QED
    BY <2>2, <2>4, <2>6, <2>7, <2>8, SubmitKeeps
<1> QED
  BY <1>3, <1>4

\* A call that proceeds where it knows enough of its order.
LEMMA Proceeds ==
  ASSUME FoInv, NEW t \in FoThreads, InCall(t),
         NEW pc \in {"failover", "give back", "send", "resolve", "apply"},
         Proceed(t, pc), foOrder' = foOrder,
         pc \in {"failover", "give back", "send"} => Order(t).live = {},
         pc = "resolve" => foCall[t].at = "primary" /\ Order(t).live \subseteq {"primary"},
         pc = "apply" => Order(t).live = {foCall[t].at},
         CircuitOk(circuit'), UNCHANGED <<positions, foManual>>
  PROVE  FoInv'
<1>1. PICK f \in FoCallType :
        /\ foCall' = [foCall EXCEPT ![t] = f]
        /\ f.pc = pc /\ f.id = foCall[t].id /\ f.at = foCall[t].at
  BY ProceedIs
<1>2. FoKnows(f, Order(t)) /\ f.pc \notin {"idle", "leave"}
  BY <1>1 DEF FoKnows
<1> QED
  BY <1>1, <1>2, GoesOn

\* The permit of a probe: taking it, giving it back.
LEMMA PermitSteps ==
  ASSUME FoInv, NEW t \in FoThreads, AcquireProbePermit(t) \/ ReleaseProbePermit(t)
  PROVE  FoInv'
<1>0. /\ CircuitOk(circuit) /\ circuit \in CircuitType /\ foManual \in 0..MaxFoManual
      /\ foCall \in [FoThreads -> FoCallType] /\ foCall[t] \in FoCallType
  BY DEF FoInv, FoTyped, CircuitOk
<1>1. CASE AcquireProbePermit(t)
  <2> DEFINE granted == circuit.state = "HALF_OPEN" /\ circuit.probes < HalfOpenMaxProbes
  <2>1. foCall[t].pc = "permit" /\ InCall(t) /\ UNCHANGED <<positions, foOrder, foManual>>
    BY <1>1 DEF AcquireProbePermit, InCall
  <2>2. CircuitOk(circuit')
    <3>1. CASE granted
      <4>1. circuit.probes + 1 \in 0..HalfOpenMaxProbes
        BY <1>0, <3>1, FoConstants DEF CircuitType
      <4>2. circuit' = [circuit EXCEPT !.probes = circuit.probes + 1]
        BY <1>1, <3>1 DEF AcquireProbePermit
      <4> QED
        BY <1>0, <4>1, <4>2 DEF CircuitOk, CircuitType
    <3>2. CASE ~granted
      BY <1>0, <1>1, <3>2 DEF AcquireProbePermit
    <3> QED
      BY <3>1, <3>2
  <2>3. /\ foCall' = [foCall EXCEPT ![t] = foCall'[t]] /\ foCall'[t] \in FoCallType
        /\ foCall'[t].pc \in {"backoff", "failover"} /\ foCall'[t].id = foCall[t].id
    BY <1>0, <1>1 DEF AcquireProbePermit, FoCallType
  <2>4. FoKnows(foCall'[t], Order(t)) /\ foCall'[t].pc \notin {"idle", "leave"}
    <3>1. Order(t).live = {}
      BY <2>1, CallKnows DEF FoKnows
    <3> QED
      BY <2>3, <3>1 DEF FoKnows
  <2> DEFINE f == foCall'[t]
  <2>5. /\ foCall' = [foCall EXCEPT ![t] = f] /\ f \in FoCallType /\ f.id = foCall[t].id
        /\ FoKnows(f, Order(t)) /\ f.pc \notin {"idle", "leave"}
    BY <2>3, <2>4
  <2> HIDE DEF f
  <2> QED
    BY <2>1, <2>2, <2>5, GoesOn
<1>2. CASE ReleaseProbePermit(t)
  <2>1. CircuitOk(circuit')
    <3> DEFINE p == IF circuit.probes > 0 THEN circuit.probes - 1 ELSE circuit.probes
    <3>1. p \in 0..HalfOpenMaxProbes
      BY <1>0, FoConstants DEF CircuitType
    <3>2. circuit' = [circuit EXCEPT !.probes = p]
      BY <1>2 DEF ReleaseProbePermit
    <3> HIDE DEF p
    <3> QED
      BY <1>0, <3>1, <3>2 DEF CircuitOk, CircuitType
  <2>2. CASE foCall[t].pc = "leave"
    <3>1. foCall' = [foCall EXCEPT ![t] = NoCall]
      BY <1>2, <2>2 DEF ReleaseProbePermit
    <3>2. \A s \in FoThreads : InCall(s)' = InCall(s) /\ (InCall(s) => foCall'[s] = foCall[s])
      BY <1>0, <2>2, <3>1, EndedCall DEF InCall
    <3>3. foCall' \in [FoThreads -> FoCallType]
      BY <1>0, <3>1, EndedCall
    <3>4. UNCHANGED <<foOrder, positions>> /\ foManual' \in 0..MaxFoManual
      BY <1>0, <1>2 DEF ReleaseProbePermit
    <3> QED
      BY <2>1, <3>2, <3>3, <3>4, Aside
  <2>3. CASE foCall[t].pc = "give back"
    <3> DEFINE f == [foCall[t] EXCEPT !.pc = "failover", !.probe = FALSE, !.gen = 0]
    <3>1. foCall' = [foCall EXCEPT ![t] = f] /\ UNCHANGED <<positions, foOrder, foManual>>
      BY <1>2, <2>3 DEF ReleaseProbePermit
    <3>2. f \in FoCallType /\ f.pc = "failover" /\ f.id = foCall[t].id
      BY <1>0 DEF FoCallType
    <3>3. Order(t).live = {} /\ InCall(t)
      <4>1. InCall(t)
        BY <2>3 DEF InCall
      <4> QED
        BY <2>3, <4>1, CallKnows DEF FoKnows
    <3> HIDE DEF f
    <3>4. FoKnows(f, Order(t)) /\ f.pc \notin {"idle", "leave"}
      BY <3>2, <3>3 DEF FoKnows
    <3> QED
      BY <2>1, <3>1, <3>2, <3>3, <3>4, GoesOn
  <2> QED
    BY <1>2, <2>2, <2>3 DEF ReleaseProbePermit
<1> QED
  BY <1>1, <1>2

\* The steps before an order is sent that choose the account.
LEMMA ChoiceSteps ==
  ASSUME FoInv, NEW t \in FoThreads, CheckBackoff(t) \/ CanReduceAt(t)
  PROVE  FoInv'
<1>0. CircuitOk(circuit) /\ foCall \in [FoThreads -> FoCallType] /\ foCall[t] \in FoCallType
  BY DEF FoInv, FoTyped
<1>1. /\ InCall(t) /\ foCall[t].pc \in {"backoff", "can reduce"}
      /\ UNCHANGED <<circuit, positions, foManual>>
  BY DEF CheckBackoff, CanReduceAt, InCall
<1>2. Order(t).live = {}
  BY <1>1, CallKnows DEF FoKnows
<1>3. CASE \E pc \in {"send", "give back", "failover"} : Proceed(t, pc) /\ foOrder' = foOrder
  <2>1. PICK pc \in {"send", "give back", "failover"} : Proceed(t, pc) /\ foOrder' = foOrder
    BY <1>3
  <2> QED
    BY <1>0, <1>1, <1>2, <2>1, Proceeds
<1>4. CASE CheckBackoff(t)
  <2> DEFINE pc == IF ~circuit.backoff THEN "send"
                   ELSE IF foCall[t].probe THEN "give back" ELSE "failover"
  <2>1. pc \in {"send", "give back", "failover"} /\ Proceed(t, pc) /\ foOrder' = foOrder
    BY <1>4 DEF CheckBackoff
  <2> HIDE DEF pc
  <2> QED
    BY <1>3, <2>1
<1>5. CASE /\ CanReduceAt(t) /\ positions[foCall[t].at] < 1 /\ foCall[t].at = "primary"
           /\ foCall' = [foCall EXCEPT ![t].at = "secondary"] /\ UNCHANGED foOrder
  <2> DEFINE f == [foCall[t] EXCEPT !.at = "secondary"]
  <2>1. foCall' = [foCall EXCEPT ![t] = f]
    BY <1>5
  <2>2. f \in FoCallType /\ f.pc = foCall[t].pc /\ f.id = foCall[t].id
    BY <1>0 DEF FoCallType, Accounts
  <2> HIDE DEF f
  <2>3. FoKnows(f, Order(t)) /\ f.pc \notin {"idle", "leave"}
    BY <1>1, <1>2, <2>2 DEF FoKnows
  <2> QED
    BY <1>0, <1>1, <1>5, <2>1, <2>2, <2>3, GoesOn
<1>6. CASE CanReduceAt(t) /\ Finish(t, "not placed")
  BY <1>0, <1>1, <1>2, <1>6, EndsUnconfirmed
<1> QED
  BY <1>3, <1>4, <1>5, <1>6 DEF CanReduceAt

\* What the answer of the primary does to the circuit and to the call.
LEMMA RecordSteps ==
  ASSUME FoInv, NEW t \in FoThreads, CurrentGeneration(t) \/ RecordPrimary(t) \/ TryResolve(t)
  PROVE  FoInv'
<1>0. /\ CircuitOk(circuit) /\ circuit \in CircuitType
      /\ foCall \in [FoThreads -> FoCallType] /\ foCall[t] \in FoCallType
  BY DEF FoInv, FoTyped, CircuitOk
<1>1. /\ InCall(t) /\ foCall[t].pc \in {"generation", "record", "resolve"}
      /\ UNCHANGED <<positions, foManual>>
  BY DEF CurrentGeneration, RecordPrimary, TryResolve, InCall
<1>2. /\ foCall[t].at = "primary" /\ Order(t).live \subseteq {"primary"}
      /\ foCall[t].pc # "resolve" /\ foCall[t].class = "OK" => Order(t).live = {"primary"}
      /\ foCall[t].pc # "resolve" /\ foCall[t].class \notin {"OK", "AMBIGUOUS"} =>
           Order(t).live = {}
  <2>1. FoKnows(foCall[t], Order(t))
    BY <1>1, CallKnows
  <2> QED
    BY <1>1, <2>1 DEF FoKnows
<1>3. CASE CurrentGeneration(t)
  <2> DEFINE f == foCall'[t]
  <2>1. /\ foCall' = [foCall EXCEPT ![t] = f] /\ UNCHANGED <<circuit, foOrder>>
        /\ f \in FoCallType /\ f.pc = "record" /\ f.id = foCall[t].id
        /\ f.at = foCall[t].at /\ f.class = foCall[t].class /\ foCall[t].pc = "generation"
    <3>1. circuit.gen \in Nat
      BY <1>0 DEF CircuitType
    <3> QED
      BY <1>0, <1>3, <3>1 DEF CurrentGeneration, FoCallType
  <2> HIDE DEF f
  <2>2. FoKnows(f, Order(t)) /\ f.pc \notin {"idle", "leave"}
    BY <1>2, <2>1 DEF FoKnows
  <2> QED
    BY <1>0, <1>1, <2>1, <2>2, GoesOn
<1>4. CASE RecordPrimary(t)
  <2>1. CircuitOk(circuit')
    <3>1. foCall[t].probe \in BOOLEAN /\ foCall[t].retryAfter \in BOOLEAN
      BY <1>0 DEF FoCallType
    <3>2. /\ CircuitOk(PrimarySucceeded(circuit, foCall[t].gen, foCall[t].probe))
          /\ CircuitOk(PrimaryFailed(circuit, foCall[t].gen, foCall[t].retryAfter))
      BY <1>0, <3>1, CircuitSteps
    <3> QED
      BY <1>4, <3>2 DEF RecordPrimary
  <2>2. foCall[t].pc = "record"
    BY <1>4 DEF RecordPrimary
  <2>3. CASE foCall[t].class = "OK"
    <3>1. Proceed(t, "apply") /\ foOrder' = foOrder
      BY <1>4, <2>3 DEF RecordPrimary
    <3> QED
      BY <1>1, <1>2, <2>1, <2>2, <2>3, <3>1, Proceeds
  <2>4. CASE foCall[t].class = "AMBIGUOUS" /\ Order(t).effect = "REDUCE"
    <3>1. Finish(t, "Ambiguous")
      BY <1>4, <2>4 DEF RecordPrimary
    <3> QED
      BY <1>1, <2>1, <3>1, EndsUnconfirmed
  <2>5. CASE foCall[t].class = "AMBIGUOUS" /\ Order(t).effect # "REDUCE"
    <3>1. Proceed(t, "resolve") /\ foOrder' = foOrder
      BY <1>4, <2>5 DEF RecordPrimary
    <3> QED
      BY <1>1, <1>2, <2>1, <3>1, Proceeds
  <2>6. CASE foCall[t].class \notin {"OK", "AMBIGUOUS"} /\ Order(t).effect = "REDUCE"
    <3>1. Finish(t, "not placed")
      BY <1>4, <2>6 DEF RecordPrimary
    <3> QED
      BY <1>1, <1>2, <2>1, <2>2, <2>6, <3>1, EndsUnconfirmed
  <2>7. CASE foCall[t].class \notin {"OK", "AMBIGUOUS"} /\ Order(t).effect # "REDUCE"
    <3> DEFINE pc == IF foCall[t].probe THEN "give back" ELSE "failover"
    <3>1. Proceed(t, pc) /\ foOrder' = foOrder /\ pc \in {"give back", "failover"}
      BY <1>4, <2>7 DEF RecordPrimary
    <3> HIDE DEF pc
    <3> QED
      BY <1>1, <1>2, <2>1, <2>2, <2>7, <3>1, Proceeds
  <2> QED
    BY <2>3, <2>4, <2>5, <2>6, <2>7
<1>5. CASE TryResolve(t)
  <2>1. circuit' = circuit
    BY <1>5 DEF TryResolve
  <2>2. CASE Order(t).live # {} /\ Proceed(t, "apply") /\ foOrder' = foOrder
    <3>1. Order(t).live = {"primary"}
      BY <1>2, <2>2
    <3> QED
      BY <1>0, <1>1, <1>2, <2>1, <2>2, <3>1, Proceeds
  <2>3. CASE Finish(t, "Ambiguous")
    BY <1>0, <1>1, <2>1, <2>3, EndsUnconfirmed
  <2> QED
    BY <1>5, <2>2, <2>3 DEF TryResolve
<1> QED
  BY <1>3, <1>4, <1>5

\* What a broker does with an order: takes it, refuses it, or leaves its caller in doubt.
LEMMA BrokerSteps ==
  ASSUME FoInv, NEW t \in FoThreads,
         \/ BrokerAccepts(t)
         \/ \E exc \in Exceptions, taken, retryAfter \in BOOLEAN :
              BrokerRaises(t, exc, taken, retryAfter)
  PROVE  FoInv'
<1> DEFINE i == foCall[t].id
           b == IF foCall[t].pc = "failover" THEN "secondary" ELSE foCall[t].at
<1>1. /\ InCall(t) /\ foCall[t].pc \in {"send", "failover"}
      /\ UNCHANGED <<circuit, positions, foManual>>
  BY DEF BrokerAccepts, BrokerRaises, InCall
<1>2. /\ CircuitOk(circuit) /\ foCall \in [FoThreads -> FoCallType] /\ foCall[t] \in FoCallType
  BY DEF FoInv, FoTyped
<1>3. /\ foOrder \in Seq(FoOrderType) /\ i \in DOMAIN foOrder /\ Order(t) = foOrder[i]
      /\ foOrder[i] \in FoOrderType /\ foOrder[i].told = "nothing" /\ foOrder[i].live = {}
  <2>1. /\ foOrder \in Seq(FoOrderType) /\ i \in DOMAIN foOrder /\ Order(t) = foOrder[i]
        /\ Order(t) \in FoOrderType /\ Order(t).told = "nothing"
        /\ FoKnows(foCall[t], Order(t))
    BY <1>1, CallKnows
  <2>2. Order(t).live = {}
    BY <1>1, <2>1 DEF FoKnows
  <2> QED
    BY <2>1, <2>2
<1>4. b \in Accounts
  BY <1>2 DEF FoCallType, Accounts
<1>5. CircuitOk(circuit')
  BY <1>1, <1>2
<1>6. \A r \in FoOrderType, l \in SUBSET Accounts :
        LET q == [r EXCEPT !.live = l]
        IN  q \in FoOrderType /\ q.live = l /\ q.told = r.told /\ q.effect = r.effect
  BY DEF FoOrderType
<1>7. CASE BrokerAccepts(t)
  <2> DEFINE o == [foOrder[i] EXCEPT !.live = {b}]
             f == foCall'[t]
  <2>1. foOrder' = [foOrder EXCEPT ![i] = o]
    <3>1. foOrder' = [foOrder EXCEPT ![i].live = @ \cup {b}]
      BY <1>7 DEF BrokerAccepts
    <3>2. foOrder[i].live \cup {b} = {b}
      BY <1>3
    <3> HIDE DEF b, i
    <3> QED
      BY <3>1, <3>2
  <2>2. o \in FoOrderType /\ o.live = {b} /\ o.told = "nothing" /\ o.effect = foOrder[i].effect
    BY SMTT(30), <1>3, <1>4, <1>6
  <2>3. /\ foCall' = [foCall EXCEPT ![t] = f] /\ f \in FoCallType /\ f.id = i
        /\ f.class = "OK" /\ f.at = b /\ f.pc \in {"apply", "generation", "record"}
        /\ f.pc \in {"generation", "record"} => b = "primary"
    <3> DEFINE p == CASE b = "secondary" -> "apply"
                      [] b = "primary" /\ Order(t).effect = "REDUCE" -> "generation"
                      [] b = "primary" /\ ~(Order(t).effect = "REDUCE") -> "record"
    <3>1. foCall' = [foCall EXCEPT ![t].class = "OK", ![t].at = b, ![t].pc = p]
      BY <1>7 DEF BrokerAccepts
    <3>2. p \in {"apply", "generation", "record"} /\ (p \in {"generation", "record"} => b = "primary")
      <4>1. CASE b = "secondary"
        BY <4>1
      <4>2. CASE b = "primary" /\ Order(t).effect = "REDUCE"
        BY <4>2
      <4>3. CASE b = "primary" /\ ~(Order(t).effect = "REDUCE")
        BY <4>3
      <4> QED
        BY <1>4, <4>1, <4>2, <4>3 DEF Accounts
    <3> HIDE DEF p, b
    <3> QED
      BY <1>2, <1>4, <3>1, <3>2 DEF FoCallType
  <2> HIDE DEF f, o, b
  <2>4. FoTruth(o)
    BY <1>4, <2>2 DEF FoTruth, Accounts
  <2>5. FoKnows(f, o) /\ f.pc \notin {"idle", "leave"}
    BY <2>2, <2>3 DEF FoKnows
  <2>6. o.effect = Order(t).effect /\ o.told # "OK"
    BY <1>3, <2>2
  <2> QED
    BY <1>1, <1>5, <2>1, <2>2, <2>3, <2>4, <2>5, <2>6, UnconfirmedMoves
<1>8. ASSUME NEW exc \in Exceptions, NEW taken \in BOOLEAN, NEW retryAfter \in BOOLEAN,
             BrokerRaises(t, exc, taken, retryAfter)
      PROVE  FoInv'
  <2> DEFINE class == ClassifyException(exc)
             unmapped == exc = "SymbolMapping" /\ foCall[t].pc = "send"
             told == IF class = "AMBIGUOUS" /\ ~unmapped THEN "Ambiguous" ELSE "not placed"
             l == IF taken THEN {b} ELSE {}
             order == [foOrder EXCEPT ![i].live = IF taken THEN @ \cup {b} ELSE @]
             over == b = "secondary" \/ class = "REJECTED" \/ unmapped
  <2>1. /\ taken => MayBeLive(exc)
        /\ class \in BrokerErrors
        /\ taken => class = "AMBIGUOUS" /\ ~unmapped
    BY <1>8 DEF BrokerRaises, ClassifyException, Exceptions, BrokerErrors, MayBeLive
  <2>2. l \in SUBSET Accounts /\ (~taken => l = {}) /\ l \in {{}, {"primary"}, {"secondary"}}
    BY <1>4 DEF Accounts
  <2>3. IF over
        THEN /\ foOrder' = [order EXCEPT ![i].told = told]
             /\ foCall' = [foCall EXCEPT ![t] = IF foCall[t].probe
                                                THEN [NoCall EXCEPT !.pc = "leave"] ELSE NoCall]
        ELSE /\ foOrder' = order
             /\ foCall' = [foCall EXCEPT
                  ![t].pc = IF Order(t).effect = "REDUCE" THEN "generation" ELSE "record",
                  ![t].class = class, ![t].retryAfter = retryAfter]
    BY <1>8, Zenon DEF BrokerRaises
  <2>4. order = [foOrder EXCEPT ![i] = [foOrder[i] EXCEPT !.live = l]]
    <3>1. (IF taken THEN foOrder[i].live \cup {b} ELSE foOrder[i].live) = l
      BY <1>3
    <3> HIDE DEF b, i, l
    <3> QED
      BY <3>1
  <2>5. CASE over
    <3> DEFINE o == [foOrder[i] EXCEPT !.live = l, !.told = told]
               f == IF foCall[t].probe THEN [NoCall EXCEPT !.pc = "leave"] ELSE NoCall
    <3>1. foOrder' = [foOrder EXCEPT ![i] = o] /\ foCall' = [foCall EXCEPT ![t] = f]
      <4>1. foOrder' = [order EXCEPT ![i].told = told] /\ foCall' = [foCall EXCEPT ![t] = f]
        BY <2>3, <2>5
      <4> HIDE DEF order, told, l, i
      <4>2. foOrder' = [foOrder EXCEPT ![i] = o]
        BY <1>3, <2>4, <4>1
      <4> QED
        BY <4>1, <4>2
    <3>2. told \in {"Ambiguous", "not placed"} /\ (told = "not placed" => l = {})
      BY <2>1, <2>2
    <3> HIDE DEF told, l
    <3>3. o \in FoOrderType /\ o.live = l /\ o.told = told /\ o.effect = foOrder[i].effect
      BY <1>3, <2>2, <3>2 DEF FoOrderType
    <3>4. f \in FoCallType /\ f.pc \in {"idle", "leave"}
      BY EndedCall
    <3> HIDE DEF o, f
    <3>5. FoTruth(o)
      BY <2>2, <3>2, <3>3 DEF FoTruth
    <3>6. o.effect = Order(t).effect /\ o.told \notin {"OK", "nothing"}
      BY <1>3, <3>2, <3>3
    <3> QED
      BY <1>1, <1>5, <3>1, <3>3, <3>4, <3>5, <3>6, UnconfirmedMoves
  <2>6. CASE ~over
    <3> DEFINE o == [foOrder[i] EXCEPT !.live = l]
               f == foCall'[t]
    <3>1. foOrder' = [foOrder EXCEPT ![i] = o]
      BY <2>3, <2>4, <2>6
    <3>2. /\ foCall' = [foCall EXCEPT ![t] = f] /\ f \in FoCallType /\ f.id = i
          /\ f.class = class /\ f.at = foCall[t].at /\ f.pc \in {"generation", "record"}
      <4>1. foCall' = [foCall EXCEPT
                  ![t].pc = IF Order(t).effect = "REDUCE" THEN "generation" ELSE "record",
                  ![t].class = class, ![t].retryAfter = retryAfter]
        BY <2>3, <2>6
      <4> HIDE DEF class
      <4> QED
        BY <1>2, <2>1, <4>1 DEF FoCallType
    <3>3. o \in FoOrderType /\ o.live = l /\ o.told = "nothing" /\ o.effect = foOrder[i].effect
      <4> HIDE DEF l
      <4> QED
        BY <1>3, <1>6, <2>2
    <3>4. b = "primary" /\ foCall[t].at = "primary"
      BY <1>2, <2>6 DEF FoCallType, Accounts
    <3>5. FoTruth(o)
      <4> HIDE DEF l, o
      <4> QED
        BY <2>2, <3>3 DEF FoTruth
    <3>6. l \subseteq {"primary"} /\ (class # "AMBIGUOUS" => l = {})
      BY <2>1, <2>2, <3>4
    <3> HIDE DEF f, o, l
    <3>7. FoKnows(f, o) /\ f.pc \notin {"idle", "leave"}
      <4>1. class # "OK"
        BY <2>1 DEF BrokerErrors
      <4> HIDE DEF class
      <4> QED
        BY <3>2, <3>3, <3>4, <3>6, <4>1 DEF FoKnows
    <3>8. o.effect = Order(t).effect /\ o.told # "OK"
      BY <1>3, <3>3
    <3> QED
      BY <1>1, <1>5, <3>1, <3>2, <3>3, <3>5, <3>7, <3>8, UnconfirmedMoves
  <2> QED
    BY <2>5, <2>6
<1> QED
  BY <1>7, <1>8

\* Every step keeps the invariant: one case per action.
LEMMA FoStep == FoInv /\ [FoNext]_foVars => FoInv'
<1> SUFFICES ASSUME FoInv, [FoNext]_foVars PROVE FoInv'
  OBVIOUS
<1>0. /\ CircuitOk(circuit) /\ circuit \in CircuitType /\ foManual \in 0..MaxFoManual
      /\ foCall \in [FoThreads -> FoCallType]
  BY DEF FoInv, FoTyped, CircuitOk
<1>1. ASSUME UNCHANGED <<foOrder, positions, foCall>>, CircuitOk(circuit'),
             foManual' \in 0..MaxFoManual
      PROVE  FoInv'
  <2>1. \A s \in FoThreads : InCall(s)' = InCall(s) /\ (InCall(s) => foCall'[s] = foCall[s])
    BY <1>1 DEF InCall
  <2> QED
    BY <1>0, <1>1, <2>1, Aside
<1>2. ASSUME NEW t \in FoThreads, SubmitOpen(t) \/ SubmitReduce(t) PROVE FoInv'
  BY <1>2, SubmitSteps
<1>3. ASSUME NEW t \in FoThreads, AcquireProbePermit(t) \/ ReleaseProbePermit(t) PROVE FoInv'
  BY <1>3, PermitSteps
<1>4. ASSUME NEW t \in FoThreads, CheckBackoff(t) \/ CanReduceAt(t) PROVE FoInv'
  BY <1>4, ChoiceSteps
<1>5. ASSUME NEW t \in FoThreads,
             \/ BrokerAccepts(t)
             \/ \E exc \in Exceptions, taken, retryAfter \in BOOLEAN :
                  BrokerRaises(t, exc, taken, retryAfter)
      PROVE  FoInv'
  BY <1>5, BrokerSteps
<1>6. ASSUME NEW t \in FoThreads, CurrentGeneration(t) \/ RecordPrimary(t) \/ TryResolve(t)
      PROVE  FoInv'
  BY <1>6, RecordSteps
<1>7. ASSUME NEW t \in FoThreads, ApplyFill(t) PROVE FoInv'
  BY <1>7, ConfirmKeeps
<1>8. ASSUME NEW b \in Accounts, SetPosition(b) PROVE FoInv'
  BY <1>8, CorrectionKeeps
<1>9. CASE ManualReset
  <2>1. circuit.gen + 1 \in Nat /\ 0 \in 0..HalfOpenMaxProbes /\ 0 \in 0..(HalfOpenSuccessesToClose - 1)
    BY <1>0, FoConstants DEF CircuitType
  <2>2. CircuitOk(circuit')
    BY <1>0, <1>9, <2>1 DEF ManualReset, CircuitOk, CircuitType
  <2>3. foManual' \in 0..MaxFoManual
    BY <1>0, <1>9, FoConstants DEF ManualReset
  <2> QED
    BY <1>1, <1>9, <2>2, <2>3 DEF ManualReset
<1>10. CASE ManualOpen
  <2>1. Trip(circuit) \in CircuitType /\ Trip(circuit).state = "OPEN"
    BY <1>0, TripIs
  <2>2. CircuitOk(circuit')
    <3> DEFINE c == Trip(circuit)
    <3>1. circuit' = [c EXCEPT !.manual = TRUE, !.elapsed = FALSE]
      BY <1>10 DEF ManualOpen
    <3> HIDE DEF c
    <3>2. c \in CircuitType /\ c.state = "OPEN"
      BY <2>1 DEF c
    <3> QED
      BY <3>1, <3>2 DEF CircuitOk, CircuitType
  <2>3. foManual' \in 0..MaxFoManual
    BY <1>0, <1>10, FoConstants DEF ManualOpen
  <2> QED
    BY <1>1, <1>10, <2>2, <2>3 DEF ManualOpen
<1>11. CASE TimePasses
  <2>1. CircuitOk(circuit')
    BY <1>0, <1>11 DEF TimePasses, CircuitOk, CircuitType
  <2> QED
    BY <1>0, <1>1, <1>11, <2>1 DEF TimePasses
<1>12. CASE FoDone \/ UNCHANGED foVars
  BY <1>0, <1>1, <1>12 DEF FoDone, foVars
<1> QED
  BY <1>2, <1>3, <1>4, <1>5, <1>6, <1>7, <1>8, <1>9, <1>10, <1>11, <1>12 DEF FoNext

\* A router starts with no orders and the positions it was given.
LEMMA FoStarts == FoInit => FoInv
<1> SUFFICES ASSUME FoInit PROVE FoInv
  OBVIOUS
<1>1. FoTyped
  <2>1. 0 \in 0..HalfOpenMaxProbes /\ 0 \in 0..(HalfOpenSuccessesToClose - 1) /\ 0 \in 0..MaxFoManual
    BY FoConstants
  <2>2. CircuitOk(circuit)
    BY <2>1 DEF FoInit, CircuitOk, CircuitType
  <2>3. foOrder \in Seq(FoOrderType) /\ Len(foOrder) <= MaxFoOrders
    BY FoConstants DEF FoInit
  <2>4. foCall \in [FoThreads -> FoCallType]
    BY EndedCall DEF FoInit
  <2>5. positions \in [Accounts -> Int]
    BY FoConstants DEF FoInit
  <2> QED
    BY <2>1, <2>2, <2>3, <2>4, <2>5 DEF FoInit, FoTyped
<1>2. \A t \in FoThreads : ~InCall(t)
  BY EndedCall DEF FoInit, InCall
<1>3. DOMAIN foOrder = {}
  BY DEF FoInit
<1>4. FoCalls
  BY <1>2, <1>3 DEF FoCalls, FoHolds
<1>5. PositionInv
  <2> SUFFICES ASSUME NEW b \in Accounts PROVE positions[b] = Holdings[b] + Lots(OkAt(b))
    BY DEF PositionInv
  <2>1. OkAt(b) = {}
    BY <1>3 DEF OkAt, LiveAt
  <2>2. Lots({}) = Cardinality({}) - Cardinality({})
    <3>1. /\ {i \in {} : foOrder[i].effect = "OPEN"} = {}
          /\ {i \in {} : foOrder[i].effect = "REDUCE"} = {}
      OBVIOUS
    <3> QED
      BY <3>1 DEF Lots
  <2>3. Cardinality({}) = 0
    BY FS_EmptySet
  <2>4. Holdings[b] \in Nat
    BY FoConstants
  <2> QED
    BY <2>1, <2>2, <2>3, <2>4 DEF FoInit
<1> QED
  BY <1>1, <1>4, <1>5 DEF FoInv

\* For any number of threads, orders and operator actions, an order is never live in
\* both accounts, what its caller is told is true, the cached positions are those of
\* the confirmed orders, and a locked-out circuit stays open.
THEOREM FailoverStaysSafe == FoSpec => [](FoTypeOK /\ FailoverIsSafe)
<1>1. FoInv => FoTypeOK
  <2> SUFFICES ASSUME FoInv PROVE FoTypeOK
    OBVIOUS
  <2>1. foOrder \in Seq(FoOrderType) /\ foCall \in [FoThreads -> FoCallType]
    BY DEF FoInv, FoTyped
  <2>2. \A j \in DOMAIN foOrder : foOrder[j] \in FoOrderType
    BY <2>1
  <2>3. \A t \in FoThreads : foCall[t] \in FoCallType
    BY <2>1
  <2>4. circuit \in CircuitType /\ positions \in [Accounts -> Int] /\ foManual \in 0..MaxFoManual
    BY DEF FoInv, FoTyped, CircuitOk
  <2> QED
    BY <2>2, <2>3, <2>4, Zenon DEF FoTypeOK, FoOrderType, FoCallType, CircuitType
<1>2. FoInv => FailoverIsSafe
  <2> SUFFICES ASSUME FoInv PROVE FailoverIsSafe
    OBVIOUS
  <2>1. Cardinality({}) = 0 /\ Cardinality({"primary"}) = 1 /\ Cardinality({"secondary"}) = 1
    BY FS_EmptySet, FS_Singleton
  <2>2. ASSUME NEW j \in DOMAIN foOrder
        PROVE  /\ Cardinality(foOrder[j].live) <= 1
               /\ foOrder[j].told = "OK" => foOrder[j].live # {}
               /\ foOrder[j].live # {} => foOrder[j].told \in {"nothing", "OK", "Ambiguous"}
    <3>1. FoTruth(foOrder[j]) /\ foOrder[j] \in FoOrderType
      <4>1. foOrder \in Seq(FoOrderType) /\ FoTruth(foOrder[j])
        BY DEF FoInv, FoTyped, FoCalls
      <4> QED
        BY <4>1
    <3>2. foOrder[j].told \in {"nothing", "OK", "Ambiguous", "not placed"}
      BY <3>1 DEF FoOrderType
    <3>3. /\ foOrder[j].live \in {{}, {"primary"}, {"secondary"}}
          /\ foOrder[j].told = "OK" => foOrder[j].live # {}
          /\ foOrder[j].told = "not placed" => foOrder[j].live = {}
      BY <3>1 DEF FoTruth
    <3>4. Cardinality(foOrder[j].live) <= 1
      <4>1. CASE foOrder[j].live = {}
        BY <2>1, <4>1
      <4>2. CASE foOrder[j].live = {"primary"}
        BY <2>1, <4>2
      <4>3. CASE foOrder[j].live = {"secondary"}
        BY <2>1, <4>3
      <4> QED
        BY <3>3, <4>1, <4>2, <4>3
    <3> QED
      BY <3>2, <3>3, <3>4
  <2>3. \A b \in Accounts :
          positions[b] = Holdings[b] + Lots({i \in LiveAt(b) : foOrder[i].told = "OK"})
    BY DEF FoInv, PositionInv, OkAt
  <2>4. circuit.manual => circuit.state = "OPEN"
    BY DEF FoInv, FoTyped, CircuitOk
  <2> QED
    BY <2>2, <2>3, <2>4 DEF FailoverIsSafe
<1> QED
  BY <1>1, <1>2, FoStarts, FoStep, PTL DEF FoSpec

==============================================================================
