-------------------------- MODULE DownstreamBreaker --------------------------
(***************************************************************************)
(* CircuitBreaker of circuit_breaker.py around one downstream service:     *)
(* callers that get a permit, call the service without any lock, and       *)
(* report back while the circuit may have opened, half-opened and closed   *)
(* in the meantime; an operator who overrides it; a clock.                 *)
(*                                                                         *)
(* Every method runs under the lock and is one step on the record "cb".    *)
(* Jitter is left out (jitter_ratio = 0) and so are the counters that are  *)
(* only reported.                                                          *)
(***************************************************************************)
EXTENDS Integers, FiniteSets, FiniteSetsExt

CONSTANTS
  Callers,
  FailureThreshold,    \* failure_threshold
  RecoveryTimeout,     \* recovery_timeout_sec
  MaxRecoveryTimeout,  \* max_recovery_timeout_sec
  BackoffMultiplier,   \* backoff_multiplier
  HalfOpenMaxCalls,    \* half_open_max_calls
  SuccessThreshold,    \* half_open_success_threshold
  FailureWindow,       \* failure_window_sec; 0 stands for None
  SlowCall,            \* slow_call_duration_sec; 0 stands for None
  MaxCbClock, MaxCbCalls, MaxOverrides  \* bounds: time, calls, overrides

ASSUME DownstreamAssumption ==
  /\ {FailureThreshold, RecoveryTimeout, BackoffMultiplier, HalfOpenMaxCalls,
      SuccessThreshold} \subseteq Nat \ {0}
  /\ MaxRecoveryTimeout \in Nat /\ MaxRecoveryTimeout >= RecoveryTimeout
  /\ {FailureWindow, SlowCall, MaxCbClock, MaxCbCalls, MaxOverrides} \subseteq Nat

VARIABLES
  cb,         \* the circuit breaker
  cbClock,
  permit,     \* the permit of each caller's call in flight
  cbCalls, overrides,
  lastOpen,   \* observer: when the circuit was last opened
  growth,     \* observer: the product of the multipliers of the probes that failed in a
              \* row since the circuit last tripped
  evidence    \* observer: calls started, and ended in time, after lastOpen

cbVars == <<cb, cbClock, permit, cbCalls, overrides, lastOpen, growth, evidence>>

Never == -1   \* Python's None for a time
NoPermit == [state |-> "none", gen |-> 0, at |-> 0]

CbInit ==
  /\ cb = [state |-> "CLOSED", gen |-> 0, failures |-> 0, lastFailure |-> Never,
           openedAt |-> Never, timeout |-> RecoveryTimeout, successes |-> 0, inFlight |-> 0]
  /\ cbClock = 0
  /\ permit = [c \in Callers |-> NoPermit]
  /\ cbCalls = 0 /\ overrides = 0
  /\ lastOpen = Never /\ growth = 1 /\ evidence = 0

-----------------------------------------------------------------------------
\* A new state starts a new generation with no probes.
Enter(b, state) == [b EXCEPT !.state = state, !.gen = @ + 1, !.successes = 0, !.inFlight = 0]

\* Mutant: the escalated timeout is not kept for the next failed probe.
OpenDoublesOnce(b, escalate) ==
  [Enter(b, "OPEN") EXCEPT !.openedAt = cbClock,
     !.timeout = IF escalate THEN Min({RecoveryTimeout * BackoffMultiplier, MaxRecoveryTimeout})
                 ELSE RecoveryTimeout]

\* _open_locked
Open(b, escalate) ==
  [Enter(b, "OPEN") EXCEPT !.openedAt = cbClock,
     !.timeout = IF escalate THEN Min({@ * BackoffMultiplier, MaxRecoveryTimeout})
                 ELSE RecoveryTimeout]

\* _close_locked
Close(b) ==
  [Enter(b, "CLOSED") EXCEPT !.failures = 0, !.lastFailure = Never, !.openedAt = Never,
                             !.timeout = RecoveryTimeout]

\* _maybe_half_open_locked
MaybeHalfOpen(b) ==
  IF b.state = "OPEN" /\ b.openedAt # Never /\ cbClock - b.openedAt >= b.timeout
  THEN Enter(b, "HALF_OPEN") ELSE b

\* Mutant: the slot is given back whichever generation the probe belongs to.
GiveBackAny(b, p) ==
  IF p.state = "HALF_OPEN" /\ b.inFlight > 0 THEN [b EXCEPT !.inFlight = @ - 1] ELSE b

\* A probe of the current generation gives its slot back.
GiveBack(b, p) ==
  IF p.state = "HALF_OPEN" /\ p.gen = b.gen /\ b.inFlight > 0
  THEN [b EXCEPT !.inFlight = @ - 1] ELSE b

\* _record_success_locked
Succeeded(b, p) ==
  IF p.gen # b.gen THEN b
  ELSE IF p.state = "HALF_OPEN"
  THEN LET c == [GiveBack(b, p) EXCEPT !.successes = @ + 1]
       IN  IF c.successes >= SuccessThreshold THEN Close(c) ELSE c
  ELSE [b EXCEPT !.failures = 0, !.lastFailure = Never]

\* _record_failure_locked
Failed(b, p) ==
  LET expired == /\ FailureWindow # 0 /\ b.lastFailure # Never
                 /\ cbClock - b.lastFailure > FailureWindow
      c == [b EXCEPT !.failures = (IF expired THEN 0 ELSE @) + 1, !.lastFailure = cbClock]
  IN  IF p.gen # b.gen THEN b
      ELSE IF p.state = "HALF_OPEN" THEN Open(GiveBack(b, p), TRUE)
      ELSE IF c.failures >= FailureThreshold THEN Open(c, FALSE) ELSE c

\* A call that succeeds too slowly is a failure.
Slow(p) == SlowCall # 0 /\ cbClock - p.at > SlowCall

\* The observers after the breaker has become b; "counts" says whether a call
\* that started after the last opening has just succeeded.
Observe(b, counts) ==
  IF b.state = "OPEN" /\ b.gen # cb.gen
  THEN /\ lastOpen' = cbClock /\ evidence' = 0
       /\ growth' = IF cb.state = "HALF_OPEN" /\ overrides' = overrides
                    THEN growth * BackoffMultiplier ELSE 1
  ELSE /\ evidence' = IF counts THEN evidence + 1 ELSE evidence
       /\ UNCHANGED <<lastOpen, growth>>

-----------------------------------------------------------------------------
\* _acquire_permit.  A call that is refused fails fast and leaves no trace but
\* the half-open state.
AcquirePermit(c) ==
  LET b == MaybeHalfOpen(cb)
      refused == b.state = "OPEN" \/ (b.state = "HALF_OPEN" /\ b.inFlight >= HalfOpenMaxCalls)
  IN
  /\ permit[c] = NoPermit /\ cbCalls < MaxCbCalls
  /\ cbCalls' = cbCalls + 1
  /\ IF refused THEN cb' = b /\ UNCHANGED permit
     ELSE /\ cb' = IF b.state = "HALF_OPEN" THEN [b EXCEPT !.inFlight = @ + 1] ELSE b
          /\ permit' = [permit EXCEPT ![c] = [state |-> b.state, gen |-> b.gen, at |-> cbClock]]
  /\ UNCHANGED <<cbClock, overrides, lastOpen, growth, evidence>>

\* The call returns: _record_success, or _record_failure for a slow one.
CallSucceeds(c) ==
  LET p == permit[c]
      b == IF Slow(p) THEN Failed(cb, p) ELSE Succeeded(cb, p)
  IN
  /\ p # NoPermit
  /\ cb' = b
  /\ permit' = [permit EXCEPT ![c] = NoPermit]
  /\ UNCHANGED <<cbClock, cbCalls, overrides>>
  /\ Observe(b, ~Slow(p) /\ lastOpen # Never /\ p.at > lastOpen)

\* The call raises one of expected_exceptions: _record_failure.
CallFails(c) ==
  /\ permit[c] # NoPermit
  /\ cb' = Failed(cb, permit[c])
  /\ permit' = [permit EXCEPT ![c] = NoPermit]
  /\ UNCHANGED <<cbClock, cbCalls, overrides>>
  /\ Observe(Failed(cb, permit[c]), FALSE)

\* It raises anything else, or a nested breaker is open: _release_permit.
CallReleased(c) ==
  /\ permit[c] # NoPermit
  /\ cb' = GiveBack(cb, permit[c])
  /\ permit' = [permit EXCEPT ![c] = NoPermit]
  /\ UNCHANGED <<cbClock, cbCalls, overrides, lastOpen, growth, evidence>>

\* reset and force_open
Override ==
  /\ overrides < MaxOverrides
  /\ overrides' = overrides + 1
  /\ \E b \in {Close(cb), Open(cb, FALSE)} : cb' = b /\ Observe(b, FALSE)
  /\ UNCHANGED <<cbClock, permit, cbCalls>>

CbTick ==
  /\ cbClock < MaxCbClock
  /\ cbClock' = cbClock + 1
  /\ UNCHANGED <<cb, permit, cbCalls, overrides, lastOpen, growth, evidence>>

CbDone ==
  /\ cbClock = MaxCbClock /\ cbCalls = MaxCbCalls
  /\ UNCHANGED cbVars

CbNext ==
  \/ \E c \in Callers : AcquirePermit(c) \/ CallSucceeds(c) \/ CallFails(c) \/ CallReleased(c)
  \/ Override \/ CbTick \/ CbDone

CbSpec == CbInit /\ [][CbNext]_cbVars

-----------------------------------------------------------------------------
CbTypeOK ==
  /\ cb \in [state : {"CLOSED", "OPEN", "HALF_OPEN"}, gen : Nat, failures : 0..FailureThreshold,
             lastFailure : Int, openedAt : Int, timeout : RecoveryTimeout..MaxRecoveryTimeout,
             successes : 0..SuccessThreshold, inFlight : 0..HalfOpenMaxCalls]
  /\ permit \in [Callers -> [state : {"none", "CLOSED", "HALF_OPEN"}, gen : Nat, at : Nat]]

\* The half-open slots in use are the probes in flight of this generation, at
\* most HalfOpenMaxCalls: late answers of older probes neither free a slot that
\* is not theirs nor keep one taken for ever.
CbProbesCounted ==
  /\ cb.inFlight = Cardinality({c \in Callers : permit[c].state = "HALF_OPEN"
                                                /\ permit[c].gen = cb.gen})
  /\ cb.inFlight <= HalfOpenMaxCalls

\* A half-open circuit closes by itself only on SuccessThreshold fast successes
\* of calls that were started after it last opened, and it opened its first
\* probe only after the whole recovery timeout, multiplied once for every probe that
\* failed in a row, up to the ceiling.
CbCloseIsEarned ==
  [][/\ cb.state = "HALF_OPEN" /\ cb'.state = "CLOSED" /\ overrides' = overrides =>
          evidence' >= SuccessThreshold
     /\ cb.state = "OPEN" /\ cb'.state = "HALF_OPEN" =>
          cbClock - lastOpen >= Min({RecoveryTimeout * growth, MaxRecoveryTimeout})]_cbVars
=============================================================================
