----------------------------- MODULE KillSwitch ------------------------------
(***************************************************************************)
(* KillSwitchCircuitBreaker of circuit_breaker.py, with the actors that    *)
(* share it: strategy threads that ask for approval and then trade, a risk *)
(* monitor, a reconciliation poller, cash movements and an operator.       *)
(*                                                                         *)
(* Every method runs under the breaker's re-entrant lock, so it is one     *)
(* step, except that a halt keeps the lock while it alerts and flattens:   *)
(* "response" is the stage of that.  flatten_fn routes its order through   *)
(* check_proposed_order on its own thread.  What the lock does not cover   *)
(* is a strategy's path from reading its position, through the approval,   *)
(* to the fill.                                                            *)
(***************************************************************************)
EXTENDS Integers, Sequences

CONSTANTS
  Strategies,        \* threads that trade one instrument
  MaxPosition,       \* max_position
  MaxSize,           \* bound: largest order they propose
  Equities,          \* bound: equities the monitor may report
  Flows,             \* bound: deposits and withdrawals
  DrawdownNum, DrawdownDen,  \* max_drawdown_pct as a fraction
  MaxRejections,     \* max_consecutive_rejections; 0 stands for None
  AllowReduceOnly,   \* allow_reduce_only_when_halted
  NoValue,           \* Python's None where a number may stand
  MaxFlows,          \* bound: cash movements
  MaxEntries         \* bound: audit entries of one halt

ASSUME BreakerAssumption ==
  /\ MaxPosition \in Nat \ {0}
  /\ MaxSize \in Nat \ {0}
  /\ Equities \subseteq Int /\ Flows \subseteq Int
  /\ DrawdownNum \in Nat \ {0} /\ DrawdownDen \in Nat /\ DrawdownNum <= DrawdownDen
  /\ MaxRejections \in Nat /\ MaxFlows \in Nat /\ MaxEntries \in Nat
  /\ AllowReduceOnly \in BOOLEAN
  /\ NoValue \notin Int

VARIABLES
  halted, status,   \* the halt flag and its cause
  peak,             \* peak_equity, NoValue before the first check
  rejections,       \* consecutive_rejections
  episode,          \* audit_log entries since the last re-enable
  response,         \* stage of the halt response that holds the lock
  closing,          \* the position flatten_fn read
  position,         \* the position at the broker
  strat,            \* what each strategy thread is doing
  seenEquity,       \* observer: equities evaluated since the last re-baseline,
                    \* each moved by the cash flows recorded after it
  lastEquity,       \* observer: the equity of the last check, if nothing since
                    \* has moved the high-water mark
  flows             \* cash movements so far

breakerVars == <<halted, status, peak, rejections, episode, response>>
observers   == <<seenEquity, lastEquity>>
vars == <<halted, status, peak, rejections, episode, response, closing, position,
          strat, seenEquity, lastEquity, flows>>

Abs(n) == IF n < 0 THEN -n ELSE n

Orders == (-MaxSize..MaxSize) \ {0}

Statuses == {"ACTIVE", "POSITION_LIMIT", "DAILY_LOSS", "DRAWDOWN", "DESYNC",
             "MANUAL_KILL", "INVALID_INPUT"}

\* A strategy thread: its order, the position it read, and whether the approval
\* was given during the current halt.
Idle == [pc |-> "idle", delta |-> 0, current |-> 0, inHalt |-> FALSE]

Init ==
  /\ halted = FALSE /\ status = "ACTIVE"
  /\ peak = NoValue
  /\ rejections = 0
  /\ episode = <<>>
  /\ response = "none"
  /\ closing = 0
  /\ position = 0
  /\ strat = [s \in Strategies |-> Idle]
  /\ seenEquity = {} /\ lastEquity = NoValue
  /\ flows = 0

-----------------------------------------------------------------------------
\* Mutant: an order that closes the position exactly is not seen as reducing.
IsReducingNotToZero(current, delta) ==
  LET projected == current + delta
  IN  /\ delta # 0
      /\ Abs(projected) < Abs(current)
      /\ current > 0 => projected > 0
      /\ current < 0 => projected < 0

\* is_risk_reducing: strictly toward zero, without crossing it.
IsRiskReducing(current, delta) ==
  LET projected == current + delta
  IN  /\ delta # 0
      /\ Abs(projected) < Abs(current)
      /\ current > 0 => projected >= 0
      /\ current < 0 => projected <= 0

\* Mutant: the limit is compared with the order, not the projected position.
WithinOrderLimit(current, delta) == Abs(delta) <= MaxPosition

\* The projected position respects the limit.
WithinLimit(current, delta) == Abs(current + delta) <= MaxPosition

\* The verdict of check_proposed_order, given the breaker's state.
Approves(current, delta) ==
  IF halted THEN IsRiskReducing(current, delta) /\ AllowReduceOnly
  ELSE WithinLimit(current, delta) \/ IsRiskReducing(current, delta)

\* Nobody is inside a halt response, so the lock can be taken.
LockFree == response = "none"

-----------------------------------------------------------------------------
\* Mutant: the last cause overwrites the first.
TriggerHaltLastCause(cause) ==
  /\ halted' = TRUE
  /\ status' = cause
  /\ episode' = Append(episode, [cause |-> cause, flattened |-> "pending"])
  /\ response' = "alert"

\* _trigger_halt up to the alert.  The first cause of an episode stays in
\* status; the response runs for the first cause and for a manual kill
\* (force_response).  The audit entry says so.
TriggerHalt(cause) ==
  /\ halted' = TRUE
  /\ status' = IF halted THEN status ELSE cause
  /\ LET run == ~halted \/ cause = "MANUAL_KILL"
     IN  /\ episode' = Append(episode, [cause |-> cause,
                                        flattened |-> IF run THEN "pending" ELSE "skipped"])
         /\ response' = IF run THEN "alert" ELSE "none"

\* A strategy thread looks up its position and decides on an order.
Propose(s) ==
  /\ strat[s].pc = "idle"
  /\ \E delta \in Orders :
       strat' = [strat EXCEPT ![s] = [pc |-> "check", delta |-> delta,
                                      current |-> position, inHalt |-> FALSE]]
  /\ UNCHANGED <<breakerVars, closing, position, observers, flows>>

\* check_proposed_order.  A position-limit rejection counts toward the
\* escalation; an approval outside a halt resets the count.
CheckProposedOrder(s) ==
  LET order == strat[s]
      approved == Approves(order.current, order.delta)
      count == rejections + 1
  IN
  /\ order.pc = "check"
  /\ LockFree
  /\ strat' = [strat EXCEPT ![s] =
                 IF approved THEN [@ EXCEPT !.pc = "approved", !.inHalt = halted] ELSE Idle]
  /\ IF halted THEN UNCHANGED breakerVars
     ELSE IF approved
     THEN rejections' = 0 /\ UNCHANGED <<halted, status, peak, episode, response>>
     ELSE /\ rejections' = count
          /\ UNCHANGED peak
          /\ IF MaxRejections # 0 /\ count >= MaxRejections
             THEN TriggerHalt("POSITION_LIMIT")
             ELSE UNCHANGED <<halted, status, episode, response>>
  /\ UNCHANGED <<closing, position, observers, flows>>

\* EXTERNAL: the approved order is sent and filled.  No lock is involved.
Fill(s) ==
  /\ strat[s].pc = "approved"
  /\ position' = position + strat[s].delta
  /\ strat' = [strat EXCEPT ![s] = Idle]
  /\ UNCHANGED <<breakerVars, closing, observers, flows>>

-----------------------------------------------------------------------------
\* Mutant: the high-water mark is whatever equity was seen first.
PeakNeverRises(equity) == IF peak = NoValue THEN equity ELSE peak

\* The high-water mark after an equity has been evaluated.
NewPeak(equity) == IF peak = NoValue \/ equity > peak THEN equity ELSE peak

\* The cause, if any, for which check_pnl_and_drawdown halts; "loss" says
\* whether daily_pnl is at or beyond the daily loss limit.
Breach(equity, loss) ==
  LET p == NewPeak(equity)
  IN  CASE p <= 0 -> "INVALID_INPUT"
        [] p > 0 /\ loss -> "DAILY_LOSS"
        [] p > 0 /\ ~loss /\ (p - equity) * DrawdownDen >= DrawdownNum * p -> "DRAWDOWN"
        [] OTHER -> "ACTIVE"

\* check_pnl_and_drawdown with finite inputs; halted already, it returns early.
CheckPnlAndDrawdown(equity, loss) ==
  /\ LockFree /\ ~halted
  /\ peak' = NewPeak(equity)
  /\ LET cause == Breach(equity, loss)
     IN  IF cause = "ACTIVE" THEN UNCHANGED <<halted, status, episode, response>>
         ELSE TriggerHalt(cause)
  /\ seenEquity' = seenEquity \cup {equity} /\ lastEquity' = equity
  /\ UNCHANGED <<rejections, closing, position, strat, flows>>

\* The same with a NaN or infinite input: fail closed, before the peak moves.
CheckPnlNotFinite ==
  /\ LockFree /\ ~halted
  /\ TriggerHalt("INVALID_INPUT")
  /\ UNCHANGED <<peak, rejections, closing, position, strat, observers, flows>>

\* Mutant: a withdrawal does not lower the high-water mark.
FlowedDepositsOnly(amount) == IF amount > 0 THEN peak + amount ELSE peak

\* The high-water mark after a cash movement.
Flowed(amount) == peak + amount

\* record_capital_flow, called as the cash settles and before the next check.
RecordCapitalFlow(amount) ==
  /\ LockFree
  /\ flows < MaxFlows
  /\ flows' = flows + 1
  /\ IF peak = NoValue THEN UNCHANGED <<peak, observers>>
     ELSE /\ peak' = Flowed(amount)
          /\ seenEquity' = {e + amount : e \in seenEquity}
          /\ lastEquity' = NoValue
  /\ UNCHANGED <<halted, status, rejections, episode, response, closing, position, strat>>

\* reconcile_broker_positions finds a desync; the halt flag is looked at under
\* the lock, after the comparison.
ReconcileDesync ==
  /\ LockFree
  /\ ~halted
  /\ TriggerHalt("DESYNC")
  /\ UNCHANGED <<peak, rejections, closing, position, strat, observers, flows>>

\* trigger_emergency_kill_switch
EmergencyKill ==
  /\ LockFree
  /\ Len(episode) < MaxEntries
  /\ TriggerHalt("MANUAL_KILL")
  /\ UNCHANGED <<peak, rejections, closing, position, strat, observers, flows>>

-----------------------------------------------------------------------------
\* The halt response, on the thread that triggered it and still holds the lock.
\* The alert is sent; whether alert_fn raises changes nothing.  flatten_fn then
\* reads the position.
Alert ==
  /\ response = "alert"
  /\ response' = IF position = 0 THEN "done" ELSE "flatten"
  /\ closing' = position
  /\ UNCHANGED <<halted, status, peak, rejections, episode, position, strat, observers, flows>>

\* flatten_fn asks for approval of the closing order, re-entering the lock, and
\* has it filled.
Flatten ==
  /\ response = "flatten"
  /\ response' = IF Approves(closing, -closing) THEN "done" ELSE "failed"
  /\ position' = IF Approves(closing, -closing) THEN position - closing ELSE position
  /\ UNCHANGED <<halted, status, peak, rejections, episode, closing, strat, observers, flows>>

\* Mutant: a failed flatten is repeated until it works.
FlattenRepeated ==
  /\ response = "flatten"
  /\ response' = "alert"
  /\ UNCHANGED <<halted, status, peak, rejections, episode, closing, position, strat,
                 observers, flows>>

\* flatten_fn raises instead.
FlattenRaises ==
  /\ response = "flatten"
  /\ response' = "failed"
  /\ UNCHANGED <<halted, status, peak, rejections, episode, closing, position, strat,
                 observers, flows>>

\* Mutant: the entry gets the stage of the response instead of its outcome.
EndResponseRawStage ==
  /\ response \in {"done", "failed"}
  /\ episode' = [episode EXCEPT ![Len(episode)].flattened = response]
  /\ response' = "none"
  /\ closing' = 0
  /\ UNCHANGED <<halted, status, peak, rejections, position, strat, observers, flows>>

\* The outcome is written to the audit entry, a failure is alerted, and the
\* lock is released.
EndResponse ==
  /\ response \in {"done", "failed"}
  /\ episode' = [episode EXCEPT ![Len(episode)].flattened =
                   IF response = "done" THEN "ok" ELSE "failed"]
  /\ response' = "none"
  /\ closing' = 0
  /\ UNCHANGED <<halted, status, peak, rejections, position, strat, observers, flows>>

\* human_re_enable, granted: an authorised operator gave a reason, and a new
\* high-water mark or none.  Refused attempts only write to re_enable_log.
HumanReEnable(newPeak) ==
  /\ LockFree
  /\ halted
  /\ newPeak # NoValue => newPeak > 0
  /\ halted' = FALSE /\ status' = "ACTIVE" /\ rejections' = 0
  /\ episode' = <<>>
  /\ IF newPeak = NoValue THEN UNCHANGED <<peak, seenEquity>>
     ELSE peak' = newPeak /\ seenEquity' = {newPeak}
  /\ lastEquity' = NoValue
  /\ strat' = [s \in Strategies |-> [strat[s] EXCEPT !.inHalt = FALSE]]
  /\ UNCHANGED <<response, closing, position, flows>>

Respond == Alert \/ Flatten \/ FlattenRaises \/ EndResponse

Next ==
  \/ \E s \in Strategies : Propose(s) \/ CheckProposedOrder(s) \/ Fill(s)
  \/ \E e \in Equities, loss \in BOOLEAN : CheckPnlAndDrawdown(e, loss)
  \/ CheckPnlNotFinite
  \/ \E f \in Flows : RecordCapitalFlow(f)
  \/ ReconcileDesync
  \/ EmergencyKill
  \/ \E p \in Equities \cup {NoValue} : HumanReEnable(p)
  \/ Respond

Spec == Init /\ [][Next]_vars

\* The thread that halted the breaker goes on with the response: alert_fn and
\* flatten_fn return or raise.
FairSpec == Spec /\ WF_vars(Respond)

-----------------------------------------------------------------------------
TypeOK ==
  /\ halted \in BOOLEAN /\ status \in Statuses
  /\ peak \in Int \cup {NoValue} /\ rejections \in Nat /\ flows \in Nat
  /\ episode \in Seq([cause : Statuses, flattened : {"pending", "ok", "failed", "skipped"}])
  /\ response \in {"none", "alert", "flatten", "done", "failed"}
  /\ closing \in Int /\ position \in Int
  /\ strat \in [Strategies -> [pc : {"idle", "check", "approved"}, delta : Int,
                             current : Int, inHalt : BOOLEAN]]
  /\ seenEquity \subseteq Int /\ lastEquity \in Int \cup {NoValue}

\* A halt is answered once and remembers why: it has an audit entry, its status
\* is the cause of the first one, every later one is a manual kill, and each
\* had its flatten attempted by the time the lock is free.  Simultaneous
\* breaches found by several threads do not flatten twice.
HaltIsAnswered ==
  /\ halted <=> episode # <<>>
  /\ halted <=> status # "ACTIVE"
  /\ halted => status = episode[1].cause
  /\ \A i \in 2..Len(episode) : episode[i].cause = "MANUAL_KILL"
  /\ LockFree => \A i \in 1..Len(episode) : episode[i].flattened \in {"ok", "failed"}

\* "A halt must never block de-risking": whatever the breaker's state and
\* however far the position is over the limit, an order that moves it toward
\* zero, or exactly to zero, is approved.
DeRiskingIsOpen ==
  AllowReduceOnly =>
    \A p \in (-3 * MaxPosition)..(3 * MaxPosition) :
      \A rest \in 0..(Abs(p) - 1) : Approves(p, (IF p > 0 THEN rest ELSE -rest) - p)

\* The breaker that is not halted has seen no drawdown at or beyond the limit:
\* measured from any equity evaluated since the last re-baseline, corrected for
\* the cash that moved since, and not only from the one number it remembers.
NoMissedDrawdown ==
  ~halted /\ lastEquity # NoValue =>
    \A e \in seenEquity : (e - lastEquity) * DrawdownDen < DrawdownNum * e

\* The high-water mark is one of the equities that were really seen, moved by
\* the recorded cash flows: no sequence of flows and re-enables invents one.
PeakIsReal == peak # NoValue => peak \in seenEquity

\* An approval that is used on the position it was given for never takes that
\* position further past the limit, whatever halts and re-enables lie between
\* the approval and the fill.
ApprovalIsSound ==
  [][\A s \in Strategies :
       strat[s].pc = "approved" /\ strat'[s].pc = "idle" /\ position = strat[s].current =>
         Abs(position') <= MaxPosition \/ Abs(position') < Abs(position)]_vars

\* Orders approved during a halt "strictly reduce absolute exposure toward
\* zero": filled during that halt they do not enlarge the position.
ReduceOnlyReduces ==
  [][\A s \in Strategies :
       halted /\ strat[s].pc = "approved" /\ strat[s].inHalt /\ strat'[s].pc = "idle" =>
         Abs(position') <= Abs(position)]_vars

\* A halt response ends and gives the lock back.
ResponseEnds == response # "none" ~> response = "none"
=============================================================================
