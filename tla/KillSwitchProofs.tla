--------------------------- MODULE KillSwitchProofs ---------------------------
(***************************************************************************)
(* Proofs about KillSwitch: the drawdown bookkeeping, the audit record of  *)
(* a halt and the soundness of approvals, for any number of strategies,    *)
(* any limits, any equities and any length of a halt.                      *)
(***************************************************************************)
EXTENDS KillSwitch, SequenceTheorems, TLAPS

\* The types of an audit entry and of a strategy thread.
EntryType == [cause : Statuses, flattened : {"pending", "ok", "failed", "skipped"}]

StratType == [pc : {"idle", "check", "approved"}, delta : Int, current : Int,
              inHalt : BOOLEAN]

-----------------------------------------------------------------------------
\* The verdicts are Booleans and a size is a natural number.
LEMMA VerdictTypes ==
  ASSUME NEW c \in Int, NEW d \in Int
  PROVE  /\ Abs(c) \in Nat
         /\ IsRiskReducing(c, d) \in BOOLEAN
         /\ WithinLimit(c, d) \in BOOLEAN
BY DEF Abs, IsRiskReducing, WithinLimit

\* is_risk_reducing accepts every order that moves a position toward zero, or
\* exactly to zero, without crossing it.
LEMMA TowardZeroReduces ==
  ASSUME NEW p \in Int, NEW rest \in 0..(Abs(p) - 1)
  PROVE  IsRiskReducing(p, (IF p > 0 THEN rest ELSE -rest) - p)
BY DEF IsRiskReducing, Abs

\* A drawdown limit of at most one is monotone: what stays within it measured
\* from the high-water mark stays within it measured from any lower equity.
LEMMA DrawdownMonotone ==
  ASSUME NEW p \in Int, NEW e \in Int, NEW x \in Int, e <= p,
         NEW num \in Nat, NEW den \in Nat, num <= den,
         (p - x) * den < num * p
  PROVE  (e - x) * den < num * e
<1> DEFINE d == p - e
           g == den - num
<1>1. d \in Nat /\ g \in Nat
  OBVIOUS
<1>2. d * g >= 0
  BY <1>1, SMT
<1>3. /\ (p - x) * den = p * den - x * den
      /\ (e - x) * den = e * den - x * den
      /\ d * g = p * den - e * den - p * num + e * num
  BY SMT
<1>4. num * p = p * num /\ num * e = e * num
  BY SMT
<1>5. \A a, b, c, f, h \in Int :
        a - b < c /\ a - f - c + h >= 0 => f - b < h
  BY SMT
<1>6. /\ p * den \in Int /\ x * den \in Int /\ e * den \in Int
      /\ p * num \in Int /\ e * num \in Int
  BY SMT
<1> QED
  BY <1>2, <1>3, <1>4, <1>5, <1>6

\* Replacing an element of a sequence keeps its length and its other elements.
LEMMA ReplaceInSeq ==
  ASSUME NEW S, NEW seq \in Seq(S), NEW n, NEW e, n \in 1..Len(seq) => e \in S
  PROVE  LET new == [seq EXCEPT ![n] = e]
         IN  /\ new \in Seq(S) /\ Len(new) = Len(seq)
             /\ \A i \in 1..Len(seq) : new[i] = IF i = n THEN e ELSE seq[i]
<1> DEFINE new == [seq EXCEPT ![n] = e]
<1>1. Len(seq) \in Nat /\ seq \in [1..Len(seq) -> S]
  OBVIOUS
<1>2. new \in [1..Len(seq) -> S]
  BY <1>1
<1>3. new \in Seq(S)
  BY <1>1, <1>2, SeqDef
<1>4. Len(new) = Len(seq)
  BY <1>1, <1>2, <1>3, LenProperties
<1> QED
  BY <1>1, <1>2, <1>3, <1>4

-----------------------------------------------------------------------------
\* Initially every variable has its type.
LEMMA TypeInit == Init => TypeOK
<1> SUFFICES ASSUME Init PROVE TypeOK
  OBVIOUS
<1>1. episode \in Seq(EntryType)
  <2>1. <<>> \in Seq(EntryType)
    OBVIOUS
  <2> QED
    BY <2>1 DEF Init
<1>2. Idle \in StratType
  BY DEF Idle, StratType
<1>3. strat \in [Strategies -> StratType]
  BY <1>2 DEF Init
<1>4. /\ halted \in BOOLEAN /\ status \in Statuses
      /\ peak \in Int \cup {NoValue} /\ rejections \in Nat /\ flows \in Nat
      /\ response \in {"none", "alert", "flatten", "done", "failed"}
      /\ closing \in Int /\ position \in Int
      /\ seenEquity \subseteq Int /\ lastEquity \in Int \cup {NoValue}
  <2>1. halted \in BOOLEAN /\ status \in Statuses
    BY DEF Init, Statuses
  <2>2. /\ peak \in Int \cup {NoValue} /\ rejections \in Nat /\ flows \in Nat
        /\ closing \in Int /\ position \in Int
    BY DEF Init
  <2>3. seenEquity \subseteq Int /\ lastEquity \in Int \cup {NoValue}
    BY DEF Init
  <2>4. response \in {"none", "alert", "flatten", "done", "failed"}
    BY DEF Init
  <2> QED
    BY <2>1, <2>2, <2>3, <2>4
<1> QED
  BY <1>1, <1>3, <1>4 DEF TypeOK, EntryType, StratType

\* _trigger_halt keeps the variables it writes in their types.
LEMMA TriggerHaltType ==
  ASSUME TypeOK, NEW cause \in Statuses, TriggerHalt(cause)
  PROVE  /\ halted' \in BOOLEAN /\ status' \in Statuses
         /\ episode' \in Seq(EntryType)
         /\ response' \in {"none", "alert", "flatten", "done", "failed"}
<1>1. episode \in Seq(EntryType)
  BY DEF TypeOK, EntryType
<1>2. \A b \in {"pending", "skipped"} : [cause |-> cause, flattened |-> b] \in EntryType
  BY DEF EntryType
<1>3. episode' \in Seq(EntryType)
  BY <1>1, <1>2 DEF TriggerHalt
<1> QED
  BY <1>3 DEF TypeOK, TriggerHalt

\* Every step keeps every variable in its type.
LEMMA TypeStep == TypeOK /\ [Next]_vars => TypeOK'
<1> SUFFICES ASSUME TypeOK, [Next]_vars PROVE TypeOK'
  OBVIOUS
<1> USE BreakerAssumption
<1>a. strat \in [Strategies -> StratType] /\ episode \in Seq(EntryType)
  BY DEF TypeOK, StratType, EntryType
<1>b. ASSUME halted' \in BOOLEAN, status' \in Statuses,
             peak' \in Int \cup {NoValue}, rejections' \in Nat, flows' \in Nat,
             episode' \in Seq(EntryType),
             response' \in {"none", "alert", "flatten", "done", "failed"},
             closing' \in Int, position' \in Int, strat' \in [Strategies -> StratType],
             seenEquity' \subseteq Int, lastEquity' \in Int \cup {NoValue}
      PROVE  TypeOK'
  BY <1>b DEF TypeOK, StratType, EntryType
<1>c. Idle \in StratType
  BY DEF Idle, StratType
<1>1. ASSUME NEW s \in Strategies, Propose(s) PROVE TypeOK'
  <2>1. \A d \in Orders : [pc |-> "check", delta |-> d, current |-> position,
                           inHalt |-> FALSE] \in StratType
    BY DEF StratType, Orders, TypeOK
  <2>2. strat' \in [Strategies -> StratType]
    BY <1>1, <1>a, <2>1 DEF Propose
  <2> QED
    BY <1>1, <1>a, <1>b, <2>2 DEF Propose, TypeOK, breakerVars, observers
<1>2. ASSUME NEW s \in Strategies, CheckProposedOrder(s) PROVE TypeOK'
  <2>1. \A r \in StratType : [r EXCEPT !.pc = "approved", !.inHalt = halted] \in StratType
    BY DEF StratType, TypeOK
  <2>2. strat' \in [Strategies -> StratType]
    BY <1>2, <1>a, <1>c, <2>1 DEF CheckProposedOrder
  <2>3. CASE halted
    BY <1>2, <2>3, <2>2, <1>a, <1>b DEF CheckProposedOrder, TypeOK, breakerVars, observers
  <2>4. CASE ~halted /\ TriggerHalt("POSITION_LIMIT")
    <3>1. "POSITION_LIMIT" \in Statuses
      BY DEF Statuses
    <3>2. rejections' \in Nat /\ peak' = peak
      BY SMTT(30), <1>2, <2>4 DEF CheckProposedOrder, TypeOK
    <3> QED
      BY <1>2, <2>4, <2>2, <3>1, <3>2, <1>b, TriggerHaltType
      DEF CheckProposedOrder, TypeOK, observers
  <2>5. CASE ~halted /\ UNCHANGED <<halted, status, peak, episode, response>>
    <3>2. rejections' \in Nat
      BY SMTT(30), <1>2, <2>5 DEF CheckProposedOrder, TypeOK
    <3> QED
      BY <1>2, <2>5, <2>2, <3>2, <1>a, <1>b DEF CheckProposedOrder, TypeOK, observers
  <2> QED
    BY <1>2, <2>3, <2>4, <2>5 DEF CheckProposedOrder
<1>3. ASSUME NEW s \in Strategies, Fill(s) PROVE TypeOK'
  <2>1. strat' \in [Strategies -> StratType]
    BY <1>3, <1>a, <1>c DEF Fill
  <2>2. position' \in Int
    BY <1>3, <1>a DEF Fill, TypeOK, StratType
  <2> QED
    BY <1>3, <1>a, <1>b, <2>1, <2>2 DEF Fill, TypeOK, breakerVars, observers
<1>4. ASSUME NEW e \in Equities, NEW loss \in BOOLEAN, CheckPnlAndDrawdown(e, loss)
      PROVE TypeOK'
  <2>1. e \in Int /\ peak' \in Int \cup {NoValue}
    BY <1>4 DEF CheckPnlAndDrawdown, NewPeak, TypeOK
  <2>2. Breach(e, loss) \in Statuses
    BY DEF Breach, Statuses
  <2>3. CASE Breach(e, loss) = "ACTIVE"
    BY <1>4, <1>a, <1>b, <2>1, <2>3 DEF CheckPnlAndDrawdown, TypeOK
  <2>4. CASE Breach(e, loss) # "ACTIVE"
    BY <1>4, <1>a, <1>b, <2>1, <2>2, <2>4, TriggerHaltType DEF CheckPnlAndDrawdown, TypeOK
  <2> QED
    BY <2>3, <2>4
<1>5. ASSUME CheckPnlNotFinite PROVE TypeOK'
  BY <1>5, <1>a, <1>b, TriggerHaltType DEF CheckPnlNotFinite, TypeOK, Statuses, observers
<1>6. ASSUME NEW f \in Flows, RecordCapitalFlow(f) PROVE TypeOK'
  <2>1. f \in Int
    OBVIOUS
  <2>2. flows' \in Nat
    BY <1>6 DEF RecordCapitalFlow, TypeOK
  <2>3. seenEquity' \subseteq Int
    BY <1>6, <2>1 DEF RecordCapitalFlow, TypeOK, observers
  <2>4. peak' \in Int \cup {NoValue} /\ lastEquity' \in Int \cup {NoValue}
    BY <1>6, <2>1 DEF RecordCapitalFlow, TypeOK, observers, Flowed
  <2> QED
    BY <1>6, <1>a, <1>b, <2>2, <2>3, <2>4 DEF RecordCapitalFlow, TypeOK
<1>7. ASSUME ReconcileDesync PROVE TypeOK'
  BY <1>7, <1>a, <1>b, TriggerHaltType DEF ReconcileDesync, TypeOK, Statuses, observers
<1>8. ASSUME EmergencyKill PROVE TypeOK'
  BY <1>8, <1>a, <1>b, TriggerHaltType DEF EmergencyKill, TypeOK, Statuses, observers
<1>9. ASSUME NEW p \in Equities \cup {NoValue}, HumanReEnable(p) PROVE TypeOK'
  <2>1. \A r \in StratType : [r EXCEPT !.inHalt = FALSE] \in StratType
    BY DEF StratType
  <2>2. strat' \in [Strategies -> StratType]
    BY <1>9, <1>a, <2>1 DEF HumanReEnable
  <2>3. peak' \in Int \cup {NoValue} /\ seenEquity' \subseteq Int
    BY <1>9 DEF HumanReEnable, TypeOK
  <2>4. status' \in Statuses
    BY <1>9 DEF HumanReEnable, Statuses
  <2>5. episode' \in Seq(EntryType)
    <3>1. <<>> \in Seq(EntryType)
      OBVIOUS
    <3> QED
      BY <1>9, <3>1 DEF HumanReEnable
  <2> QED
    BY <1>9, <1>b, <2>2, <2>3, <2>4, <2>5 DEF HumanReEnable, TypeOK
<1>10. ASSUME Respond PROVE TypeOK'
  <2>1. CASE Alert
    BY <2>1, <1>a, <1>b DEF Alert, TypeOK, observers
  <2>2. CASE Flatten
    BY <2>2, <1>a, <1>b DEF Flatten, TypeOK, observers
  <2>3. CASE FlattenRaises
    BY <2>3, <1>a, <1>b DEF FlattenRaises, TypeOK, observers
  <2>4. CASE EndResponse
    <3>1. \A r \in EntryType, o \in {"ok", "failed"} :
            [r EXCEPT !.flattened = o] \in EntryType
      BY DEF EntryType
    <3>2. episode' \in Seq(EntryType)
      <4> DEFINE n == Len(episode)
                 o == IF response = "done" THEN "ok" ELSE "failed"
      <4>1. n \in 1..Len(episode) => [episode[n] EXCEPT !.flattened = o] \in EntryType
        <5>1. n \in 1..Len(episode) => episode[n] \in EntryType
          BY <1>a
        <5>2. o \in {"ok", "failed"}
          OBVIOUS
        <5> HIDE DEF o, n
        <5> QED
          BY <3>1, <5>1, <5>2
      <4>2. episode' = [episode EXCEPT ![n] = [episode[n] EXCEPT !.flattened = o]]
        BY <2>4 DEF EndResponse
      <4> QED
        BY <1>a, <4>1, <4>2, ReplaceInSeq
    <3> QED
      BY SMTT(30), <2>4, <3>2, <1>a, <1>b DEF EndResponse, TypeOK, observers
  <2> QED
    BY <1>10, <2>1, <2>2, <2>3, <2>4 DEF Respond
<1>11. ASSUME UNCHANGED vars PROVE TypeOK'
  BY <1>11, <1>a, <1>b DEF vars, TypeOK
<1> QED
  BY <1>1, <1>2, <1>3, <1>4, <1>5, <1>6, <1>7, <1>8, <1>9, <1>10, <1>11 DEF Next

\* Type correctness of the breaker.
THEOREM TypeCorrect == Spec => []TypeOK
BY TypeInit, TypeStep, PTL DEF Spec

-----------------------------------------------------------------------------
\* The audit record of a halt, while its response may still be running: only the
\* last entry can be without an outcome, and only while the lock is held.
EpisodeInv ==
  /\ halted <=> episode # <<>>
  /\ halted <=> status # "ACTIVE"
  /\ halted => status = episode[1].cause
  /\ \A i \in 2..Len(episode) : episode[i].cause = "MANUAL_KILL"
  /\ response # "none" => episode # <<>>
  /\ \A i \in 1..Len(episode) :
       \/ episode[i].flattened \in {"ok", "failed"}
       \/ i = Len(episode) /\ response # "none"

\* A step that touches none of the four variables keeps the record.
LEMMA EpisodeUnchanged ==
  ASSUME EpisodeInv, UNCHANGED <<halted, status, episode, response>>
  PROVE  EpisodeInv'
BY DEF EpisodeInv

\* A halt that _trigger_halt may raise adds one entry, the first or a manual kill,
\* and starts the response to it.
LEMMA EpisodeTrigger ==
  ASSUME TypeOK, EpisodeInv, LockFree, NEW cause \in Statuses \ {"ACTIVE"},
         ~halted \/ cause = "MANUAL_KILL", TriggerHalt(cause)
  PROVE  EpisodeInv'
<1>a. episode \in Seq(EntryType)
  BY DEF TypeOK, EntryType
<1> DEFINE entry == [cause |-> cause, flattened |-> "pending"]
<1>1. /\ halted' = TRUE /\ status' = (IF halted THEN status ELSE cause)
      /\ episode' = Append(episode, entry)
      /\ response' = "alert"
  BY DEF TriggerHalt
<1>2. entry \in EntryType
  BY DEF EntryType
<1>3. /\ Len(episode) \in Nat /\ Len(episode') = Len(episode) + 1
      /\ \A i \in 1..Len(episode) : episode'[i] = episode[i]
      /\ episode'[Len(episode) + 1] = entry
      /\ episode' # <<>>
  BY <1>a, <1>1, <1>2, AppendProperties
<1>4. halted' /\ status' # "ACTIVE"
  BY <1>1 DEF EpisodeInv
<1>5. status' = episode'[1].cause
  <2>1. CASE halted
    <3>1. Len(episode) >= 1
      BY <2>1, <1>a, EmptySeq DEF EpisodeInv
    <3> QED
      BY <2>1, <3>1, <1>1, <1>3 DEF EpisodeInv
  <2>2. CASE ~halted
    <3>1. Len(episode) = 0
      BY <2>2 DEF EpisodeInv
    <3> QED
      BY <2>2, <3>1, <1>1, <1>3
  <2> QED
    BY <2>1, <2>2
<1>6. ASSUME NEW i \in 2..Len(episode') PROVE episode'[i].cause = "MANUAL_KILL"
  <2>1. CASE i \in 2..Len(episode)
    BY <2>1, <1>3 DEF EpisodeInv
  <2>2. CASE i = Len(episode) + 1
    <3>1. episode # <<>>
      BY <2>2, <1>6, <1>3
    <3> QED
      BY <2>2, <3>1, <1>3 DEF EpisodeInv
  <2> QED
    BY <2>1, <2>2, <1>3, <1>6
<1>7. ASSUME NEW i \in 1..Len(episode')
      PROVE  \/ episode'[i].flattened \in {"ok", "failed"}
             \/ i = Len(episode') /\ response' # "none"
  <2>1. CASE i \in 1..Len(episode)
    BY <2>1, <1>3 DEF EpisodeInv, LockFree
  <2>2. CASE i = Len(episode) + 1
    BY <2>2, <1>1, <1>3
  <2> QED
    BY <2>1, <2>2, <1>3, <1>7
<1> QED
  BY <1>3, <1>4, <1>5, <1>6, <1>7 DEF EpisodeInv

\* Every step keeps the audit record of the halt in order.
LEMMA EpisodeStep == TypeOK /\ EpisodeInv /\ [Next]_vars => EpisodeInv'
<1> SUFFICES ASSUME TypeOK, EpisodeInv, [Next]_vars PROVE EpisodeInv'
  OBVIOUS
<1>a. episode \in Seq(EntryType)
  BY DEF TypeOK, EntryType
<1>b. {"POSITION_LIMIT", "DAILY_LOSS", "DRAWDOWN", "DESYNC", "MANUAL_KILL",
       "INVALID_INPUT"} = Statuses \ {"ACTIVE"}
  BY DEF Statuses
<1>1. ASSUME NEW s \in Strategies, Propose(s) PROVE EpisodeInv'
  BY <1>1, EpisodeUnchanged DEF Propose, breakerVars
<1>2. ASSUME NEW s \in Strategies, CheckProposedOrder(s) PROVE EpisodeInv'
  <2>1. CASE UNCHANGED <<halted, status, episode, response>>
    BY <2>1, EpisodeUnchanged
  <2>2. CASE LockFree /\ ~halted /\ TriggerHalt("POSITION_LIMIT")
    BY <2>2, <1>b, EpisodeTrigger
  <2> QED
    BY <1>2, <2>1, <2>2 DEF CheckProposedOrder, breakerVars
<1>3. ASSUME NEW s \in Strategies, Fill(s) PROVE EpisodeInv'
  BY <1>3, EpisodeUnchanged DEF Fill, breakerVars
<1>4. ASSUME NEW e \in Equities, NEW loss \in BOOLEAN, CheckPnlAndDrawdown(e, loss)
      PROVE EpisodeInv'
  <2>1. Breach(e, loss) \in Statuses
    BY DEF Breach, Statuses
  <2>2. CASE Breach(e, loss) = "ACTIVE"
    BY <1>4, <2>2, EpisodeUnchanged DEF CheckPnlAndDrawdown
  <2>3. CASE Breach(e, loss) # "ACTIVE"
    BY <1>4, <2>1, <2>3, EpisodeTrigger DEF CheckPnlAndDrawdown
  <2> QED
    BY <2>2, <2>3
<1>5. ASSUME CheckPnlNotFinite PROVE EpisodeInv'
  BY <1>5, <1>b, EpisodeTrigger DEF CheckPnlNotFinite
<1>6. ASSUME NEW f \in Flows, RecordCapitalFlow(f) PROVE EpisodeInv'
  BY <1>6, EpisodeUnchanged DEF RecordCapitalFlow
<1>7. ASSUME ReconcileDesync PROVE EpisodeInv'
  BY <1>7, <1>b, EpisodeTrigger DEF ReconcileDesync
<1>8. ASSUME EmergencyKill PROVE EpisodeInv'
  BY <1>8, <1>b, EpisodeTrigger DEF EmergencyKill
<1>9. ASSUME NEW p \in Equities \cup {NoValue}, HumanReEnable(p) PROVE EpisodeInv'
  <2>1. ~halted' /\ status' = "ACTIVE" /\ episode' = <<>> /\ response' = "none"
    BY <1>9 DEF HumanReEnable, LockFree
  <2>2. Len(episode') = 0
    BY <2>1
  <2> QED
    BY <2>1, <2>2 DEF EpisodeInv
<1>10. ASSUME response # "none", response' # "none",
              UNCHANGED <<halted, status, episode>>
       PROVE  EpisodeInv'
  BY <1>10 DEF EpisodeInv
<1>11. ASSUME EndResponse PROVE EpisodeInv'
  <2> DEFINE n == Len(episode)
             o == IF response = "done" THEN "ok" ELSE "failed"
             new == [episode[n] EXCEPT !.flattened = o]
  <2>1. response # "none" /\ response' = "none" /\ UNCHANGED <<halted, status>>
    BY <1>11 DEF EndResponse
  <2>2. n \in Nat /\ n \in 1..Len(episode)
    BY <2>1, <1>a, EmptySeq DEF EpisodeInv
  <2>3. /\ new \in EntryType /\ new.flattened \in {"ok", "failed"}
        /\ new.cause = episode[n].cause
    <3>1. episode[n] \in EntryType
      BY <2>2, <1>a
    <3>2. o \in {"ok", "failed"}
      OBVIOUS
    <3> HIDE DEF n, o
    <3> QED
      BY <3>1, <3>2 DEF EntryType
  <2>4. episode' = [episode EXCEPT ![n] = new]
    BY <1>11 DEF EndResponse
  <2> HIDE DEF new
  <2>5. /\ episode' \in Seq(EntryType) /\ Len(episode') = n
        /\ \A i \in 1..n : episode'[i] = IF i = n THEN new ELSE episode[i]
    BY <2>2, <2>3, <2>4, <1>a, ReplaceInSeq
  <2>6. \A i \in 1..n : episode'[i].cause = episode[i].cause
    BY <2>3, <2>5
  <2>7. \A i \in 1..n : episode'[i].flattened \in {"ok", "failed"}
    BY <2>3, <2>5 DEF EpisodeInv
  <2>8. episode' # <<>> /\ episode # <<>>
    BY <2>2, <2>5
  <2> HIDE DEF n
  <2> QED
    BY <2>1, <2>2, <2>5, <2>6, <2>7, <2>8 DEF EpisodeInv, n
<1>12. ASSUME Respond PROVE EpisodeInv'
  BY <1>10, <1>11, <1>12 DEF Respond, Alert, Flatten, FlattenRaises
<1>13. ASSUME UNCHANGED vars PROVE EpisodeInv'
  BY <1>13, EpisodeUnchanged DEF vars
<1> QED
  BY <1>1, <1>2, <1>3, <1>4, <1>5, <1>6, <1>7, <1>8, <1>9, <1>12, <1>13 DEF Next

\* A halt is answered once and remembers why, however many breaches, kills and
\* failing responses there are: _trigger_halt, the response and human_re_enable
\* keep one truthful audit record per halt.
THEOREM HaltsAreAnswered == Spec => []HaltIsAnswered
<1>1. Init => EpisodeInv
  <2> SUFFICES ASSUME Init PROVE EpisodeInv
    OBVIOUS
  <2>1. ~halted /\ status = "ACTIVE" /\ episode = <<>> /\ response = "none"
    BY DEF Init
  <2>2. Len(episode) = 0
    BY <2>1
  <2> QED
    BY <2>1, <2>2 DEF EpisodeInv
<1>2. EpisodeInv => HaltIsAnswered
  BY DEF EpisodeInv, HaltIsAnswered, LockFree
<1> QED
  BY <1>1, <1>2, TypeInit, TypeStep, EpisodeStep, PTL DEF Spec

-----------------------------------------------------------------------------
\* The high-water mark bounds every equity evaluated since it was last set anew,
\* is one of them, and no drawdown from it has gone unnoticed.
MarkInv ==
  /\ \A e \in seenEquity : peak # NoValue /\ e <= peak
  /\ peak # NoValue => peak \in seenEquity
  /\ ~halted /\ lastEquity # NoValue =>
       /\ peak # NoValue /\ peak > 0
       /\ (peak - lastEquity) * DrawdownDen < DrawdownNum * peak

\* A step that leaves the mark and what was seen alone, and lifts no halt, keeps it.
LEMMA MarkUnchanged ==
  ASSUME MarkInv, UNCHANGED <<peak, seenEquity, lastEquity>>, halted => halted'
  PROVE  MarkInv'
BY DEF MarkInv

\* check_pnl_and_drawdown moves the mark up or leaves it, and does not return
\* without a halt when the drawdown from it is at or beyond the limit.
LEMMA MarkCheck ==
  ASSUME TypeOK, MarkInv, NEW e \in Equities, NEW loss \in BOOLEAN,
         CheckPnlAndDrawdown(e, loss)
  PROVE  MarkInv'
<1> USE BreakerAssumption
<1>1. /\ e \in Int /\ peak' = NewPeak(e)
      /\ seenEquity' = seenEquity \cup {e} /\ lastEquity' = e
  BY DEF CheckPnlAndDrawdown
<1>2. peak' \in Int /\ e <= peak' /\ (peak' = e \/ peak' = peak)
  BY <1>1 DEF NewPeak, TypeOK
<1>3. \A x \in seenEquity' : peak' # NoValue /\ x <= peak'
  <2>1. ASSUME NEW x \in seenEquity PROVE x <= peak'
    <3>1. x \in Int /\ peak \in Int /\ x <= peak
      BY <2>1 DEF MarkInv, TypeOK
    <3>2. peak <= peak'
      BY <1>1, <3>1 DEF NewPeak
    <3> QED
      BY <1>2, <3>1, <3>2
  <2> QED
    BY <2>1, <1>1, <1>2
<1>4. peak' \in seenEquity'
  BY <1>1, <1>2 DEF MarkInv
<1>5. ASSUME ~halted' PROVE peak' > 0 /\ (peak' - e) * DrawdownDen < DrawdownNum * peak'
  <2>1. Breach(e, loss) = "ACTIVE"
    BY <1>5 DEF CheckPnlAndDrawdown, TriggerHalt
  <2>2. ~(peak' <= 0) /\ ~((peak' - e) * DrawdownDen >= DrawdownNum * peak')
    <3>1. ~(NewPeak(e) <= 0)
      BY <2>1 DEF Breach
    <3>2. ~((NewPeak(e) - e) * DrawdownDen >= DrawdownNum * NewPeak(e))
      <4>1. NewPeak(e) > 0
        BY <3>1, <1>1, <1>2
      <4> QED
        BY <2>1, <4>1 DEF Breach
    <3> QED
      BY <3>1, <3>2, <1>1
  <2> DEFINE lost == (peak' - e) * DrawdownDen
             limit == DrawdownNum * peak'
  <2>3. lost \in Int /\ limit \in Int
    BY <1>1, <1>2
  <2>4. peak' > 0
    BY <2>2, <1>2
  <2>5. ~(lost >= limit)
    BY <2>2
  <2> HIDE DEF lost, limit
  <2>6. lost < limit
    BY <2>3, <2>5
  <2> QED
    BY <2>4, <2>6 DEF lost, limit
<1> QED
  BY <1>1, <1>2, <1>3, <1>4, <1>5 DEF MarkInv

\* record_capital_flow moves the mark together with every equity it stands for.
LEMMA MarkFlow ==
  ASSUME TypeOK, MarkInv, NEW f \in Flows, RecordCapitalFlow(f)
  PROVE  MarkInv'
<1> USE BreakerAssumption
<1>1. CASE peak = NoValue
  <2>1. UNCHANGED <<peak, seenEquity, lastEquity, halted>>
    BY <1>1 DEF RecordCapitalFlow, observers
  <2> QED
    BY <2>1, MarkUnchanged
<1>2. CASE peak # NoValue
  <2>1. /\ f \in Int /\ peak \in Int /\ peak' = peak + f
        /\ seenEquity' = {e + f : e \in seenEquity} /\ lastEquity' = NoValue
    BY <1>2 DEF RecordCapitalFlow, TypeOK, Flowed
  <2>2. \A e \in seenEquity : e \in Int /\ e <= peak
    BY DEF MarkInv, TypeOK
  <2>3. \A x \in seenEquity' : peak' # NoValue /\ x <= peak'
    BY <2>1, <2>2
  <2>4. peak' \in seenEquity'
    BY <1>2, <2>1 DEF MarkInv
  <2> QED
    BY <2>1, <2>3, <2>4 DEF MarkInv
<1> QED
  BY <1>1, <1>2

\* Every step keeps the high-water mark right.
LEMMA MarkStep == TypeOK /\ MarkInv /\ [Next]_vars => MarkInv'
<1> SUFFICES ASSUME TypeOK, MarkInv, [Next]_vars PROVE MarkInv'
  OBVIOUS
<1>1. ASSUME NEW s \in Strategies, Propose(s) PROVE MarkInv'
  BY <1>1, MarkUnchanged DEF Propose, breakerVars, observers
<1>2. ASSUME NEW s \in Strategies, CheckProposedOrder(s) PROVE MarkInv'
  <2>1. UNCHANGED <<peak, seenEquity, lastEquity>>
    BY <1>2 DEF CheckProposedOrder, breakerVars, observers
  <2>2. halted => halted'
    BY <1>2 DEF CheckProposedOrder, breakerVars
  <2> QED
    BY <2>1, <2>2, MarkUnchanged
<1>3. ASSUME NEW s \in Strategies, Fill(s) PROVE MarkInv'
  BY <1>3, MarkUnchanged DEF Fill, breakerVars, observers
<1>4. ASSUME NEW e \in Equities, NEW loss \in BOOLEAN, CheckPnlAndDrawdown(e, loss)
      PROVE MarkInv'
  BY <1>4, MarkCheck
<1>5. ASSUME CheckPnlNotFinite \/ ReconcileDesync \/ EmergencyKill PROVE MarkInv'
  BY <1>5, MarkUnchanged
  DEF CheckPnlNotFinite, ReconcileDesync, EmergencyKill, TriggerHalt, observers
<1>6. ASSUME NEW f \in Flows, RecordCapitalFlow(f) PROVE MarkInv'
  BY <1>6, MarkFlow
<1>7. ASSUME NEW p \in Equities \cup {NoValue}, HumanReEnable(p) PROVE MarkInv'
  <2>1. lastEquity' = NoValue
    BY <1>7 DEF HumanReEnable
  <2>2. CASE p = NoValue
    BY <1>7, <2>1, <2>2 DEF HumanReEnable, MarkInv
  <2>3. CASE p # NoValue
    <3>1. p \in Int /\ peak' = p /\ seenEquity' = {p}
      BY <1>7, <2>3, BreakerAssumption DEF HumanReEnable
    <3> QED
      BY <2>1, <2>3, <3>1 DEF MarkInv
  <2> QED
    BY <2>2, <2>3
<1>8. ASSUME Respond PROVE MarkInv'
  BY <1>8, MarkUnchanged DEF Respond, Alert, Flatten, FlattenRaises, EndResponse, observers
<1>9. ASSUME UNCHANGED vars PROVE MarkInv'
  BY <1>9, MarkUnchanged DEF vars
<1> QED
  BY <1>1, <1>2, <1>3, <1>4, <1>5, <1>6, <1>7, <1>8, <1>9 DEF Next

\* Initially nothing has been seen.
LEMMA MarkInit == Init => MarkInv
BY DEF Init, MarkInv

\* The high-water mark is always an equity that was really seen, moved by the
\* recorded cash flows, for any sequence of checks, flows and re-enables.
THEOREM PeaksAreReal == Spec => []PeakIsReal
<1>1. MarkInv => PeakIsReal
  BY DEF MarkInv, PeakIsReal
<1> QED
  BY <1>1, MarkInit, MarkStep, TypeInit, TypeStep, PTL DEF Spec

\* check_pnl_and_drawdown compares with one number; yet no drawdown at or beyond
\* the limit, from any equity it has evaluated, leaves the breaker enabled.
THEOREM NoDrawdownMissed == Spec => []NoMissedDrawdown
<1>1. TypeOK /\ MarkInv => NoMissedDrawdown
  <2> SUFFICES ASSUME TypeOK, MarkInv, ~halted, lastEquity # NoValue, NEW e \in seenEquity
               PROVE  (e - lastEquity) * DrawdownDen < DrawdownNum * e
    BY DEF NoMissedDrawdown
  <2>1. e \in Int /\ peak \in Int /\ lastEquity \in Int /\ e <= peak
    BY DEF TypeOK, MarkInv
  <2>2. (peak - lastEquity) * DrawdownDen < DrawdownNum * peak
    BY DEF MarkInv
  <2> QED
    BY <2>1, <2>2, BreakerAssumption, DrawdownMonotone
<1> QED
  BY <1>1, MarkInit, MarkStep, TypeInit, TypeStep, PTL DEF Spec

-----------------------------------------------------------------------------
\* A halt never blocks de-risking: with reduce-only trading allowed, every order
\* toward zero is approved in every state of the breaker.
THEOREM DeRiskingStaysOpen == Spec => []DeRiskingIsOpen
<1>1. DeRiskingIsOpen
  <2> SUFFICES ASSUME AllowReduceOnly,
                      NEW p \in (-3 * MaxPosition)..(3 * MaxPosition),
                      NEW rest \in 0..(Abs(p) - 1)
               PROVE  Approves(p, (IF p > 0 THEN rest ELSE -rest) - p)
    BY DEF DeRiskingIsOpen
  <2>1. p \in Int
    BY BreakerAssumption
  <2> DEFINE d == (IF p > 0 THEN rest ELSE -rest) - p
  <2>2. IsRiskReducing(p, d)
    BY <2>1, TowardZeroReduces
  <2> HIDE DEF d
  <2>3. Approves(p, d)
    BY <2>2 DEF Approves
  <2> QED
    BY <2>3 DEF d
<1> QED
  BY <1>1, PTL

\* What an approval says of the order it was given for.
ApprovedInv ==
  \A s \in Strategies : strat[s].pc = "approved" =>
    \/ WithinLimit(strat[s].current, strat[s].delta)
    \/ IsRiskReducing(strat[s].current, strat[s].delta)

\* Every step keeps the approvals that are outstanding sound.
LEMMA ApprovedStep == TypeOK /\ ApprovedInv /\ [Next]_vars => ApprovedInv'
<1> SUFFICES ASSUME TypeOK, ApprovedInv, [Next]_vars PROVE ApprovedInv'
  OBVIOUS
<1>a. strat \in [Strategies -> StratType]
  BY DEF TypeOK, StratType
<1>b. Idle.pc = "idle"
  BY DEF Idle
<1>c. ASSUME UNCHANGED strat PROVE ApprovedInv'
  BY <1>c DEF ApprovedInv, WithinLimit, IsRiskReducing
<1>1. ASSUME NEW s \in Strategies, Propose(s) PROVE ApprovedInv'
  <2> SUFFICES ASSUME NEW q \in Strategies, strat'[q].pc = "approved"
               PROVE  \/ WithinLimit(strat'[q].current, strat'[q].delta)
                      \/ IsRiskReducing(strat'[q].current, strat'[q].delta)
    BY DEF ApprovedInv, WithinLimit, IsRiskReducing
  <2>1. strat'[q] = strat[q]
    BY <1>1, <1>a DEF Propose
  <2> QED
    BY <2>1 DEF ApprovedInv
<1>2. ASSUME NEW s \in Strategies, CheckProposedOrder(s) PROVE ApprovedInv'
  <2> SUFFICES ASSUME NEW q \in Strategies, strat'[q].pc = "approved"
               PROVE  \/ WithinLimit(strat'[q].current, strat'[q].delta)
                      \/ IsRiskReducing(strat'[q].current, strat'[q].delta)
    BY DEF ApprovedInv, WithinLimit, IsRiskReducing
  <2>1. CASE q # s
    <3>1. strat'[q] = strat[q]
      BY <1>2, <1>a, <2>1 DEF CheckProposedOrder
    <3> QED
      BY <3>1 DEF ApprovedInv
  <2>2. CASE q = s
    <3>1. Approves(strat[s].current, strat[s].delta)
      BY <1>2, <1>a, <1>b, <2>2 DEF CheckProposedOrder
    <3>2. strat'[s] = [strat[s] EXCEPT !.pc = "approved", !.inHalt = halted]
      BY <1>2, <1>a, <3>1 DEF CheckProposedOrder
    <3>3. strat'[s].current = strat[s].current /\ strat'[s].delta = strat[s].delta
      BY <3>2, <1>a DEF StratType
    <3> QED
      BY <2>2, <3>1, <3>3 DEF Approves
  <2> QED
    BY <2>1, <2>2
<1>3. ASSUME NEW s \in Strategies, Fill(s) PROVE ApprovedInv'
  <2> SUFFICES ASSUME NEW q \in Strategies, strat'[q].pc = "approved"
               PROVE  \/ WithinLimit(strat'[q].current, strat'[q].delta)
                      \/ IsRiskReducing(strat'[q].current, strat'[q].delta)
    BY DEF ApprovedInv, WithinLimit, IsRiskReducing
  <2>1. strat'[q] = strat[q]
    BY <1>3, <1>a, <1>b DEF Fill
  <2> QED
    BY <2>1 DEF ApprovedInv
<1>4. ASSUME NEW e \in Equities, NEW loss \in BOOLEAN, CheckPnlAndDrawdown(e, loss)
      PROVE ApprovedInv'
  BY <1>4, <1>c DEF CheckPnlAndDrawdown
<1>5. ASSUME CheckPnlNotFinite \/ ReconcileDesync \/ EmergencyKill PROVE ApprovedInv'
  BY <1>5, <1>c DEF CheckPnlNotFinite, ReconcileDesync, EmergencyKill
<1>6. ASSUME NEW f \in Flows, RecordCapitalFlow(f) PROVE ApprovedInv'
  BY <1>6, <1>c DEF RecordCapitalFlow
<1>7. ASSUME NEW p \in Equities \cup {NoValue}, HumanReEnable(p) PROVE ApprovedInv'
  <2> SUFFICES ASSUME NEW q \in Strategies, strat'[q].pc = "approved"
               PROVE  \/ WithinLimit(strat'[q].current, strat'[q].delta)
                      \/ IsRiskReducing(strat'[q].current, strat'[q].delta)
    BY DEF ApprovedInv, WithinLimit, IsRiskReducing
  <2>1. strat'[q] = [strat[q] EXCEPT !.inHalt = FALSE]
    BY <1>7 DEF HumanReEnable
  <2>2. /\ strat'[q].pc = strat[q].pc /\ strat'[q].current = strat[q].current
        /\ strat'[q].delta = strat[q].delta
    BY <2>1, <1>a DEF StratType
  <2> QED
    BY <2>2 DEF ApprovedInv
<1>8. ASSUME Respond PROVE ApprovedInv'
  BY <1>8, <1>c DEF Respond, Alert, Flatten, FlattenRaises, EndResponse
<1>9. ASSUME UNCHANGED vars PROVE ApprovedInv'
  BY <1>9, <1>c DEF vars
<1> QED
  BY <1>1, <1>2, <1>3, <1>4, <1>5, <1>6, <1>7, <1>8, <1>9 DEF Next

\* A fill ends an approval, and nothing else does: only Fill takes a thread from
\* "approved" to "idle".
LEMMA OnlyFillsEndApprovals ==
  ASSUME TypeOK, Next, NEW s \in Strategies,
         strat[s].pc = "approved", strat'[s].pc = "idle"
  PROVE  Fill(s)
<1>a. strat \in [Strategies -> StratType]
  BY DEF TypeOK, StratType
<1>1. ASSUME NEW q \in Strategies, Propose(q) \/ CheckProposedOrder(q) PROVE FALSE
  <2>1. strat'[s] = strat[s]
    BY <1>1, <1>a DEF Propose, CheckProposedOrder
  <2> QED
    BY <2>1
<1>2. ASSUME NEW q \in Strategies, Fill(q) PROVE q = s
  BY <1>2, <1>a DEF Fill
<1>3. ASSUME NEW p \in Equities \cup {NoValue}, HumanReEnable(p) PROVE FALSE
  <2>1. strat'[s] = [strat[s] EXCEPT !.inHalt = FALSE]
    BY <1>3 DEF HumanReEnable
  <2> QED
    BY <2>1, <1>a DEF StratType
<1>4. ASSUME UNCHANGED strat PROVE FALSE
  BY <1>4
<1>5. \/ \E q \in Strategies : Propose(q) \/ CheckProposedOrder(q) \/ Fill(q)
      \/ \E p \in Equities \cup {NoValue} : HumanReEnable(p)
      \/ UNCHANGED strat
  BY DEF Next, CheckPnlAndDrawdown, CheckPnlNotFinite, RecordCapitalFlow,
         ReconcileDesync, EmergencyKill, Respond, Alert, Flatten, FlattenRaises, EndResponse
<1> QED
  BY <1>1, <1>2, <1>3, <1>4, <1>5

\* An approval used on the position it was given for never takes that position
\* further past the limit, whatever happens between the approval and the fill.
THEOREM ApprovalsAreSound == Spec => ApprovalIsSound
<1>1. Init => ApprovedInv
  BY DEF Init, ApprovedInv, Idle
<1>2. TypeOK /\ ApprovedInv /\ [Next]_vars =>
        [\A s \in Strategies :
           strat[s].pc = "approved" /\ strat'[s].pc = "idle" /\ position = strat[s].current =>
             Abs(position') <= MaxPosition \/ Abs(position') < Abs(position)]_vars
  <2> SUFFICES ASSUME TypeOK, ApprovedInv, Next, NEW s \in Strategies,
                      strat[s].pc = "approved", strat'[s].pc = "idle",
                      position = strat[s].current
               PROVE  Abs(position') <= MaxPosition \/ Abs(position') < Abs(position)
    OBVIOUS
  <2>1. Fill(s)
    BY OnlyFillsEndApprovals
  <2>2. position' = position + strat[s].delta
    BY <2>1 DEF Fill
  <2>3. WithinLimit(position, strat[s].delta) \/ IsRiskReducing(position, strat[s].delta)
    BY DEF ApprovedInv
  <2> QED
    BY <2>2, <2>3 DEF WithinLimit, IsRiskReducing
<1> QED
  BY <1>1, <1>2, ApprovedStep, TypeInit, TypeStep, PTL DEF Spec, ApprovalIsSound
==============================================================================
