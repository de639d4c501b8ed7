---------------------------- MODULE MCOrderRouter ----------------------------
(***************************************************************************)
(* OrderRouter for TLC.  Router.cfg runs two scenarios, chosen at the      *)
(* start: callers of every key that race each other, or callers of one key *)
(* that retry it through more calls and crashes.                           *)
(***************************************************************************)
EXTENDS OrderRouter, TLC

VARIABLE scenario

\* Threads are interchangeable where only safety is checked.
ThreadSymmetry == Permutations(Threads)

\* Bounds of the scenarios: the race has two calls and one crash less than the
\* constants allow, and the retries use up all calls or all crashes but not both.
RaceCalls == MaxCalls - 2
RaceCrashes == MaxCrashes - 1
RetryEvents == MaxCalls + MaxCrashes - 1

MCInit == Init /\ scenario \in {"race", "retry"}

MCNext ==
  \/ /\ Next
     /\ UNCHANGED scenario
     /\ scenario = "race" => budget'.calls <= RaceCalls /\ budget'.crashes <= RaceCrashes
     /\ scenario = "retry" => key' = key /\ budget'.calls + budget'.crashes <= RetryEvents
  \* The scenario is over before all the bounds of the constants are reached.
  \/ /\ \A t \in Threads : pc[t] = "idle"
     /\ budget.sweeps = MaxSweeps
     /\ \/ scenario = "race" /\ budget.calls = RaceCalls
        \/ scenario = "retry" /\ budget.calls + budget.crashes = RetryEvents
     /\ UNCHANGED <<vars, scenario>>

MCSpec ==
  /\ MCInit /\ [][MCNext]_<<vars, scenario>>
  /\ \A t \in Threads : WF_vars(Step(t))

\* The other instances explore every behaviour within their bounds.
PlainInit == Init /\ scenario = "any"
PlainSpec == PlainInit /\ [][Next /\ UNCHANGED scenario]_<<vars, scenario>>
=============================================================================
