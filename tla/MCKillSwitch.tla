---------------------------- MODULE MCKillSwitch -----------------------------
(***************************************************************************)
(* KillSwitch for TLC, in two scenarios chosen at the start: equity checks *)
(* and cash movements while the strategies are idle, or strategies that    *)
(* trade while no equity is evaluated.                                     *)
(***************************************************************************)
EXTENDS KillSwitch

VARIABLE scenario

\* Equities around the limits: ruined, flat and gaining.
EquityLevels == -1..6
Deposits == {-2, 1}

MCInit == Init /\ scenario \in {"equity", "trading"}

MCNext ==
  /\ Next
  /\ UNCHANGED scenario
  /\ scenario = "equity"  => strat' = strat
  /\ scenario = "trading" => peak' = peak /\ flows' = flows

MCSpec == MCInit /\ [][MCNext]_<<vars, scenario>> /\ WF_vars(Respond)
=============================================================================
