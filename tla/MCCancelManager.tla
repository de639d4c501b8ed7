--------------------------- MODULE MCCancelManager ---------------------------
(***************************************************************************)
(* CancelManager for TLC, in two scenarios chosen at the start: all        *)
(* threads share one cancel id, or all but one of them use every id and    *)
(* overflow the cache, with one call less and no request going astray.     *)
(***************************************************************************)
EXTENDS CancelManager

VARIABLE scenario

Spectator == CHOOSE t \in Threads : TRUE

MCInit == Init /\ scenario \in {"shared", "evict"}

\* The evict scenario is over one call before the bound.
EvictDone ==
  /\ scenario = "evict" /\ calls = MaxCalls - 1 /\ \A t \in Threads : pc[t] = "idle"
  /\ UNCHANGED <<vars, scenario>>

MCNext ==
  \/ /\ Next
     /\ UNCHANGED scenario
     /\ scenario = "shared" => cid' = cid
     /\ scenario = "evict"  => /\ calls' < MaxCalls /\ ~stray'
                             /\ pc'[Spectator] = "idle"
  \/ EvictDone

MCSpec ==
  /\ MCInit /\ [][MCNext]_<<vars, scenario>>
  /\ \A t \in Threads : WF_vars(Step(t))
=============================================================================
