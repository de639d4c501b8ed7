--------------------------- MODULE MCTickPipeline ----------------------------
(***************************************************************************)
(* TickPipeline for TLC.                                                   *)
(***************************************************************************)
EXTENDS TickPipeline, TLC

\* One symbol, owned by the first of the workers.
OnePartition == "a" :> 1
=============================================================================
