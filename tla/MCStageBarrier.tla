--------------------------- MODULE MCStageBarrier ---------------------------
(* Trio: a stage of two sub-issues and a second stage of one.  Pair: two stages  *)
(* of one sub-issue, either of which may appear while the other is at work.      *)
EXTENDS StageBarrier, TLC

CONSTANTS a, b, c, t1, t2

TrioStageOf == (a :> 1) @@ (b :> 1) @@ (c :> 2)
PairStageOf == (a :> 1) @@ (b :> 2)
=============================================================================
