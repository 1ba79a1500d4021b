---------------------------- MODULE MCStageList -----------------------------
(* A pair of stages that run in any order, and one behind a gap.           *)
EXTENDS StageList, TLC

PairAndGap == {<<1, 1>>, <<1, 2>>, <<3, 1>>}
=============================================================================
