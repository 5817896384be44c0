--------------------------- MODULE MCStrategyRunner ---------------------------
(***************************************************************************)
(* Instance of StrategyRunner: two callers, besides the rollback and the    *)
(* stop a callback calls.                                                   *)
(***************************************************************************)
EXTENDS StrategyRunner, TLC

CONSTANTS c1, c2

MCCallers == {c1, c2}

MCSymmetry == Permutations(MCCallers)
=============================================================================
