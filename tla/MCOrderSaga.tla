---------------------------- MODULE MCOrderSaga ----------------------------
(* One or two orders on a clock of a few ticks.                            *)
EXTENDS OrderSaga, TLC

CONSTANTS o1, o2

Symmetry == Permutations(Orders)
=============================================================================
