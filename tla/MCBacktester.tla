---------------------------- MODULE MCBacktester ----------------------------
(* Small instances of Backtester for TLC. *)
EXTENDS Backtester

FivePrices == 1..5
NoneOrTwo == {0, 2}
TwoOrThree == {2, 3}
=============================================================================
