--------------------------- MODULE MCRiskManager ---------------------------
(* A small instance of RiskManager for TLC: three balances, a day of two   *)
(* hours, a cooldown of two hours after two losses in a row. *)
EXTENDS RiskManager

MCBalances == {4, 7, 8}
MCPnls == {-1, 1}
NoCommand == {}
KillCommand == {"kill"}
BothCommands == {"kill", "risk"}
=============================================================================
