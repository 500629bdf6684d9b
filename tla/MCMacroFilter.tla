--------------------------- MODULE MCMacroFilter ---------------------------
(* Two brokers for TLC: one has gold only, one lists a dollar index too.   *)
EXTENDS MacroFilter

MCAssets == <<"dxy", "vix">>
MCCandidates ==
    [dxy |-> <<"USDX", "DXY">>, vix |-> <<"VIX">>]
GoldOnly == {"XAUUSD"}
WithAndWithoutDollar == {{"XAUUSD"}, {"XAUUSD", "DXY"}}
=============================================================================
