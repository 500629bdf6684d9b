------------------------------- MODULE MCEntry -------------------------------
(* A small instance of Entry for TLC: prices from 5 to 19, with levels at    *)
(* every 8, and snapshots in which one setup or another, or two against each *)
(* other, give a signal.                                                     *)
EXTENDS Entry, TLC

Bar(o, h, l, c) == [open |-> o, high |-> h, low |-> l, close |-> c]
Still(p) == Bar(p, p, p, p)

(* Candles of a quarter of an hour: nothing happens, or the level at 8 is    *)
(* swept, deeper or less deep, and the close is on the other side            *)
Quiet(p) == <<Still(p), Still(p), Still(p)>>
SweptUp(l) == <<Still(9), Still(8), Bar(9, 10, l, 10)>>
SweptDown(h) == <<Still(8), Still(8), Bar(7, h, 7, 7)>>

(* Hourly candles: nothing happens; a pullback in a trend, up or down; or a  *)
(* flag after an impulse                                                     *)
QuietHours(p) == <<Still(p), Still(p), Still(p), Still(p), Still(p), Still(p)>>
Pullback(g) == <<Still(10), Still(10), Still(10), Still(10), Still(10),
                 IF g = Long THEN Bar(9, 11, 8, 10) ELSE Bar(11, 12, 9, 10)>>
FlagOf(g) == <<Still(10), Bar(10 - 4 * g, 10, 10, 10), Still(10), Bar(10, 11, 9, 10), Still(10),
               Still(10 + 2 * g)>>
Impulse(g) == [FlagOf(g) EXCEPT ![2] =
    Bar(10 - 4 * g, IF g = Long THEN 10 ELSE 14, IF g = Long THEN 6 ELSE 10, 10)]

Day == Bar(4, 16, 4, 12)
Market(m15, h1, bias, fast, slow, adx, atrRatio, macro) ==
    [m15 |-> m15, h1 |-> h1, d1 |-> <<Day, Day>>, asian |-> <<7, 13>>,
     h4 |-> [i \in 1..3 |-> [close |-> 10 + bias, ema |-> 10]],
     fast |-> fast, slow |-> slow, adx |-> <<adx, adx, adx>>, atr |-> 1,
     atrRatio |-> atrRatio, macro |-> macro]

Reversals ==
    {Market(SweptUp(l), QuietHours(12), Neutral, 12, 12, 10, 4, "BULLISH") : l \in {6, 7}}
    \cup {Market(SweptDown(9), QuietHours(12), Neutral, 12, 12, 10, w, "BEARISH") :
             w \in {4, 6, 8}}
Trends ==
    {Market(Quiet(10), Pullback(g), g, 10 - g, 10 - 2 * g, 30, 4, "NEUTRAL") : g \in Sides}
    \cup {Market(Quiet(10 + 2 * g), Impulse(g), g, 10, 10 - g, 22, 4, "BULLISH") :
             g \in Sides}
(* a reversal against the trend of the hours, and no signal good enough *)
Mixed ==
    {Market(SweptUp(7), Pullback(g), g, 10 - g, 10 - 2 * g, 22, 4,
            IF g = Long THEN "BULLISH" ELSE "CONFLICTING") : g \in Sides}
SomeOfEach == Reversals \cup Trends \cup Mixed

FiveTo19 == 5..19
Start == {600}
NoneOrThree == {0, 3}
=============================================================================
