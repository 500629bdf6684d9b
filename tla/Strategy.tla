------------------------------ MODULE Strategy ------------------------------
(***************************************************************************)
(* core/strategy.py and core/regime_detector.py: which signals a snapshot  *)
(* of closed candles gives.  Nothing here keeps state; Entry takes the     *)
(* signals to the broker.                                                  *)
(*                                                                         *)
(* Prices are whole numbers.  A candle is [open, high, low, close]; a      *)
(* sequence of candles has the oldest first and holds closed ones only.    *)
(* The indicators (EMA, ADX, ATR) come from a library: the snapshot holds  *)
(* their values.  A side is 1 (long) or -1 (short): seen through its side, *)
(* every setup for one direction is the other one upside down.             *)
(***************************************************************************)
EXTENDS Integers, Sequences, FiniteSetsExt

CONSTANTS
    Tolerance,      \* strategy.level_touch_tolerance
    Wiggle,         \* risk.wiggle_room_points
    MinSL, MaxSL,   \* risk.min_sl_points, risk.max_sl_points
    TargetRR,       \* risk.target_rr_ratio
    PsychStep,      \* distance of the psychological levels
    SwingBars,      \* hourly candles needed for the swing levels
    SweepBars,      \* quarter-hour candles the sweep setup needs
    MinBars,        \* strategy.slow_ema: hourly candles the indicators need
    TrendingADX, RangingADX,    \* regime.adx_trending_threshold, adx_ranging_threshold
    Spike           \* regime.atr_spike_multiplier, in quarters

ASSUME StrategyAssumption ==
    /\ Tolerance \in Nat /\ Wiggle \in Nat
    /\ MinSL \in Nat \ {0} /\ MaxSL \in Nat /\ TargetRR \in Nat \ {0}
    /\ PsychStep \in Nat \ {0} /\ SwingBars \in Nat /\ SweepBars \in Nat /\ MinBars \in Nat \ {0}
    /\ TrendingADX \in Nat /\ RangingADX \in Nat /\ Spike \in Nat

Long == 1
Short == -1
Neutral == 0
Sides == {Long, Short}

(* A price, and the extremes of a candle, as a side sees them *)
Worst(bar, g) == IF g = Long THEN bar.low ELSE -bar.high
Best(bar, g) == IF g = Long THEN bar.high ELSE -bar.low

LastOf(seq) == seq[Len(seq)]
(* DataFrame.tail(n), without its order *)
Latest(seq, n) == {seq[i] : i \in {j \in DOMAIN seq: j > Len(seq) - n}}

----------------------------------------------------------------------------
(* Regime and bias *)

(* RegimeDetector.detect *)
Regime(s) ==
    LET trending == \A x \in Latest(s.adx, 3): x > TrendingADX
        ranging == \A x \in Latest(s.adx, 3): x < RangingADX
        close == LastOf(s.h1).close
    IN CASE Len(s.h1) < MinBars -> "UNKNOWN"
         [] Len(s.h1) >= MinBars /\ s.atrRatio >= Spike -> "VOLATILE_CRISIS"
         [] OTHER ->
              IF trending /\ close > s.slow /\ s.fast > s.slow THEN "TRENDING_BULLISH"
              ELSE IF trending /\ close < s.slow /\ s.fast < s.slow THEN "TRENDING_BEARISH"
              ELSE IF ~trending /\ ranging THEN "RANGING"
              ELSE "TRANSITIONING"

(* RegimeDetector_should_trade *)
RegimeAllows(s) == Regime(s) \notin {"UNKNOWN", "VOLATILE_CRISIS"}

(* get_h4_bias: the last three H4 closes on one side of the EMA *)
Bias(s) ==
    IF \A x \in Latest(s.h4, 3): x.close > x.ema THEN Long
    ELSE IF \A x \in Latest(s.h4, 3): x.close < x.ema THEN Short
    ELSE Neutral

----------------------------------------------------------------------------
(* Key levels *)

(* round(): a half goes to the even number *)
Nearest(x, step) ==
    LET q == x \div step
        r == 2 * (x % step)
    IN IF r < step \/ (r = step /\ q % 2 = 0) THEN q * step ELSE (q + 1) * step

(* calculate_key_levels: the day before the last closed one, the Asian     *)
(* range, the recent swings and round numbers, in this order               *)
Levels(s) ==
    LET day == s.d1[Len(s.d1) - 1]
        base == Nearest(LastOf(s.h1).close, PsychStep)
    IN (IF Len(s.d1) >= 2 THEN <<day.high, day.low>> ELSE <<>>)
       \o s.asian
       \o (IF Len(s.h1) >= SwingBars
           THEN <<Max({b.high : b \in Latest(s.h1, Len(s.h1))}),
                  Min({b.low : b \in Latest(s.h1, Len(s.h1))})>>
           ELSE <<>>)
       \o [i \in 1..5 |-> base + (i - 3) * PsychStep]

(* Not touched by the last five hourly candles *)
Fresh(s, level) ==
    Len(s.h1) >= 5 =>
        \A b \in Latest(s.h1, 5): ~(b.high >= level - Tolerance /\ b.low <= level + Tolerance)

----------------------------------------------------------------------------
(* Signals *)

(* Confidence of _build_signal, in hundredths *)
Confidence(s, setup, g, fresh) ==
    LET regime == Regime(s)
        aligned == Bias(s) = g
        reversal == setup = "SWEEP_REVERSAL" /\ regime = "RANGING"
        score == 50
            + (IF aligned THEN 15 ELSE IF reversal THEN 0 ELSE -20)
            + (IF s.macro = (IF g = Long THEN "BULLISH" ELSE "BEARISH") THEN 15
               ELSE IF s.macro = "CONFLICTING" THEN -15 ELSE 0)
            + (IF fresh THEN 10 ELSE 0)
            + (IF regime \in {"TRENDING_BULLISH", "TRENDING_BEARISH"} /\ aligned THEN 10 ELSE 0)
            + (IF reversal THEN 10 ELSE 0)
            + (IF regime = "TRANSITIONING" THEN -5 ELSE 0)
    IN Min({Max({score, 0}), 100})

(* A signal at the last close with its stop beyond "extreme", a price as   *)
(* the side sees it                                                        *)
Signal(s, setup, g, entry, extreme, fresh) ==
    LET distance == g * entry - extreme + Wiggle
    IN [setup |-> setup, side |-> g, entry |-> entry,
        sl |-> entry - g * distance, tp |-> entry + g * distance * TargetRR,
        distance |-> distance, confidence |-> Confidence(s, setup, g, fresh)]

(* _sl_within_bounds *)
InBounds(signal) == signal.distance >= MinSL /\ signal.distance <= MaxSL

(* Setup A: the last candle pierced a level, closed back over it and over  *)
(* the five candles before                                                 *)
Sweeps(last, g, level) ==
    /\ Worst(last, g) < g * level - Tolerance
    /\ g * last.open > g * level - Tolerance /\ g * last.close > g * level - Tolerance
Turned(bars, g) ==
    \A i \in DOMAIN bars:
        i \in Len(bars) - 5 .. Len(bars) - 1 => g * LastOf(bars).close > Best(bars[i], g)

SweepReversal(s) ==
    LET last == LastOf(s.m15)
        levels == Levels(s)
        turned == {g \in Sides: Turned(s.m15, g)}
        At(i, g) == Signal(s, "SWEEP_REVERSAL", g, last.close, Worst(last, g), Fresh(s, levels[i]))
        found == {x \in (DOMAIN levels) \X turned:
                     Sweeps(last, x[2], levels[x[1]]) /\ InBounds(At(x[1], x[2]))}
        first == Min({x[1] : x \in found})
    IN IF s.atr <= 0 \/ Len(s.m15) < SweepBars \/ found = {} THEN {}
       ELSE {At(x[1], x[2]) : x \in {y \in found: y[1] = first}}

(* Setup B: with the trend, back from the fast EMA *)
TrendContinuation(s) ==
    LET last == LastOf(s.h1)
        g == Bias(s)
        signal == Signal(s, "TREND_CONTINUATION", g, last.close, Worst(last, g), FALSE)
    IN IF /\ s.atr > 0 /\ g # Neutral /\ Len(s.h1) >= MinBars + 5
          /\ g * s.slow < g * s.fast
          /\ Worst(last, g) <= g * s.fast
          /\ g * last.close > g * s.fast /\ g * last.close > g * last.open
          /\ InBounds(signal)
       THEN {signal} ELSE {}

(* Setup C: an impulse of two ATR some candles ago, a tight flag after it, *)
(* and the last close beyond the flag                                      *)
Flag(s, age) == {s.h1[i] : i \in Len(s.h1) + 2 - age .. Len(s.h1) - 1}
Move(s, age) == s.h1[Len(s.h1) + 1 - age].close - s.h1[Len(s.h1) + 1 - age].open
Side(move) == IF move > 0 THEN Long ELSE Short
FlagSignal(s, age) ==
    LET g == Side(Move(s, age))
    IN Signal(s, "FLAG_BREAKOUT", g, LastOf(s.h1).close, Min({Worst(b, g) : b \in Flag(s, age)}), TRUE)
Breaks(s, age) ==
    LET move == Move(s, age)
        g == Side(move)
        top == Max({Best(b, g) : b \in Flag(s, age)})
        bottom == Min({Worst(b, g) : b \in Flag(s, age)})
    IN /\ g * move >= 2 * s.atr
       /\ 10 * (top - bottom) <= 6 * g * move
       /\ g * LastOf(s.h1).close > top
       /\ InBounds(FlagSignal(s, age))

FlagBreakout(s) ==
    LET ages == {a \in 5..10: a <= Len(s.h1) /\ Breaks(s, a)}
    IN IF s.atr <= 0 \/ Len(s.h1) < SwingBars \/ ages = {} THEN {} ELSE {FlagSignal(s, Max(ages))}

(* scan_for_signals, and the choice tick() makes, if there is one: the     *)
(* most confident signal, of equals that of the setup looked at first      *)
Signals(s) ==
    {x \in SweepReversal(s) \cup TrendContinuation(s) \cup FlagBreakout(s): x.confidence >= 60}
Order == <<"SWEEP_REVERSAL", "TREND_CONTINUATION", "FLAG_BREAKOUT">>
Chosen(s) ==
    LET all == Signals(s)
        top == {x \in all: \A y \in all: x.confidence >= y.confidence}
        First(x) == \E i \in 1..3: x.setup = Order[i] /\ \A y \in top: \E j \in i..3: y.setup = Order[j]
    IN {x \in top: First(x)}
=============================================================================
