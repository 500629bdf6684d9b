----------------------------- MODULE EntryProofs -----------------------------
(***************************************************************************)
(* What holds of Entry for every market, every setting and every balance:  *)
(* the size of a trade, and the money that is really at stake in it; and,  *)
(* at the end, what holds for every calendar of the clocks (MarketClock)   *)
(* by which the candles are judged fresh that Entry decides on.            *)
(***************************************************************************)
EXTENDS Entry, MarketClock, WellFoundedInduction, TLAPS

USE StrategyAssumption, SizingAssumption, EntryAssumption

----------------------------------------------------------------------------
(* Division *)

(* int() of a quotient stays at or below it. *)
LEMMA DivBelow ==
    ASSUME NEW a \in Nat, NEW n \in Nat \ {0}
    PROVE  /\ a \div n \in Nat
           /\ n * (a \div n) <= a /\ a < n * (a \div n) + n
OBVIOUS

(* A product with a larger factor is larger. *)
LEMMA TimesMono ==
    ASSUME NEW a \in Int, NEW b \in Int, NEW n \in Nat, a <= b
    PROVE  /\ n * a <= n * b
           /\ a * n <= b * n
<1>1. PICK d \in Nat: b = a + d
  <2>1. b - a \in Nat /\ b = a + (b - a)
    OBVIOUS
  <2> QED BY <2>1
<1>2. n * b = n * a + n * d /\ n * d \in Nat
  BY <1>1
<1> QED BY <1>2

(* The worth of a distance, in parts, is positive. *)
LEMMA TimesPositive ==
    ASSUME NEW d \in Nat, d > 0
    PROVE  6400 * d * LotValue \in Nat \ {0}
<1>1. d * 1 <= d * LotValue
  BY TimesMono
<1>2. d * LotValue \in Nat /\ 6400 * d * LotValue = 6400 * (d * LotValue)
  OBVIOUS
<1> QED BY <1>1, <1>2

(* More divided by less is at least as much. *)
LEMMA DivMono ==
    ASSUME NEW a \in Nat, NEW b \in Nat, NEW m \in Nat \ {0}, NEW n \in Nat \ {0}, a <= b, m <= n
    PROVE  a \div n <= b \div m
<1> DEFINE p == a \div n
           q == b \div m
<1>1. /\ p \in Nat /\ q \in Nat
      /\ n * p <= a /\ b < m * q + m
  BY DivBelow
<1> HIDE DEF p, q
<1>2. SUFFICES ASSUME p >= q + 1 PROVE FALSE
  BY <1>1 DEF p, q
<1>3. m * (q + 1) <= m * p
  BY <1>1, <1>2, TimesMono
<1>4. m * p <= n * p
  BY <1>1, TimesMono
<1>5. m * (q + 1) = m * q + m
  BY <1>1
<1>6. m * q \in Nat /\ m * p \in Nat /\ n * p \in Nat
  BY <1>1
<1> HIDE DEF p, q
<1> QED BY <1>1, <1>3, <1>4, <1>5, <1>6

----------------------------------------------------------------------------
(* The size of a trade *)

(* The smaller of two numbers is one of them and below both. *)
LEMMA SmallerProps ==
    ASSUME NEW a \in Nat, NEW b \in Nat
    PROVE  Smaller(a, b) \in Nat /\ Smaller(a, b) <= a /\ Smaller(a, b) <= b
BY DEF Smaller

(* The smaller of two numbers grows with both. *)
LEMMA SmallerMono ==
    ASSUME NEW a \in Nat, NEW b \in Nat, NEW c \in Nat, NEW d \in Nat, a <= c, b <= d
    PROVE  Smaller(a, b) <= Smaller(c, d)
BY DEF Smaller

(* A drawdown stays one when the balance falls or the peak rises. *)
LEMMA DrawdownMono ==
    ASSUME NEW a \in Nat, NEW b \in Nat, NEW p \in Nat, NEW q \in Nat, NEW pct \in 0..100,
           a <= b, p <= q, DrawdownOf(p, b, pct)
    PROVE  DrawdownOf(q, a, pct)
<1>1. p > 0 /\ (p - b) * 100 >= pct * p
  BY DEF DrawdownOf
<1>2. PICK d \in Nat: q = p + d
  <2>1. q - p \in Nat /\ q = p + (q - p)
    OBVIOUS
  <2> QED BY <2>1
<1>3. pct * q = pct * p + pct * d /\ pct * d \in Nat /\ pct * p \in Nat
  BY <1>2
<1>4. pct * d <= 100 * d
  BY <1>2, TimesMono
<1>5. (q - a) * 100 >= pct * q
  BY <1>1, <1>2, <1>3, <1>4
<1> QED BY <1>1, <1>5 DEF DrawdownOf

(* There are no more compounding steps with less balance. *)
LEMMA MilestonesMono ==
    ASSUME NEW a \in Nat, NEW b \in Nat, NEW bs \in Nat, bs > 0 \/ b <= bs, a <= b
    PROVE  /\ Milestones(a, bs) \in Nat /\ Milestones(b, bs) \in Nat
           /\ Milestones(a, bs) <= Milestones(b, bs)
<1>1. CASE b <= bs
  BY <1>1 DEF Milestones
<1>2. CASE bs > 0
  <2>1. bs * ScaleUp \in Nat \ {0}
    <3>1. bs * 1 <= bs * ScaleUp
      BY TimesMono
    <3> QED BY <1>2, <3>1
  <2>2. \A x \in Nat: x > bs =>
            (x - bs) * 100 \in Nat /\ ((x - bs) * 100) \div (bs * ScaleUp) \in Nat
    BY <2>1, DivBelow
  <2>3. CASE a <= bs
    BY <2>2, <2>3 DEF Milestones
  <2>4. CASE a > bs
    <3>1. (a - bs) * 100 \in Nat /\ (b - bs) * 100 \in Nat /\ (a - bs) * 100 <= (b - bs) * 100
      BY <2>4
    <3>2. ((a - bs) * 100) \div (bs * ScaleUp) <= ((b - bs) * 100) \div (bs * ScaleUp)
      BY <2>1, <3>1, DivMono
    <3> QED BY <2>2, <2>4, <3>2 DEF Milestones
  <2> QED BY <2>3, <2>4
<1> QED BY <1>1, <1>2

(* The compounded risk falls with the balance and with the drawdown. *)
LEMMA EffectiveRiskMono ==
    ASSUME NEW a \in Nat, NEW b \in Nat, NEW bs \in Nat, NEW p \in Nat, NEW q \in Nat,
           bs > 0 \/ b <= bs, a <= b, p <= q
    PROVE  /\ EffectiveRisk(a, bs, q) \in Nat /\ EffectiveRisk(b, bs, p) \in Nat
           /\ EffectiveRisk(a, bs, q) <= EffectiveRisk(b, bs, p)
<1> DEFINE ma == Milestones(a, bs)
           mb == Milestones(b, bs)
<1>1. ma \in Nat /\ mb \in Nat /\ ma <= mb
  BY MilestonesMono
<1> HIDE DEF ma, mb
<1>2. ma * Increment \in Nat /\ mb * Increment \in Nat /\ ma * Increment <= mb * Increment
  BY <1>1, TimesMono
<1> DEFINE ra == Smaller(BaseRisk + ma * Increment, Ceiling)
           rb == Smaller(BaseRisk + mb * Increment, Ceiling)
<1>3. ra \in Nat /\ rb \in Nat /\ ra <= rb /\ BaseRisk <= ra /\ BaseRisk <= rb
  BY <1>2 DEF Smaller
<1>4. (ma = 0 => ra = BaseRisk) /\ (mb = 0 => rb = BaseRisk)
  BY <1>1 DEF Smaller
<1>5. EffectiveRisk(a, bs, q) = IF DrawdownOf(q, a, ResetDD) THEN BaseRisk ELSE ra
  BY <1>4 DEF EffectiveRisk, ma
<1>6. EffectiveRisk(b, bs, p) = IF DrawdownOf(p, b, ResetDD) THEN BaseRisk ELSE rb
  BY <1>4 DEF EffectiveRisk, mb
<1>7. DrawdownOf(p, b, ResetDD) => DrawdownOf(q, a, ResetDD)
  BY DrawdownMono
<1> HIDE DEF ra, rb
<1> QED BY <1>3, <1>5, <1>6, <1>7

(* The adaptive multiplier falls with the balance and in a wilder market. *)
LEMMA MultiplierMono ==
    ASSUME NEW a \in Nat, NEW b \in Nat, NEW p \in Nat, NEW q \in Nat, NEW n \in Nat,
           NEW v \in BOOLEAN, NEW w \in BOOLEAN, a <= b, p <= q, v => w
    PROVE  /\ Multiplier(a, q, n, w) \in Nat /\ Multiplier(b, p, n, v) \in Nat
           /\ Multiplier(a, q, n, w) <= Multiplier(b, p, n, v)
<1>1. DrawdownOf(p, b, RecoveryDD) => DrawdownOf(q, a, RecoveryDD)
  BY DrawdownMono
<1> DEFINE ra == IF DrawdownOf(q, a, RecoveryDD) THEN Recovery ELSE 4
           rb == IF DrawdownOf(p, b, RecoveryDD) THEN Recovery ELSE 4
           ha == IF w THEN HighAtr ELSE 4
           hb == IF v THEN HighAtr ELSE 4
           l == LossMultiplier(n)
<1>2. ra \in Nat /\ rb \in Nat /\ ra <= rb
  BY <1>1
<1>3. ha \in Nat /\ hb \in Nat /\ ha <= hb
  OBVIOUS
<1>4. l \in Nat
  BY DEF LossMultiplier
<1>5. Multiplier(a, q, n, w) = Smaller(l, Smaller(ha, ra)) /\ Multiplier(b, p, n, v) = Smaller(l, Smaller(hb, rb))
  BY DEF Multiplier
<1> HIDE DEF ra, rb, ha, hb, l
<1>6. Smaller(ha, ra) \in Nat /\ Smaller(hb, rb) \in Nat /\ Smaller(ha, ra) <= Smaller(hb, rb)
  BY <1>2, <1>3, SmallerMono, SmallerProps
<1> QED BY <1>4, <1>5, <1>6, SmallerMono, SmallerProps

(* So does the share of the balance that is risked. *)
LEMMA RiskShareMono ==
    ASSUME NEW a \in Nat, NEW b \in Nat, NEW bs \in Nat, NEW p \in Nat, NEW q \in Nat, NEW n \in Nat,
           NEW v \in BOOLEAN, NEW w \in BOOLEAN, bs > 0 \/ b <= bs, a <= b, p <= q, v => w
    PROVE  /\ RiskShare(a, bs, q, n, w) \in Nat /\ RiskShare(b, bs, p, n, v) \in Nat
           /\ RiskShare(a, bs, q, n, w) <= RiskShare(b, bs, p, n, v)
           /\ RiskShare(a, bs, q, n, w) <= 4 * MaxRisk
<1> DEFINE ea == EffectiveRisk(a, bs, q)
           eb == EffectiveRisk(b, bs, p)
           ma == Multiplier(a, q, n, w)
           mb == Multiplier(b, p, n, v)
<1>1. ea \in Nat /\ eb \in Nat /\ ea <= eb
  BY EffectiveRiskMono
<1>2. ma \in Nat /\ mb \in Nat /\ ma <= mb
  BY MultiplierMono
<1>3. RiskShare(a, bs, q, n, w) = Smaller(ea * ma, 4 * MaxRisk) /\ RiskShare(b, bs, p, n, v) = Smaller(eb * mb, 4 * MaxRisk)
  BY DEF RiskShare
<1> HIDE DEF ea, eb, ma, mb
<1>4. ea * ma <= ea * mb /\ ea * mb <= eb * mb
  BY <1>1, <1>2, TimesMono
<1>5. ea * ma \in Nat /\ ea * mb \in Nat /\ eb * mb \in Nat /\ ea * ma <= eb * mb
  BY <1>1, <1>2, <1>4
<1> DEFINE xa == ea * ma
           xb == eb * mb
           top == 4 * MaxRisk
<1>6. xa \in Nat /\ xb \in Nat /\ xa <= xb /\ top \in Nat
  BY <1>5
<1>7. RiskShare(a, bs, q, n, w) = Smaller(xa, top) /\ RiskShare(b, bs, p, n, v) = Smaller(xb, top) /\ top = 4 * MaxRisk
  BY <1>3
<1> HIDE DEF xa, xb, top
<1>8. Smaller(xa, top) \in Nat /\ Smaller(xa, top) <= top /\ Smaller(xb, top) \in Nat
  BY <1>6, SmallerProps
<1>9. Smaller(xa, top) <= Smaller(xb, top)
  BY <1>6, SmallerMono
<1> QED BY <1>7, <1>8, <1>9

(* The share is at most the largest one allowed (in parts of 6400). *)
LEMMA RiskShareType ==
    ASSUME NEW b \in Nat, NEW bs \in Nat, NEW p \in Nat, NEW n \in Nat, NEW w \in BOOLEAN, bs > 0 \/ b <= bs
    PROVE  RiskShare(b, bs, p, n, w) \in Nat /\ RiskShare(b, bs, p, n, w) <= 4 * MaxRisk
<1>1. b <= b /\ p <= p /\ (w => w)
  OBVIOUS
<1> HIDE DEF RiskShare
<1> QED BY <1>1, RiskShareMono

(* A lot is none at all or one the broker takes. *)
LEMMA LotType ==
    ASSUME NEW b \in Nat, NEW bs \in Nat, NEW p \in Nat, NEW n \in Nat, NEW w \in BOOLEAN,
           NEW d \in Nat, bs > 0 \/ b <= bs, d > 0
    PROVE  /\ Lot(b, bs, p, n, w, d) \in Nat
           /\ Lot(b, bs, p, n, w, d) = 0 \/ Lot(b, bs, p, n, w, d) \in MinLot..MaxLot
<1> DEFINE share == RiskShare(b, bs, p, n, w)
           raw == (b * share) \div (6400 * d * LotValue)
<1>1. share \in Nat
  BY RiskShareType
<1>2. 6400 * d * LotValue \in Nat \ {0}
  BY TimesPositive
<1>3. raw \in Nat
  <2>1. b * share \in Nat
    BY <1>1
  <2> QED BY <1>2, <2>1, DivBelow
<1>4. Lot(b, bs, p, n, w, d) = IF Smaller(raw, MaxLot) < MinLot THEN 0 ELSE Smaller(raw, MaxLot)
  BY DEF Lot
<1> HIDE DEF raw
<1>5. Smaller(raw, MaxLot) \in Nat /\ Smaller(raw, MaxLot) <= MaxLot
  BY <1>3, SmallerProps
<1> QED BY <1>4, <1>5

WithinRisk(lot, b, d) == 1600 * (lot * LotValue * d) <= b * MaxRisk

(* The planned loss, from the signal's price to its stop, stays within the *)
(* configured risk, because the lot is rounded down.                       *)
LEMMA LotRisk ==
    ASSUME NEW b \in Nat, NEW bs \in Nat, NEW p \in Nat, NEW n \in Nat, NEW w \in BOOLEAN,
           NEW d \in Nat, bs > 0 \/ b <= bs, d > 0
    PROVE  WithinRisk(Lot(b, bs, p, n, w, d), b, d)
<1> DEFINE share == RiskShare(b, bs, p, n, w)
           unit == 6400 * d * LotValue
           raw == (b * share) \div unit
           lot == Lot(b, bs, p, n, w, d)
<1>1. share \in Nat /\ share <= 4 * MaxRisk
  BY RiskShareType
<1>2. unit \in Nat \ {0}
  BY TimesPositive
<1>3. b * share \in Nat /\ b * share <= b * (4 * MaxRisk)
  BY <1>1, TimesMono
<1>4. raw \in Nat /\ unit * raw <= b * share
  BY <1>2, <1>3, DivBelow
<1>5. lot = IF Smaller(raw, MaxLot) < MinLot THEN 0 ELSE Smaller(raw, MaxLot)
  BY DEF Lot
<1> HIDE DEF raw, share
<1>6. lot \in Nat /\ lot <= raw
  <2>1. Smaller(raw, MaxLot) \in Nat /\ Smaller(raw, MaxLot) <= raw
    BY <1>4, SmallerProps
  <2> HIDE DEF lot
  <2> QED BY <1>4, <1>5, <2>1
<1> HIDE DEF lot
<1>7. unit * lot <= unit * raw
  BY <1>2, <1>4, <1>6, TimesMono
<1>8. unit * lot = 4 * (1600 * (lot * LotValue * d))
  BY <1>6
<1>9. b * (4 * MaxRisk) = 4 * (b * MaxRisk) /\ b * MaxRisk \in Nat /\ lot * LotValue * d \in Nat /\ unit * raw \in Nat
  BY <1>2, <1>4, <1>6
<1>10. 4 * (1600 * (lot * LotValue * d)) <= 4 * (b * MaxRisk)
  BY <1>3, <1>4, <1>7, <1>8, <1>9
<1> QED BY <1>9, <1>10 DEF lot, WithinRisk

(* Less balance, more drawdown, a wilder market, a farther stop: no larger *)
(* a lot.                                                                  *)
LEMMA LotMono ==
    ASSUME NEW a \in Nat, NEW b \in Nat, NEW bs \in Nat, NEW p \in Nat, NEW q \in Nat, NEW n \in Nat,
           NEW v \in BOOLEAN, NEW w \in BOOLEAN, NEW d \in Nat, NEW e \in Nat,
           bs > 0 \/ b <= bs, a <= b, p <= q, v => w, 0 < d, d <= e
    PROVE  Lot(a, bs, q, n, w, e) <= Lot(b, bs, p, n, v, d)
<1> DEFINE sa == RiskShare(a, bs, q, n, w)
           sb == RiskShare(b, bs, p, n, v)
           ra == (a * sa) \div (6400 * e * LotValue)
           rb == (b * sb) \div (6400 * d * LotValue)
<1>1. sa \in Nat /\ sb \in Nat /\ sa <= sb
  BY RiskShareMono
<1>2. 6400 * e * LotValue \in Nat \ {0} /\ 6400 * d * LotValue \in Nat \ {0}
  BY TimesPositive
<1>3. a * sa <= a * sb /\ a * sb <= b * sb
  BY <1>1, TimesMono
<1>4. a * sa \in Nat /\ b * sb \in Nat /\ a * sa <= b * sb
  BY <1>1, <1>3
<1>5. 6400 * d * LotValue <= 6400 * e * LotValue
  BY TimesMono
<1> DEFINE ua == 6400 * e * LotValue
           ub == 6400 * d * LotValue
           xa == a * sa
           xb == b * sb
<1>6. /\ xa \in Nat /\ xb \in Nat /\ xa <= xb
      /\ ua \in Nat \ {0} /\ ub \in Nat \ {0} /\ ub <= ua
  BY <1>2, <1>4, <1>5
<1>7. ra = xa \div ua /\ rb = xb \div ub
  OBVIOUS
<1>8. Lot(a, bs, q, n, w, e) = IF Smaller(ra, MaxLot) < MinLot THEN 0 ELSE Smaller(ra, MaxLot)
  BY DEF Lot
<1>9. Lot(b, bs, p, n, v, d) = IF Smaller(rb, MaxLot) < MinLot THEN 0 ELSE Smaller(rb, MaxLot)
  BY DEF Lot
<1> HIDE DEF ua, ub, xa, xb, ra, rb
<1>10. ra \in Nat /\ rb \in Nat /\ ra <= rb
  BY <1>6, <1>7, DivMono, DivBelow
<1>11. /\ Smaller(ra, MaxLot) \in Nat /\ Smaller(rb, MaxLot) \in Nat
       /\ Smaller(ra, MaxLot) <= Smaller(rb, MaxLot)
  BY <1>10, SmallerMono, SmallerProps
<1> QED BY <1>8, <1>9, <1>11

----------------------------------------------------------------------------
(* Signals *)

(* _build_signal puts the stop and the target around the entry. *)
LEMMA SignalShape ==
    ASSUME NEW s, NEW setup, NEW g, NEW entry, NEW extreme, NEW fresh
    PROVE  LET x == Signal(s, setup, g, entry, extreme, fresh)
           IN /\ x.side = g
              /\ x.sl = x.entry - x.side * x.distance
              /\ x.tp = x.entry + x.side * x.distance * TargetRR
BY DEF Signal

(* Every signal has its stop and its target where its distance puts them. *)
LEMMA ChosenProps ==
    ASSUME NEW s \in Snapshots, NEW x \in Chosen(s)
    PROVE  /\ x.side \in Sides /\ x.entry \in Int /\ x.distance \in Int
           /\ x.sl = x.entry - x.side * x.distance
           /\ x.tp = x.entry + x.side * x.distance * TargetRR
<1>1. x \in SweepReversal(s) \cup TrendContinuation(s) \cup FlagBreakout(s)
  BY DEF Chosen, Signals
<1>2. \E setup, g, entry, extreme, fresh: g \in Sides /\ x = Signal(s, setup, g, entry, extreme, fresh)
  <2>1. CASE x \in SweepReversal(s)
    BY <2>1 DEF SweepReversal
  <2>2. CASE x \in TrendContinuation(s)
    <3>1. Bias(s) \in Sides \cup {Neutral}
      BY DEF Bias, Sides
    <3> QED BY <2>2, <3>1 DEF TrendContinuation
  <2>3. CASE x \in FlagBreakout(s)
    <3>1. \A move: Side(move) \in Sides
      BY DEF Side, Sides
    <3> QED BY <2>3, <3>1 DEF FlagBreakout, FlagSignal
  <2> QED BY <1>1, <2>1, <2>2, <2>3
<1>3. PICK setup, g, entry, extreme, fresh: g \in Sides /\ x = Signal(s, setup, g, entry, extreme, fresh)
  BY <1>2
<1>4. \A y \in Chosen(s): y.entry \in Int /\ y.distance \in Int
  BY SnapshotAssumption, Zenon
<1>5. x.entry \in Int /\ x.distance \in Int
  BY <1>4, Zenon
<1> QED BY <1>3, <1>5, SignalShape

----------------------------------------------------------------------------
(* The type invariant *)

(* What an order that is filled was sized from, and what it becomes. *)
LEMMA OrderProps ==
    ASSUME TypeOK, NEW signal \in Considered, OrderFilled(signal)
    PROVE  /\ signal.side \in Sides /\ signal.entry \in Int
           /\ signal.distance \in Nat /\ signal.distance > 0
           /\ signal.sl = signal.entry - signal.side * signal.distance
           /\ signal.tp = signal.entry + signal.side * signal.distance * TargetRR
           /\ balance \in Nat /\ GatePeak \in Nat /\ balance <= GatePeak /\ peak <= GatePeak
           /\ SizingBase \in Nat /\ (SizingBase > 0 \/ balance <= SizingBase)
           /\ base > 0 => SizingBase = base
           /\ losses \in Nat /\ Wild \in BOOLEAN
           /\ SizedLot(signal) \in MinLot..MaxLot
<1>1. signal \in Chosen(snap) /\ ~Terminal
  BY DEF Considered
<1>2. /\ signal.side \in Sides /\ signal.entry \in Int /\ signal.distance \in Int
      /\ signal.sl = signal.entry - signal.side * signal.distance
      /\ signal.tp = signal.entry + signal.side * signal.distance * TargetRR
  BY <1>1, ChosenProps DEF TypeOK
<1>3. \E seen \in Spreads: ValidSignal(signal, seen)
  BY DEF OrderFilled
<1>4. signal.distance \in Nat /\ signal.distance > 0
  BY <1>2, <1>3 DEF ValidSignal, InBounds
<1>5. balance \in Nat
  BY <1>1 DEF Terminal, TypeOK
<1>6. GatePeak \in Nat /\ balance <= GatePeak /\ peak <= GatePeak
  BY <1>5 DEF GatePeak, TypeOK
<1>7. /\ SizingBase \in Nat /\ (SizingBase > 0 \/ balance <= SizingBase)
      /\ base > 0 => SizingBase = base
  BY <1>5 DEF SizingBase, TypeOK
<1>8. losses \in Nat
  BY DEF TypeOK
<1>9. Wild \in BOOLEAN
  BY DEF Wild
<1>10. SizedLot(signal) \in Nat /\ (SizedLot(signal) = 0 \/ SizedLot(signal) \in MinLot..MaxLot)
  <2>1. SizedLot(signal) = Lot(balance, SizingBase, GatePeak, losses, Wild, signal.distance)
    BY DEF SizedLot
  <2>2. /\ Lot(balance, SizingBase, GatePeak, losses, Wild, signal.distance) \in Nat
        /\ \/ Lot(balance, SizingBase, GatePeak, losses, Wild, signal.distance) = 0
           \/ Lot(balance, SizingBase, GatePeak, losses, Wild, signal.distance) \in MinLot..MaxLot
    BY <1>4, <1>5, <1>6, <1>7, <1>8, <1>9, LotType, Zenon
  <2> QED BY <2>1, <2>2
<1>11. SizedLot(signal) > 0
  BY DEF OrderFilled, Sane
<1>12. SizedLot(signal) \in MinLot..MaxLot
  BY <1>10, <1>11
<1> QED BY <1>2, <1>4, <1>5, <1>6, <1>7, <1>8, <1>9, <1>12

(* An order that is filled takes one side of the book. *)
LEMMA OrderEffect ==
    ASSUME TypeOK, NEW signal \in Considered, OrderFilled(signal)
    PROVE  \E spread \in 0..WidestSpread:
              LET position == [open |-> TRUE, lot |-> SizedLot(signal), sl |-> signal.sl, tp |-> signal.tp,
                               fill |-> IF signal.side = Long THEN bid + spread ELSE bid]
              IN /\ position \in Positions
                 /\ book' = [book EXCEPT ![signal.side] = position]
<1>1. PICK spread \in 0..WidestSpread:
          book' = [book EXCEPT ![signal.side] =
              [open |-> TRUE, lot |-> SizedLot(signal), sl |-> signal.sl, tp |-> signal.tp,
               fill |-> IF signal.side = Long THEN bid + spread ELSE bid]]
  BY DEF OrderFilled, Spreads
<1>2. signal.sl \in Int /\ signal.tp \in Int
  BY OrderProps DEF Sides, Long, Short
<1>3. (IF signal.side = Long THEN bid + spread ELSE bid) \in Nat
  BY DEF TypeOK
<1>4. [open |-> TRUE, lot |-> SizedLot(signal), sl |-> signal.sl, tp |-> signal.tp,
       fill |-> IF signal.side = Long THEN bid + spread ELSE bid] \in Positions
  BY <1>2, <1>3, OrderProps DEF Positions
<1> QED BY <1>1, <1>4

(* What closed positions bring is a number. *)
LEMMA GainType ==
    ASSUME TypeOK, NEW S \in SUBSET Open, NEW b \in Nat, NEW spread \in Nat
    PROVE  Gain(S, b, spread) \in Int
<1>1. \A g \in Open: g \in Sides /\ book[g] \in Positions
  BY DEF Open, TypeOK, Empty
<1>2. \A g \in S: Profit(g, b, spread) \in Int
  <2> SUFFICES ASSUME NEW g \in S PROVE Profit(g, b, spread) \in Int
    OBVIOUS
  <2>4. book[g] \in Positions
    BY <1>1
  <2>1. book[g].lot \in Int /\ book[g].fill \in Int
    <3>1. \A x \in Positions: x.lot \in MinLot..MaxLot /\ x.fill \in Nat
      BY DEF Positions
    <3> QED BY <2>4, <3>1
  <2>3. g \in Int
    BY <1>1 DEF Sides, Long, Short
  <2>2. Quote(g, b, spread) \in Int
    BY DEF Quote
  <2> QED BY <2>1, <2>2, <2>3 DEF Profit
<1> QED BY <1>2 DEF Gain

(* The market and the closings leave a smaller book. *)
LEMMA ClosingType ==
    ASSUME TypeOK, NEW S \in SUBSET Open,
           book' = [g \in Sides |-> IF g \in S THEN Empty ELSE book[g]]
    PROVE  book' \in [Sides -> {Empty} \cup Positions]
BY DEF TypeOK

THEOREM TypeCorrect == Spec => []TypeOK
<1>1. Init => TypeOK
  <2> SUFFICES ASSUME Init PROVE TypeOK
    OBVIOUS
  <2>1. book \in [Sides -> {Empty} \cup Positions]
    BY DEF Init
  <2>2. snap \in Snapshots /\ bid \in Prices /\ balance \in Int /\ losses \in Losses
    BY DEF Init
  <2>3. peak \in Nat /\ base \in Nat /\ orders \in 0..MaxOrders
    BY DEF Init
  <2>5. kill \in BOOLEAN
    BY DEF Init
  <2>4. last \in {Empty} \cup Sizings
    BY DEF Init
  <2> QED BY <2>1, <2>2, <2>3, <2>4, <2>5 DEF TypeOK
<1>2. TypeOK /\ [Next]_vars => TypeOK'
  <2> SUFFICES ASSUME TypeOK, [Next]_vars PROVE TypeOK'
    OBVIOUS
  <2>1. CASE PriceMoves
    <3>1. PICK b \in Prices, spread \in Spreads, S \in SUBSET Open:
              /\ bid' = b /\ balance' = balance + Gain(S, b, spread)
              /\ book' = [g \in Sides |-> IF g \in S THEN Empty ELSE book[g]]
              /\ UNCHANGED <<snap, risk, last, orders>>
      <4>1. PICK b \in Prices, spread \in Spreads:
                LET hit == {g \in Open: Reached(g, b, spread)}
                IN /\ bid' = b /\ balance' = balance + Gain(hit, b, spread)
                   /\ book' = [g \in Sides |-> IF g \in hit THEN Empty ELSE book[g]]
                   /\ UNCHANGED <<snap, risk, last, orders>>
        BY <2>1 DEF PriceMoves
      <4>2. {g \in Open: Reached(g, b, spread)} \in SUBSET Open
        OBVIOUS
      <4> QED BY <4>1, <4>2
    <3>2. balance' \in Int
      BY <3>1, GainType DEF Spreads, TypeOK
    <3>3. book' \in [Sides -> {Empty} \cup Positions]
      BY <3>1, ClosingType
    <3> QED BY <3>1, <3>2, <3>3 DEF TypeOK, risk
  <2>2. CASE CandleCloses
    BY <2>2 DEF CandleCloses, TypeOK, risk
  <2>3. CASE KillTick
    <3>1. balance' \in Int
      BY <2>3, GainType DEF KillTick, Spreads, TypeOK
    <3> QED BY <2>3, <3>1 DEF KillTick, TypeOK
  <2>4. ASSUME NEW signal \in Considered, OrderFilled(signal) PROVE TypeOK'
    <3>1. book' \in [Sides -> {Empty} \cup Positions]
      BY <2>4, OrderEffect DEF TypeOK
    <3>2. last' = [open |-> TRUE, balance |-> balance, wild |-> Wild,
                   distance |-> signal.distance, lot |-> SizedLot(signal)]
      BY <2>4 DEF OrderFilled
    <3>3. last' \in Sizings
      BY <2>4, <3>2, OrderProps DEF Sizings
    <3>4. peak' \in Nat /\ base' \in Nat
      BY <2>4, OrderProps DEF OrderFilled
    <3>5. orders' \in 0..MaxOrders
      BY <2>4 DEF OrderFilled, TypeOK
    <3> QED BY <2>4, <3>1, <3>3, <3>4, <3>5 DEF OrderFilled, TypeOK
  <2>5. ASSUME NEW signal \in Considered, Refused(signal) PROVE TypeOK'
    BY <2>5 DEF Refused, TypeOK, GatePeak, Considered, Terminal
  <2>6. ASSUME NEW signal \in Considered, OrderRefused(signal) PROVE TypeOK'
    BY <2>6 DEF OrderRefused, TypeOK, GatePeak, SizingBase, Considered, Terminal
  <2>7. CASE UNCHANGED vars
    BY <2>7 DEF vars, TypeOK
  <2> QED BY <2>1, <2>2, <2>3, <2>4, <2>5, <2>6, <2>7 DEF Next, ConsiderSignal
<1> QED BY <1>1, <1>2, PTL DEF Spec

----------------------------------------------------------------------------
(* The money at stake *)

NearStop(g, entry, d, b, x, w) ==
    g * ((IF g = Long THEN b + x ELSE b) - (entry - g * d)) <= (1 + TargetRR) * d + w
Before(g, entry, d, b) == g * b < g * (entry + g * d * TargetRR)

(* A position that is filled before its target is at most (1 + target_rr)  *)
(* planned distances and a spread away from its stop.                      *)
LEMMA FillNearStop ==
    ASSUME NEW g \in Sides, NEW entry \in Int, NEW d \in Nat, NEW b \in Nat, NEW w \in Nat,
           NEW x \in 0..w, Before(g, entry, d, b)
    PROVE  NearStop(g, entry, d, b, x, w)
<1>1. d * TargetRR \in Nat /\ (1 + TargetRR) * d = d + d * TargetRR
  OBVIOUS
<1>2. CASE g = 1
  <2>1. g * d * TargetRR = d * TargetRR /\ g * d = d
    BY <1>2
  <2>2. b < entry + d * TargetRR
    BY <1>1, <1>2, <2>1 DEF Before
  <2> QED BY <1>1, <1>2, <2>1, <2>2 DEF Long, NearStop
<1>3. CASE g = -1
  <2>1. g * d * TargetRR = -(d * TargetRR) /\ g * d = -d
    BY <1>3
  <2>2. -b < -(entry - d * TargetRR)
    BY <1>1, <1>3, <2>1 DEF Before
  <2> QED BY <1>1, <1>3, <2>1, <2>2 DEF Long, NearStop
<1> QED BY <1>2, <1>3 DEF Sides, Long, Short

(* The stake of lots whose planned risk is within the configured one. *)
LEMMA StakeArithmetic ==
    ASSUME NEW l \in Nat, NEW d \in Nat, NEW k \in Int, NEW m \in Nat,
           k <= (1 + TargetRR) * d + WidestSpread,
           1600 * (l * LotValue * d) <= m
    PROVE  1600 * l * LotValue * k <= (1 + TargetRR) * m + 1600 * l * LotValue * WidestSpread
<1> DEFINE u == 1600 * l * LotValue
           r == 1 + TargetRR
<1>1. u \in Nat /\ r \in Nat /\ u * d = 1600 * (l * LotValue * d)
  OBVIOUS
<1>2. k <= r * d + WidestSpread
  OBVIOUS
<1>3. 1600 * l * LotValue * k = u * k /\ 1600 * l * LotValue * WidestSpread = u * WidestSpread
  OBVIOUS
<1>4. u * d <= m
  BY <1>1
<1> HIDE DEF u, r
<1>5. u * k <= u * (r * d + WidestSpread)
  BY <1>1, <1>2, TimesMono
<1>6. u * (r * d + WidestSpread) = r * (u * d) + u * WidestSpread
  BY <1>1
<1>7. r * (u * d) <= r * m
  BY <1>1, <1>4, TimesMono
<1>8. u * k \in Int /\ u * WidestSpread \in Int /\ r * (u * d) \in Int /\ r * m \in Int
  BY <1>1
<1>9. u * k <= r * m + u * WidestSpread
  BY <1>5, <1>6, <1>7, <1>8
<1> QED BY <1>3, <1>9 DEF r

(* A position is within its bound for a peak. *)
Within(x, g, p) ==
    1600 * x.lot * LotValue * g * (x.fill - x.sl)
        <= (1 + TargetRR) * p * MaxRisk + 1600 * x.lot * LotValue * WidestSpread

(* A bound for one peak is one for a higher peak. *)
LEMMA WithinMono ==
    ASSUME NEW x \in Positions, NEW g \in Sides, NEW p \in Nat, NEW q \in Nat, p <= q, Within(x, g, p)
    PROVE  Within(x, g, q)
<1>1. /\ x.lot \in Int /\ x.fill \in Int /\ x.sl \in Int /\ g \in Int
  BY DEF Positions, Sides, Long, Short
<1>2. p * MaxRisk <= q * MaxRisk /\ p * MaxRisk \in Nat /\ q * MaxRisk \in Nat
  BY TimesMono
<1>3. (1 + TargetRR) * (p * MaxRisk) <= (1 + TargetRR) * (q * MaxRisk)
  BY <1>2, TimesMono
<1>4. (1 + TargetRR) * p * MaxRisk <= (1 + TargetRR) * q * MaxRisk
  <2>1. \A y \in Nat: (1 + TargetRR) * y * MaxRisk = (1 + TargetRR) * (y * MaxRisk)
    OBVIOUS
  <2> QED BY <1>3, <2>1
<1> DEFINE stake == 1600 * x.lot * LotValue * g * (x.fill - x.sl)
           wide == 1600 * x.lot * LotValue * WidestSpread
           pp == (1 + TargetRR) * p * MaxRisk
           qq == (1 + TargetRR) * q * MaxRisk
<1>5. stake \in Int /\ wide \in Int /\ pp \in Int /\ qq \in Int
  BY <1>1
<1>6. stake <= pp + wide /\ pp <= qq
  BY <1>4 DEF Within
<1>7. Within(x, g, q) <=> stake <= qq + wide
  BY DEF Within
<1> HIDE DEF stake, wide, pp, qq
<1> QED BY <1>5, <1>6, <1>7

(* The position an order becomes is within its bound for the raised peak. *)
LEMMA OrderWithin ==
    ASSUME TypeOK, NEW signal \in Considered, OrderFilled(signal), NEW spread \in 0..WidestSpread,
           NEW x \in Positions,
           x.lot = SizedLot(signal), x.sl = signal.sl,
           x.fill = IF signal.side = Long THEN bid + spread ELSE bid
    PROVE  Within(x, signal.side, GatePeak)
<1> DEFINE g == signal.side
           d == signal.distance
           k == g * (x.fill - x.sl)
<1>1. /\ g \in Sides /\ signal.entry \in Int /\ d \in Nat /\ d > 0
      /\ signal.sl = signal.entry - g * d /\ signal.tp = signal.entry + g * d * TargetRR
      /\ balance \in Nat /\ GatePeak \in Nat /\ balance <= GatePeak
      /\ SizingBase \in Nat /\ (SizingBase > 0 \/ balance <= SizingBase)
      /\ losses \in Nat /\ Wild \in BOOLEAN
      /\ SizedLot(signal) \in MinLot..MaxLot
  BY OrderProps
<1>2. bid \in Nat
  <2>1. bid \in Prices
    BY DEF TypeOK
  <2> QED BY <2>1
<1>3. Before(g, signal.entry, d, bid)
  BY <1>1 DEF OrderFilled, StopsFit, Before
<1>4. k <= (1 + TargetRR) * d + WidestSpread
  <2>1. k = g * ((IF g = Long THEN bid + spread ELSE bid) - (signal.entry - g * d))
    BY <1>1
  <2>2. NearStop(g, signal.entry, d, bid, spread, WidestSpread)
    <3>1. WidestSpread \in Nat /\ spread \in 0..WidestSpread
      OBVIOUS
    <3>2. g \in Sides /\ signal.entry \in Int /\ d \in Nat
      BY <1>1
    <3> HIDE DEF g, d, k
    <3> QED BY <3>1, <3>2, <1>2, <1>3, FillNearStop, Zenon
  <2> QED BY <2>1, <2>2 DEF NearStop
<1>5. 1600 * (SizedLot(signal) * LotValue * d) <= balance * MaxRisk
  <2>1. SizedLot(signal) = Lot(balance, SizingBase, GatePeak, losses, Wild, signal.distance)
    BY DEF SizedLot
  <2>2. WithinRisk(Lot(balance, SizingBase, GatePeak, losses, Wild, signal.distance), balance, signal.distance)
    <3>1. signal.distance \in Nat /\ signal.distance > 0
      BY <1>1
    <3>2. balance \in Nat /\ SizingBase \in Nat /\ GatePeak \in Nat
      BY <1>1
    <3>3. losses \in Nat /\ Wild \in BOOLEAN
      BY <1>1
    <3>4. SizingBase > 0 \/ balance <= SizingBase
      BY <1>1
    <3> HIDE DEF g, d, k
    <3> QED BY <3>1, <3>2, <3>3, <3>4, LotRisk, Zenon
  <2> QED BY <2>1, <2>2 DEF WithinRisk
<1>6. balance * MaxRisk \in Nat /\ GatePeak * MaxRisk \in Nat /\ balance * MaxRisk <= GatePeak * MaxRisk
  BY <1>1, TimesMono
<1>7. x.lot \in Nat /\ x.fill \in Int /\ x.sl \in Int /\ x.lot = SizedLot(signal)
  BY <1>1 DEF Positions
<1>8. 1600 * (x.lot * LotValue * d) <= GatePeak * MaxRisk
  <2>1. x.lot * LotValue * d \in Nat
    BY <1>1, <1>7
  <2> QED BY <1>5, <1>6, <1>7, <2>1
<1>9. k \in Int /\ g \in Int
  BY <1>1, <1>7 DEF Sides, Long, Short
<1> HIDE DEF k
<1>10. 1600 * x.lot * LotValue * k
          <= (1 + TargetRR) * (GatePeak * MaxRisk) + 1600 * x.lot * LotValue * WidestSpread
  BY <1>1, <1>4, <1>6, <1>7, <1>8, <1>9, StakeArithmetic
<1>11. 1600 * x.lot * LotValue * g * (x.fill - x.sl) = 1600 * x.lot * LotValue * k
  BY <1>7, <1>9 DEF k
<1>12. (1 + TargetRR) * GatePeak * MaxRisk = (1 + TargetRR) * (GatePeak * MaxRisk)
  BY <1>1
<1> QED BY <1>10, <1>11, <1>12 DEF Within

(* No step lowers the peak, and only a filled order opens a position. *)
LEMMA StepEffect ==
    ASSUME TypeOK, [Next]_vars
    PROVE  \/ \E signal \in Considered: OrderFilled(signal)
           \/ /\ peak' \in Nat /\ peak <= peak'
              /\ \A g \in Sides: book'[g] = book[g] \/ book'[g] = Empty
              /\ last' = last /\ losses' = losses
              /\ base > 0 => base' = base
<1>1. CASE PriceMoves
  BY <1>1 DEF PriceMoves, TypeOK, risk
<1>2. CASE CandleCloses
  BY <1>2 DEF CandleCloses, TypeOK, risk
<1>3. CASE KillTick
  BY <1>3 DEF KillTick, TypeOK
<1>4. ASSUME NEW signal \in Considered PROVE GatePeak \in Nat /\ peak <= GatePeak
  BY DEF Considered, Terminal, GatePeak, TypeOK
<1>5. ASSUME NEW signal \in Considered, Refused(signal)
      PROVE  /\ peak' \in Nat /\ peak <= peak' /\ book' = book /\ last' = last /\ losses' = losses
             /\ base' = base
  BY <1>4, <1>5 DEF Refused
<1>6. ASSUME NEW signal \in Considered, OrderRefused(signal)
      PROVE  /\ peak' \in Nat /\ peak <= peak' /\ book' = book /\ last' = last /\ losses' = losses
             /\ base > 0 => base' = base
  BY <1>4, <1>6 DEF OrderRefused, SizingBase, TypeOK
<1>7. CASE UNCHANGED vars
  BY <1>7 DEF vars, TypeOK
<1> QED BY <1>1, <1>2, <1>3, <1>5, <1>6, <1>7 DEF Next, ConsiderSignal

(* Whatever the price does while a candle's signal is old, the money       *)
(* between a position and its stop is bounded by (1 + target_rr) times the *)
(* configured risk of the peak balance, and the spread.                    *)
THEOREM StakeIsBounded == Spec => []StakeBounded
<1> DEFINE Inv == \A g \in Sides: book[g] \in Positions => Within(book[g], g, peak)
<1>1. Init => Inv
  <2>1. Empty \notin Positions
    BY DEF Empty, Positions
  <2> QED BY <2>1 DEF Init
<1>2. TypeOK /\ TypeOK' /\ Inv /\ [Next]_vars => Inv'
  <2> SUFFICES ASSUME TypeOK, TypeOK', Inv, [Next]_vars, NEW g \in Sides, book'[g] \in Positions
               PROVE  Within(book'[g], g, peak')
    BY DEF Within
  <2>1. peak \in Nat
    BY DEF TypeOK
  <2>2. CASE \E signal \in Considered: OrderFilled(signal)
    <3>1. PICK signal \in Considered: OrderFilled(signal)
      BY <2>2
    <3>2. PICK spread \in 0..WidestSpread:
              LET position == [open |-> TRUE, lot |-> SizedLot(signal), sl |-> signal.sl, tp |-> signal.tp,
                               fill |-> IF signal.side = Long THEN bid + spread ELSE bid]
              IN /\ position \in Positions
                 /\ book' = [book EXCEPT ![signal.side] = position]
      BY <3>1, OrderEffect
    <3> DEFINE position == [open |-> TRUE, lot |-> SizedLot(signal), sl |-> signal.sl, tp |-> signal.tp,
                            fill |-> IF signal.side = Long THEN bid + spread ELSE bid]
    <3>3. Within(position, signal.side, GatePeak)
      <4>1. /\ position.lot = SizedLot(signal) /\ position.sl = signal.sl
            /\ position.fill = IF signal.side = Long THEN bid + spread ELSE bid
        OBVIOUS
      <4> QED BY <3>1, <3>2, <4>1, OrderWithin
    <3>4. peak' = GatePeak /\ GatePeak \in Nat /\ peak <= GatePeak
      BY <3>1, OrderProps DEF OrderFilled
    <3>5. CASE g = signal.side
      <4>1. book'[g] = position
        BY <3>2, <3>5 DEF TypeOK
      <4> HIDE DEF position
      <4> QED BY <3>3, <3>4, <3>5, <4>1
    <3>6. CASE g # signal.side
      <4>1. book'[g] = book[g]
        BY <3>2, <3>6 DEF TypeOK
      <4> QED BY <2>1, <3>4, <4>1, WithinMono
    <3> QED BY <3>5, <3>6
  <2>3. CASE /\ peak' \in Nat /\ peak <= peak'
             /\ \A h \in Sides: book'[h] = book[h] \/ book'[h] = Empty
    <3>1. book'[g] = book[g]
      <4>1. Empty \notin Positions
        BY DEF Empty, Positions
      <4> QED BY <2>3, <4>1
    <3> QED BY <2>1, <2>3, <3>1, WithinMono
  <2> QED BY <2>2, <2>3, StepEffect
<1>3. TypeOK /\ Inv => StakeBounded
  <2> SUFFICES ASSUME TypeOK, Inv, NEW g \in Open
               PROVE  1600 * book[g].lot * LotValue * g * (book[g].fill - book[g].sl)
                          <= (1 + TargetRR) * peak * MaxRisk + 1600 * book[g].lot * LotValue * WidestSpread
    BY DEF StakeBounded
  <2>1. g \in Sides /\ book[g] \in Positions
    BY DEF Open, TypeOK, Empty
  <2> QED BY <2>1 DEF Within
<1> HIDE DEF Inv
<1> QED BY <1>1, <1>2, <1>3, TypeCorrect, PTL DEF Spec

----------------------------------------------------------------------------
(* No martingale *)

(* What the last order was sized from, in terms of the state now: the base *)
(* of the compounding is still the same, and the peak is not lower.        *)
SizedFrom(b, bs, p, n, v, d, l) ==
    \E q \in Nat: b <= q /\ q <= p /\ l = Lot(b, bs, q, n, v, d)

(* After a loss no trade gets larger than the one before: smaller balance, *)
(* farther stop, wilder market, each only lowers the lot, whichever step   *)
(* of the compounding or of the drawdown rules lies between.               *)
THEOREM NeverMartingale == Spec => NoMartingale
<1> DEFINE Inv == last.open =>
               base > 0 /\ last.distance > 0
               /\ SizedFrom(last.balance, base, peak, losses, last.wild, last.distance, last.lot)
           Step == (last' # last /\ last.open /\ last'.balance <= last.balance
                    /\ last'.distance >= last.distance /\ (last.wild => last'.wild))
                       => last'.lot <= last.lot
<1>1. Init => Inv
  BY DEF Init, Empty
<1>2. TypeOK /\ Inv /\ [Next]_vars => Inv'
  <2> SUFFICES ASSUME TypeOK, Inv, [Next]_vars PROVE Inv'
    OBVIOUS
  <2>1. CASE \E signal \in Considered: OrderFilled(signal)
    <3>1. PICK signal \in Considered: OrderFilled(signal)
      BY <2>1
    <3>2. /\ last' = [open |-> TRUE, balance |-> balance, wild |-> Wild,
                      distance |-> signal.distance, lot |-> SizedLot(signal)]
          /\ peak' = GatePeak /\ base' = SizingBase /\ losses' = losses
      BY <3>1 DEF OrderFilled
    <3>3. /\ signal.distance \in Nat /\ signal.distance > 0
          /\ GatePeak \in Nat /\ balance \in Nat /\ balance <= GatePeak
          /\ SizingBase \in Nat /\ (SizingBase > 0 \/ balance <= SizingBase)
          /\ SizedLot(signal) \in MinLot..MaxLot
      BY <3>1, OrderProps
    <3>4. SizedLot(signal) = Lot(balance, SizingBase, GatePeak, losses, Wild, signal.distance)
      BY DEF SizedLot
    <3>5. SizingBase > 0
      <4>1. balance > 0
        <5>1. SizedLot(signal) * signal.distance * LotValue * 100 <= MaxSanePct * balance
          BY <3>1 DEF OrderFilled, Sane
        <5>2. SizedLot(signal) \in Nat /\ SizedLot(signal) >= 1
          BY <3>3
        <5>3. SizedLot(signal) * signal.distance >= 1
          <6>1. SizedLot(signal) * 1 <= SizedLot(signal) * signal.distance
            BY <3>3, <5>2, TimesMono
          <6> QED BY <3>3, <5>2, <6>1
        <5>4. (SizedLot(signal) * signal.distance) * 1 <= (SizedLot(signal) * signal.distance) * LotValue
          <6>1. SizedLot(signal) * signal.distance \in Nat
            BY <3>3, <5>2
          <6> QED BY <6>1, TimesMono
        <5>5. SizedLot(signal) * signal.distance * LotValue >= 1
          BY <3>3, <5>2, <5>3, <5>4
        <5>6. SUFFICES ASSUME balance = 0 PROVE FALSE
          BY <3>3
        <5>7. MaxSanePct * balance = 0
          BY <5>6
        <5>8. SizedLot(signal) * signal.distance * LotValue \in Nat
          BY <3>3, <5>2
        <5> QED BY <5>1, <5>5, <5>7, <5>8
      <4> QED BY <3>3, <4>1
    <3>6. SizedFrom(balance, SizingBase, GatePeak, losses, Wild, signal.distance, SizedLot(signal))
      <4>1. balance <= GatePeak /\ GatePeak <= GatePeak /\ GatePeak \in Nat
        BY <3>3
      <4> QED BY <3>4, <4>1 DEF SizedFrom
    <3>7. /\ last'.balance = balance /\ last'.wild = Wild /\ last'.distance = signal.distance
          /\ last'.lot = SizedLot(signal)
      BY <3>2
    <3>8. base' > 0 /\ last'.distance > 0
      BY <3>2, <3>3, <3>5, <3>7
    <3>9. SizedFrom(last'.balance, base', peak', losses', last'.wild, last'.distance, last'.lot)
      BY <3>2, <3>6, <3>7
    <3> QED BY <3>8, <3>9
  <2>2. CASE /\ peak' \in Nat /\ peak <= peak' /\ last' = last /\ losses' = losses
             /\ base > 0 => base' = base
    <3> SUFFICES ASSUME last.open
                 PROVE  base' > 0 /\ last.distance > 0
                        /\ SizedFrom(last.balance, base', peak', losses', last.wild, last.distance, last.lot)
      BY <2>2
    <3>1. base' = base /\ base' > 0 /\ last.distance > 0
      BY <2>2
    <3>2. PICK q \in Nat: /\ last.balance <= q /\ q <= peak
                          /\ last.lot = Lot(last.balance, base, q, losses, last.wild, last.distance)
      BY DEF SizedFrom
    <3>3. q <= peak'
      BY <2>2, <3>2 DEF TypeOK
    <3> QED BY <2>2, <3>1, <3>2, <3>3 DEF SizedFrom
  <2> QED BY <2>1, <2>2, StepEffect
<1>3. TypeOK /\ Inv /\ [Next]_vars => Step
  <2> SUFFICES ASSUME TypeOK, Inv, [Next]_vars, last' # last, last.open,
                      last'.balance <= last.balance, last'.distance >= last.distance,
                      last.wild => last'.wild
               PROVE  last'.lot <= last.lot
    OBVIOUS
  <2>1. PICK signal \in Considered: OrderFilled(signal)
    BY StepEffect
  <2>2. /\ last'.balance = balance /\ last'.wild = Wild /\ last'.distance = signal.distance
        /\ last'.lot = SizedLot(signal)
    BY <2>1 DEF OrderFilled
  <2>3. last \in Sizings
    BY DEF TypeOK, Empty
  <2>4. /\ last.balance \in Nat /\ last.wild \in BOOLEAN /\ last.distance \in Nat
    BY <2>3 DEF Sizings
  <2>5. base > 0 /\ last.distance > 0 /\ base \in Nat /\ peak \in Nat
    BY DEF TypeOK
  <2>6. PICK q \in Nat: /\ last.balance <= q /\ q <= peak
                        /\ last.lot = Lot(last.balance, base, q, losses, last.wild, last.distance)
    BY DEF SizedFrom
  <2>7. /\ signal.distance \in Nat /\ balance \in Nat /\ GatePeak \in Nat /\ peak <= GatePeak
        /\ losses \in Nat /\ Wild \in BOOLEAN
        /\ SizingBase = base
    BY <2>1, <2>5, OrderProps
  <2>8. q <= GatePeak
    BY <2>5, <2>6, <2>7
  <2>9. balance <= last.balance /\ last.distance <= signal.distance /\ (last.wild => Wild)
        /\ 0 < last.distance /\ (base > 0 \/ last.balance <= base)
    BY <2>2, <2>4, <2>5, <2>7
  <2>10. Lot(balance, base, GatePeak, losses, Wild, signal.distance)
            <= Lot(last.balance, base, q, losses, last.wild, last.distance)
    BY <2>4, <2>5, <2>7, <2>8, <2>9, LotMono
  <2>11. SizedLot(signal) = Lot(balance, base, GatePeak, losses, Wild, signal.distance)
    BY <2>7 DEF SizedLot
  <2> QED BY <2>2, <2>6, <2>10, <2>11
<1>4. TypeOK /\ Inv /\ [Next]_vars
          => [(last' # last /\ last.open /\ last'.balance <= last.balance
               /\ last'.distance >= last.distance /\ (last.wild => last'.wild))
                 => last'.lot <= last.lot]_vars
  BY <1>3
<1> HIDE DEF Inv, Step
<1> QED BY <1>1, <1>2, <1>4, TypeCorrect, PTL DEF Spec, NoMartingale

----------------------------------------------------------------------------
(* The clocks behind the snapshots *)

USE ClockAssumption

(* There is a latest one among instants: their ages are natural numbers,   *)
(* which are well-founded.                                                 *)
Below == {p \in Nat \X Nat: p[1] < p[2]}

(* There is no infinite descent in Below. *)
LEMMA BelowIsWellFounded == IsWellFoundedOn(Below, Nat)
<1>1. IsWellFoundedOn(OpToRel(<, Nat), Nat)
  BY NatLessThanWellFounded
<1>2. OpToRel(<, Nat) = Below
  BY DEF OpToRel, Below
<1> QED
  BY <1>1, <1>2

(* Latest is the largest of a nonempty set of instants. *)
LEMMA LatestIs ==
  ASSUME NEW b \in Nat, NEW T \in SUBSET (0..b), T # {}
  PROVE  LatestOf(T) \in T /\ \A u \in T: u <= LatestOf(T)
<1> DEFINE ages == {b - x: x \in T}
<1>1. ages \subseteq Nat
  OBVIOUS
<1>2. ages # {}
  <2>1. PICK x \in T: TRUE
    OBVIOUS
  <2>2. b - x \in ages
    OBVIOUS
  <2> HIDE DEF ages
  <2> QED
    BY <2>2
<1>3. PICK age \in ages: \A y \in ages: <<y, age>> \notin Below
  <2> HIDE DEF ages
  <2> QED
    BY <1>1, <1>2, BelowIsWellFounded, WFMin
<1>4. PICK s \in T: age = b - s
  OBVIOUS
<1>5. ASSUME NEW u \in T PROVE u <= s
  <2>1. b - u \in ages /\ b - u \in Nat /\ age \in Nat
    BY <1>1
  <2>2. ~(b - u < age)
    BY <2>1, <1>3 DEF Below
  <2> QED
    BY <2>2, <1>4
<1> QED
  BY <1>5 DEF LatestOf

(* Zero stands for a trade before the model begins.                        *)
Known(t) == t = 0 \/ MarketOpen(t)

(* The last trade before t is one, before t, and none is later.            *)
LEMMA LastTradedIs ==
  ASSUME calendar \in Calendars, NEW t \in -DayLength..End
  PROVE  /\ LastTraded(t) \in Nat /\ Known(LastTraded(t))
         /\ LastTraded(t) = 0 \/ LastTraded(t) < t
         /\ \A u \in 0..(t - 1): MarketOpen(u) => u <= LastTraded(t)
<1> DEFINE T == {0} \cup {s \in 0..(t - 1): TradedIn(calendar, s)}
<1>1. LastTraded(t) = LatestOf(T)
  BY DEF LastTraded, TradeBefore
<1>2. T \in SUBSET (0..End) /\ T # {} /\ End \in Nat
  BY DEF ClockAssumption, DayLength, Hour
<1>3. LatestOf(T) \in T /\ \A u \in T: u <= LatestOf(T)
  <2> HIDE DEF T
  <2> QED
    BY <1>2, LatestIs
<1>4. t \in Int
  BY <1>2 DEF DayLength, Hour
<1> QED
  BY <1>1, <1>3, <1>4 DEF Known, MarketOpen

(* A zone is a number of whole hours.                                      *)
LEMMA ZoneIs ==
  ASSUME calendar \in Calendars, NEW t \in Int
  PROVE  \E z \in -12..14: /\ Zone(calendar.broker, t) = 4 * z
                           /\ z = calendar.broker[IF t < Changes THEN "before" ELSE "after"]
<1>1. calendar.broker \in [{"before", "after"} -> -12..14]
  BY DEF ClockAssumption
<1> QED
  BY <1>1 DEF Zone, Hour

(* Nothing is traded around the change of the clocks.                      *)
LEMMA Calm ==
  ASSUME calendar \in Calendars,
         NEW t \in Int, t <= End + Hour, t <= 0 \/ MarketOpen(t)
  PROVE  t + 104 < Changes \/ t >= Changes + 16
<1>1. CASE t <= 0
  <2>1. 0 \in 0..(End + Hour) /\ Changes \in Nat
    BY DEF ClockAssumption, Hour
  <2>2. 0 + 104 < Changes \/ 0 >= Changes + 16
    BY <2>1, ChangeAssumption DEF ChangeAssumption, DayLength, Hour
  <2> QED
    BY <1>1, <2>1, <2>2
<1>2. CASE t > 0 /\ MarketOpen(t)
  <2>1. t \in 0..(End + Hour) /\ Changes \in Nat
    BY <1>2 DEF ClockAssumption, Hour
  <2> QED
    BY <1>2, <2>1, ChangeAssumption DEF ChangeAssumption, DayLength, Hour, MarketOpen
<1> QED
  BY <1>1, <1>2

(* The offset was inferred at a tick that had just arrived, and if the day *)
(* has been reset, then since.                                             *)
Anchors(tick, at) ==
    /\ tick <= at /\ at <= tick + 1 /\ at <= now
    /\ Known(tick)
    /\ Hour * offset = -Zone(calendar.broker, tick)
    /\ lastReset = Day(now) => Day(at) = Day(now)
Anchored == \E tick \in Nat, at \in Nat: Anchors(tick, at)

(* The invariant: what is cached has an anchor, and what was accepted is   *)
(* what the validator accepts now.                                         *)
ClockInv ==
    /\ ClockTypeOK
    /\ Known(lastTick)
    /\ lastReset # None => lastReset <= Day(now)
    /\ live /\ MarketOpen(now) => lastTick = now
    /\ verdict # None => (verdict = "accepted" <=> Valid)
    /\ offset # None /\ sound => Anchored

(* A day has 96 quarter-hours.                                             *)
LEMMA DayIs ==
  ASSUME NEW t \in Nat
  PROVE  Day(t) \in Nat /\ Day(t) * 96 <= t /\ t < Day(t) * 96 + 96
  BY DEF Day, DayLength, Hour

(* A remainder by the length of an intraday bar. *)
LEMMA Remainder ==
  ASSUME NEW x \in Int, NEW b \in {1, 4, 16}
  PROVE  x % b \in 0..(b - 1)
<1>1. CASE b = 1
  BY <1>1
<1>2. CASE b = 4
  BY <1>2
<1>3. CASE b = 16
  BY <1>3
<1> QED
  BY <1>1, <1>2, <1>3

(* The offset is right at every instant on the same side of the change.    *)
LEMMA SameSide ==
  ASSUME calendar \in Calendars, NEW tick \in Nat, NEW at \in Nat,
         Anchors(tick, at), NEW t \in Int, t < Changes <=> tick < Changes
  PROVE  Broker(t) + Hour * offset = t
<1>1. Zone(calendar.broker, t) = Zone(calendar.broker, tick)
  BY DEF Zone
<1>2. Zone(calendar.broker, t) \in Int
  BY ZoneIs
<1> QED
  BY <1>1, <1>2 DEF Broker, Anchors

(* On the other side it is wrong by two hours at most.                     *)
LEMMA OtherSide ==
  ASSUME calendar \in Calendars,
         NEW tick \in Nat, NEW at \in Nat, Anchors(tick, at), NEW t \in Int
  PROVE  Broker(t) + Hour * offset \in (t - 8)..(t + 8)
<1>1. PICK z \in -12..14: /\ Zone(calendar.broker, t) = 4 * z
                          /\ z = calendar.broker[IF t < Changes THEN "before" ELSE "after"]
  BY ZoneIs
<1>2. PICK y \in -12..14: /\ Zone(calendar.broker, tick) = 4 * y
                          /\ y = calendar.broker[IF tick < Changes THEN "before" ELSE "after"]
  BY ZoneIs
<1>3. z - y \in -2..2
  BY <1>1, <1>2, ChangeAssumption DEF ChangeAssumption
<1> QED
  BY <1>1, <1>2, <1>3 DEF Broker, Anchors

(* A tick before the change that is of today has no trade after the change. *)
LEMMA NoTradeAcross ==
  ASSUME ClockTypeOK, NEW tick \in Nat, NEW at \in Nat,
         Anchors(tick, at), lastReset = Day(now), tick < Changes
  PROVE  now < Changes
<1>1. tick <= now /\ now \in Nat /\ now <= End /\ Changes \in Nat
  BY DEF ClockTypeOK, Anchors, ClockAssumption
<1>2. tick + 104 < Changes
  <2>1. tick <= End + Hour /\ (tick <= 0 \/ MarketOpen(tick)) /\ calendar \in Calendars
    BY <1>1 DEF Anchors, Known, ClockTypeOK, ClockAssumption, Hour
  <2> QED
    BY <2>1, <1>1, Calm
<1>3. Day(at) = Day(now) /\ at <= tick + 1
  BY DEF Anchors
<1>4. now < at + 96
  BY <1>1, <1>3, DayIs
<1> QED
  BY <1>1, <1>2, <1>3, <1>4

(* The last bar of an intraday series opened before the last tick.         *)
LEMMA LastOpeningIs ==
  ASSUME ClockTypeOK, NEW tf \in {"H4", "H1", "M15"}
  PROVE  \E trade \in Nat:
            /\ Known(trade) /\ trade <= now
            /\ LastOpening(tf) \in (trade - 15)..trade
<1> DEFINE b == BarLength[tf]
           forming == lastTick - (Broker(lastTick) % b)
           trade == LastTraded(forming)
<1>1. b \in {1, 4, 16}
  BY DEF BarLength, Hour
<1>2. calendar \in Calendars /\ lastTick \in 0..now /\ now \in Nat /\ now <= End /\ End \in Nat
  BY DEF ClockTypeOK, ClockAssumption
<1>3. Broker(lastTick) \in Int
  BY <1>2, ZoneIs DEF Broker
<1>4. Broker(lastTick) % b \in 0..(b - 1)
  BY <1>1, <1>3, Remainder
<1>5. forming \in -DayLength..End /\ forming <= lastTick
  BY <1>1, <1>2, <1>4 DEF DayLength, Hour
<1>6. trade \in Nat /\ Known(trade) /\ (trade = 0 \/ trade < forming)
  <2> HIDE DEF forming
  <2> QED
    BY <1>2, <1>5, LastTradedIs
<1>7. Broker(trade) % b \in 0..(b - 1)
  <2> HIDE DEF trade, b
  <2>1. Broker(trade) \in Int
    BY <1>2, <1>6, ZoneIs DEF Broker
  <2> QED
    BY <2>1, <1>1, Remainder
<1>8. LastOpening(tf) = trade - (Broker(trade) % b)
  BY DEF LastOpening
<1> HIDE DEF trade, forming
<1>9. LastOpening(tf) \in (trade - 15)..trade
  BY <1>1, <1>6, <1>7, <1>8
<1>10. trade <= now
  BY <1>2, <1>5, <1>6
<1> QED
  BY <1>6, <1>9, <1>10

(* If a series is accepted, its last bar is reported at its true time.     *)
LEMMA ReportedTruly ==
  ASSUME ClockTypeOK, NEW tick \in Nat, NEW at \in Nat,
         Anchors(tick, at), offset # None, lastReset = Day(now),
         NEW tf \in {"H4", "H1", "M15"}, now - Reported(LastOpening(tf)) <= MaxAge(tf)
  PROVE  LastOpening(tf) \in Int /\ Reported(LastOpening(tf)) = LastOpening(tf)
<1>1. PICK trade \in Nat: /\ Known(trade) /\ trade <= now
                          /\ LastOpening(tf) \in (trade - 15)..trade
  BY LastOpeningIs
<1> DEFINE bar == LastOpening(tf)
<1>2. bar \in Int
  BY <1>1
<1>3. Reported(bar) = Broker(bar) + Hour * offset
  BY DEF Reported, Inferred
<1>4. calendar \in Calendars /\ now \in Nat /\ now <= End /\ Changes \in Nat /\ End \in Nat
  BY DEF ClockTypeOK, ClockAssumption
<1>5. MaxAge(tf) <= 96
  BY DEF MaxAge, BarLength, Hour, ClockAssumption, DayLength
<1>6. trade + 104 < Changes \/ trade >= Changes + 16
  <2>1. trade <= 0 \/ MarketOpen(trade)
    BY <1>1 DEF Known
  <2>2. trade \in Int /\ trade <= End + Hour
    BY <1>1, <1>4 DEF Hour
  <2> QED
    BY <1>4, <2>1, <2>2, Calm
<1> HIDE DEF bar
<1>7. tick <= now
  BY <1>4 DEF Anchors
<1>8. bar < Changes <=> tick < Changes
  <2>1. CASE trade >= Changes + 16
    <3>1. bar >= Changes
      BY <1>1, <1>2, <1>4, <2>1 DEF bar
    <3>2. ~(tick < Changes)
      BY <2>1, <1>1, <1>4, NoTradeAcross
    <3> QED
      BY <3>1, <3>2, <1>2, <1>4
  <2>2. CASE trade + 104 < Changes
    <3>1. bar <= trade /\ bar < Changes
      BY <1>1, <1>2, <1>4, <2>2 DEF bar
    <3>2. Reported(bar) \in (bar - 8)..(bar + 8)
      BY <1>2, <1>3, <1>4, OtherSide
    <3>3. now - Reported(bar) <= 96
      BY <1>4, <1>5, <3>2 DEF bar, MaxAge, BarLength, Hour, ClockAssumption
    <3>4. ~(tick >= Changes)
      BY <3>1, <3>2, <3>3, <1>2, <1>4, <1>7, <2>2
    <3> QED
      BY <3>1, <3>4, <1>4
  <2> QED
    BY <1>6, <2>1, <2>2
<1> QED
  BY <1>2, <1>3, <1>4, <1>8, SameSide DEF bar

(* Within two quarter-hours of a tick its drift rounds to the true zone.   *)
LEMMA RoundWhole ==
  ASSUME NEW z \in Int, NEW a \in {0, 1}
  PROVE  RoundHours(a - 4 * z) = -z
<1> DEFINE age == a - 4 * z
<1>1. age \div 4 = -z /\ age % 4 = a
  BY SMT
<1> QED
  BY <1>1 DEF RoundHours, Hour

----------------------------------------------------------------------------
(* The invariant is inductive: first the offset, then each action.         *)
LEMMA DriftIs ==
  ASSUME ClockTypeOK
  PROVE  /\ Drift \in Int
         /\ \E z \in Int: Zone(calendar.broker, lastTick) = 4 * z /\ Drift = (now - lastTick) - 4 * z
<1>1. now \in Nat /\ lastTick \in 0..now /\ calendar \in Calendars
  BY DEF ClockTypeOK, ClockAssumption
<1>2. PICK z \in -12..14: Zone(calendar.broker, lastTick) = 4 * z
  BY <1>1, ZoneIs
<1> QED
  BY <1>1, <1>2 DEF Drift, Broker

(* Rounding gives whole hours. *)
LEMMA RoundIsInt == ASSUME NEW a \in Int PROVE RoundHours(a) \in Int
  BY DEF RoundHours, Hour

(* An offset inferred at a tick that has just arrived is anchored there;   *)
(* one that was cached keeps its anchor.                                   *)
LEMMA InferIs ==
  ASSUME ClockInv, Infer, UNCHANGED <<world, lastReset>>
  PROVE  /\ offset' \in Int /\ offset' # None /\ sound' \in BOOLEAN
         /\ sound' => Anchored'
<1> USE DEF ClockInv
<1>1. now \in Nat /\ lastTick \in 0..now /\ calendar \in Calendars
  BY DEF ClockTypeOK, ClockAssumption
<1>2. offset' \in Int
  BY DriftIs, RoundIsInt DEF Infer, Inferred, ClockTypeOK
<1>3. offset' # None
  BY <1>2 DEF ClockAssumption
<1>4. ASSUME sound' PROVE Anchored'
  <2>1. CASE offset = None
    <3> offset' = RoundHours(Drift)
      BY <2>1 DEF Infer, Inferred
    <3>6. now - lastTick < 2
      BY <1>4, <2>1, Zenon DEF Infer
    <3>1. now - lastTick \in {0, 1} /\ offset' = RoundHours(Drift)
      BY <1>1, <3>6
    <3>2. PICK z \in Int: Zone(calendar.broker, lastTick) = 4 * z /\ Drift = (now - lastTick) - 4 * z
      BY DriftIs
    <3>3. offset' = -z
      <4> DEFINE a == now - lastTick
      <4>1. a \in {0, 1} /\ Drift = a - 4 * z
        BY <3>1, <3>2
      <4> HIDE DEF a
      <4> QED
        BY <4>1, <3>1, RoundWhole
    <3>4. Hour * offset' = -Zone(calendar.broker, lastTick)
      BY <3>2, <3>3 DEF Hour
    <3>5. Anchors(lastTick, now)'
      BY <1>1, <3>1, <3>4 DEF Anchors, world, Known, MarketOpen, Day, Zone
    <3> QED
      <4>1. lastTick' \in Nat /\ now' \in Nat
        BY <1>1 DEF world
      <4> QED
        BY <3>5, <4>1 DEF Anchored
  <2>2. CASE offset # None
    <3>1. sound /\ offset' = offset
      BY <1>4, <2>2 DEF Infer, Inferred
    <3>2. PICK tick \in Nat, at \in Nat: Anchors(tick, at)
      BY <2>2, <3>1 DEF Anchored
    <3>3. Anchors(tick, at)'
      BY <3>1, <3>2 DEF Anchors, world, Known, MarketOpen, Day, Zone
    <3> QED
      BY <3>3 DEF Anchored
  <2> QED
    BY <2>1, <2>2
<1> QED
  <2>1. sound' \in BOOLEAN
    <3>1. (now - lastTick < 2) \in BOOLEAN
      OBVIOUS
    <3> QED
      BY <3>1, Zenon DEF Infer, ClockTypeOK
  <2> QED
    BY <1>2, <1>3, <1>4, <2>1

(* An anchor stays one while the calendar, the offset and the day of the   *)
(* reset stay the same.                                                    *)
LEMMA AnchorStays ==
  ASSUME ClockInv, offset # None, sound,
         UNCHANGED <<calendar, offset, lastReset>>, now' \in Nat, now <= now'
  PROVE  Anchored'
<1>1. PICK tick \in Nat, at \in Nat: Anchors(tick, at)
  BY DEF ClockInv, Anchored
<1>2. now \in Nat /\ ClockTypeOK
  BY DEF ClockInv, ClockTypeOK, ClockAssumption
<1>3. lastReset = Day(now') => lastReset = Day(now)
  <2> SUFFICES ASSUME lastReset = Day(now') PROVE lastReset = Day(now)
    OBVIOUS
  <2>1. Day(now') \in Nat /\ Day(now) \in Nat
    BY <1>2, DayIs
  <2>2. lastReset # None
    BY <2>1 DEF ClockAssumption
  <2>3. lastReset <= Day(now)
    BY <2>2 DEF ClockInv
  <2>4. Day(now) <= Day(now')
    <3>1. Day(now) * 96 <= now /\ now' < Day(now') * 96 + 96
      BY <1>2, DayIs
    <3> QED
      BY <1>2, <2>1, <3>1
  <2> QED
    BY <2>1, <2>3, <2>4
<1>4. at <= now'
  BY <1>1, <1>2 DEF Anchors
<1>5. Anchors(tick, at)'
  BY <1>1, <1>3, <1>4 DEF Anchors, Known, MarketOpen, Zone
<1> QED
  BY <1>5 DEF Anchored

(* The invariant holds at the start of the week ... *)
LEMMA InitClock == ASSUME ClockInit PROVE ClockInv
<1>1. calendar \in Calendars /\ Start \in Nat /\ Start \in Start..End /\ Start \in -DayLength..End
  BY DEF ClockInit, ClockAssumption, DayLength, Hour
<1>2. /\ LastTraded(Start) \in Nat /\ Known(LastTraded(Start))
      /\ LastTraded(Start) = 0 \/ LastTraded(Start) < Start
  BY <1>1, LastTradedIs
<1>3. lastTick \in 0..now /\ Known(lastTick)
  BY <1>1, <1>2 DEF ClockInit, Known
<1>4. "accepted" # None /\ verdict = None /\ 0 \in 0..MaxCrashes
  BY DEF ClockInit, ClockAssumption
<1> QED
  BY <1>1, <1>3, <1>4 DEF ClockInit, ClockInv, ClockTypeOK

(* ... and every step of the process, the feed and the time keeps it. *)
LEMMA NextClock == ASSUME ClockInv, ClockNext PROVE ClockInv'
<1> USE DEF ClockInv
<1>t. ClockTypeOK /\ now \in Nat /\ Start \in Nat /\ End \in Nat
  BY DEF ClockTypeOK, ClockAssumption
<1>n. None # "accepted" /\ None # "rejected" /\ None \notin Int
  BY DEF ClockAssumption
<1>1. CASE StartUp
  <2>1. /\ offset' \in Int /\ offset' # None /\ sound' \in BOOLEAN
        /\ sound' => Anchored'
    BY <1>1, InferIs DEF StartUp
  <2>2. verdict = None /\ verdict' = None
    BY <1>1 DEF StartUp, ClockTypeOK
  <2>3. paused' \in BOOLEAN
    BY <1>1 DEF StartUp, DriftPauses
  <2>4. ClockTypeOK'
    BY <1>1, <2>1, <2>2, <2>3 DEF StartUp, ClockTypeOK, world
  <2>5. Known(lastTick)' /\ (lastReset # None => lastReset <= Day(now))'
    BY <1>1 DEF StartUp, world, Known, MarketOpen, Day
  <2>9. (live /\ MarketOpen(now) => lastTick = now)'
    BY <1>1 DEF StartUp, world, MarketOpen
  <2> QED
    BY <2>1, <2>2, <2>4, <2>5, <1>n, <2>9
<1>2. CASE DailyReset
  <2>1. verdict = None /\ verdict' = None
    BY <1>2 DEF DailyReset, ClockTypeOK
  <2>2. paused' \in BOOLEAN
    BY <1>2 DEF DailyReset, DriftPauses, ClockTypeOK
  <2>3. lastReset' \in Nat /\ lastReset' = Day(now)'
    BY <1>2, <1>t, DayIs DEF DailyReset, world, Day
  <2>4. ClockTypeOK'
    BY <1>2, <2>1, <2>2, <2>3 DEF DailyReset, ClockTypeOK, world
  <2>5. Known(lastTick)' /\ offset' = None
    BY <1>2 DEF DailyReset, world, Known, MarketOpen
  <2>9. (live /\ MarketOpen(now) => lastTick = now)'
    BY <1>2 DEF DailyReset, world, MarketOpen
  <2> QED
    BY <2>1, <2>3, <2>4, <2>5, <1>n, <2>9
<1>3. CASE Scan
  <2>1. /\ offset' \in Int /\ offset' # None /\ sound' \in BOOLEAN
        /\ sound' => Anchored'
    BY <1>3, InferIs DEF Scan
  <2>2. verdict' \in {"accepted", "rejected"} /\ (verdict' = "accepted" <=> Valid)
    BY <1>3 DEF Scan
  <2>3. ClockTypeOK'
    BY <1>3, <2>1, <2>2 DEF Scan, ClockTypeOK, world, Day
  <2>4. Inferred' = Inferred
    BY <1>3, <2>1 DEF Scan, Infer, Inferred
  <2>5. Valid' <=> Valid
    BY <1>3, <2>4 DEF Scan, world, Valid, Reported, LastOpening, LastTraded, Broker, MaxAge
  <2>6. Known(lastTick)' /\ (lastReset # None => lastReset <= Day(now))'
    BY <1>3 DEF Scan, world, Known, MarketOpen, Day
  <2>9. (live /\ MarketOpen(now) => lastTick = now)'
    BY <1>3 DEF Scan, world, MarketOpen
  <2> QED
    BY <2>1, <2>2, <2>3, <2>5, <2>6, <2>9
<1>4. CASE Resume \/ FeedFreezes \/ UNCHANGED clockVars
  <2>1. UNCHANGED <<calendar, now, lastTick, up, offset, lastReset, verdict, sound, crashes>>
    BY <1>4 DEF Resume, FeedFreezes, clockVars, world
  <2>2. ClockTypeOK'
    BY <1>4, <2>1 DEF Resume, FeedFreezes, clockVars, world, ClockTypeOK, Day
  <2>3. Valid' <=> Valid
    <3>1. Inferred' = Inferred
      BY <2>1 DEF Inferred, Drift, Broker
    <3> QED
      BY <2>1, <3>1 DEF Valid, Reported, LastOpening, LastTraded, Broker, MaxAge
  <2>4. Known(lastTick)' /\ (lastReset # None => lastReset <= Day(now))'
    BY <2>1 DEF Known, MarketOpen, Day
  <2>5. (offset # None /\ sound => Anchored)'
    BY <1>t, <2>1, AnchorStays
  <2>9. (live /\ MarketOpen(now) => lastTick = now)'
    BY <1>4, <2>1 DEF Resume, FeedFreezes, clockVars, world, MarketOpen
  <2> QED
    BY <2>1, <2>2, <2>3, <2>4, <2>5, <2>9
<1>5. CASE Crash
  <2>3. crashes' \in 0..MaxCrashes
    BY <1>5, <1>t DEF Crash, ClockTypeOK, ClockAssumption
  <2>1. ClockTypeOK'
    BY <1>5, <1>t, <2>3 DEF Crash, world, ClockTypeOK
  <2>2. Known(lastTick)' /\ (lastReset # None => lastReset <= Day(now))'
    BY <1>5 DEF Crash, world, Known, MarketOpen, Day
  <2>9. (live /\ MarketOpen(now) => lastTick = now)'
    BY <1>5 DEF Crash, world, MarketOpen
  <2> QED
    BY <1>5, <1>n, <2>1, <2>2, <2>9 DEF Crash
<1>6. CASE TimePasses
  <2>1. now' = now + 1 /\ now' \in Start..End /\ now' \in Nat
    BY <1>6, <1>t DEF TimePasses, ClockTypeOK
  <2>2. lastTick' \in 0..now' /\ Known(lastTick)'
    BY <1>6, <1>t, <2>1 DEF TimePasses, ClockTypeOK, Known, MarketOpen
  <2>3. ClockTypeOK'
    BY <1>6, <1>n, <2>1, <2>2 DEF TimePasses, ClockTypeOK
  <2>4. (lastReset # None => lastReset <= Day(now))'
    <3>1. SUFFICES ASSUME lastReset # None PROVE lastReset <= Day(now')
      BY <1>6 DEF TimePasses, Day
    <3>2. lastReset \in Nat /\ lastReset <= Day(now)
      BY <3>1 DEF ClockTypeOK
    <3>3. Day(now) * 96 <= now /\ now' < Day(now') * 96 + 96 /\ Day(now) \in Nat /\ Day(now') \in Nat
      BY <1>t, <2>1, DayIs
    <3> QED
      BY <1>t, <2>1, <3>2, <3>3
  <2>5. (offset # None /\ sound => Anchored)'
    BY <1>6, <1>t, <2>1, AnchorStays DEF TimePasses
  <2>9. (live /\ MarketOpen(now) => lastTick = now)'
    BY <1>6 DEF TimePasses, MarketOpen
  <2> QED
    BY <1>6, <1>n, <2>2, <2>3, <2>4, <2>5, <2>9 DEF TimePasses
<1>7. CASE FeedThaws
  <2>1. lastTick' \in 0..now' /\ Known(lastTick)'
    BY <1>7, <1>t DEF FeedThaws, ClockTypeOK, Known, MarketOpen
  <2>2. ClockTypeOK'
    BY <1>7, <1>n, <2>1 DEF FeedThaws, ClockTypeOK
  <2>3. (lastReset # None => lastReset <= Day(now))'
    BY <1>7 DEF FeedThaws, Day
  <2>4. (offset # None /\ sound => Anchored)'
    BY <1>7, <1>t, AnchorStays DEF FeedThaws
  <2>9. (live /\ MarketOpen(now) => lastTick = now)'
    BY <1>7 DEF FeedThaws, MarketOpen
  <2> QED
    BY <1>7, <1>n, <2>1, <2>2, <2>3, <2>4, <2>9 DEF FeedThaws
<1> QED
  BY <1>1, <1>2, <1>3, <1>4, <1>5, <1>6, <1>7 DEF ClockNext

(* ClockInv holds in every calendar: its proof does not depend on when the *)
(* clocks change.                                                          *)
THEOREM ClockInvariance == ClockSpec => []ClockInv
<1>1. ClockInv /\ UNCHANGED clockVars => ClockInv'
  <2> SUFFICES ASSUME ClockInv, UNCHANGED clockVars PROVE ClockInv'
    OBVIOUS
  <2>1. ClockTypeOK'
    BY DEF clockVars, ClockInv, ClockTypeOK, Day
  <2>2. Valid' <=> Valid
    <3>1. Inferred' = Inferred
      BY DEF clockVars, Inferred, Drift, Broker
    <3> QED
      BY <3>1 DEF clockVars, Valid, Reported, LastOpening, LastTraded, Broker, MaxAge
  <2>3. (offset # None /\ sound => Anchored)'
    <3>1. now \in Nat
      BY DEF ClockInv, ClockTypeOK, ClockAssumption
    <3> QED
      BY <3>1, AnchorStays DEF clockVars
  <2> QED
    BY <2>1, <2>2, <2>3 DEF clockVars, ClockInv, Known, MarketOpen, Day
<1>2. ClockInit => ClockInv
  BY InitClock
<1>3. ClockInv /\ [ClockNext]_clockVars => ClockInv'
  BY <1>1, NextClock
<1> QED
  BY <1>2, <1>3, PTL DEF ClockSpec

(* The clocks and flags of session_manager.py, mt5_connector.py and        *)
(* engine.py keep their types, and a snapshot is only judged by a running  *)
(* process that has an offset and has reset the day.                       *)
THEOREM ClockTypes == ClockSpec => []ClockTypeOK
<1>1. ClockInv => ClockTypeOK
  BY DEF ClockInv
<1> QED
  BY <1>1, ClockInvariance, PTL

(* What the invariant says of an accepted snapshot: its intraday series    *)
(* are reported truly, hence as young as the validator was told.           *)
LEMMA FreshByInv ==
  ASSUME ClockInv, verdict = "accepted", sound
  PROVE  \E tick \in Nat, at \in Nat:
            /\ Anchors(tick, at) /\ offset # None /\ lastReset = Day(now)
            /\ \A tf \in {"H4", "H1", "M15"}:
                  /\ LastOpening(tf) \in Int
                  /\ Reported(LastOpening(tf)) = LastOpening(tf)
                  /\ now - LastOpening(tf) <= MaxAge(tf)
<1>1. offset # None /\ lastReset = Day(now) /\ Valid /\ ClockTypeOK
  BY DEF ClockInv, ClockTypeOK, ClockAssumption
<1>2. PICK tick \in Nat, at \in Nat: Anchors(tick, at)
  BY <1>1 DEF ClockInv, Anchored
<1>3. ASSUME NEW tf \in {"H4", "H1", "M15"}
      PROVE  /\ LastOpening(tf) \in Int
             /\ Reported(LastOpening(tf)) = LastOpening(tf)
             /\ now - LastOpening(tf) <= MaxAge(tf)
  <2>1. now - Reported(LastOpening(tf)) <= MaxAge(tf)
    BY <1>1 DEF Valid
  <2> QED
    BY <1>1, <1>2, <2>1, ReportedTruly
<1> QED
  BY <1>1, <1>2, <1>3

(* In every calendar in which nothing is traded from 26 hours before the   *)
(* clocks change until four hours after, for all sessions, holidays, times *)
(* of a start, frozen feeds and crashes: what validate_candles accepts by  *)
(* the broker's inferred clock is as fresh by the true time.               *)
THEOREM SnapshotsAreFresh == ClockSpec => []AcceptedIsFresh
<1>1. ClockInv => AcceptedIsFresh
  BY FreshByInv DEF AcceptedIsFresh
<1> QED
  BY <1>1, ClockInvariance, PTL

----------------------------------------------------------------------------
(* A remainder by the length of a day. *)
LEMMA RemainderIs ==
  ASSUME NEW q \in Int, NEW m \in 0..95
  PROVE  (96 * q + m) % 96 = m
  OBVIOUS

(* Between two Asian sessions, get_asian_range means the one that is over. *)
LEMMA AsianSessionIs ==
  ASSUME ClockTypeOK, NEW sinceEnd \in Int,
         sinceEnd = (Tokyo(now) - AsianHours[2]) % DayLength,
         sinceEnd < DayLength - (AsianHours[2] - AsianHours[1])
  PROVE  /\ sinceEnd \in 0..95
         /\ AsianEnd(now) = now - sinceEnd
         /\ AsianStart(now) = now - sinceEnd - (AsianHours[2] - AsianHours[1])
<1> DEFINE x == now + 36
           d == x \div 96
           r == x % 96
           a == AsianHours[1]
           b == AsianHours[2]
<1>1. now \in Nat /\ a \in 0..95 /\ b \in (a + 1)..95
  BY DEF ClockTypeOK, ClockAssumption, DayLength, Hour
<1>2. Tokyo(now) = x /\ x \in Nat
  BY <1>1 DEF Tokyo, Hour
<1>3. d \in Nat /\ r \in 0..95 /\ x = 96 * d + r
  <2>1. d = x \div 96 /\ r = x % 96
    OBVIOUS
  <2> HIDE DEF d, r, x
  <2> QED
    BY <1>2, <2>1
<1>4. AsianDay(now) = IF r < a THEN d - 1 ELSE d
  BY <1>2 DEF AsianDay, Day, DayLength, Hour
<1>5. sinceEnd = (x - b) % 96 /\ sinceEnd < 96 - (b - a)
  BY <1>2 DEF DayLength, Hour
<1>6. /\ AsianEnd(now) = AsianDay(now) * 96 + b - 36
      /\ AsianStart(now) = AsianDay(now) * 96 + a - 36
  BY DEF AsianStart, AsianEnd, DayLength, Hour
<1>7. now = x - 36
  BY <1>1
<1>8. SUFFICES /\ sinceEnd \in 0..95
               /\ AsianEnd(now) = now - sinceEnd
               /\ AsianStart(now) = now - sinceEnd - (b - a)
  OBVIOUS
<1> HIDE DEF d, r, x, a, b
<1>9. CASE r >= b
  <2>1. r - b \in 0..95 /\ x - b = 96 * d + (r - b)
    BY <1>1, <1>3, <1>9
  <2>2. sinceEnd = r - b
    BY <1>3, <1>5, <2>1, RemainderIs
  <2>3. AsianDay(now) = d
    BY <1>1, <1>3, <1>4, <1>9
  <2> QED
    BY <1>1, <1>3, <1>6, <1>7, <2>1, <2>2, <2>3
<1>10. CASE r < b
  <2>1. r - b + 96 \in 0..95 /\ x - b = 96 * (d - 1) + (r - b + 96) /\ d - 1 \in Int
    BY <1>1, <1>3, <1>10
  <2>2. sinceEnd = r - b + 96
    BY <1>5, <2>1, RemainderIs
  <2>3. r < a
    BY <1>1, <1>3, <1>5, <2>2
  <2>4. AsianDay(now) = d - 1
    BY <1>4, <2>3
  <2> QED
    BY <1>1, <1>3, <1>6, <1>7, <2>1, <2>2, <2>4
<1> QED
  BY <1>1, <1>3, <1>9, <1>10

(* A bar in which gold was traded is reported truly, or both it and what   *)
(* is reported of it lie more than a day back.                             *)
LEMMA TradedBar ==
  ASSUME ClockTypeOK, NEW tick \in Nat, NEW at \in Nat,
         Anchors(tick, at), offset # None, lastReset = Day(now),
         NEW bar \in Int, bar <= now, NEW t \in bar..(bar + 3), MarketOpen(t)
  PROVE  Reported(bar) \in Int /\ (Reported(bar) = bar \/ (bar < now - 96 /\ Reported(bar) < now - 96))
<1>1. calendar \in Calendars /\ now \in Nat /\ now <= End /\ Changes \in Nat /\ End \in Nat
  BY DEF ClockTypeOK, ClockAssumption
<1>2. Reported(bar) = Broker(bar) + Hour * offset
  BY DEF Reported, Inferred
<1>3. t + 104 < Changes \/ t >= Changes + 16
  BY <1>1, Calm DEF Hour
<1>4. tick <= now
  BY <1>1 DEF Anchors
<1>5. CASE bar < Changes <=> tick < Changes
  BY <1>1, <1>2, <1>5, SameSide
<1>6. CASE ~(bar < Changes <=> tick < Changes)
  <2>1. ~(t >= Changes + 16)
    BY <1>1, <1>6, NoTradeAcross
  <2>2. t + 104 < Changes /\ tick >= Changes
    BY <1>1, <1>3, <1>6, <2>1
  <2>3. Reported(bar) \in (bar - 8)..(bar + 8)
    BY <1>1, <1>2, OtherSide
  <2> QED
    BY <1>1, <1>4, <2>2, <2>3
<1> QED
  BY <1>5, <1>6

(* The bars get_asian_range picks are those of the session.                *)
LEMMA WholeByInv == ASSUME ClockInv PROVE AsianRangeWhole
<1> DEFINE length == AsianHours[2] - AsianHours[1]
           sinceEnd == (Tokyo(now) - AsianHours[2]) % DayLength
           end == now - sinceEnd
           Whole == {bar \in (end - length)..end:
                       Broker(bar) % Hour = 0 /\ \E t \in bar..(bar + Hour - 1): MarketOpen(t)}
<1>1. SUFFICES ASSUME verdict = "accepted", sound, sinceEnd \in MaxAge("H1")..(DayLength - length - 1)
               PROVE  AsianBars = Whole
  BY DEF AsianRangeWhole
<1>2. PICK tick \in Nat, at \in Nat:
        /\ Anchors(tick, at) /\ offset # None /\ lastReset = Day(now)
        /\ LastOpening("H1") \in Int
        /\ now - LastOpening("H1") <= MaxAge("H1")
  BY <1>1, FreshByInv
<1>3. ClockTypeOK /\ now \in Nat
  BY DEF ClockInv, ClockTypeOK, ClockAssumption
<1>4. LastOpening("H1") <= now
  BY <1>3, LastOpeningIs
<1>5. length \in 1..95 /\ MaxAge("H1") \in Nat
  BY DEF ClockAssumption, DayLength, Hour, MaxAge, BarLength
<1>6. sinceEnd \in Int /\ sinceEnd < DayLength - length
  <2> HIDE DEF length, sinceEnd
  <2> QED
    BY <1>1, <1>5 DEF DayLength, Hour
<1>7. sinceEnd \in 0..95 /\ AsianEnd(now) = end /\ AsianStart(now) = end - length
  BY <1>3, <1>6, AsianSessionIs
<1>8. end <= LastOpening("H1") /\ end \in Int /\ end <= now /\ end - length > now - 96
  <2> HIDE DEF length, sinceEnd
  <2> QED
    BY <1>1, <1>2, <1>3, <1>5, <1>6, <1>7 DEF DayLength, Hour
<1> HIDE DEF length, sinceEnd, end
<1>9. ASSUME NEW bar \in AsianBars PROVE bar \in Whole
  <2>1. PICK t \in bar..(bar + Hour - 1): MarketOpen(t)
    BY DEF AsianBars
  <2>2. /\ bar \in Int /\ bar <= LastOpening("H1") /\ Broker(bar) % Hour = 0
        /\ Reported(bar) \in (end - length)..end
    BY <1>5, <1>7, <1>8 DEF AsianBars, DayLength, Hour
  <2>3. bar <= now /\ t \in bar..(bar + 3)
    BY <1>2, <1>3, <1>4, <2>1, <2>2 DEF Hour
  <2>4. Reported(bar) = bar \/ Reported(bar) < now - 96
    BY <1>2, <1>3, <2>1, <2>2, <2>3, TradedBar
  <2>5. Reported(bar) = bar
    BY <1>3, <1>5, <1>8, <2>2, <2>4
  <2> QED
    BY <2>1, <2>2, <2>5
<1>10. ASSUME NEW bar \in Whole PROVE bar \in AsianBars
  <2>1. PICK t \in bar..(bar + Hour - 1): MarketOpen(t)
    OBVIOUS
  <2>2. bar \in (end - length)..end /\ bar \in Int /\ Broker(bar) % Hour = 0
    BY <1>5, <1>8
  <2>3. bar <= now /\ t \in bar..(bar + 3)
    BY <1>3, <1>8, <2>1, <2>2 DEF Hour
  <2>4. Reported(bar) = bar \/ bar < now - 96
    BY <1>2, <1>3, <2>1, <2>2, <2>3, TradedBar
  <2>5. Reported(bar) = bar
    BY <1>3, <1>5, <1>8, <2>2, <2>4
  <2>6. /\ bar \in AsianStart(now) - DayLength .. AsianEnd(now) + DayLength
        /\ bar <= LastOpening("H1") /\ Reported(bar) \in AsianStart(now)..AsianEnd(now)
    BY <1>2, <1>5, <1>7, <1>8, <2>2, <2>5 DEF DayLength, Hour
  <2> QED
    BY <2>1, <2>2, <2>6 DEF AsianBars
<1> QED
  BY <1>9, <1>10

(* In every such calendar get_asian_range gives the sweep setup the whole  *)
(* range of the last Asian session: the true bars of it that were traded,  *)
(* and no others.                                                          *)
THEOREM RangeIsWhole == ClockSpec => []AsianRangeWhole
<1>1. ClockInv => AsianRangeWhole
  BY WholeByInv
<1> QED
  BY <1>1, ClockInvariance, PTL

----------------------------------------------------------------------------
(* What follows a day without trading                                      *)

(* An instant is its day and what is left of it. *)
LEMMA DayOf ==
  ASSUME NEW x \in Int
  PROVE  Day(x) \in Int /\ x % 96 \in 0..95 /\ x % 96 = x - 96 * Day(x)
<1>1. x \div 96 \in Int /\ x % 96 = x - 96 * (x \div 96)
  OBVIOUS
<1>2. x % 96 \in 0..95
  OBVIOUS
<1> QED
  BY <1>1, <1>2 DEF Day, DayLength, Hour

(* The same as bounds. *)
LEMMA DayBounds ==
  ASSUME NEW x \in Int
  PROVE  Day(x) \in Int /\ 96 * Day(x) <= x /\ x < 96 * Day(x) + 96
<1>1. Day(x) \in Int /\ x % 96 \in 0..95 /\ x % 96 = x - 96 * Day(x)
  BY DayOf
<1> QED
  BY <1>1

(* The broker's clock runs evenly but for two hours at the change.         *)
LEMMA ClockRuns ==
  ASSUME calendar \in Calendars, NEW t \in Int, NEW u \in Int
  PROVE  /\ Broker(t) \in Int /\ Broker(u) \in Int
         /\ Broker(t) - Broker(u) \in (t - u - 8)..(t - u + 8)
         /\ (t < Changes <=> u < Changes) => Broker(t) - Broker(u) = t - u
<1>1. PICK z \in -12..14: /\ Zone(calendar.broker, t) = 4 * z
                          /\ z = calendar.broker[IF t < Changes THEN "before" ELSE "after"]
  BY ZoneIs
<1>2. PICK y \in -12..14: /\ Zone(calendar.broker, u) = 4 * y
                          /\ y = calendar.broker[IF u < Changes THEN "before" ELSE "after"]
  BY ZoneIs
<1>3. z - y \in -2..2 /\ ((t < Changes <=> u < Changes) => z = y)
  BY <1>1, <1>2, ChangeAssumption DEF ChangeAssumption
<1> QED
  BY <1>1, <1>2, <1>3 DEF Broker

(* Two consequences that are used often. *)
LEMMA BrokerIsInt ==
  ASSUME calendar \in Calendars, NEW t \in Int
  PROVE  Broker(t) \in Int
  BY ClockRuns

LEMMA RunsEvenly ==
  ASSUME calendar \in Calendars, NEW t \in Int, NEW u \in Int, t < Changes <=> u < Changes
  PROVE  Broker(t) - Broker(u) = t - u
  BY ClockRuns

(* The bar before the one that is forming opens a bar's length before it.  *)
LEMMA BarBefore ==
  ASSUME NEW w \in Int, NEW b \in {1, 4, 16}, NEW k \in 1..b
  PROVE  (w - (w % b) - k) % b = b - k
<1>1. CASE b = 1
  BY <1>1
<1>2. CASE b = 4
  BY <1>2
<1>3. CASE b = 16
  BY <1>3
<1> QED
  BY <1>1, <1>2, <1>3

(* While gold is traded the age of a bar is read off the broker's clock.   *)
LEMMA AgeByWallClock ==
  ASSUME ClockInv, NEW tick \in Nat, NEW at \in Nat, Anchors(tick, at), offset # None,
         lastReset = Day(now), MarketOpen(now), NEW bar \in Int
  PROVE  now - Reported(bar) = Broker(now) - Broker(bar)
<1>1. ClockTypeOK /\ calendar \in Calendars /\ now \in Nat /\ Changes \in Nat
  BY DEF ClockInv, ClockTypeOK, ClockAssumption
<1>2. tick <= now
  BY <1>1 DEF Anchors
<1>3. now < Changes <=> tick < Changes
  BY <1>1, <1>2, NoTradeAcross
<1>4. Broker(now) + Hour * offset = now
  BY <1>1, <1>3, SameSide
<1>5. Reported(bar) = Broker(bar) + Hour * offset
  BY DEF Reported, Inferred
<1>6. Broker(bar) \in Int /\ Broker(now) \in Int
  BY <1>1, BrokerIsInt
<1>7. Hour * offset = now - Broker(now)
  BY <1>1, <1>4, <1>6 DEF Anchors, Hour, ClockInv, ClockTypeOK
<1> QED
  BY <1>1, <1>5, <1>6, <1>7

(* Gold was traded in the bar before the one that is forming.              *)
TradedJustBefore(tf) ==
    LET forming == now - (Broker(now) % BarLength[tf])
    IN \E t \in (forming - BarLength[tf])..(forming - 1): MarketOpen(t)

(* An instant of a session: gold is traded and has been for a while, and   *)
(* the broker's midnight is more than two hours away.                      *)
InSession ==
    /\ now > 2 * DayLength
    /\ Broker(now) % DayLength \in (2 * Hour + 1)..(22 * Hour)
    /\ MarketOpen(now)
    /\ \A tf \in {"H4", "H1", "M15"}: TradedJustBefore(tf)

(* In a session the intraday series are never too old.                     *)
LEMMA IntradayYoung ==
  ASSUME ClockInv, NEW tick \in Nat, NEW at \in Nat, Anchors(tick, at), offset # None,
         lastReset = Day(now), live, InSession, NEW tf \in {"H4", "H1", "M15"}
  PROVE  now - Reported(LastOpening(tf)) <= MaxAge(tf)
<1> DEFINE b == BarLength[tf]
           r == Broker(now) % b
           forming == now - r
           trade == LastTraded(forming)
           q == Broker(trade) % b
           bar == trade - q
<1>1. ClockTypeOK /\ calendar \in Calendars /\ now \in Nat /\ now <= End /\ Changes \in Nat /\ End \in Nat
  BY DEF ClockInv, ClockTypeOK, ClockAssumption
<1>2. b \in {1, 4, 16} /\ MaxAge(tf) >= 2 * b /\ MarketOpen(now) /\ now >= 192
  BY <1>1 DEF BarLength, Hour, MaxAge, ClockAssumption, InSession, DayLength
<1>3. lastTick = now /\ Broker(now) \in Int
  BY <1>1, <1>2, BrokerIsInt DEF ClockInv
<1>4. r \in 0..(b - 1)
  BY <1>2, <1>3, Remainder
<1>5. LastOpening(tf) = bar
  BY <1>3 DEF LastOpening
<1>6. PICK s \in (forming - b)..(forming - 1): MarketOpen(s)
  BY DEF InSession, TradedJustBefore
<1>7. b \in Nat /\ forming \in Int
  BY <1>1, <1>2, <1>4
<1>8. s \in 0..(forming - 1) /\ s >= now - 31 /\ forming \in -DayLength..End
  <2> HIDE DEF b, r
  <2> QED
    BY <1>1, <1>2, <1>4, <1>6, <1>7 DEF DayLength, Hour
<1>9. trade \in Nat /\ s <= trade /\ trade < forming
  <2>1. /\ trade \in Nat /\ (trade = 0 \/ trade < forming) /\ s <= trade
    <3> HIDE DEF forming
    <3> QED
      BY <1>1, <1>6, <1>8, LastTradedIs
  <2> HIDE DEF trade, forming
  <2> QED
    BY <2>1, <1>7, <1>8
<1> HIDE DEF trade
<1>10. Broker(trade) \in Int /\ q \in 0..(b - 1)
  <2>1. Broker(trade) \in Int
    BY <1>1, <1>9, BrokerIsInt
  <2> HIDE DEF b
  <2> QED
    BY <1>2, <2>1, Remainder
<1> HIDE DEF b, r, forming, q
<1>11. bar \in Int /\ bar >= s - 15 /\ bar <= now
  BY <1>1, <1>2, <1>3, <1>4, <1>7, <1>8, <1>9, <1>10 DEF forming
<1>12. now < Changes \/ s >= Changes + 16
  <2>1. s + 104 < Changes \/ s >= Changes + 16
    BY <1>1, <1>6, <1>7, <1>8, <1>9, Calm DEF Hour
  <2>2. now + 104 < Changes \/ now >= Changes + 16
    BY <1>1, <1>2, Calm DEF Hour
  <2> QED
    BY <1>1, <1>8, <2>1, <2>2
<1>13. /\ Broker(now) - Broker(bar) = now - bar
       /\ Broker(now) - Broker(trade) = now - trade
  <2>1. now < Changes <=> bar < Changes
    BY <1>1, <1>11, <1>12
  <2>2. now < Changes <=> trade < Changes
    <3>1. trade \in Nat /\ s \in Nat /\ s <= trade /\ trade <= now
      BY <1>1, <1>3, <1>4, <1>7, <1>8, <1>9, <1>2 DEF forming
    <3> QED
      BY <1>1, <1>12, <3>1
  <2> HIDE DEF bar
  <2>3. Broker(now) - Broker(bar) = now - bar
    BY <1>1, <1>11, <2>1, RunsEvenly
  <2>4. Broker(now) - Broker(trade) = now - trade
    BY <1>1, <1>9, <2>2, RunsEvenly
  <2> QED
    BY <2>3, <2>4
<1>14. q = b - (forming - trade)
  <2> DEFINE k == forming - trade
  <2>1. k \in 1..b
    BY <1>2, <1>6, <1>7, <1>8, <1>9
  <2>2. Broker(trade) = Broker(now) - r - k
    <3>1. r \in Int
      BY <1>2, <1>4
    <3>2. Broker(now) - Broker(trade) = now - trade
      BY <1>13
    <3> QED
      BY <1>1, <1>3, <1>9, <1>10, <3>1, <3>2 DEF forming
  <2> HIDE DEF k
  <2>3. (Broker(now) - r - k) % b = b - k
    BY <1>2, <1>3, <2>1, BarBefore DEF r
  <2> QED
    BY <2>2, <2>3 DEF q, k
<1>15. now - bar <= 2 * b
  BY <1>1, <1>2, <1>4, <1>7, <1>9, <1>10, <1>14 DEF forming
<1>16. now - Reported(bar) = Broker(now) - Broker(bar)
  <2> HIDE DEF bar
  <2> QED
    BY <1>2, <1>11, AgeByWallClock
<1>17. MaxAge(tf) \in Nat
  BY DEF MaxAge, BarLength, Hour, ClockAssumption
<1> HIDE DEF bar
<1>18. Reported(LastOpening(tf)) = Reported(bar)
  BY <1>5
<1> QED
  BY <1>2, <1>7, <1>11, <1>13, <1>15, <1>16, <1>17, <1>18, <1>1

(* The daily series is too old exactly if its last bar is that of the day  *)
(* before yesterday or of an earlier one: e is the day of that bar by the  *)
(* broker's calendar, d is today.                                          *)
LEMMA DailyAge ==
  ASSUME ClockInv, NEW tick \in Nat, NEW at \in Nat, Anchors(tick, at), offset # None,
         lastReset = Day(now), live, InSession
  PROVE  LET forming == now - (Broker(now) % DayLength)
             trade == LastTraded(forming)
         IN now - Reported(LastOpening("D1")) <= MaxAge("D1")
               <=> Day(Broker(trade)) >= Day(Broker(now)) - 1
<1> DEFINE w == Broker(now)
           p == w % 96
           d == Day(w)
           forming == now - p
           trade == LastTraded(forming)
           e == Day(Broker(trade))
           q == Broker(trade) % 96
           bar == trade - q
<1>1. ClockTypeOK /\ calendar \in Calendars /\ now \in Nat /\ now <= End /\ End \in Nat
  BY DEF ClockInv, ClockTypeOK, ClockAssumption
<1>2. MarketOpen(now) /\ now > 192 /\ p \in 9..88 /\ lastTick = now
  BY DEF InSession, DayLength, Hour, ClockInv
<1>3. w \in Int /\ d \in Int /\ p = w - 96 * d
  <2>1. w \in Int
    BY <1>1, BrokerIsInt
  <2> HIDE DEF w
  <2> QED
    BY <2>1, DayOf
<1>4. forming \in -DayLength..End
  BY <1>1, <1>2 DEF DayLength, Hour
<1>5. trade \in Nat
  <2> HIDE DEF forming
  <2> QED
    BY <1>1, <1>4, LastTradedIs
<1>6. Broker(trade) \in Int /\ e \in Int /\ q \in 0..95 /\ q = Broker(trade) - 96 * e
  <2> HIDE DEF trade
  <2> QED
    <3> DEFINE v == Broker(trade)
    <3>1. v \in Int
      BY <1>1, <1>5, BrokerIsInt
    <3> HIDE DEF v
    <3>2. Day(v) \in Int /\ v % 96 \in 0..95 /\ v % 96 = v - 96 * Day(v)
      BY <3>1, DayOf
    <3> QED
      BY <3>1, <3>2 DEF v
<1>7. bar \in Int
  BY <1>5, <1>6
<1>8. LastOpening("D1") = bar /\ MaxAge("D1") = 192
  BY <1>2 DEF LastOpening, BarLength, MaxAge, DayLength, Hour, ClockAssumption
<1>9. now - Reported(bar) = w - Broker(bar)
  <2> HIDE DEF bar
  <2> QED
    BY <1>2, <1>7, AgeByWallClock
<1>10. Broker(bar) \in Int /\ Broker(trade) - Broker(bar) \in (q - 8)..(q + 8)
  <2>1. trade - bar = q
    BY <1>5, <1>6
  <2> HIDE DEF bar, trade, q
  <2> QED
    <3>1. Broker(bar) \in Int /\ Broker(trade) - Broker(bar) \in (trade - bar - 8)..(trade - bar + 8)
      <4>1. bar \in Int /\ trade \in Int
        BY <1>5, <1>7
      <4> QED
        BY <1>1, <4>1, ClockRuns
    <3> QED
      BY <2>1, <3>1
<1>11. SUFFICES now - Reported(bar) <= 192 <=> e >= d - 1
  BY <1>8 DEF DayLength, Hour
<1> HIDE DEF w, p, d, trade, e, q, bar
<1> QED
  BY <1>2, <1>3, <1>6, <1>9, <1>10

(* The broker's yesterday had a trade exactly if the last trade before its *)
(* today was not earlier.                                                  *)
LEMMA TradedYesterday ==
  ASSUME ClockInv, NEW tick \in Nat, NEW at \in Nat, Anchors(tick, at),
         lastReset = Day(now), InSession
  PROVE  LET forming == now - (Broker(now) % DayLength)
             trade == LastTraded(forming)
         IN Day(Broker(trade)) >= Day(Broker(now)) - 1
               <=> \E t \in now - 2 * DayLength .. now:
                      Day(Broker(t)) = Day(Broker(now)) - 1 /\ MarketOpen(t)
<1> DEFINE w == Broker(now)
           p == w % 96
           d == Day(w)
           forming == now - p
           trade == LastTraded(forming)
           e == Day(Broker(trade))
<1>1. ClockTypeOK /\ calendar \in Calendars /\ now \in Nat /\ now <= End /\ End \in Nat /\ Changes \in Nat
  BY DEF ClockInv, ClockTypeOK, ClockAssumption
<1>2. MarketOpen(now) /\ now > 192 /\ p \in 9..88
  BY DEF InSession, DayLength, Hour
<1>3. w \in Int /\ d \in Int /\ p = w - 96 * d
  <2>1. w \in Int
    BY <1>1, BrokerIsInt
  <2> HIDE DEF w
  <2> QED
    BY <2>1, DayOf
<1>4. forming \in -DayLength..End /\ forming \in Int
  BY <1>1, <1>2 DEF DayLength, Hour
<1>5. /\ trade \in Nat /\ Known(trade) /\ (trade = 0 \/ trade < forming)
      /\ \A u \in 0..(forming - 1): MarketOpen(u) => u <= trade
  <2> HIDE DEF forming
  <2> QED
    BY <1>1, <1>4, LastTradedIs
<1>6. forming = now - p
  OBVIOUS
<1>7. now + 104 < Changes \/ now >= Changes + 16
  BY <1>1, <1>2, Calm DEF Hour
<1> HIDE DEF trade, forming
(* A trade before today is on this side of the change, or long ago. *)
<1>8. ASSUME NEW t \in Nat, t <= now, Known(t)
      PROVE  \/ Broker(t) = w - (now - t)
             \/ /\ t < now - 120 /\ Changes <= now /\ t < Changes
                /\ Broker(t) \in (w - (now - t) - 8)..(w - (now - t) + 8)
  <2>1. t + 104 < Changes \/ t >= Changes + 16
    BY <1>1, <1>8, Calm DEF Known, Hour
  <2>2. CASE t < Changes <=> now < Changes
    <3>1. Broker(now) - Broker(t) = now - t /\ Broker(t) \in Int
      BY <1>1, <2>2, RunsEvenly, BrokerIsInt
    <3> QED
      BY <1>1, <1>3, <3>1 DEF w
  <2>3. CASE ~(t < Changes <=> now < Changes)
    <3>1. Broker(now) - Broker(t) \in (now - t - 8)..(now - t + 8) /\ Broker(t) \in Int
      <4>1. now \in Int /\ t \in Int
        BY <1>1
      <4> QED
        BY <1>1, <4>1, ClockRuns
    <3>2. t < now - 120 /\ Changes <= now /\ t < Changes
      BY <1>1, <1>7, <1>8, <2>1, <2>3
    <3> QED
      BY <1>1, <1>3, <3>1, <3>2 DEF w
  <2> QED
    BY <2>2, <2>3
<1>9. e \in Int /\ Broker(trade) \in Int /\ Broker(trade) >= 96 * e /\ Broker(trade) < 96 * e + 96
  <2>1. Broker(trade) \in Int
    BY <1>1, <1>5, BrokerIsInt
  <2> QED
    BY <2>1, DayBounds
<1> HIDE DEF w, p, d, e
<1>10. ASSUME e >= d - 1
       PROVE  trade \in (now - 192)..now /\ MarketOpen(trade) /\ e = d - 1
  <2>1. trade <= now
    BY <1>1, <1>2, <1>4, <1>5, <1>6
  <2>2. trade >= now - 192
    <3>1. Broker(trade) >= 96 * (d - 1)
      BY <1>3, <1>9, <1>10
    <3>2. Broker(trade) <= w - (now - trade) + 8
      BY <1>1, <1>3, <1>5, <1>8, <2>1
    <3> QED
      BY <1>1, <1>2, <1>3, <1>5, <1>9, <3>1, <3>2
  <2>3. trade < forming
    BY <1>1, <1>2, <1>5, <2>2
  <2>4. e = d - 1
    BY <1>1, <1>2, <1>3, <1>5, <1>6, <1>8, <1>9, <1>10, <2>1, <2>3
  <2> QED
    BY <1>1, <1>2, <1>5, <2>1, <2>2, <2>4 DEF Known
<1>11. ASSUME NEW t \in (now - 192)..now, Day(Broker(t)) = d - 1, MarketOpen(t)
       PROVE  e >= d - 1
  <2>1. t \in Nat /\ t <= now /\ Known(t) /\ Broker(t) \in Int
    <3>1. t \in Nat /\ t <= now
      BY <1>1, <1>2
    <3> QED
      BY <1>1, <1>11, <3>1, BrokerIsInt DEF Known
  <2>2. Broker(t) >= 96 * (d - 1) /\ Broker(t) < 96 * d
    <3>1. 96 * Day(Broker(t)) <= Broker(t) /\ Broker(t) < 96 * Day(Broker(t)) + 96
      BY <2>1, DayBounds
    <3> QED
      BY <1>3, <1>11, <3>1
  <2>3. t < forming
    BY <1>1, <1>2, <1>3, <1>6, <1>8, <2>1, <2>2
  <2>4. t <= trade /\ trade <= now
    BY <1>1, <1>2, <1>4, <1>5, <1>6, <1>11, <2>1, <2>3
  <2>5. Broker(trade) >= Broker(t)
    <3>1. CASE t < Changes <=> trade < Changes
      <4>1. Broker(trade) - Broker(t) = trade - t
        BY <1>1, <1>5, <2>1, <3>1, RunsEvenly
      <4> QED
        BY <1>5, <1>9, <2>1, <2>4, <4>1
    <3>2. CASE ~(t < Changes <=> trade < Changes)
      <4>1. Broker(trade) - Broker(t) \in (trade - t - 8)..(trade - t + 8)
        BY <1>1, <1>5, <2>1, ClockRuns
      <4>2. t + 104 < Changes \/ t >= Changes + 16
        BY <1>1, <1>11, <2>1, Calm DEF Hour
      <4>3. trade >= t + 8
        BY <1>1, <1>5, <2>1, <2>4, <3>2, <4>2
      <4> QED
        BY <1>5, <1>9, <2>1, <4>1, <4>3
    <3> QED
      BY <3>1, <3>2
  <2> QED
    BY <1>3, <1>9, <2>1, <2>2, <2>5
<1>12. e >= d - 1 <=> \E t \in (now - 192)..now: Day(Broker(t)) = d - 1 /\ MarketOpen(t)
  BY <1>10, <1>11 DEF e
<1> QED
  BY <1>12 DEF e, d, w, trade, forming, p, DayLength, Hour

(* At every instant of a session, with ticks arriving: a snapshot is       *)
(* turned down exactly on a day whose day before was without trading.      *)
THEOREM RejectionIsExact == ClockSpec => [](InSession => RejectedAfterGap)
<1>1. ASSUME ClockInv, InSession PROVE RejectedAfterGap
  <2>1. SUFFICES ASSUME verdict # None, live, sound
                 PROVE  verdict = "rejected" <=>
                          ~ \E t \in now - 2 * DayLength .. now:
                               Day(Broker(t)) = Day(Broker(now)) - 1 /\ MarketOpen(t)
    BY DEF RejectedAfterGap
  <2>2. /\ offset # None /\ lastReset = Day(now)
        /\ verdict \in {"accepted", "rejected"}
        /\ verdict = "accepted" <=> Valid
    BY <1>1, <2>1 DEF ClockInv, ClockTypeOK
  <2>3. PICK tick \in Nat, at \in Nat: Anchors(tick, at)
    BY <1>1, <2>1, <2>2 DEF ClockInv, Anchored
  <2>4. \A tf \in {"H4", "H1", "M15"}: now - Reported(LastOpening(tf)) <= MaxAge(tf)
    BY <1>1, <2>1, <2>2, <2>3, IntradayYoung
  <2>5. Valid <=> now - Reported(LastOpening("D1")) <= MaxAge("D1")
    BY <2>4 DEF Valid
  <2>6. Valid <=> \E t \in now - 2 * DayLength .. now:
                     Day(Broker(t)) = Day(Broker(now)) - 1 /\ MarketOpen(t)
    BY <1>1, <2>1, <2>2, <2>3, <2>5, DailyAge, TradedYesterday
  <2> QED
    BY <2>2, <2>6
<1> QED
  BY <1>1, ClockInvariance, PTL
=============================================================================
