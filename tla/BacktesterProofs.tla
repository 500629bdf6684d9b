-------------------------- MODULE BacktesterProofs --------------------------
(***************************************************************************)
(* Proofs about Backtester, for all prices, costs, lots and distances: its *)
(* stops only tighten, what remains of a partial close does not lose, and  *)
(* no lot is closed that was not opened.                                   *)
(***************************************************************************)
EXTENDS Backtester, TLAPS

USE BacktestAssumption DEF BacktestAssumption

----------------------------------------------------------------------------
(* A position in a bar *)

LEMMA PricesAreNumbers ==
  /\ \A x \in Prices: x \in Nat /\ x \in Int
  /\ \A x \in Costs: x \in Nat /\ x \in Int
<1>1. Prices \subseteq Nat /\ Costs \subseteq Nat
  BY BacktestAssumption DEF BacktestAssumption
<1> QED
  BY <1>1

(* The two tables for partial closes fit together *)
LEMMA Tables ==
  \A n \in 1..10: /\ HalfOf[n] \in 0..5 /\ RestOf[n] \in 1..10
                  /\ HalfOf[n] + RestOf[n] <= n \/ HalfOf[n] = 0
<1> SUFFICES ASSUME NEW n \in 1..10
             PROVE  /\ HalfOf[n] \in 0..5 /\ RestOf[n] \in 1..10
                    /\ HalfOf[n] + RestOf[n] <= n \/ HalfOf[n] = 0
  OBVIOUS
<1>1. n = 1 \/ n = 2 \/ n = 3 \/ n = 4 \/ n = 5 \/ n = 6 \/ n = 7 \/ n = 8 \/ n = 9 \/ n = 10
  OBVIOUS
<1> QED
  BY <1>1 DEF HalfOf, RestOf

LEMMA Product == ASSUME NEW m \in Nat, NEW n \in Nat PROVE m * n \in Nat
  OBVIOUS

LEMMA IntProduct == ASSUME NEW m \in Int, NEW n \in Int PROVE m * n \in Int
  OBVIOUS

LEMMA PositionFields ==
  ASSUME NEW p \in Positions
  PROVE  /\ p.long \in BOOLEAN /\ p.sl \in Int /\ p.tp \in Int /\ p.lot \in 1..10
         /\ p.at \in Nat /\ p.entry \in Int /\ p.risk \in Nat \ {0}
         /\ p.partial \in BOOLEAN /\ p.trailing \in BOOLEAN
BY DEF Positions

(* The prices a position is compared with *)
LEMMA Levels ==
  ASSUME NEW p \in Positions, bar \in Bars
  PROVE  /\ Best(p, bar) \in Int /\ Worst(p, bar) \in Int /\ bar.close \in Int
         /\ TriggerBe(p) \in Int /\ Gain(p, TriggerBe(p)) >= 0
<1>0. bar.lo \in Prices /\ bar.hi \in Prices /\ bar.close \in Prices
  BY DEF Bars
<1>1. bar.lo \in Int /\ bar.hi \in Int /\ bar.close \in Int
  BY <1>0, PricesAreNumbers
<1>2. Best(p, bar) \in Int /\ Worst(p, bar) \in Int
  BY <1>1 DEF Best, Worst
<1>3. MoveBeAtR * p.risk \in Nat /\ p.entry \in Int
  BY Product, PositionFields
<1>4. PICK x \in Nat: x = MoveBeAtR * p.risk
  BY <1>3
<1>5. TriggerBe(p) = p.entry + Toward(p, x)
  BY <1>4 DEF TriggerBe
<1>6. TriggerBe(p) \in Int /\ Gain(p, TriggerBe(p)) >= 0
  BY <1>3, <1>4, <1>5 DEF Toward, Gain
<1> QED
  BY <1>1, <1>2, <1>6

(* A partial close takes something, once, and leaves the rest *)
LEMMA PartialFits ==
  ASSUME NEW p \in Positions
  PROVE  /\ PartialLots(p) \in 0..5
         /\ PartialLots(p) > 0 =>
              /\ ~p.partial /\ PartialLots(p) \in 1..10 /\ RestOf[p.lot] \in 1..10
              /\ PartialLots(p) + RestOf[p.lot] <= p.lot
<1>1. p.lot \in 1..10
  BY PositionFields
<1>2. HalfOf[p.lot] \in 0..5 /\ RestOf[p.lot] \in 1..10
  BY <1>1, Tables
<1>3. HalfOf[p.lot] # 0 => HalfOf[p.lot] + RestOf[p.lot] <= p.lot
  BY <1>1, Tables
<1> QED
  BY <1>1, <1>2, <1>3 DEF PartialLots, PartialDue

(* A later position of the same trade: same side, entry and target *)
SameTrade(p, q) == q.long = p.long /\ q.entry = p.entry /\ q.tp = p.tp /\ q.risk = p.risk

LEMMA AfterPartialIs ==
  ASSUME NEW p \in Positions
  PROVE  LET q == AfterPartial(p)
         IN  /\ q \in Positions /\ SameTrade(p, q)
             /\ PartialLots(p) > 0 =>
                  q.lot = RestOf[p.lot] /\ q.sl = p.entry /\ q.partial = TRUE
             /\ PartialLots(p) = 0 => q.lot = p.lot /\ q.sl = p.sl
             /\ p.partial => q.partial
<1> DEFINE q == AfterPartial(p)
<1>1. CASE PartialLots(p) > 0
  <2>1. q = [p EXCEPT !.lot = RestOf[p.lot], !.sl = p.entry, !.partial = TRUE]
    BY <1>1 DEF AfterPartial, Positions
  <2>2. RestOf[p.lot] \in 1..10 /\ p.entry \in Int
    BY <1>1, PartialFits, PositionFields
  <2>3. q \in Positions
    BY <2>1, <2>2 DEF Positions
  <2>4. /\ q.lot = RestOf[p.lot] /\ q.sl = p.entry /\ q.partial = TRUE
        /\ SameTrade(p, q)
    BY <2>1 DEF Positions, SameTrade
  <2>5. PartialLots(p) # 0
    BY <1>1, PartialFits
  <2> HIDE DEF q
  <2> QED
    BY <2>3, <2>4, <2>5 DEF q
<1>2. CASE ~(PartialLots(p) > 0)
  <2>1. q = [p EXCEPT !.partial = p.partial \/ PartialDue(p)]
    BY <1>2 DEF AfterPartial, Positions
  <2>2. (p.partial \/ PartialDue(p)) \in BOOLEAN
    BY PositionFields DEF PartialDue, Reaches
  <2>3. q \in Positions
    BY <2>1, <2>2 DEF Positions
  <2>4. /\ q.lot = p.lot /\ q.sl = p.sl /\ q.partial = (p.partial \/ PartialDue(p))
        /\ SameTrade(p, q)
    BY <2>1 DEF Positions, SameTrade
  <2> HIDE DEF q
  <2> QED
    BY <1>2, <2>3, <2>4 DEF q
<1> QED
  BY <1>1, <1>2

(* The trailing stop goes toward the target only *)
LEMMA TrailedIs ==
  ASSUME NEW p \in Positions, bar \in Bars
  PROVE  LET q == Trailed(p)
         IN  /\ q \in Positions /\ SameTrade(p, q)
             /\ q.lot = p.lot /\ q.partial = p.partial
             /\ Toward(p, q.sl) >= Toward(p, p.sl)
<1> DEFINE active == p.trailing \/ Reaches(p, bar, p.entry + Toward(p, TrailAtR * p.risk))
           stop == Best(p, bar) - Toward(p, TrailDistance)
           sl == IF active /\ Toward(p, stop) > Toward(p, p.sl) THEN stop ELSE p.sl
           q == Trailed(p)
<1>1. stop \in Int /\ p.sl \in Int /\ active \in BOOLEAN
  BY Levels, PositionFields DEF Toward, Reaches
<1>2. sl \in Int /\ Toward(p, sl) >= Toward(p, p.sl)
  BY <1>1 DEF Toward
<1>3. q = [p EXCEPT !.trailing = active, !.sl = sl]
  BY DEF Trailed, Positions
<1> HIDE DEF active, stop, sl
<1>4. q \in Positions
  BY <1>1, <1>2, <1>3 DEF Positions
<1>5. q.sl = sl /\ q.lot = p.lot /\ q.partial = p.partial /\ SameTrade(p, q)
  BY <1>3 DEF Positions, SameTrade
<1> HIDE DEF q
<1> QED
  BY <1>2, <1>4, <1>5 DEF q

(* What a bar makes of a position *)
LEMMA ManagedIs ==
  ASSUME NEW p \in Positions, bar \in Bars
  PROVE  LET q == Managed(p)
         IN  /\ q \in Positions /\ SameTrade(p, q)
             /\ PartialLots(p) = 0 => q.lot = p.lot
             /\ PartialLots(p) > 0 => PartialLots(p) + q.lot <= p.lot /\ AtBreakEven(q)
             /\ AtBreakEven(p) => AtBreakEven(q)
             /\ ~Gapped(p) => Toward(p, q.sl) >= Toward(p, p.sl)
<1> DEFINE r == AfterPartial(p)
           q == Managed(p)
<1>1. /\ r \in Positions /\ SameTrade(p, r)
      /\ PartialLots(p) > 0 => r.lot = RestOf[p.lot] /\ r.sl = p.entry /\ r.partial = TRUE
      /\ PartialLots(p) = 0 => r.lot = p.lot /\ r.sl = p.sl
      /\ p.partial => r.partial
  BY AfterPartialIs
<1>2. q = Trailed(r)
  BY DEF Managed
<1> HIDE DEF r, q
<1>3. /\ q \in Positions /\ SameTrade(r, q)
      /\ q.lot = r.lot /\ q.partial = r.partial
      /\ Toward(r, q.sl) >= Toward(r, r.sl)
  BY <1>1, <1>2, TrailedIs
<1>4. SameTrade(p, q)
  BY <1>1, <1>3 DEF SameTrade
<1>5. /\ p.long \in BOOLEAN /\ p.entry \in Int /\ p.sl \in Int /\ p.lot \in 1..10
      /\ q.sl \in Int /\ q.lot \in 1..10 /\ r.sl \in Int
  BY <1>1, <1>3, PositionFields
<1>6. Toward(p, q.sl) >= Toward(p, r.sl)
  BY <1>1, <1>3 DEF SameTrade, Toward
<1>7. PartialLots(p) \in 0..5
  BY PartialFits
<1>8. PartialLots(p) > 0 => PartialLots(p) + q.lot <= p.lot
  BY <1>1, <1>3, PartialFits
<1>9. PartialLots(p) > 0 => AtBreakEven(q)
  BY <1>1, <1>3, <1>4, <1>5, <1>6 DEF AtBreakEven, SameTrade, Toward
<1>10. PartialLots(p) = 0 => Toward(p, q.sl) >= Toward(p, p.sl)
  BY <1>1, <1>6
<1>11. AtBreakEven(p) => AtBreakEven(q)
  <2>1. CASE PartialLots(p) = 0
    BY <2>1, <1>1, <1>3, <1>4, <1>5, <1>10 DEF AtBreakEven, SameTrade, Toward
  <2> QED
    BY <2>1, <1>7, <1>9
<1>12. ~Gapped(p) => Toward(p, q.sl) >= Toward(p, p.sl)
  <2>1. CASE PartialLots(p) > 0
    <3>1. ~p.partial
      BY <2>1, PartialFits
    <3> QED
      BY <2>1, <3>1, <1>1, <1>5, <1>6 DEF Gapped, Toward
  <2> QED
    BY <2>1, <1>7, <1>10
<1>13. PartialLots(p) = 0 => q.lot = p.lot
  BY <1>1, <1>3
<1> QED
  BY <1>3, <1>4, <1>8, <1>9, <1>11, <1>12, <1>13 DEF q

(* How a bar ends the managed position: by a trade of what is left of it,  *)
(* at no loss when it is at break-even and its target is beyond its fill   *)
LEMMA ExitIs ==
  ASSUME NEW q \in Positions, bar \in Bars, bar.lo <= bar.close, bar.close <= bar.hi,
         NEW t, NEW tr \in Exit(t, q)
  PROVE  /\ tr.ticket = t /\ tr.position = q /\ tr.lot = q.lot /\ tr.exit \in Int
         /\ tr.reason # "partial" /\ tr.reason # "bt_end"
         /\ tr.reason = "stop_loss" => tr.exit = q.sl
         /\ AtBreakEven(q) /\ ~FilledBeyond(q) => Gain(q, tr.exit) >= 0
<1>1. /\ q.long \in BOOLEAN /\ q.sl \in Int /\ q.tp \in Int /\ q.entry \in Int
      /\ Best(q, bar) \in Int /\ Worst(q, bar) \in Int /\ bar.close \in Int
  BY PositionFields, Levels
<1>2. CASE StopHit(q, bar)
  <2>1. tr = Trade(t, q, q.sl, q.lot, "stop_loss")
    BY <1>2 DEF Exit
  <2>2. AtBreakEven(q) => Gain(q, q.sl) >= 0
    BY <1>1 DEF AtBreakEven, Gain, Toward
  <2> QED
    BY <2>1, <2>2, <1>1 DEF Trade
<1>3. CASE ~StopHit(q, bar) /\ TargetHit(q, bar)
  <2>1. tr = Trade(t, q, q.tp, q.lot, "take_profit")
    BY <1>3 DEF Exit
  <2>2. ~FilledBeyond(q) => Gain(q, q.tp) >= 0
    BY <1>1 DEF FilledBeyond, Gain, Toward
  <2> QED
    BY <2>1, <2>2, <1>1 DEF Trade
<1>4. CASE ~StopHit(q, bar) /\ ~TargetHit(q, bar)
  <2>1. tr = Trade(t, q, bar.close, q.lot, "max_duration")
    BY <1>4 DEF Exit
  <2>2. Toward(q, bar.close) >= Toward(q, Worst(q, bar))
    <3>1. bar.lo \in Prices /\ bar.hi \in Prices /\ bar.close \in Prices
      BY DEF Bars
    <3>2. bar.lo \in Int /\ bar.hi \in Int /\ bar.close \in Int
      BY <3>1, PricesAreNumbers
    <3> QED
      BY <3>2 DEF Toward, Worst
  <2>3. AtBreakEven(q) => Gain(q, bar.close) >= 0
    BY <1>1, <1>4, <2>2 DEF AtBreakEven, StopHit, Falls, Gain, Toward
  <2> QED
    BY <2>1, <2>3, <1>1 DEF Trade
<1> QED
  BY <1>2, <1>3, <1>4

LEMMA PartialIs ==
  ASSUME NEW p \in Positions, bar \in Bars, NEW t, NEW tr \in Partial(t, p)
  PROVE  /\ tr.ticket = t /\ tr.position = p /\ tr.lot = PartialLots(p) /\ tr.exit \in Int
         /\ tr.reason = "partial" /\ PartialLots(p) > 0 /\ PartialLots(p) \in 1..10
         /\ Gain(p, tr.exit) >= 0 /\ ~p.partial
<1>1. PartialLots(p) > 0 /\ tr = Trade(t, p, TriggerBe(p), PartialLots(p), "partial")
  BY DEF Partial
<1>2. PartialLots(p) \in 1..10 /\ ~p.partial /\ TriggerBe(p) \in Int /\ Gain(p, TriggerBe(p)) >= 0
  BY <1>1, PartialFits, Levels
<1> QED
  BY <1>1, <1>2 DEF Trade

(* What closing all or a part of a position adds to the balance            *)
LEMMA PnlIsNumber ==
  ASSUME NEW closed,
         \A tr \in closed: tr.exit \in Int /\ tr.position \in Positions /\ tr.lot \in 1..10
  PROVE  PnlOf(closed) \in Int
<1>1. CASE closed = {}
  BY <1>1 DEF PnlOf
<1>2. CASE closed # {}
  <2> DEFINE tr == CHOOSE c \in closed: TRUE
  <2>1. tr \in closed
    BY <1>2
  <2>2. PnlOf(closed) = Gain(tr.position, tr.exit) * tr.lot
    BY <1>2 DEF PnlOf, Pnl
  <2> HIDE DEF tr
  <2>3. Gain(tr.position, tr.exit) \in Int /\ tr.lot \in Int
    BY <2>1, PositionFields DEF Gain, Toward
  <2> QED
    BY <2>2, <2>3, IntProduct
<1> QED
  BY <1>1, <1>2

----------------------------------------------------------------------------
(* The steps *)

LEMMA InitBacktest == Init => BacktestInv
<1> SUFFICES ASSUME Init PROVE BacktestInv
  OBVIOUS
<1>1. DOMAIN open = {} /\ DOMAIN before = {} /\ trades = {} /\ work = {}
  BY DEF Init
<1>2. nextOpen \in Prices /\ bar = NoBar(nextOpen)
  BY DEF Init
<1>3. bar \in Bars /\ bar.lo <= bar.close /\ bar.close <= bar.hi
  BY <1>2 DEF NoBar, Bars
<1>4. Records
  BY <1>1, <1>3 DEF Init, Records, Stages, Loops
<1> QED
  BY <1>1, <1>4 DEF BacktestInv, SinceBar, OpenTrades, PartialsKnown, StopOnlyTightens,
     RemainderNeverLoses, LotsNotCreated

LEMMA StartBarStep == ASSUME BacktestInv, NextBar \/ LastBar PROVE BacktestInv'
<1> USE DEF BacktestInv
<1>0. /\ before' = open /\ work' = DOMAIN open /\ UNCHANGED <<open, tickets, trades, balance>>
      /\ pc' \in {"manage", "finish"} /\ nextOpen' \in Prices
  BY DEF NextBar, LastBar, Records
<1>1. bar' \in Bars /\ bar'.lo <= bar'.close /\ bar'.close <= bar'.hi
  <2>0. bar.n + 1 \in Nat
    BY DEF Records, Bars
  <2>1. CASE NextBar
    <3>1. PICK lo \in Prices, hi \in Prices, close \in Prices:
            /\ lo <= close /\ close <= hi
            /\ bar' = [n |-> bar.n + 1, lo |-> lo, hi |-> hi, close |-> close]
      BY <2>1 DEF NextBar
    <3> QED
      BY <2>0, <3>1 DEF Bars
  <2>2. CASE LastBar
    <3>1. PICK close \in Prices:
            bar' = [n |-> bar.n + 1, lo |-> close, hi |-> close, close |-> close]
      BY <2>2 DEF LastBar
    <3>2. close \in Nat
      BY PricesAreNumbers
    <3> QED
      BY <2>0, <3>1, <3>2 DEF Bars
  <2> QED
    BY <2>1, <2>2
<1>2. Records'
  BY <1>0, <1>1 DEF Records, Stages, Loops
<1>3. SinceBar' /\ OpenTrades' /\ PartialsKnown' /\ RemainderNeverLoses' /\ LotsNotCreated'
  BY <1>0 DEF SinceBar, OpenTrades, PartialsKnown, RemainderNeverLoses, LotsNotCreated
<1>4. StopOnlyTightens'
  <2> SUFFICES ASSUME NEW t \in DOMAIN open, ~Gapped(open[t])
               PROVE  /\ Toward(open[t], open[t].sl) >= Toward(open[t], open[t].sl)
                      /\ \A tr \in trades: ~(tr.ticket = t /\ tr.reason = "stop_loss")
    BY <1>0 DEF StopOnlyTightens
  <2>1. open[t].sl \in Int
    BY PositionFields DEF Records
  <2> QED
    BY <2>1 DEF OpenTrades, Toward
<1> QED
  BY <1>2, <1>3, <1>4

(* A charge of whole points for whole lots keeps the balance a number      *)
LEMMA ChargeStep ==
  ASSUME BacktestInv, NEW t \in work, ApplyDailySwap(t)
  PROVE  balance' \in Int
<1> DEFINE rate == IF open[t].long THEN SwapLong ELSE SwapShort
<1>1. rate \in Int
  OBVIOUS
<1>2. open[t].lot \in Int /\ balance \in Int
  BY PositionFields DEF BacktestInv, Records
<1>3. balance' = balance + rate * open[t].lot
  BY DEF ApplyDailySwap
<1> HIDE DEF rate
<1>4. rate * open[t].lot \in Int
  BY <1>1, <1>2, IntProduct
<1> QED
  BY <1>2, <1>3, <1>4

LEMMA QuietStep ==
  ASSUME BacktestInv,
         BarProcessed \/ (\E t \in work: ApplyDailySwap(t)) \/ SwapApplied \/ NoSignal
  PROVE  BacktestInv'
<1> USE DEF BacktestInv
<1>1. /\ UNCHANGED <<bar, nextOpen, open, tickets, trades, before>>
      /\ pc' \in {"next", "scan", "swap"}
      /\ work' \subseteq DOMAIN open /\ (pc' # "swap" => work' = {})
  BY DEF BarProcessed, ApplyDailySwap, SwapApplied, NoSignal, Records, Loops
<1>2. balance' \in Int
  <2>1. CASE BarProcessed \/ SwapApplied \/ NoSignal
    BY <2>1 DEF BarProcessed, SwapApplied, NoSignal, Records
  <2> QED
    BY <2>1, ChargeStep
<1>3. Records'
  BY <1>1, <1>2 DEF Records, Stages, Loops
<1> QED
  BY <1>1, <1>3 DEF SinceBar, OpenTrades, PartialsKnown, StopOnlyTightens,
     RemainderNeverLoses, LotsNotCreated

LEMMA OpenStep == ASSUME BacktestInv, OpenPosition PROVE BacktestInv'
<1> USE DEF BacktestInv
<1> DEFINE n == tickets + 1
<1>0. /\ work = {} /\ tickets \in Nat /\ tickets' = n /\ n \in 0..MaxTickets /\ pc' = "next"
      /\ UNCHANGED <<bar, nextOpen, work, trades, balance, before>>
  BY DEF OpenPosition, Records, Loops
<1>1. PICK p \in Positions: open' = [u \in DOMAIN open \cup {n} |-> IF u = n THEN p ELSE open[u]]
  <2>1. PICK long \in BOOLEAN, sl \in Prices, entry \in Prices, tp \in Prices, cost \in Costs, lot \in Lots:
          /\ IF long THEN sl < entry /\ entry < tp ELSE tp < entry /\ entry < sl
          /\ LET p == [long |-> long, sl |-> sl, tp |-> tp, lot |-> lot, at |-> bar.n + 1,
                       entry |-> IF long THEN nextOpen + cost ELSE nextOpen - cost,
                       risk |-> IF long THEN entry - sl ELSE sl - entry,
                       partial |-> FALSE, trailing |-> FALSE]
             IN open' = [u \in DOMAIN open \cup {n} |-> IF u = n THEN p ELSE open[u]]
    BY DEF OpenPosition
  <2> DEFINE fill == IF long THEN nextOpen + cost ELSE nextOpen - cost
             risk == IF long THEN entry - sl ELSE sl - entry
             q == [long |-> long, sl |-> sl, tp |-> tp, lot |-> lot, at |-> bar.n + 1,
                   entry |-> fill, risk |-> risk, partial |-> FALSE, trailing |-> FALSE]
  <2>2. sl \in Int /\ entry \in Int /\ tp \in Int /\ nextOpen \in Int /\ cost \in Int
    BY PricesAreNumbers DEF Records
  <2>3. fill \in Int /\ risk \in Nat \ {0}
    BY <2>1, <2>2
  <2>4. bar.n + 1 \in Nat /\ lot \in 1..10
    BY DEF Records, Bars
  <2>5. q \in Positions
    <3> HIDE DEF fill, risk
    <3> QED
      BY <2>2, <2>3, <2>4 DEF Positions
  <2>6. open' = [u \in DOMAIN open \cup {n} |-> IF u = n THEN q ELSE open[u]]
    BY <2>1
  <2> HIDE DEF q
  <2> QED
    BY <2>5, <2>6
<1>2. /\ n \notin DOMAIN open /\ n \notin DOMAIN before /\ \A tr \in trades: tr.ticket # n
      /\ DOMAIN open' = DOMAIN open \cup {n} /\ open'[n] = p
      /\ \A u \in DOMAIN open: open'[u] = open[u]
  BY <1>0, <1>1 DEF Records
<1>3. Records'
  <2>1. /\ DOMAIN open' \subseteq 1..n /\ DOMAIN before \subseteq 1..n
        /\ \A tr \in trades: tr.ticket \in 1..n
    BY <1>0, <1>2 DEF Records
  <2>2. \A u \in DOMAIN open': open'[u] \in Positions
    BY <1>2 DEF Records
  <2> QED
    BY <1>0, <1>2, <2>1, <2>2 DEF Records, Stages, Loops
<1>4. SinceBar' /\ OpenTrades' /\ PartialsKnown' /\ RemainderNeverLoses' /\ LotsNotCreated'
  BY <1>0, <1>2 DEF SinceBar, OpenTrades, PartialsKnown, RemainderNeverLoses, LotsNotCreated
<1>5. StopOnlyTightens'
  BY <1>0, <1>2 DEF StopOnlyTightens
<1> QED
  BY <1>3, <1>4, <1>5

LEMMA ForceCloseStep ==
  ASSUME BacktestInv, NEW t \in work, ForceClose(t)
  PROVE  BacktestInv'
<1> USE DEF BacktestInv
<1> DEFINE tr0 == Trade(t, open[t], bar.close, open[t].lot, "bt_end")
<1>0. /\ t \in DOMAIN open /\ open[t] \in Positions /\ bar.close \in Int
      /\ work' = work \ {t} /\ pc = "finish"
      /\ trades' = trades \cup {tr0} /\ balance' = balance + PnlOf({}) + PnlOf({tr0})
      /\ open' = [u \in DOMAIN open \ {t} |-> open[u]]
      /\ UNCHANGED <<pc, bar, nextOpen, tickets, before>>
  <2>1. bar.close \in Int
    BY Levels DEF Records
  <2> QED
    BY <2>1 DEF ForceClose, Records, Book, Without
<1>1. /\ tr0.ticket = t /\ tr0.reason = "bt_end" /\ tr0.exit = bar.close
      /\ tr0.position = open[t] /\ tr0.lot = open[t].lot
  BY DEF Trade
<1>2. \A tr \in trades':
        \/ tr \in trades
        \/ /\ tr.ticket = t /\ tr.reason = "bt_end" /\ tr.exit \in Int
           /\ tr.position = open[t] /\ tr.lot = open[t].lot
  BY <1>0, <1>1
<1>3. Records'
  <2>1. \A tr \in trades': /\ tr.ticket \in 1..tickets /\ tr.lot \in 1..10 /\ tr.exit \in Int
                           /\ tr.position \in Positions
    BY <1>0, <1>2, PositionFields DEF Records
  <2>2. balance' \in Int
    <3>1. PnlOf({}) \in Int /\ PnlOf({tr0}) \in Int
      <4>1. tr0.exit \in Int /\ tr0.position \in Positions /\ tr0.lot \in 1..10
        BY <1>0, <1>1, PositionFields DEF Records
      <4> HIDE DEF tr0
      <4> QED
        BY <4>1, PnlIsNumber
    <3> QED
      BY <1>0, <3>1 DEF Records
  <2> QED
    BY <1>0, <2>1, <2>2 DEF Records, Stages, Loops
<1>o. /\ DOMAIN open' = DOMAIN open \ {t}
      /\ \A u \in DOMAIN open': u # t /\ u \in DOMAIN open /\ open'[u] = open[u]
  BY <1>0
<1>4. SinceBar' /\ OpenTrades' /\ PartialsKnown'
  BY <1>0, <1>2, <1>o DEF SinceBar, OpenTrades, PartialsKnown, AtBreakEven, Toward
<1>5. StopOnlyTightens'
  <2> SUFFICES ASSUME NEW u \in DOMAIN before, ~Gapped(before[u])
               PROVE  /\ u \in DOMAIN open' => Toward(open'[u], open'[u].sl) >= Toward(open'[u], before[u].sl)
                      /\ \A tr \in trades': (tr.ticket = u /\ tr.reason = "stop_loss")
                           => Toward(before[u], tr.exit) >= Toward(before[u], before[u].sl)
    BY <1>0 DEF StopOnlyTightens, Gapped, Toward
  <2>1. \A tr \in trades': tr.reason = "stop_loss" => tr \in trades
    BY <1>2
  <2> QED
    BY <2>1, <1>o DEF StopOnlyTightens
<1>6. RemainderNeverLoses'
  BY <1>2 DEF RemainderNeverLoses
<1>7. LotsNotCreated'
  <2> SUFFICES ASSUME NEW a \in trades', a.reason = "partial"
               PROVE  /\ \A b \in trades' \ {a}: b.ticket = a.ticket =>
                           b.reason # "partial" /\ a.lot + b.lot <= a.position.lot
                      /\ a.ticket \in DOMAIN open' => a.lot + open'[a.ticket].lot <= a.position.lot
    BY DEF LotsNotCreated
  <2>1. a \in trades
    BY <1>2
  <2> QED
    BY <1>0, <1>2, <1>o, <2>1 DEF LotsNotCreated
<1> QED
  BY <1>3, <1>4, <1>5, <1>6, <1>7

(* What one position goes through in a bar: its new trades are its partial *)
(* close and its exit, and without an exit it stays open as managed        *)
LEMMA ProcessIs ==
  ASSUME BacktestInv, NEW t \in work, ProcessPosition(t)
  PROVE  /\ t \in DOMAIN open /\ t \in DOMAIN before /\ open[t] = before[t]
         /\ open[t] \in Positions /\ Managed(open[t]) \in Positions
         /\ bar \in Bars /\ bar.lo <= bar.close /\ bar.close <= bar.hi
         /\ trades' = trades \cup Partial(t, open[t]) \cup Exit(t, Managed(open[t]))
         /\ work' = work \ {t} /\ pc = "manage"
         /\ UNCHANGED <<pc, bar, nextOpen, tickets, before>>
         /\ balance' \in Int
         /\ DOMAIN open' \subseteq DOMAIN open
         /\ work' \subseteq DOMAIN open'
         /\ \A u \in DOMAIN open': u # t => open'[u] = open[u]
         /\ t \in DOMAIN open' => open'[t] = Managed(open[t]) /\ Exit(t, Managed(open[t])) = {}
<1>1. t \in DOMAIN open /\ t \in DOMAIN before /\ open[t] = before[t] /\ work \subseteq DOMAIN open
  BY DEF BacktestInv, Records, SinceBar, ProcessPosition
<1>2. open[t] \in Positions /\ bar \in Bars /\ bar.lo <= bar.close /\ bar.close <= bar.hi
  BY <1>1 DEF BacktestInv, Records
<1>3. Managed(open[t]) \in Positions
  BY <1>2, ManagedIs
<1>4. /\ trades' = trades \cup Partial(t, open[t]) \cup Exit(t, Managed(open[t]))
      /\ work' = work \ {t} /\ pc = "manage"
      /\ UNCHANGED <<pc, bar, nextOpen, tickets, before>>
      /\ open' = IF Exit(t, Managed(open[t])) # {} THEN Without(t)
                 ELSE [open EXCEPT ![t] = Managed(open[t])]
  BY DEF ProcessPosition, Book
<1>b. balance' \in Int
  <2>1. balance' = balance + PnlOf(Partial(t, open[t])) + PnlOf(Exit(t, Managed(open[t])))
    BY DEF ProcessPosition, Book
  <2>2. \A tr \in Partial(t, open[t]): tr.exit \in Int /\ tr.position \in Positions /\ tr.lot \in 1..10
    BY <1>2, PartialIs
  <2>3. \A tr \in Exit(t, Managed(open[t])):
          tr.exit \in Int /\ tr.position \in Positions /\ tr.lot \in 1..10
    BY <1>2, <1>3, ExitIs, PositionFields
  <2>4. PnlOf(Partial(t, open[t])) \in Int /\ PnlOf(Exit(t, Managed(open[t]))) \in Int
    BY <2>2, <2>3, PnlIsNumber
  <2>5. balance \in Int
    BY DEF BacktestInv, Records
  <2> QED
    BY <2>1, <2>4, <2>5
<1>5. /\ DOMAIN open' \subseteq DOMAIN open /\ work' \subseteq DOMAIN open'
      /\ \A u \in DOMAIN open': u # t => open'[u] = open[u]
      /\ t \in DOMAIN open' => open'[t] = Managed(open[t]) /\ Exit(t, Managed(open[t])) = {}
  <2>1. CASE Exit(t, Managed(open[t])) # {}
    <3>1. open' = [u \in DOMAIN open \ {t} |-> open[u]]
      BY <2>1, <1>4 DEF Without
    <3> QED
      BY <3>1, <1>1, <1>4
  <2>2. CASE Exit(t, Managed(open[t])) = {}
    <3>1. open' = [open EXCEPT ![t] = Managed(open[t])]
      BY <2>2, <1>4
    <3> QED
      BY <3>1, <2>2, <1>1, <1>4
  <2> QED
    BY <2>1, <2>2
<1> QED
  BY <1>1, <1>2, <1>3, <1>4, <1>b, <1>5

LEMMA ProcessStep ==
  ASSUME BacktestInv, NEW t \in work, ProcessPosition(t)
  PROVE  BacktestInv'
<1> USE DEF BacktestInv
<1> DEFINE p == open[t]
           q == Managed(open[t])
<1>0. /\ t \in DOMAIN open /\ t \in DOMAIN before /\ p = before[t]
      /\ p \in Positions /\ q \in Positions
      /\ bar \in Bars /\ bar.lo <= bar.close /\ bar.close <= bar.hi
      /\ trades' = trades \cup Partial(t, p) \cup Exit(t, q)
      /\ work' = work \ {t} /\ pc = "manage"
      /\ UNCHANGED <<pc, bar, nextOpen, tickets, before>>
      /\ balance' \in Int
      /\ DOMAIN open' \subseteq DOMAIN open
      /\ work' \subseteq DOMAIN open'
      /\ \A u \in DOMAIN open': u # t => open'[u] = open[u]
      /\ t \in DOMAIN open' => open'[t] = q /\ Exit(t, q) = {}
  BY ProcessIs
<1>q. /\ SameTrade(p, q)
      /\ PartialLots(p) = 0 => q.lot = p.lot
      /\ PartialLots(p) > 0 => PartialLots(p) + q.lot <= p.lot /\ AtBreakEven(q)
      /\ AtBreakEven(p) => AtBreakEven(q)
      /\ ~Gapped(p) => Toward(p, q.sl) >= Toward(p, p.sl)
  BY <1>0, ManagedIs
<1>l. PartialLots(p) \in 0..5 /\ p.lot \in 1..10 /\ q.lot \in 1..10
  BY <1>0, PartialFits, PositionFields
<1>p. \A tr \in Partial(t, p):
        /\ tr.ticket = t /\ tr.position = p /\ tr.lot = PartialLots(p) /\ tr.exit \in Int
        /\ tr.reason = "partial" /\ PartialLots(p) > 0 /\ PartialLots(p) \in 1..10
        /\ Gain(p, tr.exit) >= 0 /\ ~p.partial
  BY <1>0, PartialIs
<1>e. \A tr \in Exit(t, q):
        /\ tr.ticket = t /\ tr.position = q /\ tr.lot = q.lot /\ tr.exit \in Int
        /\ tr.reason # "partial" /\ tr.reason # "bt_end"
        /\ tr.reason = "stop_loss" => tr.exit = q.sl
        /\ AtBreakEven(q) /\ ~FilledBeyond(q) => Gain(q, tr.exit) >= 0
  BY <1>0, ExitIs
(* A partial trade of this ticket puts the managed stop at break-even, and *)
(* an earlier one leaves nothing to close in part now                      *)
<1>b. \A tr \in trades': tr.reason = "partial" /\ tr.ticket = t => AtBreakEven(q)
  BY <1>0, <1>q, <1>p, <1>e DEF PartialsKnown
<1>o. \A tr \in trades: tr.ticket = t => tr.reason = "partial" /\ AtBreakEven(p) /\ PartialLots(p) = 0
  <2>1. p.partial => PartialLots(p) = 0
    BY <1>0, <1>l, PartialFits
  <2> QED
    BY <1>0, <2>1 DEF OpenTrades, PartialsKnown, AtBreakEven
<1> HIDE DEF p, q
<1>1. Records'
  <2>1. \A tr \in trades': /\ tr.ticket \in 1..tickets /\ tr.lot \in 1..10 /\ tr.exit \in Int
                           /\ tr.position \in Positions
    BY <1>0, <1>p, <1>e, <1>l DEF Records
  <2>2. \A u \in DOMAIN open': open'[u] \in Positions
    BY <1>0 DEF Records
  <2> QED
    BY <1>0, <2>1, <2>2 DEF Records, Stages, Loops
<1>2. SinceBar'
  BY <1>0, <1>q DEF SinceBar, SameTrade
<1>3. OpenTrades'
  BY <1>0, <1>p, <1>e DEF OpenTrades
<1>4. PartialsKnown'
  <2> SUFFICES ASSUME NEW tr \in trades', tr.reason = "partial", tr.ticket \in DOMAIN open'
               PROVE  AtBreakEven(open'[tr.ticket])
    BY DEF PartialsKnown, AtBreakEven, Toward
  <2>1. CASE tr.ticket = t
    BY <2>1, <1>0, <1>b
  <2>2. CASE tr.ticket # t
    BY <2>2, <1>0, <1>p, <1>e DEF PartialsKnown
  <2> QED
    BY <2>1, <2>2
<1>5. StopOnlyTightens'
  <2> SUFFICES ASSUME NEW u \in DOMAIN before, ~Gapped(before[u])
               PROVE  /\ u \in DOMAIN open' => Toward(open'[u], open'[u].sl) >= Toward(open'[u], before[u].sl)
                      /\ \A tr \in trades': (tr.ticket = u /\ tr.reason = "stop_loss")
                           => Toward(before[u], tr.exit) >= Toward(before[u], before[u].sl)
    BY <1>0 DEF StopOnlyTightens, Gapped, Toward
  <2>1. CASE u # t
    BY <2>1, <1>0, <1>p, <1>e DEF StopOnlyTightens
  <2>2. CASE u = t
    <3>1. Toward(p, q.sl) >= Toward(p, before[u].sl)
      BY <2>2, <1>0, <1>q
    <3>2. u \in DOMAIN open' => Toward(open'[u], open'[u].sl) >= Toward(open'[u], before[u].sl)
      BY <2>2, <3>1, <1>0, <1>q DEF SameTrade, Toward
    <3>3. \A tr \in trades': (tr.ticket = u /\ tr.reason = "stop_loss") => tr.exit = q.sl
      BY <2>2, <1>0, <1>p, <1>e, <1>o
    <3> QED
      BY <2>2, <3>1, <3>2, <3>3, <1>0
  <2> QED
    BY <2>1, <2>2
<1>6. RemainderNeverLoses'
  <2> SUFFICES ASSUME NEW a \in trades', NEW b \in trades', a.ticket = b.ticket, a.reason = "partial",
                      b.reason # "bt_end", ~FilledBeyond(b.position)
               PROVE  Gain(b.position, b.exit) >= 0
    BY DEF RemainderNeverLoses
  <2>1. CASE a \in trades /\ b \in trades
    BY <2>1 DEF RemainderNeverLoses
  <2>2. CASE b \in Partial(t, p)
    BY <2>2, <1>p
  <2>3. CASE b \in Exit(t, q)
    BY <2>3, <1>e, <1>b
  <2>4. CASE a \notin trades /\ b \in trades
    <3>1. b.reason = "partial"
      BY <2>4, <1>0, <1>p, <1>e, <1>o
    <3> QED
      BY <2>4, <3>1 DEF RemainderNeverLoses
  <2> QED
    BY <2>1, <2>2, <2>3, <2>4, <1>0
<1>7. LotsNotCreated'
  <2> SUFFICES ASSUME NEW a \in trades', a.reason = "partial"
               PROVE  /\ \A b \in trades' \ {a}: b.ticket = a.ticket =>
                           b.reason # "partial" /\ a.lot + b.lot <= a.position.lot
                      /\ a.ticket \in DOMAIN open' => a.lot + open'[a.ticket].lot <= a.position.lot
    BY DEF LotsNotCreated
  <2>1. CASE a \in trades /\ a.ticket # t
    <3>1. a.ticket \in DOMAIN open' => a.lot + open'[a.ticket].lot <= a.position.lot
      BY <2>1, <1>0 DEF LotsNotCreated
    <3>2. \A b \in trades' \ {a}: b.ticket = a.ticket => b \in trades
      BY <2>1, <1>0, <1>p, <1>e
    <3> QED
      BY <2>1, <3>1, <3>2 DEF LotsNotCreated
  <2>2. CASE a \in trades /\ a.ticket = t
    <3>1. PartialLots(p) = 0 /\ q.lot = p.lot /\ a.lot + p.lot <= a.position.lot
      BY <2>2, <1>0, <1>o, <1>q DEF LotsNotCreated, p
    <3>2. \A b \in trades' \ {a}: b \in trades \/ (b \in Exit(t, q) /\ b.lot = p.lot)
      BY <3>1, <1>0, <1>p, <1>e
    <3> QED
      BY <2>2, <3>1, <3>2, <1>0, <1>e DEF LotsNotCreated
  <2>3. CASE a \in Partial(t, p)
    <3>1. /\ a.ticket = t /\ a.lot = PartialLots(p) /\ a.position = p
          /\ PartialLots(p) + q.lot <= p.lot /\ PartialLots(p) # 0
      BY <2>3, <1>p, <1>q, <1>l
    <3>2. \A b \in trades: b.ticket # t
      BY <3>1, <1>o
    <3>3. \A b \in Partial(t, p): b = a
      BY <2>3 DEF Partial
    <3> QED
      BY <3>1, <3>2, <3>3, <1>0, <1>e
  <2> QED
    BY <2>1, <2>2, <2>3, <1>0, <1>e
<1> QED
  BY <1>1, <1>2, <1>3, <1>4, <1>5, <1>6, <1>7

----------------------------------------------------------------------------
(* Theorems *)

LEMMA Inductive == Spec => []BacktestInv
<1>1. BacktestInv /\ [Next]_vars => BacktestInv'
  <2> SUFFICES ASSUME BacktestInv, [Next]_vars PROVE BacktestInv'
    OBVIOUS
  <2>1. CASE UNCHANGED vars
    BY <2>1 DEF vars, BacktestInv, Records, SinceBar, OpenTrades, PartialsKnown, StopOnlyTightens,
       RemainderNeverLoses, LotsNotCreated
  <2> QED
    BY <2>1, StartBarStep, QuietStep, OpenStep, ForceCloseStep, ProcessStep DEF Next
<1> QED
  BY <1>1, InitBacktest, PTL DEF Spec

(* The stage, the bar, the positions, the trades and the balance keep      *)
(* their types; a partial close never leaves a position without lots.      *)
THEOREM TypeCorrect == Spec => []TypeOK
<1>1. BacktestInv => TypeOK
  BY PositionFields DEF BacktestInv, Records, TypeOK
<1> QED
  BY <1>1, Inductive, PTL

(* No bar loosens the stop of an open position, and none is stopped out at *)
(* a looser stop than it had before the bar.                               *)
THEOREM StopsTighten == Spec => []StopOnlyTightens
<1>1. BacktestInv => StopOnlyTightens
  BY DEF BacktestInv
<1> QED
  BY <1>1, Inductive, PTL

(* What remains after a partial close is not closed at a loss: its stop is *)
(* at break-even or better before any exit is looked for.                  *)
THEOREM RemainderKeepsGain == Spec => []RemainderNeverLoses
<1>1. BacktestInv => RemainderNeverLoses
  BY DEF BacktestInv
<1> QED
  BY <1>1, Inductive, PTL

(* One partial close at most, and what it takes and what is left are no    *)
(* more than was opened, with the rounding of the lots as it is.           *)
THEOREM LotsConserved == Spec => []LotsNotCreated
<1>1. BacktestInv => LotsNotCreated
  BY DEF BacktestInv
<1> QED
  BY <1>1, Inductive, PTL
=============================================================================
