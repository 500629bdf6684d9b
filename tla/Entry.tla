-------------------------------- MODULE Entry --------------------------------
(***************************************************************************)
(* From candles to a position: core/engine.py's scan and _consider_signal  *)
(* with the strategy (Strategy), the gate and the sizing (Sizing) of the   *)
(* risk manager, connector.place_order, and the broker, which fills orders *)
(* and closes positions at their stops.                                    *)
(*                                                                         *)
(* A tick comes every minute, a candle closes every quarter of an hour at  *)
(* most: between two candles every tick finds the same signal again, and   *)
(* the order is filled at whatever the price has become.                   *)
(*                                                                         *)
(* Closings by the trade manager and the operator are in TradeManager and  *)
(* Engine.  The broker's closings are not reported to the risk manager, so *)
(* its counters (losses) never move here; it sees the balance.             *)
(***************************************************************************)
EXTENDS Strategy, Sizing

CONSTANTS
    Snapshots,      \* the sets of closed candles there can be
    Prices,         \* bound: prices there can be
    Jump,           \* bound: the most a price moves at once
    WidestSpread,   \* bound: spreads there can be
    MaxSpread,      \* risk.max_spread_points
    MinRR,          \* risk.min_rr_ratio
    MaxConcurrent,  \* risk.max_concurrent_trades
    MaxTotalDD,     \* circuit_breakers.max_total_drawdown_pct
    MinBalance,     \* circuit_breakers.min_account_balance
    Balances,       \* balances to start from
    Losses,         \* consecutive losses to start from
    MaxOrders       \* bound: orders filled

ASSUME EntryAssumption ==
    /\ Prices \subseteq Nat /\ Jump \in Nat /\ WidestSpread \in Nat /\ MaxSpread \in Nat
    /\ MinRR \in Nat /\ MaxConcurrent \in Nat /\ MaxTotalDD \in 0..100
    /\ MinBalance \in Nat /\ Balances \subseteq Nat /\ Losses \subseteq Nat
    /\ MaxOrders \in Nat

(* Prices are numbers, so that the signals of a snapshot have them *)
ASSUME SnapshotAssumption ==
    \A s \in Snapshots:
        s.atrRatio \in Nat /\ \A x \in Chosen(s): x.entry \in Int /\ x.distance \in Int

VARIABLES
    snap,       \* the closed candles, which the engine fetches at every tick
    bid,        \* the price now
    book,       \* the broker's positions, at most one on a side
    balance,    \* the account's balance
    losses,     \* risk.state.consecutive_losses
    peak,       \* risk.state.peak_balance
    base,       \* risk.state.base_balance
    kill,       \* risk.state.kill_switch_active
    last,       \* history: what the last order was sized from
    orders      \* orders filled so far

vars == <<snap, bid, book, balance, losses, peak, base, kill, last, orders>>
risk == <<losses, peak, base, kill>>

Spreads == 0..WidestSpread

Empty == [open |-> FALSE]
Open == {g \in Sides: book[g].open}

(* What positions bring that are closed at a bid and a spread: a short one *)
(* is bought back at the ask                                               *)
Quote(g, b, spread) == IF g = Long THEN b ELSE b + spread
Profit(g, b, spread) == book[g].lot * LotValue * g * (Quote(g, b, spread) - book[g].fill)
Gain(S, b, spread) == (IF Long \in S THEN Profit(Long, b, spread) ELSE 0)
                      + (IF Short \in S THEN Profit(Short, b, spread) ELSE 0)

Init ==
    /\ snap \in Snapshots /\ bid \in Prices /\ bid = LastOf(snap.m15).close
    /\ book = [g \in Sides |-> Empty]
    /\ balance \in Balances /\ losses \in Losses
    /\ peak = 0 /\ base = 0 /\ kill = FALSE
    /\ last = Empty /\ orders = 0

----------------------------------------------------------------------------
(* The market *)

(* Has the price reached the stop loss or the take profit? *)
Reached(g, b, spread) ==
    \/ g * Quote(g, b, spread) <= g * book[g].sl
    \/ g * Quote(g, b, spread) >= g * book[g].tp

PriceMoves ==
    \E b \in (Prices \cap (bid - Jump .. bid + Jump)) \ {bid}, spread \in Spreads:
        LET hit == {g \in Open: Reached(g, b, spread)}
        IN /\ bid' = b
           /\ book' = [g \in Sides |-> IF g \in hit THEN Empty ELSE book[g]]
           /\ balance' = balance + Gain(hit, b, spread)
           /\ UNCHANGED <<snap, risk, last, orders>>

(* A candle closes, at the price there is *)
CandleCloses ==
    /\ snap' \in Snapshots /\ LastOf(snap'.m15).close = bid
    /\ UNCHANGED <<bid, book, balance, risk, last, orders>>

----------------------------------------------------------------------------
(* The engine *)

(* check_kill_switch; can_trade looks at the same *)
Terminal == balance < MinBalance \/ DrawdownOf(peak, balance, MaxTotalDD)

(* _system_health_ok: every position is closed at the market *)
KillTick ==
    /\ Terminal \/ kill
    /\ kill' = TRUE
    /\ \E spread \in Spreads: balance' = balance + Gain(Open, bid, spread)
    /\ book' = [g \in Sides |-> Empty]
    /\ UNCHANGED <<snap, bid, losses, peak, base, last, orders>>

(* tick() down to _consider_signal: the signal it takes up, if any         *)
Considered == IF ~kill /\ ~Terminal /\ RegimeAllows(snap) THEN Chosen(snap) ELSE {}

(* can_trade raises the peak; the drawdown from it was just looked at *)
GatePeak == IF balance > peak THEN balance ELSE peak
GateOpen == Cardinality(Open) < MaxConcurrent

(* validate_signal *)
ValidSignal(signal, spread) ==
    /\ signal.distance * TargetRR >= MinRR * signal.distance
    /\ InBounds(signal)
    /\ spread <= MaxSpread
    /\ signal.side \notin Open

(* _effective_risk_pct sets the base of the compounding once *)
SizingBase == IF base <= 0 THEN balance ELSE base

(* The ATR ratio from which trades are made smaller is 1.5 *)
Wild == snap.atrRatio >= 6

SizedLot(signal) == Lot(balance, SizingBase, GatePeak, losses, Wild, signal.distance)

(* The broker turns down stops on the wrong side of the price *)
StopsFit(signal) == signal.side * signal.sl < signal.side * bid /\ signal.side * bid < signal.side * signal.tp

(* up to the order that is filled, whole: the spread is looked at before,  *)
(* the price is the one the order finds                                    *)
OrderFilled(signal) ==
    \E seen \in Spreads, spread \in Spreads:
        LET lot == SizedLot(signal)
        IN /\ GateOpen /\ ValidSignal(signal, seen)
           /\ Sane(lot, balance, signal.distance)
           /\ StopsFit(signal) /\ orders < MaxOrders
           /\ book' = [book EXCEPT ![signal.side] =
                [open |-> TRUE, lot |-> lot, sl |-> signal.sl, tp |-> signal.tp,
                 fill |-> IF signal.side = Long THEN bid + spread ELSE bid]]
           /\ peak' = GatePeak /\ base' = SizingBase
           /\ last' = [open |-> TRUE, balance |-> balance, wild |-> Wild,
                       distance |-> signal.distance, lot |-> lot]
           /\ orders' = orders + 1
           /\ UNCHANGED <<snap, bid, balance, losses, kill>>

(* turned down by the gate (for its other reasons see RiskManager) or by   *)
(* the validation                                                          *)
Refused(signal) ==
    /\ ~GateOpen \/ \E seen \in Spreads: ~ValidSignal(signal, seen)
    /\ peak' = GatePeak
    /\ UNCHANGED <<snap, bid, book, balance, losses, base, kill, last, orders>>

(* turned down for its size, for the margin, or by the broker              *)
OrderRefused(signal) ==
    /\ GateOpen /\ \E seen \in Spreads: ValidSignal(signal, seen)
    /\ peak' = GatePeak /\ base' = SizingBase
    /\ UNCHANGED <<snap, bid, book, balance, losses, kill, last, orders>>

(* _consider_signal *)
ConsiderSignal ==
    \E signal \in Considered: OrderFilled(signal) \/ Refused(signal) \/ OrderRefused(signal)

Next ==
    \/ PriceMoves \/ CandleCloses
    \/ KillTick \/ ConsiderSignal

Spec == Init /\ [][Next]_vars

----------------------------------------------------------------------------
(* Properties *)

Positions == [open: {TRUE}, lot: MinLot..MaxLot, sl: Int, tp: Int, fill: Nat]
Sizings == [open: {TRUE}, balance: Nat, wild: BOOLEAN, distance: Nat, lot: MinLot..MaxLot]
(* Positions and the last sizing have a lot the broker and the             *)
(* configuration allow; only the balance may become negative.              *)
TypeOK ==
    /\ snap \in Snapshots /\ bid \in Prices
    /\ book \in [Sides -> {Empty} \cup Positions]
    /\ balance \in Int /\ losses \in Losses
    /\ peak \in Nat /\ base \in Nat /\ kill \in BOOLEAN
    /\ last \in {Empty} \cup Sizings
    /\ orders \in 0..MaxOrders

(* The money between the fill and the stop of a position is not bounded by *)
(* max_risk_per_trade_pct of the balance: the signal is as old as its      *)
(* candle, the price may have moved, and the stop is not moved with it.    *)
(* The fill is short of the take profit, so that (1 + target_rr) times the *)
(* configured risk, and the spread, is a bound.                            *)
StakeBounded ==
    \A g \in Open:
        1600 * book[g].lot * LotValue * g * (book[g].fill - book[g].sl)
            <= (1 + TargetRR) * peak * MaxRisk + 1600 * book[g].lot * LotValue * WidestSpread

(* A trade sized from a smaller balance than the one before, for a stop as *)
(* far or farther, in a market as wild, is not larger than that one,       *)
(* whichever steps of the compounding, the drawdown rules and the rounding *)
(* lie between.                                                            *)
NoMartingale ==
    [][(last' # last /\ last.open /\ last'.balance <= last.balance
        /\ last'.distance >= last.distance /\ (last.wild => last'.wild))
       => last'.lot <= last.lot]_vars
=============================================================================
