----------------------------- MODULE Backtester -----------------------------
(***************************************************************************)
(* backtesting/backtester.py: the replay of H1 bars.  Every bar first goes *)
(* over the open positions (partial close, break-even, trailing, then stop *)
(* and target, then maximum duration), then charges the swap, then may     *)
(* open a position at the open of the next bar.                            *)
(*                                                                         *)
(* Prices are whole points, lots whole hundredths, money is points times   *)
(* lots.  Regime and strategy are a choice; the size of a position is any  *)
(* of Lots, since it follows from the balance and the distance of the stop *)
(* in a way no property needs.  partial_close_pct is 50, as configured.    *)
(***************************************************************************)
EXTENDS Integers, FiniteSets

CONSTANTS
    Prices,        \* prices a bar can show
    Costs,         \* half the spread plus the slippage of a fill
    Lots,          \* sizes of a new position, in hundredths
    MoveBeAtR,     \* move_to_be_at_rr
    TrailAtR,      \* trailing_activation_rr
    TrailDistance, \* trailing_stop_points
    MaxDuration,   \* max_trade_duration_hours, in bars
    MaxConcurrent, \* risk.max_concurrent_trades
    SwapLong,      \* charge per hundredth of a lot and rollover
    SwapShort,
    MaxTickets,    \* bound: positions opened
    MaxBars        \* bound: bars replayed

ASSUME BacktestAssumption ==
    /\ Prices \subseteq Nat /\ Costs \subseteq Nat /\ Lots \subseteq 1..10
    /\ MoveBeAtR \in Nat \ {0} /\ TrailAtR \in Nat /\ MoveBeAtR <= TrailAtR
    /\ TrailDistance \in Nat /\ MaxDuration \in Nat \ {0}
    /\ MaxConcurrent \in Nat \ {0} /\ SwapLong \in Int /\ SwapShort \in Int
    /\ MaxTickets \in Nat /\ MaxBars \in Nat

VARIABLES
    pc,       \* the stage of the current bar
    bar,      \* its number and range
    nextOpen, \* the open of the next bar
    work,     \* positions the loop of this stage has still to go over
    open,     \* _open, by ticket
    tickets,  \* _next_ticket - 1
    trades,   \* _trades
    balance,  \* what the closed trades and the swaps have changed the balance by
    before    \* history: the positions as they were when the bar began

vars == <<pc, bar, nextOpen, work, open, tickets, trades, balance, before>>

(* The loops a bar, or the end, goes through the open positions with, and  *)
(* the stages between them                                                 *)
Loops == {"manage", "swap", "finish"}
Stages == Loops \cup {"scan", "next"}

Bars == [n: Nat, lo: Prices, hi: Prices, close: Prices]
NoBar(p) == [n |-> 0, lo |-> p, hi |-> p, close |-> p]

(* x for a long position, -x for a short one: the larger, the better *)
Toward(p, x) == IF p.long THEN x ELSE -x
Best(p, b) == IF p.long THEN b.hi ELSE b.lo
Worst(p, b) == IF p.long THEN b.lo ELSE b.hi
Reaches(p, b, x) == Toward(p, Best(p, b)) >= Toward(p, x)
Falls(p, b, x) == Toward(p, Worst(p, b)) <= Toward(p, x)
Gain(p, exit) == Toward(p, exit) - Toward(p, p.entry)

(* _floor_to_step of half of n lots, and of what is left when half is      *)
(* taken off: value // step is one too small where the quotient is just    *)
(* below a whole number as a binary fraction                               *)
HalfOf == <<0, 1, 1, 2, 2, 2, 3, 4, 4, 5>>
RestOf == <<1, 1, 1, 2, 3, 3, 4, 4, 4, 5>>

(* The first bar has no positions to go over *)
Init ==
    /\ pc = "scan" /\ nextOpen \in Prices /\ bar = NoBar(nextOpen)
    /\ work = {} /\ open = <<>> /\ tickets = 0 /\ trades = {} /\ balance = 0
    /\ before = <<>>

----------------------------------------------------------------------------
(* A position in a bar *)

Trade(t, p, exit, lot, reason) ==
    [ticket |-> t, position |-> p, exit |-> exit, lot |-> lot, reason |-> reason]

(* _maybe_adjust_management, first part *)
TriggerBe(p) == p.entry + Toward(p, MoveBeAtR * p.risk)
PartialDue(p) == ~p.partial /\ Reaches(p, bar, TriggerBe(p))
PartialLots(p) == IF PartialDue(p) /\ HalfOf[p.lot] \in 1..p.lot - 1 THEN HalfOf[p.lot] ELSE 0

(* Mutant: the closed lots are taken off twice *)
AfterDoublePartial(p) ==
    IF PartialLots(p) > 0
    THEN [p EXCEPT !.lot = RestOf[@] - HalfOf[@], !.sl = p.entry, !.partial = TRUE]
    ELSE [p EXCEPT !.partial = @ \/ PartialDue(p)]

(* Mutant: the stop stays where it is *)
PartialWithoutStop(p) ==
    IF PartialLots(p) > 0 THEN [p EXCEPT !.lot = RestOf[@], !.partial = TRUE]
    ELSE [p EXCEPT !.partial = @ \/ PartialDue(p)]

(* Mutant: the closed lots stay open *)
PartialOfNothing(p) ==
    IF PartialLots(p) > 0 THEN [p EXCEPT !.sl = p.entry, !.partial = TRUE]
    ELSE [p EXCEPT !.partial = @ \/ PartialDue(p)]

AfterPartial(p) ==
    IF PartialLots(p) > 0 THEN [p EXCEPT !.lot = RestOf[@], !.sl = p.entry, !.partial = TRUE]
    ELSE [p EXCEPT !.partial = @ \/ PartialDue(p)]

(* Mutant: the stop follows the market both ways *)
TrailedBothWays(p) ==
    LET active == p.trailing \/ Reaches(p, bar, p.entry + Toward(p, TrailAtR * p.risk))
    IN [p EXCEPT !.trailing = active,
                 !.sl = IF active THEN Best(p, bar) - Toward(p, TrailDistance) ELSE @]

(* Second part: the trailing stop follows the best price of the bar *)
Trailed(p) ==
    LET active == p.trailing \/ Reaches(p, bar, p.entry + Toward(p, TrailAtR * p.risk))
        stop == Best(p, bar) - Toward(p, TrailDistance)
    IN [p EXCEPT !.trailing = active,
                 !.sl = IF active /\ Toward(p, stop) > Toward(p, @) THEN stop ELSE @]

Managed(p) == Trailed(AfterPartial(p))

StopHit(p, b) == Falls(p, b, p.sl)
TargetHit(p, b) == Reaches(p, b, p.tp)
TooOld(p) == bar.n - p.at >= MaxDuration

(* How the bar ends the managed position: stop before target before time *)
Exit(t, p) ==
    IF StopHit(p, bar) THEN {Trade(t, p, p.sl, p.lot, "stop_loss")}
    ELSE IF TargetHit(p, bar) THEN {Trade(t, p, p.tp, p.lot, "take_profit")}
    ELSE IF TooOld(p) THEN {Trade(t, p, bar.close, p.lot, "max_duration")}
    ELSE {}

Partial(t, p) ==
    IF PartialLots(p) > 0
    THEN {Trade(t, p, TriggerBe(p), PartialLots(p), "partial")} ELSE {}

(* What a partial close or an exit, if there is one, adds to the balance *)
Pnl(tr) == Gain(tr.position, tr.exit) * tr.lot
PnlOf(closed) == IF closed = {} THEN 0 ELSE Pnl(CHOOSE tr \in closed: TRUE)
Book(partial, exit) ==
    /\ trades' = trades \cup partial \cup exit
    /\ balance' = balance + PnlOf(partial) + PnlOf(exit)

Without(t) == [u \in DOMAIN open \ {t} |-> open[u]]

----------------------------------------------------------------------------
(* run() *)

(* The bar opens at nextOpen and ranges from lo to hi *)
NextBar ==
    /\ pc = "next" /\ bar.n < MaxBars
    /\ \E lo, hi, close \in Prices:
         /\ lo <= nextOpen /\ nextOpen <= hi /\ lo <= close /\ close <= hi
         /\ bar' = [n |-> bar.n + 1, lo |-> lo, hi |-> hi, close |-> close]
    /\ nextOpen' \in Prices
    /\ work' = DOMAIN open /\ before' = open /\ pc' = "manage"
    /\ UNCHANGED <<open, tickets, trades, balance>>

(* _process_bar_for_open_positions, one position *)
ProcessPosition(t) ==
    /\ pc = "manage" /\ t \in work
    /\ work' = work \ {t}
    /\ LET p == Managed(open[t])
           exit == Exit(t, p)
       IN /\ Book(Partial(t, open[t]), exit)
          /\ open' = IF exit # {} THEN Without(t) ELSE [open EXCEPT ![t] = p]
    /\ UNCHANGED <<pc, bar, nextOpen, tickets, before>>

(* The bar is over; at the hour of the rollover the swap is charged *)
BarProcessed ==
    /\ pc = "manage" /\ work = {}
    /\ \/ pc' = "scan" /\ UNCHANGED work
       \/ pc' = "swap" /\ work' = DOMAIN open
    /\ UNCHANGED <<bar, nextOpen, open, tickets, trades, balance, before>>

(* _apply_daily_swap, one position *)
ApplyDailySwap(t) ==
    /\ pc = "swap" /\ t \in work
    /\ work' = work \ {t}
    /\ balance' = balance + (IF open[t].long THEN SwapLong ELSE SwapShort) * open[t].lot
    /\ UNCHANGED <<pc, bar, nextOpen, open, tickets, trades, before>>

SwapApplied ==
    /\ pc = "swap" /\ work = {}
    /\ pc' = "scan"
    /\ UNCHANGED <<bar, nextOpen, work, open, tickets, trades, balance, before>>

NoSignal ==
    /\ pc = "scan"
    /\ pc' = "next"
    /\ UNCHANGED <<bar, nextOpen, work, open, tickets, trades, balance, before>>

(* _open_position for a signal whose stop and target lie around its entry; *)
(* the fill may lie anywhere                                               *)
OpenPosition ==
    /\ pc = "scan" /\ Cardinality(DOMAIN open) < MaxConcurrent /\ tickets < MaxTickets
    /\ \E long \in BOOLEAN, sl, entry, tp \in Prices, cost \in Costs, lot \in Lots:
         /\ IF long THEN sl < entry /\ entry < tp ELSE tp < entry /\ entry < sl
         /\ LET p == [long |-> long, sl |-> sl, tp |-> tp, lot |-> lot, at |-> bar.n + 1,
                      entry |-> IF long THEN nextOpen + cost ELSE nextOpen - cost,
                      risk |-> IF long THEN entry - sl ELSE sl - entry,
                      partial |-> FALSE, trailing |-> FALSE]
            IN open' = [u \in DOMAIN open \cup {tickets + 1} |->
                          IF u = tickets + 1 THEN p ELSE open[u]]
    /\ tickets' = tickets + 1 /\ pc' = "next"
    /\ UNCHANGED <<bar, nextOpen, work, trades, balance, before>>

(* The loop ends one bar before the last one, whose range is not looked at *)
LastBar ==
    /\ pc = "next"
    /\ \E close \in Prices:
         bar' = [n |-> bar.n + 1, lo |-> close, hi |-> close, close |-> close]
    /\ work' = DOMAIN open /\ before' = open /\ pc' = "finish"
    /\ UNCHANGED <<nextOpen, open, tickets, trades, balance>>

(* What is open is closed at the close of the last bar, one position *)
ForceClose(t) ==
    /\ pc = "finish" /\ t \in work
    /\ work' = work \ {t}
    /\ Book({}, {Trade(t, open[t], bar.close, open[t].lot, "bt_end")})
    /\ open' = Without(t)
    /\ UNCHANGED <<pc, bar, nextOpen, tickets, before>>

Next ==
    \/ NextBar \/ (\E t \in work: ProcessPosition(t)) \/ BarProcessed
    \/ (\E t \in work: ApplyDailySwap(t)) \/ SwapApplied
    \/ NoSignal \/ OpenPosition \/ LastBar \/ (\E t \in work: ForceClose(t))

Spec == Init /\ [][Next]_vars

----------------------------------------------------------------------------
(* Properties *)

(* The stage, the bar, the open positions and the trades have their types. *)
TypeOK ==
    /\ pc \in Stages
    /\ bar \in Bars /\ nextOpen \in Prices
    /\ tickets \in 0..MaxTickets
    /\ work \subseteq DOMAIN open /\ DOMAIN open \subseteq 1..tickets
    /\ \A t \in DOMAIN open: open[t].lot \in 1..10 /\ open[t].risk \in Nat \ {0}
    /\ \A tr \in trades: tr.ticket \in 1..tickets /\ tr.lot \in 1..10
    /\ balance \in Int

(* The market has jumped over the stop of the signal before it was filled; *)
(* break-even is then the looser stop.                                     *)
Gapped(p) == ~p.partial /\ Toward(p, p.sl) > Toward(p, p.entry)

(* A position that survives a bar has a stop no looser than before it, and *)
(* one that is stopped out leaves at a stop no looser than before.         *)
StopOnlyTightens ==
    \A t \in {u \in DOMAIN before: ~Gapped(before[u])}:
        LET stop == before[t].sl
        IN /\ t \in DOMAIN open => Toward(open[t], open[t].sl) >= Toward(open[t], stop)
           /\ \A tr \in trades: (tr.ticket = t /\ tr.reason = "stop_loss")
                  => Toward(before[t], tr.exit) >= Toward(before[t], stop)

(* The market, or the costs of the fill, have passed the target before.    *)
FilledBeyond(p) == Toward(p, p.entry) > Toward(p, p.tp)

(* What remains after a partial close is never closed at a loss, except at *)
(* the end of the data or at a target that lay behind the fill.            *)
RemainderNeverLoses ==
    \A a, b \in trades:
        (a.ticket = b.ticket /\ a.reason = "partial" /\ b.reason # "bt_end"
            /\ ~FilledBeyond(b.position))
            => Gain(b.position, b.exit) >= 0

(* A position is closed in part at most once, and what that takes and what *)
(* is left, open or closed since, is together no more than was opened.     *)
LotsNotCreated ==
    \A a \in {tr \in trades: tr.reason = "partial"}:
        /\ \A b \in trades \ {a}: b.ticket = a.ticket =>
               b.reason # "partial" /\ a.lot + b.lot <= a.position.lot
        /\ a.ticket \in DOMAIN open => a.lot + open[a.ticket].lot <= a.position.lot

----------------------------------------------------------------------------
(* The inductive invariants behind the three properties.                   *)

Positions == [long: BOOLEAN, sl: Int, tp: Int, lot: 1..10, at: Nat, entry: Int,
              risk: Nat \ {0}, partial: BOOLEAN, trailing: BOOLEAN]

(* Tickets, positions, trades and the balance have their types             *)
Records ==
    /\ pc \in Stages /\ bar \in Bars /\ nextOpen \in Prices
    /\ bar.lo <= bar.close /\ bar.close <= bar.hi
    /\ tickets \in 0..MaxTickets /\ balance \in Int
    /\ DOMAIN open \subseteq 1..tickets /\ DOMAIN before \subseteq 1..tickets
    /\ work \subseteq DOMAIN open /\ (pc \notin Loops => work = {})
    /\ \A t \in DOMAIN open: open[t] \in Positions
    /\ \A t \in DOMAIN before: before[t] \in Positions
    /\ \A tr \in trades: /\ tr.ticket \in 1..tickets /\ tr.lot \in 1..10 /\ tr.exit \in Int
                         /\ tr.position \in Positions

(* What the bar has not gone over yet is as it was before it, and what it  *)
(* has gone over is still on the same side                                 *)
SinceBar ==
    /\ pc = "manage" => \A t \in work: t \in DOMAIN before /\ open[t] = before[t]
    /\ \A t \in DOMAIN open \cap DOMAIN before: open[t].long = before[t].long

(* The trades of an open position are its partial close                    *)
OpenTrades == \A tr \in trades: tr.ticket \in DOMAIN open => tr.reason = "partial"

(* Once closed in part a position knows it, and its stop is at break-even  *)
(* or better                                                               *)
AtBreakEven(p) == p.partial /\ Toward(p, p.sl) >= Toward(p, p.entry)
PartialsKnown ==
    \A tr \in trades:
        (tr.reason = "partial" /\ tr.ticket \in DOMAIN open) => AtBreakEven(open[tr.ticket])

BacktestInv ==
    /\ Records /\ SinceBar /\ OpenTrades /\ PartialsKnown
    /\ StopOnlyTightens /\ RemainderNeverLoses /\ LotsNotCreated
=============================================================================
