---------------------------- MODULE TradeManager ----------------------------
(***************************************************************************)
(* core/trade_manager.py with the part of core/engine.py that carries out  *)
(* its actions: one position, the market, and the broker.                  *)
(*                                                                         *)
(* manage() looks at the position and the price and returns a list of      *)
(* actions; the engine then sends them to the broker one by one, while the *)
(* market moves and the operator may touch the position in his terminal.   *)
(* The manager is stateless: what it did before it can only infer from the *)
(* stop of the position.                                                   *)
(*                                                                         *)
(* Prices are whole points, volumes whole hundredths of a lot, RRs are in  *)
(* hundredths.  The spread is left out: bid and ask are one price.  Of the *)
(* clock the model keeps what the manager asks of it: is the position over *)
(* its maximum duration, is it Friday's close, is it just before rollover. *)
(***************************************************************************)
EXTENDS Integers

CONSTANTS
    Prices,         \* prices the market can have
    Volumes,        \* volumes a position is opened with
    MoveBeAtRR,     \* trade_management.move_to_be_at_rr
    TrailAtRR,      \* trade_management.trailing_activation_rr
    TrailDistance,  \* risk.trailing_stop_distance
    PartialPct,     \* risk.partial_close_pct
    MoveBeAfterPartial, \* risk.move_to_be_after_partial
    MaxRefusals,    \* bound: requests the broker refuses or fills in part
    MaxManual       \* bound: stops the operator moves in his terminal

NoStop == 0

ASSUME ManagerAssumption ==
    /\ Prices \subseteq Nat \ {NoStop}
    /\ Volumes \subseteq Nat \ {0}
    /\ MoveBeAtRR \in Nat \ {0} /\ TrailAtRR \in Nat \ {0} /\ TrailDistance \in Nat
    /\ PartialPct \in 0..100 /\ MoveBeAfterPartial \in BOOLEAN
    /\ MaxRefusals \in Nat /\ MaxManual \in Nat

VARIABLES
    pos,      \* the position at the broker
    price,    \* the market
    hour,     \* "day", "rollover" or "friday"
    old,      \* has the position reached its maximum duration?
    todo,     \* the actions the engine has still to send
    partials, \* history: partial closes filled
    refused,  \* history: requests refused or filled in part
    manual,   \* history: stops moved by the operator
    touched   \* history: was one of them moved since manage() last looked?

vars == <<pos, price, hour, old, todo, partials, refused, manual, touched>>
market == <<price, hour, old>>
operator == <<manual, touched>>

Position == [open: BOOLEAN, long: BOOLEAN, volume: Nat, entry: Int, sl: Int]

(* Actions returned by manage(), in the order part, stop: a full close, a  *)
(* partial close of some volume, a new stop.                               *)
Actions == [close: BOOLEAN, part: Nat, stop: Int]
Order(part, stop) == [close |-> FALSE, part |-> part, stop |-> stop]
Closing == [close |-> TRUE, part |-> 0, stop |-> NoStop]
Nothing == Order(0, NoStop)

(* x in the direction of position p: the larger, the better for it *)
Toward(p, x) == IF p.long THEN x ELSE -x
Abs(x) == IF x < 0 THEN -x ELSE x

(* _at_or_above_breakeven *)
AtBreakeven(p) == p.sl # NoStop /\ Toward(p, p.sl) >= Toward(p, p.entry)

(* Mutant: every stop passes for tighter *)
IsAnyStop(p, stop) == stop # NoStop

(* _is_tighter *)
IsTighter(p, stop) == p.sl = NoStop \/ Toward(p, stop) > Toward(p, p.sl)

(* risk_pp, and _current_rr >= rr *)
Risk(p) == IF p.sl = NoStop THEN 0 ELSE Abs(p.entry - p.sl)
RRReached(p, x, rr) == (Toward(p, x) - Toward(p, p.entry)) * 100 >= rr * Risk(p)

(* _trailing_sl *)
TrailingStop(p, x) == IF p.long THEN x - TrailDistance ELSE x + TrailDistance

(* max(round(volume * partial_pct, 2), 0.01): halves go either way, since  *)
(* the product is a binary fraction                                        *)
PartialVolumes(v) ==
    {n \in 1..v: \/ 2 * (v * PartialPct - n * 100) \in -100..100
                 \/ n = 1 /\ 2 * v * PartialPct <= 100}

Init ==
    /\ price \in Prices
    /\ \E long \in BOOLEAN, v \in Volumes, sl \in Prices:
         /\ IF long THEN sl < price ELSE sl > price
         /\ pos = [open |-> TRUE, long |-> long, volume |-> v, entry |-> price, sl |-> sl]
    /\ hour = "day" /\ old = FALSE
    /\ todo = Nothing
    /\ partials = 0 /\ refused = 0 /\ manual = 0 /\ touched = FALSE

----------------------------------------------------------------------------
(* _actions_for, one action per outcome *)

Idle == pos.open /\ todo = Nothing

(* Maximum duration, Friday's close, or at break-even before rollover *)
HardExit == old \/ hour = "friday" \/ (hour = "rollover" /\ AtBreakeven(pos))

Decide(actions) ==
    /\ todo' = actions /\ touched' = FALSE
    /\ UNCHANGED <<pos, market, partials, refused, manual>>

CloseFull ==
    /\ Idle /\ HardExit
    /\ Decide(Closing)

(* Soft management asks for a stop that is not at the entry *)
Soft == Idle /\ ~HardExit /\ Risk(pos) > 0

PartialDue == PartialPct > 0 /\ ~AtBreakeven(pos) /\ RRReached(pos, price, MoveBeAtRR)
(* Mutant: the whole position may be taken *)
PartialTakesAll(v) == PartialDue /\ v \in PartialVolumes(pos.volume) /\ v <= pos.volume

PartialTaken(v) == PartialDue /\ v \in PartialVolumes(pos.volume) /\ v < pos.volume
NoPartial == PartialDue => \E v \in PartialVolumes(pos.volume): v >= pos.volume

(* Mutant: the stop stays where it is *)
PartialWithoutStop ==
    /\ Soft
    /\ \E v \in 1..pos.volume: PartialTaken(v) /\ Decide(Order(v, NoStop))

PartialClose ==
    /\ Soft
    /\ \E v \in 1..pos.volume:
         /\ PartialTaken(v)
         /\ Decide(Order(v, IF MoveBeAfterPartial THEN pos.entry ELSE NoStop))

Trails ==
    /\ RRReached(pos, price, TrailAtRR)
    /\ IsTighter(pos, TrailingStop(pos, price))

TightenTrailing ==
    /\ Soft /\ NoPartial /\ Trails
    /\ Decide(Order(0, TrailingStop(pos, price)))

BreakevenDue == ~AtBreakeven(pos) /\ RRReached(pos, price, MoveBeAtRR)

MoveToBreakeven ==
    /\ Soft /\ NoPartial /\ ~Trails /\ BreakevenDue
    /\ Decide(Order(0, pos.entry))

NothingToDo ==
    /\ Idle /\ ~HardExit
    /\ Risk(pos) > 0 => NoPartial /\ ~Trails /\ ~BreakevenDue
    /\ Decide(Nothing)

----------------------------------------------------------------------------
(* Engine._apply_action: each action is sent once, whatever its result *)

Filled(p) == pos' = p /\ UNCHANGED refused
Refused == UNCHANGED pos /\ refused < MaxRefusals /\ refused' = refused + 1
Without(v) == [pos EXCEPT !.volume = @ - v]

(* The position is gone: the request finds nothing *)
Gone == ~pos.open /\ UNCHANGED <<pos, refused>>

SendClose ==
    /\ todo.close
    /\ \/ pos.open /\ Filled([pos EXCEPT !.open = FALSE])
       \/ pos.open /\ Refused
       \/ Gone
    /\ todo' = Nothing
    /\ UNCHANGED <<market, partials, operator>>

SendPartial ==
    /\ todo.part > 0
    /\ \/ /\ pos.open /\ Filled(Without(todo.part)) /\ partials' = partials + 1
       \/ /\ pos.open /\ UNCHANGED partials /\ Refused
       \/ /\ UNCHANGED partials /\ Gone
    /\ todo' = [todo EXCEPT !.part = 0]
    /\ UNCHANGED <<market, operator>>

(* modify_position: the broker takes no stop on the wrong side of the market *)
StopAllowed(stop) == Toward(pos, stop) < Toward(pos, price)

SendStop ==
    /\ todo.part = 0 /\ todo.stop # NoStop
    /\ \/ pos.open /\ StopAllowed(todo.stop) /\ Filled([pos EXCEPT !.sl = todo.stop])
       \/ pos.open /\ Refused
       \/ Gone
    /\ todo' = [todo EXCEPT !.stop = NoStop]
    /\ UNCHANGED <<market, partials, operator>>

----------------------------------------------------------------------------
(* The market, the clock and the operator *)

(* A price at or beyond the stop closes the position *)
StopHit(x) == pos.sl # NoStop /\ Toward(pos, x) <= Toward(pos, pos.sl)

PriceMoves ==
    /\ pos.open
    /\ \E x \in Prices \ {price}:
         /\ price' = x
         /\ pos' = IF StopHit(x) THEN [pos EXCEPT !.open = FALSE] ELSE pos
    /\ UNCHANGED <<hour, old, todo, partials, refused, operator>>

HourChanges ==
    /\ hour' \in {"day", "rollover", "friday"} \ {hour}
    /\ UNCHANGED <<pos, price, old, todo, partials, refused, operator>>

GetsOld ==
    /\ old' = TRUE
    /\ UNCHANGED <<pos, price, hour, todo, partials, refused, operator>>

(* The operator moves the stop, or removes it *)
ManualStop ==
    /\ pos.open /\ manual < MaxManual
    /\ \E stop \in Prices \cup {NoStop}:
         /\ stop = NoStop \/ StopAllowed(stop)
         /\ pos' = [pos EXCEPT !.sl = stop]
    /\ manual' = manual + 1 /\ touched' = TRUE
    /\ UNCHANGED <<market, todo, partials, refused>>

Next ==
    \/ CloseFull \/ PartialClose \/ TightenTrailing \/ MoveToBreakeven \/ NothingToDo
    \/ SendClose \/ SendPartial \/ SendStop
    \/ PriceMoves \/ HourChanges \/ GetsOld \/ ManualStop

Spec == Init /\ [][Next]_vars

----------------------------------------------------------------------------
(* Properties *)

(* A partial close never takes the whole position *)
PartialLeavesSome == pos.open => pos.volume >= 1 /\ todo.part < pos.volume

(* The position, the market and the pending actions have their types, and  *)
(* a pending partial close leaves some of the position.                    *)
TypeOK ==
    /\ pos \in Position
    /\ price \in Prices /\ hour \in {"day", "rollover", "friday"} /\ old \in BOOLEAN
    /\ todo \in Actions /\ touched \in BOOLEAN
    /\ partials \in Nat /\ refused \in Nat /\ manual \in Nat
    /\ PartialLeavesSome

(* A request of the engine never moves a stop further from the market than *)
(* it was, although it was computed from an earlier look at the position,  *)
(* unless the operator has moved the stop since that look.                 *)
StopNeverWidens ==
    [][(SendStop /\ ~touched /\ pos.sl # NoStop)
           => Toward(pos, pos'.sl) >= Toward(pos, pos.sl)]_vars

(* The position is partially closed again only after a request has failed  *)
(* or the operator has moved the stop: the stop at break-even is all that  *)
(* remembers that it was done.                                             *)
PartialsFollowRefusals == partials <= 1 + refused + manual

----------------------------------------------------------------------------
(* The inductive invariants behind StopNeverWidens and                     *)
(* PartialsFollowRefusals                                                  *)

(* A stop that is waiting to be sent is no looser than the position's, and *)
(* a partial close waits in front of a move to break-even; the operator    *)
(* may have tightened the position's stop in between.                      *)
QueuedStop ==
    pos.open =>
      /\ (~touched /\ todo.stop # NoStop /\ pos.sl # NoStop)
             => Toward(pos, todo.stop) >= Toward(pos, pos.sl)
      /\ (todo.part > 0 /\ MoveBeAfterPartial) => todo.stop = pos.entry

(* The break-even that a partial close leaves behind, or is about to *)
Secured ==
    \/ AtBreakeven(pos)
    \/ todo.part = 0 /\ todo.stop # NoStop /\ Toward(pos, todo.stop) >= Toward(pos, pos.entry)

(* Each partial close but the one that is secured, and the one that waits, *)
(* is paid for by a refusal or by a hand on the stop.                      *)
PartialsSecured ==
    /\ partials <= 1 + refused + manual
    /\ pos.open =>
         /\ (~Secured \/ todo.part > 0 \/ touched) => partials <= refused + manual
         /\ (todo.part > 0 /\ touched) => partials < refused + manual

=============================================================================
