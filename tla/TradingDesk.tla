---------------------------- MODULE TradingDesk ----------------------------
(***************************************************************************)
(* What the bot promises its operator, without threads, broker calls or    *)
(* errors: positions are opened one at a time; a pause or the kill switch  *)
(* stops the desk, and after that one order may still be filled, the one   *)
(* that was being placed.  The kill switch is never lifted.  Engine.tla    *)
(* implements it (Engine!ImplementsDesk).                                  *)
(***************************************************************************)
CONSTANT Tickets    \* positions that can ever be opened

VARIABLES
    open,       \* the open positions
    halted,     \* is the desk paused?
    killed,     \* is the kill switch on?
    spent       \* has the one late order been filled?

vars == <<open, halted, killed, spent>>

Stopped == halted \/ killed

Init == open = {} /\ halted = FALSE /\ killed = FALSE /\ spent = FALSE

(* An order is filled; if the desk is stopped it is the only late one *)
OpenPosition(t) ==
    /\ t \notin open
    /\ Stopped => ~spent
    /\ open' = open \cup {t}
    /\ spent' = Stopped
    /\ UNCHANGED <<halted, killed>>

(* Positions are closed, the desk is paused or killed: any of them at once *)
Retreat ==
    /\ open' \subseteq open
    /\ halted' \in BOOLEAN /\ (halted => halted')
    /\ killed' \in BOOLEAN /\ (killed => killed')
    /\ UNCHANGED spent

(* The pause is lifted, by the operator or by a restart *)
Resume ==
    /\ halted' = FALSE
    /\ spent' = (spent /\ killed)
    /\ UNCHANGED <<open, killed>>

Next == (\E t \in Tickets: OpenPosition(t)) \/ Retreat \/ Resume

Spec == Init /\ [][Next]_vars
=============================================================================
