------------------------------- MODULE Engine -------------------------------
(***************************************************************************)
(* core/engine.py with the threads that run around it (main.py,            *)
(* notifications/telegram_bot.py) and the broker behind                    *)
(* core/mt5_connector.py: one engine thread that runs tick() in a loop,    *)
(* one listener thread that executes the operator's commands in between    *)
(* its steps, and a broker that opens, closes and loses positions.         *)
(*                                                                         *)
(* Each call to the broker is a step of its own: the connector's lock is   *)
(* released between calls, so the other thread can act there.  What a      *)
(* thread has read (the position list of a loop, the direction of its      *)
(* signal) is kept in a variable of that thread until it is used.          *)
(*                                                                         *)
(* The numbers of the risk manager are abstracted to the answers it can    *)
(* give (RiskManager.tla has them); session, news, candles, regime and     *)
(* strategy are a choice, since any of their answers can occur.            *)
(***************************************************************************)
EXTENDS Integers, FiniteSets

CONSTANTS
    Tickets,        \* positions that can ever be opened
    Directions,     \* directions a signal can have
    MaxConcurrent,  \* risk.max_concurrent_trades
    MaxErrors,      \* tick errors in a row after which start() pauses
    Commands,       \* what the operator sends: "pause" "resume" "closeall" "kill"
    MaxCrashes,     \* bound: deaths of the process, stops included
    MaxFaults,      \* bound: failed broker, data or database calls
    BlindReads,     \* the calls of get_positions that may fail and answer []:
                    \* of "kill" "manage" "gate" "operator"
    BrokerCloses,   \* may the broker close a position (stop loss, take profit)?
    MayTrip         \* may the account get into the terminal condition of the kill switch?

ASSUME EngineAssumption ==
    /\ IsFiniteSet(Tickets)
    /\ MaxConcurrent \in Nat \ {0} /\ MaxErrors \in Nat \ {0}
    /\ Commands \subseteq {"pause", "resume", "closeall", "kill"}
    /\ MaxCrashes \in Nat /\ MaxFaults \in Nat
    /\ BlindReads \subseteq {"kill", "manage", "gate", "operator"}
    /\ BrokerCloses \in BOOLEAN /\ MayTrip \in BOOLEAN

VARIABLES
    up,         \* is the process running?
    pc,         \* where the engine thread is
    work,       \* positions the engine's current loop still has to visit
    scanning,   \* may this tick go on to look for a signal?
    signal,     \* direction of the signal being considered
    listed,     \* positions _consider_signal has read
    current,    \* ticket of the order just filled
    kill,       \* risk.state.kill_switch_active
    killDisk,   \* the same, in the database
    paused,     \* engine.state.paused
    pausedDisk, \* the same, in the database
    errors,     \* engine.state.consecutive_errors
    tg,         \* where the listener thread is
    tgWork,     \* positions its close_all still has to visit
    connected,  \* is the terminal connected?
    pos,        \* the broker's positions
    dir,        \* their directions
    row,        \* the trades table: a row, with or without exit_time
    expired,    \* positions the trade manager wants closed
    faults, crashes,
    wish,       \* history: the operator's last acknowledged command
    late        \* history: orders filled since the engine was paused or killed

engine == <<pc, work, scanning, signal, listed, current>>
telegram == <<tg, tgWork>>
flags == <<kill, killDisk, paused, pausedDisk>>
broker == <<connected, pos, dir, expired>>
history == <<wish, late>>
vars == <<up, engine, flags, errors, telegram, broker, row, faults, crashes, history>>

NoTicket == 0
NoDirection == "flat"

Open == {t \in Tickets: pos[t] = "open"}
Fresh == {t \in Tickets: pos[t] = "none"}

Fault == faults < MaxFaults /\ faults' = faults + 1
NoFault == UNCHANGED faults

(* get_positions: an error inside it reads as "no positions" *)
Lists(reader, S) ==
    \/ S = Open /\ NoFault
    \/ S = {} /\ reader \in BlindReads /\ Fault

(* close_position(t): the broker closes it, or refuses; without a position *)
(* or a connection it cannot succeed                                       *)
Closed(t) == connected /\ pos[t] = "open" /\ pos' = [pos EXCEPT ![t] = "closed"] /\ NoFault
CloseFails(t) == UNCHANGED pos /\ IF connected /\ pos[t] = "open" THEN Fault ELSE NoFault
TryClose(t) == Closed(t) \/ CloseFails(t)
(* A close that fills in part is reported as a success, like a full one *)
FillsInPart(t) == connected /\ pos[t] = "open" /\ UNCHANGED pos /\ Fault

SetPaused(b) == paused' = b /\ pausedDisk' = b
SetKill == kill' = TRUE /\ killDisk' = TRUE

(* The account may get into the terminal condition wherever the risk       *)
(* manager looks at it                                                     *)
MayKill == UNCHANGED <<kill, killDisk>> \/ (MayTrip /\ ~kill /\ SetKill)

(* An order is filled while the engine is stopped, or the stop is lifted *)
CountLate == late' = IF paused \/ killDisk THEN late + 1 ELSE 0
LiftLate == late' = IF killDisk THEN late ELSE 0

----------------------------------------------------------------------------
Init ==
    /\ up = FALSE /\ pc = "down"
    /\ work = {} /\ scanning = FALSE /\ signal = NoDirection /\ listed = {} /\ current = NoTicket
    /\ kill = FALSE /\ killDisk = FALSE /\ paused = FALSE /\ pausedDisk = FALSE
    /\ errors = 0
    /\ tg = "idle" /\ tgWork = {}
    /\ connected = TRUE
    /\ pos = [t \in Tickets |-> "none"] /\ dir = [t \in Tickets |-> NoDirection]
    /\ row = [t \in Tickets |-> "none"]
    /\ expired = {}
    /\ faults = 0 /\ crashes = 0
    /\ wish = "none" /\ late = 0

----------------------------------------------------------------------------
(* Process start and stop *)

(* Mutant: the kill switch is not loaded *)
StartUnkilled ==
    /\ ~up
    /\ up' = TRUE /\ pc' = "starting"
    /\ kill' = FALSE /\ paused' = pausedDisk
    /\ connected' = TRUE
    /\ UNCHANGED <<work, scanning, signal, listed, current, killDisk, pausedDisk, errors,
                   telegram, pos, dir, expired, row, faults, crashes, history>>

(* main(): connect, construct the Engine (which loads the saved flags) and *)
(* start the notifier's threads, in this order, before engine.start()      *)
StartProcess ==
    /\ ~up
    /\ up' = TRUE /\ pc' = "starting"
    /\ kill' = killDisk /\ paused' = pausedDisk
    /\ connected' = TRUE
    /\ UNCHANGED <<work, scanning, signal, listed, current, killDisk, pausedDisk, errors,
                   telegram, pos, dir, expired, row, faults, crashes, history>>

(* _startup: the loaded pause is cleared in memory only *)
ClearPause ==
    /\ up /\ pc = "starting"
    /\ paused' = FALSE /\ LiftLate /\ pc' = "warmup"
    /\ UNCHANGED <<up, work, scanning, signal, listed, current, kill, killDisk, pausedDisk,
                   errors, telegram, broker, row, faults, crashes, wish>>

(* _check_clock_drift pauses, if it finds a drift in an active session *)
MayDrift == (SetPaused(TRUE) /\ Fault) \/ (UNCHANGED <<paused, pausedDisk>> /\ NoFault)

(* _check_clock_drift, _warm_up, _reconcile_positions (which only logs) *)
WarmUp ==
    /\ up /\ pc = "warmup"
    /\ MayDrift /\ pc' = "idle"
    /\ UNCHANGED <<up, work, scanning, signal, listed, current, kill, killDisk, errors,
                   telegram, broker, row, crashes, history>>

(* What is left when the process ends *)
Dies ==
    /\ up' = FALSE /\ pc' = "down"
    /\ work' = {} /\ scanning' = FALSE /\ signal' = NoDirection /\ listed' = {}
    /\ current' = NoTicket
    /\ kill' = FALSE /\ paused' = FALSE /\ errors' = 0
    /\ tg' = "idle" /\ tgWork' = {}
    /\ LiftLate

(* warm-up validation fails: start() raises before its loop *)
WarmUpFails ==
    /\ up /\ pc = "warmup" /\ Fault
    /\ Dies
    /\ UNCHANGED <<killDisk, pausedDisk, broker, row, crashes, wish>>

(* A signal handler calls stop(); _shutdown saves the engine state *)
Stop ==
    /\ up /\ pc = "idle" /\ crashes < MaxCrashes
    /\ crashes' = crashes + 1
    /\ pausedDisk' = paused
    /\ Dies
    /\ UNCHANGED <<killDisk, broker, row, faults, wish>>

Crash ==
    /\ up /\ crashes < MaxCrashes
    /\ crashes' = crashes + 1
    /\ Dies
    /\ UNCHANGED <<killDisk, pausedDisk, broker, row, faults, wish>>

----------------------------------------------------------------------------
(* tick(): health *)

(* tick() returns; start() clears the error count *)
EndTick ==
    /\ pc' = "idle" /\ errors' = 0
    /\ work' = {} /\ scanning' = FALSE /\ signal' = NoDirection /\ listed' = {}
    /\ current' = NoTicket

GoesTo(l) == pc' = l /\ UNCHANGED errors

CheckConnection ==
    /\ up /\ pc = "idle" /\ connected
    /\ GoesTo("health")
    /\ UNCHANGED <<up, work, scanning, signal, listed, current, flags, telegram, broker, row,
                   faults, crashes, history>>

(* reconnect() succeeds within its attempts *)
Reconnect ==
    /\ up /\ pc = "idle" /\ ~connected
    /\ connected' = TRUE /\ GoesTo("health")
    /\ UNCHANGED <<up, work, scanning, signal, listed, current, flags, telegram, pos, dir,
                   expired, row, faults, crashes, history>>

(* reconnect() gives up after max_reconnect_attempts *)
ReconnectFails ==
    /\ up /\ pc = "idle" /\ ~connected /\ Fault
    /\ SetPaused(TRUE) /\ EndTick
    /\ UNCHANGED <<up, kill, killDisk, telegram, broker, row, crashes, history>>

(* get_account_info answers nothing *)
NoAccount ==
    /\ up /\ pc = "health" /\ Fault
    /\ EndTick
    /\ UNCHANGED <<up, flags, telegram, broker, row, crashes, history>>

(* check_kill_switch is true: close_all_positions takes its list *)
KillTick ==
    /\ up /\ pc = "health"
    /\ MayKill /\ kill'
    /\ Lists("kill", work') /\ GoesTo("killing")
    /\ UNCHANGED <<up, scanning, signal, listed, current, paused, pausedDisk, telegram, broker,
                   row, crashes, history>>

KillClose(t) ==
    /\ up /\ pc = "killing" /\ t \in work
    /\ TryClose(t) /\ work' = work \ {t}
    /\ UNCHANGED <<up, pc, scanning, signal, listed, current, flags, errors, telegram,
                   connected, dir, expired, row, crashes, history>>

KillTickDone ==
    /\ up /\ pc = "killing" /\ work = {}
    /\ EndTick
    /\ UNCHANGED <<up, flags, telegram, broker, row, faults, crashes, history>>

(* Mutant: the tick goes on after the kill switch *)
HealthyAnyway ==
    /\ up /\ pc = "health"
    /\ GoesTo("reset")
    /\ UNCHANGED <<up, work, scanning, signal, listed, current, flags, telegram, broker, row,
                   faults, crashes, history>>

(* The margin level is not in danger *)
Healthy ==
    /\ up /\ pc = "health" /\ ~kill
    /\ GoesTo("reset")
    /\ UNCHANGED <<up, work, scanning, signal, listed, current, flags, telegram, broker, row,
                   faults, crashes, history>>

(* _close_weakest_position; whatever happens the tick goes on *)
CloseWeakest ==
    /\ up /\ pc = "health" /\ ~kill
    /\ \E t \in Open: Fault /\ (pos' = pos \/ pos' = [pos EXCEPT ![t] = "closed"])
    /\ GoesTo("reset")
    /\ UNCHANGED <<up, work, scanning, signal, listed, current, flags, telegram, connected, dir,
                   expired, row, crashes, history>>

(* _maybe_daily_reset: the only part that touches this state is the drift check *)
DailyReset ==
    /\ up /\ pc = "reset"
    /\ MayDrift /\ GoesTo("session")
    /\ UNCHANGED <<up, work, scanning, signal, listed, current, kill, killDisk, telegram, broker,
                   row, crashes, history>>

----------------------------------------------------------------------------
(* tick(): session, pause, news, and the positions that exist *)

(* Mutant: no management in a tick that does not trade *)
ManageWhenTrading ==
    /\ up /\ pc = "session"
    /\ scanning' \in {FALSE, ~paused}
    /\ IF scanning' THEN Lists("manage", work') ELSE work' = {} /\ NoFault
    /\ GoesTo("manage")
    /\ UNCHANGED <<up, signal, listed, current, flags, telegram, broker, row, crashes, history>>

(* Session, paused and news decide whether this tick may trade; every      *)
(* branch manages the open positions, if there is a price for them.        *)
Manage ==
    /\ up /\ pc = "session"
    /\ scanning' \in {FALSE, ~paused}
    /\ Lists("manage", work') \/ (work' = {} /\ Fault)
    /\ GoesTo("manage")
    /\ UNCHANGED <<up, signal, listed, current, flags, telegram, broker, row, crashes, history>>

(* _record_trade_close: nothing without a row; else the row gets its exit, *)
(* update_after_trade may trip the kill switch and the health monitor may  *)
(* ask for a pause                                                         *)
RecordClose(t) ==
    IF row[t] # "open" THEN UNCHANGED <<row, flags>>
    ELSE /\ row' = [row EXCEPT ![t] = "closed"]
         /\ MayKill
         /\ UNCHANGED <<paused, pausedDisk>> \/ SetPaused(TRUE)

(* _apply_action: CLOSE_FULL for a position over its maximum duration *)
ApplyClose(t) ==
    /\ up /\ pc = "manage" /\ t \in work \cap expired
    /\ work' = work \ {t}
    /\ \/ /\ Closed(t) \/ FillsInPart(t)
          /\ RecordClose(t)
       \/ CloseFails(t) /\ UNCHANGED <<row, flags>>
    /\ UNCHANGED <<up, pc, scanning, signal, listed, current, errors, telegram,
                   connected, dir, expired, crashes, history>>

(* Any other action (partial close, stop to break-even, trailing) or none *)
ApplyOther(t) ==
    /\ up /\ pc = "manage" /\ t \in work \ expired
    /\ work' = work \ {t}
    /\ UNCHANGED <<up, pc, scanning, signal, listed, current, flags, errors, telegram, broker,
                   row, faults, crashes, history>>

ManageDone ==
    /\ up /\ pc = "manage" /\ work = {}
    /\ IF scanning THEN GoesTo("scan") /\ UNCHANGED <<work, scanning, signal, listed, current>>
       ELSE EndTick
    /\ UNCHANGED <<up, flags, telegram, broker, row, faults, crashes, history>>

----------------------------------------------------------------------------
(* tick(): from the scan to the order *)

(* Bad candles, blocked regime or no signal *)
ScanFindsNothing ==
    /\ up /\ pc = "scan"
    /\ EndTick
    /\ UNCHANGED <<up, flags, telegram, broker, row, faults, crashes, history>>

(* _consider_signal reads the positions *)
ScanFinds(d) ==
    /\ up /\ pc = "scan"
    /\ signal' = d /\ Lists("gate", listed') /\ GoesTo("gate")
    /\ UNCHANGED <<up, work, scanning, current, flags, telegram, broker, row, crashes, history>>

(* Mutant: the directions are not compared *)
AcceptableAnyDirection == ~kill /\ Cardinality(listed) < MaxConcurrent

(* can_trade and validate_signal let the signal pass *)
Acceptable ==
    /\ ~kill
    /\ Cardinality(listed) < MaxConcurrent
    /\ \A t \in listed: dir[t] # signal

GatePasses ==
    /\ up /\ pc = "gate" /\ Acceptable
    /\ GoesTo("order")
    /\ UNCHANGED <<up, work, scanning, signal, listed, current, flags, telegram, broker, row,
                   faults, crashes, history>>

(* A circuit breaker, the spread, the size or the margin refuse, or no     *)
(* order is acceptable                                                     *)
GateRefuses ==
    /\ up /\ pc = "gate"
    /\ MayKill /\ EndTick
    /\ UNCHANGED <<up, paused, pausedDisk, telegram, broker, row, faults, crashes, history>>

(* place_order is filled *)
PlaceOrder(t) ==
    /\ up /\ pc = "order" /\ t \in Fresh /\ connected
    /\ pos' = [pos EXCEPT ![t] = "open"] /\ dir' = [dir EXCEPT ![t] = signal]
    /\ current' = t /\ CountLate
    /\ GoesTo("record")
    /\ UNCHANGED <<up, work, scanning, signal, listed, flags, telegram, connected, expired, row,
                   faults, crashes, wish>>

(* place_order is filled below the minimal volume *)
Underfilled(t) ==
    /\ up /\ pc = "order" /\ t \in Fresh /\ connected /\ Fault
    /\ pos' = [pos EXCEPT ![t] = "open"] /\ dir' = [dir EXCEPT ![t] = signal]
    /\ current' = t /\ CountLate
    /\ GoesTo("underflow")
    /\ UNCHANGED <<up, work, scanning, signal, listed, flags, telegram, connected, expired, row,
                   crashes, wish>>

(* handle_partial_fill: the remainder is closed, the result is not looked at *)
CloseUnderfilled ==
    /\ up /\ pc = "underflow"
    /\ TryClose(current) /\ EndTick
    /\ UNCHANGED <<up, flags, telegram, connected, dir, expired, row, crashes, history>>

(* place_order is rejected *)
OrderRejected ==
    /\ up /\ pc = "order"
    /\ EndTick
    /\ UNCHANGED <<up, flags, telegram, broker, row, faults, crashes, history>>

(* insert_signal and insert_trade *)
RecordTrade ==
    /\ up /\ pc = "record"
    /\ row' = [row EXCEPT ![current] = "open"]
    /\ EndTick
    /\ UNCHANGED <<up, flags, telegram, broker, faults, crashes, history>>

(* Mutant: the error interrupts no loop *)
TickFailsInLoop ==
    /\ up /\ pc \notin {"down", "starting", "warmup", "idle"} /\ Fault
    /\ pc' = "idle" /\ errors' = IF errors < MaxErrors THEN errors + 1 ELSE errors
    /\ UNCHANGED <<up, work, scanning, signal, listed, current, flags, telegram, broker, row,
                   crashes, history>>

(* Mutant: one error more before the pause *)
TickFailsOnceMore ==
    /\ up /\ pc \notin {"down", "starting", "warmup", "idle"} /\ Fault
    /\ pc' = "idle" /\ errors' = IF errors < MaxErrors THEN errors + 1 ELSE errors
    /\ IF errors + 1 > MaxErrors THEN SetPaused(TRUE) ELSE UNCHANGED <<paused, pausedDisk>>
    /\ work' = {} /\ scanning' = FALSE /\ signal' = NoDirection /\ listed' = {}
    /\ current' = NoTicket
    /\ UNCHANGED <<up, kill, killDisk, telegram, broker, row, crashes, history>>

(* An exception anywhere in tick(): start() counts it, and pauses *)
TickFails ==
    /\ up /\ pc \notin {"down", "starting", "warmup", "idle"} /\ Fault
    /\ pc' = "idle"
    /\ errors' = IF errors < MaxErrors THEN errors + 1 ELSE errors
    /\ IF errors + 1 >= MaxErrors THEN SetPaused(TRUE) ELSE UNCHANGED <<paused, pausedDisk>>
    /\ work' = {} /\ scanning' = FALSE /\ signal' = NoDirection /\ listed' = {}
    /\ current' = NoTicket
    /\ UNCHANGED <<up, kill, killDisk, telegram, broker, row, crashes, history>>

EngineStep ==
    \/ ClearPause \/ WarmUp
    \/ CheckConnection \/ Reconnect \/ KillTick \/ (\E t \in Tickets: KillClose(t)) \/ KillTickDone
    \/ Healthy \/ DailyReset \/ Manage
    \/ (\E t \in Tickets: ApplyClose(t) \/ ApplyOther(t)) \/ ManageDone
    \/ ScanFindsNothing \/ (\E d \in Directions: ScanFinds(d))
    \/ GatePasses \/ GateRefuses
    \/ (\E t \in Tickets: PlaceOrder(t)) \/ OrderRejected \/ CloseUnderfilled \/ RecordTrade

EngineFault ==
    \/ WarmUpFails \/ ReconnectFails \/ NoAccount \/ CloseWeakest \/ TickFails
    \/ \E t \in Tickets: Underfilled(t)

----------------------------------------------------------------------------
(* The listener thread *)

TelegramPause ==
    /\ up /\ "pause" \in Commands /\ tg = "idle"
    /\ SetPaused(TRUE) /\ wish' = "pause" /\ UNCHANGED late
    /\ UNCHANGED <<up, engine, kill, killDisk, errors, telegram, broker, row, faults, crashes>>

TelegramResume ==
    /\ up /\ "resume" \in Commands /\ tg = "idle"
    /\ SetPaused(FALSE) /\ wish' = "resume" /\ LiftLate
    /\ UNCHANGED <<up, engine, kill, killDisk, errors, telegram, broker, row, faults, crashes>>

TelegramCloseAll ==
    /\ up /\ "closeall" \in Commands /\ tg = "idle"
    /\ Lists("operator", tgWork') /\ tg' = "closeall"
    /\ UNCHANGED <<up, engine, flags, errors, broker, row, crashes, history>>

(* /kill sets the flag and saves it ... *)
TelegramKill ==
    /\ up /\ "kill" \in Commands /\ tg = "idle"
    /\ SetKill /\ tg' = "kill"
    /\ UNCHANGED <<up, engine, paused, pausedDisk, errors, tgWork, broker, row, faults, crashes,
                   history>>

(* ... then pauses the engine and asks for the list of positions *)
TelegramKillPauses ==
    /\ up /\ tg = "kill"
    /\ SetPaused(TRUE)
    /\ Lists("operator", tgWork') /\ tg' = "killall"
    /\ UNCHANGED <<up, engine, kill, killDisk, errors, broker, row, crashes, history>>

TelegramCloses(t) ==
    /\ up /\ tg \in {"closeall", "killall"} /\ t \in tgWork
    /\ TryClose(t) /\ tgWork' = tgWork \ {t}
    /\ UNCHANGED <<up, engine, flags, errors, tg, connected, dir, expired, row, crashes, history>>

(* The reply is sent *)
TelegramReplies ==
    /\ up /\ tg \in {"closeall", "killall"} /\ tgWork = {}
    /\ tg' = "idle"
    /\ wish' = (IF tg = "killall" THEN "kill" ELSE wish) /\ UNCHANGED late
    /\ UNCHANGED <<up, engine, flags, errors, tgWork, broker, row, faults, crashes>>

TelegramStep ==
    \/ TelegramKillPauses \/ (\E t \in Tickets: TelegramCloses(t)) \/ TelegramReplies

----------------------------------------------------------------------------
(* The broker *)

(* A stop loss or take profit is hit *)
BrokerClose(t) ==
    /\ BrokerCloses /\ pos[t] = "open"
    /\ pos' = [pos EXCEPT ![t] = "closed"]
    /\ UNCHANGED <<up, engine, flags, errors, telegram, connected, dir, expired, row, faults,
                   crashes, history>>

(* A position reaches its maximum duration (or the Friday close) *)
Expire(t) ==
    /\ pos[t] = "open" /\ t \notin expired
    /\ expired' = expired \cup {t}
    /\ UNCHANGED <<up, engine, flags, errors, telegram, connected, pos, dir, row, faults,
                   crashes, history>>

Disconnect ==
    /\ connected /\ up /\ Fault
    /\ connected' = FALSE
    /\ UNCHANGED <<up, engine, flags, errors, telegram, pos, dir, expired, row, crashes, history>>

Next ==
    \/ StartProcess \/ Stop \/ Crash
    \/ EngineStep \/ EngineFault
    \/ TelegramPause \/ TelegramResume \/ TelegramCloseAll \/ TelegramKill \/ TelegramStep
    \/ (\E t \in Tickets: BrokerClose(t) \/ Expire(t)) \/ Disconnect

Spec == Init /\ [][Next]_vars

(* The watchdog restarts the process, and each thread takes its next step  *)
(* as long as the process runs.  The operator, the broker and the faults   *)
(* owe nothing.                                                            *)
Fairness ==
    /\ WF_vars(StartProcess)
    /\ WF_vars(EngineStep)
    /\ WF_vars(TelegramStep)

FairSpec == Spec /\ Fairness

----------------------------------------------------------------------------
(* Properties *)

(* The engine thread exists while the process does, and a thread's work    *)
(* list is only non-empty where it has a loop.                             *)
ThreadsOK ==
    /\ up \in BOOLEAN
    /\ pc \in {"down", "starting", "warmup", "idle", "health", "killing", "reset", "session",
               "manage", "scan", "gate", "order", "record", "underflow"}
    /\ ~up => pc = "down"
    /\ tg \in {"idle", "closeall", "kill", "killall"}
    /\ pc \notin {"killing", "manage"} => work = {}
    /\ tg \notin {"closeall", "killall"} => tgWork = {}
ReadsOK ==
    /\ work \subseteq Tickets /\ listed \subseteq Tickets /\ tgWork \subseteq Tickets
    /\ scanning \in BOOLEAN /\ signal \in Directions \cup {NoDirection}
    /\ current \in Tickets \cup {NoTicket}
FlagsOK ==
    /\ kill \in BOOLEAN /\ killDisk \in BOOLEAN
    /\ paused \in BOOLEAN /\ pausedDisk \in BOOLEAN
TablesOK ==
    /\ connected \in BOOLEAN /\ expired \subseteq Tickets
    /\ pos \in [Tickets -> {"none", "open", "closed"}]
    /\ dir \in [Tickets -> Directions \cup {NoDirection}]
    /\ row \in [Tickets -> {"none", "open", "closed"}]
CountsOK ==
    /\ errors \in 0..MaxErrors
    /\ faults \in Nat /\ crashes \in Nat
    /\ wish \in {"none", "pause", "resume", "kill"} /\ late \in Nat

(* The flags, the threads and the tables have their types. *)
TypeOK == ThreadsOK /\ ReadsOK /\ FlagsOK /\ TablesOK /\ CountsOK

(* There are never more than MaxConcurrent open positions and never two in *)
(* one direction, although the list that was checked may be old when the   *)
(* order is filled.                                                        *)
ExposureLimited ==
    /\ Cardinality(Open) <= MaxConcurrent
    /\ \A s, t \in Open: s # t => dir[s] # dir[t]

(* What the operator is promised: an order is filled while the engine is   *)
(* paused or killed only once, the one of the tick under way, until the    *)
(* pause is lifted; no other step opens a position, and the kill switch,   *)
(* with it the count of late orders, outlives every restart.               *)
Desk == INSTANCE TradingDesk
            WITH open <- Open, halted <- paused, killed <- killDisk, spent <- late > 0
ImplementsDesk == Desk!Spec

(* Once the kill switch is on, the account ends up without positions and   *)
(* stays so, whichever order was under way, whichever close failed and     *)
(* wherever the process died.                                              *)
KillFlattens == killDisk ~> [](Open = {})

(* A position that has outlived its maximum duration is closed, also when  *)
(* the engine is paused, out of session or was restarted in between.       *)
ExpiredCloses == \A t \in Tickets: (t \in expired /\ pos[t] = "open") ~> (pos[t] # "open")

(* After MaxErrors failed ticks in a row the engine is paused, until the   *)
(* operator resumes it or a tick succeeds.                                 *)
ErrorsPause == errors = MaxErrors => paused \/ wish = "resume"
=============================================================================
