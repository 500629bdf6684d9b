---------------------------- MODULE RiskManager ----------------------------
(***************************************************************************)
(* core/risk_manager.py: the circuit breakers, the kill switch and their   *)
(* persistence, as the engine thread calls them during its ticks and as    *)
(* the Telegram listener thread calls them while a tick is running.        *)
(*                                                                         *)
(* RiskState lives in memory and is written to the database by _save(),    *)
(* which first copies the state (to_dict) and then hands the copy to       *)
(* DBManager.set_state.  The database lock covers the second half only, so *)
(* a save is two steps here: Snapshot and WriteState.  Handlers that save  *)
(* more than once end with a save of their final state; the model keeps    *)
(* that last save.  Each write may raise: WriteFails, UpdateRaises and     *)
(* RememberFails say what is given up then and what goes on.               *)
(*                                                                         *)
(* Abstractions: money is counted in whole units and time in hours;        *)
(* counters that no decision reads (daily_trades, weekly_pnl,              *)
(* last_loss_at, current_risk_pct) and the append-only event table are     *)
(* left out.                                                               *)
(***************************************************************************)
EXTENDS Integers

CONSTANTS
    Balances,       \* balances the account can have
    InitBalance,    \* balance when the bot is first started
    Pnls,           \* results of a trade the engine closes
    Floor,          \* circuit_breakers.min_account_balance
    MaxTotalDD,     \* circuit_breakers.max_total_drawdown_pct
    MaxWeeklyDD,    \* circuit_breakers.max_weekly_drawdown_pct
    MaxDailyLoss,   \* circuit_breakers.max_daily_loss_pct
    MaxLosses,      \* circuit_breakers.max_consecutive_losses
    Cooldown,       \* circuit_breakers.consecutive_loss_cooldown_hours
    MaxConcurrent,  \* risk.max_concurrent_trades
    DayLength,      \* hours in a day
    MaxTime,        \* bound: hours the model runs for
    MaxCrashes,     \* bound: crashes of the process
    MaxTrades,      \* bound: trades the engine closes
    Commands,       \* commands of the operator that touch RiskState
    AccountMayFail, \* may get_account_info return None after the health check?
    DatabaseMayFail,\* may a write to the database raise?
    SlowTicks       \* may the clock advance while a tick is running?

ASSUME RiskAssumption ==
    /\ Balances \subseteq Nat
    /\ InitBalance \in Balances
    /\ Pnls \subseteq Int
    /\ Floor \in Nat
    /\ MaxTotalDD \in 0..100 /\ MaxWeeklyDD \in 0..100 /\ MaxDailyLoss \in Nat
    /\ MaxLosses \in Nat \ {0} /\ Cooldown \in Nat \ {0} /\ MaxConcurrent \in Nat \ {0}
    /\ DayLength \in Nat \ {0} /\ MaxTime \in Nat /\ MaxCrashes \in Nat
    /\ MaxTrades \in Nat
    /\ Commands \subseteq {"kill", "risk"}
    /\ AccountMayFail \in BOOLEAN /\ DatabaseMayFail \in BOOLEAN /\ SlowTicks \in BOOLEAN

VARIABLES
    mem,       \* RiskManager.state, the state in memory
    disk,      \* the row STATE_KEY of the system_state table
    save,      \* progress of the _save() a thread is in
    buf,       \* the copy to_dict() made for that save
    up,        \* is the process running?
    pc,        \* where the engine thread is in its tick
    tickNow,   \* "now" captured when the tick began
    closeNow,  \* "now" captured by _record_trade_close
    closing,   \* result of the trade being recorded
    seen,      \* balance the last gate decision was made on
    engineDay, \* Engine.state.last_daily_reset, in memory
    diskDay,   \* the same, in the database
    balance,   \* the account's balance at the broker
    clock,     \* the time
    crashes,   \* crashes so far
    due,       \* history: what the handlers have been told so far
    owed,      \* history: the part of it whose save has completed
    truth,     \* history: what really happened to the account
    trades     \* trades closed so far

Threads == {"engine", "telegram"}
breakerNames == {"CONSECUTIVE_LOSSES", "WEEKLY_DRAWDOWN", "KILL_SWITCH"}

Day(t) == t \div DayLength
None == -1

(* RiskState.  cooldown is cooldown_until, resetDay is daily_reset_date.   *)
RiskState == [losses: Nat, dailyPnl: Int, peak: Nat, cooldown: Nat \cup {None},
              resetDay: Nat \cup {None}, kill: BOOLEAN, breakers: SUBSET breakerNames]

FreshState == [losses |-> 0, dailyPnl |-> 0, peak |-> 0, cooldown |-> None,
               resetDay |-> None, kill |-> FALSE, breakers |-> {}]

(* History of the risk-relevant events: the highest balance a handler was  *)
(* told, the run of losses recorded, the time until which that run forbids *)
(* trading, the day and result of the trades recorded on it, and whether a *)
(* handler found the kill condition.                                       *)
Events == [high: Nat, run: Nat, until: Nat, day: Nat, dayPnl: Int, kill: BOOLEAN]
NoEvents == [high |-> 0, run |-> 0, until |-> 0, day |-> 0, dayPnl |-> 0, kill |-> FALSE]

(* What happened to the account and the operator's wish: the highest      *)
(* balance, whether the kill condition ever held, whether a /kill was      *)
(* saved, and the last day whose reset the engine could not write down.    *)
Truth == [top: Nat, breached: BOOLEAN, asked: BOOLEAN, unwritten: Nat \cup {None}]

vars == <<mem, disk, save, buf, up, pc, tickNow, closeNow, closing, seen, engineDay,
          diskDay, balance, clock, crashes, due, owed, truth, trades>>
account == <<balance, truth, trades>>
process == <<up, crashes>>
database == <<disk, diskDay>>
history == <<due, owed>>
local == <<tickNow, closeNow, closing, seen>>

----------------------------------------------------------------------------
(* Conditions *)

Larger(a, b) == IF a > b THEN a ELSE b

(* Is bal at least pct percent below the peak? *)
DrawdownAtLeast(peak, bal, pct) == peak > 0 /\ (peak - bal) * 100 >= pct * peak

(* _daily_loss_pct(bal) >= max_daily_loss_pct *)
DailyLossReached(pnl, bal) ==
    /\ pnl < 0 /\ bal > 0 /\ bal - pnl > 0
    /\ (-pnl) * 100 >= MaxDailyLoss * (bal - pnl)

(* What get_account_info tells about the balance; the engine turns a None  *)
(* into an empty record, whose balance reads 0.                            *)
ReportedBalances == {balance} \cup (IF AccountMayFail THEN {0} ELSE {})

(* _trigger_kill_switch *)
Killed(s) == [s EXCEPT !.kill = TRUE, !.breakers = @ \cup {"KILL_SWITCH"}]

(* Mutant: the new day starts from a fresh state *)
DailyResetOfEverything(s, t) == [FreshState EXCEPT !.resetDay = Day(t)]

(* reset_daily *)
DailyReset(s, t) == [s EXCEPT !.dailyPnl = 0, !.resetDay = Day(t)]

(* Mutant: a win takes one loss off the run *)
CountedByDifference(s, p, t) ==
    [s EXCEPT !.dailyPnl = @ + p, !.losses = IF p < 0 THEN @ + 1 ELSE @ - 1]

(* Losses and cooldown of update_after_trade *)
Counted(s, p, t) ==
    LET n == IF p < 0 THEN s.losses + 1 ELSE 0
        trips == p < 0 /\ n >= MaxLosses
    IN [s EXCEPT !.dailyPnl = @ + p,
                 !.losses = n,
                 !.cooldown = IF trips THEN t + Cooldown ELSE @,
                 !.breakers = @ \cup (IF trips THEN {"CONSECUTIVE_LOSSES"} ELSE {})]

(* Mutant: the peak is the last balance *)
JudgedByLastBalance(s, bal) ==
    LET judged == [s EXCEPT !.peak = bal]
    IN IF DrawdownAtLeast(s.peak, bal, MaxTotalDD) THEN Killed(judged) ELSE judged

(* Mutant: the weekly limit engages the kill switch *)
JudgedByWeeklyLimit(s, bal) ==
    LET peak == Larger(s.peak, bal)
        judged == [s EXCEPT !.peak = peak]
    IN IF DrawdownAtLeast(peak, bal, MaxWeeklyDD) THEN Killed(judged) ELSE judged

(* Peak and drawdown breakers of update_after_trade *)
Peaked(s, bal) ==
    LET peak == Larger(s.peak, bal)
    IN [s EXCEPT !.peak = peak,
                 !.breakers = @ \cup (IF DrawdownAtLeast(peak, bal, MaxWeeklyDD)
                                      THEN {"WEEKLY_DRAWDOWN"} ELSE {})]
Judged(s, bal) ==
    IF DrawdownAtLeast(Larger(s.peak, bal), bal, MaxTotalDD) THEN Killed(Peaked(s, bal))
    ELSE Peaked(s, bal)

AfterTrade(s, p, bal, t) == Judged(Counted(s, p, t), bal)

(* The terminal condition of can_trade and check_kill_switch *)
Terminal(peak, bal) == bal < Floor \/ DrawdownAtLeast(peak, bal, MaxTotalDD)

(* can_trade lets the daily-loss, cooldown and concurrency tests pass *)
GateOpen(s, bal, open, t) ==
    /\ ~DailyLossReached(s.dailyPnl, bal)
    /\ s.cooldown = None \/ t >= s.cooldown
    /\ open < MaxConcurrent

(* What can_trade leaves behind when it reaches its last test: an expired  *)
(* cooldown is cleared once the daily-loss test has passed.                *)
GateCleared(s, bal, t) ==
    IF s.cooldown # None /\ t >= s.cooldown /\ ~DailyLossReached(s.dailyPnl, bal)
    THEN [s EXCEPT !.cooldown = None] ELSE s

----------------------------------------------------------------------------
Init ==
    /\ mem = FreshState /\ disk = FreshState
    /\ save = [t \in Threads |-> "none"] /\ buf = [t \in Threads |-> FreshState]
    /\ up = TRUE /\ pc = "idle"
    /\ tickNow = 0 /\ closeNow = 0 /\ closing = 0 /\ seen = 0
    /\ engineDay = None /\ diskDay = None
    /\ balance = InitBalance /\ clock = 0 /\ crashes = 0 /\ trades = 0
    /\ due = NoEvents /\ owed = NoEvents
    /\ truth = [top |-> InitBalance, breached |-> Terminal(InitBalance, InitBalance),
                asked |-> FALSE, unwritten |-> None]

----------------------------------------------------------------------------
(* The tick ends: tick()'s locals go out of scope *)
LeaveTick == pc' = "idle" /\ tickNow' = 0 /\ seen' = 0
InTick == UNCHANGED <<tickNow, seen>>
closeLocals == <<closeNow, closing>>

(* _save() *)

EngineAt(l) == up /\ pc = l /\ save["engine"] = "none"

(* The handler ends without a save, or with one *)
NoSave == UNCHANGED save
Save(t) == save' = [save EXCEPT ![t] = "snapshot"]
SaveIf(t, cond) == IF cond THEN Save(t) ELSE NoSave
(* _trigger_kill_switch writes its event before it saves; that may raise,  *)
(* and the handler ends with the flag in memory only                       *)
SaveKill == Save("engine") \/ (DatabaseMayFail /\ NoSave)

Snapshot(t) ==
    /\ up /\ save[t] = "snapshot"
    /\ buf' = [buf EXCEPT ![t] = mem]
    /\ save' = [save EXCEPT ![t] = "write"]
    /\ UNCHANGED <<mem, pc, local, engineDay, database, account, clock, process, history>>

WriteState(t) ==
    /\ up /\ save[t] = "write"
    /\ disk' = buf[t]
    /\ buf' = [buf EXCEPT ![t] = FreshState]
    /\ save' = [save EXCEPT ![t] = "none"]
    /\ owed' = IF t = "engine" THEN due ELSE owed
    /\ truth' = IF t = "telegram" THEN [truth EXCEPT !.asked = @ \/ buf[t].kill] ELSE truth
    /\ UNCHANGED <<mem, pc, local, engineDay, diskDay, balance, trades, clock, process, due>>

(* set_state raises: update_after_trade is given up, without the trade if  *)
(* it was about to reset the day, and the engine goes on; everywhere else  *)
(* the tick ends.  The listener thread loses its save.                     *)
WriteFails(t) ==
    /\ DatabaseMayFail /\ up /\ save[t] = "write"
    /\ buf' = [buf EXCEPT ![t] = FreshState]
    /\ save' = [save EXCEPT ![t] = "none"]
    /\ \/ /\ t = "engine" /\ pc \in {"apply", "manage"}
          /\ pc' = "manage" /\ closeNow' = 0 /\ closing' = 0
          /\ InTick
       \/ /\ t = "engine" /\ pc \notin {"apply", "manage"}
          /\ LeaveTick /\ UNCHANGED closeLocals
       \/ /\ t = "telegram" /\ UNCHANGED <<pc, local>>
    /\ UNCHANGED <<mem, engineDay, database, account, clock, process, history>>

----------------------------------------------------------------------------
(* The engine thread: one tick *)

StartTick ==
    /\ EngineAt("idle")
    /\ tickNow' = clock /\ pc' = "health"
    /\ UNCHANGED <<mem, save, buf, closeNow, closing, seen, engineDay, database, account,
                   clock, process, history>>

(* _system_health_ok got no account data: the tick ends *)
HealthUnknown ==
    /\ EngineAt("health")
    /\ LeaveTick
    /\ UNCHANGED <<mem, save, buf, closeLocals, engineDay, database, account, clock, process, history>>

(* check_kill_switch(balance, now) *)
CheckKillSwitch ==
    /\ EngineAt("health")
    /\ LET terminal == Terminal(mem.peak, balance)
           trips == terminal /\ ~mem.kill
       IN /\ mem' = IF trips THEN Killed(mem) ELSE mem
          /\ IF trips THEN SaveKill ELSE NoSave
          /\ due' = [due EXCEPT !.kill = @ \/ trips]
          /\ IF terminal \/ mem.kill THEN LeaveTick ELSE pc' = "reset" /\ InTick
    /\ UNCHANGED <<buf, closeLocals, engineDay, database, account, clock, process, owed>>

(* Engine._maybe_daily_reset: reset_daily when the day has changed *)
ResetDaily ==
    /\ EngineAt("reset") /\ engineDay # Day(tickNow)
    /\ mem' = DailyReset(mem, tickNow)
    /\ Save("engine") /\ pc' = "resetDone"
    /\ UNCHANGED <<buf, local, engineDay, database, account, clock, process, history>>

RememberReset ==
    /\ EngineAt("resetDone")
    /\ engineDay' = Day(tickNow) /\ diskDay' = Day(tickNow)
    /\ pc' = "manage"
    /\ UNCHANGED <<mem, disk, save, buf, local, account, clock, process, history>>

(* _save_state raises: the day is remembered in memory only, and the tick  *)
(* ends; or the baseline cannot be written, and the day is not remembered  *)
RememberFails ==
    /\ DatabaseMayFail /\ EngineAt("resetDone")
    /\ \/ /\ engineDay' = Day(tickNow)
          /\ truth' = [truth EXCEPT !.unwritten = Day(tickNow)]
       \/ UNCHANGED <<engineDay, truth>>
    /\ LeaveTick
    /\ UNCHANGED <<mem, save, buf, closeLocals, database, balance, trades, clock, process, history>>

SkipReset ==
    /\ EngineAt("reset") /\ engineDay = Day(tickNow)
    /\ pc' = "manage"
    /\ UNCHANGED <<mem, save, buf, local, engineDay, database, account, clock, process, history>>

(* The account's balance changes at the broker *)
Moves(b) ==
    LET top == Larger(truth.top, b) IN
    /\ balance' = b
    /\ truth' = [truth EXCEPT !.top = top, !.breached = @ \/ Terminal(top, b)]

(* The engine closes a position with result p; _record_trade_close begins *)
CloseTrade(p) ==
    /\ EngineAt("manage") /\ balance + p \in Balances /\ trades < MaxTrades
    /\ Moves(balance + p) /\ trades' = trades + 1
    /\ closing' = p /\ closeNow' = clock /\ pc' = "periods"
    /\ UNCHANGED <<mem, save, buf, tickNow, seen, engineDay, database, clock, process, history>>

(* Mutant: the date is not compared *)
ResetPeriodsAlways ==
    /\ EngineAt("periods")
    /\ mem' = DailyReset(mem, closeNow) /\ Save("engine")
    /\ pc' = "apply"
    /\ UNCHANGED <<buf, local, engineDay, database, account, clock, process, history>>

(* update_after_trade, first part: _reset_periods_if_needed *)
ResetPeriods ==
    /\ EngineAt("periods")
    /\ LET stale == mem.resetDay # Day(closeNow)
       IN /\ mem' = IF stale THEN DailyReset(mem, closeNow) ELSE mem
          /\ SaveIf("engine", stale)
    /\ pc' = "apply"
    /\ UNCHANGED <<buf, local, engineDay, database, account, clock, process, history>>

(* What the history records when a trade with result p is booked *)
Booked(h, p, bal, t) ==
    LET n == IF p < 0 THEN h.run + 1 ELSE 0
        sameDay == h.day = Day(t)
    IN [h EXCEPT !.high = Larger(@, bal),
                 !.run = n,
                 !.until = IF p < 0 /\ n >= MaxLosses THEN t + Cooldown ELSE @,
                 !.day = Day(t),
                 !.dayPnl = IF sameDay THEN @ + p ELSE p,
                 !.kill = @ \/ DrawdownAtLeast(Larger(h.high, bal), bal, MaxTotalDD)]

(* update_after_trade, second part: counters, breakers, peak, drawdown *)
UpdateAfterTrade ==
    /\ EngineAt("apply")
    /\ \E bal \in ReportedBalances:
         /\ mem' = AfterTrade(mem, closing, bal, closeNow)
         /\ due' = Booked(due, closing, bal, closeNow)
    /\ Save("engine") /\ pc' = "manage"
    /\ closeNow' = 0 /\ closing' = 0
    /\ UNCHANGED <<buf, tickNow, seen, engineDay, database, account, clock, process, owed>>

(* update_after_trade raises where it cannot write the event of a breaker: *)
(* the run of losses, the weekly drawdown or the kill switch.  What it has *)
(* changed so far stays, unsaved, and the engine goes on.                  *)
UpdateRaises ==
    /\ DatabaseMayFail /\ EngineAt("apply")
    /\ \E bal \in ReportedBalances:
         LET counted == Counted(mem, closing, closeNow)
             booked == Booked(due, closing, bal, closeNow)
         IN \/ /\ closing < 0 /\ counted.losses >= MaxLosses
               /\ mem' = counted
               /\ due' = [booked EXCEPT !.high = due.high, !.kill = due.kill]
            \/ /\ DrawdownAtLeast(Larger(mem.peak, bal), bal, MaxWeeklyDD)
               /\ mem' = Peaked(counted, bal)
               /\ due' = [booked EXCEPT !.kill = due.kill]
            \/ /\ ~mem.kill /\ DrawdownAtLeast(Larger(mem.peak, bal), bal, MaxTotalDD)
               /\ mem' = Judged(counted, bal)
               /\ due' = booked
    /\ pc' = "manage" /\ closeNow' = 0 /\ closing' = 0
    /\ UNCHANGED <<save, buf, tickNow, seen, engineDay, database, account, clock, process, owed>>

(* No trade is (further) closed and there is a signal to consider, or not *)
EndManage ==
    /\ EngineAt("manage")
    /\ LeaveTick \/ (pc' = "gate" /\ InTick)
    /\ UNCHANGED <<mem, save, buf, closeLocals, engineDay, database, account, clock, process, history>>

(* can_trade refuses because the kill switch is active *)
GateKilled ==
    /\ EngineAt("gate") /\ mem.kill
    /\ LeaveTick
    /\ UNCHANGED <<mem, save, buf, closeLocals, engineDay, database, account, clock, process, history>>

(* can_trade finds the balance below the floor (the peak is not touched)   *)
(* or the drawdown over its limit (the peak has been raised)               *)
GateTrips ==
    /\ EngineAt("gate") /\ ~mem.kill
    /\ \E bal \in ReportedBalances:
         LET peak == IF bal < Floor THEN mem.peak ELSE Larger(mem.peak, bal) IN
         /\ Terminal(peak, bal)
         /\ mem' = Killed([mem EXCEPT !.peak = peak])
         /\ due' = [due EXCEPT !.kill = TRUE]
    /\ SaveKill /\ LeaveTick
    /\ UNCHANGED <<buf, closeLocals, engineDay, database, account, clock, process, owed>>

(* can_trade gets past the kill conditions with balance bal *)
GateAlive(bal) ==
    /\ ~mem.kill
    /\ ~Terminal(Larger(mem.peak, bal), bal)
    /\ due' = [due EXCEPT !.high = Larger(@, bal)]

(* can_trade refuses: low margin level, daily loss, cooldown or positions *)
GateRefuses ==
    /\ EngineAt("gate")
    /\ \E bal \in ReportedBalances, open \in 0..MaxConcurrent, lowMargin \in BOOLEAN:
         LET peaked == [mem EXCEPT !.peak = Larger(@, bal)]
         IN /\ GateAlive(bal)
            /\ lowMargin \/ ~GateOpen(mem, bal, open, tickNow)
            /\ mem' = IF lowMargin THEN peaked ELSE GateCleared(peaked, bal, tickNow)
    /\ SaveIf("engine", mem' # mem)
    /\ LeaveTick
    /\ UNCHANGED <<buf, closeLocals, engineDay, database, account, clock, process, owed>>

(* can_trade answers ok *)
GateApproves ==
    /\ EngineAt("gate")
    /\ \E bal \in ReportedBalances, open \in 0..MaxConcurrent:
         /\ GateAlive(bal)
         /\ GateOpen(mem, bal, open, tickNow)
         /\ mem' = GateCleared([mem EXCEPT !.peak = Larger(@, bal)], bal, tickNow)
         /\ seen' = bal
    /\ SaveIf("engine", mem' # mem)
    /\ pc' = "approved"
    /\ UNCHANGED <<buf, tickNow, closeNow, closing, engineDay, database, account, clock,
                   process, owed>>

(* The order is placed (or refused later on) and the tick ends *)
EndTick ==
    /\ EngineAt("approved")
    /\ LeaveTick
    /\ UNCHANGED <<mem, save, buf, closeLocals, engineDay, database, account, clock, process, history>>

EngineStep ==
    \/ StartTick \/ HealthUnknown \/ CheckKillSwitch
    \/ ResetDaily \/ RememberReset \/ RememberFails \/ SkipReset
    \/ (\E p \in Pnls: CloseTrade(p)) \/ ResetPeriods \/ UpdateAfterTrade \/ UpdateRaises \/ EndManage
    \/ GateKilled \/ GateTrips \/ GateRefuses \/ GateApproves \/ EndTick

----------------------------------------------------------------------------
(* The Telegram listener thread *)

(* /kill: sets the flag and calls risk._save() *)
TelegramKill ==
    /\ up /\ "kill" \in Commands /\ save["telegram"] = "none"
    /\ mem' = [mem EXCEPT !.kill = TRUE]
    /\ Save("telegram")
    /\ UNCHANGED <<buf, pc, local, engineDay, database, account, clock, process, history>>

(* /risk N: sets current_risk_pct, which no decision reads, and saves *)
TelegramRisk ==
    /\ up /\ "risk" \in Commands /\ save["telegram"] = "none"
    /\ Save("telegram")
    /\ UNCHANGED <<mem, buf, pc, local, engineDay, database, account, clock, process, history>>

----------------------------------------------------------------------------
(* The environment *)

(* Swap, a stop hit at the broker, a deposit or a withdrawal *)
BalanceMoves ==
    /\ \E b \in Balances \ {balance}: Moves(b)
    /\ UNCHANGED <<trades, mem, save, buf, pc, local, engineDay, database, clock, process, history>>

TimePasses ==
    /\ clock < MaxTime
    /\ SlowTicks \/ pc = "idle"
    /\ clock' = clock + 1
    /\ UNCHANGED <<mem, save, buf, pc, local, engineDay, database, account, process, history>>

(* The process dies; nothing in memory survives *)
Crash ==
    /\ up /\ crashes < MaxCrashes
    /\ up' = FALSE /\ crashes' = crashes + 1
    /\ mem' = FreshState /\ engineDay' = None
    /\ save' = [t \in Threads |-> "none"] /\ buf' = [t \in Threads |-> FreshState]
    /\ pc' = "idle" /\ tickNow' = 0 /\ closeNow' = 0 /\ closing' = 0 /\ seen' = 0
    /\ due' = owed
    /\ UNCHANGED <<database, account, clock, owed>>

(* Mutant: a restart is taken for the operator's review *)
RestartUnkilled ==
    /\ ~up
    /\ up' = TRUE /\ mem' = [disk EXCEPT !.kill = FALSE] /\ engineDay' = diskDay
    /\ UNCHANGED <<save, buf, pc, local, database, account, clock, crashes, history>>

(* RiskManager.__init__ and Engine.__init__ load what the database has *)
Restart ==
    /\ ~up
    /\ up' = TRUE /\ mem' = disk /\ engineDay' = diskDay
    /\ UNCHANGED <<save, buf, pc, local, database, account, clock, crashes, history>>

Next ==
    \/ EngineStep
    \/ \E t \in Threads: Snapshot(t) \/ WriteState(t) \/ WriteFails(t)
    \/ TelegramKill \/ TelegramRisk
    \/ BalanceMoves \/ TimePasses \/ Crash \/ Restart

Spec == Init /\ [][Next]_vars

----------------------------------------------------------------------------
(* Properties *)

(* The state, in memory and in the database, is always a RiskState, and    *)
(* the engine is at one of the points of its tick.                         *)
TypeOK ==
    /\ mem \in RiskState /\ disk \in RiskState
    /\ save \in [Threads -> {"none", "snapshot", "write"}]
    /\ buf \in [Threads -> RiskState]
    /\ up \in BOOLEAN
    /\ pc \in {"idle", "health", "reset", "resetDone", "manage", "periods", "apply",
               "gate", "approved"}
    /\ tickNow \in Nat /\ closeNow \in Nat /\ closing \in Int /\ seen \in Nat
    /\ engineDay \in Nat \cup {None} /\ diskDay \in Nat \cup {None}
    /\ balance \in Balances /\ clock \in Nat /\ crashes \in Nat /\ trades \in Nat
    /\ due \in Events /\ owed \in Events
    /\ truth \in Truth

(* An order is only approved on a balance that is not MaxTotalDD percent   *)
(* or more below the highest balance a handler was ever told, including    *)
(* those told before a crash: peak_balance is neither lost nor reset, only *)
(* update_after_trade may fail before it looks at it.                      *)
GateRespectsDrawdown ==
    pc = "approved" => ~DrawdownAtLeast(due.high, seen, MaxTotalDD)

(* After MaxLosses recorded losses in a row no order is approved until     *)
(* Cooldown hours after the last of them, whatever winning trades, day     *)
(* changes or restarts lie in between.                                     *)
GateRespectsCooldown ==
    pc = "approved" => tickNow >= due.until

(* Once the engine has found the kill condition and its handler has        *)
(* returned, the kill switch stays active, over any number of crashes.     *)
KillSurvives == (up /\ owed.kill) => mem.kill

(* An order is only approved while the trades recorded on the same day     *)
(* have not lost MaxDailyLoss percent: the daily counter is reset at the   *)
(* change of the day and at no other time.  Where the engine could not     *)
(* write the change down, a restart on that day resets the counter again.  *)
GateRespectsDailyLoss ==
    (pc = "approved" /\ due.day = Day(tickNow) /\ truth.unwritten # Day(tickNow)) =>
        ~DailyLossReached(due.dayPnl, seen)

(* While the process has not crashed, the kill switch is only ever active  *)
(* because the account was below the floor or too far below its top, or    *)
(* because the operator asked for it: no weekly or daily limit and no      *)
(* stale peak engages it.                                                  *)
KillJustified ==
    (mem.kill /\ crashes = 0) =>
        truth.breached \/ truth.asked \/ save["telegram"] # "none"

(* A /kill of the operator whose save has completed is never forgotten.    *)
OperatorKillSurvives == (up /\ truth.asked) => mem.kill

----------------------------------------------------------------------------
(* The inductive invariant behind GateRespectsDrawdown, GateRespectsCooldown *)
(* and KillSurvives, which holds in every state that is Undisturbed.         *)

(* The state s remembers the history h well enough at time t: it is killed,  *)
(* or it has seen at least the same peak and the same run of losses and its  *)
(* cooldown ends no earlier than the history's (if it is not over).          *)
Remembers(s, h, t) ==
    \/ s.kill
    \/ /\ ~h.kill
       /\ h.high <= s.peak /\ h.run <= s.losses
       /\ h.until <= IF s.cooldown = None THEN t ELSE s.cooldown

(* The time the engine thread believes it is *)
EngineTime == IF pc = "idle" THEN clock ELSE tickNow

(* /risk makes the listener thread save a state that need not be killed, and *)
(* may overwrite a later one of the engine with it.  That harms the row in   *)
(* the database only: the process itself reads it after a crash, not before. *)
Durable == "risk" \notin Commands
Undisturbed == Durable \/ crashes = 0

(* Without /risk, what the listener thread writes is a killed state: /kill   *)
(* is the only command it saves for then.                                    *)
TelegramWritesKill ==
    Durable =>
        /\ save["telegram"] = "snapshot" => mem.kill
        /\ save["telegram"] = "write" => buf["telegram"].kill

NoDeadlineBeyondCooldown ==
    /\ tickNow <= clock
    /\ due.until <= clock + Cooldown /\ owed.until <= clock + Cooldown
    /\ pc \in {"periods", "apply"} =>
           closeNow <= clock /\ due.until <= closeNow + Cooldown

Remembered ==
    /\ up => Remembers(mem, due, EngineTime)
    /\ Durable => Remembers(disk, owed, clock)
    /\ save["engine"] = "write" => Remembers(buf["engine"], due, clock)
    /\ owed.kill => due.kill
    /\ ~up => due = owed /\ pc = "idle" /\ \A t \in Threads: save[t] = "none"
    /\ crashes = 0 => up

IInv ==
    /\ TypeOK
    /\ TelegramWritesKill
    /\ NoDeadlineBeyondCooldown
    /\ Remembered
    /\ GateRespectsDrawdown
    /\ GateRespectsCooldown
----------------------------------------------------------------------------
(* The inductive invariant behind KillJustified and OperatorKillSurvives.    *)

(* Is a kill of the operator on its way to the database?                     *)
KillUnderway ==
    /\ "kill" \in Commands
    /\ save["telegram"] = "snapshot" \/ (save["telegram"] = "write" /\ buf["telegram"].kill)

(* While nothing has been lost in a crash, memory has no peak the account    *)
(* never had, and the switch is active for a reason that is on record.       *)
KillCause ==
    /\ balance <= truth.top
    /\ Terminal(truth.top, balance) => truth.breached
    /\ crashes = 0 =>
         /\ up /\ mem.peak <= truth.top
         /\ mem.kill => truth.breached \/ truth.asked \/ KillUnderway

(* Who has been told that the kill is saved, or is about to be, sees it.     *)
OperatorKillKept ==
    crashes = 0 =>
        /\ up
        /\ truth.asked => mem.kill
        /\ save["telegram"] = "write" /\ buf["telegram"].kill => mem.kill

----------------------------------------------------------------------------
(* The inductive invariant behind GateRespectsDailyLoss, for ticks that do   *)
(* not run across midnight.                                                  *)

Today == Day(clock)

(* What the history h says was won or lost on today's date                   *)
BookedToday(h) == IF h.day = Today THEN h.dayPnl ELSE 0

(* The state s counts today's result as the history does; a state with the   *)
(* reset of today on record has been reset, and before that nothing was      *)
(* booked.  A killed state may be any older copy.                            *)
CountsToday(s, day, h) ==
    \/ s.kill
    \/ /\ (IF s.resetDay = Today THEN s.dailyPnl ELSE 0) = BookedToday(h)
       /\ IF day = Today THEN s.resetDay = Today ELSE BookedToday(h) = 0

(* Dates of the past only, and one time within a tick                        *)
NothingAhead ==
    /\ mem.resetDay <= Today /\ disk.resetDay <= Today
    /\ \A t \in Threads: buf[t].resetDay <= Today
    /\ engineDay <= Today /\ diskDay <= Today
    /\ due.day <= Today /\ owed.day <= Today
    /\ pc # "idle" => tickNow = clock
    /\ pc \in {"periods", "apply"} => closeNow = clock

(* The engine trades only on a day it has reset, and before it remembers the *)
(* reset the database has it.                                                *)
ResetInOrder ==
    /\ pc \in {"manage", "periods", "apply", "gate", "approved"} => engineDay = Today
    /\ pc = "resetDone" =>
         /\ engineDay # Today /\ mem.resetDay = Today
         /\ save["engine"] = "write" => buf["engine"].resetDay = Today
         /\ Durable /\ save["engine"] = "none" => disk.kill \/ disk.resetDay = Today

DayCounted ==
    truth.unwritten # Today =>
        /\ up => (engineDay = Today <=> diskDay = Today) /\ CountsToday(mem, engineDay, due)
        /\ Durable => CountsToday(disk, diskDay, owed)
        /\ save["engine"] = "write" => CountsToday(buf["engine"], engineDay, due)

DayInv ==
    /\ NothingAhead
    /\ ResetInOrder
    /\ DayCounted
    /\ GateRespectsDailyLoss

=============================================================================
