----------------------------- MODULE MarketClock -----------------------------
(***************************************************************************)
(* Clocks and calendars: core/session_manager.py, the broker's clock as    *)
(* core/mt5_connector.py infers it, the stale-data check of                *)
(* core/data_validator.py, and what core/engine.py makes of them when it   *)
(* starts, resets the day and takes a market snapshot.                     *)
(*                                                                         *)
(* The unit of time is a quarter of an hour.  Time 0 is a Thursday, 00:00  *)
(* UTC.  The broker's timestamps are its own wall clock; the connector     *)
(* guesses the offset from the age of the last tick, rounded to hours, and *)
(* keeps it until the daily reset.                                         *)
(***************************************************************************)
EXTENDS Integers

CONSTANTS
    Start, End,     \* bounds: the first and last instant of the model
    None,           \* model value: nothing cached, nothing stored
    Calendars,      \* what the world may be like: zones before and after the
                    \* change of the clocks, and the days without trading
    Changes,        \* the instant the clocks change
    AsianHours, LondonHours, NewYorkHours,   \* <<start, end>>, local
    TradeSessions,  \* sessions.trade_sessions
    MaxCandleAge,   \* data_validation.max_candle_age_minutes
    FreezeTimes,    \* bound: when the broker may stop sending ticks
    StartTimes,     \* bound: when the process may be started
    MaxCrashes      \* bound: deaths of the process

Hour == 4
DayLength == 24 * Hour

ASSUME ClockAssumption ==
    /\ Start \in Nat /\ End \in Nat /\ Start < End /\ Changes \in Nat
    /\ \A c \in Calendars:
          /\ c.london \in [{"before", "after"} -> -12..14]
          /\ c.newYork \in [{"before", "after"} -> -12..14]
          /\ c.broker \in [{"before", "after"} -> -12..14]
          /\ c.closed \subseteq Nat
    /\ AsianHours[1] \in 0..DayLength - 1 /\ AsianHours[2] \in AsianHours[1] + 1..DayLength - 1
    /\ MaxCandleAge \in 0..DayLength /\ MaxCrashes \in Nat
    /\ None \notin Int \cup {"accepted", "rejected"}

VARIABLES
    calendar,   \* the world's zones and holidays, fixed from the start
    now,        \* the time, which the computer knows
    live,       \* does the broker send ticks while the market is open?
    lastTick,   \* time of the last tick
    up,         \* is the process running?
    offset,     \* _broker_offset_cache, in hours
    lastReset,  \* engine.state.last_daily_reset, in memory and in the database
    paused,     \* engine.state.paused
    verdict,    \* what became of the last snapshot, until time passes
    sound,      \* history: was the offset inferred from a tick that had just arrived?
    crashes

clockVars == <<calendar, now, live, lastTick, up, offset, lastReset, paused, verdict, sound, crashes>>
world == <<calendar, now, live, lastTick>>

----------------------------------------------------------------------------
(* Calendars *)

Day(t) == t \div DayLength
(* datetime.weekday(): 0 is a Monday *)
Weekday(t) == (Day(t) + 3) % 7
HourOf(t) == (t % DayLength) \div Hour

Zone(z, t) == Hour * (IF t < Changes THEN z["before"] ELSE z["after"])
Tokyo(t) == t + 9 * Hour
London(t) == t + Zone(calendar.london, t)
NewYork(t) == t + Zone(calendar.newYork, t)
Broker(t) == t + Zone(calendar.broker, t)

(* SessionWindow.contains, for a local time *)
Contains(hours, local) ==
    LET t == local % DayLength
    IN IF hours[1] <= hours[2] THEN hours[1] <= t /\ t <= hours[2]
       ELSE hours[1] <= t \/ t <= hours[2]

IsWeekend(t) ==
    \/ Weekday(t) = 5
    \/ Weekday(t) = 6 /\ HourOf(t) < 22
    \/ Weekday(t) = 4 /\ HourOf(t) >= 22

IsHoliday(t) == Day(NewYork(t)) \in calendar.closed

(* get_current_session; a holiday counts as weekend *)
CurrentSession(t) ==
    LET london == Contains(LondonHours, London(t))
        newYork == Contains(NewYorkHours, NewYork(t))
    IN CASE IsWeekend(t) \/ IsHoliday(t) -> "weekend"
         [] ~(IsWeekend(t) \/ IsHoliday(t)) /\ london /\ newYork -> "ny_overlap"
         [] ~(IsWeekend(t) \/ IsHoliday(t)) /\ london /\ ~newYork -> "london"
         [] ~(IsWeekend(t) \/ IsHoliday(t)) /\ ~london /\ newYork -> "new_york"
         [] OTHER -> IF Contains(AsianHours, Tokyo(t)) THEN "asian" ELSE "dead_zone"

IsTradeable(t) == CurrentSession(t) \in TradeSessions \ {"weekend", "dead_zone"}

(* Mutant: the Asian session is always the one of today *)
AsianDayToday(t) == Day(Tokyo(t))

(* get_asian_range: the day whose Asian session is meant ... *)
AsianDay(t) ==
    IF Tokyo(t) % DayLength < AsianHours[1] THEN Day(Tokyo(t)) - 1 ELSE Day(Tokyo(t))

(* ... and its beginning and end in UTC *)
AsianStart(t) == AsianDay(t) * DayLength + AsianHours[1] - 9 * Hour
AsianEnd(t) == AsianDay(t) * DayLength + AsianHours[2] - 9 * Hour

(* Gold is traded from Sunday 18:00 to Friday 17:00, New York time, with a *)
(* break from 17:00 to 18:00, but not on a holiday                         *)
TradedIn(c, t) ==
    LET local == t + Zone(c.newYork, t)
    IN /\ Day(local) \notin c.closed
       /\ \/ Weekday(local) \in 0..3 /\ HourOf(local) # 17
          \/ Weekday(local) = 4 /\ HourOf(local) < 17
          \/ Weekday(local) = 6 /\ HourOf(local) >= 18

MarketOpen(t) == TradedIn(calendar, t)

(* The clocks change while nothing is traded, which is so from a day and   *)
(* two hours before until four hours after, and by two hours at most       *)
ASSUME ChangeAssumption ==
    \A c \in Calendars:
        /\ c.broker["after"] - c.broker["before"] \in -2..2
        /\ \A t \in 0..(End + Hour):
              t = 0 \/ TradedIn(c, t) =>
                  t + DayLength + 2 * Hour < Changes \/ t >= Changes + 4 * Hour

----------------------------------------------------------------------------
(* Candles *)

(* The last instant before t at which gold was traded *)
LatestOf(S) == CHOOSE s \in S: \A u \in S: u <= s
TradeBefore ==
    [c \in Calendars |-> [t \in -DayLength..End |->
        LatestOf({0} \cup {s \in 0..(t - 1): TradedIn(c, s)})]]
LastTraded(t) == TradeBefore[calendar][t]

BarLength == [M15 |-> 1, H1 |-> Hour, H4 |-> 4 * Hour, D1 |-> DayLength]

(* get_closed_candles: the bar of the last tick is dropped, whether it is  *)
(* over or not; the last one left is that of the last trade before it.     *)
(* Its opening, in UTC and as the broker stamps it                         *)
LastOpening(tf) ==
    LET forming == lastTick - (Broker(lastTick) % BarLength[tf])
        trade == LastTraded(forming)
    IN trade - (Broker(trade) % BarLength[tf])

(* Python's round() of a time in hours: a half goes to the even hour *)
RoundHours(age) ==
    LET h == age \div Hour
        r == age % Hour
    IN IF 2 * r < Hour \/ (2 * r = Hour /\ h % 2 = 0) THEN h ELSE h + 1

(* get_clock_drift: the clock less the broker's clock at the last tick *)
Drift == now - Broker(lastTick)

(* _broker_utc_offset: what is cached, or what the drift says *)
Inferred == IF offset = None THEN RoundHours(Drift) ELSE offset
Infer ==
    /\ offset' = Inferred
    /\ sound' = IF offset = None THEN now - lastTick < 2 ELSE sound

(* The opening of a bar as the connector reports it: the broker's stamp,   *)
(* shifted by the offset                                                   *)
Reported(bar) == Broker(bar) + Hour * Inferred

(* validate_candles: two bars, and at least max_candle_age *)
MaxAge(tf) == IF MaxCandleAge > 2 * BarLength[tf] THEN MaxCandleAge ELSE 2 * BarLength[tf]

(* Mutant: the daily bars are not looked at *)
ValidIntraday ==
    \A tf \in {"H4", "H1", "M15"}: now - Reported(LastOpening(tf)) <= MaxAge(tf)

(* _validate_snapshot, as far as time is concerned *)
Valid == \A tf \in {"H4", "H1", "M15", "D1"}: now - Reported(LastOpening(tf)) <= MaxAge(tf)

(* get_asian_range: the closed hourly bars whose reported opening lies in  *)
(* the Asian session, its end included                                     *)
AsianBars ==
    {bar \in AsianStart(now) - DayLength .. AsianEnd(now) + DayLength:
        /\ Broker(bar) % Hour = 0 /\ bar <= LastOpening("H1")
        /\ \E t \in bar..(bar + Hour - 1): MarketOpen(t)
        /\ Reported(bar) \in AsianStart(now)..AsianEnd(now)}

----------------------------------------------------------------------------
ClockInit ==
    /\ calendar \in Calendars
    /\ now = Start /\ live = TRUE
    /\ lastTick = IF MarketOpen(Start) THEN Start ELSE LastTraded(Start)
    /\ up = FALSE /\ offset = None /\ lastReset = None /\ paused = FALSE
    /\ verdict = None /\ sound = FALSE /\ crashes = 0

(* _check_clock_drift: anything from two minutes on pauses, in a session *)
DriftPauses == Drift # 0 /\ IsTradeable(now)

(* main() and _startup: the pause is lifted, the drift is checked, and the *)
(* warm-up takes a snapshot with a connector that has cached nothing       *)
StartUp ==
    /\ ~up /\ now \in StartTimes
    /\ Valid
    /\ up' = TRUE /\ paused' = DriftPauses
    /\ Infer
    /\ UNCHANGED <<world, lastReset, verdict, crashes>>

(* Mutant: the offset is kept over the day *)
DailyResetKeeps ==
    /\ up /\ lastReset # Day(now)
    /\ paused' = (paused \/ DriftPauses)
    /\ lastReset' = Day(now)
    /\ UNCHANGED <<world, up, offset, verdict, sound, crashes>>

(* _maybe_daily_reset: the first tick of a day checks the drift and clears *)
(* the offset                                                              *)
DailyReset ==
    /\ up /\ lastReset # Day(now)
    /\ paused' = (paused \/ DriftPauses)
    /\ offset' = None /\ lastReset' = Day(now)
    /\ UNCHANGED <<world, up, verdict, sound, crashes>>

(* Mutant: the snapshot is taken whether the day was reset or not *)
ScanUnreset ==
    /\ up
    /\ IsTradeable(now) /\ ~paused
    /\ Infer
    /\ verdict' = IF Valid THEN "accepted" ELSE "rejected"
    /\ UNCHANGED <<world, up, lastReset, paused, crashes>>

(* The rest of tick(): a snapshot is taken in a session, unless paused *)
Scan ==
    /\ up /\ lastReset = Day(now)
    /\ IsTradeable(now) /\ ~paused
    /\ Infer
    /\ verdict' = IF Valid THEN "accepted" ELSE "rejected"
    /\ UNCHANGED <<world, up, lastReset, paused, crashes>>

(* /resume *)
Resume ==
    /\ up /\ paused
    /\ paused' = FALSE
    /\ UNCHANGED <<world, up, offset, lastReset, verdict, sound, crashes>>

Crash ==
    /\ up /\ crashes < MaxCrashes
    /\ up' = FALSE /\ offset' = None /\ paused' = FALSE /\ crashes' = crashes + 1
    /\ verdict' = None
    /\ UNCHANGED <<world, lastReset, sound>>

----------------------------------------------------------------------------
(* The world *)

TimePasses ==
    /\ now < End
    /\ now' = now + 1
    /\ lastTick' = IF live /\ MarketOpen(now') THEN now' ELSE lastTick
    /\ verdict' = None
    /\ UNCHANGED <<calendar, live, up, offset, lastReset, paused, sound, crashes>>

FeedFreezes ==
    /\ live /\ now \in FreezeTimes
    /\ live' = FALSE
    /\ UNCHANGED <<calendar, now, lastTick, up, offset, lastReset, paused, verdict, sound, crashes>>

FeedThaws ==
    /\ ~live
    /\ live' = TRUE
    /\ lastTick' = IF MarketOpen(now) THEN now ELSE lastTick
    /\ verdict' = None
    /\ UNCHANGED <<calendar, now, up, offset, lastReset, paused, sound, crashes>>

ClockNext ==
    \/ StartUp \/ DailyReset \/ Scan \/ Resume \/ Crash
    \/ TimePasses \/ FeedFreezes \/ FeedThaws

ClockSpec == ClockInit /\ [][ClockNext]_clockVars

----------------------------------------------------------------------------
(* Properties *)

(* The clocks and flags have their types, and a snapshot is only judged by *)
(* a running process that has an offset and has reset the day.             *)
ClockTypeOK ==
    /\ calendar \in Calendars
    /\ now \in Start..End /\ lastTick \in 0..now /\ live \in BOOLEAN
    /\ up \in BOOLEAN /\ paused \in BOOLEAN
    /\ offset = None \/ offset \in Int
    /\ lastReset = None \/ lastReset \in Nat
    /\ verdict \in {None, "accepted", "rejected"}
    /\ sound \in BOOLEAN /\ crashes \in 0..MaxCrashes
    /\ verdict # None => up /\ offset # None /\ lastReset = Day(now)

(* The intraday bars a snapshot ends in that the engine goes on with are   *)
(* no older than validate_candles allows by the true time, and not just by *)
(* the clock the connector has inferred: over the change of the clocks,    *)
(* restarts, weekends and holidays, as long as the offset was inferred     *)
(* while ticks arrived.                                                    *)
AcceptedIsFresh ==
    verdict = "accepted" /\ sound =>
        \A tf \in {"H4", "H1", "M15"}: now - LastOpening(tf) <= MaxAge(tf)

(* With ticks arriving, a snapshot is turned down on the days that follow  *)
(* a day without trading, every Monday where the broker's week starts with *)
(* it, and on no other: the last daily bar is then older than two days.    *)
RejectedAfterGap ==
    verdict # None /\ live /\ sound =>
        LET yesterday == {t \in now - 2 * DayLength .. now:
                             Day(Broker(t)) = Day(Broker(now)) - 1}
        IN verdict = "rejected" <=> \A t \in yesterday: ~MarketOpen(t)

(* From two hours after the Asian session has ended (or max_candle_age, if *)
(* that is more) until the next one begins, the range the sweep setup is   *)
(* given spans every hour of the session which was traded, and the hour    *)
(* after it, whatever day Tokyo has in the meantime.                       *)
AsianRangeWhole ==
    verdict = "accepted" /\ sound =>
        LET length == AsianHours[2] - AsianHours[1]
            sinceEnd == (Tokyo(now) - AsianHours[2]) % DayLength
            end == now - sinceEnd
        IN sinceEnd \in MaxAge("H1")..(DayLength - length - 1) =>
             AsianBars = {bar \in (end - length)..end:
                Broker(bar) % Hour = 0 /\ \E t \in bar..(bar + Hour - 1): MarketOpen(t)}
=============================================================================
