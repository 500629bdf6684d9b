---------------------------- MODULE MCMarketClock ----------------------------
(* A week of MarketClock for TLC: from Friday 06:00 UTC to Wednesday.  The  *)
(* clocks change on the Sunday, at 01:00 UTC.                               *)
EXTENDS MarketClock

Quarters(hours) == 4 * hours
Friday == DayLength + Quarters(6)
Wednesday == 6 * DayLength
SundayNight == 3 * DayLength + Quarters(1)

Same(z) == [before |-> z, after |-> z]
From(z, w) == [before |-> z, after |-> w]
World(london, newYork, broker, closed) ==
    [london |-> london, newYork |-> newYork, broker |-> broker, closed |-> closed]

(* the ends of summer and of winter, brokers that follow New York, Europe   *)
(* or UTC, and a closed Monday (day 4)                                      *)
Worlds == {
    World(Same(0), Same(-5), Same(2), {}),
    World(Same(0), From(-5, -4), From(2, 3), {}),
    World(From(0, 1), Same(-4), From(2, 3), {}),
    World(From(1, 0), Same(-4), Same(0), {4}),
    World(Same(1), Same(-4), Same(3), {4})}

Asian == <<Quarters(7), Quarters(16)>>
London8 == <<Quarters(8), Quarters(16) + 2>>
NewYork8 == <<Quarters(8), Quarters(17)>>
LondonAndOverlap == {"london", "ny_overlap"}
(* ticks may stop before and during a session *)
Freezes == {DayLength + Quarters(7), 4 * DayLength + Quarters(6), 5 * DayLength + Quarters(9)}
(* the process is started at the beginning, over the week-end, before and   *)
(* in the session on Monday, and at any time of the Tuesday's session       *)
Starts == {Friday, 3 * DayLength, 4 * DayLength + Quarters(5), 4 * DayLength + Quarters(12)}
          \cup (5 * DayLength + Quarters(6) .. 5 * DayLength + Quarters(12))
=============================================================================
