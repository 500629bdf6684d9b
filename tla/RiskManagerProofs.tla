------------------------- MODULE RiskManagerProofs -------------------------
(***************************************************************************)
(* Proofs about RiskManager, for all values of its constants.              *)
(***************************************************************************)
EXTENDS RiskManager, TLAPS

USE RiskAssumption DEF RiskAssumption

----------------------------------------------------------------------------
(* Lemmas about the operators *)

LEMMA DayIsNat == ASSUME NEW t \in Nat PROVE Day(t) \in Nat
  BY DEF Day

LEMMA LargerIsNat ==
  ASSUME NEW a \in Nat, NEW b \in Nat
  PROVE  Larger(a, b) \in Nat /\ Larger(a, b) >= a /\ Larger(a, b) >= b
  BY DEF Larger

(* A balance that is too far below a peak is too far below a higher one.   *)
LEMMA DrawdownMonotone ==
  ASSUME NEW a \in Nat, NEW b \in Nat, NEW bal \in Nat, NEW pct \in 0..100,
         a <= b, DrawdownAtLeast(a, bal, pct)
  PROVE  DrawdownAtLeast(b, bal, pct)
<1> DEFINE d == b - a
<1>1. d \in Nat /\ b = a + d
  OBVIOUS
<1>2. pct * b = pct * a + pct * d
  BY <1>1
<1>3. 100 * d >= pct * d
  BY <1>1
<1>4. (b - bal) * 100 = (a - bal) * 100 + 100 * d
  BY <1>1
<1>5. (a - bal) * 100 >= pct * a /\ a > 0
  BY DEF DrawdownAtLeast
<1>6. pct * a \in Int /\ pct * d \in Int /\ pct * b \in Int
  BY <1>1
<1> HIDE DEF d
<1>7. (b - bal) * 100 >= pct * b
  BY <1>1, <1>2, <1>3, <1>4, <1>5, <1>6
<1> QED
  BY <1>1, <1>5, <1>7 DEF DrawdownAtLeast

LEMMA HandlersKeepType ==
  ASSUME NEW s \in RiskState, NEW p \in Int, NEW bal \in Nat, NEW t \in Nat
  PROVE  /\ Killed(s) \in RiskState
         /\ DailyReset(s, t) \in RiskState
         /\ Counted(s, p, t) \in RiskState
         /\ AfterTrade(s, p, bal, t) \in RiskState
         /\ GateCleared([s EXCEPT !.peak = Larger(@, bal)], bal, t) \in RiskState
         /\ [s EXCEPT !.peak = Larger(@, bal)] \in RiskState
         /\ \A u \in RiskState: Judged(u, bal) \in RiskState /\ Peaked(u, bal) \in RiskState
<1>1. \A u \in RiskState: Killed(u) \in RiskState
  BY DEF RiskState, Killed, breakerNames
<1>2. DailyReset(s, t) \in RiskState
  <2>1. PICK d \in Nat: d = Day(t)
    BY DayIsNat
  <2>2. PICK z \in Int: z = 0
    OBVIOUS
  <2>3. DailyReset(s, t) = [s EXCEPT !.dailyPnl = z, !.resetDay = d]
    BY <2>1, <2>2 DEF DailyReset
  <2> QED
    BY <2>3 DEF RiskState
<1>3. Counted(s, p, t) \in RiskState
  <2> DEFINE n == IF p < 0 THEN s.losses + 1 ELSE 0
             trips == p < 0 /\ n >= MaxLosses
             c == IF trips THEN t + Cooldown ELSE s.cooldown
             bs == s.breakers \cup (IF trips THEN {"CONSECUTIVE_LOSSES"} ELSE {})
  <2>1. n \in Nat /\ c \in Nat \cup {None} /\ s.dailyPnl + p \in Int
    BY DEF RiskState
  <2>2. bs \in SUBSET breakerNames
    BY DEF RiskState, breakerNames
  <2>3. Counted(s, p, t) = [s EXCEPT !.dailyPnl = s.dailyPnl + p, !.losses = n,
                                     !.cooldown = c, !.breakers = bs]
    BY DEF Counted
  <2> HIDE DEF n, c, bs
  <2> QED
    BY <2>1, <2>2, <2>3 DEF RiskState
<1>4. \A u \in RiskState: [u EXCEPT !.peak = Larger(@, bal)] \in RiskState
  BY LargerIsNat DEF RiskState
<1>5. GateCleared([s EXCEPT !.peak = Larger(@, bal)], bal, t) \in RiskState
  BY <1>4 DEF RiskState, GateCleared
<1>6. ASSUME NEW u \in RiskState
      PROVE  Judged(u, bal) \in RiskState /\ Peaked(u, bal) \in RiskState
  <2> DEFINE peak == Larger(u.peak, bal)
             bs == u.breakers \cup (IF DrawdownAtLeast(peak, bal, MaxWeeklyDD)
                                    THEN {"WEEKLY_DRAWDOWN"} ELSE {})
  <2>1. peak \in Nat
    BY LargerIsNat DEF RiskState
  <2>2. bs \in SUBSET breakerNames
    BY DEF RiskState, breakerNames
  <2>3. Peaked(u, bal) = [u EXCEPT !.peak = peak, !.breakers = bs]
    BY DEF Peaked
  <2> HIDE DEF peak, bs
  <2>4. Peaked(u, bal) \in RiskState
    BY <2>1, <2>2, <2>3 DEF RiskState
  <2> QED
    BY <1>1, <2>4 DEF Judged
<1> QED
  BY <1>1, <1>2, <1>3, <1>4, <1>5, <1>6 DEF AfterTrade

LEMMA BookedIsEvents ==
  ASSUME NEW h \in Events, NEW p \in Int, NEW bal \in Nat, NEW t \in Nat
  PROVE  Booked(h, p, bal, t) \in Events
<1> DEFINE n == IF p < 0 THEN h.run + 1 ELSE 0
           u == IF p < 0 /\ n >= MaxLosses THEN t + Cooldown ELSE h.until
           q == IF h.day = Day(t) THEN h.dayPnl + p ELSE p
           k == h.kill \/ DrawdownAtLeast(Larger(h.high, bal), bal, MaxTotalDD)
<1>1. n \in Nat /\ u \in Nat /\ q \in Int /\ k \in BOOLEAN
  BY DEF Events
<1>2. Day(t) \in Nat /\ Larger(h.high, bal) \in Nat
  BY DayIsNat, LargerIsNat DEF Events
<1>3. Booked(h, p, bal, t) = [h EXCEPT !.high = Larger(h.high, bal), !.run = n, !.until = u,
                                       !.day = Day(t), !.dayPnl = q, !.kill = k]
  BY DEF Booked
<1> HIDE DEF n, u, q, k
<1> QED
  BY <1>1, <1>2, <1>3 DEF Events

----------------------------------------------------------------------------
(* Type correctness *)

LEMMA FreshIsState == FreshState \in RiskState /\ NoEvents \in Events
  BY DEF FreshState, NoEvents, RiskState, Events

LEMMA TypeOKInit == ASSUME Init PROVE TypeOK
<1>1. InitBalance \in Nat /\ Terminal(InitBalance, InitBalance) \in BOOLEAN
  BY DEF Terminal, DrawdownAtLeast
<1>2. truth \in Truth
  BY <1>1 DEF Init, Truth
<1>3. save \in [Threads -> {"none", "snapshot", "write"}] /\ buf \in [Threads -> RiskState]
  BY FreshIsState DEF Init
<1> QED
  BY <1>2, <1>3, FreshIsState DEF Init, TypeOK

LEMMA TypeOKNext == ASSUME TypeOK, [Next]_vars PROVE TypeOK'
<1> USE DEF TypeOK, local, closeLocals, account, process, database, history, LeaveTick, InTick
<1>a. balance \in Nat /\ 0 \in Nat /\ 0 \in Int
  OBVIOUS
<1>s. \A t \in Threads: [save EXCEPT ![t] = "snapshot"] \in [Threads -> {"none", "snapshot", "write"}]
  OBVIOUS
<1>1. CASE StartTick
  BY <1>1 DEF StartTick, EngineAt
<1>2. CASE HealthUnknown
  BY <1>2 DEF HealthUnknown, EngineAt
<1>3. CASE CheckKillSwitch
  <2>1. Killed(mem) \in RiskState
    BY <1>a, HandlersKeepType
  <2>2. mem' \in RiskState /\ save' \in [Threads -> {"none", "snapshot", "write"}]
    BY <1>3, <1>s, <2>1 DEF CheckKillSwitch, SaveKill, Save, NoSave, Threads
  <2>3. \A b \in BOOLEAN: [due EXCEPT !.kill = @ \/ b] \in Events
    BY DEF Events
  <2>4. due' \in Events
    <3> DEFINE trips == Terminal(mem.peak, balance) /\ ~mem.kill
    <3>1. due' = [due EXCEPT !.kill = @ \/ trips] /\ trips \in BOOLEAN
      BY <1>3 DEF CheckKillSwitch
    <3> HIDE DEF trips
    <3> QED
      BY <2>3, <3>1
  <2> QED
    BY <1>3, <2>2, <2>4 DEF CheckKillSwitch
<1>4. CASE ResetDaily
  <2>1. mem' \in RiskState
    BY <1>4, HandlersKeepType, <1>a DEF ResetDaily
  <2> QED
    BY <1>4, <1>s, <2>1 DEF ResetDaily, EngineAt, Save, Threads
<1>5. CASE RememberReset
  BY <1>5, DayIsNat DEF RememberReset, EngineAt
<1>6. CASE SkipReset
  BY <1>6 DEF SkipReset, EngineAt
<1>m. ASSUME NEW b \in Balances, Moves(b)
      PROVE  balance' \in Balances /\ truth' \in Truth
  <2> DEFINE top == Larger(truth.top, b)
             br == truth.breached \/ Terminal(top, b)
  <2>1. top \in Nat
    BY LargerIsNat DEF Truth
  <2>2. truth' = [truth EXCEPT !.top = top, !.breached = br] /\ br \in BOOLEAN
    BY <1>m DEF Moves, Truth
  <2> HIDE DEF top, br
  <2> QED
    BY <1>m, <2>1, <2>2 DEF Moves, Truth
<1>7. ASSUME NEW p \in Pnls, CloseTrade(p) PROVE TypeOK'
  BY <1>7, <1>m DEF CloseTrade, EngineAt
<1>8. CASE ResetPeriods
  <2>1. DailyReset(mem, closeNow) \in RiskState
    BY HandlersKeepType, <1>a
  <2>2. mem' \in RiskState /\ save' \in [Threads -> {"none", "snapshot", "write"}]
    BY <1>8, <2>1, <1>s DEF ResetPeriods, SaveIf, Save, NoSave, Threads
  <2> QED
    BY <1>8, <2>2 DEF ResetPeriods
<1>9. CASE UpdateAfterTrade
  <2>1. PICK bal \in ReportedBalances: /\ mem' = AfterTrade(mem, closing, bal, closeNow)
                                        /\ due' = Booked(due, closing, bal, closeNow)
    BY <1>9 DEF UpdateAfterTrade
  <2>2. bal \in Nat
    BY <1>a DEF ReportedBalances
  <2>3. mem' \in RiskState /\ due' \in Events
    BY <2>1, <2>2, HandlersKeepType, BookedIsEvents
  <2> QED
    BY <1>9, <1>s, <1>a, <2>3 DEF UpdateAfterTrade, Save, Threads
<1>10. CASE EndManage
  BY <1>10 DEF EndManage, EngineAt
<1>11. CASE GateKilled
  BY <1>11 DEF GateKilled, EngineAt
<1>12. CASE GateTrips
  <2>1. PICK bal \in ReportedBalances:
          mem' = Killed([mem EXCEPT !.peak = IF bal < Floor THEN mem.peak
                                              ELSE Larger(mem.peak, bal)])
    BY <1>12 DEF GateTrips
  <2>2. bal \in Nat
    BY <1>a DEF ReportedBalances
  <2> DEFINE pk == IF bal < Floor THEN mem.peak ELSE Larger(mem.peak, bal)
  <2>3. pk \in Nat
    BY <2>2, LargerIsNat DEF RiskState
  <2> HIDE DEF pk
  <2>4. [mem EXCEPT !.peak = pk] \in RiskState
    BY <2>3 DEF RiskState
  <2>5. mem' \in RiskState
    BY <2>1, <2>4, HandlersKeepType, <1>a DEF pk
  <2>6. due' = [due EXCEPT !.kill = TRUE]
    BY <1>12 DEF GateTrips
  <2>7. due' \in Events
    BY <2>6 DEF Events
  <2> QED
    BY <1>12, <1>s, <2>5, <2>7 DEF GateTrips, SaveKill, Save, NoSave, Threads
<1>g. ASSUME NEW bal \in Nat, GateAlive(bal) PROVE due' \in Events
  <2>1. PICK h \in Nat: h = Larger(due.high, bal)
    BY LargerIsNat DEF Events
  <2>2. due' = [due EXCEPT !.high = h]
    BY <1>g, <2>1 DEF GateAlive
  <2> QED
    BY <2>2 DEF Events
<1>13. CASE GateRefuses
  <2>1. PICK bal \in ReportedBalances, lowMargin \in BOOLEAN:
          /\ GateAlive(bal)
          /\ mem' = IF lowMargin THEN [mem EXCEPT !.peak = Larger(@, bal)]
                     ELSE GateCleared([mem EXCEPT !.peak = Larger(@, bal)], bal, tickNow)
    BY <1>13 DEF GateRefuses
  <2>2. bal \in Nat
    BY <1>a DEF ReportedBalances
  <2>3. mem' \in RiskState /\ due' \in Events
    BY <2>1, <2>2, <1>g, HandlersKeepType, <1>a
  <2>4. save' \in [Threads -> {"none", "snapshot", "write"}]
    BY <1>13, <1>s DEF GateRefuses, SaveIf, Save, NoSave, Threads
  <2> QED
    BY <1>13, <2>3, <2>4 DEF GateRefuses
<1>14. CASE GateApproves
  <2>1. PICK bal \in ReportedBalances:
          /\ GateAlive(bal) /\ seen' = bal
          /\ mem' = GateCleared([mem EXCEPT !.peak = Larger(@, bal)], bal, tickNow)
    BY <1>14 DEF GateApproves
  <2>2. bal \in Nat
    BY <1>a DEF ReportedBalances
  <2>3. mem' \in RiskState /\ due' \in Events
    BY <2>1, <2>2, <1>g, HandlersKeepType, <1>a
  <2>4. save' \in [Threads -> {"none", "snapshot", "write"}]
    BY <1>14, <1>s DEF GateApproves, SaveIf, Save, NoSave, Threads
  <2> QED
    BY <1>14, <2>1, <2>2, <2>3, <2>4 DEF GateApproves
<1>15. CASE EndTick
  BY <1>15 DEF EndTick, EngineAt
<1>16. ASSUME NEW t \in Threads, Snapshot(t) PROVE TypeOK'
  BY <1>16 DEF Snapshot
<1>17. ASSUME NEW t \in Threads, WriteState(t) PROVE TypeOK'
  BY <1>17, FreshIsState DEF WriteState, RiskState, Truth
<1>18. CASE TelegramKill
  <2>1. mem' \in RiskState
    BY <1>18 DEF TelegramKill, RiskState
  <2> QED
    BY <1>18, <1>s, <2>1 DEF TelegramKill, Save, Threads
<1>19. CASE TelegramRisk
  BY <1>19, <1>s DEF TelegramRisk, Save, Threads
<1>20. CASE BalanceMoves
  BY <1>20, <1>m DEF BalanceMoves
<1>21. CASE TimePasses
  BY <1>21 DEF TimePasses
<1>22. CASE Crash
  <2>1. save' \in [Threads -> {"none", "snapshot", "write"}] /\ buf' \in [Threads -> RiskState]
    BY <1>22, FreshIsState DEF Crash
  <2>2. crashes' \in Nat
    BY <1>22 DEF Crash
  <2>3. /\ mem' \in RiskState /\ engineDay' \in Nat \cup {None} /\ up' \in BOOLEAN
        /\ due' \in Events /\ owed' \in Events
    BY <1>22, FreshIsState DEF Crash
  <2>4. /\ disk' \in RiskState /\ diskDay' \in Nat \cup {None} /\ balance' \in Balances
        /\ truth' \in Truth
        /\ clock' \in Nat /\ trades' \in Nat
    BY <1>22 DEF Crash
  <2>5. pc' = "idle" /\ tickNow' = 0 /\ closeNow' = 0 /\ closing' = 0 /\ seen' = 0
    BY <1>22 DEF Crash
  <2> QED
    BY <2>1, <2>2, <2>3, <2>4, <2>5, <1>a
<1>23. CASE Restart
  BY <1>23 DEF Restart
<1>24. CASE UNCHANGED vars
  BY <1>24 DEF vars
<1>25. CASE RememberFails
  <2>1. truth' \in Truth /\ engineDay' \in Nat \cup {None}
    BY <1>25, DayIsNat DEF RememberFails, Truth
  <2> QED
    BY <1>25, <2>1, <1>a DEF RememberFails, EngineAt
<1>26. ASSUME NEW t \in Threads, WriteFails(t) PROVE TypeOK'
  <2>1. buf' \in [Threads -> RiskState] /\ save' \in [Threads -> {"none", "snapshot", "write"}]
    BY <1>26, FreshIsState DEF WriteFails
  <2>2. /\ pc' \in {pc, "manage", "idle"}
        /\ tickNow' \in Nat /\ closeNow' \in Nat /\ closing' \in Int /\ seen' \in Nat
    BY <1>26, <1>a DEF WriteFails
  <2> QED
    BY <1>26, <2>1, <2>2 DEF WriteFails
<1>27. CASE UpdateRaises
  <2>1. PICK bal \in ReportedBalances:
          /\ mem' \in {Counted(mem, closing, closeNow), Peaked(Counted(mem, closing, closeNow), bal),
                       Judged(Counted(mem, closing, closeNow), bal)}
          /\ \E h \in Nat, k \in BOOLEAN:
               due' = [Booked(due, closing, bal, closeNow) EXCEPT !.high = h, !.kill = k]
    <3>1. PICK bal \in ReportedBalances:
            LET counted == Counted(mem, closing, closeNow)
                booked == Booked(due, closing, bal, closeNow)
            IN \/ /\ mem' = counted
                  /\ due' = [booked EXCEPT !.high = due.high, !.kill = due.kill]
               \/ /\ mem' = Peaked(counted, bal)
                  /\ due' = [booked EXCEPT !.kill = due.kill]
               \/ /\ mem' = Judged(counted, bal)
                  /\ due' = booked
      BY <1>27 DEF UpdateRaises
    <3>2. bal \in Nat
      BY <1>a DEF ReportedBalances
    <3> DEFINE b == Booked(due, closing, bal, closeNow)
    <3>3. b \in Events
      BY <3>2, BookedIsEvents
    <3> HIDE DEF b
    <3>4. /\ due.high \in Nat /\ due.kill \in BOOLEAN /\ b.high \in Nat /\ b.kill \in BOOLEAN
          /\ [b EXCEPT !.kill = due.kill] = [b EXCEPT !.high = b.high, !.kill = due.kill]
          /\ b = [b EXCEPT !.high = b.high, !.kill = b.kill]
      BY <3>3 DEF Events
    <3> QED
      BY <3>1, <3>4 DEF b
  <2>2. bal \in Nat
    BY <1>a DEF ReportedBalances
  <2>3. Counted(mem, closing, closeNow) \in RiskState
    BY <2>2, HandlersKeepType
  <2> DEFINE c == Counted(mem, closing, closeNow)
             b == Booked(due, closing, bal, closeNow)
  <2>4. mem' \in RiskState
    <3>1. mem' \in {c, Peaked(c, bal), Judged(c, bal)} /\ c \in RiskState
      BY <2>1, <2>3
    <3> HIDE DEF c
    <3>2. Peaked(c, bal) \in RiskState /\ Judged(c, bal) \in RiskState
      BY <2>2, <3>1, <1>a, HandlersKeepType
    <3> QED
      BY <3>1, <3>2
  <2>5. due' \in Events
    <3>1. b \in Events
      BY <2>2, BookedIsEvents
    <3>2. PICK h \in Nat, k \in BOOLEAN: due' = [b EXCEPT !.high = h, !.kill = k]
      BY <2>1
    <3> HIDE DEF b
    <3> QED
      BY <3>1, <3>2 DEF Events
  <2> QED
    BY <1>27, <1>a, <2>4, <2>5 DEF UpdateRaises
<1> QED
  BY <1>1, <1>2, <1>3, <1>4, <1>5, <1>6, <1>7, <1>8, <1>9, <1>10, <1>11, <1>12, <1>13, <1>14,
     <1>15, <1>16, <1>17, <1>18, <1>19, <1>20, <1>21, <1>22, <1>23, <1>24, <1>25, <1>26, <1>27
     DEF Next, EngineStep

(* TypeOK holds for every choice of limits and bounds: the memory and the  *)
(* database always hold a RiskState of the shape risk_manager.py declares, *)
(* through every handler, save, crash and restart.                         *)
THEOREM TypeCorrect == Spec => []TypeOK
<1>1. Init => TypeOK
  BY TypeOKInit
<1>2. TypeOK /\ [Next]_vars => TypeOK'
  BY TypeOKNext
<1> QED
  BY <1>1, <1>2, PTL DEF Spec

----------------------------------------------------------------------------
(* What each handler does to a state that remembers the history *)

LEMMA RemembersLater ==
  ASSUME NEW s \in RiskState, NEW h \in Events, NEW t \in Nat, NEW u \in Nat,
         t <= u, Remembers(s, h, t)
  PROVE  Remembers(s, h, u)
  BY DEF Remembers, RiskState, Events

LEMMA KilledRemembers ==
  ASSUME NEW s \in RiskState, NEW h, NEW t
  PROVE  Remembers(Killed(s), h, t) /\ Killed(s).kill
  BY DEF Remembers, RiskState, Killed

LEMMA ResetRemembers ==
  ASSUME NEW s \in RiskState, NEW h \in Events, NEW t \in Nat, NEW u \in Nat,
         Remembers(s, h, t)
  PROVE  Remembers(DailyReset(s, u), h, t)
<1> DEFINE r == DailyReset(s, u)
<1>1. r.kill = s.kill /\ r.peak = s.peak /\ r.losses = s.losses /\ r.cooldown = s.cooldown
  BY DEF DailyReset, RiskState
<1> HIDE DEF r
<1>2. Remembers(r, h, t)
  BY <1>1 DEF Remembers
<1> QED
  BY <1>2 DEF r

LEMMA CountedFields ==
  ASSUME NEW s \in RiskState, NEW p \in Int, NEW t \in Nat
  PROVE  LET r == Counted(s, p, t) IN
         /\ r.kill = s.kill /\ r.peak = s.peak
         /\ r.losses = IF p < 0 THEN s.losses + 1 ELSE 0
         /\ r.cooldown = IF p < 0 /\ s.losses + 1 >= MaxLosses THEN t + Cooldown ELSE s.cooldown
  BY DEF Counted, RiskState

LEMMA PeakedFields ==
  ASSUME NEW s \in RiskState, NEW bal \in Nat
  PROVE  LET r == Peaked(s, bal) IN
         /\ r.peak = Larger(s.peak, bal) /\ r.losses = s.losses /\ r.cooldown = s.cooldown
         /\ r.kill = s.kill
  BY DEF Peaked, RiskState

LEMMA JudgedFields ==
  ASSUME NEW s \in RiskState, NEW bal \in Nat
  PROVE  LET r == Judged(s, bal) IN
         /\ r.peak = Larger(s.peak, bal) /\ r.losses = s.losses /\ r.cooldown = s.cooldown
         /\ r.kill = (s.kill \/ DrawdownAtLeast(Larger(s.peak, bal), bal, MaxTotalDD))
<1> DEFINE w == Peaked(s, bal)
           d == DrawdownAtLeast(Larger(s.peak, bal), bal, MaxTotalDD)
<1>1. Judged(s, bal) = IF d THEN Killed(w) ELSE w
  BY DEF Judged
<1>2. w \in RiskState /\ s.kill \in BOOLEAN /\ d \in BOOLEAN
  BY HandlersKeepType DEF DrawdownAtLeast, RiskState
<1>3. w.peak = Larger(s.peak, bal) /\ w.losses = s.losses /\ w.cooldown = s.cooldown
      /\ w.kill = s.kill
  BY PeakedFields
<1> HIDE DEF w, d
<1>4. Killed(w).peak = w.peak /\ Killed(w).losses = w.losses
      /\ Killed(w).cooldown = w.cooldown /\ Killed(w).kill = TRUE
  BY <1>2 DEF RiskState, Killed
<1>5. CASE d
  BY <1>1, <1>3, <1>4, <1>5 DEF d
<1>6. CASE ~d
  BY <1>1, <1>2, <1>3, <1>6 DEF d
<1> QED
  BY <1>5, <1>6

LEMMA BookedFields ==
  ASSUME NEW h \in Events, NEW p \in Int, NEW bal \in Nat, NEW t \in Nat
  PROVE  LET r == Booked(h, p, bal, t) IN
         /\ r.high = Larger(h.high, bal)
         /\ r.run = IF p < 0 THEN h.run + 1 ELSE 0
         /\ r.until = IF p < 0 /\ h.run + 1 >= MaxLosses THEN t + Cooldown ELSE h.until
         /\ r.kill = (h.kill \/ DrawdownAtLeast(Larger(h.high, bal), bal, MaxTotalDD))
  BY DEF Booked, Events

(* update_after_trade: the state keeps up with the booked trade. *)
LEMMA TradeRemembers ==
  ASSUME NEW s \in RiskState, NEW h \in Events, NEW p \in Int, NEW bal \in Nat,
         NEW c \in Nat, NEW t \in Nat,
         Remembers(s, h, t), h.until <= c + Cooldown
  PROVE  Remembers(AfterTrade(s, p, bal, c), Booked(h, p, bal, c), t)
<1> DEFINE m == Counted(s, p, c)
           r == AfterTrade(s, p, bal, c)
           g == Booked(h, p, bal, c)
<1>1. m \in RiskState
  BY HandlersKeepType
<1>2. r.peak = Larger(s.peak, bal) /\ r.losses = m.losses /\ r.cooldown = m.cooldown
      /\ r.kill = (s.kill \/ DrawdownAtLeast(Larger(s.peak, bal), bal, MaxTotalDD))
  BY <1>1, JudgedFields, CountedFields DEF AfterTrade
<1>3. CASE s.kill
  BY <1>2, <1>3 DEF Remembers
<1>4. CASE DrawdownAtLeast(Larger(s.peak, bal), bal, MaxTotalDD)
  BY <1>2, <1>4 DEF Remembers
<1>5. CASE ~s.kill /\ ~DrawdownAtLeast(Larger(s.peak, bal), bal, MaxTotalDD)
  <2>1. ~h.kill /\ h.high <= s.peak /\ h.run <= s.losses
        /\ h.until <= IF s.cooldown = None THEN t ELSE s.cooldown
    BY <1>5 DEF Remembers
  <2>2. h.high \in Nat /\ s.peak \in Nat /\ h.run \in Nat /\ s.losses \in Nat /\ h.until \in Nat
        /\ s.cooldown \in Nat \cup {None}
    BY DEF Events, RiskState
  <2>3. g.high <= r.peak
    <3>1. g.high = Larger(h.high, bal) /\ r.peak = Larger(s.peak, bal)
      BY <1>2, BookedFields
    <3> HIDE DEF g, r
    <3> QED
      BY <2>1, <2>2, <3>1 DEF Larger
  <2>4. g.run <= r.losses
    <3>1. g.run = IF p < 0 THEN h.run + 1 ELSE 0
      BY BookedFields
    <3>2. r.losses = IF p < 0 THEN s.losses + 1 ELSE 0
      BY <1>2, CountedFields
    <3> HIDE DEF g, r
    <3> QED
      BY <2>1, <2>2, <3>1, <3>2
  <2>5. ~DrawdownAtLeast(Larger(h.high, bal), bal, MaxTotalDD)
    <3>1. Larger(h.high, bal) \in Nat /\ Larger(s.peak, bal) \in Nat
          /\ Larger(h.high, bal) <= Larger(s.peak, bal)
      BY <2>1, <2>2 DEF Larger
    <3> QED
      BY <1>5, <3>1, DrawdownMonotone
  <2>6. ~g.kill
    BY <2>1, <2>5, BookedFields
  <2>7. g.until <= IF r.cooldown = None THEN t ELSE r.cooldown
    <3>1. g.until = IF p < 0 /\ h.run + 1 >= MaxLosses THEN c + Cooldown ELSE h.until
      BY BookedFields
    <3>2. r.cooldown = IF p < 0 /\ s.losses + 1 >= MaxLosses THEN c + Cooldown ELSE s.cooldown
      BY <1>2, CountedFields
    <3> HIDE DEF g, r
    <3> QED
      BY <2>1, <2>2, <3>1, <3>2 DEF None
  <2> QED
    BY <2>3, <2>4, <2>6, <2>7 DEF Remembers
<1> QED
  BY <1>3, <1>4, <1>5

(* update_after_trade gives up on the way: the run of losses is kept, and  *)
(* so is the peak if it was reached.                                       *)
LEMMA RunRemembers ==
  ASSUME NEW s \in RiskState, NEW h \in Events, NEW p \in Int, NEW c \in Nat, NEW t \in Nat,
         NEW r \in RiskState, NEW g \in Events,
         Remembers(s, h, t), h.until <= c + Cooldown,
         r.kill = s.kill, g.kill = h.kill,
         h.high <= s.peak => g.high <= r.peak,
         r.losses = IF p < 0 THEN s.losses + 1 ELSE 0,
         g.run = IF p < 0 THEN h.run + 1 ELSE 0,
         r.cooldown = IF p < 0 /\ s.losses + 1 >= MaxLosses THEN c + Cooldown ELSE s.cooldown,
         g.until = IF p < 0 /\ h.run + 1 >= MaxLosses THEN c + Cooldown ELSE h.until
  PROVE  Remembers(r, g, t)
<1>1. CASE s.kill
  BY <1>1 DEF Remembers
<1>2. CASE ~s.kill
  <2>1. ~h.kill /\ h.high <= s.peak /\ h.run <= s.losses
        /\ h.until <= IF s.cooldown = None THEN t ELSE s.cooldown
    BY <1>2 DEF Remembers
  <2>2. h.run \in Nat /\ s.losses \in Nat /\ h.until \in Nat /\ s.cooldown \in Nat \cup {None}
    BY DEF Events, RiskState
  <2>3. ~g.kill /\ g.high <= r.peak /\ g.run <= r.losses
    BY <2>1, <2>2
  <2>4. g.until <= IF r.cooldown = None THEN t ELSE r.cooldown
    BY <2>1, <2>2 DEF None
  <2> QED
    BY <2>3, <2>4 DEF Remembers
<1> QED
  BY <1>1, <1>2

LEMMA RaisedRemembers ==
  ASSUME NEW s \in RiskState, NEW h \in Events, NEW p \in Int, NEW bal \in Nat,
         NEW c \in Nat, NEW t \in Nat,
         Remembers(s, h, t), h.until <= c + Cooldown
  PROVE  LET m == Counted(s, p, c)
             b == Booked(h, p, bal, c)
         IN /\ Remembers(m, [b EXCEPT !.high = h.high, !.kill = h.kill], t)
            /\ Remembers(Peaked(m, bal), [b EXCEPT !.kill = h.kill], t)
<1> DEFINE m == Counted(s, p, c)
           q == Peaked(m, bal)
           b == Booked(h, p, bal, c)
           g == [b EXCEPT !.high = h.high, !.kill = h.kill]
           k == [b EXCEPT !.kill = h.kill]
<1>1. m \in RiskState /\ q \in RiskState /\ b \in Events
  BY HandlersKeepType, BookedIsEvents
<1>2. m.kill = s.kill /\ m.peak = s.peak
      /\ m.losses = (IF p < 0 THEN s.losses + 1 ELSE 0)
      /\ m.cooldown = IF p < 0 /\ s.losses + 1 >= MaxLosses THEN c + Cooldown ELSE s.cooldown
  BY CountedFields
<1>3. q.kill = m.kill /\ q.peak = Larger(m.peak, bal) /\ q.losses = m.losses
      /\ q.cooldown = m.cooldown
  BY <1>1, PeakedFields
<1>4. b.high = Larger(h.high, bal) /\ b.run = (IF p < 0 THEN h.run + 1 ELSE 0)
      /\ b.until = IF p < 0 /\ h.run + 1 >= MaxLosses THEN c + Cooldown ELSE h.until
  BY BookedFields
<1>5. h.high \in Nat /\ h.kill \in BOOLEAN /\ s.peak \in Nat
  BY DEF Events, RiskState
<1> HIDE DEF m, q, b
<1>6. /\ g \in Events /\ g.kill = h.kill /\ g.high = h.high
      /\ g.run = b.run /\ g.until = b.until
      /\ k \in Events /\ k.kill = h.kill /\ k.high = b.high
      /\ k.run = b.run /\ k.until = b.until
  BY <1>1, <1>5 DEF Events
<1> HIDE DEF g, k
<1>7. Remembers(m, g, t)
  BY <1>1, <1>2, <1>4, <1>6, RunRemembers
<1>8. h.high <= s.peak => k.high <= q.peak
  BY <1>2, <1>3, <1>4, <1>5, <1>6 DEF Larger
<1>9. Remembers(q, k, t)
  BY <1>1, <1>2, <1>3, <1>4, <1>6, <1>8, RunRemembers
<1> QED
  BY <1>7, <1>9 DEF m, q, b, g, k

(* can_trade past the kill conditions: raising the peak and clearing an    *)
(* expired cooldown lose nothing.                                          *)
LEMMA GateRemembers ==
  ASSUME NEW s \in RiskState, NEW h \in Events, NEW bal \in Nat, NEW t \in Nat,
         Remembers(s, h, t)
  PROVE  LET r == [s EXCEPT !.peak = Larger(@, bal)]
             g == [h EXCEPT !.high = Larger(@, bal)]
         IN Remembers(r, g, t) /\ Remembers(GateCleared(r, bal, t), g, t)
<1> DEFINE r == [s EXCEPT !.peak = Larger(@, bal)]
           g == [h EXCEPT !.high = Larger(@, bal)]
           q == GateCleared(r, bal, t)
<1>1. r.kill = s.kill /\ r.losses = s.losses /\ r.cooldown = s.cooldown
      /\ r.peak = Larger(s.peak, bal) /\ r \in RiskState
  BY HandlersKeepType DEF RiskState
<1>2. g.kill = h.kill /\ g.run = h.run /\ g.until = h.until /\ g.high = Larger(h.high, bal)
  BY DEF Events
<1>3. h.high \in Nat /\ s.peak \in Nat /\ h.until \in Nat /\ s.cooldown \in Nat \cup {None}
  BY DEF RiskState, Events
<1> HIDE DEF r, g
<1>4. Remembers(r, g, t)
  BY <1>1, <1>2, <1>3 DEF Remembers, Larger
<1>5. q.kill = r.kill /\ q.losses = r.losses /\ q.peak = r.peak
      /\ (q.cooldown = r.cooldown \/ (q.cooldown = None /\ r.cooldown # None /\ t >= r.cooldown))
  BY <1>1 DEF GateCleared, RiskState
<1> HIDE DEF q
<1>6. Remembers(q, g, t)
  BY <1>1, <1>2, <1>3, <1>4, <1>5 DEF Remembers
<1> QED
  BY <1>4, <1>6 DEF r, g, q

----------------------------------------------------------------------------
(* The inductive invariant *)

LEMMA InitIInv == Init => IInv
<1> SUFFICES ASSUME Init PROVE IInv
  OBVIOUS
<1>1. TypeOK
  BY TypeOKInit
<1>2. TelegramWritesKill /\ NoDeadlineBeyondCooldown
  BY DEF Init, TelegramWritesKill, NoDeadlineBeyondCooldown, NoEvents, Threads
<1>3. Remembers(FreshState, NoEvents, 0)
  BY DEF Remembers, FreshState, NoEvents
<1>4. Remembered
  BY <1>3 DEF Init, Remembered, EngineTime, Threads, NoEvents
<1> QED
  BY <1>1, <1>2, <1>4 DEF Init, IInv, GateRespectsDrawdown, GateRespectsCooldown

(* Every step of the engine thread, of the two halves of a save, of /kill, *)
(* of the clock, of the account and of a crash keeps the invariant.        *)
LEMMA NextIInv ==
  ASSUME IInv, [Next]_vars, TypeOK', Undisturbed'
  PROVE  IInv'
<1> USE DEF EngineTime, EngineAt, local, closeLocals, account, process, database, history,
            LeaveTick, InTick
<1>t. /\ mem \in RiskState /\ disk \in RiskState /\ due \in Events /\ owed \in Events
      /\ buf \in [Threads -> RiskState]
      /\ mem' \in RiskState /\ due' \in Events
      /\ save \in [Threads -> {"none", "snapshot", "write"}]
      /\ clock \in Nat /\ tickNow \in Nat /\ closeNow \in Nat /\ closing \in Int
      /\ balance \in Nat /\ seen \in Nat
      /\ "engine" \in Threads /\ "telegram" \in Threads
      /\ due.until \in Nat /\ owed.until \in Nat /\ 0 \in Nat
  BY DEF IInv, TypeOK, Threads, Events
<1>i. TelegramWritesKill /\ NoDeadlineBeyondCooldown /\ Remembered
      /\ GateRespectsDrawdown /\ GateRespectsCooldown
  BY DEF IInv
<1>e. ASSUME up PROVE Remembers(mem, due, EngineTime) /\ Remembers(mem, due, clock)
  BY <1>e, <1>i, <1>t, RemembersLater DEF Remembered, NoDeadlineBeyondCooldown
<1>q. ASSUME TelegramWritesKill', NoDeadlineBeyondCooldown', Remembered',
             GateRespectsDrawdown', GateRespectsCooldown'
      PROVE  IInv'
  BY <1>q DEF IInv
(* Steps of the engine thread that change neither the state nor the history *)
<1>1. ASSUME UNCHANGED <<mem, save, buf, disk, due, owed, up, crashes, clock>>, up,
             pc # "approved" => pc' # "approved",
             pc' = "idle" \/ (tickNow' = tickNow /\ pc # "idle") \/ (tickNow' = clock /\ pc = "idle"),
             tickNow' <= clock, seen' = seen \/ pc' # "approved",
             pc' = "approved" => tickNow' = tickNow,
             pc' \in {"periods", "apply"} => closeNow' <= clock /\ due.until <= closeNow' + Cooldown
      PROVE  IInv'
  <2>1. TelegramWritesKill' /\ NoDeadlineBeyondCooldown'
    BY <1>1, <1>i DEF TelegramWritesKill, NoDeadlineBeyondCooldown
  <2>2. Remembers(mem, due, clock) /\ Remembers(mem, due, EngineTime)
    BY <1>1, <1>e
  <2>3. EngineTime' = clock \/ EngineTime' = EngineTime
    BY <1>1
  <2>4. Remembers(mem, due, EngineTime')
    BY <2>2, <2>3
  <2>5. Remembers(mem', due', EngineTime')
    BY <1>1, <2>4
  <2>6. Remembered'
    BY <1>1, <1>i, <2>5 DEF Remembered, Remembers
  <2>7. GateRespectsDrawdown' /\ GateRespectsCooldown'
    BY <1>1, <1>i DEF GateRespectsDrawdown, GateRespectsCooldown, DrawdownAtLeast
  <2> QED
    BY <1>q, <2>1, <2>6, <2>7
<1>2. CASE StartTick
  BY <1>1, <1>2, <1>t DEF StartTick
<1>3. CASE HealthUnknown
  BY <1>1, <1>3, <1>t DEF HealthUnknown
<1>4. CASE RememberReset
  BY <1>1, <1>4, <1>i, <1>t DEF RememberReset, NoDeadlineBeyondCooldown
<1>5. CASE SkipReset
  BY <1>1, <1>5, <1>i, <1>t DEF SkipReset, NoDeadlineBeyondCooldown
<1>6. ASSUME NEW p \in Pnls, CloseTrade(p) PROVE IInv'
  BY <1>1, <1>6, <1>i, <1>t DEF CloseTrade, NoDeadlineBeyondCooldown
<1>7. CASE EndManage
  BY <1>1, <1>7, <1>i, <1>t DEF EndManage, NoDeadlineBeyondCooldown
<1>8. CASE GateKilled
  BY <1>1, <1>8, <1>t DEF GateKilled
<1>9. CASE EndTick
  BY <1>1, <1>9, <1>t DEF EndTick
(* Handlers of the engine thread that change the state or the history *)
<1>m. ASSUME up, save["engine"] = "none", UNCHANGED <<disk, buf, owed, up, clock>>,
             save' = save \/ save' = [save EXCEPT !["engine"] = "snapshot"],
             mem.kill => mem'.kill, due.kill => due'.kill,
             Remembers(mem', due', EngineTime'),
             tickNow' <= clock, due'.until <= clock + Cooldown,
             pc' \in {"periods", "apply"} => closeNow' <= clock /\ due'.until <= closeNow' + Cooldown,
             GateRespectsDrawdown', GateRespectsCooldown'
      PROVE  IInv'
  <2>1. save'["engine"] # "write" /\ save'["telegram"] = save["telegram"]
    BY <1>m, <1>t
  <2>2. TelegramWritesKill' /\ NoDeadlineBeyondCooldown'
    BY <1>m, <1>i, <2>1 DEF TelegramWritesKill, NoDeadlineBeyondCooldown
  <2>3. Durable => Remembers(disk', owed', clock')
    BY <1>m, <1>i DEF Remembered, Remembers
  <2>4. Remembered'
    BY <1>m, <1>i, <2>1, <2>3 DEF Remembered
  <2> QED
    BY <1>m, <1>q, <2>2, <2>4
<1>k. ASSUME NEW b PROVE [due EXCEPT !.kill = b].until = due.until /\ [due EXCEPT !.kill = b].kill = b
  BY <1>t DEF Events
<1>10. CASE CheckKillSwitch
  <2> DEFINE terminal == Terminal(mem.peak, balance)
             trips == terminal /\ ~mem.kill
  <2>1. /\ up /\ save["engine"] = "none" /\ pc = "health"
        /\ mem' = IF trips THEN Killed(mem) ELSE mem
        /\ IF trips THEN SaveKill ELSE NoSave
        /\ due' = [due EXCEPT !.kill = due.kill \/ trips]
        /\ IF terminal \/ mem.kill THEN LeaveTick ELSE pc' = "reset" /\ InTick
        /\ UNCHANGED <<buf, closeLocals, engineDay, database, account, clock, process, owed>>
    BY <1>10 DEF CheckKillSwitch
  <2> HIDE DEF terminal
  <2>2. save' = save \/ save' = [save EXCEPT !["engine"] = "snapshot"]
    BY <2>1 DEF SaveKill, Save, NoSave
  <2>3. due'.until = due.until /\ due'.kill = (due.kill \/ trips)
    BY <2>1, <1>k
  <2>4. CASE trips
    <3>1. mem' = Killed(mem) /\ mem'.kill /\ Remembers(mem', due', EngineTime')
      BY <2>1, <2>4, <1>t, KilledRemembers
    <3>2. pc' = "idle" /\ tickNow' = 0
      BY <2>1, <2>4
    <3>3. GateRespectsDrawdown' /\ GateRespectsCooldown' /\ (due.kill => due'.kill)
      BY <2>3, <3>2 DEF GateRespectsDrawdown, GateRespectsCooldown
    <3>4. due'.until <= clock + Cooldown /\ tickNow' <= clock
      BY <1>i, <1>t, <2>3, <3>2 DEF NoDeadlineBeyondCooldown
    <3>5. UNCHANGED <<disk, buf, owed, up, clock>>
      BY <2>1
    <3> HIDE DEF trips
    <3> QED
      BY <1>m, <2>1, <2>2, <3>1, <3>2, <3>3, <3>4, <3>5
  <2>5. CASE ~trips
    <3>1. mem' = mem /\ due' = due
      BY <2>1, <2>5, <1>t DEF Events
    <3>2. (pc' = "idle" /\ tickNow' = 0) \/ (pc' = "reset" /\ tickNow' = tickNow)
      BY <2>1
    <3>3. Remembers(mem', due', EngineTime')
      BY <1>e, <2>1, <3>1, <3>2
    <3>4. GateRespectsDrawdown' /\ GateRespectsCooldown'
      BY <3>2 DEF GateRespectsDrawdown, GateRespectsCooldown
    <3>5. due'.until <= clock + Cooldown /\ tickNow' <= clock
      BY <1>i, <1>t, <3>1, <3>2 DEF NoDeadlineBeyondCooldown
    <3>6. UNCHANGED <<disk, buf, owed, up, clock>>
      BY <2>1
    <3> HIDE DEF trips
    <3> QED
      BY <1>m, <2>1, <2>2, <3>1, <3>2, <3>3, <3>4, <3>5, <3>6
  <2> QED
    BY <2>4, <2>5
<1>r. ASSUME NEW u \in Nat, up, pc # "idle"
      PROVE  /\ DailyReset(mem, u).kill = mem.kill
             /\ Remembers(DailyReset(mem, u), due, tickNow)
  BY <1>e, <1>r, <1>t, ResetRemembers DEF DailyReset, RiskState
<1>11. CASE ResetDaily
  <2>1. /\ up /\ save["engine"] = "none" /\ pc = "reset" /\ pc' = "resetDone"
        /\ mem' = DailyReset(mem, tickNow)
        /\ save' = [save EXCEPT !["engine"] = "snapshot"]
        /\ UNCHANGED <<buf, disk, clock, up, owed, due, tickNow>>
    BY <1>11 DEF ResetDaily, Save
  <2>2. mem'.kill = mem.kill /\ Remembers(mem', due', EngineTime')
    BY <1>r, <1>t, <2>1
  <2> QED
    BY <1>m, <1>i, <2>1, <2>2
       DEF GateRespectsDrawdown, GateRespectsCooldown, NoDeadlineBeyondCooldown
<1>12. CASE ResetPeriods
  <2>1. /\ up /\ save["engine"] = "none" /\ pc = "periods" /\ pc' = "apply"
        /\ mem' = mem \/ mem' = DailyReset(mem, closeNow)
        /\ save' = save \/ save' = [save EXCEPT !["engine"] = "snapshot"]
        /\ UNCHANGED <<buf, disk, clock, up, owed, due, tickNow, closeNow>>
    BY <1>12 DEF ResetPeriods, SaveIf, Save, NoSave
  <2>2. mem'.kill = mem.kill /\ Remembers(mem', due', EngineTime')
    BY <1>r, <1>e, <1>t, <2>1
  <2> QED
    BY <1>m, <1>i, <2>1, <2>2
       DEF GateRespectsDrawdown, GateRespectsCooldown, NoDeadlineBeyondCooldown
<1>13. CASE UpdateAfterTrade
  <2>1. PICK bal \in ReportedBalances: /\ mem' = AfterTrade(mem, closing, bal, closeNow)
                                        /\ due' = Booked(due, closing, bal, closeNow)
    BY <1>13 DEF UpdateAfterTrade
  <2>2. bal \in Nat
    BY <1>t DEF ReportedBalances
  <2>3. /\ up /\ save["engine"] = "none" /\ pc = "apply" /\ pc' = "manage"
        /\ save' = [save EXCEPT !["engine"] = "snapshot"]
        /\ UNCHANGED <<buf, disk, clock, up, owed, tickNow>>
    BY <1>13 DEF UpdateAfterTrade, Save
  <2>4. closeNow <= clock /\ due.until <= closeNow + Cooldown
    BY <1>i, <2>3 DEF NoDeadlineBeyondCooldown
  <2>5. Remembers(mem', due', EngineTime')
    BY <1>e, <1>t, <2>1, <2>2, <2>3, <2>4, TradeRemembers
  <2>6. mem.kill => mem'.kill
    BY <1>t, <2>1, <2>2, JudgedFields, CountedFields, HandlersKeepType DEF AfterTrade
  <2>7. due'.until <= closeNow + Cooldown /\ (due.kill => due'.kill) /\ due'.until \in Nat
    <3> DEFINE g == Booked(due, closing, bal, closeNow)
    <3>0. due \in Events /\ closing \in Int /\ closeNow \in Nat
      BY <1>t
    <3>1. g.until = IF closing < 0 /\ due.run + 1 >= MaxLosses THEN closeNow + Cooldown
                    ELSE due.until
      BY <2>2, <3>0, BookedFields
    <3>3. due.kill => g.kill
      BY <2>2, <3>0, BookedFields
    <3> HIDE DEF g
    <3>4. closeNow + Cooldown \in Nat /\ due.until \in Nat
      BY <1>t, <3>0
    <3>2. g.until <= closeNow + Cooldown /\ (due.kill => g.kill) /\ g.until \in Nat
      BY <2>4, <3>1, <3>3, <3>4
    <3> QED
      BY <2>1, <3>2 DEF g
  <2> QED
    BY <1>m, <1>i, <1>t, <2>3, <2>4, <2>5, <2>6, <2>7
       DEF GateRespectsDrawdown, GateRespectsCooldown, NoDeadlineBeyondCooldown
<1>14. CASE GateTrips
  <2>1. PICK bal \in ReportedBalances:
          mem' = Killed([mem EXCEPT !.peak = IF bal < Floor THEN mem.peak
                                              ELSE Larger(mem.peak, bal)])
    BY <1>14 DEF GateTrips
  <2> DEFINE pk == IF bal < Floor THEN mem.peak ELSE Larger(mem.peak, bal)
  <2>2. pk \in Nat
    BY <1>t, LargerIsNat DEF RiskState, ReportedBalances
  <2> HIDE DEF pk
  <2>3. [mem EXCEPT !.peak = pk] \in RiskState
    BY <1>t, <2>2 DEF RiskState
  <2>4. mem'.kill /\ Remembers(mem', due', EngineTime')
    BY <2>1, <2>3, KilledRemembers DEF pk
  <2>5. /\ up /\ save["engine"] = "none" /\ pc' = "idle" /\ tickNow' = 0
        /\ save' = save \/ save' = [save EXCEPT !["engine"] = "snapshot"]
        /\ due' = [due EXCEPT !.kill = TRUE]
        /\ UNCHANGED <<buf, disk, clock, up, owed>>
    BY <1>14 DEF GateTrips, SaveKill, Save, NoSave
  <2>6. due'.until = due.until /\ due'.kill
    BY <1>k, <2>5
  <2> QED
    BY <1>m, <1>i, <1>t, <2>4, <2>5, <2>6
       DEF GateRespectsDrawdown, GateRespectsCooldown, NoDeadlineBeyondCooldown
<1>g. ASSUME NEW bal \in Nat, GateAlive(bal), up, pc = "gate",
             NEW r, r = [mem EXCEPT !.peak = Larger(@, bal)]
      PROVE  /\ Remembers(r, due', tickNow) /\ Remembers(GateCleared(r, bal, tickNow), due', tickNow)
             /\ due'.until = due.until /\ due'.kill = due.kill
             /\ due'.high = Larger(due.high, bal) /\ ~mem.kill
  BY <1>e, <1>g, <1>t, GateRemembers DEF GateAlive, Events
<1>15. CASE GateRefuses
  <2>1. PICK bal \in ReportedBalances, lowMargin \in BOOLEAN:
          /\ GateAlive(bal)
          /\ mem' = IF lowMargin THEN [mem EXCEPT !.peak = Larger(@, bal)]
                     ELSE GateCleared([mem EXCEPT !.peak = Larger(@, bal)], bal, tickNow)
    BY <1>15 DEF GateRefuses
  <2>2. /\ bal \in Nat /\ up /\ save["engine"] = "none" /\ pc = "gate" /\ pc' = "idle" /\ tickNow' = 0
        /\ save' = save \/ save' = [save EXCEPT !["engine"] = "snapshot"]
        /\ UNCHANGED <<buf, disk, clock, up, owed>>
    BY <1>15, <1>t DEF GateRefuses, SaveIf, Save, NoSave, ReportedBalances
  <2>3. Remembers(mem', due', tickNow) /\ due'.until = due.until /\ due'.kill = due.kill /\ ~mem.kill
    BY <1>g, <2>1, <2>2
  <2>4. Remembers(mem', due', EngineTime')
    BY <1>i, <1>t, <2>2, <2>3, RemembersLater DEF NoDeadlineBeyondCooldown
  <2> QED
    BY <1>m, <1>i, <1>t, <2>2, <2>3, <2>4
       DEF GateRespectsDrawdown, GateRespectsCooldown, NoDeadlineBeyondCooldown
<1>16. CASE GateApproves
  <2>1. PICK bal \in ReportedBalances, open \in 0..MaxConcurrent:
          /\ GateAlive(bal) /\ GateOpen(mem, bal, open, tickNow) /\ seen' = bal
          /\ mem' = GateCleared([mem EXCEPT !.peak = Larger(@, bal)], bal, tickNow)
    BY <1>16 DEF GateApproves
  <2>2. /\ bal \in Nat /\ up /\ save["engine"] = "none" /\ pc = "gate" /\ pc' = "approved"
        /\ save' = save \/ save' = [save EXCEPT !["engine"] = "snapshot"]
        /\ UNCHANGED <<buf, disk, clock, up, owed, tickNow>>
    BY <1>16, <1>t DEF GateApproves, SaveIf, Save, NoSave, ReportedBalances
  <2>3. /\ Remembers(mem', due', tickNow) /\ due'.until = due.until /\ due'.kill = due.kill
        /\ ~mem.kill /\ due'.high = Larger(due.high, bal)
    BY <1>g, <2>1, <2>2
  <2>4. Remembers(mem', due', EngineTime')
    BY <2>2, <2>3
  <2>5. /\ due.high <= mem.peak
        /\ due.until <= IF mem.cooldown = None THEN tickNow ELSE mem.cooldown
    BY <1>e, <2>2, <2>3 DEF Remembers
  <2>6. GateRespectsCooldown'
    <3>1. mem.cooldown = None \/ tickNow >= mem.cooldown
      BY <2>1 DEF GateOpen
    <3>2. mem.cooldown \in Nat \cup {None}
      BY <1>t DEF RiskState
    <3>3. tickNow >= due.until
      BY <1>t, <2>5, <3>1, <3>2
    <3> QED
      BY <2>2, <2>3, <3>3 DEF GateRespectsCooldown
  <2>7. GateRespectsDrawdown'
    <3>1. due.high \in Nat /\ mem.peak \in Nat
      BY <1>t DEF RiskState, Events
    <3>2. ~DrawdownAtLeast(Larger(mem.peak, bal), bal, MaxTotalDD)
      BY <2>1 DEF GateAlive, Terminal
    <3>3. /\ Larger(due.high, bal) \in Nat /\ Larger(mem.peak, bal) \in Nat
          /\ Larger(due.high, bal) <= Larger(mem.peak, bal)
      BY <2>2, <2>5, <3>1 DEF Larger
    <3>4. ~DrawdownAtLeast(Larger(due.high, bal), bal, MaxTotalDD)
      BY <2>2, <3>2, <3>3, DrawdownMonotone
    <3> QED
      BY <2>1, <2>3, <3>4 DEF GateRespectsDrawdown, DrawdownAtLeast
  <2> QED
    BY <1>m, <1>i, <1>t, <2>2, <2>3, <2>4, <2>6, <2>7 DEF NoDeadlineBeyondCooldown
(* Saves, commands and the environment *)
<1>n. ASSUME UNCHANGED <<pc, tickNow, closeNow, seen, due, clock>>
      PROVE  GateRespectsDrawdown' /\ GateRespectsCooldown' /\ EngineTime' = EngineTime
  BY <1>n, <1>i DEF GateRespectsDrawdown, GateRespectsCooldown, DrawdownAtLeast
<1>17. ASSUME NEW t \in Threads, Snapshot(t) PROVE IInv'
  <2>1. /\ up /\ save[t] = "snapshot" /\ buf' = [buf EXCEPT ![t] = mem]
        /\ save' = [save EXCEPT ![t] = "write"]
        /\ UNCHANGED <<mem, disk, due, owed, up, crashes, clock, pc, tickNow, closeNow, seen>>
    BY <1>17 DEF Snapshot
  <2>2. TelegramWritesKill' /\ NoDeadlineBeyondCooldown'
    BY <1>i, <1>t, <2>1 DEF TelegramWritesKill, NoDeadlineBeyondCooldown
  <2>3. /\ up' => Remembers(mem', due', EngineTime')
        /\ Durable => Remembers(disk', owed', clock')
    BY <1>e, <1>i, <2>1 DEF Remembered, Remembers
  <2>4. save'["engine"] = "write" => Remembers(buf'["engine"], due', clock')
    <3>1. CASE t = "engine"
      <4>1. buf'["engine"] = mem
        BY <1>t, <2>1, <3>1
      <4>2. Remembers(mem, due, clock)
        BY <1>e, <2>1
      <4> QED
        BY <4>1, <4>2, <2>1
    <3>2. CASE t # "engine"
      <4>1. save'["engine"] = save["engine"] /\ buf'["engine"] = buf["engine"]
        BY <1>t, <2>1, <3>2
      <4> QED
        BY <1>i, <2>1, <4>1 DEF Remembered, Remembers
    <3> QED
      BY <3>1, <3>2
  <2>5. Remembered'
    BY <1>i, <2>1, <2>3, <2>4 DEF Remembered
  <2> QED
    BY <1>n, <1>q, <2>1, <2>2, <2>5
<1>18. ASSUME NEW t \in Threads, WriteState(t) PROVE IInv'
  <2>1. /\ up /\ save[t] = "write" /\ disk' = buf[t] /\ buf' = [buf EXCEPT ![t] = FreshState]
        /\ save' = [save EXCEPT ![t] = "none"]
        /\ owed' = IF t = "engine" THEN due ELSE owed
        /\ UNCHANGED <<mem, due, up, clock, pc, tickNow, closeNow, seen>>
    BY <1>18 DEF WriteState
  <2>2. TelegramWritesKill' /\ NoDeadlineBeyondCooldown'
    BY <1>i, <1>t, <2>1 DEF TelegramWritesKill, NoDeadlineBeyondCooldown
  <2>3. (Durable => Remembers(disk', owed', clock')) /\ (owed'.kill => due'.kill)
    <3>1. CASE t = "engine"
      BY <1>i, <2>1, <3>1 DEF Remembered, Remembers
    <3>2. CASE t = "telegram"
      BY <1>i, <1>t, <2>1, <3>2 DEF Remembered, TelegramWritesKill, Remembers
    <3> QED
      BY <3>1, <3>2 DEF Threads
  <2>4. save'["engine"] = "write" => Remembers(buf'["engine"], due', clock')
    <3>1. CASE t = "engine"
      BY <1>t, <2>1, <3>1
    <3>2. CASE t # "engine"
      <4>1. save'["engine"] = save["engine"] /\ buf'["engine"] = buf["engine"]
        BY <1>t, <2>1, <3>2
      <4> QED
        BY <1>i, <2>1, <4>1 DEF Remembered, Remembers
    <3> QED
      BY <3>1, <3>2
  <2>5. up' => Remembers(mem', due', EngineTime')
    BY <1>e, <2>1, <1>n
  <2>6. Remembered'
    BY <2>1, <2>3, <2>4, <2>5 DEF Remembered
  <2> QED
    BY <1>n, <1>q, <2>1, <2>2, <2>6
<1>19. CASE TelegramKill
  <2>1. /\ up /\ mem' = [mem EXCEPT !.kill = TRUE] /\ save' = [save EXCEPT !["telegram"] = "snapshot"]
        /\ UNCHANGED <<buf, disk, due, owed, up, clock, pc, tickNow, closeNow, seen>>
    BY <1>19 DEF TelegramKill, Save
  <2>2. mem'.kill
    BY <1>t, <2>1 DEF RiskState
  <2>3. save'["telegram"] = "snapshot" /\ save'["engine"] = save["engine"]
    BY <1>t, <2>1
  <2>4. TelegramWritesKill' /\ NoDeadlineBeyondCooldown'
    BY <1>i, <2>1, <2>2, <2>3 DEF TelegramWritesKill, NoDeadlineBeyondCooldown
  <2>5. Remembered'
    BY <1>i, <2>1, <2>2, <2>3 DEF Remembered, Remembers
  <2> QED
    BY <1>n, <1>q, <2>1, <2>4, <2>5
<1>20. CASE TelegramRisk
  <2>1. /\ up /\ ~Durable /\ save' = [save EXCEPT !["telegram"] = "snapshot"]
        /\ UNCHANGED <<mem, buf, disk, due, owed, up, clock, pc, tickNow, closeNow, seen>>
    BY <1>20 DEF TelegramRisk, Save, Durable
  <2>2. save'["engine"] = save["engine"]
    BY <1>t, <2>1
  <2>3. TelegramWritesKill' /\ NoDeadlineBeyondCooldown'
    BY <1>i, <2>1 DEF TelegramWritesKill, NoDeadlineBeyondCooldown
  <2>4. Remembered'
    BY <1>i, <2>1, <2>2 DEF Remembered, Remembers
  <2> QED
    BY <1>n, <1>q, <2>1, <2>3, <2>4
<1>21. CASE BalanceMoves
  <2>1. UNCHANGED <<mem, save, buf, disk, due, owed, up, crashes, clock, pc, tickNow, closeNow, seen>>
    BY <1>21 DEF BalanceMoves
  <2> QED
    BY <1>i, <1>n, <1>q, <2>1 DEF TelegramWritesKill, NoDeadlineBeyondCooldown, Remembered, Remembers
<1>22. CASE TimePasses
  <2>1. /\ clock' = clock + 1
        /\ UNCHANGED <<mem, save, buf, disk, due, owed, up, crashes, pc, tickNow, closeNow, seen>>
    BY <1>22 DEF TimePasses
  <2>2. TelegramWritesKill' /\ NoDeadlineBeyondCooldown'
    BY <1>i, <1>t, <2>1 DEF TelegramWritesKill, NoDeadlineBeyondCooldown
  <2>3. /\ up => Remembers(mem, due, EngineTime')
        /\ Durable => Remembers(disk, owed, clock')
        /\ save["engine"] = "write" => Remembers(buf["engine"], due, clock')
    BY <1>e, <1>i, <1>t, <2>1, RemembersLater DEF Remembered
  <2>4. Remembered'
    BY <1>i, <2>1, <2>3 DEF Remembered, Remembers
  <2>5. GateRespectsDrawdown' /\ GateRespectsCooldown'
    BY <1>i, <2>1 DEF GateRespectsDrawdown, GateRespectsCooldown, DrawdownAtLeast
  <2> QED
    BY <1>q, <2>2, <2>4, <2>5
<1>23. CASE Crash
  <2>1. /\ up' = FALSE /\ save' = [t \in Threads |-> "none"] /\ pc' = "idle"
        /\ tickNow' = 0 /\ due' = owed /\ crashes' # 0
        /\ UNCHANGED <<disk, owed, clock>>
    BY <1>23 DEF Crash, IInv, TypeOK
  <2>2. TelegramWritesKill' /\ NoDeadlineBeyondCooldown'
    BY <1>i, <1>t, <2>1 DEF TelegramWritesKill, NoDeadlineBeyondCooldown
  <2>3. Remembered'
    BY <1>i, <1>t, <2>1 DEF Remembered, Remembers
  <2> QED
    BY <1>q, <2>1, <2>2, <2>3 DEF GateRespectsDrawdown, GateRespectsCooldown
<1>24. CASE Restart
  <2>1. /\ ~up /\ up' /\ mem' = disk /\ Durable
        /\ UNCHANGED <<save, buf, disk, due, owed, clock, pc, tickNow, closeNow, seen>>
    BY <1>24, <1>i DEF Restart, Undisturbed, Remembered, Durable
  <2>2. due = owed /\ pc = "idle" /\ save["engine"] = "none" /\ save["telegram"] = "none"
    BY <1>i, <1>t, <2>1 DEF Remembered
  <2>3. TelegramWritesKill' /\ NoDeadlineBeyondCooldown'
    BY <1>i, <2>1, <2>2 DEF TelegramWritesKill, NoDeadlineBeyondCooldown
  <2>4. Remembered'
    BY <1>i, <2>1, <2>2 DEF Remembered, Remembers
  <2> QED
    BY <1>n, <1>q, <2>1, <2>3, <2>4
<1>25. CASE UNCHANGED vars
  <2>1. UNCHANGED <<mem, save, buf, disk, due, owed, up, crashes, clock, pc, tickNow, closeNow, seen>>
    BY <1>25 DEF vars
  <2> QED
    BY <1>i, <1>n, <1>q, <2>1 DEF TelegramWritesKill, NoDeadlineBeyondCooldown, Remembered, Remembers
(* Writes that fail *)
<1>26. CASE RememberFails
  BY <1>1, <1>26, <1>t DEF RememberFails
<1>27. ASSUME NEW t \in Threads, WriteFails(t) PROVE IInv'
  <2>1. /\ up /\ save[t] = "write" /\ buf' = [buf EXCEPT ![t] = FreshState]
        /\ save' = [save EXCEPT ![t] = "none"]
        /\ UNCHANGED <<mem, disk, due, owed, up, clock>>
    BY <1>27 DEF WriteFails
  <2>2. \/ pc' = "manage" /\ tickNow' = tickNow /\ seen' = seen /\ pc \in {"apply", "manage"}
        \/ pc' = "idle" /\ tickNow' = 0
        \/ UNCHANGED <<pc, tickNow, closeNow, closing, seen>>
    BY <1>27 DEF WriteFails
  <2>3. /\ save'["engine"] = "write" => save["engine"] = "write" /\ buf'["engine"] = buf["engine"]
        /\ save'["telegram"] = "write" => save["telegram"] = "write" /\ buf'["telegram"] = buf["telegram"]
        /\ save'["telegram"] = "snapshot" => save["telegram"] = "snapshot"
    BY <1>t, <2>1
  <2>4. TelegramWritesKill'
    BY <1>i, <2>1, <2>3 DEF TelegramWritesKill
  <2>5. NoDeadlineBeyondCooldown'
    BY <1>i, <1>t, <2>1, <2>2 DEF NoDeadlineBeyondCooldown
  <2>6. EngineTime' = EngineTime \/ EngineTime' = clock
    BY <2>1, <2>2
  <2>7. Remembers(mem', due', EngineTime')
    BY <1>e, <2>1, <2>6
  <2>8. save'["engine"] = "write" => Remembers(buf'["engine"], due', clock')
    BY <1>i, <2>1, <2>3 DEF Remembered
  <2>9. Remembered'
    BY <1>i, <2>1, <2>7, <2>8 DEF Remembered
  <2>10. GateRespectsDrawdown' /\ GateRespectsCooldown'
    BY <1>i, <2>1, <2>2 DEF GateRespectsDrawdown, GateRespectsCooldown
  <2> QED
    BY <1>q, <2>4, <2>5, <2>9, <2>10
<1>28. CASE UpdateRaises
  <2> DEFINE counted == Counted(mem, closing, closeNow)
  <2>1. PICK bal \in ReportedBalances:
          LET booked == Booked(due, closing, bal, closeNow)
          IN \/ mem' = counted /\ due' = [booked EXCEPT !.high = due.high, !.kill = due.kill]
             \/ mem' = Peaked(counted, bal) /\ due' = [booked EXCEPT !.kill = due.kill]
             \/ mem' = Judged(counted, bal) /\ due' = booked
    BY <1>28 DEF UpdateRaises
  <2> DEFINE booked == Booked(due, closing, bal, closeNow)
  <2>2. bal \in Nat
    BY <1>t DEF ReportedBalances
  <2>3. /\ up /\ save["engine"] = "none" /\ pc = "apply" /\ pc' = "manage"
        /\ UNCHANGED <<save, buf, disk, clock, up, owed, tickNow>>
    BY <1>28 DEF UpdateRaises
  <2>4. closeNow <= clock /\ due.until <= closeNow + Cooldown
    BY <1>i, <2>3 DEF NoDeadlineBeyondCooldown
  <2>5. Remembers(mem, due, tickNow)
    BY <1>e, <2>3
  <2>6. counted \in RiskState /\ booked \in Events /\ counted.kill = mem.kill
    <3>1. counted \in RiskState
      BY <1>t, <2>2, HandlersKeepType
    <3>2. booked \in Events
      BY <1>t, <2>2, BookedIsEvents
    <3>3. counted.kill = mem.kill
      BY <1>t, CountedFields
    <3> QED
      BY <3>1, <3>2, <3>3
  <2>7. /\ Remembers(counted, [booked EXCEPT !.high = due.high, !.kill = due.kill], tickNow)
        /\ Remembers(Peaked(counted, bal), [booked EXCEPT !.kill = due.kill], tickNow)
    BY <1>t, <2>2, <2>4, <2>5, RaisedRemembers
  <2>8. Remembers(Judged(counted, bal), booked, tickNow)
    BY <1>t, <2>2, <2>4, <2>5, TradeRemembers DEF AfterTrade
  <2>9. /\ Peaked(counted, bal).kill = counted.kill
        /\ counted.kill => Judged(counted, bal).kill
    BY <2>2, <2>6, PeakedFields, JudgedFields
  <2>10. booked.until <= closeNow + Cooldown /\ (due.kill => booked.kill) /\ booked.until \in Nat
    <3>1. booked.until = IF closing < 0 /\ due.run + 1 >= MaxLosses THEN closeNow + Cooldown
                         ELSE due.until
      BY <1>t, <2>2, BookedFields
    <3>2. due.kill => booked.kill
      BY <1>t, <2>2, BookedFields
    <3> HIDE DEF booked
    <3> QED
      BY <1>t, <2>4, <3>1, <3>2
  <2> HIDE DEF counted, booked
  <2>11. /\ \/ mem' = counted /\ due' = [booked EXCEPT !.high = due.high, !.kill = due.kill]
            \/ mem' = Peaked(counted, bal) /\ due' = [booked EXCEPT !.kill = due.kill]
            \/ mem' = Judged(counted, bal) /\ due' = booked
    BY <2>1 DEF booked
  <2>12. Remembers(mem', due', EngineTime')
    BY <2>3, <2>7, <2>8, <2>11
  <2>13. mem.kill => mem'.kill
    BY <2>6, <2>9, <2>11
  <2>14. due'.until = booked.until /\ (due.kill => due'.kill)
    BY <2>6, <2>10, <2>11 DEF Events
  <2> QED
    BY <1>m, <1>i, <1>t, <2>3, <2>4, <2>10, <2>12, <2>13, <2>14
       DEF GateRespectsDrawdown, GateRespectsCooldown, NoDeadlineBeyondCooldown
<1> QED
  BY <1>2, <1>3, <1>4, <1>5, <1>6, <1>7, <1>8, <1>9, <1>10, <1>11, <1>12, <1>13, <1>14, <1>15,
     <1>16, <1>17, <1>18, <1>19, <1>20, <1>21, <1>22, <1>23, <1>24, <1>25, <1>26, <1>27, <1>28
     DEF Next, EngineStep

(* Crashes are counted, and nothing else changes their number              *)
LEMMA CrashesGrow ==
  ASSUME TypeOK, [Next]_vars
  PROVE  (Undisturbed' => Undisturbed) /\ (crashes' = 0 => crashes = 0 /\ ~Crash)
<1>1. crashes' = crashes \/ crashes' = crashes + 1
  BY DEF Next, EngineStep, StartTick, HealthUnknown, CheckKillSwitch, ResetDaily, RememberReset,
     RememberFails, SkipReset, CloseTrade, ResetPeriods, UpdateAfterTrade, UpdateRaises, EndManage,
     GateKilled, GateTrips, GateRefuses, GateApproves, EndTick, Snapshot, WriteState, WriteFails,
     TelegramKill, TelegramRisk, BalanceMoves, TimePasses, Crash, Restart, process, vars
<1>2. crashes \in Nat
  BY DEF TypeOK
<1> QED
  BY <1>1, <1>2 DEF Undisturbed, Durable, Crash

LEMMA Invariance == Spec => [](Undisturbed => IInv)
<1>1. Init => IInv
  BY InitIInv
<1>2. TypeOK /\ TypeOK' /\ (Undisturbed => IInv) /\ [Next]_vars => (Undisturbed => IInv)'
  <2> SUFFICES ASSUME TypeOK, TypeOK', Undisturbed => IInv, [Next]_vars, Undisturbed' PROVE IInv'
    OBVIOUS
  <2>1. IInv
    BY CrashesGrow
  <2> QED
    BY <2>1, NextIInv
<1> QED
  BY <1>1, <1>2, TypeCorrect, PTL DEF Spec

(* As long as /risk cannot be sent, and where it can until the first crash *)
(* of the process, no order is approved on a balance too far below the     *)
(* highest balance can_trade or update_after_trade was told, whatever      *)
(* writes fail and whatever commands, crashes and restarts come between.   *)
THEOREM DrawdownGuard == Spec => [](Undisturbed => GateRespectsDrawdown)
<1>1. IInv => GateRespectsDrawdown
  BY DEF IInv
<1> QED
  BY <1>1, Invariance, PTL

(* Under the same condition no order is approved during the cooldown that  *)
(* a run of recorded losses calls for.                                     *)
THEOREM CooldownGuard == Spec => [](Undisturbed => GateRespectsCooldown)
<1>1. IInv => GateRespectsCooldown
  BY DEF IInv
<1> QED
  BY <1>1, Invariance, PTL

(* Under the same condition a kill condition the engine has found and      *)
(* saved keeps the kill switch active.                                     *)
THEOREM KillIsDurable == Spec => [](Undisturbed => KillSurvives)
<1>1. IInv => KillSurvives
  BY DEF IInv, KillSurvives, Remembered, Remembers
<1> QED
  BY <1>1, Invariance, PTL

----------------------------------------------------------------------------
(* Why the kill switch is active *)

LEMMA TerminalMonotone ==
  ASSUME NEW a \in Nat, NEW b \in Nat, NEW bal \in Nat, a <= b, Terminal(a, bal)
  PROVE  Terminal(b, bal)
  BY DrawdownMonotone DEF Terminal

(* A handler that raises the peak to the balance at most, and engages the  *)
(* switch only where the account has been in the kill condition.           *)
LEMMA HandlerKeepsCause ==
  ASSUME TypeOK, KillCause, up,
         UNCHANGED <<balance, truth, crashes, up>>,
         UNCHANGED <<save["telegram"], buf["telegram"]>>,
         mem'.peak = mem.peak \/ mem'.peak = Larger(mem.peak, balance),
         mem'.kill => mem.kill \/ truth.breached
  PROVE  KillCause'
<1>1. balance \in Nat /\ mem.peak \in Nat /\ truth.top \in Nat
  BY DEF TypeOK, RiskState, Truth
<1>2. crashes = 0 => mem'.peak <= truth.top
  BY <1>1 DEF KillCause, Larger
<1>3. KillUnderway' = KillUnderway
  BY DEF KillUnderway
<1>4. Terminal(truth.top, balance)' = Terminal(truth.top, balance)
  BY DEF Terminal, DrawdownAtLeast
<1> QED
  BY <1>2, <1>3, <1>4 DEF KillCause

(* What the engine finds with the peak it has is so with the true top.     *)
LEMMA FoundIsSo ==
  ASSUME TypeOK, KillCause, crashes = 0,
         NEW peak \in Nat, peak = mem.peak \/ peak = Larger(mem.peak, balance),
         Terminal(peak, balance)
  PROVE  truth.breached
<1>1. balance \in Nat /\ mem.peak \in Nat /\ truth.top \in Nat
  BY DEF TypeOK, RiskState, Truth
<1>2. peak <= truth.top
  BY <1>1 DEF KillCause, Larger
<1> QED
  BY <1>1, <1>2, TerminalMonotone DEF KillCause

LEMMA KilledFields ==
  ASSUME NEW s \in RiskState
  PROVE  Killed(s).kill /\ Killed(s).peak = s.peak /\ Killed(s).dailyPnl = s.dailyPnl
         /\ Killed(s).resetDay = s.resetDay
  BY DEF Killed, RiskState

LEMMA ResetFields ==
  ASSUME NEW s \in RiskState, NEW t \in Nat
  PROVE  DailyReset(s, t).kill = s.kill /\ DailyReset(s, t).peak = s.peak
         /\ DailyReset(s, t).dailyPnl = 0 /\ DailyReset(s, t).resetDay = Day(t)
  BY DEF DailyReset, RiskState

LEMMA GateFields ==
  ASSUME NEW s \in RiskState, NEW bal \in Nat, NEW t \in Nat,
         NEW r, r = [s EXCEPT !.peak = Larger(@, bal)] \/
                r = GateCleared([s EXCEPT !.peak = Larger(@, bal)], bal, t)
  PROVE  r.kill = s.kill /\ r.peak = Larger(s.peak, bal) /\ r.dailyPnl = s.dailyPnl
         /\ r.resetDay = s.resetDay
<1> DEFINE q == [s EXCEPT !.peak = Larger(@, bal)]
<1>1. q.kill = s.kill /\ q.peak = Larger(s.peak, bal) /\ q.dailyPnl = s.dailyPnl
      /\ q.resetDay = s.resetDay /\ q \in RiskState
  BY HandlersKeepType DEF RiskState
<1> HIDE DEF q
<1>2. GateCleared(q, bal, t) = q \/ GateCleared(q, bal, t) = [q EXCEPT !.cooldown = None]
  BY DEF GateCleared
<1>3. r = q \/ r = [q EXCEPT !.cooldown = None]
  BY <1>2 DEF q
<1> QED
  BY <1>1, <1>3 DEF RiskState

LEMMA NextKillCause ==
  ASSUME TypeOK, KillCause, [Next]_vars, TypeOK', ~AccountMayFail,
         DatabaseMayFail => "kill" \notin Commands
  PROVE  KillCause'
<1> USE DEF local, closeLocals, account, process, database, history, EngineAt
<1>t. /\ mem \in RiskState /\ balance \in Nat /\ truth \in Truth
      /\ closing \in Int /\ closeNow \in Nat /\ tickNow \in Nat
      /\ due \in Events /\ crashes \in Nat /\ up \in BOOLEAN
      /\ save \in [Threads -> {"none", "snapshot", "write"}]
      /\ buf \in [Threads -> RiskState]
      /\ mem.peak \in Nat /\ mem.kill \in BOOLEAN /\ truth.top \in Nat /\ truth.breached \in BOOLEAN
  BY DEF TypeOK, RiskState, Truth
<1>th. "engine" \in Threads /\ "telegram" \in Threads /\ "engine" # "telegram"
  BY DEF Threads
<1>b. ReportedBalances = {balance}
  BY DEF ReportedBalances
(* The engine's handlers *)
<1>h. ASSUME up, UNCHANGED <<balance, truth, crashes, up, buf>>,
             save' = save \/ Save("engine"),
             mem'.peak = mem.peak \/ mem'.peak = Larger(mem.peak, balance),
             mem'.kill => mem.kill \/ truth.breached
      PROVE  KillCause'
  <2>1. save'["telegram"] = save["telegram"] /\ buf'["telegram"] = buf["telegram"]
    BY <1>h, <1>t, <1>th DEF Save
  <2> QED
    BY <1>h, <2>1, HandlerKeepsCause
<1>1. CASE \/ StartTick \/ HealthUnknown \/ RememberReset \/ SkipReset \/ EndManage
           \/ GateKilled \/ EndTick
  <2>1. UNCHANGED <<mem, save, buf, balance, truth, crashes, up>> /\ up
    BY <1>1 DEF StartTick, HealthUnknown, RememberReset, SkipReset, EndManage, GateKilled, EndTick
  <2> QED
    BY <1>h, <2>1
<1>2. CASE CheckKillSwitch
  <2>1. /\ up /\ UNCHANGED <<balance, truth, crashes, up, buf>>
        /\ mem' = IF Terminal(mem.peak, balance) /\ ~mem.kill THEN Killed(mem) ELSE mem
        /\ save' = save \/ Save("engine")
    BY <1>2 DEF CheckKillSwitch, SaveKill, NoSave
  <2>2. mem'.peak = mem.peak
    BY <1>t, <2>1, KilledFields
  <2>3. CASE crashes = 0
    <3>1. Terminal(mem.peak, balance) => truth.breached
      BY <1>t, <2>3, FoundIsSo
    <3> QED
      BY <1>h, <2>1, <2>2, <3>1
  <2>4. CASE crashes # 0
    BY <2>1, <2>4 DEF KillCause, Terminal, DrawdownAtLeast
  <2> QED
    BY <2>3, <2>4
<1>3. CASE ResetDaily \/ ResetPeriods
  <2>1. /\ up /\ UNCHANGED <<balance, truth, crashes, up, buf>>
        /\ save' = save \/ Save("engine")
        /\ mem' \in {mem, DailyReset(mem, tickNow), DailyReset(mem, closeNow)}
    BY <1>3 DEF ResetDaily, ResetPeriods, SaveIf, NoSave
  <2> QED
    BY <1>h, <1>t, <2>1, ResetFields
<1>4. CASE RememberFails
  <2>1. /\ UNCHANGED <<mem, save, buf, balance, crashes, up>>
        /\ truth'.top = truth.top /\ truth'.breached = truth.breached /\ truth'.asked = truth.asked
    BY <1>4, <1>t DEF RememberFails, Truth
  <2> QED
    BY <2>1 DEF KillCause, KillUnderway, Terminal, DrawdownAtLeast
<1>m. ASSUME NEW b \in Balances, Moves(b), UNCHANGED <<mem, save, buf, crashes, up>>
      PROVE  KillCause'
  <2>1. b \in Nat /\ Larger(truth.top, b) \in Nat /\ b <= Larger(truth.top, b)
        /\ truth.top <= Larger(truth.top, b)
    BY <1>t, LargerIsNat
  <2>2. /\ balance' = b /\ truth'.top = Larger(truth.top, b) /\ truth'.asked = truth.asked
        /\ truth'.breached = (truth.breached \/ Terminal(Larger(truth.top, b), b))
    BY <1>m, <1>t DEF Moves, Truth
  <2>3. Terminal(truth.top, balance)' = Terminal(Larger(truth.top, b), b)
    BY <2>2 DEF Terminal, DrawdownAtLeast
  <2>4. balance' <= truth'.top /\ truth.top <= truth'.top
    BY <2>1, <2>2
  <2>5. Terminal(truth.top, balance)' => truth'.breached
    BY <2>2, <2>3
  <2>6. crashes = 0 => mem.peak <= truth'.top
    BY <1>t, <2>1, <2>2 DEF KillCause
  <2>7. KillUnderway' = KillUnderway
    BY <1>m DEF KillUnderway
  <2>8. truth.breached => truth'.breached
    BY <2>2
  <2> QED
    BY <1>m, <2>2, <2>4, <2>5, <2>6, <2>7, <2>8 DEF KillCause
<1>5. CASE \E p \in Pnls: CloseTrade(p)
  BY <1>5, <1>m DEF CloseTrade
<1>6. CASE BalanceMoves
  BY <1>6, <1>m DEF BalanceMoves
(* A trade: counting it leaves peak and switch alone, judging it may not *)
<1>j. ASSUME NEW s \in RiskState, s.peak = mem.peak, s.kill = mem.kill, crashes = 0
      PROVE  /\ Peaked(s, balance).peak = Larger(mem.peak, balance)
             /\ Peaked(s, balance).kill = mem.kill
             /\ Judged(s, balance).peak = Larger(mem.peak, balance)
             /\ Judged(s, balance).kill => mem.kill \/ truth.breached
  <2>1. Larger(mem.peak, balance) \in Nat
    BY <1>t, LargerIsNat
  <2>2. DrawdownAtLeast(Larger(mem.peak, balance), balance, MaxTotalDD) => truth.breached
    BY <1>j, <2>1, FoundIsSo DEF Terminal
  <2> QED
    BY <1>j, <1>t, <2>2, PeakedFields, JudgedFields
<1>7. CASE UpdateAfterTrade \/ UpdateRaises
  <2> DEFINE c == Counted(mem, closing, closeNow)
  <2>1. /\ up /\ UNCHANGED <<balance, truth, crashes, up, buf>>
        /\ save' = save \/ Save("engine")
        /\ mem' \in {c, Peaked(c, balance), Judged(c, balance)}
    BY <1>7, <1>b DEF UpdateAfterTrade, UpdateRaises, AfterTrade
  <2>2. c \in RiskState /\ c.peak = mem.peak /\ c.kill = mem.kill
    <3>1. c \in RiskState
      BY <1>t, HandlersKeepType
    <3>2. c.peak = mem.peak /\ c.kill = mem.kill
      BY <1>t, CountedFields
    <3> QED
      BY <3>1, <3>2
  <2> HIDE DEF c
  <2>3. CASE crashes = 0
    BY <1>h, <1>j, <2>1, <2>2, <2>3
  <2>4. CASE crashes # 0
    BY <2>1, <2>4 DEF KillCause, Terminal, DrawdownAtLeast
  <2> QED
    BY <2>3, <2>4
<1>8. CASE GateTrips
  <2> DEFINE pk == IF balance < Floor THEN mem.peak ELSE Larger(mem.peak, balance)
  <2>1. /\ up /\ UNCHANGED <<balance, truth, crashes, up, buf>>
        /\ save' = save \/ Save("engine")
        /\ Terminal(pk, balance) /\ mem' = Killed([mem EXCEPT !.peak = pk])
    BY <1>8, <1>b DEF GateTrips, SaveKill, NoSave
  <2>2. pk \in Nat /\ (pk = mem.peak \/ pk = Larger(mem.peak, balance))
    BY <1>t, LargerIsNat
  <2> HIDE DEF pk
  <2>3. [mem EXCEPT !.peak = pk] \in RiskState /\ [mem EXCEPT !.peak = pk].peak = pk
    BY <1>t, <2>2 DEF RiskState
  <2>4. mem'.peak = pk
    BY <2>1, <2>3, KilledFields
  <2>5. CASE crashes = 0
    <3>1. truth.breached
      BY <2>1, <2>2, <2>5, FoundIsSo
    <3> QED
      BY <1>h, <2>1, <2>2, <2>4, <3>1
  <2>6. CASE crashes # 0
    BY <2>1, <2>6 DEF KillCause, Terminal, DrawdownAtLeast
  <2> QED
    BY <2>5, <2>6
<1>9. CASE GateRefuses \/ GateApproves
  <2>1. /\ up /\ UNCHANGED <<balance, truth, crashes, up, buf>>
        /\ save' = save \/ Save("engine")
        /\ \/ mem' = [mem EXCEPT !.peak = Larger(@, balance)]
           \/ mem' = GateCleared([mem EXCEPT !.peak = Larger(@, balance)], balance, tickNow)
    BY <1>9, <1>b DEF GateRefuses, GateApproves, SaveIf, NoSave
  <2>2. mem'.peak = Larger(mem.peak, balance) /\ mem'.kill = mem.kill
    BY <1>t, <2>1, GateFields
  <2> QED
    BY <1>h, <2>1, <2>2
(* Saves and commands *)
<1>s. ASSUME UNCHANGED <<balance, truth, crashes, up, mem>>, KillUnderway => KillUnderway'
      PROVE  KillCause'
  BY <1>s DEF KillCause, Terminal, DrawdownAtLeast
<1>10. ASSUME NEW t \in Threads, Snapshot(t) PROVE KillCause'
  <2>1. /\ buf' = [buf EXCEPT ![t] = mem] /\ save' = [save EXCEPT ![t] = "write"]
        /\ UNCHANGED <<balance, truth, crashes, up, mem>> /\ save[t] = "snapshot"
    BY <1>10 DEF Snapshot
  <2>2. CASE mem.kill
    <3>1. KillUnderway => KillUnderway'
      BY <1>t, <1>th, <2>1, <2>2 DEF KillUnderway
    <3> QED
      BY <1>s, <2>1, <3>1
  <2>3. CASE ~mem.kill
    BY <2>1, <2>3 DEF KillCause, Terminal, DrawdownAtLeast
  <2> QED
    BY <2>2, <2>3
<1>11. ASSUME NEW t \in Threads, WriteState(t) PROVE KillCause'
  <2>1. /\ save[t] = "write" /\ UNCHANGED <<balance, crashes, up, mem>>
        /\ save' = [save EXCEPT ![t] = "none"] /\ buf' = [buf EXCEPT ![t] = FreshState]
        /\ truth'.top = truth.top /\ truth'.breached = truth.breached
        /\ truth.asked => truth'.asked
        /\ t = "telegram" /\ buf[t].kill => truth'.asked
    BY <1>11, <1>t DEF WriteState, Truth
  <2>2. KillUnderway => KillUnderway' \/ truth'.asked
    BY <1>t, <1>th, <2>1 DEF KillUnderway, Threads
  <2> QED
    BY <2>1, <2>2 DEF KillCause, Terminal, DrawdownAtLeast
<1>12. ASSUME NEW t \in Threads, WriteFails(t) PROVE KillCause'
  <2>1. UNCHANGED <<balance, truth, crashes, up, mem>> /\ ~KillUnderway
    BY <1>12 DEF WriteFails, KillUnderway
  <2> QED
    BY <1>s, <2>1
<1>13. CASE TelegramKill
  <2>1. /\ mem'.peak = mem.peak /\ KillUnderway'
        /\ UNCHANGED <<balance, truth, crashes, up>>
    BY <1>13, <1>t, <1>th DEF TelegramKill, Save, KillUnderway, RiskState
  <2> QED
    BY <2>1 DEF KillCause, Terminal, DrawdownAtLeast
<1>14. CASE TelegramRisk
  <2>1. UNCHANGED <<balance, truth, crashes, up, mem>> /\ ~KillUnderway
    BY <1>14 DEF TelegramRisk, KillUnderway
  <2> QED
    BY <1>s, <2>1
<1>15. CASE TimePasses \/ UNCHANGED vars
  <2>1. UNCHANGED <<balance, truth, crashes, up, mem, save, buf>>
    BY <1>15 DEF TimePasses, vars
  <2> QED
    BY <1>s, <2>1 DEF KillUnderway
(* A crash may lose a kill and its reason: the promise ends here *)
<1>16. CASE Crash
  <2>1. UNCHANGED <<balance, truth>> /\ crashes' = crashes + 1
    BY <1>16 DEF Crash
  <2> QED
    BY <1>t, <2>1 DEF KillCause, Terminal, DrawdownAtLeast
<1>17. CASE Restart
  <2>1. UNCHANGED <<balance, truth, crashes>> /\ ~up
    BY <1>17 DEF Restart
  <2> QED
    BY <2>1 DEF KillCause, Terminal, DrawdownAtLeast
<1> QED
  BY <1>1, <1>2, <1>3, <1>4, <1>5, <1>6, <1>7, <1>8, <1>9, <1>10, <1>11, <1>12, <1>13, <1>14,
     <1>15, <1>16, <1>17 DEF Next, EngineStep

(* While the process has not crashed, the kill switch is only ever active  *)
(* because the account really was below the floor or too far below its     *)
(* top, or because the operator asked for it, whatever the other breakers  *)
(* and the failing writes do, as long as the account's data is there.  (A  *)
(* /kill whose write fails is active without being on record.)             *)
THEOREM KillHasCause ==
  ASSUME ~AccountMayFail, DatabaseMayFail => "kill" \notin Commands
  PROVE  Spec => []KillJustified
<1>1. Init => KillCause
  <2> SUFFICES ASSUME Init PROVE KillCause
    OBVIOUS
  <2>1. InitBalance \in Nat /\ mem.peak = 0 /\ ~mem.kill /\ up
        /\ truth.top = InitBalance /\ truth.breached = Terminal(InitBalance, InitBalance)
        /\ balance = InitBalance
    BY DEF Init, FreshState
  <2>2. Terminal(truth.top, balance) => truth.breached
    BY <2>1
  <2> QED
    BY <2>1, <2>2 DEF KillCause
<1>2. TypeOK /\ TypeOK' /\ KillCause /\ [Next]_vars => KillCause'
  BY NextKillCause
<1>3. KillCause => KillJustified
  BY DEF KillCause, KillJustified, KillUnderway
<1> QED
  BY <1>1, <1>2, <1>3, TypeCorrect, PTL DEF Spec


----------------------------------------------------------------------------
(* A kill is not taken back while the process lives *)

LEMMA KillStays ==
  ASSUME TypeOK, [Next]_vars, mem.kill, up, ~Crash
  PROVE  mem'.kill
<1>t. /\ mem \in RiskState /\ balance \in Nat /\ closing \in Int /\ closeNow \in Nat /\ tickNow \in Nat
      /\ ReportedBalances \subseteq Nat
  BY DEF TypeOK, ReportedBalances
<1> USE DEF local, closeLocals, account, process, database, history
<1>c. Counted(mem, closing, closeNow) \in RiskState /\ Counted(mem, closing, closeNow).kill
  <2>1. Counted(mem, closing, closeNow) \in RiskState
    BY <1>t, HandlersKeepType
  <2> QED
    BY <1>t, <2>1, CountedFields
<1>1. CASE CheckKillSwitch
  BY <1>1 DEF CheckKillSwitch
<1>2. CASE ResetDaily \/ ResetPeriods
  <2>1. mem' \in {mem, DailyReset(mem, tickNow), DailyReset(mem, closeNow)}
    BY <1>2 DEF ResetDaily, ResetPeriods
  <2>2. DailyReset(mem, tickNow).kill /\ DailyReset(mem, closeNow).kill
    BY <1>t, ResetFields
  <2> QED
    BY <2>1, <2>2
<1>3. CASE UpdateAfterTrade \/ UpdateRaises
  <2> DEFINE c == Counted(mem, closing, closeNow)
  <2>1. PICK bal \in ReportedBalances: mem' \in {c, Peaked(c, bal), Judged(c, bal)}
    BY <1>3 DEF UpdateAfterTrade, UpdateRaises, AfterTrade
  <2>2. c \in RiskState /\ c.kill
    BY <1>c
  <2> HIDE DEF c
  <2>3. bal \in Nat
    BY <1>t
  <2>4. Peaked(c, bal).kill /\ Judged(c, bal).kill
    BY <2>2, <2>3, PeakedFields, JudgedFields
  <2> QED
    BY <2>1, <2>2, <2>4
<1>4. CASE GateTrips
  BY <1>4 DEF GateTrips
<1>5. CASE GateRefuses \/ GateApproves
  BY <1>5 DEF GateRefuses, GateApproves, GateAlive
<1>6. CASE TelegramKill
  BY <1>6, <1>t DEF TelegramKill, RiskState
<1>7. CASE Restart
  BY <1>7 DEF Restart
<1>8. CASE UNCHANGED mem
  BY <1>8
<1>9. ASSUME \/ StartTick \/ HealthUnknown \/ RememberReset \/ RememberFails \/ SkipReset
             \/ (\E p \in Pnls: CloseTrade(p)) \/ EndManage \/ GateKilled \/ EndTick
             \/ (\E t \in Threads: Snapshot(t) \/ WriteState(t) \/ WriteFails(t))
             \/ TelegramRisk \/ BalanceMoves \/ TimePasses \/ UNCHANGED vars
      PROVE  UNCHANGED mem
  BY <1>9 DEF StartTick, HealthUnknown, RememberReset, RememberFails, SkipReset, CloseTrade,
              EndManage, GateKilled, EndTick, Snapshot, WriteState, WriteFails, TelegramRisk,
              BalanceMoves, TimePasses, vars
<1> QED
  BY <1>1, <1>2, <1>3, <1>4, <1>5, <1>6, <1>7, <1>8, <1>9 DEF Next, EngineStep

(* A copy the listener thread has taken, and what has been asked for, come *)
(* from a memory in which the switch was active.                           *)
LEMMA NextOperatorKillKept ==
  ASSUME TypeOK, OperatorKillKept, [Next]_vars, crashes' = 0
  PROVE  OperatorKillKept'
<1>0. crashes = 0 /\ ~Crash
  BY CrashesGrow
<1> USE DEF local, closeLocals, account, process, database, history
<1>t. /\ save \in [Threads -> {"none", "snapshot", "write"}] /\ buf \in [Threads -> RiskState]
      /\ truth \in Truth /\ mem \in RiskState
  BY DEF TypeOK
<1>1. up /\ (truth.asked => mem.kill) /\ (save["telegram"] = "write" /\ buf["telegram"].kill => mem.kill)
  BY <1>0 DEF OperatorKillKept
<1>2. ~Crash /\ ~Restart
  BY <1>0, <1>1 DEF Restart
<1>3. mem.kill => mem'.kill
  BY <1>1, <1>2, KillStays
<1>4. UNCHANGED <<up, crashes>>
  BY <1>2 DEF Next, EngineStep, StartTick, HealthUnknown, CheckKillSwitch, ResetDaily, RememberReset,
     RememberFails, SkipReset, CloseTrade, ResetPeriods, UpdateAfterTrade, UpdateRaises, EndManage,
     GateKilled, GateTrips, GateRefuses, GateApproves, EndTick, Snapshot, WriteState, WriteFails,
     TelegramKill, TelegramRisk, BalanceMoves, TimePasses, vars
<1>5. ASSUME truth'.asked PROVE truth.asked \/ (save["telegram"] = "write" /\ buf["telegram"].kill)
  <2>1. ASSUME NEW t \in Threads, WriteState(t)
        PROVE  truth.asked \/ (save["telegram"] = "write" /\ buf["telegram"].kill)
    BY <1>5, <1>t, <2>1 DEF WriteState, Truth
  <2>2. ASSUME NEW b, Moves(b) PROVE truth.asked
    BY <1>5, <1>t, <2>2 DEF Moves, Truth
  <2>3. ASSUME RememberFails PROVE truth.asked
    BY <1>5, <1>t, <2>3 DEF RememberFails, Truth
  <2>4. CASE UNCHANGED truth
    BY <1>5, <2>4
  <2> QED
    BY <1>2, <2>1, <2>2, <2>3, <2>4 DEF Next, EngineStep, StartTick, HealthUnknown, CheckKillSwitch,
     ResetDaily, RememberReset, SkipReset, CloseTrade, ResetPeriods, UpdateAfterTrade, UpdateRaises,
     EndManage, GateKilled, GateTrips, GateRefuses, GateApproves, EndTick, Snapshot, WriteFails,
     TelegramKill, TelegramRisk, BalanceMoves, TimePasses, vars
<1>6. ASSUME save'["telegram"] = "write", buf'["telegram"].kill
      PROVE  mem.kill \/ (save["telegram"] = "write" /\ buf["telegram"].kill)
  <2>1. ASSUME NEW t \in Threads, Snapshot(t) PROVE mem.kill \/ (save["telegram"] = "write" /\ buf["telegram"].kill)
    BY <1>6, <1>t, <2>1 DEF Snapshot, Threads
  <2>2. ASSUME NEW t \in Threads, WriteState(t) \/ WriteFails(t)
        PROVE  save["telegram"] = "write" /\ buf["telegram"].kill
    BY <1>6, <1>t, <2>2 DEF WriteState, WriteFails, Threads
  <2>3. CASE TelegramKill \/ TelegramRisk
    BY <1>6, <1>t, <2>3 DEF TelegramKill, TelegramRisk, Save, Threads
  <2>4. CASE UNCHANGED buf /\ (save' = save \/ Save("engine"))
    BY <1>6, <1>t, <2>4 DEF Save, Threads
  <2> QED
    BY <1>2, <2>1, <2>2, <2>3, <2>4 DEF Next, EngineStep, StartTick, HealthUnknown, CheckKillSwitch,
     ResetDaily, RememberReset, RememberFails, SkipReset, CloseTrade, ResetPeriods, UpdateAfterTrade,
     UpdateRaises, EndManage, GateKilled, GateTrips, GateRefuses, GateApproves, EndTick,
     BalanceMoves, TimePasses, vars, SaveKill, SaveIf, NoSave
<1> QED
  BY <1>1, <1>3, <1>4, <1>5, <1>6 DEF OperatorKillKept

(* Until the process first dies no handler, reset, failing write or command *)
(* takes back a /kill whose save has completed; a crash may, since a save  *)
(* of the engine may have overwritten it in the database (risk_kill_lost). *)
THEOREM OperatorKillStays == Spec => [](crashes = 0 => OperatorKillSurvives)
<1>1. Init => OperatorKillKept
  BY DEF Init, OperatorKillKept, Threads
<1>2. TypeOK /\ OperatorKillKept /\ [Next]_vars => OperatorKillKept'
  <2> SUFFICES ASSUME TypeOK, OperatorKillKept, [Next]_vars PROVE OperatorKillKept'
    OBVIOUS
  <2>1. CASE crashes' = 0
    BY <2>1, NextOperatorKillKept
  <2>2. CASE crashes' # 0
    BY <2>2 DEF OperatorKillKept
  <2> QED
    BY <2>1, <2>2
<1>3. OperatorKillKept => (crashes = 0 => OperatorKillSurvives)
  BY DEF OperatorKillKept, OperatorKillSurvives
<1> QED
  BY <1>1, <1>2, <1>3, TypeCorrect, PTL DEF Spec

----------------------------------------------------------------------------
(* The result of the day *)

LEMMA DayMonotone ==
  ASSUME NEW a \in Nat, NEW b \in Nat, a <= b PROVE Day(a) <= Day(b)
  BY DEF Day

(* What counting and judging a trade does to the day's result *)
LEMMA TradeDay ==
  ASSUME NEW s \in RiskState, NEW p \in Int, NEW bal \in Nat, NEW t \in Nat
  PROVE  \A r \in {Counted(s, p, t), Peaked(Counted(s, p, t), bal), Judged(Counted(s, p, t), bal)}:
           r.resetDay = s.resetDay /\ r.dailyPnl = s.dailyPnl + p /\ (s.kill => r.kill)
<1> DEFINE c == Counted(s, p, t)
           q == Peaked(c, bal)
<1>1. c \in RiskState /\ q \in RiskState
  <2>1. c \in RiskState
    BY HandlersKeepType
  <2> HIDE DEF c
  <2> QED
    BY <2>1, HandlersKeepType
<1>2. c.resetDay = s.resetDay /\ c.dailyPnl = s.dailyPnl + p /\ c.kill = s.kill
  BY DEF Counted, RiskState
<1> HIDE DEF c
<1>3. q.resetDay = c.resetDay /\ q.dailyPnl = c.dailyPnl /\ q.kill = c.kill
  BY <1>1 DEF Peaked, RiskState
<1>4. Judged(c, bal) = q \/ Judged(c, bal) = Killed(q)
  BY DEF Judged
<1> HIDE DEF q
<1>5. Killed(q).resetDay = q.resetDay /\ Killed(q).dailyPnl = q.dailyPnl /\ Killed(q).kill
  BY <1>1, KilledFields
<1> QED
  BY <1>1, <1>2, <1>3, <1>4, <1>5 DEF c, q

LEMMA BookedDay ==
  ASSUME NEW h \in Events, NEW p \in Int, NEW bal \in Nat, NEW t \in Nat
  PROVE  LET b == Booked(h, p, bal, t) IN
         /\ b.day = Day(t)
         /\ b.dayPnl = IF h.day = Day(t) THEN h.dayPnl + p ELSE p
  BY DEF Booked, Events

(* A trade booked today on a state that has been reset today keeps the     *)
(* two accounts equal.                                                     *)
LEMMA TradeCounts ==
  ASSUME NEW s \in RiskState, NEW h \in Events, NEW p \in Int, NEW r, NEW g, clock \in Nat,
         CountsToday(s, Today, h),
         r.resetDay = s.resetDay, r.dailyPnl = s.dailyPnl + p, s.kill => r.kill,
         g.day = Today, g.dayPnl = IF h.day = Today THEN h.dayPnl + p ELSE p
  PROVE  CountsToday(r, Today, g)
<1>1. s.dailyPnl \in Int /\ h.dayPnl \in Int
  BY DEF RiskState, Events
<1> QED
  BY <1>1 DEF CountsToday, BookedToday

(* What neither the day nor its result is changed in *)
LEMMA SameDayCounts ==
  ASSUME NEW s, NEW r, NEW h, NEW g, NEW d, CountsToday(s, d, h),
         r.kill \/ (r.resetDay = s.resetDay /\ r.dailyPnl = s.dailyPnl /\ ~s.kill),
         g.day = h.day, g.dayPnl = h.dayPnl
  PROVE  CountsToday(r, d, g)
  BY DEF CountsToday, BookedToday

LEMMA InitDayInv == Init => DayInv
<1> SUFFICES ASSUME Init PROVE DayInv
  OBVIOUS
<1>1. Day(0) = 0
  BY DEF Day
<1>2. Today = 0
  BY <1>1 DEF Init, Today
<1>3. NothingAhead /\ ResetInOrder /\ GateRespectsDailyLoss
  BY <1>2 DEF Init, NothingAhead, ResetInOrder, GateRespectsDailyLoss, FreshState, NoEvents, None, Threads
<1>4. CountsToday(FreshState, None, NoEvents)
  BY <1>2 DEF CountsToday, BookedToday, FreshState, NoEvents, None
<1> QED
  BY <1>2, <1>3, <1>4 DEF Init, DayInv, DayCounted, Threads, None


LEMMA NextDayInv ==
  ASSUME IInv, DayInv, [Next]_vars, TypeOK', ~SlowTicks, Undisturbed'
  PROVE  DayInv'
<1> USE DEF EngineAt, local, closeLocals, account, process, database, history, LeaveTick, InTick
<1>i. TypeOK /\ TelegramWritesKill /\ NothingAhead /\ ResetInOrder /\ DayCounted /\ GateRespectsDailyLoss
  BY DEF IInv, DayInv
<1>t. /\ mem \in RiskState /\ disk \in RiskState /\ buf \in [Threads -> RiskState]
      /\ save \in [Threads -> {"none", "snapshot", "write"}] /\ up \in BOOLEAN
      /\ clock \in Nat /\ tickNow \in Nat /\ closeNow \in Nat /\ closing \in Int
      /\ due \in Events /\ owed \in Events /\ truth \in Truth /\ balance \in Nat
      /\ engineDay \in Nat \cup {-1} /\ diskDay \in Nat \cup {-1}
      /\ mem.resetDay \in Nat \cup {-1} /\ disk.resetDay \in Nat \cup {-1}
      /\ due.day \in Nat /\ owed.day \in Nat /\ Today \in Nat
      /\ ReportedBalances \subseteq Nat
  BY <1>i, DayIsNat DEF TypeOK, RiskState, Events, None, Today, ReportedBalances
<1>th. "engine" \in Threads /\ "telegram" \in Threads /\ "engine" # "telegram"
  BY DEF Threads
<1>w. ASSUME clock' = clock
      PROVE  Today' = Today
  BY <1>w DEF Today
(* The gate's decision stands while the engine has not moved on *)
<1>g. ASSUME UNCHANGED <<pc, due, seen, tickNow>>, truth'.unwritten = truth.unwritten
      PROVE  GateRespectsDailyLoss'
  BY <1>g, <1>i DEF GateRespectsDailyLoss, DailyLossReached
(* A step that moves the engine thread along and nothing else *)
<1>q. ASSUME UNCHANGED <<mem, disk, save, buf, due, owed, engineDay, diskDay, up, clock>>,
             truth'.unwritten = truth.unwritten,
             pc' # "approved", pc' # "resetDone",
             pc' # "idle" => tickNow' = clock,
             pc' \in {"periods", "apply"} => closeNow' = clock,
             pc' \in {"manage", "periods", "apply", "gate"} => engineDay = Today
      PROVE  DayInv'
  <2>1. Today' = Today
    BY <1>q, <1>w
  <2>2. NothingAhead'
    BY <1>q, <1>i, <2>1 DEF NothingAhead
  <2>3. ResetInOrder'
    BY <1>q, <2>1 DEF ResetInOrder
  <2>4. DayCounted'
    BY <1>q, <1>i, <2>1 DEF DayCounted, CountsToday, BookedToday
  <2> QED
    BY <1>q, <2>2, <2>3, <2>4 DEF DayInv, GateRespectsDailyLoss
<1>1. CASE StartTick
  BY <1>1, <1>q DEF StartTick
<1>2. CASE HealthUnknown \/ GateKilled \/ EndTick
  BY <1>2, <1>q DEF HealthUnknown, GateKilled, EndTick
<1>3. CASE SkipReset
  <2>1. tickNow = clock /\ engineDay = Today
    BY <1>3, <1>i DEF SkipReset, NothingAhead, Today
  <2> QED
    BY <1>3, <1>q, <2>1 DEF SkipReset
<1>4. CASE EndManage
  <2>1. tickNow = clock /\ engineDay = Today
    BY <1>4, <1>i DEF EndManage, NothingAhead, ResetInOrder
  <2> QED
    BY <1>4, <1>q, <2>1 DEF EndManage
<1>5. CASE \E p \in Pnls: CloseTrade(p)
  <2>1. tickNow = clock /\ engineDay = Today
    BY <1>5, <1>i DEF CloseTrade, NothingAhead, ResetInOrder
  <2>2. truth'.unwritten = truth.unwritten
    BY <1>5, <1>t DEF CloseTrade, Moves, Truth
  <2> QED
    BY <1>5, <1>q, <2>1, <2>2 DEF CloseTrade
(* A handler of the engine that changes its state, with a save or without *)
<1>h. ASSUME UNCHANGED <<disk, buf, owed, engineDay, diskDay, up, clock>>, up,
             truth'.unwritten = truth.unwritten,
             save' = save \/ Save("engine"), save["engine"] = "none",
             mem'.resetDay <= Today, due'.day <= Today,
             truth.unwritten # Today => CountsToday(mem', engineDay, due'),
             pc' # "resetDone",
             pc' # "idle" => tickNow' = clock,
             pc' \in {"periods", "apply"} => closeNow' = clock,
             pc' \in {"manage", "periods", "apply", "gate", "approved"} => engineDay = Today,
             GateRespectsDailyLoss'
      PROVE  DayInv'
  <2>1. Today' = Today
    BY <1>h, <1>w
  <2>2. NothingAhead'
    BY <1>h, <1>i, <2>1 DEF NothingAhead
  <2>3. ResetInOrder'
    BY <1>h, <2>1 DEF ResetInOrder
  <2>4. save'["engine"] # "write"
    BY <1>h, <1>t, <1>th DEF Save
  <2>5. DayCounted'
    BY <1>h, <1>i, <2>1, <2>4 DEF DayCounted, CountsToday, BookedToday
  <2> QED
    BY <1>h, <2>2, <2>3, <2>5 DEF DayInv
<1>m. up /\ truth.unwritten # Today => CountsToday(mem, engineDay, due)
  BY <1>i DEF DayCounted
<1>a. mem.resetDay <= Today /\ due.day <= Today
  BY <1>i DEF NothingAhead
<1>6. CASE CheckKillSwitch
  <2>1. /\ mem' = mem \/ mem' = Killed(mem)
        /\ due'.day = due.day /\ due'.dayPnl = due.dayPnl
        /\ pc' \in {"idle", "reset"} /\ (pc' = "reset" => tickNow' = tickNow)
        /\ save' = save \/ Save("engine")
        /\ truth' = truth /\ tickNow = clock
        /\ UNCHANGED <<disk, buf, owed, engineDay, diskDay, up, clock>> /\ up /\ save["engine"] = "none"
    BY <1>6, <1>i, <1>t DEF CheckKillSwitch, SaveKill, NoSave, Events, NothingAhead
  <2>2. mem'.resetDay = mem.resetDay
    BY <1>t, <2>1, KilledFields
  <2>3. truth.unwritten # Today => CountsToday(mem', engineDay, due')
    <3>1. mem'.kill \/ (mem'.resetDay = mem.resetDay /\ mem'.dailyPnl = mem.dailyPnl /\ ~mem.kill)
      BY <1>t, <2>1, KilledFields
    <3> QED
      BY <1>m, <2>1, <3>1, SameDayCounts
  <2> QED
    BY <1>h, <1>a, <2>1, <2>2, <2>3 DEF GateRespectsDailyLoss
<1>7. CASE ResetDaily
  <2>1. /\ mem' = DailyReset(mem, tickNow) /\ pc' = "resetDone" /\ tickNow = clock
        /\ engineDay # Today /\ save["engine"] = "none" /\ up
        /\ save' = [save EXCEPT !["engine"] = "snapshot"]
        /\ UNCHANGED <<disk, buf, due, owed, engineDay, diskDay, up, clock, tickNow, truth>>
    BY <1>7, <1>i DEF ResetDaily, Save, NothingAhead, Today
  <2>2. mem'.resetDay = Today /\ mem'.dailyPnl = 0 /\ mem'.kill = mem.kill
    BY <1>t, <2>1, ResetFields DEF Today
  <2>3. Today' = Today
    BY <1>w, <2>1
  <2>4. save'["engine"] = "snapshot"
    BY <1>t, <1>th, <2>1
  <2>5. NothingAhead' /\ ResetInOrder'
    BY <1>i, <1>t, <2>1, <2>2, <2>3, <2>4 DEF NothingAhead, ResetInOrder
  <2>6. truth.unwritten # Today => mem.kill \/ BookedToday(due) = 0
    BY <1>m, <2>1 DEF CountsToday
  <2>7. truth.unwritten # Today => CountsToday(mem', engineDay, due)
    BY <2>1, <2>2, <2>6 DEF CountsToday
  <2>8. DayCounted'
    BY <1>i, <2>1, <2>3, <2>4, <2>7 DEF DayCounted, CountsToday, BookedToday
  <2> QED
    BY <2>1, <2>5, <2>8 DEF DayInv, GateRespectsDailyLoss
<1>8. CASE RememberReset
  <2>1. /\ pc = "resetDone" /\ pc' = "manage" /\ tickNow = clock /\ up /\ save["engine"] = "none"
        /\ engineDay' = Today /\ diskDay' = Today
        /\ UNCHANGED <<mem, disk, save, buf, due, owed, up, clock, tickNow, truth>>
    BY <1>8, <1>i DEF RememberReset, NothingAhead, Today
  <2>2. Today' = Today
    BY <1>w, <2>1
  <2>3. /\ engineDay # Today /\ mem.resetDay = Today
        /\ Durable => disk.kill \/ disk.resetDay = Today
    BY <1>i, <2>1 DEF ResetInOrder
  <2>4. NothingAhead' /\ ResetInOrder'
    BY <1>i, <1>t, <2>1, <2>2 DEF NothingAhead, ResetInOrder
  <2>5. truth.unwritten # Today => CountsToday(mem, Today, due)
    BY <1>m, <2>1, <2>3 DEF CountsToday
  <2>6. truth.unwritten # Today /\ Durable => CountsToday(disk, Today, owed)
    BY <1>i, <2>1, <2>3 DEF DayCounted, CountsToday
  <2>7. DayCounted'
    BY <2>1, <2>2, <2>5, <2>6 DEF DayCounted, CountsToday, BookedToday
  <2> QED
    BY <2>1, <2>4, <2>7 DEF DayInv, GateRespectsDailyLoss
<1>9. CASE RememberFails
  <2>1. /\ pc' = "idle" /\ tickNow = clock
        /\ UNCHANGED <<mem, disk, save, buf, due, owed, diskDay, up, clock, closeNow>>
        /\ \/ engineDay' = Today /\ truth'.unwritten = Today
           \/ UNCHANGED <<engineDay, truth>>
    BY <1>9, <1>i, <1>t DEF RememberFails, NothingAhead, Today, Truth
  <2>2. Today' = Today
    BY <1>w, <2>1
  <2>3. NothingAhead' /\ ResetInOrder'
    BY <1>i, <1>t, <2>1, <2>2 DEF NothingAhead, ResetInOrder
  <2>4. DayCounted'
    BY <1>i, <2>1, <2>2 DEF DayCounted, CountsToday, BookedToday
  <2> QED
    BY <2>1, <2>3, <2>4 DEF DayInv, GateRespectsDailyLoss
(* On a day that has been reset the trade does not reset it again *)
<1>10. CASE ResetPeriods
  <2>1. /\ up /\ pc = "periods" /\ save["engine"] = "none" /\ pc' = "apply"
        /\ tickNow = clock /\ closeNow = clock /\ engineDay = Today
        /\ save' = save \/ Save("engine")
        /\ UNCHANGED <<disk, buf, due, owed, engineDay, diskDay, up, clock, tickNow, closeNow, truth>>
        /\ mem' = IF mem.resetDay # Today THEN DailyReset(mem, closeNow) ELSE mem
    BY <1>10, <1>i DEF ResetPeriods, SaveIf, NoSave, NothingAhead, ResetInOrder, Today
  <2>2. DailyReset(mem, closeNow).resetDay = Today /\ DailyReset(mem, closeNow).kill = mem.kill
    BY <1>t, <2>1, ResetFields DEF Today
  <2>3. mem'.resetDay = Today
    BY <2>1, <2>2
  <2>4. truth.unwritten # Today => CountsToday(mem', engineDay, due')
    BY <1>m, <2>1, <2>2 DEF CountsToday
  <2>5. mem'.resetDay <= Today /\ due'.day <= Today
    BY <1>a, <1>t, <2>1, <2>3
  <2> QED
    BY <1>h, <2>1, <2>4, <2>5 DEF GateRespectsDailyLoss
<1>11. CASE UpdateAfterTrade \/ UpdateRaises
  <2> DEFINE c == Counted(mem, closing, closeNow)
  <2>1. /\ up /\ pc = "apply" /\ save["engine"] = "none" /\ pc' = "manage"
        /\ tickNow = clock /\ closeNow = clock /\ engineDay = Today
        /\ save' = save \/ Save("engine")
        /\ UNCHANGED <<disk, buf, owed, engineDay, diskDay, up, clock, tickNow, truth>>
    BY <1>11, <1>i DEF UpdateAfterTrade, UpdateRaises, NothingAhead, ResetInOrder
  <2>2. PICK bal \in ReportedBalances:
          LET b == Booked(due, closing, bal, closeNow) IN
          /\ mem' \in {c, Peaked(c, bal), Judged(c, bal)}
          /\ due' \in {b, [b EXCEPT !.kill = due.kill], [b EXCEPT !.high = due.high, !.kill = due.kill]}
    BY <1>11 DEF UpdateAfterTrade, UpdateRaises, AfterTrade
  <2>3. bal \in Nat /\ Day(closeNow) = Today
    BY <1>t, <2>1 DEF Today
  <2>4. mem'.resetDay = mem.resetDay /\ mem'.dailyPnl = mem.dailyPnl + closing /\ (mem.kill => mem'.kill)
    <3>1. mem \in RiskState /\ closing \in Int /\ closeNow \in Nat /\ bal \in Nat
      BY <1>t, <2>3
    <3>2. mem' \in {c, Peaked(c, bal), Judged(c, bal)}
      BY <2>2
    <3> QED
      BY ONLY <3>1, <3>2, TradeDay
  <2>5. due'.day = Today /\ due'.dayPnl = IF due.day = Today THEN due.dayPnl + closing ELSE closing
    <3>1. due \in Events /\ closing \in Int /\ closeNow \in Nat /\ bal \in Nat
      BY <1>t, <2>3
    <3> DEFINE b == Booked(due, closing, bal, closeNow)
    <3>2. b \in Events
      BY <3>1, BookedIsEvents
    <3>3. b.day = Day(closeNow)
          /\ b.dayPnl = IF due.day = Day(closeNow) THEN due.dayPnl + closing ELSE closing
      BY <3>1, BookedDay
    <3>4. due' \in {b, [b EXCEPT !.kill = due.kill], [b EXCEPT !.high = due.high, !.kill = due.kill]}
      BY <2>2
    <3> HIDE DEF b
    <3>5. due'.day = b.day /\ due'.dayPnl = b.dayPnl
      BY <3>2, <3>4 DEF Events
    <3> QED
      BY <2>3, <3>3, <3>5
  <2> HIDE DEF c
  <2>6. truth.unwritten # Today => CountsToday(mem', engineDay, due')
    BY <1>m, <1>t, <2>1, <2>4, <2>5, TradeCounts
  <2> QED
    BY <1>h, <1>a, <1>t, <2>1, <2>4, <2>5, <2>6 DEF GateRespectsDailyLoss
<1>12. CASE GateTrips
  <2>1. PICK pk: mem' = Killed([mem EXCEPT !.peak = pk])
    BY <1>12 DEF GateTrips
  <2>2. mem'.kill /\ mem'.resetDay = mem.resetDay
    BY <1>t, <2>1 DEF Killed, RiskState
  <2>3. /\ up /\ save["engine"] = "none" /\ pc' = "idle" /\ due'.day = due.day
        /\ save' = save \/ Save("engine")
        /\ UNCHANGED <<disk, buf, owed, engineDay, diskDay, up, clock, truth>>
    BY <1>12, <1>t DEF GateTrips, SaveKill, NoSave, Events
  <2> QED
    BY <1>h, <1>a, <2>2, <2>3 DEF GateRespectsDailyLoss, CountsToday
<1>13. CASE GateRefuses \/ GateApproves
  <2>1. PICK bal \in ReportedBalances:
          /\ GateAlive(bal)
          /\ \/ mem' = [mem EXCEPT !.peak = Larger(@, bal)]
             \/ mem' = GateCleared([mem EXCEPT !.peak = Larger(@, bal)], bal, tickNow)
          /\ \/ pc' = "idle"
             \/ pc' = "approved" /\ tickNow' = tickNow /\ seen' = bal
                /\ ~DailyLossReached(mem.dailyPnl, bal)
    BY <1>13 DEF GateRefuses, GateApproves, GateOpen
  <2>2. /\ up /\ pc = "gate" /\ save["engine"] = "none" /\ tickNow = clock /\ engineDay = Today
        /\ save' = save \/ Save("engine")
        /\ UNCHANGED <<disk, buf, owed, engineDay, diskDay, up, clock, truth>>
    BY <1>13, <1>i DEF GateRefuses, GateApproves, SaveIf, NoSave, NothingAhead, ResetInOrder
  <2>3. mem'.kill = mem.kill /\ mem'.resetDay = mem.resetDay /\ mem'.dailyPnl = mem.dailyPnl
    BY <1>t, <2>1, GateFields
  <2>4. ~mem.kill /\ due'.day = due.day /\ due'.dayPnl = due.dayPnl
    BY <1>t, <2>1 DEF GateAlive, Events
  <2>5. truth.unwritten # Today => CountsToday(mem', engineDay, due')
    BY <1>m, <2>2, <2>3, <2>4, SameDayCounts
  <2>6. GateRespectsDailyLoss'
    <3> SUFFICES ASSUME pc' = "approved", due'.day = Day(tickNow'), truth'.unwritten # Day(tickNow')
                 PROVE  ~DailyLossReached(due'.dayPnl, seen')
      BY DEF GateRespectsDailyLoss, DailyLossReached
    <3>1. due.day = Today /\ truth.unwritten # Today
      BY <2>1, <2>2, <2>4 DEF Today
    <3>2. mem.dailyPnl = due.dayPnl
      BY <1>m, <2>2, <2>4, <3>1 DEF CountsToday, BookedToday
    <3> QED
      BY <2>1, <2>4, <3>2
  <2> QED
    BY <1>h, <1>a, <2>1, <2>2, <2>3, <2>4, <2>5, <2>6
(* Saves *)
<1>14. ASSUME NEW t \in Threads, Snapshot(t) PROVE DayInv'
  <2>1. /\ up /\ save[t] = "snapshot" /\ buf' = [buf EXCEPT ![t] = mem]
        /\ save' = [save EXCEPT ![t] = "write"]
        /\ UNCHANGED <<mem, disk, due, owed, engineDay, diskDay, up, clock, pc, tickNow, closeNow, seen, truth>>
    BY <1>14 DEF Snapshot
  <2>2. Today' = Today
    BY <1>w, <2>1
  <2>3. NothingAhead'
    BY <1>i, <1>t, <2>1, <2>2 DEF NothingAhead
  <2>4. \/ t = "engine" /\ buf'["engine"] = mem /\ save'["engine"] = "write"
        \/ UNCHANGED <<buf["engine"], save["engine"]>>
    BY <1>t, <1>th, <2>1 DEF Threads
  <2>5. ResetInOrder'
    BY <1>i, <2>1, <2>2, <2>4 DEF ResetInOrder
  <2>6. DayCounted'
    BY <1>i, <1>m, <2>1, <2>2, <2>4 DEF DayCounted, CountsToday, BookedToday
  <2> QED
    BY <1>g, <2>1, <2>3, <2>5, <2>6 DEF DayInv
<1>15. ASSUME NEW t \in Threads, WriteState(t) PROVE DayInv'
  <2>1. /\ up /\ save[t] = "write" /\ disk' = buf[t] /\ buf' = [buf EXCEPT ![t] = FreshState]
        /\ save' = [save EXCEPT ![t] = "none"]
        /\ owed' = (IF t = "engine" THEN due ELSE owed)
        /\ UNCHANGED <<mem, due, engineDay, diskDay, up, clock, pc, tickNow, closeNow, seen>>
        /\ truth'.unwritten = truth.unwritten
    BY <1>15, <1>t DEF WriteState, Truth
  <2>2. Today' = Today
    BY <1>w, <2>1
  <2>3. FreshState.resetDay = -1
    BY DEF FreshState, None
  <2>4. NothingAhead'
    BY <1>i, <1>t, <2>1, <2>2, <2>3 DEF NothingAhead
  <2>5. CASE t = "engine"
    <3>1. save'["engine"] = "none" /\ save["engine"] = "write" /\ disk' = buf["engine"] /\ owed' = due
      BY <1>t, <1>th, <2>1, <2>5
    <3>2. ResetInOrder'
      BY <1>i, <2>1, <2>2, <3>1 DEF ResetInOrder
    <3>3. DayCounted'
      BY <1>i, <2>1, <2>2, <3>1 DEF DayCounted, CountsToday, BookedToday
    <3> QED
      BY <1>g, <2>1, <2>4, <3>2, <3>3 DEF DayInv
  <2>6. CASE t = "telegram"
    <3>1. UNCHANGED <<save["engine"], buf["engine"], owed>> /\ (Durable => disk'.kill)
      BY <1>i, <1>t, <1>th, <2>1, <2>6 DEF TelegramWritesKill
    <3>2. ResetInOrder'
      BY <1>i, <2>1, <2>2, <3>1 DEF ResetInOrder
    <3>3. DayCounted'
      BY <1>i, <2>1, <2>2, <3>1 DEF DayCounted, CountsToday, BookedToday
    <3> QED
      BY <1>g, <2>1, <2>4, <3>2, <3>3 DEF DayInv
  <2> QED
    BY <2>5, <2>6 DEF Threads
<1>16. ASSUME NEW t \in Threads, WriteFails(t) PROVE DayInv'
  <2>1. /\ up /\ save[t] = "write" /\ buf' = [buf EXCEPT ![t] = FreshState]
        /\ save' = [save EXCEPT ![t] = "none"]
        /\ UNCHANGED <<mem, disk, due, owed, engineDay, diskDay, up, clock, truth>>
    BY <1>16 DEF WriteFails
  <2>2. \/ pc' = "manage" /\ tickNow' = tickNow /\ pc \in {"apply", "manage"}
        \/ pc' = "idle"
        \/ t # "engine" /\ UNCHANGED <<pc, tickNow, closeNow, seen>>
    BY <1>16, <1>th DEF WriteFails
  <2>3. Today' = Today
    BY <1>w, <2>1
  <2>4. FreshState.resetDay = -1
    BY DEF FreshState, None
  <2>5. NothingAhead'
    BY <1>i, <1>t, <2>1, <2>2, <2>3, <2>4 DEF NothingAhead
  <2>6. \/ t = "engine" /\ save'["engine"] = "none"
        \/ t # "engine" /\ UNCHANGED <<save["engine"], buf["engine"]>>
    BY <1>t, <1>th, <2>1
  <2>7. ResetInOrder'
    BY <1>i, <2>1, <2>2, <2>3, <2>6 DEF ResetInOrder
  <2>8. DayCounted'
    BY <1>i, <2>1, <2>3, <2>6 DEF DayCounted, CountsToday, BookedToday
  <2>9. GateRespectsDailyLoss'
    BY <1>g, <2>1, <2>2 DEF GateRespectsDailyLoss
  <2> QED
    BY <2>5, <2>7, <2>8, <2>9 DEF DayInv
(* Commands and the environment *)
<1>17. CASE TelegramKill \/ TelegramRisk
  <2>1. /\ mem' = [mem EXCEPT !.kill = TRUE] \/ mem' = mem
        /\ save' = [save EXCEPT !["telegram"] = "snapshot"]
        /\ UNCHANGED <<buf, disk, due, owed, engineDay, diskDay, up, clock, pc, tickNow, closeNow, seen, truth>>
    BY <1>17 DEF TelegramKill, TelegramRisk, Save
  <2>2. Today' = Today
    BY <1>w, <2>1
  <2>3. /\ mem'.resetDay = mem.resetDay /\ mem'.dailyPnl = mem.dailyPnl /\ (mem.kill => mem'.kill)
        /\ save'["engine"] = save["engine"]
    BY <1>t, <1>th, <2>1 DEF RiskState
  <2>4. NothingAhead' /\ ResetInOrder'
    BY <1>i, <2>1, <2>2, <2>3 DEF NothingAhead, ResetInOrder
  <2>5. DayCounted'
    BY <1>i, <2>1, <2>2, <2>3 DEF DayCounted, CountsToday, BookedToday
  <2> QED
    BY <1>g, <2>1, <2>4, <2>5 DEF DayInv
<1>18. CASE BalanceMoves \/ UNCHANGED vars
  <2>1. /\ UNCHANGED <<mem, buf, save, disk, due, owed, engineDay, diskDay, up, clock, pc, tickNow,
                       closeNow, seen>>
        /\ truth'.unwritten = truth.unwritten
    BY <1>18, <1>t DEF BalanceMoves, Moves, Truth, vars
  <2>2. Today' = Today
    BY <1>w, <2>1
  <2>3. NothingAhead' /\ ResetInOrder'
    BY <1>i, <2>1, <2>2 DEF NothingAhead, ResetInOrder
  <2>4. DayCounted'
    BY <1>i, <2>1, <2>2 DEF DayCounted, CountsToday, BookedToday
  <2> QED
    BY <1>g, <2>1, <2>3, <2>4 DEF DayInv
(* Only between ticks: a new day starts with nothing on record for it *)
<1>19. CASE TimePasses
  <2>1. /\ pc = "idle" /\ clock' = clock + 1
        /\ UNCHANGED <<mem, buf, save, disk, due, owed, engineDay, diskDay, up, pc, tickNow,
                       closeNow, seen, truth>>
    BY <1>19 DEF TimePasses
  <2>2. Today' \in Nat /\ Today <= Today'
    BY <1>t, <2>1, DayIsNat, DayMonotone DEF Today
  <2>3. NothingAhead'
    <3>1. \A x \in Nat \cup {-1}: x <= Today => x <= Today'
      BY <1>t, <2>2
    <3>2. \A t \in Threads: buf[t].resetDay \in Nat \cup {-1}
      BY <1>t DEF RiskState, None
    <3> QED
      BY <1>i, <1>t, <2>1, <3>1, <3>2 DEF NothingAhead
  <2>4. ResetInOrder'
    BY <2>1 DEF ResetInOrder
  <2>5. CASE Today' = Today
    BY <1>i, <2>1, <2>3, <2>4, <2>5 DEF DayCounted, CountsToday, BookedToday, DayInv, GateRespectsDailyLoss
  <2>6. CASE Today' # Today
    <3>1. /\ mem.resetDay # Today' /\ disk.resetDay # Today' /\ buf["engine"].resetDay # Today'
          /\ engineDay # Today' /\ diskDay # Today' /\ due.day # Today' /\ owed.day # Today'
      <4>1. \A x \in Nat \cup {-1}: x <= Today => x # Today'
        BY <1>t, <2>2, <2>6
      <4>2. buf["engine"].resetDay \in Nat \cup {-1}
        BY <1>t, <1>th DEF RiskState, None
      <4> QED
        BY <1>i, <1>t, <1>th, <4>1, <4>2 DEF NothingAhead
    <3>2. DayCounted'
      BY <2>1, <3>1 DEF DayCounted, CountsToday, BookedToday
    <3> QED
      BY <2>1, <2>3, <2>4, <3>2 DEF DayInv, GateRespectsDailyLoss
  <2> QED
    BY <2>5, <2>6
<1>20. CASE Crash
  <2>1. /\ up' = FALSE /\ mem' = FreshState /\ engineDay' = -1 /\ pc' = "idle" /\ due' = owed
        /\ save' = [t \in Threads |-> "none"] /\ buf' = [t \in Threads |-> FreshState]
        /\ UNCHANGED <<disk, diskDay, owed, clock, truth>>
    BY <1>20 DEF Crash, None
  <2>2. Today' = Today
    BY <1>w, <2>1
  <2>3. FreshState.resetDay = -1
    BY DEF FreshState, None
  <2>4. NothingAhead' /\ ResetInOrder'
    BY <1>i, <1>t, <2>1, <2>2, <2>3 DEF NothingAhead, ResetInOrder
  <2>5. DayCounted'
    BY <1>i, <1>th, <2>1, <2>2 DEF DayCounted, CountsToday, BookedToday
  <2> QED
    BY <2>1, <2>4, <2>5 DEF DayInv, GateRespectsDailyLoss
<1>21. CASE Restart
  <2>1. /\ ~up /\ mem' = disk /\ engineDay' = diskDay /\ Durable
        /\ UNCHANGED <<save, buf, disk, diskDay, due, owed, clock, pc, tickNow, closeNow, seen, truth>>
    BY <1>21 DEF Restart, Undisturbed, Durable, IInv, Remembered
  <2>2. due = owed /\ pc = "idle" /\ save["engine"] = "none"
    BY <1>th, <2>1 DEF IInv, Remembered
  <2>3. Today' = Today
    BY <1>w, <2>1
  <2>4. NothingAhead' /\ ResetInOrder'
    BY <1>i, <2>1, <2>2, <2>3 DEF NothingAhead, ResetInOrder
  <2>5. DayCounted'
    BY <1>i, <2>1, <2>2, <2>3 DEF DayCounted, CountsToday, BookedToday
  <2> QED
    BY <2>1, <2>2, <2>4, <2>5 DEF DayInv, GateRespectsDailyLoss
<1> QED
  BY <1>1, <1>2, <1>3, <1>4, <1>5, <1>6, <1>7, <1>8, <1>9, <1>10, <1>11, <1>12, <1>13, <1>14,
     <1>15, <1>16, <1>17, <1>18, <1>19, <1>20, <1>21 DEF Next, EngineStep

(* As long as no tick runs across midnight, and under the same condition,  *)
(* no order is approved while the trades recorded on the day have lost     *)
(* more than the daily limit, over failing writes, crashes and restarts,   *)
(* except on a day whose reset could not be written.                       *)
THEOREM DailyLossGuard ==
  ASSUME ~SlowTicks
  PROVE  Spec => [](Undisturbed => GateRespectsDailyLoss)
<1>1. Init => DayInv
  BY InitDayInv
<1>2. /\ TypeOK /\ TypeOK' /\ (Undisturbed => IInv) /\ (Undisturbed => DayInv) /\ [Next]_vars
      => (Undisturbed => DayInv)'
  <2> SUFFICES ASSUME TypeOK, TypeOK', Undisturbed => IInv, Undisturbed => DayInv, [Next]_vars,
                      Undisturbed'
               PROVE  DayInv'
    OBVIOUS
  <2>1. IInv /\ DayInv
    BY CrashesGrow
  <2> QED
    BY <2>1, NextDayInv
<1>3. DayInv => GateRespectsDailyLoss
  BY DEF DayInv
<1> QED
  BY <1>1, <1>2, <1>3, Invariance, TypeCorrect, PTL DEF Spec

=============================================================================
