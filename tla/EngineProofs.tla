---------------------------- MODULE EngineProofs ----------------------------
(***************************************************************************)
(* Theorems about Engine.tla, checked with TLAPS.                          *)
(*                                                                         *)
(* The central one is that the engine implements TradingDesk.  It rests on *)
(* StopInv: where in the tick the engine may still be after the one late   *)
(* order was filled.                                                       *)
(***************************************************************************)
EXTENDS Engine, FiniteSetTheorems, TLAPS

USE EngineAssumption DEF EngineAssumption
USE DEF engine, telegram, flags, broker, history, NoTicket, NoDirection, GoesTo, EndTick, Dies

----------------------------------------------------------------------------
(* Type correctness: one lemma for each part of TypeOK. *)

(* No thread is left in a loop it is not in. *)
LEMMA ThreadsStep == ASSUME TypeOK, Next PROVE ThreadsOK'
<1> USE DEF TypeOK, ThreadsOK
<1>1. CASE StartProcess
  BY <1>1 DEF StartProcess
<1>2. CASE Stop
  BY <1>2 DEF Stop
<1>3. CASE Crash
  BY <1>3 DEF Crash
<1>4. CASE ClearPause
  BY <1>4 DEF ClearPause
<1>5. CASE WarmUp
  BY <1>5 DEF WarmUp
<1>6. CASE CheckConnection
  BY <1>6 DEF CheckConnection
<1>7. CASE Reconnect
  BY <1>7 DEF Reconnect
<1>8. CASE KillTick
  BY <1>8 DEF KillTick
<1>9. ASSUME NEW t \in Tickets, KillClose(t) PROVE ThreadsOK'
  BY <1>9 DEF KillClose
<1>10. CASE KillTickDone
  BY <1>10 DEF KillTickDone
<1>11. CASE Healthy
  BY <1>11 DEF Healthy
<1>12. CASE DailyReset
  BY <1>12 DEF DailyReset
<1>13. CASE Manage
  BY <1>13 DEF Manage
<1>14. ASSUME NEW t \in Tickets, ApplyClose(t) PROVE ThreadsOK'
  BY <1>14 DEF ApplyClose
<1>15. ASSUME NEW t \in Tickets, ApplyOther(t) PROVE ThreadsOK'
  BY <1>15 DEF ApplyOther
<1>16. CASE ManageDone
  BY <1>16 DEF ManageDone
<1>17. CASE ScanFindsNothing
  BY <1>17 DEF ScanFindsNothing
<1>18. ASSUME NEW d \in Directions, ScanFinds(d) PROVE ThreadsOK'
  BY <1>18 DEF ScanFinds
<1>19. CASE GatePasses
  BY <1>19 DEF GatePasses
<1>20. CASE GateRefuses
  BY <1>20 DEF GateRefuses
<1>21. ASSUME NEW t \in Tickets, PlaceOrder(t) PROVE ThreadsOK'
  BY <1>21 DEF PlaceOrder
<1>22. CASE OrderRejected
  BY <1>22 DEF OrderRejected
<1>23. CASE CloseUnderfilled
  BY <1>23 DEF CloseUnderfilled
<1>24. CASE RecordTrade
  BY <1>24 DEF RecordTrade
<1>25. CASE WarmUpFails
  BY <1>25 DEF WarmUpFails
<1>26. CASE ReconnectFails
  BY <1>26 DEF ReconnectFails
<1>27. CASE NoAccount
  BY <1>27 DEF NoAccount
<1>28. CASE CloseWeakest
  BY <1>28 DEF CloseWeakest
<1>29. CASE TickFails
  BY <1>29 DEF TickFails
<1>30. ASSUME NEW t \in Tickets, Underfilled(t) PROVE ThreadsOK'
  BY <1>30 DEF Underfilled
<1>31. CASE TelegramPause
  BY <1>31 DEF TelegramPause
<1>32. CASE TelegramResume
  BY <1>32 DEF TelegramResume
<1>33. CASE TelegramCloseAll
  BY <1>33 DEF TelegramCloseAll
<1>34. CASE TelegramKill
  BY <1>34 DEF TelegramKill
<1>35. CASE TelegramKillPauses
  BY <1>35 DEF TelegramKillPauses
<1>36. ASSUME NEW t \in Tickets, TelegramCloses(t) PROVE ThreadsOK'
  BY <1>36 DEF TelegramCloses
<1>37. CASE TelegramReplies
  BY <1>37 DEF TelegramReplies
<1>38. ASSUME NEW t \in Tickets, BrokerClose(t) PROVE ThreadsOK'
  BY <1>38 DEF BrokerClose
<1>39. ASSUME NEW t \in Tickets, Expire(t) PROVE ThreadsOK'
  BY <1>39 DEF Expire
<1>40. CASE Disconnect
  BY <1>40 DEF Disconnect
<1> QED
  BY <1>1, <1>2, <1>3, <1>4, <1>5, <1>6, <1>7, <1>8, <1>9, <1>10, <1>11, <1>12, <1>13, <1>14,
     <1>15, <1>16, <1>17, <1>18, <1>19, <1>20, <1>21, <1>22, <1>23, <1>24, <1>25, <1>26, <1>27,
     <1>28, <1>29, <1>30, <1>31, <1>32, <1>33, <1>34, <1>35, <1>36, <1>37, <1>38, <1>39, <1>40
     DEF Next, EngineStep, EngineFault, TelegramStep

(* What a thread has read are positions. *)
LEMMA ReadsStep == ASSUME TypeOK, Next PROVE ReadsOK'
<1> USE DEF TypeOK, ReadsOK, ThreadsOK, Lists, Open
<1>1. CASE StartProcess
  BY <1>1 DEF StartProcess
<1>2. CASE Stop
  BY <1>2 DEF Stop
<1>3. CASE Crash
  BY <1>3 DEF Crash
<1>4. CASE ClearPause
  BY <1>4 DEF ClearPause
<1>5. CASE WarmUp
  BY <1>5 DEF WarmUp
<1>6. CASE CheckConnection
  BY <1>6 DEF CheckConnection
<1>7. CASE Reconnect
  BY <1>7 DEF Reconnect
<1>8. CASE KillTick
  BY <1>8 DEF KillTick
<1>9. ASSUME NEW t \in Tickets, KillClose(t) PROVE ReadsOK'
  BY <1>9 DEF KillClose
<1>10. CASE KillTickDone
  BY <1>10 DEF KillTickDone
<1>11. CASE Healthy
  BY <1>11 DEF Healthy
<1>12. CASE DailyReset
  BY <1>12 DEF DailyReset
<1>13. CASE Manage
  BY <1>13 DEF Manage
<1>14. ASSUME NEW t \in Tickets, ApplyClose(t) PROVE ReadsOK'
  BY <1>14 DEF ApplyClose
<1>15. ASSUME NEW t \in Tickets, ApplyOther(t) PROVE ReadsOK'
  BY <1>15 DEF ApplyOther
<1>16. CASE ManageDone
  BY <1>16 DEF ManageDone
<1>17. CASE ScanFindsNothing
  BY <1>17 DEF ScanFindsNothing
<1>18. ASSUME NEW d \in Directions, ScanFinds(d) PROVE ReadsOK'
  BY <1>18 DEF ScanFinds
<1>19. CASE GatePasses
  BY <1>19 DEF GatePasses
<1>20. CASE GateRefuses
  BY <1>20 DEF GateRefuses
<1>21. ASSUME NEW t \in Tickets, PlaceOrder(t) PROVE ReadsOK'
  BY <1>21 DEF PlaceOrder
<1>22. CASE OrderRejected
  BY <1>22 DEF OrderRejected
<1>23. CASE CloseUnderfilled
  BY <1>23 DEF CloseUnderfilled
<1>24. CASE RecordTrade
  BY <1>24 DEF RecordTrade
<1>25. CASE WarmUpFails
  BY <1>25 DEF WarmUpFails
<1>26. CASE ReconnectFails
  BY <1>26 DEF ReconnectFails
<1>27. CASE NoAccount
  BY <1>27 DEF NoAccount
<1>28. CASE CloseWeakest
  BY <1>28 DEF CloseWeakest
<1>29. CASE TickFails
  BY <1>29 DEF TickFails
<1>30. ASSUME NEW t \in Tickets, Underfilled(t) PROVE ReadsOK'
  BY <1>30 DEF Underfilled
<1>31. CASE TelegramPause
  BY <1>31 DEF TelegramPause
<1>32. CASE TelegramResume
  BY <1>32 DEF TelegramResume
<1>33. CASE TelegramCloseAll
  BY <1>33 DEF TelegramCloseAll
<1>34. CASE TelegramKill
  BY <1>34 DEF TelegramKill
<1>35. CASE TelegramKillPauses
  BY <1>35 DEF TelegramKillPauses
<1>36. ASSUME NEW t \in Tickets, TelegramCloses(t) PROVE ReadsOK'
  BY <1>36 DEF TelegramCloses
<1>37. CASE TelegramReplies
  BY <1>37 DEF TelegramReplies
<1>38. ASSUME NEW t \in Tickets, BrokerClose(t) PROVE ReadsOK'
  BY <1>38 DEF BrokerClose
<1>39. ASSUME NEW t \in Tickets, Expire(t) PROVE ReadsOK'
  BY <1>39 DEF Expire
<1>40. CASE Disconnect
  BY <1>40 DEF Disconnect
<1> QED
  BY <1>1, <1>2, <1>3, <1>4, <1>5, <1>6, <1>7, <1>8, <1>9, <1>10, <1>11, <1>12, <1>13, <1>14,
     <1>15, <1>16, <1>17, <1>18, <1>19, <1>20, <1>21, <1>22, <1>23, <1>24, <1>25, <1>26, <1>27,
     <1>28, <1>29, <1>30, <1>31, <1>32, <1>33, <1>34, <1>35, <1>36, <1>37, <1>38, <1>39, <1>40
     DEF Next, EngineStep, EngineFault, TelegramStep

(* The flags stay flags. *)
LEMMA FlagsStep == ASSUME TypeOK, Next PROVE FlagsOK'
<1> USE DEF TypeOK, FlagsOK, SetPaused, SetKill, MayKill, MayDrift, RecordClose
<1>1. CASE StartProcess
  BY <1>1 DEF StartProcess
<1>2. CASE Stop
  BY <1>2 DEF Stop
<1>3. CASE Crash
  BY <1>3 DEF Crash
<1>4. CASE ClearPause
  BY <1>4 DEF ClearPause
<1>5. CASE WarmUp
  BY <1>5 DEF WarmUp
<1>6. CASE CheckConnection
  BY <1>6 DEF CheckConnection
<1>7. CASE Reconnect
  BY <1>7 DEF Reconnect
<1>8. CASE KillTick
  BY <1>8 DEF KillTick
<1>9. ASSUME NEW t \in Tickets, KillClose(t) PROVE FlagsOK'
  BY <1>9 DEF KillClose
<1>10. CASE KillTickDone
  BY <1>10 DEF KillTickDone
<1>11. CASE Healthy
  BY <1>11 DEF Healthy
<1>12. CASE DailyReset
  BY <1>12 DEF DailyReset
<1>13. CASE Manage
  BY <1>13 DEF Manage
<1>14. ASSUME NEW t \in Tickets, ApplyClose(t) PROVE FlagsOK'
  BY <1>14 DEF ApplyClose
<1>15. ASSUME NEW t \in Tickets, ApplyOther(t) PROVE FlagsOK'
  BY <1>15 DEF ApplyOther
<1>16. CASE ManageDone
  BY <1>16 DEF ManageDone
<1>17. CASE ScanFindsNothing
  BY <1>17 DEF ScanFindsNothing
<1>18. ASSUME NEW d \in Directions, ScanFinds(d) PROVE FlagsOK'
  BY <1>18 DEF ScanFinds
<1>19. CASE GatePasses
  BY <1>19 DEF GatePasses
<1>20. CASE GateRefuses
  BY <1>20 DEF GateRefuses
<1>21. ASSUME NEW t \in Tickets, PlaceOrder(t) PROVE FlagsOK'
  BY <1>21 DEF PlaceOrder
<1>22. CASE OrderRejected
  BY <1>22 DEF OrderRejected
<1>23. CASE CloseUnderfilled
  BY <1>23 DEF CloseUnderfilled
<1>24. CASE RecordTrade
  BY <1>24 DEF RecordTrade
<1>25. CASE WarmUpFails
  BY <1>25 DEF WarmUpFails
<1>26. CASE ReconnectFails
  BY <1>26 DEF ReconnectFails
<1>27. CASE NoAccount
  BY <1>27 DEF NoAccount
<1>28. CASE CloseWeakest
  BY <1>28 DEF CloseWeakest
<1>29. CASE TickFails
  BY <1>29 DEF TickFails
<1>30. ASSUME NEW t \in Tickets, Underfilled(t) PROVE FlagsOK'
  BY <1>30 DEF Underfilled
<1>31. CASE TelegramPause
  BY <1>31 DEF TelegramPause
<1>32. CASE TelegramResume
  BY <1>32 DEF TelegramResume
<1>33. CASE TelegramCloseAll
  BY <1>33 DEF TelegramCloseAll
<1>34. CASE TelegramKill
  BY <1>34 DEF TelegramKill
<1>35. CASE TelegramKillPauses
  BY <1>35 DEF TelegramKillPauses
<1>36. ASSUME NEW t \in Tickets, TelegramCloses(t) PROVE FlagsOK'
  BY <1>36 DEF TelegramCloses
<1>37. CASE TelegramReplies
  BY <1>37 DEF TelegramReplies
<1>38. ASSUME NEW t \in Tickets, BrokerClose(t) PROVE FlagsOK'
  BY <1>38 DEF BrokerClose
<1>39. ASSUME NEW t \in Tickets, Expire(t) PROVE FlagsOK'
  BY <1>39 DEF Expire
<1>40. CASE Disconnect
  BY <1>40 DEF Disconnect
<1> QED
  BY <1>1, <1>2, <1>3, <1>4, <1>5, <1>6, <1>7, <1>8, <1>9, <1>10, <1>11, <1>12, <1>13, <1>14,
     <1>15, <1>16, <1>17, <1>18, <1>19, <1>20, <1>21, <1>22, <1>23, <1>24, <1>25, <1>26, <1>27,
     <1>28, <1>29, <1>30, <1>31, <1>32, <1>33, <1>34, <1>35, <1>36, <1>37, <1>38, <1>39, <1>40
     DEF Next, EngineStep, EngineFault, TelegramStep

(* Positions and rows keep their states. *)
LEMMA TablesStep == ASSUME TypeOK, Next PROVE TablesOK'
<1> USE DEF TypeOK, TablesOK, ReadsOK, Closed, CloseFails, TryClose, FillsInPart, RecordClose
<1>1. CASE StartProcess
  BY <1>1 DEF StartProcess
<1>2. CASE Stop
  BY <1>2 DEF Stop
<1>3. CASE Crash
  BY <1>3 DEF Crash
<1>4. CASE ClearPause
  BY <1>4 DEF ClearPause
<1>5. CASE WarmUp
  BY <1>5 DEF WarmUp
<1>6. CASE CheckConnection
  BY <1>6 DEF CheckConnection
<1>7. CASE Reconnect
  BY <1>7 DEF Reconnect
<1>8. CASE KillTick
  BY <1>8 DEF KillTick
<1>9. ASSUME NEW t \in Tickets, KillClose(t) PROVE TablesOK'
  BY <1>9 DEF KillClose
<1>10. CASE KillTickDone
  BY <1>10 DEF KillTickDone
<1>11. CASE Healthy
  BY <1>11 DEF Healthy
<1>12. CASE DailyReset
  BY <1>12 DEF DailyReset
<1>13. CASE Manage
  BY <1>13 DEF Manage
<1>14. ASSUME NEW t \in Tickets, ApplyClose(t) PROVE TablesOK'
  BY <1>14 DEF ApplyClose
<1>15. ASSUME NEW t \in Tickets, ApplyOther(t) PROVE TablesOK'
  BY <1>15 DEF ApplyOther
<1>16. CASE ManageDone
  BY <1>16 DEF ManageDone
<1>17. CASE ScanFindsNothing
  BY <1>17 DEF ScanFindsNothing
<1>18. ASSUME NEW d \in Directions, ScanFinds(d) PROVE TablesOK'
  BY <1>18 DEF ScanFinds
<1>19. CASE GatePasses
  BY <1>19 DEF GatePasses
<1>20. CASE GateRefuses
  BY <1>20 DEF GateRefuses
<1>21. ASSUME NEW t \in Tickets, PlaceOrder(t) PROVE TablesOK'
  BY <1>21 DEF PlaceOrder
<1>22. CASE OrderRejected
  BY <1>22 DEF OrderRejected
<1>23. CASE CloseUnderfilled
  BY <1>23 DEF CloseUnderfilled
<1>24. CASE RecordTrade
  BY <1>24 DEF RecordTrade
<1>25. CASE WarmUpFails
  BY <1>25 DEF WarmUpFails
<1>26. CASE ReconnectFails
  BY <1>26 DEF ReconnectFails
<1>27. CASE NoAccount
  BY <1>27 DEF NoAccount
<1>28. CASE CloseWeakest
  BY <1>28 DEF CloseWeakest
<1>29. CASE TickFails
  BY <1>29 DEF TickFails
<1>30. ASSUME NEW t \in Tickets, Underfilled(t) PROVE TablesOK'
  BY <1>30 DEF Underfilled
<1>31. CASE TelegramPause
  BY <1>31 DEF TelegramPause
<1>32. CASE TelegramResume
  BY <1>32 DEF TelegramResume
<1>33. CASE TelegramCloseAll
  BY <1>33 DEF TelegramCloseAll
<1>34. CASE TelegramKill
  BY <1>34 DEF TelegramKill
<1>35. CASE TelegramKillPauses
  BY <1>35 DEF TelegramKillPauses
<1>36. ASSUME NEW t \in Tickets, TelegramCloses(t) PROVE TablesOK'
  BY <1>36 DEF TelegramCloses
<1>37. CASE TelegramReplies
  BY <1>37 DEF TelegramReplies
<1>38. ASSUME NEW t \in Tickets, BrokerClose(t) PROVE TablesOK'
  BY <1>38 DEF BrokerClose
<1>39. ASSUME NEW t \in Tickets, Expire(t) PROVE TablesOK'
  BY <1>39 DEF Expire
<1>40. CASE Disconnect
  BY <1>40 DEF Disconnect
<1> QED
  BY <1>1, <1>2, <1>3, <1>4, <1>5, <1>6, <1>7, <1>8, <1>9, <1>10, <1>11, <1>12, <1>13, <1>14,
     <1>15, <1>16, <1>17, <1>18, <1>19, <1>20, <1>21, <1>22, <1>23, <1>24, <1>25, <1>26, <1>27,
     <1>28, <1>29, <1>30, <1>31, <1>32, <1>33, <1>34, <1>35, <1>36, <1>37, <1>38, <1>39, <1>40
     DEF Next, EngineStep, EngineFault, TelegramStep

(* The counters count. *)
LEMMA CountsStep == ASSUME TypeOK, Next PROVE CountsOK'
<1> USE DEF TypeOK, CountsOK, SetPaused, Fault, NoFault, Lists, Closed, CloseFails, TryClose,
           FillsInPart, CountLate, LiftLate, MayDrift
<1>1. CASE StartProcess
  BY <1>1 DEF StartProcess
<1>2. CASE Stop
  BY <1>2 DEF Stop
<1>3. CASE Crash
  BY <1>3 DEF Crash
<1>4. CASE ClearPause
  BY <1>4 DEF ClearPause
<1>5. CASE WarmUp
  BY <1>5 DEF WarmUp
<1>6. CASE CheckConnection
  BY <1>6 DEF CheckConnection
<1>7. CASE Reconnect
  BY <1>7 DEF Reconnect
<1>8. CASE KillTick
  BY <1>8 DEF KillTick
<1>9. ASSUME NEW t \in Tickets, KillClose(t) PROVE CountsOK'
  BY <1>9 DEF KillClose
<1>10. CASE KillTickDone
  BY <1>10 DEF KillTickDone
<1>11. CASE Healthy
  BY <1>11 DEF Healthy
<1>12. CASE DailyReset
  BY <1>12 DEF DailyReset
<1>13. CASE Manage
  BY <1>13 DEF Manage
<1>14. ASSUME NEW t \in Tickets, ApplyClose(t) PROVE CountsOK'
  BY <1>14 DEF ApplyClose
<1>15. ASSUME NEW t \in Tickets, ApplyOther(t) PROVE CountsOK'
  BY <1>15 DEF ApplyOther
<1>16. CASE ManageDone
  BY <1>16 DEF ManageDone
<1>17. CASE ScanFindsNothing
  BY <1>17 DEF ScanFindsNothing
<1>18. ASSUME NEW d \in Directions, ScanFinds(d) PROVE CountsOK'
  BY <1>18 DEF ScanFinds
<1>19. CASE GatePasses
  BY <1>19 DEF GatePasses
<1>20. CASE GateRefuses
  BY <1>20 DEF GateRefuses
<1>21. ASSUME NEW t \in Tickets, PlaceOrder(t) PROVE CountsOK'
  BY <1>21 DEF PlaceOrder
<1>22. CASE OrderRejected
  BY <1>22 DEF OrderRejected
<1>23. CASE CloseUnderfilled
  BY <1>23 DEF CloseUnderfilled
<1>24. CASE RecordTrade
  BY <1>24 DEF RecordTrade
<1>25. CASE WarmUpFails
  BY <1>25 DEF WarmUpFails
<1>26. CASE ReconnectFails
  BY <1>26 DEF ReconnectFails
<1>27. CASE NoAccount
  BY <1>27 DEF NoAccount
<1>28. CASE CloseWeakest
  BY <1>28 DEF CloseWeakest
<1>29. CASE TickFails
  BY <1>29 DEF TickFails
<1>30. ASSUME NEW t \in Tickets, Underfilled(t) PROVE CountsOK'
  BY <1>30 DEF Underfilled
<1>31. CASE TelegramPause
  BY <1>31 DEF TelegramPause
<1>32. CASE TelegramResume
  BY <1>32 DEF TelegramResume
<1>33. CASE TelegramCloseAll
  BY <1>33 DEF TelegramCloseAll
<1>34. CASE TelegramKill
  BY <1>34 DEF TelegramKill
<1>35. CASE TelegramKillPauses
  BY <1>35 DEF TelegramKillPauses
<1>36. ASSUME NEW t \in Tickets, TelegramCloses(t) PROVE CountsOK'
  BY <1>36 DEF TelegramCloses
<1>37. CASE TelegramReplies
  BY <1>37 DEF TelegramReplies
<1>38. ASSUME NEW t \in Tickets, BrokerClose(t) PROVE CountsOK'
  BY <1>38 DEF BrokerClose
<1>39. ASSUME NEW t \in Tickets, Expire(t) PROVE CountsOK'
  BY <1>39 DEF Expire
<1>40. CASE Disconnect
  BY <1>40 DEF Disconnect
<1> QED
  BY <1>1, <1>2, <1>3, <1>4, <1>5, <1>6, <1>7, <1>8, <1>9, <1>10, <1>11, <1>12, <1>13, <1>14,
     <1>15, <1>16, <1>17, <1>18, <1>19, <1>20, <1>21, <1>22, <1>23, <1>24, <1>25, <1>26, <1>27,
     <1>28, <1>29, <1>30, <1>31, <1>32, <1>33, <1>34, <1>35, <1>36, <1>37, <1>38, <1>39, <1>40
     DEF Next, EngineStep, EngineFault, TelegramStep

(* Engine thread, listener thread, flags and tables keep their types, for  *)
(* any number of positions, commands, faults and crashes.                  *)
THEOREM TypeCorrect == Spec => []TypeOK
<1>1. Init => TypeOK
  <2> SUFFICES ASSUME Init PROVE TypeOK
    OBVIOUS
  <2>1. ThreadsOK
    BY DEF Init, ThreadsOK
  <2>2. ReadsOK
    BY DEF Init, ReadsOK
  <2>3. FlagsOK
    BY DEF Init, FlagsOK
  <2>4. TablesOK
    BY DEF Init, TablesOK
  <2>5. CountsOK
    BY DEF Init, CountsOK
  <2> QED
    BY <2>1, <2>2, <2>3, <2>4, <2>5 DEF TypeOK
<1>2. TypeOK /\ [Next]_vars => TypeOK'
  <2> SUFFICES ASSUME TypeOK, [Next]_vars PROVE TypeOK'
    OBVIOUS
  <2>1. CASE Next
    BY <2>1, ThreadsStep, ReadsStep, FlagsStep, TablesStep, CountsStep DEF TypeOK
  <2>2. CASE UNCHANGED vars
    BY <2>2 DEF vars, TypeOK, ThreadsOK, ReadsOK, FlagsOK, TablesOK, CountsOK
  <2> QED
    BY <2>1, <2>2
<1> QED
  BY <1>1, <1>2, PTL DEF Spec

----------------------------------------------------------------------------
(* The engine implements TradingDesk. *)

(* Memory and database agree on the kill switch while the process runs;    *)
(* without a process nothing is paused in memory.                          *)
KillKept ==
    /\ up => (kill <=> killDisk)
    /\ ~up => ~paused

(* Where the tick may be when the late order has been filled: the engine   *)
(* is still stopped, and unless it is killed it is past the point where a  *)
(* pause keeps it from looking for a signal.                               *)
LateOnce ==
    late = 1 =>
        /\ paused \/ killDisk
        /\ pc # "order"
        /\ \/ killDisk
           \/ pc \notin {"scan", "gate"} /\ ~(pc = "manage" /\ scanning)

StopInv == late \in 0..1 /\ KillKept /\ LateOnce

(* The steps that may engage the kill switch engage it in memory and in    *)
(* the database, and none releases it.                                     *)
Engages ==
    /\ killDisk' \in BOOLEAN /\ (killDisk => killDisk')
    /\ (kill <=> killDisk) => (kill' <=> killDisk')

(* The steps that may pause do not resume. *)
Pauses == paused' \in BOOLEAN /\ (paused => paused')

LEMMA KillEffect == ASSUME FlagsOK, MayKill PROVE Engages
<1>1. CASE UNCHANGED <<kill, killDisk>>
  BY <1>1 DEF FlagsOK, Engages
<1>2. CASE SetKill
  BY <1>2 DEF SetKill, Engages
<1> QED
  BY <1>1, <1>2 DEF MayKill

LEMMA DriftEffect == ASSUME FlagsOK, MayDrift PROVE Pauses
<1>1. CASE SetPaused(TRUE)
  BY <1>1 DEF SetPaused, Pauses
<1>2. CASE UNCHANGED <<paused, pausedDisk>>
  BY <1>2 DEF FlagsOK, Pauses
<1> QED
  BY <1>1, <1>2 DEF MayDrift

LEMMA RecordEffect == ASSUME FlagsOK, NEW t \in Tickets, RecordClose(t) PROVE Engages /\ Pauses
<1>1. CASE UNCHANGED flags
  BY <1>1 DEF FlagsOK, Engages, Pauses
<1>2. CASE MayKill /\ (UNCHANGED <<paused, pausedDisk>> \/ SetPaused(TRUE))
  <2>1. Engages
    BY <1>2, KillEffect
  <2>2. CASE UNCHANGED <<paused, pausedDisk>>
    BY <2>1, <2>2 DEF FlagsOK, Pauses
  <2>3. CASE SetPaused(TRUE)
    BY <2>1, <2>3 DEF SetPaused, Pauses
  <2> QED
    BY <1>2, <2>2, <2>3
<1> QED
  BY <1>1, <1>2 DEF RecordClose

(* The one late order is remembered until the stop is lifted. *)
LEMMA StopStep == ASSUME TypeOK, StopInv, Next PROVE StopInv'
<1> USE DEF TypeOK, ThreadsOK, ReadsOK, FlagsOK, CountsOK, StopInv, KillKept, LateOnce,
           SetPaused, SetKill, CountLate, LiftLate, Acceptable, Engages, Pauses
<1>1. CASE StartProcess
  BY <1>1 DEF StartProcess
<1>2. CASE Stop
  BY <1>2 DEF Stop
<1>3. CASE Crash
  BY <1>3 DEF Crash
<1>4. CASE ClearPause
  BY <1>4 DEF ClearPause
<1>5. CASE WarmUp
  BY <1>5, DriftEffect DEF WarmUp
<1>6. CASE CheckConnection
  BY <1>6 DEF CheckConnection
<1>7. CASE Reconnect
  BY <1>7 DEF Reconnect
<1>8. CASE KillTick
  BY <1>8, KillEffect DEF KillTick
<1>9. ASSUME NEW t \in Tickets, KillClose(t) PROVE StopInv'
  BY <1>9 DEF KillClose
<1>10. CASE KillTickDone
  BY <1>10 DEF KillTickDone
<1>11. CASE Healthy
  BY <1>11 DEF Healthy
<1>12. CASE DailyReset
  BY <1>12, DriftEffect DEF DailyReset
<1>13. CASE Manage
  BY <1>13 DEF Manage
<1>14. ASSUME NEW t \in Tickets, ApplyClose(t) PROVE StopInv'
  <2>1. CASE RecordClose(t)
    BY <1>14, <2>1, RecordEffect DEF ApplyClose
  <2>2. CASE UNCHANGED flags
    BY <1>14, <2>2 DEF ApplyClose
  <2> QED
    BY <1>14, <2>1, <2>2 DEF ApplyClose
<1>15. ASSUME NEW t \in Tickets, ApplyOther(t) PROVE StopInv'
  BY <1>15 DEF ApplyOther
<1>16. CASE ManageDone
  BY <1>16 DEF ManageDone
<1>17. CASE ScanFindsNothing
  BY <1>17 DEF ScanFindsNothing
<1>18. ASSUME NEW d \in Directions, ScanFinds(d) PROVE StopInv'
  BY <1>18 DEF ScanFinds
<1>19. CASE GatePasses
  BY <1>19 DEF GatePasses
<1>20. CASE GateRefuses
  BY <1>20, KillEffect DEF GateRefuses
<1>21. ASSUME NEW t \in Tickets, PlaceOrder(t) PROVE StopInv'
  BY <1>21 DEF PlaceOrder
<1>22. CASE OrderRejected
  BY <1>22 DEF OrderRejected
<1>23. CASE CloseUnderfilled
  BY <1>23 DEF CloseUnderfilled
<1>24. CASE RecordTrade
  BY <1>24 DEF RecordTrade
<1>25. CASE WarmUpFails
  BY <1>25 DEF WarmUpFails
<1>26. CASE ReconnectFails
  BY <1>26 DEF ReconnectFails
<1>27. CASE NoAccount
  BY <1>27 DEF NoAccount
<1>28. CASE CloseWeakest
  BY <1>28 DEF CloseWeakest
<1>29. CASE TickFails
  BY <1>29 DEF TickFails
<1>30. ASSUME NEW t \in Tickets, Underfilled(t) PROVE StopInv'
  BY <1>30 DEF Underfilled
<1>31. CASE TelegramPause
  BY <1>31 DEF TelegramPause
<1>32. CASE TelegramResume
  BY <1>32 DEF TelegramResume
<1>33. CASE TelegramCloseAll
  BY <1>33 DEF TelegramCloseAll
<1>34. CASE TelegramKill
  BY <1>34 DEF TelegramKill
<1>35. CASE TelegramKillPauses
  BY <1>35 DEF TelegramKillPauses
<1>36. ASSUME NEW t \in Tickets, TelegramCloses(t) PROVE StopInv'
  BY <1>36 DEF TelegramCloses
<1>37. CASE TelegramReplies
  BY <1>37 DEF TelegramReplies
<1>38. ASSUME NEW t \in Tickets, BrokerClose(t) PROVE StopInv'
  BY <1>38 DEF BrokerClose
<1>39. ASSUME NEW t \in Tickets, Expire(t) PROVE StopInv'
  BY <1>39 DEF Expire
<1>40. CASE Disconnect
  BY <1>40 DEF Disconnect
<1> QED
  BY <1>1, <1>2, <1>3, <1>4, <1>5, <1>6, <1>7, <1>8, <1>9, <1>10, <1>11, <1>12, <1>13, <1>14,
     <1>15, <1>16, <1>17, <1>18, <1>19, <1>20, <1>21, <1>22, <1>23, <1>24, <1>25, <1>26, <1>27,
     <1>28, <1>29, <1>30, <1>31, <1>32, <1>33, <1>34, <1>35, <1>36, <1>37, <1>38, <1>39, <1>40
     DEF Next, EngineStep, EngineFault, TelegramStep

(* Every step of the engine, the listener thread or the broker is a step   *)
(* of the desk: orders open a position, what lifts the pause is a Resume,  *)
(* all the rest is a Retreat.                                              *)
LEMMA DeskStep == ASSUME TypeOK, StopInv, StopInv', Next PROVE Desk!Next
<1> USE DEF TypeOK, ThreadsOK, ReadsOK, FlagsOK, TablesOK, CountsOK, StopInv, KillKept,
           LateOnce, Open, Fresh, SetPaused, SetKill, CountLate, LiftLate, Engages, Pauses,
           Closed, CloseFails, TryClose, FillsInPart, Desk!OpenPosition, Desk!Retreat,
           Desk!Resume, Desk!Stopped
<1>1. ASSUME StartProcess PROVE Desk!Resume \/ Desk!Retreat
  BY <1>1 DEF StartProcess
<1>2. ASSUME Stop PROVE Desk!Resume \/ Desk!Retreat
  BY <1>2 DEF Stop
<1>3. ASSUME Crash PROVE Desk!Resume \/ Desk!Retreat
  BY <1>3 DEF Crash
<1>4. ASSUME ClearPause PROVE Desk!Resume \/ Desk!Retreat
  BY <1>4 DEF ClearPause
<1>5. ASSUME WarmUp PROVE Desk!Retreat
  BY <1>5, DriftEffect DEF WarmUp
<1>6. ASSUME CheckConnection PROVE Desk!Retreat
  BY <1>6 DEF CheckConnection
<1>7. ASSUME Reconnect PROVE Desk!Retreat
  BY <1>7 DEF Reconnect
<1>8. ASSUME KillTick PROVE Desk!Retreat
  BY <1>8, KillEffect DEF KillTick
<1>9. ASSUME NEW t \in Tickets, KillClose(t) PROVE Desk!Retreat
  BY <1>9 DEF KillClose
<1>10. ASSUME KillTickDone PROVE Desk!Retreat
  BY <1>10 DEF KillTickDone
<1>11. ASSUME Healthy PROVE Desk!Retreat
  BY <1>11 DEF Healthy
<1>12. ASSUME DailyReset PROVE Desk!Retreat
  BY <1>12, DriftEffect DEF DailyReset
<1>13. ASSUME Manage PROVE Desk!Retreat
  BY <1>13 DEF Manage
<1>14. ASSUME NEW t \in Tickets, ApplyClose(t) PROVE Desk!Retreat
  <2>1. CASE RecordClose(t)
    BY <1>14, <2>1, RecordEffect DEF ApplyClose
  <2>2. CASE UNCHANGED flags
    BY <1>14, <2>2 DEF ApplyClose
  <2> QED
    BY <1>14, <2>1, <2>2 DEF ApplyClose
<1>15. ASSUME NEW t \in Tickets, ApplyOther(t) PROVE Desk!Retreat
  BY <1>15 DEF ApplyOther
<1>16. ASSUME ManageDone PROVE Desk!Retreat
  BY <1>16 DEF ManageDone
<1>17. ASSUME ScanFindsNothing PROVE Desk!Retreat
  BY <1>17 DEF ScanFindsNothing
<1>18. ASSUME NEW d \in Directions, ScanFinds(d) PROVE Desk!Retreat
  BY <1>18 DEF ScanFinds
<1>19. ASSUME GatePasses PROVE Desk!Retreat
  BY <1>19 DEF GatePasses
<1>20. ASSUME GateRefuses PROVE Desk!Retreat
  BY <1>20, KillEffect DEF GateRefuses
<1>21. ASSUME NEW t \in Tickets, PlaceOrder(t) PROVE Desk!OpenPosition(t)
  BY <1>21 DEF PlaceOrder
<1>22. ASSUME OrderRejected PROVE Desk!Retreat
  BY <1>22 DEF OrderRejected
<1>23. ASSUME CloseUnderfilled PROVE Desk!Retreat
  BY <1>23 DEF CloseUnderfilled
<1>24. ASSUME RecordTrade PROVE Desk!Retreat
  BY <1>24 DEF RecordTrade
<1>25. ASSUME WarmUpFails PROVE Desk!Resume \/ Desk!Retreat
  BY <1>25 DEF WarmUpFails
<1>26. ASSUME ReconnectFails PROVE Desk!Retreat
  BY <1>26 DEF ReconnectFails
<1>27. ASSUME NoAccount PROVE Desk!Retreat
  BY <1>27 DEF NoAccount
<1>28. ASSUME CloseWeakest PROVE Desk!Retreat
  BY <1>28 DEF CloseWeakest
<1>29. ASSUME TickFails PROVE Desk!Retreat
  BY <1>29 DEF TickFails
<1>30. ASSUME NEW t \in Tickets, Underfilled(t) PROVE Desk!OpenPosition(t)
  BY <1>30 DEF Underfilled
<1>31. ASSUME TelegramPause PROVE Desk!Retreat
  BY <1>31 DEF TelegramPause
<1>32. ASSUME TelegramResume PROVE Desk!Resume \/ Desk!Retreat
  BY <1>32 DEF TelegramResume
<1>33. ASSUME TelegramCloseAll PROVE Desk!Retreat
  BY <1>33 DEF TelegramCloseAll
<1>34. ASSUME TelegramKill PROVE Desk!Retreat
  BY <1>34 DEF TelegramKill
<1>35. ASSUME TelegramKillPauses PROVE Desk!Retreat
  BY <1>35 DEF TelegramKillPauses
<1>36. ASSUME NEW t \in Tickets, TelegramCloses(t) PROVE Desk!Retreat
  BY <1>36 DEF TelegramCloses
<1>37. ASSUME TelegramReplies PROVE Desk!Retreat
  BY <1>37 DEF TelegramReplies
<1>38. ASSUME NEW t \in Tickets, BrokerClose(t) PROVE Desk!Retreat
  BY <1>38 DEF BrokerClose
<1>39. ASSUME NEW t \in Tickets, Expire(t) PROVE Desk!Retreat
  BY <1>39 DEF Expire
<1>40. ASSUME Disconnect PROVE Desk!Retreat
  BY <1>40 DEF Disconnect
<1> QED
  BY <1>1, <1>2, <1>3, <1>4, <1>5, <1>6, <1>7, <1>8, <1>9, <1>10, <1>11, <1>12, <1>13, <1>14,
     <1>15, <1>16, <1>17, <1>18, <1>19, <1>20, <1>21, <1>22, <1>23, <1>24, <1>25, <1>26, <1>27,
     <1>28, <1>29, <1>30, <1>31, <1>32, <1>33, <1>34, <1>35, <1>36, <1>37, <1>38, <1>39, <1>40
     DEF Next, EngineStep, EngineFault, TelegramStep, Desk!Next

(* The engine as it starts is an empty desk, and a step that changes       *)
(* nothing of the engine changes nothing of the desk.                      *)
LEMMA StopInitially == Init => StopInv /\ Desk!Init
<1> SUFFICES ASSUME Init PROVE StopInv /\ Desk!Init
  OBVIOUS
<1>1. StopInv
  BY DEF Init, StopInv, KillKept, LateOnce
<1>2. Open = {}
  BY DEF Init, Open
<1>3. (paused <=> FALSE) /\ (killDisk <=> FALSE) /\ ((late > 0) <=> FALSE)
  BY DEF Init
<1> QED
  BY <1>1, <1>2, <1>3 DEF Desk!Init

(* Every behaviour of the engine, its listener thread and its broker, with *)
(* any number of faults and crashes, is one of the trading desk: after a   *)
(* pause or a kill one order at most is filled until the stop is lifted,   *)
(* and the kill switch is lifted by nothing.                               *)
THEOREM DeskImplemented == Spec => ImplementsDesk
<1>1. Init => StopInv /\ Desk!Init
  BY StopInitially
<1>2. TypeOK /\ StopInv /\ [Next]_vars => StopInv'
  <2> SUFFICES ASSUME TypeOK, StopInv, [Next]_vars PROVE StopInv'
    OBVIOUS
  <2>1. CASE UNCHANGED vars
    BY <2>1 DEF vars, StopInv, KillKept, LateOnce
  <2> QED
    BY <2>1, StopStep
<1>3. TypeOK /\ StopInv /\ StopInv' /\ [Next]_vars => [Desk!Next]_(Desk!vars)
  <2> SUFFICES ASSUME TypeOK, StopInv, StopInv', [Next]_vars PROVE [Desk!Next]_(Desk!vars)
    OBVIOUS
  <2>1. CASE UNCHANGED vars
    BY <2>1 DEF vars, Open, Desk!vars
  <2> QED
    BY <2>1, DeskStep
<1> QED
  BY <1>1, <1>2, <1>3, TypeCorrect, PTL DEF Spec, ImplementsDesk, Desk!Spec

----------------------------------------------------------------------------
(* Exposure and errors. *)

(* What the gate has checked is still true when the order is sent: only    *)
(* the engine opens positions, all others can only close them.             *)
GateHolds ==
    /\ pc = "gate" => Open \subseteq listed
    /\ pc = "order" => /\ Cardinality(Open) < MaxConcurrent
                       /\ \A t \in Open: dir[t] # signal
ExposureInv == GateHolds /\ ExposureLimited

LEMMA OpenIsFinite == IsFiniteSet(Open) /\ Open \subseteq Tickets
<1>1. Open \subseteq Tickets
  BY DEF Open
<1> QED
  BY <1>1, FS_Subset

(* Closing positions keeps the limits. *)
LEMMA FewerExposed ==
    ASSUME ExposureInv, Open' \subseteq Open, UNCHANGED dir,
           pc' = "gate" => Open' \subseteq listed',
           pc' = "order" => pc = "order" /\ UNCHANGED signal
    PROVE  ExposureInv'
<1> DEFINE S == Open
<1>1. /\ Cardinality(Open') <= Cardinality(Open)
     /\ Cardinality(Open) \in Nat /\ Cardinality(Open') \in Nat
  <2>1. IsFiniteSet(Open')
    BY OpenIsFinite, FS_Subset
  <2> QED
    BY <2>1, OpenIsFinite, FS_Subset, FS_CardinalityType
<1>2. ExposureLimited'
  BY <1>1 DEF ExposureInv, ExposureLimited
<1>3. GateHolds'
  BY <1>1 DEF ExposureInv, GateHolds
<1> QED
  BY <1>2, <1>3 DEF ExposureInv

(* The order that is filled is the one the gate has checked. *)
LEMMA OneMoreExposed ==
    ASSUME TypeOK, ExposureInv, pc = "order", NEW t \in Tickets \ Open,
           Open' = Open \cup {t}, dir' = [dir EXCEPT ![t] = signal], pc' \in {"record", "underflow"}
    PROVE  ExposureInv'
<1>1. Cardinality(Open') = Cardinality(Open) + 1 /\ Cardinality(Open) \in Nat
  BY OpenIsFinite, FS_AddElement, FS_CardinalityType
<1>2. Cardinality(Open') <= MaxConcurrent
  BY <1>1 DEF ExposureInv, GateHolds
<1>3. dir \in [Tickets -> Directions \cup {NoDirection}]
  BY DEF TypeOK, TablesOK
<1>4. \A u \in Open: dir'[u] = dir[u] /\ dir'[u] # signal
  BY <1>3, OpenIsFinite DEF ExposureInv, GateHolds
<1>5. dir'[t] = signal
  BY <1>3
<1>6. \A s, u \in Open': s # u => dir'[s] # dir'[u]
  BY <1>4, <1>5 DEF ExposureInv, ExposureLimited
<1> QED
  BY <1>2, <1>6 DEF ExposureInv, ExposureLimited, GateHolds

(* Closing a position, in whole, in part or not at all, opens none. *)
LEMMA CloseEffect ==
    ASSUME TypeOK, NEW t, UNCHANGED pos \/ pos' = [pos EXCEPT ![t] = "closed"]
    PROVE  Open' \subseteq Open
  BY DEF TypeOK, TablesOK, Open

(* No step breaks the limits, as long as the gate's reading does not fail. *)
LEMMA ExposureStep == ASSUME "gate" \notin BlindReads, TypeOK, ExposureInv, Next PROVE ExposureInv'
<1> USE DEF ExposureInv, GateHolds, Open, Lists, Closed, CloseFails, TryClose, FillsInPart
<1>1. ASSUME StartProcess PROVE ExposureInv'
  BY <1>1, FewerExposed DEF StartProcess
<1>2. ASSUME Stop PROVE ExposureInv'
  BY <1>2, FewerExposed DEF Stop
<1>3. ASSUME Crash PROVE ExposureInv'
  BY <1>3, FewerExposed DEF Crash
<1>4. ASSUME ClearPause PROVE ExposureInv'
  BY <1>4, FewerExposed DEF ClearPause
<1>5. ASSUME WarmUp PROVE ExposureInv'
  BY <1>5, FewerExposed DEF WarmUp
<1>6. ASSUME CheckConnection PROVE ExposureInv'
  BY <1>6, FewerExposed DEF CheckConnection
<1>7. ASSUME Reconnect PROVE ExposureInv'
  BY <1>7, FewerExposed DEF Reconnect
<1>8. ASSUME KillTick PROVE ExposureInv'
  BY <1>8, FewerExposed DEF KillTick
<1>9. ASSUME NEW t \in Tickets, KillClose(t) PROVE ExposureInv'
  <2>1. Open' \subseteq Open
    BY <1>9, CloseEffect DEF KillClose
  <2> QED
    BY <1>9, <2>1, FewerExposed DEF KillClose
<1>10. ASSUME KillTickDone PROVE ExposureInv'
  BY <1>10, FewerExposed DEF KillTickDone
<1>11. ASSUME Healthy PROVE ExposureInv'
  BY <1>11, FewerExposed DEF Healthy
<1>12. ASSUME DailyReset PROVE ExposureInv'
  BY <1>12, FewerExposed DEF DailyReset
<1>13. ASSUME Manage PROVE ExposureInv'
  BY <1>13, FewerExposed DEF Manage
<1>14. ASSUME NEW t \in Tickets, ApplyClose(t) PROVE ExposureInv'
  <2>1. Open' \subseteq Open
    BY <1>14, CloseEffect DEF ApplyClose
  <2> QED
    BY <1>14, <2>1, FewerExposed DEF ApplyClose
<1>15. ASSUME NEW t \in Tickets, ApplyOther(t) PROVE ExposureInv'
  BY <1>15, FewerExposed DEF ApplyOther
<1>16. ASSUME ManageDone PROVE ExposureInv'
  BY <1>16, FewerExposed DEF ManageDone
<1>17. ASSUME ScanFindsNothing PROVE ExposureInv'
  BY <1>17, FewerExposed DEF ScanFindsNothing
<1>18. ASSUME NEW d \in Directions, ScanFinds(d) PROVE ExposureInv'
  BY <1>18, FewerExposed DEF ScanFinds
<1>19. ASSUME GatePasses PROVE ExposureInv'
  <2>1. Cardinality(Open) <= Cardinality(listed)
    BY <1>19, FS_Subset DEF GatePasses, TypeOK, ReadsOK
  <2>2. Cardinality(Open) < MaxConcurrent /\ \A t \in Open: dir[t] # signal
    <3>1. Cardinality(Open) \in Nat /\ Cardinality(listed) \in Nat
      BY FS_Subset, OpenIsFinite, FS_CardinalityType DEF TypeOK, ReadsOK
    <3> QED
      BY <1>19, <2>1, <3>1 DEF GatePasses, Acceptable
  <2> QED
    BY <1>19, <2>2 DEF GatePasses, ExposureLimited
<1>20. ASSUME GateRefuses PROVE ExposureInv'
  BY <1>20, FewerExposed DEF GateRefuses
<1>21. ASSUME NEW t \in Tickets, PlaceOrder(t) PROVE ExposureInv'
  <2>1. Open' = Open \cup {t}
    BY <1>21 DEF PlaceOrder, Fresh, Open, TypeOK, TablesOK
  <2>2. t \notin Open
    BY <1>21 DEF PlaceOrder, Fresh, Open
  <2> QED
    BY <1>21, <2>1, <2>2, OneMoreExposed DEF PlaceOrder
<1>22. ASSUME OrderRejected PROVE ExposureInv'
  BY <1>22, FewerExposed DEF OrderRejected
<1>23. ASSUME CloseUnderfilled PROVE ExposureInv'
  <2>1. Open' \subseteq Open
    BY <1>23, CloseEffect DEF CloseUnderfilled
  <2> QED
    BY <1>23, <2>1, FewerExposed DEF CloseUnderfilled
<1>24. ASSUME RecordTrade PROVE ExposureInv'
  BY <1>24, FewerExposed DEF RecordTrade
<1>25. ASSUME WarmUpFails PROVE ExposureInv'
  BY <1>25, FewerExposed DEF WarmUpFails
<1>26. ASSUME ReconnectFails PROVE ExposureInv'
  BY <1>26, FewerExposed DEF ReconnectFails
<1>27. ASSUME NoAccount PROVE ExposureInv'
  BY <1>27, FewerExposed DEF NoAccount
<1>28. ASSUME CloseWeakest PROVE ExposureInv'
  <2>1. Open' \subseteq Open
    BY <1>28, CloseEffect DEF CloseWeakest
  <2> QED
    BY <1>28, <2>1, FewerExposed DEF CloseWeakest
<1>29. ASSUME TickFails PROVE ExposureInv'
  BY <1>29, FewerExposed DEF TickFails
<1>30. ASSUME NEW t \in Tickets, Underfilled(t) PROVE ExposureInv'
  <2>1. Open' = Open \cup {t}
    BY <1>30 DEF Underfilled, Fresh, Open, TypeOK, TablesOK
  <2>2. t \notin Open
    BY <1>30 DEF Underfilled, Fresh, Open
  <2> QED
    BY <1>30, <2>1, <2>2, OneMoreExposed DEF Underfilled
<1>31. ASSUME TelegramPause PROVE ExposureInv'
  BY <1>31, FewerExposed DEF TelegramPause
<1>32. ASSUME TelegramResume PROVE ExposureInv'
  BY <1>32, FewerExposed DEF TelegramResume
<1>33. ASSUME TelegramCloseAll PROVE ExposureInv'
  BY <1>33, FewerExposed DEF TelegramCloseAll
<1>34. ASSUME TelegramKill PROVE ExposureInv'
  BY <1>34, FewerExposed DEF TelegramKill
<1>35. ASSUME TelegramKillPauses PROVE ExposureInv'
  BY <1>35, FewerExposed DEF TelegramKillPauses
<1>36. ASSUME NEW t \in Tickets, TelegramCloses(t) PROVE ExposureInv'
  <2>1. Open' \subseteq Open
    BY <1>36, CloseEffect DEF TelegramCloses
  <2> QED
    BY <1>36, <2>1, FewerExposed DEF TelegramCloses
<1>37. ASSUME TelegramReplies PROVE ExposureInv'
  BY <1>37, FewerExposed DEF TelegramReplies
<1>38. ASSUME NEW t \in Tickets, BrokerClose(t) PROVE ExposureInv'
  BY <1>38, FewerExposed DEF BrokerClose
<1>39. ASSUME NEW t \in Tickets, Expire(t) PROVE ExposureInv'
  BY <1>39, FewerExposed DEF Expire
<1>40. ASSUME Disconnect PROVE ExposureInv'
  BY <1>40, FewerExposed DEF Disconnect
<1> QED
  BY <1>1, <1>2, <1>3, <1>4, <1>5, <1>6, <1>7, <1>8, <1>9, <1>10, <1>11, <1>12, <1>13, <1>14,
     <1>15, <1>16, <1>17, <1>18, <1>19, <1>20, <1>21, <1>22, <1>23, <1>24, <1>25, <1>26, <1>27,
     <1>28, <1>29, <1>30, <1>31, <1>32, <1>33, <1>34, <1>35, <1>36, <1>37, <1>38, <1>39, <1>40
     DEF Next, EngineStep, EngineFault, TelegramStep

(* If the gate's own reading of the positions never fails there are never  *)
(* more positions than allowed and never two in one direction, for any     *)
(* number of tickets and whatever the other reads do, although the list    *)
(* that was checked is old when the order is sent.                         *)
THEOREM ExposureBounded == "gate" \notin BlindReads => (Spec => []ExposureLimited)
<1> SUFFICES ASSUME "gate" \notin BlindReads PROVE Spec => []ExposureLimited
  OBVIOUS
<1>1. Init => ExposureInv
  <2> SUFFICES ASSUME Init PROVE ExposureInv
    OBVIOUS
  <2>1. Open = {} /\ pc = "down"
    BY DEF Init, Open
  <2>2. Cardinality(Open) = 0
    BY <2>1, FS_EmptySet
  <2> QED
    BY <2>1, <2>2 DEF ExposureInv, ExposureLimited, GateHolds
<1>2. TypeOK /\ ExposureInv /\ [Next]_vars => ExposureInv'
  <2> SUFFICES ASSUME TypeOK, ExposureInv, [Next]_vars PROVE ExposureInv'
    OBVIOUS
  <2>1. CASE UNCHANGED vars
    BY <2>1 DEF vars, ExposureInv, ExposureLimited, GateHolds, Open
  <2> QED
    BY <2>1, ExposureStep
<1>3. ExposureInv => ExposureLimited
  BY DEF ExposureInv
<1> QED
  BY <1>1, <1>2, <1>3, TypeCorrect, PTL DEF Spec

(* No error is counted before the loop has begun, and /kill leaves the     *)
(* engine paused.                                                          *)
ErrorsInv ==
    /\ pc \in {"down", "starting", "warmup"} => errors = 0
    /\ tg = "killall" /\ errors = MaxErrors => paused
    /\ ErrorsPause

(* The last error in a row pauses, and only the operator resumes after it. *)
LEMMA ErrorsStep == ASSUME TypeOK, ErrorsInv, Next PROVE ErrorsInv'
<1> USE DEF TypeOK, ThreadsOK, FlagsOK, CountsOK, ErrorsInv, ErrorsPause, SetPaused, Pauses
<1>1. CASE StartProcess
  BY <1>1 DEF StartProcess
<1>2. CASE Stop
  BY <1>2 DEF Stop
<1>3. CASE Crash
  BY <1>3 DEF Crash
<1>4. CASE ClearPause
  BY <1>4 DEF ClearPause
<1>5. CASE WarmUp
  BY <1>5, DriftEffect DEF WarmUp
<1>6. CASE CheckConnection
  BY <1>6 DEF CheckConnection
<1>7. CASE Reconnect
  BY <1>7 DEF Reconnect
<1>8. CASE KillTick
  BY <1>8 DEF KillTick
<1>9. ASSUME NEW t \in Tickets, KillClose(t) PROVE ErrorsInv'
  BY <1>9 DEF KillClose
<1>10. CASE KillTickDone
  BY <1>10 DEF KillTickDone
<1>11. CASE Healthy
  BY <1>11 DEF Healthy
<1>12. CASE DailyReset
  BY <1>12, DriftEffect DEF DailyReset
<1>13. CASE Manage
  BY <1>13 DEF Manage
<1>14. ASSUME NEW t \in Tickets, ApplyClose(t) PROVE ErrorsInv'
  <2>1. Pauses
    BY <1>14, RecordEffect DEF ApplyClose
  <2> QED
    BY <1>14, <2>1 DEF ApplyClose
<1>15. ASSUME NEW t \in Tickets, ApplyOther(t) PROVE ErrorsInv'
  BY <1>15 DEF ApplyOther
<1>16. CASE ManageDone
  BY <1>16 DEF ManageDone
<1>17. CASE ScanFindsNothing
  BY <1>17 DEF ScanFindsNothing
<1>18. ASSUME NEW d \in Directions, ScanFinds(d) PROVE ErrorsInv'
  BY <1>18 DEF ScanFinds
<1>19. CASE GatePasses
  BY <1>19 DEF GatePasses
<1>20. CASE GateRefuses
  BY <1>20 DEF GateRefuses
<1>21. ASSUME NEW t \in Tickets, PlaceOrder(t) PROVE ErrorsInv'
  BY <1>21 DEF PlaceOrder
<1>22. CASE OrderRejected
  BY <1>22 DEF OrderRejected
<1>23. CASE CloseUnderfilled
  BY <1>23 DEF CloseUnderfilled
<1>24. CASE RecordTrade
  BY <1>24 DEF RecordTrade
<1>25. CASE WarmUpFails
  BY <1>25 DEF WarmUpFails
<1>26. CASE ReconnectFails
  BY <1>26 DEF ReconnectFails
<1>27. CASE NoAccount
  BY <1>27 DEF NoAccount
<1>28. CASE CloseWeakest
  BY <1>28 DEF CloseWeakest
<1>29. CASE TickFails
  BY <1>29 DEF TickFails
<1>30. ASSUME NEW t \in Tickets, Underfilled(t) PROVE ErrorsInv'
  BY <1>30 DEF Underfilled
<1>31. CASE TelegramPause
  BY <1>31 DEF TelegramPause
<1>32. CASE TelegramResume
  BY <1>32 DEF TelegramResume
<1>33. CASE TelegramCloseAll
  BY <1>33 DEF TelegramCloseAll
<1>34. CASE TelegramKill
  BY <1>34 DEF TelegramKill
<1>35. CASE TelegramKillPauses
  BY <1>35 DEF TelegramKillPauses
<1>36. ASSUME NEW t \in Tickets, TelegramCloses(t) PROVE ErrorsInv'
  BY <1>36 DEF TelegramCloses
<1>37. CASE TelegramReplies
  BY <1>37 DEF TelegramReplies
<1>38. ASSUME NEW t \in Tickets, BrokerClose(t) PROVE ErrorsInv'
  BY <1>38 DEF BrokerClose
<1>39. ASSUME NEW t \in Tickets, Expire(t) PROVE ErrorsInv'
  BY <1>39 DEF Expire
<1>40. CASE Disconnect
  BY <1>40 DEF Disconnect
<1> QED
  BY <1>1, <1>2, <1>3, <1>4, <1>5, <1>6, <1>7, <1>8, <1>9, <1>10, <1>11, <1>12, <1>13, <1>14,
     <1>15, <1>16, <1>17, <1>18, <1>19, <1>20, <1>21, <1>22, <1>23, <1>24, <1>25, <1>26, <1>27,
     <1>28, <1>29, <1>30, <1>31, <1>32, <1>33, <1>34, <1>35, <1>36, <1>37, <1>38, <1>39, <1>40
     DEF Next, EngineStep, EngineFault, TelegramStep

(* Once MaxErrors ticks in a row have failed, the engine is paused unless  *)
(* the operator has resumed it.                                            *)
THEOREM ErrorsDoPause == Spec => []ErrorsPause
<1>1. Init => ErrorsInv
  BY DEF Init, ErrorsInv, ErrorsPause
<1>2. TypeOK /\ ErrorsInv /\ [Next]_vars => ErrorsInv'
  <2> SUFFICES ASSUME TypeOK, ErrorsInv, [Next]_vars PROVE ErrorsInv'
    OBVIOUS
  <2>1. CASE UNCHANGED vars
    BY <2>1 DEF vars, ErrorsInv, ErrorsPause
  <2> QED
    BY <2>1, ErrorsStep
<1>3. ErrorsInv => ErrorsPause
  BY DEF ErrorsInv
<1> QED
  BY <1>1, <1>2, <1>3, TypeCorrect, PTL DEF Spec
=============================================================================
