------------------------ MODULE TradeManagerProofs ------------------------
(* Proofs about TradeManager: a stop is never widened by the engine, and a *)
(* position is partially closed again only after a request has failed.     *)
EXTENDS TradeManager, TLAPS

USE ManagerAssumption DEF ManagerAssumption, NoStop

(* PartialVolumes yields volumes *)
LEMMA PartialVolumesNat == \A v \in Nat: PartialVolumes(v) \subseteq Nat
BY DEF PartialVolumes

(* The types, and a partial close that leaves some of the position *)
Typed == TypeOK

(* What the manager may decide keeps the types, if it leaves some volume *)
LEMMA DecideType ==
    ASSUME Typed, NEW a \in Actions, Decide(a), pos.open => a.part < pos.volume
    PROVE  Typed'
<1>1. UNCHANGED <<pos, price, hour, old, partials, refused, manual>>
      BY DEF Decide, market
<1>2. todo' = a /\ touched' = FALSE
      BY DEF Decide
<1> QED BY <1>1, <1>2 DEF Typed, TypeOK, PartialLeavesSome

LEMMA OrderType ==
    ASSUME NEW n \in Nat, NEW s \in Int
    PROVE  Order(n, s) \in Actions /\ Order(n, s).part = n /\ Order(n, s).stop = s
BY DEF Order, Actions

LEMMA NextType == Typed /\ [Next]_vars => Typed'
<1> SUFFICES ASSUME Typed, [Next]_vars PROVE Typed'
    OBVIOUS
<1>0. NoStop \in Int /\ NoStop = 0
      OBVIOUS
<1>a. Nothing \in Actions /\ Nothing.part = 0
      BY <1>0, OrderType, 0 \in Nat DEF Nothing
<1>b. Closing \in Actions /\ Closing.part = 0
      BY DEF Closing, Actions
<1>c. /\ pos.entry \in Int /\ pos.sl \in Int /\ pos.volume \in Nat
      /\ price \in Int /\ TrailingStop(pos, price) \in Int
      BY DEF Typed, TypeOK, Position, TrailingStop
<1>d. pos.open => 0 < pos.volume
      BY <1>c DEF Typed, TypeOK, PartialLeavesSome
<1>2. CASE CloseFull
      BY <1>2, <1>b, <1>d, DecideType DEF CloseFull
<1>3. CASE PartialClose
  <2>1. PICK v \in 1..pos.volume:
          /\ v < pos.volume
          /\ Decide(Order(v, IF MoveBeAfterPartial THEN pos.entry ELSE NoStop))
        BY <1>3 DEF PartialClose, PartialTaken
  <2>2. v \in Nat /\ (IF MoveBeAfterPartial THEN pos.entry ELSE NoStop) \in Int
        BY <1>0, <1>c
  <2> HIDE DEF NoStop
  <2> QED BY <2>1, <2>2, OrderType, DecideType
<1>4. CASE TightenTrailing
      BY <1>4, <1>c, <1>d, OrderType, 0 \in Nat, DecideType DEF TightenTrailing
<1>5. CASE MoveToBreakeven
      BY <1>5, <1>c, <1>d, OrderType, 0 \in Nat, DecideType DEF MoveToBreakeven
<1>6. CASE NothingToDo
      BY <1>6, <1>a, <1>d, DecideType DEF NothingToDo
<1>7. CASE SendClose
  <2>1. pos' \in Position /\ (pos'.open => pos' = pos)
        BY <1>7 DEF SendClose, Filled, Refused, Gone, Typed, TypeOK, Position
  <2>2. refused' \in Nat
        BY <1>7 DEF SendClose, Filled, Refused, Gone, Typed, TypeOK
  <2>3. todo' = Nothing /\ UNCHANGED <<price, hour, old, partials, manual, touched>>
        BY <1>7 DEF SendClose, market, operator
  <2> QED BY <2>1, <2>2, <2>3, <1>a, <1>d DEF Typed, TypeOK, PartialLeavesSome
<1>8. CASE SendPartial
  <2>1. todo' \in Actions /\ todo'.part = 0 /\ todo.part \in Nat
        BY <1>8 DEF SendPartial, Typed, TypeOK, Actions
  <2>2. UNCHANGED <<price, hour, old, manual, touched>>
        BY <1>8 DEF SendPartial, market, operator
  <2>3. CASE pos.open /\ Filled(Without(todo.part)) /\ partials' = partials + 1
    <3>1. pos.volume - todo.part \in Nat /\ pos.volume - todo.part >= 1
          BY <2>1, <2>3, <1>c DEF Typed, TypeOK, PartialLeavesSome
    <3>2. pos' = [pos EXCEPT !.volume = pos.volume - todo.part] /\ refused' = refused
          BY <2>3 DEF Filled, Without
    <3>3. pos' \in Position /\ pos'.volume >= 1
          BY <3>1, <3>2 DEF Typed, TypeOK, Position
    <3>4. pos'.volume \in Nat
          BY <3>3 DEF Position
    <3> QED BY <2>1, <2>2, <2>3, <3>2, <3>3, <3>4 DEF Typed, TypeOK, PartialLeavesSome
  <2>4. CASE UNCHANGED <<pos, partials>> /\ (refused' = refused + 1 \/ refused' = refused)
        BY <2>1, <2>2, <2>4, <1>d DEF Typed, TypeOK, PartialLeavesSome
  <2> QED BY <1>8, <2>3, <2>4 DEF SendPartial, Refused, Gone
<1>9. CASE SendStop
  <2>1. todo' \in Actions /\ todo'.part = todo.part /\ todo.stop \in Int
        BY <1>9 DEF SendStop, Typed, TypeOK, Actions
  <2>2. UNCHANGED <<price, hour, old, partials, manual, touched>>
        BY <1>9 DEF SendStop, market, operator
  <2>3. pos' \in Position /\ pos'.open = pos.open /\ pos'.volume = pos.volume
    <3>1. pos' = [pos EXCEPT !.sl = todo.stop] \/ pos' = pos
          BY <1>9 DEF SendStop, Filled, Refused, Gone
    <3> QED BY <3>1, <2>1 DEF Typed, TypeOK, Position
  <2>4. refused' \in Nat
        BY <1>9 DEF SendStop, Filled, Refused, Gone, Typed, TypeOK
  <2> QED BY <2>1, <2>2, <2>3, <2>4 DEF Typed, TypeOK, PartialLeavesSome
<1>10. CASE PriceMoves
  <2>1. pos' \in Position /\ (pos'.open => pos' = pos) /\ price' \in Prices
        BY <1>10 DEF PriceMoves, Typed, TypeOK, Position
  <2> QED BY <1>10, <2>1 DEF PriceMoves, operator, Typed, TypeOK, PartialLeavesSome
<1>11. CASE HourChanges
      BY <1>11 DEF HourChanges, operator, Typed, TypeOK, PartialLeavesSome
<1>12. CASE GetsOld
      BY <1>12 DEF GetsOld, operator, Typed, TypeOK, PartialLeavesSome
<1>13. CASE ManualStop
  <2>1. pos' \in Position /\ pos'.open = pos.open /\ pos'.volume = pos.volume
    <3>1. PICK stop \in Prices \cup {NoStop}: pos' = [pos EXCEPT !.sl = stop]
          BY <1>13 DEF ManualStop
    <3>2. stop \in Int
          BY <3>1
    <3> QED BY <3>1, <3>2 DEF Typed, TypeOK, Position
  <2> QED BY <1>13, <2>1 DEF ManualStop, market, Typed, TypeOK, PartialLeavesSome
<1>14. CASE UNCHANGED vars
      BY <1>14 DEF vars, Typed, TypeOK, PartialLeavesSome
<1> QED BY <1>2, <1>3, <1>4, <1>5, <1>6, <1>7, <1>8, <1>9, <1>10, <1>11, <1>12, <1>13, <1>14
        DEF Next

LEMMA InitType == Init => Typed
<1> SUFFICES ASSUME Init PROVE Typed
    OBVIOUS
<1>1. PICK long \in BOOLEAN, v \in Volumes, sl \in Prices:
        pos = [open |-> TRUE, long |-> long, volume |-> v, entry |-> price, sl |-> sl]
      BY DEF Init
<1>2. v \in Nat /\ v >= 1 /\ sl \in Int /\ price \in Int
      BY <1>1 DEF Init
<1>3. pos \in Position /\ pos.volume >= 1
      BY <1>1, <1>2 DEF Position
<1>4. Nothing \in Actions /\ Nothing.part = 0
      BY OrderType, 0 \in Nat, NoStop \in Int DEF Nothing
<1>5. pos.volume \in Nat
      BY <1>3 DEF Position
<1>6. /\ price \in Prices /\ hour = "day" /\ old = FALSE /\ todo = Nothing
      /\ touched = FALSE /\ partials = 0 /\ refused = 0 /\ manual = 0
      BY DEF Init
<1>7. PartialLeavesSome
      BY <1>3, <1>4, <1>5, <1>6 DEF PartialLeavesSome
<1>8. TypeOK
      BY <1>3, <1>4, <1>6, <1>7 DEF TypeOK
<1> QED BY <1>8 DEF Typed

(* The position, the actions and the histories always have their types,    *)
(* and a partial close never takes the whole position.                     *)
THEOREM TypeCorrect == Spec => []TypeOK
BY InitType, NextType, PTL DEF Spec, Typed

----------------------------------------------------------------------------
(* The stop that waits to be sent *)

(* The entry price of the position is a price, so never NoStop *)
EntrySet == pos.entry # NoStop

(* What a request changes of the position *)
LEMMA SendStopEffect ==
    ASSUME Typed, SendStop
    PROVE  /\ pos' = pos \/ (pos.open /\ pos' = [pos EXCEPT !.sl = todo.stop])
           /\ pos'.open = pos.open /\ pos'.long = pos.long /\ pos'.entry = pos.entry
           /\ pos'.sl = pos.sl \/ (pos.open /\ pos'.sl = todo.stop)
<1>1. pos' = pos \/ (pos.open /\ pos' = [pos EXCEPT !.sl = todo.stop])
      BY DEF SendStop, Filled, Refused, Gone
<1> QED BY <1>1 DEF Typed, TypeOK, Position

(* Deciding and sending keep the waiting stop no looser than the position's *)
LEMMA NextQueued ==
    ASSUME Typed, QueuedStop, EntrySet, [Next]_vars
    PROVE  QueuedStop' /\ EntrySet'
<1>a. /\ pos.entry \in Int /\ pos.sl \in Int /\ price \in Int
      /\ pos.long \in BOOLEAN /\ todo.stop \in Int /\ todo.part \in Nat
      BY DEF Typed, TypeOK, Position, Actions
<1>b. Nothing.part = 0 /\ Nothing.stop = NoStop
      BY DEF Nothing, Order
<1>2. CASE CloseFull
      BY <1>2 DEF CloseFull, Decide, Closing, QueuedStop, EntrySet
<1>3. CASE PartialClose
  <2>1. ~AtBreakeven(pos) /\ Risk(pos) > 0 /\ pos' = pos
        BY <1>3 DEF PartialClose, PartialTaken, PartialDue, Decide, Soft
  <2>2. todo'.stop = IF MoveBeAfterPartial THEN pos.entry ELSE NoStop
        BY <1>3, <1>a, OrderType DEF PartialClose, Decide, Order
  <2>3. Toward(pos, pos.entry) >= Toward(pos, pos.sl)
        BY <2>1, <1>a DEF AtBreakeven, Toward, Risk
  <2> QED BY <2>1, <2>2, <2>3 DEF QueuedStop, EntrySet, AtBreakeven, Toward
<1>4. CASE TightenTrailing
  <2>1. todo'.part = 0 /\ todo'.stop = TrailingStop(pos, price) /\ pos' = pos
        BY <1>4 DEF TightenTrailing, Decide, Order
  <2>2. pos.sl # NoStop => Toward(pos, TrailingStop(pos, price)) > Toward(pos, pos.sl)
        BY <1>4 DEF TightenTrailing, Trails, IsTighter
  <2>3. Toward(pos, TrailingStop(pos, price)) \in Int /\ Toward(pos, pos.sl) \in Int
        BY <1>a DEF Toward, TrailingStop
  <2> QED BY <2>1, <2>2, <2>3 DEF QueuedStop, EntrySet, Toward
<1>5. CASE MoveToBreakeven
  <2>1. todo'.part = 0 /\ todo'.stop = pos.entry /\ pos' = pos
        BY <1>5 DEF MoveToBreakeven, Decide, Order
  <2>2. pos.sl # NoStop => Toward(pos, pos.entry) >= Toward(pos, pos.sl)
        BY <1>5, <1>a DEF MoveToBreakeven, BreakevenDue, AtBreakeven, Toward
  <2> QED BY <2>1, <2>2 DEF QueuedStop, EntrySet, Toward
<1>6. CASE NothingToDo
      BY <1>6, <1>b DEF NothingToDo, Decide, QueuedStop, EntrySet
<1>7. CASE SendClose
  <2>1. pos'.entry = pos.entry
        BY <1>7 DEF SendClose, Filled, Refused, Gone, Typed, TypeOK, Position
  <2>2. todo' = Nothing
        BY <1>7 DEF SendClose
  <2> QED BY <2>1, <2>2, <1>b DEF QueuedStop, EntrySet
<1>8. CASE SendPartial
  <2>1. /\ pos'.entry = pos.entry /\ pos'.sl = pos.sl
        /\ pos'.long = pos.long /\ pos'.open = pos.open
        BY <1>8 DEF SendPartial, Filled, Without, Refused, Gone, Typed, TypeOK, Position
  <2>2. todo'.part = 0 /\ todo'.stop = todo.stop /\ touched' = touched
        BY <1>8 DEF SendPartial, operator, Typed, TypeOK, Actions
  <2> QED BY <2>1, <2>2 DEF QueuedStop, EntrySet, Toward
<1>9. CASE SendStop
  <2>1. todo'.part = 0 /\ todo'.stop = NoStop
        BY <1>9 DEF SendStop, Typed, TypeOK, Actions
  <2> QED BY <1>9, <2>1, SendStopEffect DEF QueuedStop, EntrySet
<1>10. CASE PriceMoves
  <2>1. pos'.entry = pos.entry /\ (pos'.open => pos' = pos) /\ UNCHANGED <<todo, touched>>
        BY <1>10 DEF PriceMoves, operator, Typed, TypeOK, Position
  <2> QED BY <2>1 DEF QueuedStop, EntrySet
<1>11. CASE HourChanges
      BY <1>11 DEF HourChanges, operator, QueuedStop, EntrySet
<1>12. CASE GetsOld
      BY <1>12 DEF GetsOld, operator, QueuedStop, EntrySet
<1>13. CASE ManualStop
  <2>1. pos'.entry = pos.entry /\ pos'.open = pos.open /\ todo' = todo /\ touched'
        BY <1>13 DEF ManualStop, Typed, TypeOK, Position
  <2> QED BY <2>1 DEF QueuedStop, EntrySet
<1>14. CASE UNCHANGED vars
      BY <1>14 DEF vars, QueuedStop, EntrySet
<1> QED BY <1>2, <1>3, <1>4, <1>5, <1>6, <1>7, <1>8, <1>9, <1>10, <1>11, <1>12, <1>13, <1>14
        DEF Next

LEMMA InitQueued == Init => QueuedStop /\ EntrySet
<1> SUFFICES ASSUME Init PROVE QueuedStop /\ EntrySet
    OBVIOUS
<1>1. todo.stop = NoStop /\ todo.part = 0
      BY DEF Init, Nothing, Order
<1>2. pos.entry = price /\ price # NoStop
      BY DEF Init
<1> QED BY <1>1, <1>2 DEF QueuedStop, EntrySet

(* A step from such a state does not widen a stop *)
LEMMA StepTightens ==
    ASSUME Typed, QueuedStop, SendStop, ~touched, pos.sl # NoStop
    PROVE  Toward(pos, pos'.sl) >= Toward(pos, pos.sl)
<1>1. pos.sl \in Int /\ todo.stop \in Int /\ todo.stop # NoStop
      BY DEF Typed, TypeOK, Position, Actions, SendStop
<1> QED BY <1>1, SendStopEffect DEF QueuedStop, Toward

(* The engine never sends the broker a stop that is further from the       *)
(* market than the one the position has, unless the operator has moved     *)
(* that one since the manager looked.                                      *)
THEOREM StopsOnlyTighten == Spec => StopNeverWidens
<1> DEFINE Inv == Typed /\ QueuedStop /\ EntrySet
           Step == (SendStop /\ ~touched /\ pos.sl # NoStop)
                       => Toward(pos, pos'.sl) >= Toward(pos, pos.sl)
<1>1. Init => Inv
      BY InitType, InitQueued
<1>2. Inv /\ [Next]_vars => Inv'
      BY NextType, NextQueued
<1>3. Inv /\ [Next]_vars => [Step]_vars
      BY StepTightens
<1> HIDE DEF Inv, Step
<1>4. Spec => [][Step]_vars
      BY <1>1, <1>2, <1>3, PTL DEF Spec
<1> QED BY <1>4 DEF StopNeverWidens, Step

----------------------------------------------------------------------------
(* Repeated partial closes *)

LEMMA NextSecured ==
    ASSUME MoveBeAfterPartial, Typed, QueuedStop, EntrySet, PartialsSecured, [Next]_vars
    PROVE  PartialsSecured'
<1>a. /\ pos.entry \in Int /\ pos.sl \in Int /\ price \in Int
      /\ pos.long \in BOOLEAN /\ todo.stop \in Int /\ todo.part \in Nat
      /\ partials \in Nat /\ refused \in Nat /\ manual \in Nat /\ touched \in BOOLEAN
      BY DEF Typed, TypeOK, Position, Actions
<1>b. Nothing.part = 0 /\ Nothing.stop = NoStop
      BY DEF Nothing, Order
<1>c. ASSUME NEW a, Idle, Decide(a), a.part > 0 => ~AtBreakeven(pos)
      PROVE  PartialsSecured'
  <2>1. UNCHANGED <<pos, partials, refused, manual>> /\ todo = Nothing
        BY <1>c DEF Decide, Idle
  <2>2. todo' = a /\ ~touched'
        BY <1>c DEF Decide
  <2>3. Secured => AtBreakeven(pos)
        BY <2>1, <1>b DEF Secured
  <2>4. AtBreakeven(pos) => Secured' /\ ~(todo'.part > 0)
        BY <1>c, <2>1, <2>2 DEF Secured, AtBreakeven, Toward
  <2> QED BY <2>1, <2>2, <2>3, <2>4 DEF PartialsSecured
<1>1. CASE CloseFull
      BY <1>1, <1>c DEF CloseFull, Closing
<1>2. CASE PartialClose
      BY <1>2, <1>c DEF PartialClose, PartialTaken, PartialDue, Soft
<1>3. CASE TightenTrailing
      BY <1>3, <1>c DEF TightenTrailing, Soft, Order
<1>4. CASE MoveToBreakeven
      BY <1>4, <1>c DEF MoveToBreakeven, Soft, Order
<1>5. CASE NothingToDo
      BY <1>5, <1>b, <1>c DEF NothingToDo
<1>7. CASE SendClose
  <2>0. UNCHANGED <<partials, manual, touched>> /\ todo' = Nothing
        BY <1>7 DEF SendClose, operator
  <2>1. CASE pos.open /\ Filled([pos EXCEPT !.open = FALSE])
    <3>1. ~pos'.open /\ refused' = refused
          BY <2>1 DEF Filled, Typed, TypeOK, Position
    <3> QED BY <2>0, <3>1 DEF PartialsSecured
  <2>2. CASE pos.open /\ Refused
    <3>1. refused' = refused + 1
          BY <2>2 DEF Refused
    <3> QED BY <2>0, <3>1, <1>a, <1>b DEF PartialsSecured
  <2>3. CASE Gone
    <3>1. ~pos'.open /\ refused' = refused
          BY <2>3 DEF Gone
    <3> QED BY <2>0, <3>1 DEF PartialsSecured
  <2> QED BY <1>7, <2>1, <2>2, <2>3 DEF SendClose
<1>8. CASE SendPartial
  <2>0. /\ todo.part > 0 /\ todo'.part = 0 /\ todo'.stop = todo.stop
        /\ manual' = manual /\ touched' = touched
        BY <1>8 DEF SendPartial, operator, Typed, TypeOK, Actions
  <2>1. CASE pos.open /\ Filled(Without(todo.part)) /\ partials' = partials + 1
    <3>1. partials <= refused + manual /\ (touched => partials < refused + manual)
          BY <2>0, <2>1 DEF PartialsSecured
    <3>2. pos'.long = pos.long /\ pos'.entry = pos.entry /\ refused' = refused
          BY <2>1 DEF Filled, Without, Typed, TypeOK, Position
    <3>3. todo.stop = pos.entry
          BY <2>0, <2>1 DEF QueuedStop
    <3>4. Secured'
      <4>1. Toward(pos', todo'.stop) = Toward(pos', pos'.entry)
            BY <2>0, <3>2, <3>3
      <4>2. Toward(pos', pos'.entry) \in Int
            BY <3>2, <1>a DEF Toward
      <4>3. todo'.stop # NoStop
            BY <2>0, <3>3 DEF EntrySet
      <4> QED BY <4>1, <4>2, <4>3, <2>0 DEF Secured
    <3> QED BY <2>0, <2>1, <3>1, <3>2, <3>4, <1>a DEF PartialsSecured
  <2>2. CASE pos.open /\ UNCHANGED partials /\ Refused
    <3>1. refused' = refused + 1 /\ partials' = partials
          BY <2>2 DEF Refused
    <3> QED BY <2>0, <3>1, <1>a DEF PartialsSecured
  <2>3. CASE UNCHANGED partials /\ Gone
    <3>1. ~pos'.open /\ refused' = refused /\ partials' = partials
          BY <2>3 DEF Gone
    <3> QED BY <2>0, <3>1 DEF PartialsSecured
  <2> QED BY <1>8, <2>1, <2>2, <2>3 DEF SendPartial
<1>9. CASE SendStop
  <2>0. /\ todo.part = 0 /\ todo.stop # NoStop
        /\ todo'.part = 0 /\ UNCHANGED <<partials, manual, touched>>
        BY <1>9 DEF SendStop, operator, Typed, TypeOK, Actions
  <2>1. CASE pos.open /\ Filled([pos EXCEPT !.sl = todo.stop])
    <3>1. /\ pos'.long = pos.long /\ pos'.entry = pos.entry /\ pos'.sl = todo.stop
          /\ pos'.open /\ refused' = refused
          BY <2>1 DEF Filled, Typed, TypeOK, Position
    <3>2. CASE touched
          BY <2>0, <2>1, <3>1, <3>2 DEF PartialsSecured
    <3>3. CASE ~touched
      <4>1. Secured => AtBreakeven(pos')
        <5>1. CASE AtBreakeven(pos)
          <6>1. Toward(pos, todo.stop) >= Toward(pos, pos.sl)
                BY <2>0, <2>1, <3>3, <5>1 DEF QueuedStop, AtBreakeven
          <6> QED BY <2>0, <3>1, <5>1, <6>1, <1>a DEF AtBreakeven, Toward
        <5>2. CASE Toward(pos, todo.stop) >= Toward(pos, pos.entry)
              BY <2>0, <3>1, <5>2 DEF AtBreakeven, Toward
        <5> QED BY <5>1, <5>2 DEF Secured
      <4>2. Secured => Secured'
            BY <4>1 DEF Secured, AtBreakeven, Toward
      <4> QED BY <2>0, <2>1, <3>1, <3>3, <4>2 DEF PartialsSecured
    <3> QED BY <3>2, <3>3, <1>a
  <2>2. CASE pos.open /\ Refused
    <3>1. refused' = refused + 1
          BY <2>2 DEF Refused
    <3> QED BY <2>0, <3>1, <1>a DEF PartialsSecured
  <2>3. CASE Gone
    <3>1. ~pos'.open /\ refused' = refused
          BY <2>3 DEF Gone
    <3> QED BY <2>0, <3>1 DEF PartialsSecured
  <2> QED BY <1>9, <2>1, <2>2, <2>3 DEF SendStop
<1>10. CASE PriceMoves
  <2>1. /\ pos'.open => pos' = pos
        /\ UNCHANGED <<todo, partials, refused, manual, touched>>
        BY <1>10 DEF PriceMoves, operator, Typed, TypeOK, Position
  <2> QED BY <2>1 DEF PartialsSecured, Secured, AtBreakeven, Toward
<1>11. CASE HourChanges
      BY <1>11 DEF HourChanges, operator, PartialsSecured, Secured, AtBreakeven, Toward
<1>12. CASE GetsOld
      BY <1>12 DEF GetsOld, operator, PartialsSecured, Secured, AtBreakeven, Toward
<1>13. CASE ManualStop
  <2>1. /\ pos'.open = pos.open /\ manual' = manual + 1 /\ touched'
        /\ UNCHANGED <<todo, partials, refused>>
        BY <1>13 DEF ManualStop, Typed, TypeOK, Position
  <2> QED BY <2>1, <1>a DEF PartialsSecured
<1>14. CASE UNCHANGED vars
      BY <1>14 DEF vars, PartialsSecured, Secured, AtBreakeven, Toward
<1> QED BY <1>1, <1>2, <1>3, <1>4, <1>5, <1>7, <1>8, <1>9, <1>10, <1>11, <1>12, <1>13, <1>14
        DEF Next

(* With move_to_be_after_partial on, a position is partially closed again  *)
(* only after a request has failed or the operator has moved its stop.     *)
THEOREM PartialsAreRemembered ==
    ASSUME MoveBeAfterPartial
    PROVE  Spec => []PartialsFollowRefusals
<1> DEFINE Inv == Typed /\ QueuedStop /\ EntrySet /\ PartialsSecured
<1>1. Init => Inv
  <2>1. Init => PartialsSecured
    <3> SUFFICES ASSUME Init PROVE PartialsSecured
        OBVIOUS
    <3>1. todo.part = 0 /\ ~touched /\ partials = 0 /\ refused = 0 /\ manual = 0
          BY DEF Init, Nothing, Order
    <3> QED BY <3>1 DEF PartialsSecured
  <2> QED BY <2>1, InitType, InitQueued
<1>2. Inv /\ [Next]_vars => Inv'
      BY NextType, NextQueued, NextSecured
<1>3. Inv => PartialsFollowRefusals
      BY DEF PartialsSecured, PartialsFollowRefusals
<1> QED BY <1>1, <1>2, <1>3, PTL DEF Spec
=============================================================================
