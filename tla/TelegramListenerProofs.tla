----------------------- MODULE TelegramListenerProofs -----------------------
(***************************************************************************)
(* Proofs about TelegramListener, for all texts, bounds and times to live: *)
(* its types, and that commands are executed only when confirmed and once  *)
(* in the life of a process.                                               *)
(***************************************************************************)
EXTENDS TelegramListener, SequenceTheorems, TLAPS

USE ListenerAssumption DEF ListenerAssumption

Message == [text: Texts, at: 0..now]
Pending == [cmd: Destructive \cup {NoCommand}, expires: 0..now + TTL]

----------------------------------------------------------------------------
(* Types *)

LEMMA InitType == Init => TypeOK
<1> SUFFICES ASSUME Init PROVE TypeOK
  OBVIOUS
<1>1. inbox \in Seq(Message) /\ Len(inbox) = 0 /\ batch \in Seq(1..Len(inbox))
  BY EmptySeq DEF Init
<1>2. pending \in Pending
  BY DEF Init, NoPending, Pending
<1> QED
  BY <1>1, <1>2 DEF Init, TypeOK, Message, Pending

(* The domain of a longer history, and of a later time *)
LEMMA LaterMessages ==
  ASSUME NEW m, NEW n, n >= m, m \in Nat, n \in Nat,
         NEW s \in Seq([text: Texts, at: 0..m])
  PROVE  s \in Seq([text: Texts, at: 0..n])
<1>1. [text: Texts, at: 0..m] \subseteq [text: Texts, at: 0..n]
  OBVIOUS
<1> QED
  BY <1>1, SeqMonotonic

LEMMA LongerBatch ==
  ASSUME NEW m \in Nat, NEW n \in Nat, n >= m, NEW s \in Seq(1..m)
  PROVE  s \in Seq(1..n)
<1>1. 1..m \subseteq 1..n
  OBVIOUS
<1> QED
  BY <1>1, SeqMonotonic

(* What TypeOK says of the numbers *)
LEMMA Numbers ==
  ASSUME TypeOK
  PROVE  /\ inbox \in Seq(Message) /\ Len(inbox) \in Nat /\ Len(inbox) <= MaxUpdates
         /\ now \in Nat /\ crashes \in Nat /\ acked \in Nat /\ acked <= Len(inbox)
         /\ pending \in Pending /\ pending.expires \in Nat
         /\ batch \in Seq(1..Len(inbox)) /\ offset \in Nat /\ Len(batch) \in Nat
<1>1. inbox \in Seq(Message) /\ pending \in Pending
  BY DEF TypeOK, Message, Pending
<1>2. Len(inbox) \in Nat /\ Len(batch) \in Nat
  BY LenProperties DEF TypeOK
<1>3. now \in Nat /\ crashes \in Nat
  BY DEF TypeOK
<1>4. pending.expires \in Nat
  BY <1>1, <1>3 DEF Pending
<1> QED
  BY <1>1, <1>2, <1>3, <1>4 DEF TypeOK

(* Dispatching an update takes the first of the batch *)
LEMMA TakeType ==
  ASSUME TypeOK, Take, inbox' = inbox
  PROVE  /\ Head(batch) \in 1..Len(inbox) /\ Head(batch) \in Updates
         /\ Head(batch) = batch[1] /\ Len(batch) \in Nat \ {0}
         /\ offset' = Head(batch) + 1 /\ batch' = Tail(batch)
         /\ batch' \in Seq(1..Len(inbox)) /\ Len(batch') = Len(batch) - 1
         /\ \A i \in 1..Len(batch'): batch'[i] = batch[i + 1]
         /\ answered' \subseteq 1..Len(inbox)
         /\ inbox[Head(batch)] \in Message /\ offset' \in Nat
<1>1. batch \in Seq(1..Len(inbox)) /\ batch # <<>> /\ Len(inbox) \in Nat /\ Len(inbox) <= MaxUpdates
  BY Numbers DEF Take
<1>2. Head(batch) \in 1..Len(inbox) /\ Head(batch) \in Updates
  BY <1>1, HeadTailProperties DEF Updates
<1>3. inbox[Head(batch)] \in Message
  BY <1>2, ElementOfSeq, Numbers
<1>4. offset' = Head(batch) + 1 /\ batch' = Tail(batch) /\ answered' \subseteq 1..Len(inbox)
  BY <1>2 DEF Take, TypeOK
<1>5. Tail(batch) \in Seq(1..Len(inbox)) /\ Len(Tail(batch)) = Len(batch) - 1
  BY <1>1, HeadTailProperties
<1>6. /\ Head(batch) = batch[1] /\ Len(batch) \in Nat \ {0}
      /\ \A i \in 1..Len(Tail(batch)): Tail(batch)[i] = batch[i + 1]
  BY <1>1, HeadTailProperties, EmptySeq, LenProperties
<1>7. offset' \in Nat
  BY <1>2, <1>4
<1> QED
  BY <1>2, <1>3, <1>4, <1>5, <1>6, <1>7

LEMMA DropType ==
  ASSUME TypeOK, offset > 0 => offset - 1 <= Len(inbox)
  PROVE  Dropped \in 0..Len(inbox)
<1>1. acked \in 0..Len(inbox) /\ offset \in Nat /\ Len(inbox) \in Nat
  BY Numbers DEF TypeOK
<1> QED
  BY <1>1 DEF Dropped

LEMMA BatchType ==
  ASSUME NEW d \in Nat, NEW n \in Nat, d <= n
  PROVE  LET b == [i \in 1..(n - d) |-> d + i]
         IN b \in Seq(1..n) /\ Len(b) = n - d
<1> DEFINE b == [i \in 1..(n - d) |-> d + i]
<1>1. n - d \in Nat /\ \A i \in 1..(n - d): d + i \in 1..n
  OBVIOUS
<1>2. b \in Seq(1..n)
  BY <1>1, IsASeq
<1>3. Len(b) = n - d
  BY <1>1, <1>2, LenProperties
<1> QED
  BY <1>2, <1>3

LEMMA NextType == TypeOK /\ BatchGoesOn /\ [Next]_vars => TypeOK'
<1> SUFFICES ASSUME TypeOK, BatchGoesOn, [Next]_vars PROVE TypeOK'
  OBVIOUS
<1> USE DEF listener, bounds, history
<1>n. /\ inbox \in Seq(Message) /\ Len(inbox) \in Nat /\ Len(inbox) <= MaxUpdates
      /\ now \in Nat /\ now <= MaxTime /\ crashes \in Nat /\ batch \in Seq(1..Len(inbox))
      /\ pending \in Pending /\ offset \in Nat
  BY Numbers DEF TypeOK
<1>1. CASE UNCHANGED vars
  BY <1>1 DEF TypeOK, vars
<1>2. ASSUME NEW text \in Texts, Send(text) PROVE TypeOK'
  <2> DEFINE e == [text |-> text, at |-> now]
  <2>1. e \in Message
    BY <1>n DEF Message
  <2>2. inbox' \in Seq(Message) /\ Len(inbox') = Len(inbox) + 1
    BY <1>2, <1>n, <2>1, AppendProperties DEF Send
  <2>3. batch' \in Seq(1..Len(inbox'))
    BY <1>2, <1>n, <2>2, LongerBatch DEF Send
  <2>4. answered' \subseteq 1..Len(inbox') /\ acked' \in 0..Len(inbox')
    BY <1>2, <1>n, <2>2 DEF Send, TypeOK
  <2> QED
    BY <1>2, <1>n, <2>2, <2>3, <2>4 DEF Send, TypeOK, Message
<1>3. CASE TimePasses
  <2>1. now' \in Nat /\ now' >= now /\ now' \in 0..MaxTime
    BY <1>3, <1>n DEF TimePasses
  <2>2. inbox' \in Seq([text: Texts, at: 0..now'])
    BY <1>3, <1>n, <2>1, LaterMessages DEF TimePasses, Message
  <2>3. pending' \in [cmd: Destructive \cup {NoCommand}, expires: 0..now' + TTL]
    BY <1>3, <1>n, <2>1 DEF TimePasses, Pending
  <2>4. prompted' \in [Updates -> {Never} \cup 0..now']
    BY <1>3, <1>n, <2>1 DEF TimePasses, TypeOK
  <2> QED
    BY <1>3, <2>1, <2>2, <2>3, <2>4 DEF TimePasses, TypeOK
<1>d. Dropped \in 0..Len(inbox)
  BY <1>n, DropType DEF BatchGoesOn
<1>4. CASE Poll
  <2>1. batch' \in Seq(1..Len(inbox))
    BY <1>4, <1>d, <1>n, BatchType DEF Poll
  <2> QED
    BY <1>4, <1>d, <2>1 DEF Poll, TypeOK
<1>5. CASE PollFails
  BY <1>5, <1>d DEF PollFails, TypeOK
<1>6. CASE Crash
  <2>1. crashes' \in 0..MaxCrashes
    BY <1>6, <1>n DEF Crash
  <2>2. batch' \in Seq(1..Len(inbox))
    BY <1>6, EmptySeq DEF Crash
  <2>3. pending' \in [cmd: Destructive \cup {NoCommand}, expires: 0..now + TTL]
    BY <1>6, <1>n DEF Crash, NoPending
  <2> QED
    BY <1>6, <2>1, <2>2, <2>3 DEF Crash, TypeOK
<1>7. CASE Restart
  BY <1>7 DEF Restart, TypeOK
<1>8. CASE Dispatch \/ ExecuteRaises
  <2>1. Take /\ inbox' = inbox /\ UNCHANGED <<acked, up, now, crashes>> /\ alive' \in BOOLEAN
    BY <1>8 DEF Dispatch, Ignore, Prompt, Execute, Confirmed, Cancel, ExecuteSafe, ExecuteRaises, TypeOK
  <2>2. /\ Head(batch) \in Updates /\ offset' \in Nat /\ batch' \in Seq(1..Len(inbox))
        /\ answered' \subseteq 1..Len(inbox)
    BY <2>1, TakeType
  <2>3. pending' \in [cmd: Destructive \cup {NoCommand}, expires: 0..now + TTL]
    <3>1. CASE Prompt
      BY <3>1, <1>n DEF Prompt
    <3>2. CASE ~Prompt
      BY <1>8, <3>2, <1>n DEF Dispatch, Ignore, Execute, Confirmed, Cancel, ExecuteSafe, ExecuteRaises,
           Pending, NoPending
    <3> QED
      BY <3>1, <3>2
  <2>4. prompted' \in [Updates -> {Never} \cup 0..now]
    <3>1. CASE Prompt
      BY <3>1, <1>n, <2>2 DEF Prompt, TypeOK
    <3>2. CASE ~Prompt
      BY <1>8, <3>2 DEF Dispatch, Ignore, Execute, Cancel, ExecuteSafe, ExecuteRaises, TypeOK
    <3> QED
      BY <3>1, <3>2
  <2>5. executed' \in [Updates -> Nat]
    <3>1. CASE Execute
      BY <3>1, <2>2 DEF Execute, TypeOK
    <3>2. CASE ~Execute
      BY <1>8, <3>2 DEF Dispatch, Ignore, Prompt, Cancel, ExecuteSafe, ExecuteRaises, TypeOK
    <3> QED
      BY <3>1, <3>2
  <2> QED
    BY <2>1, <2>2, <2>3, <2>4, <2>5 DEF TypeOK
<1> QED
  BY <1>1, <1>2, <1>3, <1>4, <1>5, <1>6, <1>7, <1>8 DEF Next

----------------------------------------------------------------------------
(* Batches *)

LEMMA InitBatch == Init => BatchGoesOn
BY EmptySeq DEF Init, BatchGoesOn, NextUp

(* The update that is taken is the next one *)
LEMMA TakeNext ==
  ASSUME TypeOK, BatchGoesOn, Take, inbox' = inbox
  PROVE  Head(batch) = NextUp
<1>1. Head(batch) = batch[1] /\ Len(batch) \in Nat \ {0}
  BY TakeType
<1>2. batch[1] = NextUp + 1 - 1 /\ NextUp \in Nat
  BY <1>1, Numbers DEF BatchGoesOn, NextUp
<1> QED
  BY <1>1, <1>2

LEMMA NextBatch == TypeOK /\ BatchGoesOn /\ [Next]_vars => BatchGoesOn'
<1> SUFFICES ASSUME TypeOK, BatchGoesOn, [Next]_vars PROVE BatchGoesOn'
  OBVIOUS
<1> USE DEF listener, bounds, history
<1>n. /\ inbox \in Seq(Message) /\ Len(inbox) \in Nat /\ batch \in Seq(1..Len(inbox))
      /\ Len(batch) \in Nat /\ offset \in Nat /\ acked \in Nat /\ acked <= Len(inbox) /\ now \in Nat
  BY Numbers
<1>1. CASE UNCHANGED <<offset, acked, batch, inbox>>
  BY <1>1 DEF BatchGoesOn, NextUp
<1>2. ASSUME NEW text \in Texts, Send(text) PROVE BatchGoesOn'
  <2> DEFINE e == [text |-> text, at |-> now]
  <2>1. e \in Message
    BY <1>n DEF Message
  <2>2. Len(inbox') = Len(inbox) + 1
    BY <1>2, <1>n, <2>1, AppendProperties DEF Send
  <2> QED
    BY <1>2, <1>n, <2>2 DEF Send, BatchGoesOn, NextUp
<1>d. /\ Dropped \in Nat /\ Dropped <= Len(inbox) /\ NextUp = Dropped + 1
      /\ offset > 0 => Dropped < offset /\ NextUp = offset
  BY <1>n DEF Dropped, NextUp, BatchGoesOn
<1>4. CASE Poll
  <2>1. Len(batch') = Len(inbox) - Dropped
    BY <1>4, <1>d, <1>n, BatchType DEF Poll
  <2>2. \A i \in 1..Len(batch'): batch'[i] = Dropped + i
    BY <1>4, <2>1 DEF Poll
  <2>3. NextUp' = NextUp
    BY <1>4, <1>d, <1>n DEF Poll, NextUp
  <2>4. \A i \in 1..Len(batch'): batch'[i] = NextUp' + i - 1
    BY <1>n, <1>d, <2>1, <2>2, <2>3
  <2>5. offset' > 0 => acked' < offset' /\ offset' - 1 <= Len(inbox')
    BY <1>4, <1>d DEF Poll, BatchGoesOn
  <2> QED
    BY <2>4, <2>5 DEF BatchGoesOn
<1>5. CASE PollFails
  <2>1. Len(batch) = 0 /\ batch' = batch
    BY <1>5, EmptySeq DEF PollFails
  <2>2. offset' > 0 => acked' < offset' /\ offset' - 1 <= Len(inbox')
    BY <1>5, <1>d DEF PollFails, BatchGoesOn
  <2> QED
    BY <2>1, <2>2 DEF BatchGoesOn
<1>6. CASE Crash
  <2>1. Len(batch') = 0 /\ offset' = 0
    BY <1>6, EmptySeq DEF Crash
  <2> QED
    BY <2>1 DEF BatchGoesOn
<1>8. CASE Dispatch \/ ExecuteRaises
  <2>1. Take /\ inbox' = inbox /\ acked' = acked
    BY <1>8 DEF Dispatch, Ignore, Prompt, Execute, Confirmed, Cancel, ExecuteSafe, ExecuteRaises
  <2>2. /\ Head(batch) = NextUp /\ Head(batch) \in 1..Len(inbox) /\ offset' = Head(batch) + 1
        /\ Len(batch') = Len(batch) - 1 /\ \A i \in 1..Len(batch'): batch'[i] = batch[i + 1]
    BY <2>1, TakeType, TakeNext
  <2>3. NextUp' = NextUp + 1 /\ NextUp \in Nat
    BY <2>2 DEF NextUp
  <2>4. \A i \in 1..Len(batch'): batch'[i] = NextUp' + i - 1
    <3> SUFFICES ASSUME NEW i \in 1..Len(batch') PROVE batch'[i] = NextUp' + i - 1
      OBVIOUS
    <3>1. i + 1 \in 1..Len(batch) /\ batch'[i] = batch[i + 1]
      BY <1>n, <2>2
    <3>2. batch[i + 1] = NextUp + (i + 1) - 1
      BY <3>1 DEF BatchGoesOn
    <3> QED
      BY <3>1, <3>2, <2>3
  <2>5. acked < offset'
    BY <1>n, <2>2 DEF NextUp, BatchGoesOn
  <2> QED
    BY <2>1, <2>2, <2>4, <2>5 DEF BatchGoesOn
<1> QED
  BY <1>1, <1>2, <1>4, <1>5, <1>6, <1>8 DEF Next, vars, TimePasses, Restart

----------------------------------------------------------------------------
(* Executions *)

LEMMA InitExecuted == Init => ExecutedBehind
BY DEF Init, ExecutedBehind

(* The listener goes forward: what it takes now it has not taken before    *)
LEMMA TakeForward ==
  ASSUME TypeOK, BatchGoesOn, Take, inbox' = inbox
  PROVE  /\ Head(batch) >= offset /\ offset' = Head(batch) + 1
         /\ offset > 0 => Head(batch) = offset
         /\ Head(batch) \in Updates /\ Head(batch) \in 1..Len(inbox) /\ offset \in Nat
<1>1. Head(batch) = NextUp /\ Head(batch) \in 1..Len(inbox) /\ Head(batch) \in Updates
  BY TakeNext, TakeType
<1>2. offset \in Nat /\ acked \in Nat
  BY Numbers
<1> QED
  BY <1>1, <1>2 DEF NextUp, Take

LEMMA NextExecuted == TypeOK /\ BatchGoesOn /\ ExecutedBehind /\ [Next]_vars => ExecutedBehind'
<1> SUFFICES ASSUME TypeOK, BatchGoesOn, ExecutedBehind, [Next]_vars,
                    NEW u \in Updates
             PROVE  executed'[u] <= crashes' + (IF u < offset' THEN 1 ELSE 0)
  BY DEF ExecutedBehind
<1> USE DEF listener, bounds, history
<1>n. crashes \in Nat /\ offset \in Nat /\ u \in Nat /\ executed[u] \in Nat
  BY Numbers DEF TypeOK, Updates
<1>i. executed[u] <= crashes + (IF u < offset THEN 1 ELSE 0)
  BY DEF ExecutedBehind
<1>1. CASE UNCHANGED <<offset, crashes, executed>>
  BY <1>1, <1>i
<1>2. CASE Crash
  BY <1>2, <1>i, <1>n DEF Crash
<1>3. CASE Execute
  <2>1. Take /\ inbox' = inbox /\ crashes' = crashes
    BY <1>3 DEF Execute, Confirmed
  <2>2. /\ Head(batch) >= offset /\ offset' = Head(batch) + 1 /\ Head(batch) \in Updates
        /\ offset > 0 => Head(batch) = offset
    BY <2>1, TakeForward
  <2>3. Head(batch) \in Nat
    BY <2>2 DEF Updates
  <2>4. CASE u = Head(batch)
    <3>1. executed'[u] = executed[u] + 1
      BY <1>3, <2>4 DEF Execute, TypeOK
    <3> QED
      BY <3>1, <2>1, <2>2, <2>4, <1>i, <1>n
  <2>5. CASE u # Head(batch)
    <3>1. executed'[u] = executed[u]
      BY <1>3, <2>5 DEF Execute, TypeOK
    <3> QED
      BY <3>1, <2>1, <2>2, <2>3, <1>i, <1>n
  <2> QED
    BY <2>4, <2>5
<1>4. CASE (Dispatch \/ ExecuteRaises) /\ ~Execute
  <2>1. Take /\ inbox' = inbox /\ crashes' = crashes /\ executed' = executed
    BY <1>4 DEF Dispatch, Ignore, Prompt, Confirmed, Cancel, ExecuteSafe, ExecuteRaises
  <2>2. /\ Head(batch) >= offset /\ offset' = Head(batch) + 1 /\ Head(batch) \in Updates
    BY <2>1, TakeForward
  <2>3. Head(batch) \in Nat
    BY <2>2 DEF Updates
  <2> QED
    BY <2>1, <2>2, <2>3, <1>i, <1>n
<1> QED
  BY <1>1, <1>2, <1>3, <1>4 DEF Next, Send, TimePasses, Poll, PollFails, Restart, vars

----------------------------------------------------------------------------
(* Confirmations *)

LEMMA InitPending == Init => PendingIsLast
BY DEF Init, PendingIsLast

LEMMA NextPending ==
  TypeOK /\ BatchGoesOn /\ PendingIsLast /\ [Next]_vars => PendingIsLast'
<1> SUFFICES ASSUME TypeOK, BatchGoesOn, PendingIsLast, [Next]_vars, pending' # NoPending
             PROVE  \E p \in 1..Len(inbox'): PendingFor(p)'
  BY DEF PendingIsLast, NoPending
<1> USE DEF listener, bounds, history
<1>n. inbox \in Seq(Message) /\ Len(inbox) \in Nat /\ offset \in Nat /\ now \in Nat
  BY Numbers
<1>1. CASE UNCHANGED <<offset, pending, prompted, inbox>>
  BY <1>1 DEF PendingIsLast, PendingFor
<1>2. ASSUME NEW text \in Texts, Send(text) PROVE \E p \in 1..Len(inbox'): PendingFor(p)'
  <2> DEFINE e == [text |-> text, at |-> now]
  <2>1. e \in Message
    BY <1>n DEF Message
  <2>2. Len(inbox') = Len(inbox) + 1 /\ \A v \in 1..Len(inbox): inbox'[v] = inbox[v]
    BY <1>2, <1>n, <2>1, AppendProperties DEF Send
  <2>3. UNCHANGED <<offset, pending, prompted>>
    BY <1>2 DEF Send
  <2>4. PICK p \in 1..Len(inbox): PendingFor(p)
    BY <2>3 DEF PendingIsLast
  <2>5. \A v \in p + 1..offset - 1: v \in 1..Len(inbox)
    BY <1>n, <2>4 DEF BatchGoesOn, PendingFor
  <2>6. PendingFor(p)'
    BY <2>2, <2>3, <2>4, <2>5 DEF PendingFor
  <2> QED
    BY <1>n, <2>2, <2>6
<1>3. CASE Prompt
  <2>1. Take /\ inbox' = inbox
    BY <1>3 DEF Prompt
  <2>2. PICK h \in 1..Len(inbox): h = Head(batch) /\ h \in Updates /\ offset' = h + 1
    BY <2>1, TakeForward
  <2>3. prompted'[h] = now /\ pending'.expires = now + TTL
    BY <1>3, <2>2 DEF Prompt, TypeOK
  <2>4. inbox'[h].text \in Destructive
    BY <1>3, <2>2 DEF Prompt, Text
  <2>5. PendingFor(h)'
    BY <1>n, <2>2, <2>3, <2>4 DEF PendingFor, Never
  <2> QED
    BY <2>1, <2>2, <2>5
<1>4. CASE Ignore
  <2>1. Take /\ inbox' = inbox /\ UNCHANGED <<pending, prompted>>
    BY <1>4 DEF Ignore
  <2>2. PICK p \in 1..Len(inbox): PendingFor(p)
    BY <2>1 DEF PendingIsLast
  <2>3. offset > 0
    BY <1>n, <2>2 DEF PendingFor
  <2>4. Head(batch) = offset /\ offset' = offset + 1
    BY <2>1, <2>3, TakeForward
  <2>5. inbox[offset].text \in Ignored
    BY <1>4, <2>4 DEF Ignore, Text
  <2>6. \A v \in p + 1..offset' - 1: v \in p + 1..offset - 1 \/ v = offset
    BY <1>n, <2>4
  <2>7. PendingFor(p)'
    BY <1>n, <2>1, <2>2, <2>4, <2>5, <2>6 DEF PendingFor
  <2> QED
    BY <2>1, <2>7
<1> QED
  BY <1>1, <1>2, <1>3, <1>4 DEF Next, TimePasses, Poll, PollFails, Dispatch, Execute, ExecuteRaises,
     Confirmed, Cancel, ExecuteSafe, Crash, Restart, vars

(* The last text before an update, when there is one with only ignored     *)
(* updates after it                                                        *)
LEMMA LastBefore ==
  ASSUME NEW u \in Nat, NEW p \in 1..u - 1, inbox[p].text \notin Ignored,
         \A v \in p + 1..u - 1: inbox[v].text \in Ignored
  PROVE  Before(u) = p
<1> DEFINE texts == {v \in 1..u - 1: inbox[v].text \notin Ignored}
<1>1. p \in texts /\ \A w \in texts: w <= p /\ w \in Nat
  OBVIOUS
<1>2. \A v \in texts: (\A w \in texts: w <= v) => v = p
  BY <1>1
<1>3. (CHOOSE v \in texts: \A w \in texts: w <= v) = p
  BY <1>1, <1>2
<1> QED
  BY <1>1, <1>3 DEF Before

(* Only Execute counts an execution, and it has been confirmed             *)
LEMMA NextConfirmed ==
  ASSUME TypeOK, BatchGoesOn, PendingIsLast, [Next]_vars,
         NEW u \in Updates, executed'[u] # executed[u]
  PROVE  /\ inbox[u].text = Yes
         /\ Before(u) # 0 /\ inbox[Before(u)].text \in Destructive
         /\ prompted[Before(u)] # Never /\ now <= prompted[Before(u)] + TTL
<1> USE DEF listener, bounds, history
<1>n. Len(inbox) \in Nat /\ offset \in Nat /\ now \in Nat /\ pending.expires \in Nat
  BY Numbers
<1>1. Execute
  BY DEF Next, Send, TimePasses, Poll, PollFails, Dispatch, Ignore, Prompt, Cancel, ExecuteSafe,
     ExecuteRaises, Crash, Restart, vars
<1>2. Take /\ inbox' = inbox /\ Valid # NoPending /\ Text = Yes
  BY <1>1 DEF Execute, Confirmed
<1>3. u = Head(batch)
  BY <1>1 DEF Execute, TypeOK
<1>4. pending # NoPending /\ now <= pending.expires
  BY <1>2, <1>n DEF Valid
<1>5. PICK p \in 1..Len(inbox): PendingFor(p)
  BY <1>4 DEF PendingIsLast
<1>6. u = offset /\ u \in Nat /\ p \in 1..u - 1
  BY <1>2, <1>3, <1>5, <1>n, TakeForward DEF PendingFor
<1>7. inbox[p].text \in Destructive /\ inbox[p].text \notin Ignored
  BY <1>5 DEF PendingFor
<1>8. Before(u) = p
  BY <1>5, <1>6, <1>7, LastBefore DEF PendingFor
<1> QED
  BY <1>2, <1>3, <1>4, <1>5, <1>6, <1>7, <1>8 DEF PendingFor, Text

----------------------------------------------------------------------------
(* Theorems *)

LEMMA Inductive == Spec => []ListenerInv
<1>1. Init => ListenerInv
  BY InitType, InitBatch, InitExecuted, InitPending DEF ListenerInv
<1>2. ListenerInv /\ [Next]_vars => ListenerInv'
  BY NextType, NextBatch, NextExecuted, NextPending DEF ListenerInv
<1> QED
  BY <1>1, <1>2, PTL DEF Spec

(* The updates, the acknowledgement, the batch and the confirmation keep   *)
(* their types, over failed polls, crashes and restarts.                   *)
THEOREM TypeCorrect == Spec => []TypeOK
<1>1. ListenerInv => TypeOK
  BY DEF ListenerInv
<1> QED
  BY <1>1, Inductive, PTL

(* One "yes" executes its command at most once in the life of a process:   *)
(* what the offset has passed is not polled again until the offset is lost *)
(* with the process.                                                       *)
THEOREM ExecutedOnce == Spec => []OncePerProcess
<1>1. ListenerInv => OncePerProcess
  <2> SUFFICES ASSUME ListenerInv, NEW u \in Updates PROVE executed[u] <= 1 + crashes
    BY DEF OncePerProcess
  <2>1. executed[u] \in Nat /\ crashes \in Nat
    BY Numbers DEF ListenerInv, TypeOK
  <2> QED
    BY <2>1 DEF ListenerInv, ExecutedBehind
<1> QED
  BY <1>1, Inductive, PTL

(* A destructive command is executed only by a "yes" that directly follows *)
(* it among the operator's texts, within TTL of the prompt for it.         *)
THEOREM ExecutedIfConfirmed == Spec => OnlyConfirmed
<1>1. ListenerInv /\ [Next]_vars =>
        [\A u \in Updates: executed'[u] # executed[u] =>
           /\ inbox[u].text = Yes
           /\ Before(u) # 0 /\ inbox[Before(u)].text \in Destructive
           /\ prompted[Before(u)] # Never /\ now <= prompted[Before(u)] + TTL]_vars
  BY NextConfirmed DEF ListenerInv
<1> QED
  BY <1>1, Inductive, PTL DEF Spec, OnlyConfirmed
=============================================================================
