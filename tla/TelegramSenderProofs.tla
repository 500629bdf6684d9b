------------------------ MODULE TelegramSenderProofs ------------------------
(* Proofs about TelegramSender: its types, the order and the rate at which *)
(* messages leave, for every capacity and every refill period.             *)
EXTENDS TelegramSender, TLAPS

USE SenderAssumption DEF SenderAssumption, Sentinel, Nobody

(* The bucket holds at least one token *)
LEMMA BucketHoldsToken == Capacity * Period \in Nat /\ Period <= Capacity * Period
<1>1. \A c, p \in Nat: c * p \in Nat
      OBVIOUS
<1>2. \A c, p \in Nat \ {0}: p <= c * p
      OBVIOUS
<1> QED BY <1>1, <1>2

(* Refilling keeps the tokens, adds none beyond the time that has passed   *)
(* and none above the capacity; a bucket short of a token is not full.     *)
LEMMA RefillBounds ==
    ASSUME TypeOK
    PROVE  /\ Refilled \in 0..Capacity * Period
           /\ tokens <= Refilled /\ Refilled <= tokens + (now - last)
           /\ Refilled < Period => Refilled = tokens + (now - last)
BY BucketHoldsToken DEF TypeOK, Refilled

----------------------------------------------------------------------------
(* Types *)

LEMMA InitType == Init => TypeOK
<1> SUFFICES ASSUME Init PROVE TypeOK
    OBVIOUS
<1>1. \A n \in Nat: n \in 0..n
      OBVIOUS
<1>2. tokens \in 0..Capacity * Period
      BY <1>1, BucketHoldsToken DEF Init
<1>3. last \in 0..now
      BY DEF Init
<1>4. queue \in Seq(Nat) /\ sent \in Seq(Nat)
      BY DEF Init
<1> QED BY <1>2, <1>3, <1>4 DEF Init, TypeOK

(* What is left when the thread ends has its types *)
LEMMA EndsType ==
    ASSUME TypeOK, Ends, queue' \in Seq(Nat),
           UNCHANGED <<bucket, stopping, now, notified, sent>>
    PROVE  TypeOK'
BY DEF TypeOK, Ends, bucket

LEMMA NextType == TypeOK /\ [Next]_vars => TypeOK'
<1> SUFFICES ASSUME TypeOK, [Next]_vars PROVE TypeOK'
    OBVIOUS
<1>1. CASE Notify
      BY <1>1 DEF TypeOK, Notify, bucket
<1>2. CASE Stop
      BY <1>2 DEF TypeOK, Stop, bucket
<1>3. CASE Loop
  <2>1. CASE stopping
        BY <1>3, <2>1, EndsType DEF TypeOK, Loop
  <2>2. CASE ~stopping
        BY <1>3, <2>2 DEF TypeOK, Loop, bucket
  <2> QED BY <2>1, <2>2
<1>4. CASE GetNothing
      BY <1>4 DEF TypeOK, GetNothing, bucket
<1>5. CASE GetSentinel
  <2>1. Ends /\ queue' \in Seq(Nat) /\ UNCHANGED <<bucket, stopping, now, notified, sent>>
        BY <1>5 DEF TypeOK, GetSentinel
  <2> QED BY <2>1, EndsType
<1>6. CASE GetMessage
  <2>1. /\ held' \in Nat /\ queue' \in Seq(Nat)
        /\ UNCHANGED <<stopping, now, notified, sent>>
        BY <1>6 DEF TypeOK, GetMessage
  <2>2. CASE Pay
    <3>1. tokens' \in 0..Capacity * Period
          BY <2>2, RefillBounds, BucketHoldsToken DEF Pay
    <3>2. last' \in 0..now' /\ paid' \in Nat /\ pc' = "send" /\ until' = until
          BY <2>1, <2>2 DEF TypeOK, Pay
    <3> QED BY <2>1, <3>1, <3>2 DEF TypeOK
  <2>3. CASE MustWait
    <3>1. tokens' \in 0..Capacity * Period
          BY <2>3, RefillBounds DEF MustWait
    <3>2. last' \in 0..now' /\ paid' = paid /\ pc' = "wait"
          BY <2>1, <2>3 DEF TypeOK, MustWait
    <3>3. until' \in Nat
          BY <2>3, RefillBounds DEF TypeOK, MustWait
    <3> QED BY <2>1, <3>1, <3>2, <3>3 DEF TypeOK
  <2> QED BY <1>6, <2>2, <2>3 DEF GetMessage
<1>7. CASE WaitEnds
      BY <1>7 DEF TypeOK, WaitEnds, bucket
<1>8. CASE WaitStopped
      BY <1>8, EndsType DEF TypeOK, WaitStopped
<1>9. CASE SendRaw
      BY <1>9 DEF TypeOK, SendRaw, bucket
<1>10. CASE ProcessEnds
      BY <1>10, EndsType DEF TypeOK, ProcessEnds
<1>11. CASE TimePasses
      BY <1>11 DEF TypeOK, TimePasses, bucket
<1>12. CASE UNCHANGED vars
      BY <1>12 DEF TypeOK, vars
<1> QED
    BY <1>1, <1>2, <1>3, <1>4, <1>5, <1>6, <1>7, <1>8, <1>9, <1>10, <1>11, <1>12
    DEF Next, SenderStep

(* The queue, the bucket and the thread of the sender always have their    *)
(* types: whatever the threads do, the bucket is never overdrawn and never *)
(* holds more than max_messages_per_minute tokens.                         *)
THEOREM TypeCorrect == Spec => []TypeOK
<1> QED BY InitType, NextType, PTL DEF Spec

----------------------------------------------------------------------------
(* The rate *)

(* Whole numbers of tokens compare as their parts do *)
LEMMA ProductBelow ==
    ASSUME NEW a \in Int, NEW b \in Int, a <= b
    PROVE  Period * a <= Period * b
<1>1. \A p, d \in Nat: p * d >= 0
      OBVIOUS
<1>2. b - a \in Nat /\ Period * (b - a) >= 0
      BY <1>1
<1>3. Period * (b - a) = Period * b - Period * a
      OBVIOUS
<1> QED BY <1>2, <1>3

LEMMA FewerTokens ==
    ASSUME NEW a \in Int, NEW b \in Int, Period * a < Period * b + Period
    PROVE  a <= b
<1> SUFFICES ASSUME b + 1 <= a PROVE FALSE
    OBVIOUS
<1>1. Period * (b + 1) <= Period * a
      BY ProductBelow
<1>2. Period * (b + 1) = Period * b + Period
      OBVIOUS
<1> QED BY <1>1, <1>2

(* The account of tokens is opened with a full bucket *)
LEMMA InitIInv == Init => IInv
<1> SUFFICES ASSUME Init PROVE IInv
    OBVIOUS
<1>1. TypeOK
      BY InitType
<1>2. Waited = 0 /\ pc # "wait"
      BY DEF Init, Waited
<1>3. \A c, p \in Nat: p * c = c * p /\ p * 0 + c * p = p * c
      OBVIOUS
<1>4. TokensAccounted
      BY <1>3, BucketHoldsToken DEF Init, TokensAccounted
<1> QED BY <1>1, <1>2, <1>4 DEF IInv, WaitsAccounted, WaitsForToken

(* A step that leaves the bucket alone, outside a wait, and lets no message *)
(* through, keeps the account.                                             *)
LEMMA OutsideBucket ==
    ASSUME TypeOK, IInv, TypeOK', UNCHANGED bucket, now <= now',
           Waited' <= Waited, pc' = "wait" => pc = "wait" /\ until' = until
    PROVE  IInv'
<1>1. TokensAccounted'
      BY DEF IInv, TokensAccounted, bucket
<1>2. Waited \in Int /\ Waited' \in Int
      BY DEF Waited, TypeOK
<1>3. WaitsAccounted'
  <2>1. /\ paid \in Int /\ tokens \in Int /\ last \in Int /\ now \in Int /\ now' \in Int
        /\ paid' = paid /\ tokens' = tokens /\ last' = last
        BY DEF TypeOK, bucket
  <2>2. WaitsAccounted
        BY DEF IInv
  <2>3. CASE Waited <= 0
        BY <1>2, <2>3 DEF WaitsAccounted
  <2>4. CASE Waited <= paid - Capacity
    <3>1. Waited' <= paid' - Capacity
          BY <1>2, <2>1, <2>4
    <3> QED BY <3>1 DEF WaitsAccounted
  <2>5. CASE Waited <= paid - Capacity + 1 /\ Period <= tokens + (now - last)
    <3>1. Waited' <= paid' - Capacity + 1
          BY <1>2, <2>1, <2>5
    <3>2. \A p, t, l, n, m \in Int: p <= t + (n - l) /\ n <= m => p <= t + (m - l)
          OBVIOUS
    <3>3. Period <= tokens + (now - last) /\ Period \in Int
          BY <2>5
    <3>4. Period <= tokens + (now' - last)
          BY <2>1, <3>2, <3>3
    <3>5. Period <= tokens' + (now' - last')
          BY <2>1, <3>4
    <3> QED BY <3>1, <3>5 DEF WaitsAccounted
  <2> QED BY <2>2, <2>3, <2>4, <2>5 DEF WaitsAccounted
<1>4. WaitsForToken'
      BY <1>2 DEF IInv, WaitsForToken, TypeOK, bucket
<1> QED BY <1>1, <1>3, <1>4 DEF IInv

(* take() with a token: the one that is paid with was accounted for, and   *)
(* the message behind a wait takes the one that came meanwhile.            *)
LEMMA PayIInv ==
    ASSUME TypeOK, IInv, TypeOK', pc = "get", Pay, UNCHANGED <<now, sent>>
    PROVE  IInv'
<1>1. Waited \in Int /\ Waited' = Waited
      BY DEF Waited, TypeOK, Pay
<1>2. paid' = paid + 1 /\ last' = now /\ tokens' = Refilled - Period /\ pc' = "send"
      BY DEF Pay
<1>3. Period * (paid + 1) = Period * paid + Period
      BY DEF TypeOK
<1>4. TokensAccounted'
  <2>1. Period * Capacity \in Int /\ Period * paid \in Int
        BY DEF TypeOK
  <2>2. /\ Refilled \in Int /\ tokens \in Int /\ last \in Int /\ now \in Int
        /\ tokens <= Refilled /\ Refilled <= tokens + (now - last)
        BY RefillBounds, BucketHoldsToken DEF TypeOK
  <2>3. TokensAccounted
        BY DEF IInv
  <2>4. Period * Capacity <= (Period * paid + Period) + (Refilled - Period)
        BY <2>1, <2>2, <2>3 DEF TokensAccounted
  <2>5. (Period * paid + Period) + (Refilled - Period) <= Period * Capacity + now
        BY <2>1, <2>2, <2>3 DEF TokensAccounted
  <2> QED BY <1>2, <1>3, <2>4, <2>5 DEF TokensAccounted
<1>5. WaitsAccounted'
      BY <1>1, <1>2 DEF IInv, WaitsAccounted, TypeOK
<1> QED BY <1>2, <1>4, <1>5 DEF IInv, WaitsForToken

(* take() without a token: all that was in the bucket is spent, and the    *)
(* wait lasts until the next token is there.                               *)
LEMMA MustWaitIInv ==
    ASSUME TypeOK, IInv, TypeOK', pc = "get", MustWait, UNCHANGED <<now, sent>>
    PROVE  IInv'
<1>1. Waited \in Int /\ Waited' = Waited
      BY DEF Waited, TypeOK, MustWait
<1>2. /\ paid' = paid /\ last' = now /\ tokens' = Refilled
      /\ pc' = "wait" /\ until' = now + Period - Refilled
      BY DEF MustWait
<1>3. Refilled \in Int /\ Refilled < Period /\ Refilled = tokens + (now - last)
      BY RefillBounds DEF MustWait
<1>4. Period * Capacity \in Int /\ Period * paid \in Int
      BY DEF TypeOK
<1>5. TokensAccounted'
      BY <1>2, <1>3, <1>4 DEF IInv, TokensAccounted, TypeOK
<1>6. Capacity <= paid
  <2>1. Period * Capacity < Period * paid + Period
        BY <1>2, <1>3, <1>4, <1>5 DEF TokensAccounted
  <2> QED BY <2>1, FewerTokens DEF TypeOK
<1>7. Waited <= paid - Capacity
      BY <1>1, <1>3, <1>6 DEF IInv, WaitsAccounted, TypeOK
<1>8. Period <= tokens' + (until' - last')
      BY <1>2, <1>3 DEF TypeOK
<1> QED BY <1>1, <1>2, <1>5, <1>7, <1>8 DEF IInv, WaitsAccounted, WaitsForToken

(* The wait ends: one more message is through, and its token is there      *)
LEMMA WaitEndsIInv ==
    ASSUME TypeOK, IInv, TypeOK', WaitEnds
    PROVE  IInv'
<1>1. Waited \in Int /\ Waited' = Waited + 1
      BY DEF Waited, TypeOK, WaitEnds, bucket
<1>2. TokensAccounted'
      BY DEF IInv, TokensAccounted, WaitEnds, bucket
<1>3. Waited <= paid - Capacity /\ Period <= tokens + (now - last)
      BY DEF IInv, WaitsForToken, WaitEnds, TypeOK
<1>4. WaitsAccounted'
      BY <1>1, <1>3 DEF WaitsAccounted, WaitEnds, bucket, TypeOK
<1> QED BY <1>2, <1>4 DEF IInv, WaitsForToken, WaitEnds

(* No step lets a message through without its token, before or behind it.  *)
LEMMA NextIInv == IInv /\ [Next]_vars => IInv'
<1> SUFFICES ASSUME IInv, [Next]_vars PROVE IInv'
    OBVIOUS
<1>1. TypeOK /\ TypeOK'
      BY NextType DEF IInv
<1>2. CASE Notify
      BY <1>1, <1>2, OutsideBucket DEF Notify, Waited, TypeOK, bucket
<1>3. CASE Stop
      BY <1>1, <1>3, OutsideBucket DEF Stop, Waited, TypeOK, bucket
<1>4. CASE Loop
      BY <1>1, <1>4, OutsideBucket DEF Loop, Ends, Waited, TypeOK, bucket
<1>5. CASE GetNothing
      BY <1>1, <1>5, OutsideBucket DEF GetNothing, Waited, TypeOK, bucket
<1>6. CASE GetSentinel
      BY <1>1, <1>6, OutsideBucket DEF GetSentinel, Ends, Waited, TypeOK, bucket
<1>7. CASE GetMessage
      BY <1>1, <1>7, PayIInv, MustWaitIInv DEF GetMessage
<1>8. CASE WaitEnds
      BY <1>1, <1>8, WaitEndsIInv
<1>9. CASE WaitStopped
      BY <1>1, <1>9, OutsideBucket DEF WaitStopped, Ends, Waited, TypeOK, bucket
<1>10. CASE SendRaw
  <2>1. Len(sent') = Len(sent) + 1
        BY <1>1, <1>10 DEF SendRaw, TypeOK
  <2> QED BY <1>1, <1>10, <2>1, OutsideBucket DEF SendRaw, Waited, TypeOK, bucket
<1>11. CASE ProcessEnds
      BY <1>1, <1>11, OutsideBucket DEF ProcessEnds, Ends, Waited, TypeOK, bucket
<1>12. CASE TimePasses
      BY <1>1, <1>12, OutsideBucket DEF TimePasses, Waited, TypeOK, bucket
<1>13. CASE UNCHANGED vars
      BY <1>1, <1>13, OutsideBucket DEF vars, Waited, TypeOK, bucket
<1> QED
    BY <1>2, <1>3, <1>4, <1>5, <1>6, <1>7, <1>8, <1>9, <1>10, <1>11, <1>12, <1>13
    DEF Next, SenderStep

(* What is sent was paid with a token of the first bucket or of the time   *)
(* since, or has waited behind one that was.                               *)
LEMMA IInvRate == IInv => RateAtMostDoubled
<1> SUFFICES ASSUME IInv PROVE RateAtMostDoubled
    OBVIOUS
<1> DEFINE full == Period * Capacity
           spent == Period * paid
           out == Period * Len(sent)
<1>1. TypeOK
      BY DEF IInv
<1>2. /\ Len(sent) \in Nat /\ paid \in Nat /\ now \in Nat /\ tokens \in Int /\ last \in Int
      /\ tokens >= 0 /\ last <= now
      BY <1>1, BucketHoldsToken DEF TypeOK
<1>3. full \in Int /\ spent \in Int /\ out \in Int /\ full >= 0
  <2>1. \A a, b \in Nat: a * b \in Nat
        OBVIOUS
  <2> QED BY <1>2, <2>1
<1>4. spent + tokens <= full + last
      BY DEF IInv, TokensAccounted
<1>5. Len(sent) <= paid + Waited /\ Waited \in Int
      BY <1>2 DEF Waited
<1>6. \A a, b \in Int: Period * (a + a - b) = Period * a + Period * a - Period * b
      OBVIOUS
<1>7. CASE Waited <= 0
  <2>1. out <= spent
        BY <1>2, <1>5, <1>7, ProductBelow
  <2>2. out <= full + 2 * now
    <3> HIDE DEF full, spent, out
    <3> QED BY <1>2, <1>3, <1>4, <2>1
  <2> QED BY <2>2 DEF RateAtMostDoubled
<1>8. CASE Waited <= paid - Capacity
  <2>1. Len(sent) <= paid + paid - Capacity
        BY <1>2, <1>5, <1>8
  <2>2. out <= Period * (paid + paid - Capacity)
        BY <1>2, <2>1, ProductBelow
  <2>3. out <= spent + spent - full
        BY <1>2, <1>6, <2>2
  <2>4. out <= full + 2 * now
    <3> HIDE DEF full, spent, out
    <3> QED BY <1>2, <1>3, <1>4, <2>3
  <2> QED BY <2>4 DEF RateAtMostDoubled
<1>9. CASE Waited <= paid - Capacity + 1 /\ Period <= tokens + (now - last)
  <2>1. Len(sent) <= paid + paid - (Capacity - 1)
        BY <1>2, <1>5, <1>9
  <2>2. out <= Period * (paid + paid - (Capacity - 1))
        BY <1>2, <2>1, ProductBelow
  <2>3. out <= spent + spent - Period * (Capacity - 1)
        BY <1>2, <1>6, <2>2
  <2>4. Period * (Capacity - 1) = full - Period
        OBVIOUS
  <2>5. out <= full + 2 * now
    <3> HIDE DEF full, spent, out
    <3> QED BY <1>2, <1>3, <1>4, <1>9, <2>3, <2>4
  <2> QED BY <2>5 DEF RateAtMostDoubled
<1> QED BY <1>7, <1>8, <1>9 DEF IInv, WaitsAccounted

(* For every capacity and period: no more messages leave in any time since *)
(* the start than the full bucket and twice what it gains in that time,    *)
(* although a message that waits takes no token after its wait.            *)
THEOREM RateBounded == Spec => []RateAtMostDoubled
<1> QED BY InitIInv, NextIInv, IInvRate, PTL DEF Spec

----------------------------------------------------------------------------
(* The order *)

(* Appending to the queue keeps what is in it *)
LEMMA AppendKeeps ==
    ASSUME queue \in Seq(Nat), NEW m \in Nat, queue' = Append(queue, m)
    PROVE  /\ Len(queue') = Len(queue) + 1 /\ queue'[Len(queue) + 1] = m
           /\ \A i \in 1..Len(queue): queue'[i] = queue[i]
  OBVIOUS

LEMMA NotifyInOrder == ASSUME TypeOK, InOrder, Notify PROVE InOrder'
<1>1. CASE pc = "done"
      BY <1>1 DEF Notify, InOrder
<1>2. CASE pc # "done"
  <2>1. /\ queue \in Seq(Nat) /\ notified \in Nat /\ Len(queue) \in Nat /\ TakenOut \in Nat
        /\ queue' = Append(queue, notified + 1) /\ notified' = notified + 1
        /\ UNCHANGED <<pc, held, sent>> /\ TakenOut' = TakenOut
        BY DEF TypeOK, Notify, TakenOut
  <2>2. /\ Len(queue') = Len(queue) + 1 /\ queue'[Len(queue) + 1] = notified + 1
        /\ \A i \in 1..Len(queue): queue'[i] = queue[i]
        BY <2>1, AppendKeeps
  <2>3. \A n \in 1..Len(queue'): n <= Len(queue) \/ n = Len(queue) + 1
        BY <2>1, <2>2
  <2>4. \A n \in 0..Len(queue): NoSentinel(queue', n) => NoSentinel(queue, n)
        BY <2>1, <2>2 DEF NoSentinel
  <2>5. NoSentinel(queue', Len(queue) + 1) => NoSentinel(queue, Len(queue))
        BY <2>1, <2>2 DEF NoSentinel
  <2>6. ASSUME NEW i \in 1..Len(queue'), NoSentinel(queue', i)
        PROVE  queue'[i] = TakenOut + i /\ queue'[i] <= notified + 1
    <3>1. CASE i <= Len(queue)
          BY <1>2, <2>1, <2>2, <2>4, <2>6, <3>1 DEF InOrder
    <3>2. CASE i = Len(queue) + 1
          BY <1>2, <2>1, <2>2, <2>5, <2>6, <3>2 DEF InOrder
    <3> QED BY <2>3, <3>1, <3>2
  <2>7. NoSentinel(queue', Len(queue')) => TakenOut + Len(queue') = notified + 1
        BY <1>2, <2>1, <2>2, <2>5 DEF InOrder
  <2>8. /\ held' # Nobody => held' = TakenOut' /\ held' <= notified'
        /\ pc' \in {"wait", "send"} <=> held' # Nobody
        BY <1>2, <2>1 DEF InOrder, TypeOK
  <2> QED BY <2>1, <2>6, <2>7, <2>8 DEF InOrder
<1> QED BY <1>1, <1>2

LEMMA StopInOrder == ASSUME TypeOK, InOrder, Stop PROVE InOrder'
<1>1. CASE pc = "done"
      BY <1>1 DEF Stop, InOrder
<1>2. CASE pc # "done"
  <2>1. /\ queue \in Seq(Nat) /\ Len(queue) \in Nat /\ queue' = Append(queue, Sentinel)
        /\ UNCHANGED <<pc, held, sent, notified>> /\ TakenOut' = TakenOut
        BY DEF TypeOK, Stop, TakenOut
  <2>2. /\ Len(queue') = Len(queue) + 1 /\ queue'[Len(queue) + 1] = Sentinel
        /\ \A i \in 1..Len(queue): queue'[i] = queue[i]
        BY <2>1, AppendKeeps
  <2>3. ~NoSentinel(queue', Len(queue) + 1)
        BY <2>1, <2>2 DEF NoSentinel
  <2>4. \A n \in 0..Len(queue): NoSentinel(queue', n) => NoSentinel(queue, n)
        BY <2>1, <2>2 DEF NoSentinel
  <2>5. ASSUME NEW i \in 1..Len(queue'), NoSentinel(queue', i)
        PROVE  queue'[i] = TakenOut + i /\ queue'[i] <= notified
    <3>1. i <= Len(queue)
          BY <2>1, <2>2, <2>3, <2>5
    <3> QED BY <1>2, <2>1, <2>2, <2>4, <2>5, <3>1 DEF InOrder
  <2> QED BY <1>2, <2>1, <2>2, <2>3, <2>5 DEF InOrder
<1> QED BY <1>1, <1>2

(* The message that is taken is the next one *)
LEMMA GetInOrder == ASSUME TypeOK, InOrder, GetMessage PROVE InOrder'
<1>1. /\ queue \in Seq(Nat) /\ queue # <<>> /\ sent \in Seq(Nat) /\ notified \in Nat
      /\ pc = "get" /\ held = Nobody /\ pc' \in {"wait", "send"}
      /\ held' = queue[1] /\ queue[1] # Sentinel
      /\ queue' = Tail(queue) /\ UNCHANGED <<sent, notified>>
      BY DEF TypeOK, GetMessage, Pay, MustWait, InOrder
<1>2. /\ Len(queue) \in Nat \ {0} /\ Len(queue') = Len(queue) - 1
      /\ \A i \in 1..Len(queue'): queue'[i] = queue[i + 1]
      BY <1>1
<1>3. TakenOut \in Nat /\ TakenOut' = TakenOut + 1
      BY <1>1 DEF TakenOut
<1>4. queue[1] = TakenOut + 1 /\ queue[1] <= notified
      BY <1>1, <1>2 DEF InOrder, NoSentinel
<1>5. ASSUME NEW n \in 0..Len(queue'), NoSentinel(queue', n) PROVE NoSentinel(queue, n + 1)
  <2>1. ASSUME NEW j \in 1..(n + 1) PROVE queue[j] # Sentinel
    <3>1. CASE j = 1
          BY <1>1, <3>1
    <3>2. CASE j # 1
      <4>1. j - 1 \in 1..n /\ j - 1 \in 1..Len(queue') /\ queue'[j - 1] = queue[j - 1 + 1]
            BY <1>2, <2>1, <3>2
      <4> QED BY <1>5, <4>1 DEF NoSentinel
    <3> QED BY <3>1, <3>2
  <2> QED BY <2>1 DEF NoSentinel
<1>6. ASSUME NEW i \in 1..Len(queue'), NoSentinel(queue', i)
      PROVE  queue'[i] = TakenOut' + i /\ queue'[i] <= notified'
  <2>1. i + 1 \in 1..Len(queue) /\ NoSentinel(queue, i + 1) /\ queue'[i] = queue[i + 1]
        BY <1>2, <1>5, <1>6
  <2>2. queue[i + 1] = TakenOut + (i + 1) /\ queue[i + 1] <= notified
        BY <1>1, <2>1 DEF InOrder
  <2> QED BY <1>1, <1>3, <2>1, <2>2
<1>7. NoSentinel(queue', Len(queue')) => TakenOut' + Len(queue') = notified'
  <2>1. NoSentinel(queue', Len(queue')) => NoSentinel(queue, Len(queue))
        BY <1>2, <1>5
  <2>2. NoSentinel(queue, Len(queue)) => TakenOut + Len(queue) = notified
        BY <1>1 DEF InOrder
  <2>3. TakenOut' + Len(queue') = TakenOut + Len(queue)
        BY <1>2, <1>3
  <2> QED BY <1>1, <2>1, <2>2, <2>3
<1>8. held' # Nobody /\ held' = TakenOut' /\ held' <= notified'
      BY <1>1, <1>3, <1>4
<1> QED BY <1>1, <1>6, <1>7, <1>8 DEF InOrder

(* Sending makes the message in hand the last one sent *)
LEMMA SendInOrder ==
    ASSUME TypeOK, InOrder, SendRaw
    PROVE  InOrder' /\ held = Len(sent) + 1 /\ Len(sent) < notified
<1>1. /\ sent \in Seq(Nat) /\ pc = "send" /\ sent' = Append(sent, held) /\ held' = Nobody
      /\ pc' = "loop" /\ UNCHANGED <<queue, notified>> /\ notified \in Nat
      BY DEF TypeOK, SendRaw
<1>2. held # Nobody /\ held = TakenOut /\ held <= notified
      BY <1>1 DEF InOrder
<1>3. Len(sent) \in Nat /\ Len(sent') = Len(sent) + 1
      BY <1>1
<1>4. TakenOut' = TakenOut /\ TakenOut = Len(sent) + 1
      BY <1>1, <1>2, <1>3 DEF TakenOut
<1>5. /\ \A i \in 1..Len(queue'):
            NoSentinel(queue', i) => queue'[i] = TakenOut' + i /\ queue'[i] <= notified'
      /\ NoSentinel(queue', Len(queue')) => TakenOut' + Len(queue') = notified'
      BY <1>1, <1>4 DEF InOrder
<1>6. InOrder'
  <2>1. /\ held' # Nobody => held' = TakenOut' /\ held' <= notified'
        /\ pc' \in {"wait", "send"} <=> held' # Nobody
        BY <1>1
  <2> QED BY <1>5, <2>1 DEF InOrder
<1> QED BY <1>1, <1>2, <1>3, <1>4, <1>6

(* The other steps touch neither the queue nor what is in hand, or end *)
LEMMA OthersInOrder ==
    ASSUME InOrder, pc' = "done" \/ (UNCHANGED <<queue, held, sent, notified>>
                                     /\ pc # "done"
                                     /\ (pc' \in {"wait", "send"} <=> pc \in {"wait", "send"}))
    PROVE  InOrder'
  BY DEF InOrder, TakenOut, NoSentinel

(* No step puts a message out of order. *)
LEMMA NextInOrder == TypeOK /\ InOrder /\ [Next]_vars => InOrder'
<1> SUFFICES ASSUME TypeOK, InOrder, [Next]_vars PROVE InOrder'
    OBVIOUS
<1>1. CASE Notify
      BY <1>1, NotifyInOrder
<1>2. CASE Stop
      BY <1>2, StopInOrder
<1>3. CASE Loop
      BY <1>3, OthersInOrder DEF Loop, Ends
<1>4. CASE GetNothing
      BY <1>4, OthersInOrder DEF GetNothing
<1>5. CASE GetSentinel
      BY <1>5, OthersInOrder DEF GetSentinel, Ends
<1>6. CASE GetMessage
      BY <1>6, GetInOrder
<1>7. CASE WaitEnds
      BY <1>7, OthersInOrder DEF WaitEnds
<1>8. CASE WaitStopped
      BY <1>8, OthersInOrder DEF WaitStopped, Ends
<1>9. CASE SendRaw
      BY <1>9, SendInOrder
<1>10. CASE ProcessEnds
      BY <1>10, OthersInOrder DEF ProcessEnds, Ends
<1>11. CASE TimePasses
      BY <1>11 DEF TimePasses, InOrder, TakenOut, NoSentinel
<1>12. CASE UNCHANGED vars
      BY <1>12 DEF vars, InOrder, TakenOut, NoSentinel
<1> QED
    BY <1>1, <1>2, <1>3, <1>4, <1>5, <1>6, <1>7, <1>8, <1>9, <1>10, <1>11, <1>12
    DEF Next, SenderStep

(* Each step of the sender accepts a message, delivers one, or is none of  *)
(* the outbox's.                                                           *)
LEMMA NextMail == TypeOK /\ InOrder /\ [Next]_vars => [Mail!Next]_(Mail!vars)
<1> SUFFICES ASSUME TypeOK, InOrder, [Next]_vars PROVE [Mail!Next]_(Mail!vars)
    OBVIOUS
<1>1. CASE Notify
      BY <1>1 DEF Notify, Mail!Next, Mail!Accept
<1>2. CASE SendRaw
  <2>1. Len(sent) < notified /\ sent' = Append(sent, Len(sent) + 1)
        BY <1>2, SendInOrder DEF SendRaw
  <2> QED BY <1>2, <2>1 DEF SendRaw, Mail!Next, Mail!Deliver
<1>3. CASE GetMessage
      BY <1>3 DEF GetMessage, Mail!vars
<1>4. CASE Stop \/ Loop \/ GetNothing \/ GetSentinel \/ WaitEnds \/ WaitStopped
      BY <1>4 DEF Stop, Loop, GetNothing, GetSentinel, WaitEnds, WaitStopped, Mail!vars
<1>5. CASE ProcessEnds \/ TimePasses \/ UNCHANGED vars
      BY <1>5 DEF ProcessEnds, TimePasses, vars, Mail!vars
<1> QED BY <1>1, <1>2, <1>3, <1>4, <1>5 DEF Next, SenderStep

(* Whatever waits and stops there are, messages leave in the order of      *)
(* notify(), none skipped and none repeated: the sender is an outbox.      *)
THEOREM OutboxImplemented == Spec => ImplementsOutbox
<1>1. Init => InOrder /\ Mail!Init
  <2> SUFFICES ASSUME Init PROVE InOrder /\ Mail!Init
      OBVIOUS
  <2>1. Len(queue) = 0 /\ Len(sent) = 0 /\ held = Nobody /\ pc = "loop" /\ notified = 0
        BY DEF Init
  <2> QED BY <2>1 DEF Init, InOrder, TakenOut, NoSentinel, Mail!Init
<1> QED BY <1>1, NextInOrder, NextMail, TypeCorrect, PTL DEF Spec, ImplementsOutbox, Mail!Spec
=============================================================================
