--------------------------- MODULE TelegramSender ---------------------------
(***************************************************************************)
(* notifications/telegram_bot.py, outgoing half: notify() puts messages    *)
(* into a queue, the sender thread takes them out, asks the token bucket   *)
(* how long to wait, waits and sends.                                      *)
(*                                                                         *)
(* Messages are numbered in the order notify() is called.  The unit of     *)
(* time is the time in which the bucket gains 1/Period of a token; tokens  *)
(* are counted in these parts.                                             *)
(***************************************************************************)
EXTENDS Integers, Sequences

CONSTANTS
    Capacity,    \* telegram.max_messages_per_minute
    Period,      \* time in which the bucket gains one token
    MaxMessages, \* bound: calls of notify()
    NotifyUntil, \* bound: time of the last call of notify()
    MaxTime,     \* bound: time the model runs for, unless a wait goes on
    MaxStops     \* bound: calls of stop()

ASSUME SenderAssumption ==
    /\ Capacity \in Nat \ {0} /\ Period \in Nat \ {0}
    /\ MaxMessages \in Nat /\ NotifyUntil \in Nat /\ MaxTime \in Nat /\ MaxStops \in Nat

VARIABLES
    pc,       \* where the sender thread is
    queue,    \* _queue: messages and the sentinel of stop()
    held,     \* the message the sender has taken
    until,    \* the end of its wait
    tokens,   \* _TokenBucket.tokens, in parts
    last,     \* _TokenBucket.last
    stopping, \* _stop is set
    now,
    notified, \* history: messages handed to notify()
    sent,     \* history: messages handed to Telegram, in this order
    paid      \* history: messages that were let through for a token

vars == <<pc, queue, held, until, tokens, last, stopping, now, notified, sent, paid>>
bucket == <<tokens, last, paid>>

Sentinel == 0
Nobody == 0

Init ==
    /\ pc = "loop" /\ queue = <<>> /\ held = Nobody /\ until = 0
    /\ tokens = Capacity * Period /\ last = 0
    /\ stopping = FALSE /\ now = 0
    /\ notified = 0 /\ sent = <<>> /\ paid = 0

----------------------------------------------------------------------------
(* The engine and main() *)

Notify ==
    /\ notified < MaxMessages /\ now <= NotifyUntil
    /\ notified' = notified + 1
    /\ queue' = Append(queue, notified + 1)
    /\ UNCHANGED <<pc, held, until, bucket, stopping, now, sent>>

Stop ==
    /\ MaxStops > 0 /\ ~stopping
    /\ stopping' = TRUE
    /\ queue' = Append(queue, Sentinel)
    /\ UNCHANGED <<pc, held, until, bucket, now, notified, sent>>

----------------------------------------------------------------------------
(* The sender thread *)

Ends == pc' = "done" /\ held' = Nobody /\ until' = 0

(* while not self._stop.is_set() *)
Loop ==
    /\ pc = "loop"
    /\ IF stopping THEN Ends ELSE pc' = "get" /\ UNCHANGED <<held, until>>
    /\ UNCHANGED <<queue, bucket, stopping, now, notified, sent>>

(* Mutant: the thread ends when there is nothing to send *)
GetNothingEnds ==
    /\ pc = "get" /\ queue = <<>>
    /\ Ends
    /\ UNCHANGED <<queue, bucket, stopping, now, notified, sent>>

(* queue.get times out *)
GetNothing ==
    /\ pc = "get" /\ queue = <<>>
    /\ pc' = "loop"
    /\ UNCHANGED <<queue, held, until, bucket, stopping, now, notified, sent>>

GetSentinel ==
    /\ pc = "get" /\ queue # <<>> /\ Head(queue) = Sentinel
    /\ Ends /\ queue' = Tail(queue)
    /\ UNCHANGED <<bucket, stopping, now, notified, sent>>

(* Mutant: the bucket has no capacity *)
RefilledUncapped == tokens + (now - last)

(* The tokens there are after the time since the last take() *)
Refilled ==
    IF tokens + (now - last) < Capacity * Period THEN tokens + (now - last) ELSE Capacity * Period

(* Mutant: the tokens are not taken out *)
PayNothing ==
    /\ Refilled >= Period
    /\ tokens' = Refilled /\ last' = now /\ paid' = paid + 1
    /\ pc' = "send" /\ UNCHANGED until

(* take(): a token is there *)
Pay ==
    /\ Refilled >= Period
    /\ tokens' = Refilled - Period /\ last' = now /\ paid' = paid + 1
    /\ pc' = "send" /\ UNCHANGED until

(* take(): the time to wait for one; it is not taken after the wait *)
MustWait ==
    /\ Refilled < Period
    /\ tokens' = Refilled /\ last' = now /\ UNCHANGED paid
    /\ pc' = "wait" /\ until' = now + Period - Refilled

GetMessage ==
    /\ pc = "get" /\ queue # <<>> /\ Head(queue) # Sentinel
    /\ held' = Head(queue) /\ queue' = Tail(queue)
    /\ Pay \/ MustWait
    /\ UNCHANGED <<stopping, now, notified, sent>>

(* Mutant: a message that had to wait goes to the end of the queue *)
WaitRequeues ==
    /\ pc = "wait" /\ now >= until
    /\ pc' = "loop" /\ until' = 0
    /\ queue' = Append(queue, held) /\ held' = Nobody
    /\ UNCHANGED <<bucket, stopping, now, notified, sent>>

WaitEnds ==
    /\ pc = "wait" /\ now >= until
    /\ pc' = "send" /\ until' = 0
    /\ UNCHANGED <<queue, held, bucket, stopping, now, notified, sent>>

(* _stop.wait(wait) is true: the thread returns with the message in hand *)
WaitStopped ==
    /\ pc = "wait" /\ stopping
    /\ Ends
    /\ UNCHANGED <<queue, bucket, stopping, now, notified, sent>>

(* _send_raw: a message that fails is logged, not sent again *)
SendRaw ==
    /\ pc = "send"
    /\ sent' = Append(sent, held)
    /\ held' = Nobody /\ pc' = "loop"
    /\ UNCHANGED <<queue, until, bucket, stopping, now, notified>>

(* The daemon thread ends with the process *)
ProcessEnds ==
    /\ stopping /\ pc # "done"
    /\ Ends
    /\ UNCHANGED <<queue, bucket, stopping, now, notified, sent>>

SenderStep ==
    \/ Loop \/ GetSentinel \/ GetMessage \/ WaitEnds \/ WaitStopped \/ SendRaw \/ GetNothing

TimePasses ==
    /\ now < MaxTime \/ (pc = "wait" /\ now < until)
    /\ now' = now + 1
    /\ UNCHANGED <<pc, queue, held, until, bucket, stopping, notified, sent>>

Next == Notify \/ Stop \/ SenderStep \/ ProcessEnds \/ TimePasses

Spec == Init /\ [][Next]_vars

(* The sender thread takes its next step, and the clock runs.              *)
FairSpec == Spec /\ WF_vars(SenderStep) /\ WF_vars(TimePasses)

----------------------------------------------------------------------------
(* Properties *)

(* The thread's position, the queue and the bucket have their types.       *)
TypeOK ==
    /\ pc \in {"loop", "get", "wait", "send", "done"}
    /\ queue \in Seq(Nat) /\ held \in Nat /\ until \in Nat
    /\ tokens \in 0..Capacity * Period /\ last \in 0..now
    /\ stopping \in BOOLEAN /\ now \in Nat
    /\ notified \in Nat /\ sent \in Seq(Nat) /\ paid \in Nat

(* Messages leave in the order of notify(), each once and none skipped,   *)
(* over every wait of the sender and whenever it is stopped: the sender    *)
(* implements an outbox.                                                   *)
Mail == INSTANCE Outbox WITH accepted <- notified, out <- sent
ImplementsOutbox == Mail!Spec

(* In any time from the start no more than a full bucket and twice the     *)
(* refill rate is sent: a message that waited takes no token, so the one   *)
(* after it does not wait.                                                 *)
RateAtMostDoubled == Period * Len(sent) <= Period * Capacity + 2 * now

(* Every message handed to notify() is sent, unless the bot is stopped.    *)
AllAreSent == \A m \in 1..MaxMessages: (notified >= m) ~> (stopping \/ Len(sent) >= m)

----------------------------------------------------------------------------
(* The inductive invariant behind ImplementsOutbox *)

(* Messages that have been sent or are in the sender's hand                *)
TakenOut == Len(sent) + (IF held = Nobody THEN 0 ELSE 1)

NoSentinel(q, n) == \A j \in 1..n: q[j] # Sentinel

(* Up to the sentinel of stop() the queue holds what follows the message   *)
(* in hand, in order, up to the last one notified.                         *)
InOrder ==
    pc # "done" =>
        /\ held # Nobody => held = TakenOut /\ held <= notified
        /\ pc \in {"wait", "send"} <=> held # Nobody
        /\ \A i \in 1..Len(queue):
               NoSentinel(queue, i) => queue[i] = TakenOut + i /\ queue[i] <= notified
        /\ NoSentinel(queue, Len(queue)) => TakenOut + Len(queue) = notified

----------------------------------------------------------------------------
(* The inductive invariant behind RateAtMostDoubled *)

(* Messages that are through for a wait instead of a token, less those     *)
(* that were lost on their way                                             *)
Waited == Len(sent) + (IF pc = "send" THEN 1 ELSE 0) - paid

(* The tokens there are and those paid with: the first ones, and at most   *)
(* one per Period                                                          *)
TokensAccounted ==
    /\ Period * Capacity <= Period * paid + tokens
    /\ Period * paid + tokens <= Period * Capacity + last

(* A wait is preceded by a full bucket of payments, or by a payment for    *)
(* the wait before; only when the next token has come may one more be over *)
WaitsAccounted ==
    \/ Waited <= 0
    \/ Waited <= paid - Capacity
    \/ Waited <= paid - Capacity + 1 /\ Period <= tokens + (now - last)

(* A wait is long enough for the token it is for                           *)
WaitsForToken ==
    pc = "wait" => Waited <= paid - Capacity /\ Period <= tokens + (until - last)

IInv == TypeOK /\ TokensAccounted /\ WaitsAccounted /\ WaitsForToken
=============================================================================
