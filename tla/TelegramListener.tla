-------------------------- MODULE TelegramListener --------------------------
(***************************************************************************)
(* notifications/telegram_bot.py, incoming half: the listener thread polls *)
(* Telegram for updates, acknowledges them by the offset of its next poll  *)
(* and executes the commands; /kill and /closeall only after a "yes".      *)
(*                                                                         *)
(* Telegram keeps every update until a poll asks for a later one, so a     *)
(* process that dies after it has handled an update, and before it polls   *)
(* again, gets it again.  Texts are reduced to the cases the router tells  *)
(* apart.  Time is in units of the time to live of a confirmation.         *)
(***************************************************************************)
EXTENDS Integers, Sequences

CONSTANTS
    Destructive, \* DESTRUCTIVE_COMMANDS
    Others,      \* other texts of the operator, "yes" and safe commands
    Ignored,     \* updates without a text, or from another chat
    TTL,         \* DESTRUCTIVE_CONFIRM_TTL_SECONDS
    MaxUpdates,  \* bound: updates sent
    MaxTime,     \* bound: time the model runs for
    MaxFaults,   \* bound: polls that fail
    MaxCrashes,  \* bound: deaths of the process
    MaxErrors    \* bound: exceptions of engine.close_all, pause or risk._save

Yes == "yes"
NoCommand == "none"

ASSUME ListenerAssumption ==
    /\ Yes \in Others
    /\ Destructive \cap (Others \cup Ignored) = {} /\ Others \cap Ignored = {}
    /\ NoCommand \notin Destructive
    /\ TTL \in Nat /\ MaxUpdates \in Nat /\ MaxTime \in Nat
    /\ MaxFaults \in Nat /\ MaxCrashes \in Nat /\ MaxErrors \in Nat

VARIABLES
    inbox,    \* what was sent to the bot: text and time, in order
    acked,    \* updates Telegram has dropped
    up,       \* is the process running?
    alive,    \* has the listener thread not ended by an exception?
    offset,   \* _update_offset
    batch,    \* updates of the last poll that are still to be dispatched
    pending,  \* _pending
    now,
    faults, crashes, errors,
    prompted, \* history: time the command of an update was prompted for
    executed, \* history: how often the command of an update was executed
    answered  \* history: updates that have been dispatched

vars == <<inbox, acked, up, alive, offset, batch, pending, now, faults, crashes, errors,
          prompted, executed, answered>>
listener == <<alive, offset, batch, pending>>
bounds == <<faults, crashes, errors>>
history == <<prompted, executed, answered>>

NoPending == [cmd |-> NoCommand, expires |-> 0]
Never == -1
Texts == Destructive \cup Others \cup Ignored
Updates == 1..MaxUpdates

Init ==
    /\ inbox = <<>> /\ acked = 0
    /\ up = TRUE /\ alive = TRUE /\ offset = 0 /\ batch = <<>> /\ pending = NoPending
    /\ now = 0 /\ faults = 0 /\ crashes = 0 /\ errors = 0
    /\ prompted = [u \in Updates |-> Never]
    /\ executed = [u \in Updates |-> 0]
    /\ answered = {}

----------------------------------------------------------------------------
(* The operator and the clock *)

Send(text) ==
    /\ Len(inbox) < MaxUpdates
    /\ inbox' = Append(inbox, [text |-> text, at |-> now])
    /\ UNCHANGED <<acked, up, listener, now, bounds, history>>

TimePasses ==
    /\ now < MaxTime
    /\ now' = now + 1
    /\ UNCHANGED <<inbox, acked, up, listener, bounds, history>>

----------------------------------------------------------------------------
(* The listener thread *)

Listening == up /\ alive

(* getUpdates: Telegram drops what lies before the offset and returns the  *)
(* rest                                                                    *)
Dropped == IF offset > acked + 1 THEN offset - 1 ELSE acked

Poll ==
    /\ Listening /\ batch = <<>>
    /\ acked' = Dropped
    /\ batch' = [i \in 1..(Len(inbox) - Dropped) |-> Dropped + i]
    /\ UNCHANGED <<inbox, up, alive, offset, pending, now, bounds, history>>

(* Mutant: a failed poll ends the loop *)
PollFailsForGood ==
    /\ Listening /\ batch = <<>> /\ faults < MaxFaults
    /\ faults' = faults + 1 /\ alive' = FALSE
    /\ UNCHANGED <<inbox, acked, up, offset, batch, pending, now, crashes, errors, history>>

(* The request fails, or its answer is not ok; it may have reached Telegram *)
PollFails ==
    /\ Listening /\ batch = <<>> /\ faults < MaxFaults
    /\ faults' = faults + 1
    /\ acked' \in {acked, Dropped}
    /\ UNCHANGED <<inbox, up, listener, now, crashes, errors, history>>

(* Mutant: the offset is not moved *)
TakeInPlace ==
    /\ Listening /\ batch # <<>>
    /\ batch' = Tail(batch) /\ answered' = answered \cup {Head(batch)}
    /\ UNCHANGED offset

(* The next update of the batch is dispatched *)
Take ==
    /\ Listening /\ batch # <<>>
    /\ offset' = Head(batch) + 1
    /\ batch' = Tail(batch)
    /\ answered' = answered \cup {Head(batch)}

Text == inbox[Head(batch)].text

(* The confirmation that is still valid, if any *)
Valid == IF pending.expires < now THEN NoPending ELSE pending

(* Another chat (the reply is "unauthorized"), or no text (no reply) *)
Ignore ==
    /\ Take /\ Text \in Ignored
    /\ UNCHANGED <<inbox, acked, up, alive, pending, now, bounds, prompted, executed>>

(* Mutant: the confirmation is valid for a moment longer *)
PromptLonger ==
    /\ Take /\ Valid = NoPending /\ Text \in Destructive
    /\ pending' = [cmd |-> Text, expires |-> now + TTL + 1]
    /\ prompted' = [prompted EXCEPT ![Head(batch)] = now]
    /\ UNCHANGED <<inbox, acked, up, alive, now, bounds, executed>>

(* A destructive command is prompted for *)
Prompt ==
    /\ Take /\ Valid = NoPending /\ Text \in Destructive
    /\ pending' = [cmd |-> Text, expires |-> now + TTL]
    /\ prompted' = [prompted EXCEPT ![Head(batch)] = now]
    /\ UNCHANGED <<inbox, acked, up, alive, now, bounds, executed>>

(* "yes" to it: _execute_destructive *)
Confirmed == Take /\ Valid # NoPending /\ Text = Yes /\ pending' = NoPending

Execute ==
    /\ Confirmed
    /\ executed' = [executed EXCEPT ![Head(batch)] = @ + 1]
    /\ UNCHANGED <<inbox, acked, up, alive, now, bounds, prompted>>

(* An exception leaves _execute_destructive, and with it the thread *)
ExecuteRaises ==
    /\ Confirmed /\ errors < MaxErrors
    /\ errors' = errors + 1 /\ alive' = FALSE
    /\ UNCHANGED <<inbox, acked, up, now, faults, crashes, prompted, executed>>

(* Mutant: only an expired confirmation is given up *)
CancelNothing ==
    /\ Take /\ Valid # NoPending /\ Text \notin Ignored \cup {Yes}
    /\ UNCHANGED <<inbox, acked, up, alive, pending, now, bounds, prompted, executed>>

(* Any other text, a destructive command included, cancels *)
Cancel ==
    /\ Take /\ Valid # NoPending /\ Text \notin Ignored \cup {Yes}
    /\ pending' = NoPending
    /\ UNCHANGED <<inbox, acked, up, alive, now, bounds, prompted, executed>>

(* _execute_safe catches what it raises *)
ExecuteSafe ==
    /\ Take /\ Valid = NoPending /\ Text \in Others
    /\ pending' = NoPending
    /\ UNCHANGED <<inbox, acked, up, alive, now, bounds, prompted, executed>>

Dispatch == Ignore \/ Prompt \/ Execute \/ Cancel \/ ExecuteSafe

----------------------------------------------------------------------------
(* The process *)

Crash ==
    /\ up /\ crashes < MaxCrashes
    /\ crashes' = crashes + 1
    /\ up' = FALSE /\ batch' = <<>> /\ offset' = 0 /\ pending' = NoPending
    /\ UNCHANGED <<inbox, acked, alive, now, faults, errors, history>>

Restart ==
    /\ ~up
    /\ up' = TRUE /\ alive' = TRUE
    /\ UNCHANGED <<inbox, acked, offset, batch, pending, now, bounds, history>>

Next ==
    \/ (\E text \in Texts: Send(text)) \/ TimePasses
    \/ Poll \/ PollFails \/ Dispatch \/ ExecuteRaises
    \/ Crash \/ Restart

Spec == Init /\ [][Next]_vars

(* The thread takes its next step; the watchdog restarts the process.      *)
FairSpec == Spec /\ WF_vars(Poll \/ Dispatch) /\ WF_vars(Restart)

----------------------------------------------------------------------------
(* Properties *)

(* The updates, the batch and the pending confirmation have their types.   *)
TypeOK ==
    /\ inbox \in Seq([text: Texts, at: 0..now]) /\ Len(inbox) <= MaxUpdates
    /\ acked \in 0..Len(inbox) /\ now \in 0..MaxTime /\ crashes \in 0..MaxCrashes
    /\ up \in BOOLEAN /\ alive \in BOOLEAN
    /\ offset \in Nat
    /\ batch \in Seq(1..Len(inbox))
    /\ pending \in [cmd: Destructive \cup {NoCommand}, expires: 0..now + TTL]
    /\ prompted \in [Updates -> {Never} \cup 0..now]
    /\ executed \in [Updates -> Nat]
    /\ answered \subseteq 1..Len(inbox)

(* The operator's last text before update u, 0 if there is none *)
Before(u) ==
    LET texts == {v \in 1..u - 1: inbox[v].text \notin Ignored}
    IN IF texts = {} THEN 0 ELSE CHOOSE v \in texts: \A w \in texts: w <= v

(* A destructive command is only executed by a "yes" that directly follows *)
(* it among the operator's texts, and not longer than TTL after the prompt *)
(* for it, however updates are batched, repeated after a crash or expire.  *)
OnlyConfirmed ==
    [][\A u \in Updates: executed'[u] # executed[u] =>
          /\ inbox[u].text = Yes
          /\ Before(u) # 0 /\ inbox[Before(u)].text \in Destructive
          /\ prompted[Before(u)] # Never /\ now <= prompted[Before(u)] + TTL]_vars

(* One "yes" executes its command at most once in the life of a process,   *)
(* and once more for each crash before its update was acknowledged.        *)
OncePerProcess == \A u \in Updates: executed[u] <= 1 + crashes

(* Every text that is sent is dispatched in the end, over failed polls and *)
(* restarts, unless an exception of /kill or /closeall ends the thread.    *)
AllAnswered == \A u \in Updates: (Len(inbox) >= u) ~> (u \in answered \/ errors > 0)

----------------------------------------------------------------------------
(* The inductive invariant behind OncePerProcess and OnlyConfirmed.        *)

(* The update that is dispatched next, if it has been sent *)
NextUp == IF offset > 0 THEN offset ELSE acked + 1

(* A batch goes on where the last one ended, without gaps or repetitions   *)
BatchGoesOn ==
    /\ offset > 0 => acked < offset /\ offset - 1 <= Len(inbox)
    /\ \A i \in 1..Len(batch): batch[i] = NextUp + i - 1

(* What this process has gone past may have been executed once more than   *)
(* there were processes before it                                          *)
ExecutedBehind ==
    \A u \in Updates: executed[u] <= crashes + (IF u < offset THEN 1 ELSE 0)

(* The pending confirmation is for the last text that was not ignored      *)
PendingFor(p) ==
    /\ p < offset /\ inbox[p].text \in Destructive
    /\ prompted[p] # Never /\ pending.expires = prompted[p] + TTL
    /\ \A v \in p + 1..offset - 1: inbox[v].text \in Ignored
PendingIsLast == pending # NoPending => \E p \in 1..Len(inbox): PendingFor(p)

ListenerInv == TypeOK /\ BatchGoesOn /\ ExecutedBehind /\ PendingIsLast

=============================================================================
