------------------------------- MODULE Outbox -------------------------------
(***************************************************************************)
(* What notify() promises its callers, without a queue, a token bucket or  *)
(* a thread: messages are accepted at once and delivered one by one, in    *)
(* the order they were accepted, none skipped and none repeated.  The      *)
(* process may end before all are delivered.  TelegramSender.tla           *)
(* implements it (TelegramSender!ImplementsOutbox).                        *)
(***************************************************************************)
EXTENDS Naturals, Sequences

VARIABLES
    accepted,   \* number of messages accepted; they are numbered from 1
    out         \* the messages delivered

vars == <<accepted, out>>

Init == accepted = 0 /\ out = <<>>

Accept == accepted' = accepted + 1 /\ UNCHANGED out

Deliver ==
    /\ Len(out) < accepted
    /\ out' = Append(out, Len(out) + 1)
    /\ UNCHANGED accepted

Next == Accept \/ Deliver

Spec == Init /\ [][Next]_vars
=============================================================================
