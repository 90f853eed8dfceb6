------------------------------- MODULE Channel -------------------------------
(***************************************************************************)
(* What a message queue or mailbox promises whoever waits and however the  *)
(* calls interleave: a bounded line of messages from which every message   *)
(* is taken once, whole, from the front; a plain message joins the line at *)
(* the back and an urgent one at the front.  A call that fails, or that is *)
(* still waiting, does not show.                                           *)
(***************************************************************************)
EXTENDS Naturals, Sequences

CONSTANTS Threads, Message, NoMsg, MaxMsgs

VARIABLES
    chan,   \* the messages in the queue, the next one to be received first
    got     \* what each thread's last call received

cvars == <<chan, got>>

Init == chan = <<>> /\ got = [t \in Threads |-> NoMsg]

\* A thread starts a call: what it received before is its own business now.
Begin(t) == got' = [got EXCEPT ![t] = NoMsg] /\ UNCHANGED chan

Put(m) ==
    /\ Len(chan) < MaxMsgs
    /\ chan' = Append(chan, m)
    /\ UNCHANGED got

PutUrgent(m) ==
    /\ Len(chan) < MaxMsgs
    /\ chan' = <<m>> \o chan
    /\ UNCHANGED got

Take(t) ==
    /\ chan # <<>>
    /\ chan' = Tail(chan)
    /\ got' = [got EXCEPT ![t] = Head(chan)]

\* A thread empties the line; this may start a call like any other.
Clear(t) ==
    /\ chan' = <<>>
    /\ got' \in {got, [got EXCEPT ![t] = NoMsg]}

Next ==
    \/ \E m \in Message : Put(m) \/ PutUrgent(m)
    \/ \E t \in Threads : Begin(t) \/ Take(t) \/ Clear(t)

Spec == Init /\ [][Next]_cvars
=============================================================================
