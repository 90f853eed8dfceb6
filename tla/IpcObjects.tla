----------------------------- MODULE IpcObjects -----------------------------
(***************************************************************************)
(* A semaphore, an event, a mailbox and mutexes, and the threads that use  *)
(* them.  The calls on one kind of object touch no other: object, chosen   *)
(* once, is the kind that is used, so that the four are checked side by    *)
(* side without the product of their states.  The first three share the    *)
(* part of a thread that waits (th); Mutex has its own (taking), because a *)
(* mutex also changes priorities.                                          *)
(***************************************************************************)
EXTENDS Semaphore, Event, Mailbox, Mutex

VARIABLE object

vars == <<th, semVars, eventVars, mbVars, mutexVars, object>>

Init ==
    /\ th = [t \in Threads |-> Ready]
    /\ SemInit /\ EventInit /\ MbInit /\ MutexInit
    /\ object \in {"semaphore", "event", "mailbox", "mutex"}

Next ==
    /\ \/ object = "semaphore" /\ SemNext /\ UNCHANGED <<eventVars, mbVars, mutexVars>>
       \/ object = "event" /\ EventNext /\ UNCHANGED <<semVars, mbVars, mutexVars>>
       \/ object = "mailbox" /\ MbNext /\ UNCHANGED <<semVars, eventVars, mutexVars>>
       \/ object = "mutex" /\ MutexNext /\ UNCHANGED <<th, semVars, eventVars, mbVars>>
    /\ UNCHANGED object

Spec == Init /\ [][Next]_vars

\* The type of the state.
TypeOK ==
    /\ th \in [Threads -> Calls]
    /\ value \in 0 .. SemMax /\ balance \in Int
    /\ set \subseteq Bits /\ info \in [Threads -> Infos]
    /\ pool \in [0 .. MbSize - 1 -> Mails \cup {NoMail}]
    /\ {in, out} \subseteq 0 .. MbSize - 1 /\ entry \in 0 .. MbSize
    /\ {sending, mail} \subseteq [Threads -> Mails \cup {NoMail}]
    /\ {semWaiters, eventWaiters, mbReceivers, mbSenders} \subseteq Seq(Threads)
    /\ MutexTypeOK
=============================================================================
