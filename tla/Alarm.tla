-------------------------------- MODULE Alarm --------------------------------
(***************************************************************************)
(* What a soft timer promises: it goes off when its time has come, never   *)
(* earlier and never before one that is due earlier, and then it is off    *)
(* until it is started again.  Time is counted without end here: left is   *)
(* how many ticks are still to pass, negative for an alarm that is late.   *)
(***************************************************************************)
EXTENDS Integers

CONSTANTS Alarms, Delays, Off, Nobody

VARIABLES
    left,       \* of each alarm, or Off
    firing      \* the one whose callback runs

avars == <<left, firing>>

Init == left = [a \in Alarms |-> Off] /\ firing = Nobody

Start(a) == \E d \in Delays : left' = [left EXCEPT ![a] = d] /\ UNCHANGED firing
Stop(a)  == left' = [left EXCEPT ![a] = Off] /\ UNCHANGED firing

Fire(a) ==
    /\ left[a] # Off /\ left[a] <= 0
    /\ \A b \in Alarms : left[b] # Off => left[a] <= left[b]
    /\ firing = Nobody /\ firing' = a
    /\ left' = [left EXCEPT ![a] = Off]

\* The callback returns; a periodic alarm starts again, if nobody stopped or
\* started it meanwhile.
Done(a) ==
    /\ firing = a /\ firing' = Nobody
    /\ \/ UNCHANGED left
       \/ left[a] = Off /\ \E d \in Delays : left' = [left EXCEPT ![a] = d]

Tick ==
    /\ left' = [a \in Alarms |-> IF left[a] = Off THEN Off ELSE left[a] - 1]
    /\ UNCHANGED firing

Next == Tick \/ \E a \in Alarms : Start(a) \/ Stop(a) \/ Fire(a) \/ Done(a)

Spec == Init /\ [][Next]_avars
=============================================================================
