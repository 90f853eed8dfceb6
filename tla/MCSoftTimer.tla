----------------------------- MODULE MCSoftTimer -----------------------------
(***************************************************************************)
(* The timers, for TLC.                                                    *)
(***************************************************************************)
EXTENDS SoftTimer

\* Two soft timers, one of which is set to two times, the timer of another
\* thread, and callbacks that sleep for a tick.
Times ==
    [t \in Timers |->
        CASE t = "first" -> {1, 2} [] t = "second" -> {2} [] t = "other" -> {2} [] OTHER -> {1}]
=============================================================================
