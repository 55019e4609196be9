---------------------------- MODULE RuntimeSignals ----------------------------
(****************************************************************************)
(* Runtime, with one thing more: `_transition` and `_state` are RLocks, so  *)
(* code that interrupts a transition on its own thread (a signal handler, a *)
(* finalizer run by the garbage collector) can make another transition      *)
(* inside it.  The interrupted _update has read its old snapshot already    *)
(* and goes on with it.                                                     *)
(****************************************************************************)
EXTENDS Runtime

(* A handler calls shutdown between the two halves of _update; it does not  *)
(* wait for the cleanups it starts.                                         *)
ShutdownInside(t) ==
    /\ "interrupt" \in Does[t]
    /\ pc[t] \in Publishing
    /\ stopped' = TRUE /\ published' = FALSE
    /\ snapshot' = Unpublished
    /\ retired' = retired \union Live
    /\ cleanup' = Started(Live \union Restartable)
    /\ UNCHANGED <<lock, settings, key, users, closed, flushing, drained, thread>>

NextWithSignals == Next \/ \E t \in Threads : ShutdownInside(t)

SpecWithSignals == Init /\ [][NextWithSignals]_vars
==============================================================================
