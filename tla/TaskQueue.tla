----------------------------- MODULE TaskQueue ------------------------------
(***************************************************************************)
(* What the pool promises to its callers: tasks start in the order they    *)
(* were added, each one is run by one worker and once, at most Capacity    *)
(* tasks wait, and none is accepted or started after the pool is closed    *)
(* (the tasks still waiting then never start).                             *)
(***************************************************************************)
EXTENDS Naturals, Sequences

CONSTANTS Task, Capacity

VARIABLES pending,  \* tasks accepted and not started, in order of acceptance
          running,  \* tasks started and not finished
          closed    \* the pool is being destroyed

vars == <<pending, running, closed>>

Init == pending = << >> /\ running = {} /\ closed = FALSE

Accept(t) ==
    /\ ~closed /\ Len(pending) < Capacity
    /\ t \notin running /\ \A k \in 1 .. Len(pending) : pending[k] # t
    /\ pending' = Append(pending, t)
    /\ UNCHANGED <<running, closed>>

Start ==
    /\ ~closed /\ pending # << >>
    /\ pending' = Tail(pending)
    /\ running' = running \cup {Head(pending)}
    /\ UNCHANGED closed

Finish(t) ==
    /\ t \in running
    /\ running' = running \ {t}
    /\ UNCHANGED <<pending, closed>>

Close == ~closed /\ closed' = TRUE /\ UNCHANGED <<pending, running>>

Next == Start \/ Close \/ \E t \in Task : Accept(t) \/ Finish(t)

Spec == Init /\ [][Next]_vars
=============================================================================
