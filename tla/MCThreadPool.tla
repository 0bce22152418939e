---------------------------- MODULE MCThreadPool ----------------------------
(* Model-checking instances of ThreadPool. *)
EXTENDS ThreadPool

CONSTANTS d1, d2, b1, m1, c1

\* A coroutine that schedules itself among two workers while a client waits for them
\* to be idle; one that goes from pool to pool while they shut down; and two workers
\* that sleep when they are shut down.
ThreeSessions ==
    {[crew |-> {d1, d2}, party |-> {c1}, hops |-> 1, closers |-> {}, lookers |-> {m1}],
     [crew |-> {d1, b1}, party |-> {c1}, hops |-> 1, closers |-> {m1}, lookers |-> {}],
     [crew |-> {d1, d2}, party |-> {c1}, hops |-> 0, closers |-> {m1}, lookers |-> {}]}
=============================================================================
