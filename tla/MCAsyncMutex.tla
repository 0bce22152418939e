---------------------------- MODULE MCAsyncMutex ----------------------------
(* Model-checking instances of AsyncMutex. *)
EXTENDS AsyncMutex

CONSTANTS c1, c2, c3, w1, w2, k1, x1, d1

\* A cancelled waiter between two others while the mutex is destroyed; two workers,
\* one canceller of coroutines, and one of the mutex or its destruction.
ThreeSessions ==
    {[party |-> {c1, c2, c3}, cast |-> {w1, k1, d1}],
     [party |-> {c1, c2}, cast |-> {w1, w2, k1, x1}],
     [party |-> {c1, c2}, cast |-> {w1, w2, d1}]}
=============================================================================
