--------------------------- MODULE MCAsyncBarrier ---------------------------
(* Model-checking instances of AsyncBarrier. *)
EXTENDS AsyncBarrier

CONSTANTS c1, c2, c3

\* The barrier fills up, and nobody cancels; or it is cancelled before it does.
FilledOrCancelled ==
    {[party |-> {c1, c2, c3}, cancels |-> 0], [party |-> {c1, c2}, cancels |-> 1]}

\* The barrier is cancelled while it fills up.
FilledAndCancelled == {[party |-> {c1, c2}, cancels |-> 1]}
=============================================================================
