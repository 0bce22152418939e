----------------------------- MODULE Whereabouts -----------------------------
(***************************************************************************)
(* Where a suspended coroutine is: in a ready queue of the pool, in the    *)
(* queue of those that wait, or held by an agent that runs it or has it in *)
(* hand.  The owner of a coroutine is nowhere written down in the code; it *)
(* is whoever got the pointer, so that a pointer in two places means a     *)
(* coroutine resumed twice, and one in no place a coroutine lost.          *)
(***************************************************************************)
EXTENDS Integers, Sequences

\* scheduled: how often each coroutine is in the ready queues; queue: those that
\* wait; held: the pairs of a holder and the coroutine it holds.
PlacesOf(c, scheduled, queue, held) ==
    ({"ready"} \X (1 .. scheduled[c]))
      \cup ({"queue"} \X {i \in 1 .. Len(queue) : queue[i] = c})
      \cup ({"hand"} \X {h[1] : h \in {x \in held : x[2] = c}})

\* Those that are alive are in one place, the others in none.
InOnePlace(coroutines, live, scheduled, queue, held) ==
    \A c \in coroutines :
        LET places == PlacesOf(c, scheduled, queue, held) IN
        IF c \in live THEN \E p \in places : places = {p} ELSE places = {}
=============================================================================
