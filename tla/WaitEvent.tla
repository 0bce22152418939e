------------------------------ MODULE WaitEvent ------------------------------
(***************************************************************************)
(* What AsyncCountDownEvent promises to those who wait on it: somebody who *)
(* waits goes on waiting until the count is zero at the very moment it is  *)
(* woken, or it was cancelled.  There are no spurious wake-ups, although a *)
(* waiter may be taken out of the queue, looked at and put back.           *)
(***************************************************************************)
EXTENDS Integers

CONSTANTS Waiters, InitCount, MaxCount

VARIABLES count,
          cancelled, \* whether each waiter was cancelled
          waiting    \* those who wait

vars == <<count, cancelled, waiting>>

Init == /\ count = InitCount
        /\ cancelled = [c \in Waiters |-> FALSE]
        /\ waiting = {}

\* countDown() and countUp(), which leave a count at its bound alone.
CountDown == count > 0 /\ count' = count - 1 /\ UNCHANGED <<cancelled, waiting>>

CountUp == count < MaxCount /\ count' = count + 1 /\ UNCHANGED <<cancelled, waiting>>

\* One comes to wait: when the count was not zero a moment ago.
Wait == /\ \E c \in Waiters \ waiting : waiting' = waiting \cup {c}
        /\ UNCHANGED <<count, cancelled>>

\* One is woken by the zero count.
Wake == /\ count = 0
        /\ \E c \in waiting : waiting' = waiting \ {c}
        /\ UNCHANGED <<count, cancelled>>

Cancel == /\ \E c \in Waiters : cancelled' = [cancelled EXCEPT ![c] = TRUE]
          /\ UNCHANGED <<count, waiting>>

\* A cancelled one leaves; the destructor cancels and releases in one.
Leave == /\ \E c \in waiting : /\ waiting' = waiting \ {c}
                               /\ cancelled' \in {cancelled, [cancelled EXCEPT ![c] = TRUE]}
                               /\ cancelled'[c]
         /\ UNCHANGED count

Next == CountDown \/ CountUp \/ Wait \/ Wake \/ Cancel \/ Leave

Spec == Init /\ [][Next]_vars
=============================================================================
