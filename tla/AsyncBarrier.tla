----------------------------- MODULE AsyncBarrier -----------------------------
(***************************************************************************)
(* AsyncBarrier and its awaiter (event/async_barrier.cpp and .hpp): a      *)
(* coroutine that arrives waits until Capacity have arrived; the last one  *)
(* resets the count, takes the others out of the wait list and schedules   *)
(* them.  cancel() schedules the waiters with an exception to come.        *)
(*                                                                         *)
(* Workers resume scheduled coroutines, cancellers call cancel() on the    *)
(* barrier or Coroutine::cancel() on a waiting coroutine, resetters call   *)
(* reset().  One action is one access to m_count, m_canceled, m_waitList   *)
(* or m_asyncScope; m_waitList is the atomic queue that ConcurrentFifoList *)
(* is shown to implement.                                                  *)
(***************************************************************************)
EXTENDS Integers, Sequences, FiniteSets
LOCAL INSTANCE FiniteSetsExt

CONSTANTS Coroutines, Workers, Cancellers, Resetters, Destroyers, NULL,
          Capacity,    \* m_capacity
          Rounds,      \* bound: how often each coroutine arrives
          Sessions     \* bounds, one of which holds: who comes to the barrier (party),
                       \* and how often each canceller cancels (cancels); with
                       \* none the barrier is not destroyed either

Agents == Workers \cup Cancellers \cup Resetters \cup Destroyers

ASSUME NullAssumption     == NULL \notin Coroutines
ASSUME CapacityAssumption == Capacity \in Nat \ {0}
ASSUME BoundAssumption    ==
    Rounds \in Nat \ {0} /\ Sessions \subseteq [party : SUBSET Coroutines, cancels : Nat]

VARIABLES
    count, waitList,      \* m_count, m_waitList
    canceled, scope,      \* m_canceled, m_asyncScope
    destroyed,            \* the destructor has returned
    point,                \* where a coroutine goes on when it is resumed
    arrived, passed,      \* how often it came to the barrier, and got past it
    scheduled,            \* how often it is in the ready queues of the pool
    cancelled,            \* m_cancelled of the coroutine
    blocked,              \* suspended, with maybeBlocked() set in its awaiter
    pausing,              \* its status is PauseOnRunning or Paused
    pc, self, seen,       \* of an agent: its place, the coroutine it runs or cancels,
    quota, awaiter,       \*   the count it loaded, how many it still has to dequeue
    mustSuspend, cancels  \*   and its argument of arriveAndRelease(), await_suspend()'s
                          \*   advice, and the cancels it may still make

barrier == <<count, waitList, canceled, scope, destroyed>>
coros   == <<point, arrived, passed, scheduled, cancelled, blocked, pausing>>
agents  == <<self, seen, quota, awaiter, mustSuspend, cancels>>
vars    == <<barrier, coros, pc, agents>>

Init ==
    /\ count = 0 /\ waitList = <<>> /\ canceled = FALSE /\ scope = 0
    /\ destroyed = FALSE
    /\ \E s \in Sessions :
           /\ point = [c \in Coroutines |-> IF c \in s.party THEN "new" ELSE "done"]
           /\ cancels = [a \in Agents |-> IF a \in Cancellers \cup Destroyers
                                       THEN s.cancels ELSE 0]
    /\ arrived = [c \in Coroutines |-> 0]
    /\ passed = [c \in Coroutines |-> 0]
    /\ scheduled = [c \in Coroutines |-> 0]
    /\ cancelled = [c \in Coroutines |-> FALSE]
    /\ blocked = [c \in Coroutines |-> FALSE]
    /\ pausing = [c \in Coroutines |-> FALSE]
    /\ pc = [a \in Agents |-> "idle"]
    /\ self = [a \in Agents |-> NULL]
    /\ seen = [a \in Agents |-> 0]
    /\ quota = [a \in Agents |-> 0]
    /\ awaiter = [a \in Agents |-> NULL]
    /\ mustSuspend = [a \in Agents |-> FALSE]

At(a, s) == pc[a] = s
Goto(a, s) == pc' = [pc EXCEPT ![a] = s]
Go(a, from, to) == At(a, from) /\ Goto(a, to)
Schedule(c) == scheduled' = [scheduled EXCEPT ![c] = @ + 1]
Active == {c \in Coroutines : point[c] \notin {"new", "done"}}

\* while (dequeue()) { setCancelled(); schedule(); } - one turn, or on to `to`.
DrainTurn(a, to) ==
    /\ IF waitList = <<>>
         THEN Goto(a, to) /\ UNCHANGED <<waitList, cancelled, scheduled>>
         ELSE LET c == Head(waitList) IN
              /\ cancelled' = [cancelled EXCEPT ![c] = TRUE]
              /\ Schedule(c)
              /\ waitList' = Tail(waitList)
              /\ UNCHANGED pc
    /\ UNCHANGED <<count, canceled, scope, destroyed, point, arrived, passed, blocked,
                   pausing, agents>>

-----------------------------------------------------------------------------
(* The coroutines: created, picked up by a worker, at the barrier *)

Start(c) ==
    /\ point[c] = "new"
    /\ point' = [point EXCEPT ![c] = "start"]
    /\ Schedule(c)
    /\ UNCHANGED <<barrier, arrived, passed, cancelled, blocked, pausing, pc, agents>>

PickUp(w, c) ==
    /\ w \in Workers /\ scheduled[c] > 0
    /\ Go(w, "idle", IF point[c] = "start" THEN "ready" ELSE "resume")
    /\ scheduled' = [scheduled EXCEPT ![c] = @ - 1]
    /\ self' = [self EXCEPT ![w] = c]
    /\ UNCHANGED <<barrier, point, arrived, passed, cancelled, blocked, pausing,
                   seen, quota, awaiter, mustSuspend, cancels>>

\* await_ready(): the advice is to suspend, not to suspend a cancelled coroutine,
\* or to try to be the last one.
AwaitReady(w) ==
    /\ At(w, "ready")
    /\ arrived' = [arrived EXCEPT ![self[w]] = @ + 1]
    /\ \/ Goto(w, "suspend") /\ UNCHANGED awaiter
       \/ (cancelled[self[w]] \/ canceled) /\ Goto(w, "resume") /\ UNCHANGED awaiter
       \/ /\ ~cancelled[self[w]] /\ ~canceled
          /\ Goto(w, "enterRelease")
          /\ awaiter' = [awaiter EXCEPT ![w] = NULL]
    /\ UNCHANGED <<barrier, point, passed, scheduled, cancelled, blocked, pausing,
                   self, seen, quota, mustSuspend, cancels>>

AwaitSuspendCancelled(w) ==
    /\ Go(w, "suspend", "resume")
    /\ cancelled[self[w]]
    /\ UNCHANGED <<barrier, coros, agents>>

AwaitSuspend(w) ==
    LET c == self[w] IN
    /\ Go(w, "suspend", IF canceled THEN "refused" ELSE "enterWait")
    /\ blocked' = [blocked EXCEPT ![c] = TRUE]
    /\ point' = [point EXCEPT ![c] = "await"]
    /\ \E must \in BOOLEAN : mustSuspend' = [mustSuspend EXCEPT ![w] = must]
    /\ UNCHANGED <<barrier, arrived, passed, scheduled, cancelled, pausing, self, seen, quota,
                   awaiter, cancels>>

\* needToKeepSuspended is false: the coroutine runs on, here or when it is picked up.
Refused(w) ==
    LET c == self[w] IN
    /\ At(w, "refused")
    /\ blocked' = [blocked EXCEPT ![c] = FALSE]
    /\ IF mustSuspend[w]
         THEN Goto(w, "idle") /\ Schedule(c)
         ELSE Goto(w, "resume") /\ UNCHANGED scheduled
    /\ UNCHANGED <<barrier, point, arrived, passed, cancelled, pausing, agents>>

\* await_resume(): waits for a cancel() in progress; a cancelled coroutine, or one
\* at a cancelled barrier, ends by an exception.
Resume(w) ==
    LET c == self[w]
        throws == cancelled[c] \/ canceled
        ends == throws \/ arrived[c] = Rounds
    IN  /\ At(w, "resume") /\ ~pausing[c]
        /\ blocked' = [blocked EXCEPT ![c] = FALSE]
        /\ passed' = [passed EXCEPT ![c] = IF throws THEN @ ELSE @ + 1]
        /\ point' = [point EXCEPT ![c] = IF ends THEN "done" ELSE "start"]
        /\ Goto(w, IF ends THEN "idle" ELSE "ready")
        /\ UNCHANGED <<barrier, arrived, scheduled, cancelled, pausing, agents>>

-----------------------------------------------------------------------------
(* bool arriveAndWait(Coroutine* ) *)

\* The scope is entered and the count loaded.
EnterWait(w) ==
    /\ Go(w, "enterWait", "checkCanceled")
    /\ scope' = scope + 1
    /\ seen' = [seen EXCEPT ![w] = count]
    /\ UNCHANGED <<count, waitList, canceled, destroyed, coros, self, quota, awaiter,
                   mustSuspend, cancels>>

CheckCanceled(w) ==
    /\ Go(w, "checkCanceled", IF canceled THEN "exitRefused" ELSE "enqueue")
    /\ cancelled' = [cancelled EXCEPT ![self[w]] = @ \/ canceled]
    /\ UNCHANGED <<barrier, point, arrived, passed, scheduled, blocked, pausing, agents>>

\* From here on the coroutine may be resumed by another agent.
Enqueue(w) ==
    /\ Go(w, "enqueue", "recheckCanceled")
    /\ waitList' = Append(waitList, self[w])
    /\ UNCHANGED <<count, canceled, scope, destroyed, coros, agents>>

\* Mutants of RecheckCanceled: a cancel() after the first look is missed; or makes
\* the coroutine run on while it is in the wait list.
RecheckCanceledNever(w) ==
    /\ Go(w, "recheckCanceled", "arrive")
    /\ UNCHANGED <<barrier, coros, agents>>

RecheckCanceledListed(w) ==
    /\ Go(w, "recheckCanceled", IF canceled THEN "exitRefused" ELSE "arrive")
    /\ UNCHANGED <<barrier, coros, agents>>

RecheckCanceled(w) ==
    /\ Go(w, "recheckCanceled", IF canceled THEN "drainWaiters" ELSE "arrive")
    /\ UNCHANGED <<barrier, coros, agents>>

DrainWaiters(w) == At(w, "drainWaiters") /\ DrainTurn(w, "exitWaiting")

\* The loop on m_count: the last to arrive releases, the others count themselves.
\* A failed compare-exchange loads the count again.
Arrive(w) ==
    /\ At(w, "arrive")
    /\ IF seen[w] = Capacity - 1
         THEN /\ Goto(w, "enterRelease")
              /\ awaiter' = [awaiter EXCEPT ![w] = self[w]]
              /\ UNCHANGED <<count, seen>>
         ELSE /\ IF count = seen[w]
                   THEN count' = count + 1 /\ Goto(w, "exitWaiting") /\ UNCHANGED seen
                   ELSE seen' = [seen EXCEPT ![w] = count] /\ UNCHANGED <<count, pc>>
              /\ UNCHANGED awaiter
    /\ UNCHANGED <<waitList, canceled, scope, destroyed, coros, self, quota, mustSuspend, cancels>>

\* The scope ends.  await_suspend() then stores maybeBlocked = true a second
\* time, in an awaiter that may be gone by now; the value is the one it had.
ExitWait(w) ==
    /\ \/ Go(w, "exitWaiting", "idle")
       \/ Go(w, "exitRefused", "refused")
    /\ scope' = scope - 1
    /\ UNCHANGED <<count, waitList, canceled, destroyed, coros, agents>>

-----------------------------------------------------------------------------
(* bool arriveAndRelease(Coroutine* awaiter) *)

EnterRelease(w) ==
    /\ Go(w, "enterRelease", "checkLast")
    /\ scope' = scope + 1
    /\ UNCHANGED <<count, waitList, canceled, destroyed, coros, agents>>

\* Mutant of CheckLast: the last but one is taken for the last.
CheckLastEarly(w) ==
    /\ Go(w, "checkLast", IF count >= Capacity - 2 THEN "resetCount"
                          ELSE IF awaiter[w] = NULL THEN "exitNotLast" ELSE "failed")
    /\ UNCHANGED <<barrier, coros, agents>>

\* Not the last one: await_ready() goes on to suspend; arriveAndWait() asserts
\* that this does not happen.
CheckLast(w) ==
    /\ Go(w, "checkLast", IF count = Capacity - 1 THEN "resetCount"
                          ELSE IF awaiter[w] = NULL THEN "exitNotLast" ELSE "failed")
    /\ UNCHANGED <<barrier, coros, agents>>

ResetCount(w) ==
    /\ Go(w, "resetCount", "release")
    /\ count' = 0
    /\ quota' = [quota EXCEPT ![w] = IF awaiter[w] = NULL THEN Capacity - 1 ELSE Capacity]
    /\ UNCHANGED <<waitList, canceled, scope, destroyed, coros, self, seen, awaiter,
                   mustSuspend, cancels>>

\* One dequeue of the release loop.  It uses the waiter without a test for null.
Release(w) ==
    /\ At(w, "release") /\ quota[w] > 0
    /\ IF waitList = <<>>
         THEN Goto(w, "failed") /\ UNCHANGED <<waitList, scheduled>>
         ELSE /\ IF Head(waitList) = awaiter[w] THEN UNCHANGED scheduled
                                                ELSE Schedule(Head(waitList))
              /\ waitList' = Tail(waitList)
              /\ UNCHANGED pc
    /\ quota' = [quota EXCEPT ![w] = @ - 1]
    /\ UNCHANGED <<count, canceled, scope, destroyed, point, arrived, passed, cancelled,
                   blocked, pausing, self, seen, awaiter, mustSuspend, cancels>>

\* The scopes of arriveAndRelease() and of an arriveAndWait() around it end.
ExitRelease(w) ==
    /\ \/ At(w, "exitNotLast") /\ Goto(w, "suspend") /\ scope' = scope - 1
       \/ /\ At(w, "release") /\ quota[w] = 0
          /\ IF awaiter[w] = NULL
               THEN Goto(w, "resume") /\ scope' = scope - 1
               ELSE Goto(w, "exitRefused") /\ scope' = scope - 1
    /\ UNCHANGED <<count, waitList, canceled, destroyed, coros, agents>>

-----------------------------------------------------------------------------
(* AsyncBarrier::cancel(), Coroutine::cancel() of a waiter, reset() *)

\* barrier.cancel(), by anyone.
Cancel(k) ==
    /\ k \in Cancellers /\ cancels[k] > 0 /\ ~canceled
    /\ Go(k, "idle", "cancel")
    /\ cancels' = [cancels EXCEPT ![k] = @ - 1]
    /\ self' = [self EXCEPT ![k] = NULL]
    /\ UNCHANGED <<barrier, coros, seen, quota, awaiter, mustSuspend>>

\* Coroutine::cancel(), which cancels the barrier its coroutine is blocked at.
CancelCoroutine(k, c) ==
    /\ k \in Cancellers /\ cancels[k] > 0 /\ ~cancelled[c] /\ c \in Active
    /\ Go(k, "idle", "pause")
    /\ cancels' = [cancels EXCEPT ![k] = @ - 1]
    /\ self' = [self EXCEPT ![k] = c]
    /\ cancelled' = [cancelled EXCEPT ![c] = TRUE]
    /\ UNCHANGED <<barrier, point, arrived, passed, scheduled, blocked, pausing, seen, quota,
                   awaiter, mustSuspend>>

Pause(k) ==
    LET c == self[k] IN
    /\ Go(k, "pause", IF ~blocked[c] THEN "idle" ELSE IF canceled THEN "resumed" ELSE "cancel")
    /\ pausing' = [pausing EXCEPT ![c] = blocked[c]]
    /\ UNCHANGED <<barrier, point, arrived, passed, scheduled, cancelled, blocked, agents>>

SetCanceled(k) ==
    /\ Go(k, "cancel", "cancelWaiters")
    /\ scope' = scope + 1
    /\ canceled' = TRUE
    /\ UNCHANGED <<count, waitList, destroyed, coros, agents>>

CancelWaiters(k) == At(k, "cancelWaiters") /\ DrainTurn(k, "exitCancel")

ExitCancel(k) ==
    /\ Go(k, "exitCancel", IF k \in Destroyers THEN "awaitScope"
                           ELSE IF self[k] = NULL THEN "idle" ELSE "resumed")
    /\ scope' = scope - 1
    /\ UNCHANGED <<count, waitList, canceled, destroyed, coros, agents>>

\* Coroutine::cancel() lets its coroutine run on.
Resumed(k) ==
    /\ Go(k, "resumed", "idle")
    /\ pausing' = [pausing EXCEPT ![self[k]] = FALSE]
    /\ UNCHANGED <<barrier, point, arrived, passed, scheduled, cancelled, blocked, agents>>

\* Mutant of Reset: the count of those that were cancelled is kept.
ResetKeepsCount(r) ==
    /\ r \in Resetters /\ canceled
    /\ Active = {} /\ \A a \in Agents : At(a, "idle")
    /\ canceled' = FALSE
    /\ UNCHANGED <<count, waitList, scope, destroyed, coros, pc, agents>>

\* reset() makes a cancelled barrier usable again once everybody has left it.
Reset(r) ==
    /\ r \in Resetters /\ canceled
    /\ Active = {} /\ \A a \in Agents : At(a, "idle")
    /\ canceled' = FALSE
    /\ count' = 0
    /\ UNCHANGED <<waitList, scope, destroyed, coros, pc, agents>>

-----------------------------------------------------------------------------
(* ~AsyncBarrier(): cancel(), and a wait for the calls under way *)

\* Whoever is at the barrier waits there or is inside the scope, and nobody comes
\* any more; a Coroutine::cancel() of a waiter is not about to call cancel().
InScope(a) == pc[a] \in {"checkCanceled", "enqueue", "recheckCanceled", "drainWaiters", "arrive",
                         "exitWaiting", "cancelWaiters", "exitCancel"}
Waits(c) == c \in {waitList[i] : i \in DOMAIN waitList}

Destroy(d) ==
    /\ d \in Destroyers /\ cancels[d] > 0
    /\ \A c \in Coroutines : \/ point[c] = "done" \/ Waits(c)
                             \/ \E w \in Workers : self[w] = c /\ InScope(w)
    /\ \A a \in Agents : InScope(a) \/ At(a, "idle")
    /\ Go(d, "idle", IF canceled THEN "awaitScope" ELSE "cancel")
    /\ UNCHANGED <<barrier, coros, agents>>

\* Mutant of AwaitScope: the destructor does not wait.
AwaitScopeNot(d) ==
    /\ Go(d, "awaitScope", "gone")
    /\ destroyed' = TRUE
    /\ UNCHANGED <<count, waitList, canceled, scope, coros, agents>>

AwaitScope(d) ==
    /\ scope = 0
    /\ Go(d, "awaitScope", "gone")
    /\ destroyed' = TRUE
    /\ UNCHANGED <<count, waitList, canceled, scope, coros, agents>>

-----------------------------------------------------------------------------
Step(a) ==
    \/ \E c \in Coroutines : PickUp(a, c)
    \/ AwaitReady(a) \/ AwaitSuspendCancelled(a) \/ AwaitSuspend(a) \/ Refused(a) \/ Resume(a)
    \/ EnterWait(a) \/ CheckCanceled(a) \/ Enqueue(a) \/ RecheckCanceled(a) \/ DrainWaiters(a)
    \/ Arrive(a) \/ ExitWait(a)
    \/ EnterRelease(a) \/ CheckLast(a) \/ ResetCount(a) \/ Release(a) \/ ExitRelease(a)
    \/ Pause(a) \/ SetCanceled(a) \/ CancelWaiters(a) \/ ExitCancel(a) \/ Resumed(a)
    \/ AwaitScope(a)

\* A barrier that is being destroyed is used no more.
Call(a) ==
    /\ \A d \in Destroyers : At(d, "idle")
    /\ \/ Cancel(a) \/ Reset(a) \/ Destroy(a)
       \/ \E c \in Coroutines : CancelCoroutine(a, c)

Next ==
    \/ \E c \in Coroutines : Start(c)
    \/ \E a \in Agents : Step(a) \/ Call(a)

Spec == Init /\ [][Next]_vars

\* Every thread that has something to do is scheduled again and again, and every
\* coroutine that may start is started.
Fairness ==
    /\ \A a \in Agents : WF_vars(Step(a))
    /\ WF_vars(\E c \in Coroutines : Start(c))
FairSpec == Spec /\ Fairness

-----------------------------------------------------------------------------
(* Properties *)

Pcs == {"idle", "ready", "suspend", "refused", "resume", "enterWait", "checkCanceled", "enqueue",
        "recheckCanceled", "drainWaiters", "arrive", "exitWaiting", "exitRefused",
        "enterRelease", "checkLast", "resetCount", "release", "exitNotLast", "failed",
        "pause", "cancel", "cancelWaiters", "exitCancel", "resumed", "awaitScope", "gone"}

\* Types; the count stays below the capacity (the assertions on m_count in
\* arriveAndWait()), and the scope counts the calls that are under way.
TypeOK ==
    /\ count \in 0 .. Capacity - 1
    /\ waitList \in Seq(Coroutines) /\ canceled \in BOOLEAN /\ destroyed \in BOOLEAN
    /\ scope \in 0 .. 2 * Cardinality(Agents)
    /\ point \in [Coroutines -> {"new", "start", "await", "done"}]
    /\ arrived \in [Coroutines -> 0 .. Rounds] /\ passed \in [Coroutines -> 0 .. Rounds]
    /\ scheduled \in [Coroutines -> 0 .. 2]
    /\ cancelled \in [Coroutines -> BOOLEAN] /\ blocked \in [Coroutines -> BOOLEAN]
    /\ pausing \in [Coroutines -> BOOLEAN]
    /\ pc \in [Agents -> Pcs] /\ self \in [Agents -> Coroutines \cup {NULL}]
    /\ seen \in [Agents -> 0 .. Capacity - 1] /\ quota \in [Agents -> 0 .. Capacity]
    /\ awaiter \in [Agents -> Coroutines \cup {NULL}]
    /\ mustSuspend \in [Agents -> BOOLEAN] /\ cancels \in [Agents -> Nat]

\* The worker has its coroutine in hand: it is not in the wait list, and nobody
\* else may schedule it.
InHand(w, c) ==
    /\ w \in Workers /\ self[w] = c
    /\ \/ pc[w] \in {"ready", "suspend", "enterWait", "checkCanceled", "enqueue", "refused",
                     "exitRefused", "resume", "exitNotLast"}
       \/ pc[w] \in {"enterRelease", "checkLast", "resetCount", "release"} /\ awaiter[w] = NULL
       \/ pc[w] = "release" /\ ~Waits(c)

\* A coroutine at the barrier is in one place: waiting, in a ready queue, or in
\* the hand of one worker.  So no waiter is lost, and none is resumed twice by a
\* release, a cancel() and an arrival that drains the list at the same time.
OnePlace ==
    \A c \in Coroutines :
        scheduled[c] + Cardinality({i \in DOMAIN waitList : waitList[i] = c})
                     + Cardinality({w \in Workers : InHand(w, c)})
            = IF c \in Active THEN 1 ELSE 0

\* The types hold, and every coroutine is in its one place.
Consistent == TypeOK /\ OnePlace

\* Nobody gets past the barrier for the k-th time before all have come to it for
\* the k-th time, whoever counts, resets the count or releases meanwhile.
\* (For exactly Capacity participants.)
RoundSafety == \A c, d \in Coroutines : passed[c] <= arrived[d]

\* What an agent has put in the wait list and m_count does not show: its own
\* coroutine, or those it still has to release.
Uncounted(a) ==
    CASE pc[a] \in {"recheckCanceled", "arrive"} -> 1
      [] pc[a] \in {"enterRelease", "checkLast", "resetCount"} /\ awaiter[a] # NULL -> 1
      [] pc[a] = "release" -> quota[a]
      [] OTHER -> 0

\* Unless the barrier is cancelled, m_count and the agents under way account for
\* every waiter: the release loop takes out as many as there are to take.
CountedWaiters ==
    canceled \/ Len(waitList) = count + MapThenSumSet(Uncounted, Agents)

\* op is never null in the release loop of arriveAndRelease(), and the success
\* that arriveAndWait() asserts is one: who saw Capacity - 1 finds the others.
NoNullWaiter == \A a \in Agents : ~At(a, "failed")

\* When the destructor returns nobody is inside the barrier, and nobody comes back
\* to it: whoever still has to get out was cancelled, so that await_resume() throws
\* before it looks at the barrier.
DestroyedQuiet ==
    destroyed =>
        /\ waitList = <<>>
        /\ \A c \in Active : cancelled[c]
        /\ \A a \in Agents : pc[a] \in {"idle", "resume", "refused", "resumed", "gone"}

\* A cancelled barrier holds nobody: whoever waits or arrives goes on and ends,
\* also the one that enqueues itself while cancel() drains the list.
CancelReleasesAll == \A c \in Coroutines : (canceled /\ c \in Active) ~> (point[c] = "done")
=============================================================================
