------------------------- MODULE AsyncCountDownEvent -------------------------
(***************************************************************************)
(* AsyncCountDownEvent and its awaiter (event/async_countdown_event.cpp):  *)
(* coroutines wait until a counter is zero; the call that takes the        *)
(* counter to zero schedules the waiters.  AsyncEvent is this event with   *)
(* MaxCount = 1, signal() being countDown() and reset() countUp(), and     *)
(* AsyncValue waits on such an event.                                      *)
(*                                                                         *)
(* Workers resume scheduled coroutines, counters call countDown() and      *)
(* countUp(), attachers call enqueue(event), which makes a simple task     *)
(* wait in place of a coroutine, cancellers call Coroutine::cancel() and a *)
(* destroyer runs the destructor.  One action is one access to m_count,    *)
(* m_waitQueue or m_asyncScope; m_waitQueue is the atomic queue that       *)
(* ConcurrentFifoList is shown to implement.                               *)
(***************************************************************************)
EXTENDS Integers, Sequences, FiniteSets, Whereabouts

CONSTANTS Coroutines, SimpleTasks,
          Workers, Counters, Attachers, Cancellers, Destroyers, NULL,
          InitCount, MaxCount, \* the initial count, and m_maxCount
          ScopeRange,          \* m_asyncScope wraps at this value (2^8)
          CountRange,          \* and m_count of m_waitQueue at this one (2^64)
          Rounds,              \* bound: how often each coroutine waits
          Downs, Ups           \* bounds: how often each counter calls countDown, countUp

Waiters == Coroutines \cup SimpleTasks
Agents  == Workers \cup Counters \cup Attachers \cup Cancellers \cup Destroyers

ASSUME NullAssumption  == NULL \notin Waiters
ASSUME CountAssumption == MaxCount \in Nat \ {0} /\ InitCount \in 0 .. 1
ASSUME BoundAssumption == /\ Rounds \in Nat \ {0} /\ Downs \in Nat /\ Ups \in Nat
                          /\ ScopeRange \in Nat \ {0}
ASSUME RangeAssumption == CountRange \in Nat \ {0}

VARIABLES
    count, waitQueue, scope, \* m_count, m_waitQueue, m_asyncScope
    destroyed,               \* the destructor has returned
    point,                   \* where a waiter goes on when it is resumed
    rounds,                  \* how often it still waits
    scheduled,               \* how often it is in the ready queues of the pool
    cancelled,               \* m_cancelled of the coroutine
    blocked,                 \* suspended, with maybeBlocked() set in its awaiter
    pausing,                 \* its status is PauseOnRunning or Paused
    pc, self, hand, back,    \* of an agent: its place, the waiter it works for, the one
    left, found,             \*   it dequeued, the caller of resumeWaiting(), the loop
    downs, ups               \*   of m_waitQueue.remove(), and the calls it may still make

event  == <<count, waitQueue, scope, destroyed>>
coros  == <<point, rounds, scheduled, cancelled, blocked, pausing>>
agents == <<self, hand, back, left, found, downs, ups>>
vars   == <<event, coros, pc, agents>>

Init ==
    /\ count = InitCount /\ waitQueue = <<>> /\ scope = 0 /\ destroyed = FALSE
    /\ point = [c \in Waiters |-> IF c \in Coroutines THEN "start" ELSE "new"]
    /\ rounds = [c \in Waiters |-> IF c \in Coroutines THEN Rounds ELSE 1]
    /\ scheduled = [c \in Waiters |-> IF c \in Coroutines THEN 1 ELSE 0]
    /\ cancelled = [c \in Waiters |-> FALSE]
    /\ blocked = [c \in Waiters |-> FALSE]
    /\ pausing = [c \in Waiters |-> FALSE]
    /\ pc = [a \in Agents |-> "idle"]
    /\ self = [a \in Agents |-> NULL]
    /\ hand = [a \in Agents |-> NULL]
    /\ back = [a \in Agents |-> "idle"]
    /\ left = [a \in Agents |-> 0]
    /\ found = [a \in Agents |-> FALSE]
    /\ downs = [a \in Agents |-> IF a \in Counters THEN Downs ELSE 0]
    /\ ups = [a \in Agents |-> IF a \in Counters THEN Ups ELSE 0]

At(a, s) == pc[a] = s
EmptyHand(a) == hand' = [hand EXCEPT ![a] = NULL]
Goto(a, s) == pc' = [pc EXCEPT ![a] = s]
Go(a, from, to) == At(a, from) /\ Goto(a, to)
Schedule(c) == scheduled' = [scheduled EXCEPT ![c] = @ + 1]
isZero == count = 0

\* Calls resumeWaiting(), which returns to `to`.
CallResumeWaiting(a, to) == Goto(a, "dequeue") /\ back' = [back EXCEPT ![a] = to]

-----------------------------------------------------------------------------
(* bool countDown(), bool countUp() *)

\* Mutant of CountDown: the scope is not entered, nor left by what follows.
CountDownUnscoped(a) ==
    /\ a \in Counters /\ downs[a] > 0
    /\ Go(a, "idle", "decrement")
    /\ downs' = [downs EXCEPT ![a] = @ - 1]
    /\ UNCHANGED <<event, coros, self, hand, back, left, found, ups>>

CountDown(a) ==
    /\ a \in Counters /\ downs[a] > 0
    /\ Go(a, "idle", "decrement")
    /\ scope' = (scope + 1) % ScopeRange
    /\ downs' = [downs EXCEPT ![a] = @ - 1]
    /\ UNCHANGED <<count, waitQueue, destroyed, coros, self, hand, back, left, found, ups>>

\* Only the call that takes the count from one to zero resumes the waiters.
Decrement(a) ==
    /\ At(a, "decrement")
    /\ count' = IF isZero THEN 0 ELSE count - 1
    /\ IF count = 1
         THEN CallResumeWaiting(a, "exit")
         ELSE Goto(a, "exit") /\ UNCHANGED back
    /\ UNCHANGED <<waitQueue, scope, destroyed, coros, self, hand, left, found, downs, ups>>

\* The scope of countDown() ends.
Exit(a) ==
    /\ Go(a, "exit", "idle")
    /\ scope' = (scope - 1) % ScopeRange
    /\ UNCHANGED <<count, waitQueue, destroyed, coros, agents>>

CountUp(a) ==
    /\ At(a, "idle") /\ a \in Counters /\ ups[a] > 0
    /\ count' = IF count = MaxCount THEN count ELSE count + 1
    /\ ups' = [ups EXCEPT ![a] = @ - 1]
    /\ UNCHANGED <<waitQueue, scope, destroyed, coros, pc, self, hand, back, left, found, downs>>

-----------------------------------------------------------------------------
(* void resumeWaiting() *)

DequeueWaiter(a) ==
    /\ At(a, "dequeue")
    /\ IF waitQueue = <<>>
         THEN Goto(a, back[a]) /\ UNCHANGED <<waitQueue, hand>>
         ELSE /\ Goto(a, "wake")
              /\ hand' = [hand EXCEPT ![a] = Head(waitQueue)]
              /\ waitQueue' = Tail(waitQueue)
    /\ UNCHANGED <<count, scope, destroyed, coros, self, back, left, found, downs, ups>>

\* Mutant of Wake: the count is not looked at again.
WakeBlind(a) ==
    /\ Go(a, "wake", "again")
    /\ Schedule(hand[a]) /\ EmptyHand(a)
    /\ UNCHANGED <<event, point, rounds, cancelled, blocked, pausing, self, back, left, found,
                   downs, ups>>

\* The count is looked at again with the waiter in hand: a countUp() may have come.
Wake(a) ==
    /\ At(a, "wake")
    /\ IF isZero
         THEN Goto(a, "again") /\ Schedule(hand[a]) /\ EmptyHand(a)
         ELSE Goto(a, "requeue") /\ UNCHANGED <<scheduled, hand>>
    /\ UNCHANGED <<event, point, rounds, cancelled, blocked, pausing, self, back, left, found,
                   downs, ups>>

Requeue(a) ==
    /\ Go(a, "requeue", "again")
    /\ waitQueue' = Append(waitQueue, hand[a]) /\ EmptyHand(a)
    /\ UNCHANGED <<count, scope, destroyed, coros, self, back, left, found, downs, ups>>

Again(a) ==
    /\ Go(a, "again", IF isZero THEN "dequeue" ELSE back[a])
    /\ UNCHANGED <<event, coros, agents>>

-----------------------------------------------------------------------------
(* bool enqueue(Coroutine& ): true if the coroutine was wait-listed *)

EnqueueEntry(a) ==
    /\ Go(a, "entry", IF isZero THEN "notListed" ELSE "scope")
    /\ UNCHANGED <<event, coros, agents>>

EnqueueScope(a) ==
    /\ Go(a, "scope", "enqueue")
    /\ scope' = (scope + 1) % ScopeRange
    /\ UNCHANGED <<count, waitQueue, destroyed, coros, agents>>

\* From here on the waiter may be resumed by another agent.
Enqueue(a) ==
    /\ Go(a, "enqueue", "recheck")
    /\ waitQueue' = Append(waitQueue, self[a])
    /\ UNCHANGED <<count, scope, destroyed, coros, agents>>

\* Mutants of Recheck: the count is not looked at again; at zero the waiter is
\* woken though it is in the queue.
RecheckNever(a) == Go(a, "recheck", "listed") /\ UNCHANGED <<event, coros, agents>>

RecheckWakesSelf(a) ==
    /\ Go(a, "recheck", "listed")
    /\ IF isZero THEN Schedule(self[a]) ELSE UNCHANGED scheduled
    /\ UNCHANGED <<event, point, rounds, cancelled, blocked, pausing, agents>>

Recheck(a) ==
    /\ At(a, "recheck")
    /\ IF isZero
         THEN CallResumeWaiting(a, "listed")
         ELSE Goto(a, "listed") /\ UNCHANGED back
    /\ UNCHANGED <<event, coros, self, hand, left, found, downs, ups>>

\* The scope ends.  await_suspend() then stores maybeBlocked = true a second
\* time, in an awaiter that may be gone by now; the value is the one it had.
Listed(a) ==
    /\ Go(a, "listed", "idle")
    /\ scope' = (scope - 1) % ScopeRange
    /\ UNCHANGED <<count, waitQueue, destroyed, coros, agents>>

\* enqueue() returned false: await_suspend() resumes the coroutine at once, or
\* schedules it if it has to be suspended; enqueueAlways() asserts that the count
\* is zero and schedules the simple task.
NotListed(a) ==
    LET c == self[a] IN
    /\ At(a, "notListed")
    /\ blocked' = [blocked EXCEPT ![c] = FALSE]
    /\ \/ Goto(a, "idle") /\ Schedule(c)
       \/ a \notin Attachers /\ Goto(a, "resume") /\ UNCHANGED scheduled
    /\ UNCHANGED <<event, point, rounds, cancelled, pausing, agents>>

\* enqueue(AsyncCountDownEvent& ) and enqueue(SyncManualResetEvent& ): a new
\* simple task waits.
EnqueueAlways(a, s) ==
    /\ a \in Attachers /\ point[s] = "new"
    /\ Go(a, "idle", "entry")
    /\ self' = [self EXCEPT ![a] = s]
    /\ point' = [point EXCEPT ![s] = "await"]
    /\ UNCHANGED <<event, rounds, scheduled, cancelled, blocked, pausing, hand, back, left,
                   found, downs, ups>>

-----------------------------------------------------------------------------
(* The workers of the pool and AsyncCountDownEventAwaiter *)

PickUp(w, c) ==
    /\ w \in Workers /\ scheduled[c] > 0
    /\ Go(w, "idle", IF point[c] = "start" THEN "ready" ELSE "resume")
    /\ scheduled' = [scheduled EXCEPT ![c] = @ - 1]
    /\ self' = [self EXCEPT ![w] = c]
    /\ UNCHANGED <<event, point, rounds, cancelled, blocked, pausing, hand, back, left,
                   found, downs, ups>>

\* await_ready(): the advice is to suspend, not to suspend a cancelled coroutine,
\* or to look at the count.
AwaitReady(w) ==
    /\ At(w, "ready")
    /\ \/ Goto(w, "suspend")
       \/ (cancelled[self[w]] \/ isZero) /\ Goto(w, "resume")
    /\ UNCHANGED <<event, coros, agents>>

AwaitSuspendCancelled(w) ==
    /\ Go(w, "suspend", "resume")
    /\ cancelled[self[w]]
    /\ UNCHANGED <<event, coros, agents>>

AwaitSuspend(w) ==
    LET c == self[w] IN
    /\ Go(w, "suspend", "entry")
    /\ blocked' = [blocked EXCEPT ![c] = TRUE]
    /\ point' = [point EXCEPT ![c] = "await"]
    /\ UNCHANGED <<event, rounds, scheduled, cancelled, pausing, self, hand, back, left,
                   found, downs, ups>>

\* await_resume(): waits for a cancel() in progress; a cancelled coroutine ends by
\* an exception, another one ends or comes back to wait again.
Resume(w) ==
    LET c == self[w]
        ends == cancelled[c] \/ rounds[c] = 1
    IN  /\ At(w, "resume") /\ ~pausing[c]
        /\ Goto(w, IF ends THEN "idle" ELSE "ready")
        /\ blocked' = [blocked EXCEPT ![c] = FALSE]
        /\ rounds' = [rounds EXCEPT ![c] = @ - 1]
        /\ point' = [point EXCEPT ![c] = IF ends THEN "done" ELSE "start"]
        /\ UNCHANGED <<event, scheduled, cancelled, pausing, agents>>

-----------------------------------------------------------------------------
(* Coroutine::cancel(), AsyncCountDownEventAwaiter::cancel() and remove() *)

Cancel(k, c) ==
    /\ k \in Cancellers /\ c \in Coroutines /\ ~cancelled[c] /\ point[c] # "done"
    /\ Go(k, "idle", "pause")
    /\ cancelled' = [cancelled EXCEPT ![c] = TRUE]
    /\ self' = [self EXCEPT ![k] = c]
    /\ UNCHANGED <<event, point, rounds, scheduled, blocked, pausing, hand, back, left,
                   found, downs, ups>>

\* A blocked coroutine is kept from running on until the cancel is over.
Pause(k) ==
    LET c == self[k] IN
    /\ Go(k, "pause", IF blocked[c] THEN "remove" ELSE "idle")
    /\ pausing' = [pausing EXCEPT ![c] = blocked[c]]
    /\ UNCHANGED <<event, point, rounds, scheduled, cancelled, blocked, agents>>

\* A zero count wakes the coroutine anyway; else its place in the queue is searched.
Remove(k) ==
    /\ Go(k, "remove", IF isZero THEN "removed" ELSE "search")
    /\ UNCHANGED <<event, coros, agents>>

\* What m_count of the queue may be: a call counts a waiter after it has put it
\* into the queue, or taken it out, and those at these places may still have to.
QueueCounts ==
    LET joining == {a \in Agents : pc[a] \in {"recheck", "again", "take"}}
        taking  == {a \in Agents : pc[a] \in {"wake", "compare"}}
    IN  {n \in 0 .. CountRange - 1 :
             \E j \in 0 .. Cardinality(joining), t \in 0 .. Cardinality(taking) :
                 n = (Len(waitQueue) + t - j) % CountRange}

\* Mutant of RemoveSearch: one place short, and not twice the count.
RemoveSearchShort(k) ==
    /\ Go(k, "search", "take")
    /\ \E n \in QueueCounts : left' = [left EXCEPT ![k] = (n + CountRange - 1) % CountRange]
    /\ UNCHANGED <<event, coros, self, hand, back, found, downs, ups>>

\* initialCount, twice which the search goes on for.
RemoveSearch(k) ==
    /\ Go(k, "search", "take")
    /\ \E n \in QueueCounts : left' = [left EXCEPT ![k] = (2 * n) % CountRange]
    /\ UNCHANGED <<event, coros, self, hand, back, found, downs, ups>>

RemoveTake(k) ==
    /\ At(k, "take")
    /\ IF left[k] = 0 \/ waitQueue = <<>>
         THEN /\ Goto(k, "resumeLate")
              /\ left' = [left EXCEPT ![k] = 0]
              /\ UNCHANGED <<waitQueue, hand>>
         ELSE /\ Goto(k, "compare") /\ UNCHANGED left
              /\ hand' = [hand EXCEPT ![k] = Head(waitQueue)]
              /\ waitQueue' = Tail(waitQueue)
    /\ UNCHANGED <<count, scope, destroyed, coros, self, back, found, downs, ups>>

RemoveFound(k) ==
    /\ hand[k] = self[k]
    /\ Go(k, "compare", "resumeLate")
    /\ found' = [found EXCEPT ![k] = TRUE]
    /\ left' = [left EXCEPT ![k] = 0] /\ EmptyHand(k)
    /\ UNCHANGED <<event, coros, self, back, downs, ups>>

RemovePutBack(k) ==
    /\ hand[k] # self[k]
    /\ Go(k, "compare", "take")
    /\ waitQueue' = Append(waitQueue, hand[k]) /\ EmptyHand(k)
    /\ left' = [left EXCEPT ![k] = @ - 1]
    /\ UNCHANGED <<count, scope, destroyed, coros, self, back, found, downs, ups>>

\* Mutant of ResumeLate: the count is not looked at after the search.
ResumeLateNever(k) == Go(k, "resumeLate", "removed") /\ UNCHANGED <<event, coros, agents>>

\* A count that got to zero meanwhile found the queue without the waiter in hand.
ResumeLate(k) ==
    /\ At(k, "resumeLate")
    /\ IF isZero
         THEN CallResumeWaiting(k, "removed")
         ELSE Goto(k, "removed") /\ UNCHANGED back
    /\ UNCHANGED <<event, coros, self, hand, left, found, downs, ups>>

\* A coroutine that was removed is scheduled, and may run on.
Removed(k) ==
    LET c == self[k] IN
    /\ Go(k, "removed", "idle")
    /\ IF found[k] THEN Schedule(c) ELSE UNCHANGED scheduled
    /\ pausing' = [pausing EXCEPT ![c] = FALSE]
    /\ found' = [found EXCEPT ![k] = FALSE]
    /\ UNCHANGED <<event, point, rounds, cancelled, blocked, self, hand, back, left, downs, ups>>

-----------------------------------------------------------------------------
(* ~AsyncCountDownEvent() *)

Waiting(c) == \E i \in DOMAIN waitQueue : waitQueue[i] = c
Draining(a) == pc[a] \in {"dequeue", "wake", "requeue", "again"}
InHand(a, c) == hand[a] = c

\* The event is destroyed when no coroutine comes to wait any more and no cancel()
\* of one is under way, since remove() is outside the scope; a countDown() may be.
Destroy(d) ==
    /\ d \in Destroyers
    /\ Go(d, "idle", "cancelWaiters")
    /\ \A c \in Waiters : \/ Waiting(c) \/ point[c] \in {"done", "new"}
                          \/ \E a \in Agents : InHand(a, c)
                          \/ point[c] = "await" /\ scheduled[c] > 0
    /\ \A a \in Agents : \/ pc[a] \in {"idle", "resume", "decrement", "exit"}
                         \/ Draining(a) /\ a \notin Cancellers
    /\ UNCHANGED <<event, coros, agents>>

CancelWaiters(d) ==
    /\ At(d, "cancelWaiters")
    /\ IF waitQueue = <<>>
         THEN Goto(d, "awaitScope") /\ UNCHANGED <<waitQueue, cancelled, scheduled>>
         ELSE LET c == Head(waitQueue) IN
              /\ cancelled' = [cancelled EXCEPT ![c] = TRUE]
              /\ Schedule(c)
              /\ waitQueue' = Tail(waitQueue)
              /\ UNCHANGED pc
    /\ UNCHANGED <<count, scope, destroyed, point, rounds, blocked, pausing, agents>>

AwaitScope(d) ==
    /\ scope = 0
    /\ Go(d, "awaitScope", "gone")
    /\ destroyed' = TRUE
    /\ UNCHANGED <<count, waitQueue, scope, coros, agents>>

-----------------------------------------------------------------------------
Step(a) ==
    \/ Decrement(a) \/ Exit(a)
    \/ DequeueWaiter(a) \/ Wake(a) \/ Requeue(a) \/ Again(a)
    \/ EnqueueEntry(a) \/ EnqueueScope(a) \/ Enqueue(a) \/ Recheck(a) \/ Listed(a) \/ NotListed(a)
    \/ (\E c \in Waiters : PickUp(a, c))
    \/ AwaitReady(a) \/ AwaitSuspendCancelled(a) \/ AwaitSuspend(a) \/ Resume(a)
    \/ Pause(a) \/ Remove(a) \/ RemoveSearch(a) \/ RemoveTake(a) \/ RemoveFound(a) \/ RemovePutBack(a)
    \/ ResumeLate(a) \/ Removed(a)
    \/ CancelWaiters(a) \/ AwaitScope(a)

\* A destroyed event is used no more, and its counters are not called again.
Call(a) ==
    /\ \A d \in Destroyers : At(d, "idle")
    /\ \/ CountDown(a) \/ CountUp(a) \/ Destroy(a)
       \/ \E c \in Waiters : EnqueueAlways(a, c) \/ Cancel(a, c)

Next == \E a \in Agents : Step(a) \/ Call(a)

Spec == Init /\ [][Next]_vars

\* Every thread that has something to do is scheduled again and again.
Fairness == \A a \in Agents : WF_vars(Step(a))
FairSpec == Spec /\ Fairness
-----------------------------------------------------------------------------
(* Properties *)

Places == {"idle", "decrement", "exit", "dequeue", "wake", "requeue", "again", "entry",
           "scope", "enqueue", "recheck", "listed", "notListed", "ready", "suspend", "resume",
           "pause", "remove", "search", "take", "compare", "resumeLate", "removed",
           "cancelWaiters", "awaitScope", "gone"}

\* The type invariant; the count stays within its bounds (the assertions on m_count).
TypeOK ==
    /\ count \in 0 .. MaxCount
    /\ waitQueue \in Seq(Waiters)
    /\ scope \in 0 .. ScopeRange - 1
    /\ destroyed \in BOOLEAN
    /\ point \in [Waiters -> {"new", "start", "await", "done"}]
    /\ rounds \in [Waiters -> 0 .. Rounds]
    /\ scheduled \in [Waiters -> Nat]
    /\ cancelled \in [Waiters -> BOOLEAN]
    /\ blocked \in [Waiters -> BOOLEAN]
    /\ pausing \in [Waiters -> BOOLEAN]
    /\ pc \in [Agents -> Places]
    /\ self \in [Agents -> Waiters \cup {NULL}]
    /\ hand \in [Agents -> Waiters \cup {NULL}]
    /\ back \in [Agents -> {"idle", "exit", "listed", "removed"}]
    /\ left \in [Agents -> Nat]
    /\ found \in [Agents -> BOOLEAN]
    /\ downs \in [Agents -> 0 .. Downs] /\ ups \in [Agents -> 0 .. Ups]

\* Agent a runs waiter c, or has it in hand.
Has(a, c) ==
    \/ self[a] = c /\ pc[a] \in {"ready", "suspend", "resume", "entry", "scope", "enqueue",
                                  "notListed"}
    \/ self[a] = c /\ found[a]
    \/ InHand(a, c)

\* Every waiter is in exactly one place: scheduled, running, in the queue, or in
\* the hands of one agent.  It is never resumed twice for one wait, and never
\* dropped, whatever countDown(), countUp(), cancel() and the destructor interleave.
Live == {c \in Waiters : point[c] \notin {"new", "done"}}
Hands == {h \in Agents \X Waiters : Has(h[1], h[2])}
OnePlace == InOnePlace(Waiters, Live, scheduled, waitQueue, Hands)

Consistent == TypeOK /\ OnePlace

\* Every behaviour is one of WaitEvent, where those who wait are the ones in the
\* queue or in somebody's hand: nobody is woken by a count that was zero a moment
\* ago, or by the search of remove() for somebody else.
InQueueOrHand ==
    {c \in Waiters : \/ Waiting(c)
                      \/ \E a \in Agents : InHand(a, c) \/ (self[a] = c /\ found[a])}

Abstract == INSTANCE WaitEvent WITH waiting <- InQueueOrHand
ImplementsWaitEvent == Abstract!Spec

\* A zero event with waiters has an agent that is still going to look at them: no
\* wakeup is lost between the decrement and the enqueue, nor to a waiter that
\* was in somebody's hand when the queue was drained.
NoStrandedWaiter ==
    isZero /\ waitQueue # <<>> =>
        \E a \in Agents :
            pc[a] \in {"dequeue", "wake", "requeue", "again", "recheck", "take", "compare",
                       "resumeLate", "cancelWaiters"}

\* The destructor leaves no waiter behind and returns only after every call inside
\* the scope: nobody touches the event afterwards.
DestroyedQuiet ==
    destroyed =>
        /\ waitQueue = <<>>
        /\ \A a \in Agents : pc[a] \in {"idle", "resume", "gone"}

\* An event that stays zero wakes everyone.
ZeroWakesAll == <>[]isZero => <>(\A c \in Waiters : point[c] \in {"new", "done"})

\* A cancel() whose search begins when its coroutine is in the queue, and everyone
\* who is there has been counted, ends the wait even if nobody ever counts down:
\* the coroutine is found wherever it is in the queue and whoever comes meanwhile.
\* (A search of remove() that begins before enqueue() has counted may find nobody.)
CancelEndsWait ==
    \A c \in Coroutines :
        (/\ \E k \in Cancellers : At(k, "search") /\ self[k] = c /\ Waiting(c)
         /\ \A a \in Agents : pc[a] \notin {"recheck", "again"}) ~> point[c] = "done"
=============================================================================
