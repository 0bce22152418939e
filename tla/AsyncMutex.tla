------------------------------ MODULE AsyncMutex ------------------------------
(***************************************************************************)
(* AsyncMutex and AsyncMutexAwaiter (event/async_mutex.cpp and .hpp): a    *)
(* mutex whose waiters are suspended coroutines.  The owner hands it to    *)
(* the first waiter; who finds no waiter clears m_ownerCoroutine and then  *)
(* looks for one that came too late.                                       *)
(*                                                                         *)
(* Agents run the code: the workers of the thread pool resume scheduled    *)
(* coroutines, cancellers call Coroutine::cancel() on a waiting one,       *)
(* closers call AsyncMutex::cancel(), and a destroyer runs ~AsyncMutex().  *)
(* One action is one access to m_ownerCoroutine, m_waitList, m_cancelled   *)
(* or m_asyncScope.  m_waitList is the atomic queue that                   *)
(* ConcurrentFifoList is shown to implement.                               *)
(***************************************************************************)
EXTENDS Integers, Sequences, FiniteSets, Whereabouts

CONSTANTS Coroutines, Workers, Cancellers, Closers, Destroyers, NULL,
          CountRange,  \* m_count of m_waitList wraps at this value (2^64)
          Rounds,      \* bound: how often each coroutine locks the mutex
          Sessions,    \* bounds, one of which holds: the coroutines that lock the mutex
                       \* (party) and the agents that run (cast)
          QuietDestroy \* the mutex is destroyed only when no call is under way

Agents == Workers \cup Cancellers \cup Closers \cup Destroyers

ASSUME NullAssumption   == NULL \notin Coroutines
ASSUME RoundsAssumption == Rounds \in Nat \ {0} /\ QuietDestroy \in BOOLEAN
ASSUME RangeAssumption  == CountRange \in Nat \ {0}
ASSUME RolesAssumption  == Closers \cap Destroyers = {}
ASSUME SessionsAssumption == Sessions \subseteq [party : SUBSET Coroutines, cast : SUBSET Agents]

VARIABLES
    owner, waitList,      \* m_ownerCoroutine, m_waitList
    scope,                \* m_asyncScope: how many lock() calls are under way
    mutexCancelled,       \* m_cancelled of the mutex
    destroyed,            \* ~AsyncMutex() has returned
    point,                \* where a coroutine goes on when it is resumed
    rounds,               \* how often it still locks
    scheduled,            \* how often it is in the ready queues of the pool
    cancelled,            \* m_cancelled of the coroutine
    blocked,              \* suspended, with maybeBlocked() set in its awaiter
    pausing,              \* its status is PauseOnRunning or Paused
    pc, self, next, back, \* of an agent: its place, the coroutine it runs or
    left, found           \*   cancels, nextOwnerCoroutine, who called lock(),
                          \*   and the loop of m_waitList.remove()

mutex  == <<owner, waitList, scope, mutexCancelled, destroyed>>
coros  == <<point, rounds, scheduled, cancelled, blocked, pausing>>
agents == <<self, next, back, left, found>>
vars   == <<mutex, coros, pc, agents>>

Init ==
    /\ owner = NULL /\ waitList = <<>> /\ scope = 0
    /\ mutexCancelled = FALSE /\ destroyed = FALSE
    /\ \E s \in Sessions :
           /\ point = [c \in Coroutines |-> IF c \in s.party THEN "start" ELSE "done"]
           /\ scheduled = [c \in Coroutines |-> IF c \in s.party THEN 1 ELSE 0]
           /\ pc = [a \in Agents |-> IF a \in s.cast THEN "idle" ELSE "gone"]
    /\ rounds = [c \in Coroutines |-> Rounds]
    /\ cancelled = [c \in Coroutines |-> FALSE]
    /\ blocked = [c \in Coroutines |-> FALSE]
    /\ pausing = [c \in Coroutines |-> FALSE]
    /\ self = [a \in Agents |-> NULL]
    /\ next = [a \in Agents |-> NULL]
    /\ back = [a \in Agents |-> "idle"]
    /\ left = [a \in Agents |-> 0]
    /\ found = [a \in Agents |-> FALSE]

At(a, s) == pc[a] = s
Goto(a, s) == pc' = [pc EXCEPT ![a] = s]
Go(a, from, to) == At(a, from) /\ Goto(a, to)
Schedule(c) == scheduled' = [scheduled EXCEPT ![c] = @ + 1]
MarkCancelled(c) == cancelled' = [cancelled EXCEPT ![c] = TRUE]

\* The agent calls lock(n) and goes on at `to` when it returns.
CallLock(a, n, to) ==
    /\ Goto(a, "enter")
    /\ next' = [next EXCEPT ![a] = n]
    /\ back' = [back EXCEPT ![a] = to]

\* m_waitList.dequeue() into nextOwnerCoroutine, going on at `some` or `none`.
DequeueNext(a, some, none) ==
    IF waitList = <<>>
      THEN Goto(a, none) /\ UNCHANGED <<waitList, next>>
      ELSE /\ Goto(a, some)
           /\ next' = [next EXCEPT ![a] = Head(waitList)]
           /\ waitList' = Tail(waitList)

\* while (dequeue()) { setCancelled(); schedule(); } - one turn, or on to `to`.
DrainTurn(a, to) ==
    /\ IF waitList = <<>>
         THEN Goto(a, to) /\ UNCHANGED <<waitList, cancelled, scheduled>>
         ELSE /\ MarkCancelled(Head(waitList))
              /\ Schedule(Head(waitList))
              /\ waitList' = Tail(waitList)
              /\ UNCHANGED pc
    /\ UNCHANGED <<owner, scope, mutexCancelled, destroyed, point, rounds, blocked,
                   pausing, agents>>

-----------------------------------------------------------------------------
(* The workers of the pool *)

\* A worker takes a scheduled coroutine and resumes it.
PickUp(w, c) ==
    /\ w \in Workers /\ scheduled[c] > 0
    /\ Go(w, "idle", IF point[c] = "start" THEN "ready" ELSE "resume")
    /\ scheduled' = [scheduled EXCEPT ![c] = @ - 1]
    /\ self' = [self EXCEPT ![w] = c]
    /\ UNCHANGED <<mutex, point, rounds, cancelled, blocked, pausing, next, back, left, found>>

\* AsyncMutexAwaiter::await_ready().  onReady() may advise to suspend, when the
\* pool or its allowance of chained execution asks for it, or not to suspend a
\* cancelled coroutine.
AwaitReady(w) ==
    /\ At(w, "ready")
    /\ \/ Goto(w, "suspend")
       \/ cancelled[self[w]] /\ Goto(w, "resume")
       \/ ~cancelled[self[w]] /\ Goto(w, IF mutexCancelled THEN "resume" ELSE "tryLock")
    /\ UNCHANGED <<mutex, coros, agents>>

\* Mutant of TryLock: an owner is overwritten.
TryLockBlind(w) ==
    /\ Go(w, "tryLock", "resume")
    /\ owner' = self[w]
    /\ UNCHANGED <<waitList, scope, mutexCancelled, destroyed, coros, agents>>

TryLock(w) ==
    /\ At(w, "tryLock")
    /\ owner' = IF owner = NULL THEN self[w] ELSE owner
    /\ Goto(w, IF owner = NULL THEN "resume" ELSE "suspend")
    /\ UNCHANGED <<waitList, scope, mutexCancelled, destroyed, coros, agents>>

\* AsyncMutexAwaiter::await_suspend() of a cancelled mutex or coroutine.
AwaitSuspendCancelled(w) ==
    /\ At(w, "suspend")
    /\ point' = [point EXCEPT ![self[w]] = "await"]
    /\ \/ /\ cancelled[self[w]]
          /\ Goto(w, "resume")
          /\ UNCHANGED <<scheduled, cancelled>>
       \/ /\ mutexCancelled
          /\ MarkCancelled(self[w])
          /\ \/ Goto(w, "idle") /\ Schedule(self[w])
             \/ Goto(w, "resume") /\ UNCHANGED scheduled
    /\ UNCHANGED <<mutex, rounds, blocked, pausing, agents>>

\* ... and of a live one: from here on another agent may resume the coroutine
\* while this one is still in lock().
AwaitSuspend(w) ==
    /\ At(w, "suspend") /\ ~mutexCancelled
    /\ point' = [point EXCEPT ![self[w]] = "await"]
    /\ blocked' = [blocked EXCEPT ![self[w]] = TRUE]
    /\ CallLock(w, self[w], "idle")
    /\ UNCHANGED <<mutex, rounds, scheduled, cancelled, pausing, self, left, found>>

\* AsyncMutexAwaiter::await_resume(): the scoped lock exists before onResume(),
\* which waits for a cancel() in progress and throws in a cancelled coroutine.
Resume(w) ==
    LET c == self[w] IN
    /\ At(w, "resume") /\ ~pausing[c]
    /\ cancelled' = [cancelled EXCEPT ![c] = @ \/ mutexCancelled]
    /\ blocked' = [blocked EXCEPT ![c] = FALSE]
    /\ Goto(w, IF cancelled'[c] THEN "unlock" ELSE "critical")
    /\ UNCHANGED <<mutex, point, rounds, scheduled, pausing, agents>>

\* The coroutine leaves the block that holds the scoped lock.
Critical(w) ==
    /\ Go(w, "critical", "unlock")
    /\ UNCHANGED <<mutex, coros, agents>>

\* After ~AsyncScopedUnlock(): the coroutine ends, by an exception if it is
\* cancelled, or comes back to lock again.
Leave(w) ==
    LET c == self[w]
        ends == cancelled[c] \/ rounds[c] = 1
    IN  /\ Go(w, "leave", IF ends THEN "idle" ELSE "ready")
        /\ rounds' = [rounds EXCEPT ![c] = @ - 1]
        /\ point' = [point EXCEPT ![c] = IF ends THEN "done" ELSE "start"]
        /\ UNCHANGED <<mutex, scheduled, cancelled, blocked, pausing, agents>>

-----------------------------------------------------------------------------
(* void lock(Coroutine* ) *)

LockEnter(a) ==
    /\ Go(a, "enter", "load")
    /\ scope' = scope + 1
    /\ UNCHANGED <<owner, waitList, mutexCancelled, destroyed, coros, agents>>

LockLoad(a) ==
    /\ Go(a, "load", IF owner = NULL THEN "exchange" ELSE "enqueue")
    /\ UNCHANGED <<mutex, coros, agents>>

LockEnqueue(a) ==
    /\ Go(a, "enqueue", "recheck")
    /\ waitList' = Append(waitList, next[a])
    /\ UNCHANGED <<owner, scope, mutexCancelled, destroyed, coros, agents>>

LockRecheckListed(a) ==
    /\ Go(a, "recheck", IF owner = NULL THEN "exchange" ELSE "exit")
    /\ UNCHANGED <<mutex, coros, agents>>

LockRecheck(a) ==
    /\ Go(a, "recheck", IF owner = NULL THEN "dequeue" ELSE "exit")
    /\ UNCHANGED <<mutex, coros, agents>>

LockDequeue(a) ==
    /\ At(a, "dequeue")
    /\ DequeueNext(a, "exchange", "exit")
    /\ UNCHANGED <<owner, scope, mutexCancelled, destroyed, coros, self, back, left, found>>

\* The compare-exchange of m_ownerCoroutine: it succeeds and the new owner is
\* scheduled, or it sees an owner and the coroutine is enqueued again.
LockExchange(a) ==
    /\ At(a, "exchange")
    /\ IF owner = NULL
         THEN owner' = next[a] /\ Schedule(next[a]) /\ Goto(a, "exit")
         ELSE Goto(a, "enqueue") /\ UNCHANGED <<owner, scheduled>>
    /\ UNCHANGED <<waitList, scope, mutexCancelled, destroyed, point, rounds, cancelled,
                   blocked, pausing, agents>>

LockExit(a) ==
    /\ Go(a, "exit", back[a])
    /\ scope' = scope - 1
    /\ UNCHANGED <<owner, waitList, mutexCancelled, destroyed, coros, agents>>

-----------------------------------------------------------------------------
(* void unlock(Coroutine* ) *)

\* A coroutine that does not own the mutex releases nothing.
Unlock(w) ==
    LET c == self[w] IN
    /\ At(w, "unlock")
    /\ IF mutexCancelled THEN MarkCancelled(c) ELSE UNCHANGED cancelled
    /\ Goto(w, IF owner # c THEN "leave" ELSE IF mutexCancelled THEN "drain" ELSE "handOver")
    /\ UNCHANGED <<mutex, point, rounds, scheduled, blocked, pausing, agents>>

UnlockDrain(w)      == At(w, "drain") /\ DrainTurn(w, "releaseCancelled")
UnlockDrainAgain(w) == At(w, "drainAgain") /\ DrainTurn(w, "leave")

\* Mutant of ClearOwner: unlock() does not look at the wait list afterwards.
ClearOwnerOnly(w) ==
    /\ \/ Go(w, "releaseCancelled", "drainAgain")
       \/ Go(w, "release", "leave")
    /\ owner' = NULL
    /\ UNCHANGED <<waitList, scope, mutexCancelled, destroyed, coros, agents>>

\* m_ownerCoroutine = nullptr
ClearOwner(w) ==
    /\ \/ Go(w, "releaseCancelled", "drainAgain")
       \/ Go(w, "release", "rescue")
    /\ owner' = NULL
    /\ UNCHANGED <<waitList, scope, mutexCancelled, destroyed, coros, agents>>

HandOver(w) ==
    /\ At(w, "handOver")
    /\ DequeueNext(w, "pass", "release")
    /\ UNCHANGED <<owner, scope, mutexCancelled, destroyed, coros, self, back, left, found>>

Pass(w) ==
    /\ Go(w, "pass", "leave")
    /\ owner' = next[w]
    /\ Schedule(next[w])
    /\ UNCHANGED <<waitList, scope, mutexCancelled, destroyed, point, rounds, cancelled,
                   blocked, pausing, agents>>

\* A waiter that came between the failed dequeue and the release is locked for,
\* by unlock() and by remove().
Rescue(a) ==
    /\ \/ At(a, "rescue") /\ back' = [back EXCEPT ![a] = "leave"]
       \/ At(a, "rescueRemoved") /\ back' = [back EXCEPT ![a] = "removed"]
    /\ DequeueNext(a, "enter", back'[a])
    /\ UNCHANGED <<owner, scope, mutexCancelled, destroyed, coros, self, left, found>>

-----------------------------------------------------------------------------
(* Coroutine::cancel(), AsyncMutexAwaiter::cancel() and AsyncMutex::remove() *)

Cancel(k, c) ==
    /\ k \in Cancellers /\ ~cancelled[c] /\ point[c] # "done"
    /\ Go(k, "idle", "pause")
    /\ MarkCancelled(c)
    /\ self' = [self EXCEPT ![k] = c]
    /\ UNCHANGED <<mutex, point, rounds, scheduled, blocked, pausing, next, back, left, found>>

\* A blocked coroutine is kept from running on until the cancel is over.
Pause(k) ==
    LET c == self[k] IN
    /\ Go(k, "pause", IF blocked[c] THEN "search" ELSE "idle")
    /\ pausing' = [pausing EXCEPT ![c] = blocked[c]]
    /\ UNCHANGED <<mutex, point, rounds, scheduled, cancelled, blocked, agents>>

\* What m_count of the list may be: a call counts a waiter after it has put it into
\* the list, or taken it out, and those at these places may still have to.
ListCounts ==
    LET joining == {a \in Agents : pc[a] \in {"recheck", "take"}}
        taking  == {a \in Agents : pc[a] \in {"enter", "exchange", "pass", "compare",
                                                "drain", "drainAgain", "closing"}}
    IN  {n \in 0 .. CountRange - 1 :
             \E j \in 0 .. Cardinality(joining), t \in 0 .. Cardinality(taking) :
                 n = (Len(waitList) + t - j) % CountRange}

\* initialCount, twice which the search goes on for.
RemoveSearch(k) ==
    /\ Go(k, "search", "take")
    /\ \E n \in ListCounts : left' = [left EXCEPT ![k] = (2 * n) % CountRange]
    /\ UNCHANGED <<mutex, coros, self, next, back, found>>

RemoveTake(k) ==
    /\ At(k, "take") /\ left[k] > 0
    /\ DequeueNext(k, "compare", "checkOwner")
    /\ left' = [left EXCEPT ![k] = IF waitList = <<>> THEN 0 ELSE @]
    /\ UNCHANGED <<owner, scope, mutexCancelled, destroyed, coros, self, back, found>>

RemoveGiveUp(k) ==
    /\ left[k] = 0
    /\ Go(k, "take", "checkOwner")
    /\ UNCHANGED <<mutex, coros, agents>>

RemoveFound(k) ==
    /\ next[k] = self[k]
    /\ Go(k, "compare", "checkOwner")
    /\ found' = [found EXCEPT ![k] = TRUE]
    /\ left' = [left EXCEPT ![k] = 0]
    /\ UNCHANGED <<mutex, coros, self, next, back>>

RemovePutBack(k) ==
    /\ next[k] # self[k]
    /\ Go(k, "compare", "take")
    /\ waitList' = Append(waitList, next[k])
    /\ left' = [left EXCEPT ![k] = @ - 1]
    /\ UNCHANGED <<owner, scope, mutexCancelled, destroyed, coros, self, next, back, found>>

RemoveCheckOwner(k) ==
    /\ Go(k, "checkOwner", IF owner = NULL THEN "rescueRemoved" ELSE "removed")
    /\ UNCHANGED <<mutex, coros, agents>>

\* A coroutine that was removed is scheduled, and may run on.
Removed(k) ==
    LET c == self[k] IN
    /\ Go(k, "removed", "idle")
    /\ IF found[k] THEN Schedule(c) ELSE UNCHANGED scheduled
    /\ pausing' = [pausing EXCEPT ![c] = FALSE]
    /\ found' = [found EXCEPT ![k] = FALSE]
    /\ UNCHANGED <<mutex, point, rounds, cancelled, blocked, self, next, back, left>>

-----------------------------------------------------------------------------
(* AsyncMutex::cancel() and ~AsyncMutex() *)

\* A call of the mutex is under way, or about to come from a cancel().
InLock(a) == pc[a] \in {"load", "enqueue", "recheck", "dequeue", "exchange", "exit"}
InCall(a) == InLock(a) \/ pc[a] \in {"ready", "tryLock", "suspend", "enter", "unlock",
    "drain", "drainAgain", "releaseCancelled", "handOver", "pass", "release", "rescue",
    "pause", "search", "take", "compare", "checkOwner", "rescueRemoved", "removed"}

\* What the destructor is written to wait for or to cancel: the owner, the
\* waiters, and the calls inside the scope.
Admitted(c) ==
    \/ point[c] = "done" \/ owner = c
    \/ \E i \in DOMAIN waitList : waitList[i] = c
    \/ \E a \in Agents : InLock(a) /\ next[a] = c

MayDestroy ==
    /\ \A c \in Coroutines : Admitted(c)
    /\ QuietDestroy => \A a \in Agents : ~InCall(a)

Close(k) ==
    /\ ~mutexCancelled
    /\ \/ k \in Closers
       \/ k \in Destroyers /\ MayDestroy
    /\ Go(k, "idle", "closing")
    /\ mutexCancelled' = TRUE
    /\ UNCHANGED <<owner, waitList, scope, destroyed, coros, agents>>

CloseDrain(k) ==
    At(k, "closing") /\ DrainTurn(k, IF k \in Destroyers THEN "awaitOwner" ELSE "idle")

\* Mutant of AwaitOwner: the destructor does not wait for the owner.
AwaitOwnerNot(k) == Go(k, "awaitOwner", "assertEmpty") /\ UNCHANGED <<mutex, coros, agents>>

AwaitOwner(k) ==
    /\ owner = NULL
    /\ Go(k, "awaitOwner", "assertEmpty")
    /\ UNCHANGED <<mutex, coros, agents>>

AssertEmpty(k) ==
    /\ Go(k, "assertEmpty", "awaitScope")
    /\ UNCHANGED <<mutex, coros, agents>>

AwaitScope(k) ==
    /\ scope = 0
    /\ Go(k, "awaitScope", "gone")
    /\ destroyed' = TRUE
    /\ UNCHANGED <<owner, waitList, scope, mutexCancelled, coros, agents>>

-----------------------------------------------------------------------------
LockStep(a) ==
    \/ LockEnter(a) \/ LockLoad(a) \/ LockEnqueue(a) \/ LockRecheck(a)
    \/ LockDequeue(a) \/ LockExchange(a) \/ LockExit(a) \/ Rescue(a)

WorkerStep(w) ==
    \/ \E c \in Coroutines : PickUp(w, c)
    \/ AwaitReady(w) \/ TryLock(w) \/ AwaitSuspendCancelled(w) \/ AwaitSuspend(w)
    \/ Resume(w) \/ Critical(w) \/ Leave(w)
    \/ Unlock(w) \/ UnlockDrain(w) \/ UnlockDrainAgain(w) \/ ClearOwner(w)
    \/ HandOver(w) \/ Pass(w)

CancelStep(k) ==
    \/ Pause(k) \/ RemoveSearch(k) \/ RemoveTake(k) \/ RemoveGiveUp(k) \/ RemoveFound(k)
    \/ RemovePutBack(k) \/ RemoveCheckOwner(k) \/ Removed(k)
    \/ CloseDrain(k) \/ AwaitOwner(k) \/ AssertEmpty(k) \/ AwaitScope(k)

Step(a) == LockStep(a) \/ WorkerStep(a) \/ CancelStep(a)

\* No coroutine is cancelled at a mutex that is quietly destroyed.
Call(a) ==
    \/ Close(a)
    \/ /\ QuietDestroy => \A d \in Destroyers : pc[d] \in {"idle", "gone"}
       /\ \E c \in Coroutines : Cancel(a, c)

Next ==
    \E a \in Agents :
        \/ Step(a)
        \/ Call(a)

Spec == Init /\ [][Next]_vars

\* Every thread that has something to do is scheduled again and again.
Fairness == \A a \in Agents : WF_vars(Step(a))
FairSpec == Spec /\ Fairness
-----------------------------------------------------------------------------
(* Properties *)

InBody  == {"ready", "tryLock", "suspend", "resume", "critical", "unlock", "drain",
            "drainAgain", "releaseCancelled", "handOver", "pass", "release", "rescue", "leave"}
InLocks == {"enter", "load", "enqueue", "recheck", "dequeue", "exchange", "exit"}
Others  == {"idle", "pause", "search", "take", "compare", "checkOwner", "rescueRemoved", "removed",
            "closing", "awaitOwner", "assertEmpty", "awaitScope", "gone"}

\* The type invariant.
TypeOK ==
    /\ owner \in Coroutines \cup {NULL}
    /\ waitList \in Seq(Coroutines)
    /\ scope \in Nat
    /\ mutexCancelled \in BOOLEAN /\ destroyed \in BOOLEAN
    /\ point \in [Coroutines -> {"start", "await", "done"}]
    /\ rounds \in [Coroutines -> 0 .. Rounds]
    /\ scheduled \in [Coroutines -> Nat]
    /\ cancelled \in [Coroutines -> BOOLEAN]
    /\ blocked \in [Coroutines -> BOOLEAN]
    /\ pausing \in [Coroutines -> BOOLEAN]
    /\ pc \in [Agents -> InBody \cup InLocks \cup Others]
    /\ self \in [Agents -> Coroutines \cup {NULL}]
    /\ next \in [Agents -> Coroutines \cup {NULL}]
    /\ back \in [Agents -> {"idle", "leave", "removed"}]
    /\ left \in [Agents -> Nat]
    /\ found \in [Agents -> BOOLEAN]

\* Agent w is running the body of c, a lock() called by its unlock() included.
Runs(w, c) ==
    /\ self[w] = c /\ w \in Workers
    /\ pc[w] \in InBody \/ (pc[w] \in InLocks /\ back[w] = "leave")

\* Agent a has c in hand: dequeued, not yet enqueued, or removed.
InHand(a, c) ==
    \/ next[a] = c /\ pc[a] \in {"enter", "load", "enqueue", "exchange", "pass", "compare"}
    \/ self[a] = c /\ found[a]

\* A coroutine is inside the block that holds the lock only while it owns the
\* mutex: no two are, whatever cancels of coroutines or of the mutex come between.
MutualExclusion == \A w \in Workers : At(w, "critical") => owner = self[w]

\* Every coroutine is in exactly one place: scheduled, running, waiting, or in
\* the hands of one agent.  It is never resumed twice for one wait, and never
\* dropped.
Holds(h, c) == IF h[1] = "runs" THEN Runs(h[2], c) ELSE InHand(h[2], c)
Live == {c \in Coroutines : point[c] # "done"}
Hands == {h \in ({"runs", "hand"} \X Agents) \X Coroutines : Holds(h[1], h[2])}
OnePlace == InOnePlace(Coroutines, Live, scheduled, waitList, Hands)

\* The types hold, and every coroutine is in its one place.
Consistent == TypeOK /\ OnePlace

\* Once its owner lets go the destructor finds the wait list empty and the mutex
\* free (the assertions of async_mutex.cpp:18 and 19).
DestroyedFree ==
    \A k \in Destroyers : At(k, "assertEmpty") => owner = NULL /\ waitList = <<>>

\* Every coroutine gets the mutex as often as it asks for it, or is cancelled:
\* no wakeup is lost between the release of the mutex and the enqueue of a waiter.
EveryoneDone == <>(\A c \in Coroutines : point[c] = "done")
=============================================================================
