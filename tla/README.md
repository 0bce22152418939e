# Verification of levelz-async

TLA+ models of levelz-async, a C++20 coroutine library: two thread pools, tasks that own
each other, cancellation, and events, mutexes and barriers whose waiters are suspended
coroutines. TLC checks the models on small instances; TLAPS proves theorems for every
value of the constants. Line numbers below are those of the sources named.

    tlc -workers 2 -config list_safety.cfg MCConcurrentFifoList    # any run: its cfg and MC module
    tlapm ConcurrentFifoListProofs.tla                             # any module named ...Proofs, ...Lemmas

`PROJECT.json` maps every definition to the lines it models, and lists the runs, the mutants
(a changed definition for every property, under which TLC finds the property violated), the
hazards of the code and the findings.

## Inventory

| component | state | operations | depends on |
|---|---|---|---|
| ConcurrentFifoList (`concurrent_fifo_list.hpp`; `FifoWaitList` is an alias) | `m_head`, `m_tail`, `m_count`, `m_next` of each node | enqueue, dequeue, remove, isEmpty, count | - |
| AsyncScope (`event/async_scope.*`) | an 8-bit count of calls under way | onEnter, leave, waitTillEmpty | - |
| AsyncMutex (`event/async_mutex.*`) | `m_ownerCoroutine`, `m_waitList`, `m_cancelled`, scope | co_await, scoped unlock, tryLock, lock, unlock, remove, cancel, destructor | list, scope, pool, coroutine |
| AsyncCountDownEvent (`event/async_countdown_event.*`), AsyncEvent (`event/async_event.*`) | `m_count`, `m_waitQueue`, scope | co_await, countDown, countUp, enqueue(event), remove, destructor | list, scope, pool, coroutine, simple task |
| AsyncValue (`event/async_value.hpp`) | a value or an exception, an event | set, co_await | event |
| AsyncBarrier (`event/async_barrier.*`) | `m_count`, `m_canceled`, `m_waitList`, scope | co_await, arriveAndWait, arriveAndRelease, cancel, reset, destructor | list, scope, pool, coroutine |
| Coroutine (`coroutine.*`) | `m_status` (15 values), `m_cancelled`, `m_cancelAbandoned`, `m_awaiters`, `m_owner` | setStatus, cancel, setCancelAbandoned, setOwner, signalOwner, schedule, resume | awaiters, pool |
| Awaiter (`awaiter.*`) | its coroutine, `m_maybeBlocked` | onReady, onSuspend, onResume, setMaybeBlocked | coroutine, pool |
| AsyncTask and promise (`task/async_task*.hpp`, `task/base_*.hpp`) | `m_refCount`, `m_completionEvent`, the value | schedule, complete, final suspend, destroy or abandon | coroutine, event, simple task |
| Task, generators, TaskAwaiter (`task/task*.hpp`) | `m_continuation`, the value, `m_completionEvent` | co_await, co_yield, return, cancel, abandon | coroutine, simple task |
| SimpleTask (`task/simple_task*.hpp`) | a frame that frees itself | run | coroutine |
| SyncTask (`task/sync_task*.hpp`) | a sync event, the value, `m_completionEvent` | run to completion from a plain thread, abandon | sync events, coroutine, simple task |
| ThreadPool and ThreadState (`thread_pool.*`, `thread_state.*`) | `m_state`, a global queue, a local queue and a wake-up event per worker, three counts of sleepers and requests | schedule, runWorkerThread, wakeOneThread, shutdown, waitForAllThreadsIdle, yield | list, sync event |
| ThreadPoolAwaiter (`thread_pool_awaiter.hpp`) | - | move a coroutine to a pool | pool |
| Sync events (`event/sync_*.cpp`) | a state or a count, a mutex, a condition variable | set, trySet, wait, waitFor, countDown | - |
| Spin waits (`spin_wait.*`, `async_spin_wait.*`) | - | pass time, or run other coroutines | pool |

A coroutine that cannot go on puts its awaiter in a wait list of an event, a mutex or a
barrier; whoever makes the condition true takes it out and schedules it on the pool; a
worker resumes it. `Coroutine::cancel()` may be called by any thread at any time: it pauses
the coroutine, asks its awaiters to take it out of their wait lists, and schedules it to
throw. A task is owned by the coroutine it runs for, and completes only after all that it
owns has completed. Hard in all this:

* every wait list is looked at by who releases and by who enters without a lock, so each
  primitive releases, looks, and looks again (lost wake-ups, double wake-ups);
* `remove()` takes other waiters out and puts them back, so that for a time a waiter is in
  nobody's list;
* cancel() acts on a status it read before, on an awaiter that lives on the stack of a
  coroutine which may run on;
* the frame of a task is destroyed by whichever of three parties is last;
* the consumer of a task is resumed by the task that yields or returns, or by who cancels it;
* an owner changes while the task it gets, or loses, completes;
* workers go to sleep while others look for one to wake, and both pools end together.

What makes each correct: the list is a linearizable queue; a mutex, an event and a barrier
keep every coroutine in exactly one place and leave no waiter behind; the statuses abort on
no legal race; a frame is destroyed once, last, and always; an awaiting coroutine is resumed
once and finds what it waited for; nothing completes before what it owns; no coroutine stays
queued in a pool that sleeps; shutdown ends. `PROJECT.json` lists the hazards with their lines, and the
properties that would catch each.

## Modules

| module | models | state and actions |
|---|---|---|
| `FifoQueue` | the queue that callers of the list rely on (abstract) | a sequence and the call of each thread; one step takes effect per call. dequeue may find the queue empty only when it is; a remove is dequeues and enqueues. |
| `ConcurrentFifoList` | the whole of `concurrent_fifo_list.hpp` | one action per access to an atomic; spin loops are actions that wait for their value; `queue` is a history of the tail exchanges. `Abs` maps it to `FifoQueue`. |
| `ConcurrentFifoListProofs` | theorems: types, ownership of the head, the inductive invariant of the list's shape and what follows from it, what `m_count` counts; the list implements `FifoQueue` | |
| `Whereabouts` | where a coroutine is: ready, in a wait list, held | `InOnePlace`, of which `OnePlace` of the mutex and of the event are instances. |
| `WhereaboutsLemmas` | lemmas: the same place by place, and what each move from a place to another keeps | |
| `AsyncMutex` | `async_mutex.*`, the part of the scope and of cancel() it meets | workers run coroutines through await_ready, tryLock, lock, unlock; cancellers cancel a waiting coroutine (`Pause` .. `Removed`); closers call the mutex's cancel(); a destroyer its destructor. |
| `AsyncMutexProofs` | theorems: one place, mutual exclusion, the destructor's assertions | |
| `WaitEvent` | what an event promises to those who wait (abstract) | a count and the set of those who wait; nobody leaves it but at a count of zero or cancelled. |
| `AsyncCountDownEvent` | `async_countdown_event.*`, AsyncEvent as an instance with `MaxCount = 1` | counters, waiters, attachers of another event, cancellers, a destroyer. `Abstract` maps it to `WaitEvent`. |
| `AsyncValue` | `async_value.hpp` over `AsyncCountDownEvent`, which it extends | the producer's `Set` and `SignalValue`; the awaiter's own look at the event (`SuspendSignaled`) and `TakeValue`; all else is a step of the event. |
| `EventProofs` | theorems of the event: one place, no waiter left behind, it implements `WaitEvent`; of the value: nobody gets an unset one | |
| `AsyncBarrier` | `async_barrier.*` | workers, cancellers of the barrier or of a coroutine, resetters, a destroyer. |
| `CoroutineStatus` | `Coroutine::setStatus()` | the operator `After`: what becomes of a status, or "abort". Used by the next three. |
| `AsyncTaskLifecycle` | one AsyncTask: `coroutine.cpp`, `awaiter.cpp`, `async_task_promise.hpp`, `base_task.hpp`, `base_promise.hpp` | the coroutine's place `at`, its status, its completion event, its finisher (the simple task of `asyncSetCompletedState()`), and holders that cancel, detach, give up or abandon their handle. |
| `AsyncTaskLifecycleProofs` | theorems: aborts, the end of the frame, ownership, the paused awaiter | |
| `TaskGenerator` | one Task and the coroutine that awaits it: `task.hpp`, `task_promise.hpp`, `task_awaiter.hpp`, and the parts of `coroutine.cpp`, `base_task.hpp` they meet | a record each for task and consumer, the rest of an `await_suspend()` that runs after the other side may have been resumed (`tail`, `handing`), the cancel() of the consumer. |
| `TaskGeneratorProofs` | theorems: no assertion fails, one resumption, the end of the frame, values in order | |
| `SyncTask` | `sync_task*.hpp`, `sync_manual_reset_event.cpp`, `setOwner()` and `signalOwner()` over a tree of tasks | the count and the owner of each coroutine, each change of owner one access at a time, the finishers, the thread that waits. |
| `SyncTaskProofs` | theorems: the counts, the value comes last, the end of the frame | |
| `ThreadPool` | `thread_pool.cpp`, `thread_state.cpp`, `sync_auto_reset_event.cpp` | workers of both pools, clients that schedule, shut down or wait for idle workers, coroutines that hop between the pools. |
| `ThreadPoolProofs` | theorems: counts and places, shutdown drains the local queues, idle means done | |
| `MC...` | instances for TLC | sessions and symmetry sets. |

Composition: the primitives use the atomic sequence that `ConcurrentFifoList` is proved to
implement (`ListImplementsQueue`), so none of them repeats the list. A coroutine in a
primitive is the small machine that awaiter and status show it (`blocked`, `pausing`,
`scheduled`); `AsyncTaskLifecycle` and `TaskGenerator` model status and awaiter in full. They and
`SyncTask` take a completion event as what `AsyncCountDownEvent` shows: the waiting finisher runs
when the count is zero. `AsyncTaskLifecycle` takes one task apart, `SyncTask` puts many together.

Abstractions common to the modules:

* All atomics of the library are sequentially consistent, so an action is one atomic
  access, together with the local computation up to the next.
* The number of rounds of `remove()` comes from `m_count` of the list, which a call counts up or down
  after it has changed the list. In the mutex and the event `RemoveSearch` takes any value that it
  may have then (`ListCounts`, `QueueCounts`): the length of the abstract queue, and one more or less
  for each call that is just past its dequeue or enqueue. Only `CancelEndsWait` depends on it. The list module has the count itself.
* `isEmpty()` of a pool's queue is taken as exact (`LookWork`). In the code it is also true while a
  dequeue has the head in hand; such a worker is not asleep, and has to find nothing again before it
  is, so that `IdleMeansDone` does not rest on it.
* In `TaskGenerator` a task comes to own another in one step (`OwnerCountUp`), the test for zero of
  `setOwner()` included, which `AsyncTaskLifecycle` and `SyncTask` take apart.
* Spurious failures of weak compare-exchanges and spurious wake-ups of condition variables
  are stuttering or a second look at the same condition.
* Memory that is freed is not modelled. What would be a use after free is either a property
  about places (`OnePlace`, `PausedForCancel`, `DestroyedLast`, `FreedLast`, `DestroyedQuiet`) or a
  hazard with a note.
* The mutex, the barrier and the pool are bounded by a set of *sessions*, one of which holds from
  the start: who takes part and what may happen. One run so covers several instances, each of
  them with what makes it interesting, where their product would be out of TLC's reach.
* A mutant of a definition stands just before it and is used by no specification.

## Runs

All runs end with every interleaving of the instance explored. Deadlock is checked in
`list_safety`, where calls never run out; elsewhere coroutines and calls are bounded, the
program ends, and liveness or the invariants say in what state it may.

| run | instance | question |
|---|---|---|
| `list_safety` | one thread that enqueues, one that dequeues, one that does both and removes; 3 nodes | Types (`TypeOK`), shape (`Chained`), nobody twice or lost (`OnePlace`), the count (`CountExact`, modulo its width), whoever spins is waited for by someone who does not (`SpinsForSomeone`), linearizability (`ImplementsFifoQueue`). |
| `mutex` | three sessions: 3 coroutines on a worker with a canceller and the destructor; 2 coroutines on 2 workers with a canceller and a cancel() of the mutex; 2 on 2 with the destructor | `MutualExclusion`; nobody in two places (`Consistent`); `EveryoneDone`; the destructor's assertions when it is called with no call under way (`DestroyedFree`). |
| `event_safety` | a coroutine, an attached event, 2 workers, a counter that passes zero, goes up and passes it again, a canceller, the destructor | Nobody lost or woken twice (`Consistent`), `NoStrandedWaiter`, and no spurious wake-up (`ImplementsWaitEvent`). |
| `value_wait` | 2 coroutines, 1 worker, a producer, a canceller, the destructor | Nobody reads an unset value (`NeverUnset`); of the event below: `ZeroWakesAll`, `DestroyedQuiet`, and `CancelEndsWait`: a search that begins when everyone in the queue is counted finds its coroutine. |
| `barrier` | two sessions: 3 participants on 2 workers, 2 rounds; 2 of 3 with a cancel, a reset, the destructor | Nobody is a round ahead (`RoundSafety`); count and waiters agree, also after a reset (`CountedWaiters`); `CancelReleasesAll`; `DestroyedQuiet`; `Consistent`. |
| `barrier_race` | 2 participants, a cancel | **Violated**: see Findings. |
| `task_life` | 2 handles (one cancels, one detaches), 2 waits, a child | `DestroyedLast`, `NothingLeaks`, `OwnedUntilComplete`, `PausedForCancel`, and no abort but the late cancel's (`OnlyLateCancelAborts`). |
| `task_late_cancel` | 1 handle, 1 wait | **Violated**: see Findings. |
| `task_await` | a task that yields up to 3 values and owns up to 2 others, awaited up to 5 times, given up anywhere; or one that does not yield, and a cancel() of its consumer | Who resumes whom (`ResumedOnce`), `ValuesInOrder`, the frame (`FreedLast`), no abort (`TypeOK`), and that both end (`AllEnds`). |
| `task_yield_race` | one yield, a cancel() of the consumer | **Violated**: see Findings. |
| `sync_wait` | a thread, its SyncTask, 2 tasks below it, 3 changes of owner | The counts are what they stand for (`CountsExact`), the value comes last ("Only returns after all it's child _Tasks_ have completed execution (transitively)", `README.md:22-23`: `WaitsForAll`), `FreedLast`, `ThreadReturns`. |
| `pool` | three sessions: 2 workers, a coroutine that goes on, and a client that waits for idle workers; a worker in each pool, a coroutine that changes pools, shutdown; 2 workers and shutdown | Nobody lost, run twice or miscounted (`Consistent`), no local queue is left filled by a shutdown (`LocalWorkDrained`), `IdleMeansDone`, `EverythingEnds`. |

Why the bounds are enough for the interesting cases: two enqueues and a dequeue are the most
that meet at one end of the list, and the third node is a neighbour for the two; three
coroutines give a mutex an owner, the waiter being removed and the waiter that the remover
holds; a count that goes 1, 0, 1, 0 wakes, refuses and wakes again; three participants in two
rounds let the first come back before the last has left, and two of three are cancelled and
counted on again if the count stays; three values are a first, a next and one that is given up;
two tasks and three changes of owner let a task come back to one that it has left, while
both complete; two workers are the last awake and the one going to sleep.

### Bounds by name

`Rounds`, `Downs`, `Ups`, `Waits`, `Children`, `Yields`, `Awaits`, `Handovers` bound how often
something is done, `NumTasks` the tasks of a tree; `Sessions` is the set of casts of the mutex, the
barrier (with its number of `cancels`) and the pool (with its `hops`). `Capacity` is the barrier's
`m_maxCount`, `InitCount` and `MaxCount` are the event's; `CountRange` and `ScopeRange` are the
widths of `m_count` and of the scope; `Contents` are the values a producer may set and `Unset` is
the one a new AsyncValue holds. `QuietDestroy`, `CancelGenerators` and `RootInside` switch
on what a finding or an observation is about.

### Fairness

`FairSpec` is weak fairness of every agent's step inside a call or a coroutine: the operating
system runs every thread, and the pools resume every scheduled coroutine (which is part of
`EverythingEnds` in `ThreadPool`). No fairness is assumed of calls that a program need not make:
cancel(), countDown(), shutdown, a change of owner. `AsyncTaskLifecycle` and `TaskGenerator` also
assume what their environment owes: the event the task waits for is signalled, its children
complete, and every holder gives its handle up. Spin loops rely on nothing stronger, since what
ends them stays true; the one of `waitForAllThreadsIdle()` has no such guarantee (Observations).

## Proofs

`ConcurrentFifoListProofs` proves, for any finite or infinite sets of threads and nodes and
any width of `m_count`:

* `TypeCorrect`: `Spec => []TypeOK`. Besides the types it says that a call past its null
  check has a node in hand. The proof goes action by action; that `m_count` stays in its range
  is the lemma `ModRange`.
* `HeadIsExclusive`: `Spec => []HeadExclusive`. At most one thread owes the list its head,
  the head is null while one does, and the list has a tail: the assertions of lines 44, 50,
  57, 76 and 78. `HeadExclusive` alone is not inductive: an enqueue that finds `m_tail` null
  becomes the owner of the head, and that nobody else takes a head at the same time needs
  that a list with a head has a tail. `HeadInv` adds exactly this.

Its third part proves `ShapeCorrect`: `Spec => []Shape`, an inductive invariant that says
where every node is and how the nodes are linked while any number of calls are under way. None of the
invariants below is inductive by itself; each needs the others' parts:

* `OnePlace`: a node is free, queued once or in one thread's hands. That a dequeue takes the
  node in front needs `EndsKnown` (a head is `queue[1]`).
* `EndsKnown`: the tail is the last node and has no successor; a null head with a tail has an
  owner. That the head is stored right needs `LoanFollowed` and `OwnersKnown`: the node a dequeue
  has taken away with the head is followed by the front of the queue, and a noted link is
  still the link.
* `QueueLinked` and `LoanFollowed`: two neighbours are linked, or an enqueue is about to link them
  (`Follows`). Its step is the store of a link, which must not hit another pair: `LinkersPlaced`
  says where the target of a missing link is, `LinkersApart` that no two enqueues have the same.

Each conjunct has a lemma of its own (`OnePlaceStep`, `EndsStep`, ...), with one step per action.
From `Shape` follow, without another induction:

* `NodesInOnePlace`: `[]OnePlace`. No awaiter is handed out twice and none is lost.
* `LinkTargetIsPinned`: `[]LinkTargetPinned`. An enqueue never writes to a node whose owner is
  already resumed (line 74), and finds its link null (line 73).
* `ListIsChained`: `[]Chained`.
* `SpinnersAreServed`: `[]SpinsForSomeone`, the safety part of the spin loops' progress.

The last part proves `ListImplementsQueue`: `Spec => ImplementsFifoQueue`.
`RefineStep` takes each action to a step of `FifoQueue` or to none: the exchange of `m_tail` is the
enqueue, the compare-exchange of `m_head` the dequeue, the reading of a null `m_tail` the empty
answer (where `EndsKnown` says that the queue is empty), the end of a `remove()` round a new call.

`ListCountExact`: `Spec => []CountExact`. `CountInv` counts the dequeues that have taken a node and not
yet counted it (`Takers`), and the enqueues likewise (`Joiners`); each set is finite at any moment, however
many threads there are, as a thread came there by a step of its own. `ExcessBalance` says what a step of one
thread does to the difference, `Wraps` that `m_count` follows it modulo any width.

`HeadExclusive` and `LinkTargetPinned` are in no run of their own: `Shape` implies them.

`EventProofs` proves of `AsyncValue` the theorem `ValueNeverUnset`: `ValueSpec => []NeverUnset`, for any numbers of
coroutines and agents. A coroutine that comes out of its wait uncancelled reads the value, so
all rests on why it came out. `Unsignaled`, which holds as long as the value is unset, says that
nobody works as if the event were signalled (`Closed`), that whoever removes or ends a wait does so
for a cancelled coroutine (`OnlyCancelled`), and that a coroutine is scheduled to begin, or because it
is cancelled (`ScheduledToStart`, `ReadyAlone`). The last two need each other: a coroutine that comes
to wait while it is scheduled a second time would be resumed at once. `TypedStep` and
`UnsignaledStep` go action by action; a value that is set stays set, so nothing more is to be shown
from then on.

`EventProofs` also proves three theorems of `AsyncCountDownEvent`, for any sets of waiters and
agents, any counts and any bounds:

* `EventConsistent`: `Spec => []Consistent`. The inductive invariant `EventInv` adds to types and
  `OnePlace` only `Control`, what an agent's place says of its locals: whoever is in `remove()`
  has a cancelled waiter that it does not hold in its other hand, whoever wakes has one.
* `EventStrandsNobody`: `Spec => []NoStrandedWaiter`, which is inductive with the types alone.
* `EventImplementsWait`: `Spec => ImplementsWaitEvent`. `RefineStep` shows that a waiter leaves the
  set of those who wait (`WhoWaits`) only when the count is zero or it is cancelled: a waiter in
  the hand of a `resumeWaiting()` or of a `remove()` is still one who waits, and `OnePlace` says that
  it is nowhere else when it is put back.

`AsyncMutexProofs` proves of `AsyncMutex`, for any sets of workers, cancellers, closers and destroyers:

* `MutexConsistent`: `Spec => []Consistent`.
* `MutexExcludes`: `Spec => []MutualExclusion`, and `MutexOneInside`: two workers in the block are one.
* `MutexDestroyedFree`: `Spec => []DestroyedFree`.

They rest on `MutexInv`. That who leaves the block still owns the mutex (`Ownership`) needs that whoever is
scheduled owns it or was cancelled (`MayRun`), which needs that a coroutine handed the mutex waits in
`await_suspend()` and not before it (`Awaiting`), and that no two agents have it (`OnePlace`).
`ScopeCounts` says that the scope's count is the number of agents inside `lock()`: a destructor
that sees zero is alone. `DestroyedFree` needs `Closing` besides, what the destructor can still meet:
the owner on its way out, as a cancelled coroutine, and nobody who enters. The hypothesis
`QuietDestroy` is the environment of `~AsyncMutex()` (Observations); `RolesAssumption` says that
a thread is in cancel() or in the destructor, not in both.

`WhereaboutsLemmas` holds what the two share. `InOnePlace` says that the set of places of a coroutine is a
singleton; `PlacedIsInOnePlace` that this is: scheduled, queued or held, once, and not two of them.
Each of the other lemmas is one kind of move (`QueueToHand`, `HandToReady`, ...).

`AsyncTaskLifecycleProofs` proves, for any finite set of holders and any bounds, under the hypothesis
`OneCanceller` (one holder calls cancel(); two at a time abort, see Observations):

* `OnlyLateCancelsAbort`: no status aborts and no assertion fails, but for the finding's;
* `FrameDestroyedLast`: `[]DestroyedLast`, nobody touches the frame after it is destroyed;
* `TaskOwned`: `[]OwnedUntilComplete`; `AwaiterHeldForCancel`: `[]PausedForCancel`.

Their `LifeInv` relates four parties. `Handles`: `m_refCount` is the number of holders that have not
released, so whoever gives up the last handle is alone. `StatusAt`: which statuses go with each place of
the coroutine. `Counted`: the completion
event counts the coroutine, its children and the holders that set its owner, so a finisher runs only when
all three are done. `Pausing`: status PauseOnRunning or Paused is some cancel()'s, and who is about
to destroy the frame sees CompletedFinalSuspended. `Owned` ties the owner to all of them.

`SyncTaskProofs` proves of `SyncTask`, for any number of tasks and any bound on the changes of ownership,
under the hypothesis `RootOutside` (the SyncTask is not made inside a coroutine, see Observations):

* `SyncCountsExact`: `Spec => []CountsExact`, with no abort (`TypeOK`);
* `SyncWaitsForAll`: `Spec => []WaitsForAll`; `SyncFreedLast`: `Spec => []FreedLast`.

`Balance` says once for all actions what a total becomes when one coroutine moves and one task gets another
owner. The totals alone are not inductive: that a count of zero stays final needs `Ending` (who is
complete owns nothing; a finisher runs, and an owner is forgotten, only then), and that needs the totals
again (`ZeroIsFinished`, `LastIsChildless`). `Tree` says that owners are made before what they own.
`WaitsForAll` is no invariant of a step but of the tree: when the event is set, a task that is
not complete has an owner, or a coroutine that sets its owner, that is not complete either (`OneAbove`,
from `Owned`) and not the SyncTask, so the least such task (`Least`) cannot exist.

`ThreadPoolProofs` proves of `ThreadPool`, for any sets of workers, clients and coroutines and any sessions:

* `PoolConsistent`: `Spec => []Consistent`. It follows from `PoolInv` (`PoolInvariant`), which
  has four parts that need each other. `Locals` says what the place of a thread says of its
  locals. `Counted`: `m_mayBeSleepingThreadCount` and `m_sleepingThreadCount` are the numbers of
  workers between the two places that count them up and down, so the decrements of lines 142 and 166
  never go below zero. `Placed`: nothing is twice in the queues, or with two threads, and
  what is under way is in one of the two.
* `PoolDrains`: `Spec => []LocalWorkDrained`, about local queues only (Observations). Only a worker adds to its queue, and by `Emptied` it
  is empty from its look at it in a search to the end of its sleep (`Dozing`). `Drained` says that a
  worker that has ended left it empty, which an immediate shutdown need not, and that
  a pool is terminated after all of its workers have ended.
* `PoolIdle`: `Spec => []IdleMeansDone`, when there is one client: another one could schedule
  a coroutine after the last look. `SeenBy` follows the client through its four looks. Once the first
  `haveWork()` has found the global queue empty it stays so, as workers of the only pool
  schedule to their own queues. When all are counted asleep after that, they are
  (`Counted`), with empty queues (`Emptied`) and nothing in hand (`Locals`), so by `Placed` nothing is
  under way. The first count and the second `haveWork()` are not needed for this.

`TaskGeneratorProofs` proves of `TaskGenerator`, for any numbers of yields, awaits and owned tasks, under
the hypothesis `CancelGenerators = FALSE`: nobody cancels the consumer of a task that yields. A consumer
of a task that only returns may be cancelled at any step, and any consumer may cancel its task or give it up
wherever the task is. The hypothesis is what the finding `task_yield_race` is about; it constrains `Init`
only, and the run `task_await` takes it, too.

* `GeneratorTypes`: `Spec => []TypeOK`, so no assertion fails and no status aborts;
* `GeneratorResumedOnce`: `Spec => []ResumedOnce`; `GeneratorFreedLast`: `Spec => []FreedLast`;
* `GeneratorValuesInOrder`: `Spec => ValuesInOrder`, an action property.

`ResumedOnce` needs to know who is going to resume a parked consumer, long before it is scheduled:
`OneResumes` says that it is one of who has scheduled it, what is left of an `await_suspend()`, and a task
whose turn it is and that has the continuation (`Owes`); `TaskWaits` says the same of the task. Which
of them it is depends on the statuses (`TaskStatus`, `ConsumerStatus`), on how far the cancel()
is (`Cancelling`) and on whether the task was given up (`GivenUp`). That the frame is freed last needs what
the completion event counts (`Counted`), and the order of values that an await which ends uncancelled
ends with a value (`Answers`), where a yield always has a parked consumer to go back to
(`YieldsInTurn`). One lemma per part goes through all actions (`TypesKept`, `TurnKept`, ...).

The assumptions are those of the modules: sets of agents that do not overlap, `NULL` that is not
a node or a coroutine, positive widths and bounds.

Only model-checked:

* liveness under fairness, which is out of the prover's reach;
* `DestroyedQuiet` of the event and of the barrier, which is no theorem for every value of the
  constants: with two counters, or 256 calls under way, it fails (Observations);
* `Consistent`, `RoundSafety` and `CountedWaiters` of the barrier: each relies on sessions that keep
  `barrier_race` out and have no more participants than `Capacity`.

## Findings

* **barrier_race** (`async_barrier.cpp:60`). `cancel()` empties the wait list and leaves
  `m_count`. A participant that has passed its look at `m_canceled` counts itself as the last,
  resets the count, and dequeues as many waiters as it counted: the list gives it null, which
  it dereferences.
* **task_late_cancel** (`coroutine.cpp:297`). The last holder of a task (or any canceller)
  reads status Suspended; the task is resumed, returns, completes and suspends for the last
  time; `setStatus(PauseOnRunning)` then has no case for CompletedFinalSuspended and aborts,
  though the callers are written to give way to a task that ran on (lines 358-360).

* **task_yield_race** (`task_promise.hpp:261`). `yield_value()` copies `m_continuation` into its
  awaiter and leaves it in the promise. A `cancel()` of the consumer takes it from there
  (`task_awaiter.hpp:77`) and schedules the consumer; the yielding task hands back to it, too. The
  consumer has ended by then, so the assertion `!m_handle.done()` (`coroutine.cpp:57`) fails. A
  cancel() of the consumer of a task that does not yield is safe: `final_suspend()` exchanges
  the continuation (`task_await`, `ResumedOnce`).

### Observations

Seen with TLC on other instances, and in no run of the list:

* `~AsyncMutex()` asserts that the mutex is free and has no waiters (18-19) before it waits for
  the calls in the scope (20); a `lock()` inside the scope may enqueue in between, and a
  `Coroutine::cancel()` of a waiter has others in its hand and puts them back (`mutex` with
  `QuietDestroy = FALSE`).
* `~AsyncCountDownEvent()` drains the queue before it waits for the scope; a `countDown()` inside
  the scope that finds the count raised puts its waiter back into the drained queue
  (`DestroyedQuiet` of the event with two counters and `Ups = 1`).
* `remove()` of the event is outside the scope, so the destructor does not wait for a cancel().
* A coroutine that a barrier released reads `m_barrier.isCanceled()` in its `await_resume()`
  (`async_barrier.hpp:78`) when the barrier may be gone; `DestroyedQuiet` of the barrier holds as the
  destructor cancels, and a cancelled coroutine throws before it reads.
* `enqueueAlways()` asserts zero (141, 143) after `enqueue()` refused; a `countUp()` may come
  between.
* Two threads that call `Coroutine::cancel()` at once both get past lines 348-350, and the second
  one aborts in `setStatus()` (`task_life` with two cancellers).
* The list is not lock-free, whatever `README.md:1` says of the library: dequeues spin for an
  enqueue between its exchange of the tail and its link, and for a dequeue that holds the head.
* A cancel that comes while the coroutine is between `setMaybeBlocked(true)` and the wait list, or
  while an event is at zero for a short time (`async_countdown_event.cpp:207`), has no effect until the
  event is signalled.
* So has a cancel that comes when the coroutine is in the list, and `isWaitListEmpty()` false, but
  `enqueue()` has not counted it (`concurrent_fifo_list.hpp:81`): `remove()` reads zero (96), searches
  nothing and does not try again, as `cancel()` has emptied `m_awaiters` (`coroutine.cpp:365`).
  `CancelEndsWait` without its second conjunct fails for this reason, with one coroutine that nobody signals.
  `cancellation_tests.cpp:883-891` cancels when the list is no longer empty and never signals: it relies
  on missing this window, and would spin at line 890.
* `shutdown()` may leave coroutines in the global queue: a worker finds it empty (`thread_pool.cpp:117`),
  a client enqueues, sees nobody asleep and wakes nobody, and calls `shutdown()`; the worker sees
  it (122) and leaves. The third session of `pool` contains this; `LocalWorkDrained` is about the local queues.
* Two workers may hand a pending wake-up request to each other without end and without work, so
  that `waitForAllThreadsIdle()` never sees all of them asleep. `IdleMeansDone` is about its return.
* `waitForAllThreadsIdle()` takes `defaultThreadPool()` twice (`thread_pool.cpp:360`): it does not wait
  for the background pool, yet it is the second look that makes `IdleMeansDone` true of the first.
* `asyncSetCompletedState()` of a SyncTask asserts that it has no owner (`sync_task_promise.hpp:110`);
  a SyncTask made inside a coroutine has one (`sync_wait` with `RootInside = TRUE`: `TypeOK` fails).
* `Task::operator=(Task&&)` (`task.hpp:33-39`) assigns what `BaseTask::operator=` returns to `*this`,
  which does not compile where it is used.

## Not modelled

* `SyncAutoResetCountDownEvent` is used by tests only; `reset()` of `SyncManualResetEvent`,
  `waitFor()` and `asyncSet()` of `SyncAutoResetEvent` have no caller in the library.
* `ThreadPool::yield()` and the chained-execution allowance let a coroutine run others on its stack:
  to a queue and its workers this is a worker that takes one more coroutine.
* `setCancelAbandoned(true)` in the middle of a task's life, an immediate shutdown that
  `onResume()` turns into a cancel(), and a Task that is moved to another coroutine.
* `clear()` of an AsyncValue, which an AsyncTask calls when nobody awaits it any more.
* What the environment owes: a mutex, an event or a barrier is destroyed when no call outside its
  scope is under way; one cancel() of a coroutine at a time; no `reset()` of a barrier in use.

Left out for good: exception classes and enumerations, tests and build files, and spin waits,
which pass time between two looks at a condition that is a guard here.
