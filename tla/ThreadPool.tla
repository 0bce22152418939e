----------------------------- MODULE ThreadPool -----------------------------
(***************************************************************************)
(* The two thread pools (thread_pool.cpp, thread_state.cpp): the queues of *)
(* ready coroutines, the workers that take from them, how a worker goes to *)
(* sleep and how whoever schedules a coroutine wakes one, with the event a *)
(* worker sleeps on (event/sync_auto_reset_event.cpp), and shutdown.       *)
(*                                                                         *)
(* Clients are threads of the program outside the pools.  One action is    *)
(* one access to a shared atomic, a queue or the mutex of an event.  The   *)
(* queues are the atomic queues that ConcurrentFifoList is shown to        *)
(* implement.  The code tries queues and workers by index or at random;    *)
(* here the order is open, and the random picks of one search, 2 *         *)
(* m_threadCount and that 32 times over, are taken to reach every queue.   *)
(***************************************************************************)
EXTENDS Naturals, Sequences, FiniteSets

CONSTANTS DefaultWorkers, BackgroundWorkers, Clients, Coroutines, NULL,
          ShutdownState,  \* what shutdownAll() tells the pools
          Sessions        \* bounds, one of which holds: the threads of the pools (crew),
                          \* the coroutines there are (party), how often each one is
                          \* scheduled anew (hops), the clients that may call
                          \* shutdownAll() (closers) and waitForAllThreadsIdle() (lookers)

Pools   == {"Default", "Background"}
Workers == DefaultWorkers \cup BackgroundWorkers
Threads == Workers \cup Clients

ASSUME ThreadAssumption ==
    /\ IsFiniteSet(Threads) /\ NULL \notin Threads \cup Coroutines \cup Pools
    /\ DefaultWorkers \cap BackgroundWorkers = {} /\ Workers \cap Clients = {}
    /\ Workers \cap Pools = {}
ASSUME StateAssumption == ShutdownState \in {"ShuttingDown", "ShuttingDownImmediately"}
ASSUME SessionsAssumption ==
    Sessions \subseteq [crew : SUBSET Workers, party : SUBSET Coroutines, hops : Nat,
                       closers : SUBSET Clients, lookers : SUBSET Clients]

VARIABLES
    session,          \* the session that holds; its crew is m_threads of both pools
    state,            \* m_state of each pool, from Started on
    globalQueue,      \* m_globalQueue of each pool
    localQueue,       \* m_localQueue of each worker
    mayBeSleeping,    \* m_mayBeSleepingThreadCount
    sleeping,         \* m_sleepingThreadCount
    pending,          \* m_pendingWakeUpRequestCount
    isSleeping,       \* m_isSleeping of each worker
    event, mutex,     \* m_state and m_mutex of its m_wakeUpEvent
    place, hops,      \* of a coroutine: new, live or done; how often it goes on
    cancelled,        \* m_cancelled
    pc, self, tried,  \* of a thread: its place, the coroutine it has taken, the queues
                      \*   a search, or the workers a shutdown() has been through,
    back, call        \*   where it goes on when it is awake, and its call

queues  == <<globalQueue, localQueue>>
counts  == <<mayBeSleeping, sleeping, pending>>
events  == <<isSleeping, event, mutex>>
coros   == <<place, hops, cancelled>>
locals  == <<self, tried, back, call>>
vars    == <<session, state, queues, counts, events, coros, pc, locals>>

\* A call of scheduleOnThreadPool(), wakeOneThread() or shutdown(): its pool, the
\* coroutine it is to enqueue, the workers it has tried, the one it is about to
\* wake, doImmediateWakeUp, pendingWakeUpRequestCount, and where it returns to.
NoCall == [pool |-> NULL, item |-> NULL, tried |-> {}, sleeper |-> NULL,
           immediate |-> FALSE, seen |-> 0, back |-> "idle"]

WorkersOf(p) == session.crew \cap IF p = "Default" THEN DefaultWorkers ELSE BackgroundWorkers
PoolOf(t) == IF t \in DefaultWorkers THEN "Default"
             ELSE IF t \in BackgroundWorkers THEN "Background" ELSE NULL
threadCount(p) == Cardinality(WorkersOf(p))

\* The queues of a pool; only the default pool has local work.
QueuesOf(p) == {p} \cup IF p = "Default" THEN WorkersOf(p) ELSE {}
Queue(x) == IF x \in Pools THEN globalQueue[x] ELSE localQueue[x]
SetQueue(x, q) ==
    IF x \in Pools THEN globalQueue' = [globalQueue EXCEPT ![x] = q] /\ UNCHANGED localQueue
                   ELSE localQueue' = [localQueue EXCEPT ![x] = q] /\ UNCHANGED globalQueue

Init ==
    /\ session \in Sessions
    /\ state = [p \in Pools |-> "Started"]
    /\ globalQueue = [p \in Pools |-> <<>>] /\ localQueue = [w \in Workers |-> <<>>]
    /\ mayBeSleeping = [p \in Pools |-> 0] /\ sleeping = [p \in Pools |-> 0]
    /\ pending = [p \in Pools |-> 0]
    /\ isSleeping = [w \in Workers |-> FALSE]
    /\ event = [w \in Workers |-> "None"] /\ mutex = [w \in Workers |-> NULL]
    /\ place = [c \in Coroutines |-> IF c \in session.party THEN "new" ELSE "done"]
    /\ hops = [c \in Coroutines |-> session.hops]
    /\ cancelled = [c \in Coroutines |-> FALSE]
    /\ pc = [t \in Threads |-> CASE t \in Clients -> "idle"
                                [] t \in session.crew -> "top"
                                [] OTHER -> "exited"]
    /\ self = [t \in Threads |-> NULL] /\ tried = [t \in Threads |-> {}]
    /\ back = [t \in Threads |-> "top"] /\ call = [t \in Threads |-> NoCall]

At(t, s) == pc[t] = s
Goto(t, s) == pc' = [pc EXCEPT ![t] = s]
Go(t, from, to) == At(t, from) /\ Goto(t, to)

Return(t) == Goto(t, call[t].back) /\ call' = [call EXCEPT ![t] = NoCall]
\* The worker goes on where it was when it began to wake up.
GoOn(w) == Goto(w, back[w]) /\ back' = [back EXCEPT ![w] = "top"]

-----------------------------------------------------------------------------
(* runWorkerThread() *)

\* Mutant of Top: a worker does not finish its work in any shutdown.
TopHasty(w) ==
    /\ Go(w, "top", IF state[PoolOf(w)] # "Started" THEN "exited" ELSE "getWork")
    /\ UNCHANGED <<session, state, queues, counts, events, coros, locals>>

Top(w) ==
    /\ Go(w, "top", IF state[PoolOf(w)] = "ShuttingDownImmediately" THEN "exited" ELSE "getWork")
    /\ UNCHANGED <<session, state, queues, counts, events, coros, locals>>

\* Where a search goes on with a coroutine, and without.
Found(w) == IF At(w, "getWork") THEN "pendings" ELSE "normal"
Missed(w) == CASE At(w, "getWork") -> "search"
               [] At(w, "search") -> "checkState"
               [] At(w, "searchLast") -> "checkPending"

\* tryGetWork() and tryGetRemote(): one queue after the other is tried.  The first
\* coroutine found ends the search.
Search(w) ==
    /\ pc[w] \in {"getWork", "search", "searchLast"}
    /\ \E x \in QueuesOf(PoolOf(w)) \ tried[w] :
         IF Queue(x) = <<>>
           THEN LET all == tried[w] \cup {x} = QueuesOf(PoolOf(w)) IN
                /\ tried' = [tried EXCEPT ![w] = IF all THEN {} ELSE @ \cup {x}]
                /\ IF all THEN Goto(w, Missed(w)) ELSE UNCHANGED pc
                /\ UNCHANGED <<queues, self, back>>
           ELSE /\ SetQueue(x, Tail(Queue(x)))
                /\ self' = [self EXCEPT ![w] = Head(Queue(x))]
                /\ tried' = [tried EXCEPT ![w] = {}]
                /\ Goto(w, Found(w))
                /\ back' = [back EXCEPT ![w] = "run"]
    /\ UNCHANGED <<session, state, counts, events, coros, call>>

\* Between the searches before a sleep a worker looks for a shutdown.  (The code
\* does 32 searches and looks before a last one; here one.)
CheckState(w) ==
    /\ Go(w, "checkState", IF state[PoolOf(w)] = "Started" THEN "searchLast" ELSE "exited")
    /\ UNCHANGED <<session, state, queues, counts, events, coros, locals>>

CheckPending(w) ==
    /\ Go(w, "checkPending", IF pending[PoolOf(w)] # 0 THEN "normal"
                             ELSE IF isSleeping[w] THEN "countAsleep" ELSE "markSleeping")
    /\ UNCHANGED <<session, state, queues, counts, events, coros, locals>>

\* setSleeping(true), after which the worker searches again.
MarkSleeping(w) ==
    /\ Go(w, "markSleeping", "countMayBe")
    /\ isSleeping' = [isSleeping EXCEPT ![w] = TRUE]
    /\ UNCHANGED <<session, state, queues, counts, event, mutex, coros, locals>>

\* Mutant of CountMayBe: no search after setSleeping(true).
CountMayBeLast(w) ==
    /\ Go(w, "countMayBe", "countAsleep")
    /\ mayBeSleeping' = [mayBeSleeping EXCEPT ![PoolOf(w)] = @ + 1]
    /\ UNCHANGED <<session, state, queues, sleeping, pending, events, coros, locals>>

CountMayBe(w) ==
    /\ Go(w, "countMayBe", "search")
    /\ mayBeSleeping' = [mayBeSleeping EXCEPT ![PoolOf(w)] = @ + 1]
    /\ UNCHANGED <<session, state, queues, sleeping, pending, events, coros, locals>>

CountAsleep(w) ==
    /\ Go(w, "countAsleep", "wait")
    /\ sleeping' = [sleeping EXCEPT ![PoolOf(w)] = @ + 1]
    /\ UNCHANGED <<session, state, queues, mayBeSleeping, pending, events, coros, locals>>

CountAwake(w) ==
    /\ Go(w, "awake", "unmark")
    /\ sleeping' = [sleeping EXCEPT ![PoolOf(w)] = @ - 1]
    /\ back' = [back EXCEPT ![w] = "search"]
    /\ UNCHANGED <<session, state, queues, mayBeSleeping, pending, events, coros, self,
                   tried, call>>

\* normal_processing
Normal(w) ==
    /\ Go(w, "normal", IF isSleeping[w] THEN "unmark" ELSE "pendings")
    /\ UNCHANGED <<session, state, queues, counts, events, coros, locals>>

\* setSleeping(false)
Unmark(w) ==
    /\ Go(w, "unmark", "uncount")
    /\ isSleeping' = [isSleeping EXCEPT ![w] = FALSE]
    /\ UNCHANGED <<session, state, queues, counts, event, mutex, coros, locals>>

Uncount(w) ==
    /\ Go(w, "uncount", "checkNone")
    /\ mayBeSleeping' = [mayBeSleeping EXCEPT ![PoolOf(w)] = @ - 1]
    /\ UNCHANGED <<session, state, queues, sleeping, pending, events, coros, locals>>

CheckNone(w) ==
    /\ At(w, "checkNone")
    /\ IF mayBeSleeping[PoolOf(w)] = 0 THEN Goto(w, "clearPending") /\ UNCHANGED back
                                       ELSE GoOn(w)
    /\ UNCHANGED <<session, state, queues, counts, events, coros, self, tried, call>>

ClearPending(w) ==
    /\ At(w, "clearPending") /\ GoOn(w)
    /\ pending' = [pending EXCEPT ![PoolOf(w)] = 0]
    /\ UNCHANGED <<session, state, queues, mayBeSleeping, sleeping, events, coros, self,
                   tried, call>>

\* processPendingWakeUps()
ProcessPending(w) ==
    LET p == PoolOf(w) IN
    /\ At(w, "pendings")
    /\ IF pending[p] = 0
         THEN GoOn(w) /\ UNCHANGED <<pending, call>>
         ELSE /\ pending' = [pending EXCEPT ![p] = @ - 1]
              /\ Goto(w, "wake")
              /\ call' = [call EXCEPT ![w] = [NoCall EXCEPT !.pool = p, !.back = back[w]]]
              /\ back' = [back EXCEPT ![w] = "top"]
    /\ UNCHANGED <<session, state, queues, mayBeSleeping, sleeping, events, coros, self, tried>>

-----------------------------------------------------------------------------
(* SyncAutoResetEvent::wait() *)

Wait(w) ==
    /\ At(w, "wait")
    /\ IF event[w] = "None" THEN Goto(w, "lockWait") /\ event' = [event EXCEPT ![w] = "NotSet"]
                            ELSE Goto(w, "awake") /\ event' = [event EXCEPT ![w] = "None"]
    /\ UNCHANGED <<session, state, queues, counts, isSleeping, mutex, coros, locals>>

\* The mutex is taken at first, and again when the thread is notified.
LockWait(w) ==
    /\ Go(w, "lockWait", "checkSet")
    /\ mutex[w] = NULL
    /\ mutex' = [mutex EXCEPT ![w] = w]
    /\ UNCHANGED <<session, state, queues, counts, isSleeping, event, coros, locals>>

\* m_cv.wait() gives up the mutex and blocks at once.
CheckSet(w) ==
    /\ At(w, "checkSet")
    /\ IF event[w] = "Set" THEN Goto(w, "awake") /\ event' = [event EXCEPT ![w] = "None"]
                           ELSE Goto(w, "asleep") /\ UNCHANGED event
    /\ mutex' = [mutex EXCEPT ![w] = NULL]
    /\ UNCHANGED <<session, state, queues, counts, isSleeping, coros, locals>>

-----------------------------------------------------------------------------
(* The coroutine a worker has taken (resume()), and scheduleOnThreadPool() *)

CallSchedule(t, c, p, to) ==
    /\ Goto(t, "enqueue") /\ WorkersOf(p) # {}
    /\ call' = [call EXCEPT ![t] = [NoCall EXCEPT !.pool = p, !.item = c, !.back = to]]

\* A thread of a pool that shuts down cancels what it schedules.
ShuttingDown(t) == t \in Workers /\ state[PoolOf(t)] # "Started"

\* The coroutine ends, or suspends for something outside the model.
Finish(w) ==
    LET c == self[w] IN
    /\ Go(w, "run", "top")
    /\ place' = [place EXCEPT ![c] = "done"]
    /\ self' = [self EXCEPT ![w] = NULL]
    /\ UNCHANGED <<session, state, queues, counts, events, hops, cancelled, tried, back, call>>

\* Mutant of Hop: the coroutine runs on though it is scheduled.
HopRunsOn(w, p) ==
    LET c == self[w] IN
    /\ At(w, "run") /\ hops[c] > 0 /\ ~cancelled[c]
    /\ CallSchedule(w, c, p, "run")
    /\ hops' = [hops EXCEPT ![c] = @ - 1]
    /\ cancelled' = [cancelled EXCEPT ![c] = ShuttingDown(w)]
    /\ UNCHANGED <<session, state, queues, counts, events, place, self, tried, back>>

\* It is suspended and scheduled, on either pool; a cancelled one does not await.
Hop(w, p) ==
    LET c == self[w] IN
    /\ At(w, "run") /\ hops[c] > 0 /\ ~cancelled[c]
    /\ CallSchedule(w, c, p, "top")
    /\ hops' = [hops EXCEPT ![c] = @ - 1]
    /\ cancelled' = [cancelled EXCEPT ![c] = ShuttingDown(w)]
    /\ self' = [self EXCEPT ![w] = NULL]
    /\ UNCHANGED <<session, state, queues, counts, events, place, tried, back>>

\* Another coroutine is scheduled, by a running one or by a client.
Start(t, c, p) ==
    /\ At(t, IF t \in Workers THEN "run" ELSE "idle")
    /\ place[c] = "new"
    /\ CallSchedule(t, c, p, pc[t])
    /\ place' = [place EXCEPT ![c] = "live"]
    /\ cancelled' = [cancelled EXCEPT ![c] = ShuttingDown(t)]
    /\ UNCHANGED <<session, state, queues, counts, events, hops, self, tried, back>>

\* A worker of the default pool keeps its coroutine to itself.
Enqueue(t) ==
    LET p == call[t].pool
        x == IF t \in DefaultWorkers /\ p = "Default" THEN t ELSE p
    IN  /\ Go(t, "enqueue", "wake")
        /\ SetQueue(x, Append(Queue(x), call[t].item))
        /\ call' = [call EXCEPT ![t].item = NULL]
        /\ UNCHANGED <<session, state, counts, events, coros, self, tried, back>>

-----------------------------------------------------------------------------
(* wakeOneThread() *)

Foreign(t) == t \in Workers /\ PoolOf(t) # call[t].pool
AllMayBe(p) == mayBeSleeping[p] = threadCount(p)

Wake(t) ==
    /\ Go(t, "wake", "nextSleeper")
    /\ call' = [call EXCEPT ![t].immediate =
           t \notin DefaultWorkers \/ (Foreign(t) /\ AllMayBe(call[t].pool))]
    /\ UNCHANGED <<session, state, queues, counts, events, coros, self, tried, back>>

\* It is a success also when nobody may be sleeping.
NextSleeper(t) ==
    LET p == call[t].pool IN
    /\ At(t, "nextSleeper")
    /\ IF call[t].tried # WorkersOf(p) /\ mayBeSleeping[p] = 0
         THEN Return(t)
         ELSE /\ Goto(t, IF call[t].tried = WorkersOf(p) THEN "noneWoken" ELSE "trySleeper")
              /\ UNCHANGED call
    /\ UNCHANGED <<session, state, queues, counts, events, coros, self, tried, back>>

TrySleeper(t) ==
    /\ At(t, "trySleeper")
    /\ \E w \in WorkersOf(call[t].pool) \ call[t].tried :
         IF isSleeping[w]
           THEN /\ Goto(t, IF call[t].immediate THEN "set" ELSE "trySet")
                /\ call' = [call EXCEPT ![t].tried = @ \cup {w}, ![t].sleeper = w]
           ELSE /\ Goto(t, "nextSleeper")
                /\ call' = [call EXCEPT ![t].tried = @ \cup {w}]
    /\ UNCHANGED <<session, state, queues, counts, events, coros, self, tried, back>>

\* set(): only who finds somebody waiting notifies.
Set(t) ==
    LET w == call[t].sleeper IN
    /\ At(t, "set")
    /\ event' = [event EXCEPT ![w] = "Set"]
    /\ IF event[w] = "NotSet" THEN Goto(t, "lockSet") /\ UNCHANGED call ELSE Return(t)
    /\ UNCHANGED <<session, state, queues, counts, isSleeping, mutex, coros, self, tried, back>>

LockSet(t) ==
    LET w == call[t].sleeper IN
    /\ Go(t, "lockSet", "notify")
    /\ mutex[w] = NULL
    /\ mutex' = [mutex EXCEPT ![w] = t]
    /\ UNCHANGED <<session, state, queues, counts, isSleeping, event, coros, locals>>

\* trySet(): does not wait for the mutex.
TrySet(t) ==
    LET w == call[t].sleeper IN
    /\ At(t, "trySet")
    /\ IF mutex[w] = NULL
         THEN Goto(t, "store") /\ mutex' = [mutex EXCEPT ![w] = t] /\ UNCHANGED call
         ELSE /\ Goto(t, "nextSleeper") /\ UNCHANGED mutex
              /\ call' = [call EXCEPT ![t].sleeper = NULL]
    /\ UNCHANGED <<session, state, queues, counts, isSleeping, event, coros, self, tried, back>>

Store(t) ==
    /\ Go(t, "store", "notify")
    /\ event' = [event EXCEPT ![call[t].sleeper] = "Set"]
    /\ UNCHANGED <<session, state, queues, counts, isSleeping, mutex, coros, locals>>

Notify(t) ==
    LET w == call[t].sleeper IN
    /\ At(t, "notify")
    /\ pc' = [u \in Threads |-> IF u = t THEN call[t].back
                               ELSE IF u = w /\ pc[u] = "asleep" THEN "lockWait" ELSE pc[u]]
    /\ mutex' = [mutex EXCEPT ![w] = NULL]
    /\ call' = [call EXCEPT ![t] = NoCall]
    /\ UNCHANGED <<session, state, queues, counts, isSleeping, event, coros, self, tried, back>>

\* Every worker has been tried.  A request stays behind for a worker that is awake;
\* when there is none and one has been left before, a worker of another pool goes
\* round again and waits for the mutex.
NoneWoken(t) ==
    LET p == call[t].pool IN
    /\ At(t, "noneWoken")
    /\ IF call[t].immediate \/ mayBeSleeping[p] = 0
         THEN Return(t)
         ELSE IF Foreign(t) /\ AllMayBe(p) /\ pending[p] > 0
           THEN /\ Goto(t, "nextSleeper")
                /\ call' = [call EXCEPT ![t].immediate = TRUE, ![t].tried = {}]
           ELSE /\ Goto(t, "leaveRequest")
                /\ call' = [call EXCEPT ![t].seen = pending[p], ![t].tried = {}]
    /\ UNCHANGED <<session, state, queues, counts, events, coros, self, tried, back>>

LeaveRequest(t) ==
    /\ At(t, "leaveRequest")
    /\ IF call[t].seen >= mayBeSleeping[call[t].pool] THEN Return(t)
                                                     ELSE Goto(t, "addRequest") /\ UNCHANGED call
    /\ UNCHANGED <<session, state, queues, counts, events, coros, self, tried, back>>

AddRequest(t) ==
    LET p == call[t].pool IN
    /\ At(t, "addRequest")
    /\ IF pending[p] = call[t].seen
         THEN Return(t) /\ pending' = [pending EXCEPT ![p] = @ + 1]
         ELSE /\ Goto(t, "leaveRequest") /\ UNCHANGED pending
              /\ call' = [call EXCEPT ![t].seen = pending[p]]
    /\ UNCHANGED <<session, state, queues, mayBeSleeping, sleeping, events, coros, self,
                   tried, back>>

-----------------------------------------------------------------------------
(* shutdownAll(): shutdown(State) of the default pool, then of the other *)

Shutdown(t) ==
    /\ t \in session.closers /\ state["Default"] = "Started"
    /\ Go(t, "idle", "wakeAll")
    /\ state' = [state EXCEPT !["Default"] = ShutdownState]
    /\ UNCHANGED <<session, queues, counts, events, coros, locals>>

\* The pool whose turn it is.
ShutPool == IF state["Default"] = "Terminated" THEN "Background" ELSE "Default"

WakeAll(t) ==
    /\ At(t, "wakeAll")
    /\ \E w \in WorkersOf(ShutPool) \ tried[t] :
         /\ tried' = [tried EXCEPT ![t] = @ \cup {w}]
         /\ IF isSleeping[w]
              THEN /\ Goto(t, "set")
                   /\ call' = [call EXCEPT ![t] = [NoCall EXCEPT !.sleeper = w, !.back = "wakeAll"]]
              ELSE UNCHANGED <<pc, call>>
    /\ UNCHANGED <<session, state, queues, counts, events, coros, self, back>>

\* Every thread of the pool is joined.
Join(t) ==
    /\ At(t, "wakeAll") /\ tried[t] = WorkersOf(ShutPool)
    /\ \A w \in WorkersOf(ShutPool) : At(w, "exited")
    /\ tried' = [tried EXCEPT ![t] = {}]
    /\ IF ShutPool = "Default"
         THEN /\ state' = [state EXCEPT !["Default"] = "Terminated",
                                         !["Background"] = ShutdownState]
              /\ UNCHANGED pc
         ELSE /\ state' = [state EXCEPT !["Background"] = "Terminated"]
              /\ Goto(t, "gone")
    /\ UNCHANGED <<session, queues, counts, events, coros, self, back, call>>

-----------------------------------------------------------------------------
(* waitForAllThreadsIdle() *)

\* It waits for the default pool to be idle, and then for the default pool again,
\* as backgroundThreadPool() is not what line 360 calls.
WaitForIdle(t) ==
    /\ t \in session.lookers
    /\ Go(t, "idle", "look")
    /\ UNCHANGED <<session, state, queues, counts, events, coros, locals>>

\* sleepingThreadCount() == threadCount(), which the loop spins for.
LookAsleep(t) ==
    /\ sleeping["Default"] = threadCount("Default")
    /\ \/ Go(t, "look", "haveWork")
       \/ Go(t, "lookAgain", "haveWorkAgain")
    /\ UNCHANGED <<session, state, queues, counts, events, coros, locals>>

\* Mutant of LookWork: one loop for both pools.
LookWorkOnce(t) ==
    /\ At(t, "haveWork")
    /\ \E x \in QueuesOf("Default") \ tried[t] :
         LET all == tried[t] \cup {x} = QueuesOf("Default") IN
         /\ tried' = [tried EXCEPT ![t] = IF all \/ Queue(x) # <<>> THEN {} ELSE @ \cup {x}]
         /\ IF Queue(x) # <<>> THEN Goto(t, "look")
            ELSE IF all THEN Goto(t, "sawIdle") ELSE UNCHANGED pc
    /\ UNCHANGED <<session, state, queues, counts, events, coros, self, back, call>>

\* haveWork(): one queue after the other; the loop starts anew when one has work.
LookWork(t) ==
    /\ pc[t] \in {"haveWork", "haveWorkAgain"}
    /\ \E x \in QueuesOf("Default") \ tried[t] :
         LET all   == tried[t] \cup {x} = QueuesOf("Default")
             first == At(t, "haveWork")
         IN  /\ tried' = [tried EXCEPT ![t] = IF all \/ Queue(x) # <<>> THEN {} ELSE @ \cup {x}]
             /\ IF Queue(x) # <<>> THEN Goto(t, IF first THEN "look" ELSE "lookAgain")
                ELSE IF all THEN Goto(t, IF first THEN "lookAgain" ELSE "sawIdle")
                ELSE UNCHANGED pc
    /\ UNCHANGED <<session, state, queues, counts, events, coros, self, back, call>>

-----------------------------------------------------------------------------
WakeStep(t) ==
    \/ Enqueue(t) \/ Wake(t) \/ NextSleeper(t) \/ TrySleeper(t) \/ Set(t) \/ LockSet(t)
    \/ TrySet(t) \/ Store(t) \/ Notify(t) \/ NoneWoken(t) \/ LeaveRequest(t) \/ AddRequest(t)

WorkerStep(w) ==
    \/ Top(w) \/ Search(w) \/ CheckState(w) \/ CheckPending(w) \/ MarkSleeping(w) \/ CountMayBe(w)
    \/ CountAsleep(w) \/ CountAwake(w) \/ Normal(w) \/ Unmark(w) \/ Uncount(w) \/ CheckNone(w)
    \/ ClearPending(w) \/ ProcessPending(w) \/ Wait(w) \/ LockWait(w) \/ CheckSet(w) \/ Finish(w)

Body(w) == \E p \in Pools : Hop(w, p) \/ \E c \in Coroutines : Start(w, c, p)

ClientStep(t) == WakeAll(t) \/ Join(t) \/ LookAsleep(t) \/ LookWork(t)

Next ==
    \/ \E t \in Threads : WakeStep(t)
    \/ \E w \in Workers : WorkerStep(w) \/ Body(w)
    \/ \E t \in Clients : \/ ClientStep(t) \/ Shutdown(t) \/ WaitForIdle(t)
                          \/ \E c \in Coroutines, p \in Pools : Start(t, c, p)

Spec == Init /\ [][Next]_vars

\* The operating system runs every thread that is not blocked.
Fairness ==
    /\ \A t \in Threads : WF_vars(WakeStep(t))
    /\ \A w \in Workers : WF_vars(WorkerStep(w))
    /\ \A t \in Clients : WF_vars(ClientStep(t))
FairSpec == Spec /\ Fairness

-----------------------------------------------------------------------------
(* Properties *)

Searching == {"top", "getWork", "search", "checkState", "searchLast", "checkPending"}
Sleepy    == {"markSleeping", "countMayBe", "countAsleep", "wait", "lockWait", "checkSet", "asleep",
              "awake", "normal", "unmark", "uncount", "checkNone", "clearPending", "pendings"}
Waking    == {"enqueue", "wake", "nextSleeper", "trySleeper", "set", "lockSet", "trySet", "store",
              "notify", "noneWoken", "leaveRequest", "addRequest"}
Pcs       == Searching \cup Sleepy \cup Waking \cup {"run", "idle", "wakeAll", "exited", "gone",
                                         "look", "haveWork", "lookAgain", "haveWorkAgain", "sawIdle"}

\* Types; the counters stay between zero and the number of threads of the pool,
\* which the assertions of the code (lines 139, 143, 313, 314, 323, 324) demand.
TypeOK ==
    /\ session \in Sessions
    /\ state \in [Pools -> {"Started", "ShuttingDown", "ShuttingDownImmediately", "Terminated"}]
    /\ globalQueue \in [Pools -> Seq(Coroutines)] /\ localQueue \in [Workers -> Seq(Coroutines)]
    /\ mayBeSleeping \in [Pools -> Nat] /\ sleeping \in [Pools -> Nat] /\ pending \in [Pools -> Nat]
    /\ \A p \in Pools : /\ mayBeSleeping[p] <= threadCount(p) /\ sleeping[p] <= threadCount(p)
                        /\ pending[p] <= threadCount(p)
    /\ isSleeping \in [Workers -> BOOLEAN] /\ event \in [Workers -> {"Set", "NotSet", "None"}]
    /\ mutex \in [Workers -> Threads \cup {NULL}]
    /\ place \in [Coroutines -> {"new", "live", "done"}] /\ hops \in [Coroutines -> Nat]
    /\ cancelled \in [Coroutines -> BOOLEAN]
    /\ pc \in [Threads -> Pcs] /\ back \in [Threads -> {"top", "search", "run"}]
    /\ self \in [Threads -> Coroutines \cup {NULL}]
    /\ tried \in [Threads -> SUBSET (Pools \cup Workers)]
    /\ call \in [Threads -> [pool : Pools \cup {NULL}, item : Coroutines \cup {NULL},
                             tried : SUBSET Workers, sleeper : Workers \cup {NULL},
                             immediate : BOOLEAN, seen : Nat,
                             back : {"idle", "top", "search", "run", "wakeAll"}]]

\* Where a coroutine is: in queues, with threads that run it, and with threads that are
\* about to enqueue it.
PlacesIn(x, c) == {<<"queue", x, i>> : i \in {j \in 1 .. Len(Queue(x)) : Queue(x)[j] = c}}
Queued(c) == UNION {PlacesIn(x, c) : x \in Pools \cup Workers}
PlacesOf(c) ==
    Queued(c) \cup {<<"self", t>> : t \in {u \in Threads : self[u] = c}}
              \cup {<<"item", t>> : t \in {u \in Threads : call[u].item = c}}

\* Every coroutine is in one place, unless it is new or done: then it is in none.
OnePlace ==
    \A c \in Coroutines :
        IF place[c] = "live" THEN \E p \in PlacesOf(c) : PlacesOf(c) = {p} ELSE PlacesOf(c) = {}

\* The types hold, and every coroutine is in its one place.
Consistent == TypeOK /\ OnePlace

\* Where nothing but the default pool is used, and by one client, no coroutine is
\* queued or runs when waitForAllThreadsIdle() returns.  A worker on its way out of
\* its sleep counts as asleep, and its coroutine leaves the queue before haveWork()
\* has looked there: it is the second loop that makes up for it.
IdleMeansDone ==
    \A t \in Clients : At(t, "sawIdle") /\ WorkersOf("Background") = {} =>
        \A c \in Coroutines : place[c] # "live"

\* Once shutdown() (not shutdownImmediately()) has waited for the workers of the
\* default pool, the local queues of all of them are empty: a worker leaves only
\* after it found its own queue empty, and nobody else adds to it.  The global queues
\* may have coroutines left that came after a worker had looked there.
LocalWorkDrained ==
    ShutdownState = "ShuttingDown" /\ state["Default"] = "Terminated" =>
        \A w \in Workers : localQueue[w] = <<>>

\* Every coroutine that is scheduled runs, unless the pools are shut down, and a
\* shutdownAll() that has begun returns: each worker finds out, whether it sleeps,
\* is about to, or is being woken by somebody else.
EverythingEnds ==
    []<>(\/ state["Default"] = "Started" /\ \A c \in Coroutines : place[c] # "live"
         \/ state["Background"] = "Terminated")
=============================================================================
