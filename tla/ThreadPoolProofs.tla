-------------------------- MODULE ThreadPoolProofs --------------------------
(***************************************************************************)
(* Proofs about ThreadPool, for any number of workers, clients and         *)
(* coroutines and any sessions: the counts of sleepers are the sleepers    *)
(* there are, every coroutine is in one place, a shutdown() drains the     *)
(* queues of the workers, and waitForAllThreadsIdle() returns to the only  *)
(* client of the only pool when nothing is left.                           *)
(***************************************************************************)
EXTENDS ThreadPool, FiniteSetTheorems, SequenceTheorems, TLAPS

-----------------------------------------------------------------------------
(* The inductive invariants *)

Leaving == {"normal", "unmark", "uncount", "checkNone", "clearPending", "pendings"}
Asleep  == {"wait", "lockWait", "checkSet", "asleep", "awake"}
Finding == {"getWork", "search", "searchLast"}
Looking == {"look", "haveWork", "lookAgain", "haveWorkAgain", "sawIdle"}

Calls == [pool : Pools \cup {NULL}, item : Coroutines \cup {NULL}, tried : SUBSET Workers,
          sleeper : Workers \cup {NULL}, immediate : BOOLEAN, seen : Nat,
          back : {"idle", "top", "search", "run", "wakeAll"}]

\* The types, without the bounds of the counters.
Typed ==
    /\ session \in Sessions
    /\ state \in [Pools -> {"Started", "ShuttingDown", "ShuttingDownImmediately", "Terminated"}]
    /\ globalQueue \in [Pools -> Seq(Coroutines)] /\ localQueue \in [Workers -> Seq(Coroutines)]
    /\ mayBeSleeping \in [Pools -> Int] /\ sleeping \in [Pools -> Int] /\ pending \in [Pools -> Nat]
    /\ isSleeping \in [Workers -> BOOLEAN] /\ event \in [Workers -> {"Set", "NotSet", "None"}]
    /\ mutex \in [Workers -> Threads \cup {NULL}]
    /\ place \in [Coroutines -> {"new", "live", "done"}] /\ hops \in [Coroutines -> Nat]
    /\ cancelled \in [Coroutines -> BOOLEAN]
    /\ pc \in [Threads -> Pcs] /\ back \in [Threads -> {"top", "search", "run"}]
    /\ self \in [Threads -> Coroutines \cup {NULL}]
    /\ tried \in [Threads -> SUBSET (Pools \cup Workers)]
    /\ call \in [Threads -> Calls]

\* The locals of a thread belong to its place.
Control(t) ==
    /\ call[t] # NoCall => pc[t] \in Waking
    /\ pc[t] = "enqueue" => /\ call[t].item \in Coroutines /\ call[t].pool \in Pools
                            /\ WorkersOf(call[t].pool) # {}
    /\ call[t].item # NULL => pc[t] = "enqueue"
    /\ pc[t] \in Waking \ {"set", "lockSet", "notify"} => call[t].pool \in Pools
    /\ pc[t] \in {"set", "lockSet", "trySet", "store", "notify"} => call[t].sleeper \in Workers
    /\ pc[t] = "addRequest" => call[t].seen < threadCount(call[t].pool)
    /\ pc[t] \in Waking => call[t].back \in (IF t \in Workers THEN {"top", "search", "run"}
                                                              ELSE {"idle", "wakeAll"})
    /\ back[t] # "top" => t \in Workers /\ pc[t] \in Leaving

\* Where the two kinds of threads are, and what a worker has by then.
ClientPlaced(t) == /\ pc[t] \in Waking \cup Looking \cup {"idle", "wakeAll", "gone"}
                   /\ self[t] = NULL
WorkerPlaced(w) ==
    /\ pc[w] \notin Looking \cup {"idle", "wakeAll", "gone"}
    /\ w \notin session.crew => pc[w] = "exited"
    /\ pc[w] \notin Finding => tried[w] = {}
    /\ self[w] # NULL <=> \/ pc[w] = "run"
                          \/ pc[w] \in Leaving /\ back[w] = "run"
                          \/ pc[w] \in Waking /\ call[w].back = "run"
    /\ pc[w] \in {"countMayBe", "countAsleep", "unmark"} \cup Asleep => isSleeping[w]
    /\ pc[w] \in {"markSleeping", "uncount"} => ~isSleeping[w]
Local(t) == /\ Control(t)
            /\ t \in Clients => ClientPlaced(t)
            /\ t \in Workers => WorkerPlaced(t)
Locals == \A t \in Threads : Local(t)

\* m_mayBeSleepingThreadCount and m_sleepingThreadCount are the numbers of workers
\* between one count and the other, a worker that ended in its sleep among them.
MayBe(w) == \/ isSleeping[w] /\ pc[w] # "countMayBe"
            \/ pc[w] = "uncount"
InSleep(w) == pc[w] \in Asleep
CountedMayBe(p) == {w \in WorkersOf(p) : MayBe(w)}
CountedAsleep(p) == {w \in WorkersOf(p) : InSleep(w)}
Counted ==
    \A p \in Pools : /\ mayBeSleeping[p] = Cardinality(CountedMayBe(p))
                     /\ sleeping[p] = Cardinality(CountedAsleep(p))
                     /\ pending[p] <= threadCount(p)

\* OnePlace, place by place.
InQueue(c) == \E x \in Pools \cup Workers : \E i \in 1 .. Len(Queue(x)) : Queue(x)[i] = c
Runs(c) == \E t \in Threads : self[t] = c
Carried(c) == \E t \in Threads : call[t].item = c
OnceQueued ==
    \A x, y \in Pools \cup Workers : \A i \in 1 .. Len(Queue(x)), j \in 1 .. Len(Queue(y)) :
        Queue(x)[i] = Queue(y)[j] => x = y /\ i = j
OnceHeld ==
    /\ \A t, u \in Threads : self[t] = self[u] /\ self[t] # NULL => t = u
    /\ \A t, u \in Threads : call[t].item = call[u].item /\ call[t].item # NULL => t = u
Once(c) ==
    /\ ~(InQueue(c) /\ Runs(c)) /\ ~(InQueue(c) /\ Carried(c)) /\ ~(Runs(c) /\ Carried(c))
    /\ place[c] = "live" <=> InQueue(c) \/ Runs(c) \/ Carried(c)
Placed == OnceQueued /\ OnceHeld /\ \A c \in Coroutines : Once(c)

PoolInv == Typed /\ Locals /\ Counted /\ Placed

\* A worker on its way to sleep, asleep or on its way out has an empty queue of its own:
\* it found it empty after it last scheduled anything, and nobody else schedules there.
Dozing(w) ==
    \/ pc[w] \in Finding /\ w \in tried[w]
    \/ pc[w] \in {"checkState", "checkPending", "markSleeping", "countMayBe", "countAsleep"} \cup Asleep
Emptied ==
    \A w \in Workers : w \in BackgroundWorkers \/ w \notin session.crew \/ Dozing(w) =>
        localQueue[w] = <<>>

\* Nobody ends with work in its queue in a shutdown that is not immediate.
Drained ==
    ShutdownState = "ShuttingDown" =>
        /\ \A p \in Pools : state[p] # "ShuttingDownImmediately"
        /\ \A w \in Workers : pc[w] = "exited" => localQueue[w] = <<>>
        /\ state["Default"] = "Terminated" => \A w \in WorkersOf("Default") : pc[w] = "exited"

\* What a client that waits for the workers knows after each of its loops.
SeenBy(t) ==
    /\ "Default" \in tried[t] => /\ pc[t] \in {"haveWork", "haveWorkAgain"}
                                 /\ globalQueue["Default"] = <<>>
    /\ pc[t] \in {"lookAgain", "haveWorkAgain", "sawIdle"} => globalQueue["Default"] = <<>>
    /\ pc[t] \in {"haveWorkAgain", "sawIdle"} => \A c \in Coroutines : place[c] # "live"
Seen ==
    /\ \A p \in Pools : WorkersOf(p) = {} => globalQueue[p] = <<>>
    /\ WorkersOf("Background") = {} => \A t \in Clients : SeenBy(t)

-----------------------------------------------------------------------------
(* Lemmas about threads, queues and numbers of workers *)

\* The threads are the workers of the two pools and the clients.
LEMMA ThreadFacts ==
    /\ Workers \subseteq Threads /\ Clients \subseteq Threads /\ Workers \cap Clients = {}
    /\ Threads = Workers \cup Clients /\ Workers = DefaultWorkers \cup BackgroundWorkers
    /\ DefaultWorkers \cap BackgroundWorkers = {} /\ Workers \cap Pools = {}
    /\ Pools = {"Default", "Background"} /\ "Default" \in Pools /\ "Background" \in Pools
    /\ NULL \notin Threads /\ NULL \notin Coroutines /\ NULL \notin Pools /\ NULL \notin Workers
    /\ \A w \in Workers : PoolOf(w) \in Pools
    /\ \A t : PoolOf(t) \in Pools \cup {NULL}
BY ThreadAssumption DEF Threads, Workers, Pools, PoolOf

\* The threads of a pool.
LEMMA CrewFacts ==
    /\ \A p \in Pools : WorkersOf(p) \subseteq Workers
    /\ \A p \in Pools : IsFiniteSet(WorkersOf(p)) /\ threadCount(p) \in Nat
    /\ \A w \in Workers, p \in Pools : w \in WorkersOf(p) <=> w \in session.crew /\ PoolOf(w) = p
    /\ \A p \in Pools : QueuesOf(p) \subseteq Pools \cup Workers
<1>1. \A p \in Pools : WorkersOf(p) \subseteq Workers
  BY DEF WorkersOf, Workers
<1>2. ASSUME NEW p \in Pools PROVE IsFiniteSet(WorkersOf(p)) /\ threadCount(p) \in Nat
  <2>1. IsFiniteSet(Threads) /\ WorkersOf(p) \in SUBSET Threads
    BY <1>1, ThreadFacts, ThreadAssumption
  <2>2. IsFiniteSet(WorkersOf(p))
    BY <2>1, FS_Subset
  <2> QED BY <2>2, FS_CardinalityType DEF threadCount
<1>3. \A w \in Workers, p \in Pools : w \in WorkersOf(p) <=> w \in session.crew /\ PoolOf(w) = p
  BY ThreadFacts DEF WorkersOf, PoolOf
<1>4. \A p \in Pools : QueuesOf(p) \subseteq Pools \cup Workers
  BY <1>1 DEF QueuesOf
<1> QED BY <1>1, <1>2, <1>3, <1>4

\* The session stays, and with it the threads of the pools.
LEMMA CrewStays ==
    ASSUME [Next]_vars
    PROVE  /\ session' = session
           /\ \A p : WorkersOf(p)' = WorkersOf(p) /\ threadCount(p)' = threadCount(p)
                     /\ QueuesOf(p)' = QueuesOf(p)
<1>1. session' = session
  BY
    DEF Next, vars, WakeStep, WorkerStep, Body, ClientStep, Enqueue, Wake, NextSleeper,
        TrySleeper, Set, LockSet, TrySet, Store, Notify, NoneWoken, LeaveRequest,
        AddRequest, Top, Search, CheckState, CheckPending, MarkSleeping, CountMayBe,
        CountAsleep, CountAwake, Normal, Unmark, Uncount, CheckNone, ClearPending,
        ProcessPending, Wait, LockWait, CheckSet, Finish, Hop, Start, WakeAll, Join,
        LookAsleep, LookWork, Shutdown, WaitForIdle
<1> QED BY <1>1 DEF WorkersOf, threadCount, QueuesOf

\* One queue is set, and the others stay.
LEMMA QueueSet ==
    ASSUME Typed, NEW x \in Pools \cup Workers, NEW q \in Seq(Coroutines), SetQueue(x, q)
    PROVE  /\ globalQueue' \in [Pools -> Seq(Coroutines)] /\ localQueue' \in [Workers -> Seq(Coroutines)]
           /\ \A y \in Pools \cup Workers : Queue(y)' = IF y = x THEN q ELSE Queue(y)
<1>1. globalQueue \in [Pools -> Seq(Coroutines)] /\ localQueue \in [Workers -> Seq(Coroutines)]
  BY DEF Typed
<1>2. CASE x \in Pools
  <2>1. globalQueue' = [globalQueue EXCEPT ![x] = q] /\ localQueue' = localQueue
    BY <1>2 DEF SetQueue
  <2> QED BY <1>1, <1>2, <2>1, ThreadFacts DEF Queue
<1>3. CASE x \in Workers
  <2>1. localQueue' = [localQueue EXCEPT ![x] = q] /\ globalQueue' = globalQueue /\ x \notin Pools
    BY <1>3, ThreadFacts DEF SetQueue
  <2> QED BY <1>1, <1>3, <2>1, ThreadFacts DEF Queue
<1> QED BY <1>2, <1>3

\* A queue is a sequence of coroutines.
LEMMA QueueType == ASSUME Typed, NEW x \in Pools \cup Workers PROVE Queue(x) \in Seq(Coroutines)
BY ThreadFacts DEF Typed, Queue

\* A call that has ended.
LEMMA NoCallType ==
    /\ NoCall = [pool |-> NULL, item |-> NULL, tried |-> {}, sleeper |-> NULL,
                 immediate |-> FALSE, seen |-> 0, back |-> "idle"]
    /\ NoCall \in Calls
BY DEF NoCall, Calls

-----------------------------------------------------------------------------
(* Calls *)

\* Changes of a call that leave one.
LEMMA CallChanges ==
    ASSUME NEW k \in Calls
    PROVE  /\ \A b \in BOOLEAN : [k EXCEPT !.immediate = b] \in Calls
           /\ \A b \in SUBSET Workers : [k EXCEPT !.tried = b] \in Calls
           /\ \A b \in Workers \cup {NULL} : [k EXCEPT !.sleeper = b] \in Calls
           /\ \A b \in Nat : [k EXCEPT !.seen = b] \in Calls
           /\ \A b \in Coroutines \cup {NULL} : [k EXCEPT !.item = b] \in Calls
           /\ \A b \in Pools \cup {NULL} : [k EXCEPT !.pool = b] \in Calls
           /\ \A b \in {"idle", "top", "search", "run", "wakeAll"} : [k EXCEPT !.back = b] \in Calls
           /\ \A w \in Workers : k.tried \cup {w} \in SUBSET Workers
           /\ k.seen \in Nat
<1>1. \A b \in BOOLEAN : [k EXCEPT !.immediate = b] \in Calls
  BY DEF Calls
<1>2. \A b \in SUBSET Workers : [k EXCEPT !.tried = b] \in Calls
  BY DEF Calls
<1>3. \A b \in Workers \cup {NULL} : [k EXCEPT !.sleeper = b] \in Calls
  BY DEF Calls
<1>4. \A b \in Nat : [k EXCEPT !.seen = b] \in Calls
  BY DEF Calls
<1>5. \A b \in Coroutines \cup {NULL} : [k EXCEPT !.item = b] \in Calls
  BY DEF Calls
<1>6. \A b \in Pools \cup {NULL} : [k EXCEPT !.pool = b] \in Calls
  BY DEF Calls
<1>7. \A b \in {"idle", "top", "search", "run", "wakeAll"} : [k EXCEPT !.back = b] \in Calls
  BY DEF Calls
<1>8. k.seen \in Nat /\ k.tried \in SUBSET Workers
  BY DEF Calls
<1> QED BY <1>1, <1>2, <1>3, <1>4, <1>5, <1>6, <1>7, <1>8

\* A thread makes a call, or goes on with one.
LEMMA CallSet ==
    ASSUME Typed, NEW t \in Threads, NEW k \in Calls, call' = [call EXCEPT ![t] = k]
    PROVE  call' \in [Threads -> Calls]
BY DEF Typed

\* The calls that begin.
LEMMA CallBegins ==
    /\ \A p \in Pools, c \in Coroutines \cup {NULL}, b \in {"idle", "top", "search", "run", "wakeAll"} :
           [NoCall EXCEPT !.pool = p, !.item = c, !.back = b] \in Calls
    /\ \A p \in Pools, b \in {"idle", "top", "search", "run", "wakeAll"} :
           [NoCall EXCEPT !.pool = p, !.back = b] \in Calls
    /\ \A w \in Workers : [NoCall EXCEPT !.sleeper = w, !.back = "wakeAll"] \in Calls
BY NoCallType, CallChanges

\* The places a thread can be at.
LEMMA PcFacts ==
    /\ Searching \subseteq Pcs /\ Sleepy \subseteq Pcs /\ Waking \subseteq Pcs
    /\ {"run", "idle", "wakeAll", "exited", "gone", "look", "haveWork", "lookAgain",
        "haveWorkAgain", "sawIdle"} \subseteq Pcs
    /\ {"top", "getWork", "search", "checkState", "searchLast", "checkPending",
        "markSleeping", "countMayBe", "countAsleep", "wait", "lockWait", "checkSet", "asleep",
        "awake", "normal", "unmark", "uncount", "checkNone", "clearPending", "pendings",
        "enqueue", "wake", "nextSleeper", "trySleeper", "set", "lockSet", "trySet", "store",
        "notify", "noneWoken", "leaveRequest", "addRequest"} \subseteq Pcs
BY DEF Pcs, Searching, Sleepy, Waking

-----------------------------------------------------------------------------
(* Types *)

\* Every step keeps the types.
LEMMA TypedStep == ASSUME Typed, Locals, [Next]_vars PROVE Typed'
<1>a. \A t \in Threads : /\ call[t] \in Calls
                         /\ pc[t] = "enqueue" => call[t].item \in Coroutines /\ call[t].pool \in Pools
                         /\ pc[t] \in Waking => call[t].back \in Pcs
                         /\ pc[t] \in Waking \ {"set", "lockSet", "notify"} => call[t].pool \in Pools
                         /\ pc[t] \in {"set", "lockSet", "trySet", "store", "notify"}
                              => call[t].sleeper \in Workers
  BY PcFacts DEF Typed, Locals, Local, Control
<1>b. /\ \A w \in Workers : PoolOf(w) \in Pools /\ w \in Threads /\ w \notin Clients
      /\ \A t \in Clients : t \in Threads /\ t \notin Workers
      /\ \A p \in Pools : WorkersOf(p) \subseteq Workers /\ QueuesOf(p) \subseteq Pools \cup Workers
      /\ NULL \notin Coroutines
  BY ThreadFacts, CrewFacts
<1>c. \A s \in {"enqueue", "wake", "nextSleeper", "trySleeper", "set", "lockSet", "trySet", "store",
                "notify", "noneWoken", "leaveRequest", "addRequest"} : s \in Waking
  BY DEF Waking

<1> USE DEF queues, counts, events, coros, locals, Typed, Go, At, Goto, Return, GoOn
<1>0. CASE UNCHANGED vars
  BY <1>0, <1>b, PcFacts DEF vars, queues, counts, events, coros, locals
<1>1. ASSUME NEW t \in Threads, Enqueue(t) PROVE Typed'
  <2>1. PICK x \in Pools \cup Workers : SetQueue(x, Append(Queue(x), call[t].item))
    BY <1>1, ThreadFacts, <1>a DEF Enqueue
  <2>2. Queue(x) \in Seq(Coroutines) /\ Append(Queue(x), call[t].item) \in Seq(Coroutines)
    BY <1>1, <1>a, QueueType, AppendProperties DEF Enqueue, Typed
  <2>3. /\ globalQueue' \in [Pools -> Seq(Coroutines)]
        /\ localQueue' \in [Workers -> Seq(Coroutines)]
    BY <2>1, <2>2, QueueSet
  <2>4. [call[t] EXCEPT !.item = NULL] \in Calls
    BY <1>a, CallChanges
  <2>5. call' = [call EXCEPT ![t] = [call[t] EXCEPT !.item = NULL]]
    BY <1>1 DEF Enqueue
  <2> QED BY <1>1, <1>a, <2>3, <2>4, <2>5, CallSet, PcFacts DEF Enqueue
<1>2. ASSUME NEW t \in Threads, Wake(t) PROVE Typed'
  <2>1. PICK b \in BOOLEAN : call' = [call EXCEPT ![t].immediate = b]
    <3>1. (t \notin DefaultWorkers \/ (Foreign(t) /\ AllMayBe(call[t].pool))) \in BOOLEAN
      OBVIOUS
    <3> QED BY <1>2, <3>1 DEF Wake
  <2>2. [call[t] EXCEPT !.immediate = b] \in Calls
    BY <1>a, CallChanges
  <2>3. call' = [call EXCEPT ![t] = [call[t] EXCEPT !.immediate = b]]
    BY <2>1
  <2> QED BY <1>2, <2>2, <2>3, CallSet, PcFacts DEF Wake
<1>3. ASSUME NEW t \in Threads, NextSleeper(t) PROVE Typed'
  <2>1. call' = call \/ call' = [call EXCEPT ![t] = NoCall]
    BY <1>3 DEF NextSleeper
  <2>2. call' \in [Threads -> Calls]
    BY <2>1, CallSet, NoCallType
  <2> QED BY <1>3, <1>a, <1>c, <2>2, PcFacts DEF NextSleeper
<1>4. ASSUME NEW t \in Threads, TrySleeper(t) PROVE Typed'
  <2>1. PICK x \in WorkersOf(call[t].pool) \ call[t].tried : TrySleeper(t)!2!(x)
    BY <1>4 DEF TrySleeper
  <2>2. x \in Workers
    <3>1. pc[t] = "trySleeper" /\ x \in WorkersOf(call[t].pool)
      BY <1>4, <2>1 DEF TrySleeper
    <3>2. call[t].pool \in Pools
      BY <3>1, <1>a, <1>c
    <3> QED BY <3>1, <3>2, <1>b
  <2>a. [call[t] EXCEPT !.tried = @ \cup {x}] \in Calls
    BY <1>a, <2>2, CallChanges
  <2>3. [call[t] EXCEPT !.tried = @ \cup {x}, !.sleeper = x] \in Calls
    BY <2>a, <2>2, CallChanges
  <2>4. \/ call' = [call EXCEPT ![t] = [call[t] EXCEPT !.tried = @ \cup {x}]]
        \/ call' = [call EXCEPT ![t] = [call[t] EXCEPT !.tried = @ \cup {x}, !.sleeper = x]]
    BY <2>1
  <2>5. call' \in [Threads -> Calls]
    BY <2>a, <2>3, <2>4, CallSet
  <2>6. "set" \in Pcs /\ "trySet" \in Pcs /\ "nextSleeper" \in Pcs
    BY PcFacts
  <2>7. pc' \in [Threads -> Pcs]
    BY <2>1, <2>6
  <2> QED BY <1>4, <2>5, <2>7 DEF TrySleeper
<1>5. ASSUME NEW t \in Threads, Set(t) PROVE Typed'
  <2>1. call' = call \/ call' = [call EXCEPT ![t] = NoCall]
    BY <1>5 DEF Set
  <2>2. call' \in [Threads -> Calls]
    BY <2>1, CallSet, NoCallType
  <2> QED BY <1>5, <1>a, <1>c, <2>2, PcFacts DEF Set
<1>6. ASSUME NEW t \in Threads, LockSet(t) PROVE Typed'
  BY <1>6, <1>b, PcFacts DEF LockSet
<1>7. ASSUME NEW t \in Threads, TrySet(t) PROVE Typed'
  <2>1. [call[t] EXCEPT !.sleeper = NULL] \in Calls
    BY <1>a, CallChanges
  <2>2. call' = call \/ call' = [call EXCEPT ![t] = [call[t] EXCEPT !.sleeper = NULL]]
    BY <1>7 DEF TrySet
  <2>3. call' \in [Threads -> Calls]
    BY <2>1, <2>2, CallSet
  <2>4. mutex' \in [Workers -> Threads \cup {NULL}]
    <3>1. mutex' = mutex \/ mutex' = [mutex EXCEPT ![call[t].sleeper] = t]
      BY <1>7 DEF TrySet
    <3> QED BY <3>1
  <2>5. pc' \in [Threads -> Pcs]
    <3>1. {"store", "nextSleeper"} \subseteq Pcs /\ t \in Threads
      BY <1>b, PcFacts
    <3>2. pc' = pc \/ \E s \in {"store", "nextSleeper"} : pc' = [pc EXCEPT ![t] = s]
      BY <1>7 DEF TrySet
    <3> QED BY <3>1, <3>2
  <2> QED BY <1>7, <2>3, <2>4, <2>5 DEF TrySet
<1>8. ASSUME NEW t \in Threads, Store(t) PROVE Typed'
  BY <1>8, <1>b, PcFacts DEF Store
<1>9. ASSUME NEW t \in Threads, Notify(t) PROVE Typed'
  <2>1. call' \in [Threads -> Calls]
    BY <1>9, CallSet, NoCallType DEF Notify
  <2>2. pc' \in [Threads -> Pcs]
    BY <1>9, <1>a, <1>c, PcFacts DEF Notify
  <2>3. mutex' \in [Workers -> Threads \cup {NULL}]
    BY <1>9 DEF Notify
  <2> QED BY <1>9, <2>1, <2>2, <2>3 DEF Notify
<1>10. ASSUME NEW t \in Threads, NoneWoken(t) PROVE Typed'
  <2>1. pending[call[t].pool] \in Nat
    BY <1>10, <1>a, <1>c DEF NoneWoken
  <2>2. /\ [call[t] EXCEPT !.immediate = TRUE, !.tried = {}] \in Calls
        /\ [call[t] EXCEPT !.seen = pending[call[t].pool], !.tried = {}] \in Calls
    BY <1>a, <2>1, CallChanges
  <2>3. \/ call' = [call EXCEPT ![t] = NoCall]
        \/ call' = [call EXCEPT ![t] = [call[t] EXCEPT !.immediate = TRUE, !.tried = {}]]
        \/ call' = [call EXCEPT ![t] = [call[t] EXCEPT !.seen = pending[call[t].pool], !.tried = {}]]
    BY <1>10 DEF NoneWoken
  <2>4. call' \in [Threads -> Calls]
    BY <2>2, <2>3, CallSet, NoCallType
  <2> QED BY <1>10, <1>a, <1>c, <2>4, PcFacts DEF NoneWoken
<1>11. ASSUME NEW t \in Threads, LeaveRequest(t) PROVE Typed'
  <2>1. call' = call \/ call' = [call EXCEPT ![t] = NoCall]
    BY <1>11 DEF LeaveRequest
  <2>2. call' \in [Threads -> Calls]
    BY <2>1, CallSet, NoCallType
  <2> QED BY <1>11, <1>a, <1>c, <2>2, PcFacts DEF LeaveRequest
<1>12. ASSUME NEW t \in Threads, AddRequest(t) PROVE Typed'
  <2>1. pending[call[t].pool] \in Nat
    BY <1>12, <1>a, <1>c DEF AddRequest
  <2>2. [call[t] EXCEPT !.seen = pending[call[t].pool]] \in Calls
    BY <1>a, <2>1, CallChanges
  <2>3. \/ call' = [call EXCEPT ![t] = NoCall]
        \/ call' = [call EXCEPT ![t] = [call[t] EXCEPT !.seen = pending[call[t].pool]]]
    BY <1>12 DEF AddRequest
  <2>4. call' \in [Threads -> Calls]
    BY <2>2, <2>3, CallSet, NoCallType
  <2>5. pending' \in [Pools -> Nat]
    <3>1. pending' = pending \/ pending' = [pending EXCEPT ![call[t].pool] = @ + 1]
      <4>1. CASE pending[call[t].pool] = call[t].seen
        BY <1>12, <4>1 DEF AddRequest
      <4>2. CASE pending[call[t].pool] # call[t].seen
        BY <1>12, <4>2 DEF AddRequest
      <4> QED BY <4>1, <4>2
    <3>2. pending[call[t].pool] + 1 \in Nat /\ pending \in [Pools -> Nat]
      BY <2>1
    <3> QED BY <3>1, <3>2
  <2> QED BY <1>12, <1>a, <1>c, <2>4, <2>5, PcFacts DEF AddRequest
<1>13. ASSUME NEW w \in Workers, Top(w) PROVE Typed'
  BY <1>13, <1>b, PcFacts DEF Top
<1>14. ASSUME NEW w \in Workers, Search(w) PROVE Typed'
  <2>1. PICK x \in QueuesOf(PoolOf(w)) \ tried[w] : Search(w)!2!(x)
    BY <1>14 DEF Search
  <2>2. x \in Pools \cup Workers /\ Missed(w) \in Pcs
    BY <2>1, <1>b, <1>14, PcFacts DEF Search, Missed
  <2>3. CASE Queue(x) = <<>>
    <3>1. tried' \in [Threads -> SUBSET (Pools \cup Workers)]
      <4>1. \/ tried' = [tried EXCEPT ![w] = {}]
            \/ tried' = [tried EXCEPT ![w] = @ \cup {x}]
        BY <2>1, <2>3
      <4>2. tried[w] \cup {x} \in SUBSET (Pools \cup Workers)
        BY <2>2, <1>b
      <4> QED BY <4>1, <4>2, <1>b
    <3> QED BY <1>14, <2>1, <2>2, <2>3, <3>1 DEF Search
  <2>4. CASE Queue(x) # <<>>
    <3>1. /\ SetQueue(x, Tail(Queue(x)))
          /\ self' = [self EXCEPT ![w] = Head(Queue(x))]
          /\ tried' = [tried EXCEPT ![w] = {}]
          /\ Goto(w, Found(w))
          /\ back' = [back EXCEPT ![w] = "run"]
      BY <2>1, <2>4
    <3>2. Queue(x) \in Seq(Coroutines) /\ Head(Queue(x)) \in Coroutines
          /\ Tail(Queue(x)) \in Seq(Coroutines)
      BY <2>2, <2>4, QueueType, HeadTailProperties DEF Typed
    <3>3. /\ globalQueue' \in [Pools -> Seq(Coroutines)]
          /\ localQueue' \in [Workers -> Seq(Coroutines)]
      BY <2>2, <3>1, <3>2, QueueSet
    <3>4. Found(w) \in Pcs
      BY PcFacts DEF Found
    <3> QED BY <1>14, <1>b, <3>1, <3>2, <3>3, <3>4 DEF Search
  <2> QED BY <2>3, <2>4
<1>15. ASSUME NEW w \in Workers, CheckState(w) PROVE Typed'
  BY <1>15, <1>b, PcFacts DEF CheckState
<1>16. ASSUME NEW w \in Workers, CheckPending(w) PROVE Typed'
  BY <1>16, <1>b, PcFacts DEF CheckPending
<1>17. ASSUME NEW w \in Workers, MarkSleeping(w) PROVE Typed'
  BY <1>17, <1>b, PcFacts DEF MarkSleeping
<1>18. ASSUME NEW w \in Workers, CountMayBe(w) PROVE Typed'
  BY <1>18, <1>b, PcFacts DEF CountMayBe
<1>19. ASSUME NEW w \in Workers, CountAsleep(w) PROVE Typed'
  BY <1>19, <1>b, PcFacts DEF CountAsleep
<1>20. ASSUME NEW w \in Workers, CountAwake(w) PROVE Typed'
  BY <1>20, <1>b, PcFacts DEF CountAwake
<1>21. ASSUME NEW w \in Workers, Normal(w) PROVE Typed'
  BY <1>21, <1>b, PcFacts DEF Normal
<1>22. ASSUME NEW w \in Workers, Unmark(w) PROVE Typed'
  BY <1>22, <1>b, PcFacts DEF Unmark
<1>23. ASSUME NEW w \in Workers, Uncount(w) PROVE Typed'
  BY <1>23, <1>b, PcFacts DEF Uncount
<1>24. ASSUME NEW w \in Workers, CheckNone(w) PROVE Typed'
  <2>1. back[w] \in Pcs /\ w \in Threads /\ PoolOf(w) \in Pools
    BY <1>b, PcFacts
  <2> QED BY <1>24, <2>1, PcFacts DEF CheckNone
<1>25. ASSUME NEW w \in Workers, ClearPending(w) PROVE Typed'
  <2>1. back[w] \in Pcs /\ w \in Threads /\ PoolOf(w) \in Pools
    BY <1>b, PcFacts
  <2> QED BY <1>25, <2>1, PcFacts DEF ClearPending
<1>26. ASSUME NEW w \in Workers, ProcessPending(w) PROVE Typed'
  <2>p. PoolOf(w) \in Pools /\ w \in Threads
    BY <1>b
  <2>1. [NoCall EXCEPT !.pool = PoolOf(w), !.back = back[w]] \in Calls
    BY <2>p, CallBegins
  <2>2. \/ call' = call
        \/ call' = [call EXCEPT ![w] = [NoCall EXCEPT !.pool = PoolOf(w), !.back = back[w]]]
    BY <1>26 DEF ProcessPending
  <2>3. call' \in [Threads -> Calls]
    BY <2>1, <2>2, <2>p, CallSet
  <2>4. pending' \in [Pools -> Nat]
    <3>1. pending[PoolOf(w)] \in Nat
      BY <2>p
    <3>2. \/ pending' = pending
          \/ /\ pending[PoolOf(w)] # 0
             /\ pending' = [pending EXCEPT ![PoolOf(w)] = @ - 1]
      BY <1>26 DEF ProcessPending
    <3> QED BY <3>1, <3>2, <2>p
  <2>5. back[w] \in Pcs
    BY <2>p, PcFacts
  <2> QED BY <1>26, <2>p, <2>3, <2>4, <2>5, PcFacts DEF ProcessPending
<1>27. ASSUME NEW w \in Workers, Wait(w) PROVE Typed'
  <2>1. {"lockWait", "awake", "asleep"} \subseteq Pcs /\ w \in Threads
    BY <1>b, PcFacts
  <2> QED BY <1>27, <2>1 DEF Wait
<1>28. ASSUME NEW w \in Workers, LockWait(w) PROVE Typed'
  BY <1>28, <1>b, PcFacts DEF LockWait
<1>29. ASSUME NEW w \in Workers, CheckSet(w) PROVE Typed'
  <2>1. {"lockWait", "awake", "asleep"} \subseteq Pcs /\ w \in Threads
    BY <1>b, PcFacts
  <2> QED BY <1>29, <2>1 DEF CheckSet
<1>30. ASSUME NEW w \in Workers, Finish(w) PROVE Typed'
  BY <1>30, <1>b, PcFacts DEF Finish
<1>31. ASSUME NEW w \in Workers, NEW p \in Pools, Hop(w, p) PROVE Typed'
  <2>1. [NoCall EXCEPT !.pool = p, !.item = self[w], !.back = "top"] \in Calls
    BY <1>b, CallBegins
  <2>2. call' = [call EXCEPT ![w] = [NoCall EXCEPT !.pool = p, !.item = self[w], !.back = "top"]]
    BY <1>31 DEF Hop, CallSchedule
  <2>3. call' \in [Threads -> Calls]
    BY <2>1, <2>2, <1>b, CallSet
  <2>4. hops' \in [Coroutines -> Nat]
    <3>1. self[w] \in Coroutines
      BY <1>31, <1>b DEF Hop, Locals, Local, WorkerPlaced
    <3>2. hops[self[w]] \in Nat /\ hops[self[w]] > 0
      BY <1>31, <3>1 DEF Hop
    <3>3. hops' = [hops EXCEPT ![self[w]] = @ - 1]
      BY <1>31 DEF Hop
    <3> QED BY <3>1, <3>2, <3>3
  <2>5. cancelled' \in [Coroutines -> BOOLEAN]
    BY <1>31, <1>b DEF Hop, ShuttingDown
  <2> QED BY <1>31, <1>b, <2>3, <2>4, <2>5, PcFacts DEF Hop, CallSchedule
<1>32. ASSUME NEW t \in Threads, NEW c \in Coroutines, NEW p \in Pools, Start(t, c, p) PROVE Typed'
  <2>0. pc[t] \in {"idle", "top", "search", "run", "wakeAll"}
    BY <1>32 DEF Start
  <2>1. [NoCall EXCEPT !.pool = p, !.item = c, !.back = pc[t]] \in Calls
    BY <2>0, CallBegins
  <2>2. call' = [call EXCEPT ![t] = [NoCall EXCEPT !.pool = p, !.item = c, !.back = pc[t]]]
    BY <1>32 DEF Start, CallSchedule
  <2>3. call' \in [Threads -> Calls]
    BY <2>1, <2>2, CallSet
  <2>5. cancelled' \in [Coroutines -> BOOLEAN]
    BY <1>32, <1>b DEF Start, ShuttingDown
  <2> QED BY <1>32, <2>3, <2>5, PcFacts DEF Start, CallSchedule
<1>33. ASSUME NEW t \in Clients, WakeAll(t) PROVE Typed'
  <2>p. ShutPool \in Pools
    BY ThreadFacts DEF ShutPool
  <2>1. PICK x \in WorkersOf(ShutPool) \ tried[t] : WakeAll(t)!2!(x)
    BY <1>33 DEF WakeAll
  <2>2. x \in Workers
    BY <2>p, <1>b
  <2>3. [NoCall EXCEPT !.sleeper = x, !.back = "wakeAll"] \in Calls
    BY <2>2, CallBegins
  <2>4. \/ call' = call
        \/ call' = [call EXCEPT ![t] = [NoCall EXCEPT !.sleeper = x, !.back = "wakeAll"]]
    BY <2>1
  <2>5. call' \in [Threads -> Calls]
    BY <2>3, <2>4, <1>b, CallSet
  <2>6. tried' \in [Threads -> SUBSET (Pools \cup Workers)]
    BY <2>1, <2>2, <1>b
  <2>7. pc' \in [Threads -> Pcs]
    <3>1. {"set"} \subseteq Pcs /\ t \in Threads
      BY <1>b, PcFacts
    <3>2. pc' = pc \/ \E s \in {"set"} : pc' = [pc EXCEPT ![t] = s]
      BY <2>1
    <3> QED BY <3>1, <3>2
  <2> QED BY <1>33, <2>5, <2>6, <2>7 DEF WakeAll
<1>34. ASSUME NEW t \in Clients, Join(t) PROVE Typed'
  <2>1. state' \in [Pools -> {"Started", "ShuttingDown", "ShuttingDownImmediately", "Terminated"}]
    BY <1>34, StateAssumption, ThreadFacts DEF Join
  <2>2. tried' \in [Threads -> SUBSET (Pools \cup Workers)]
    BY <1>34, <1>b DEF Join
  <2>3. pc' \in [Threads -> Pcs]
    <3>1. {"gone"} \subseteq Pcs /\ t \in Threads
      BY <1>b, PcFacts
    <3>2. pc' = pc \/ \E s \in {"gone"} : pc' = [pc EXCEPT ![t] = s]
      BY <1>34 DEF Join
    <3> QED BY <3>1, <3>2
  <2> QED BY <1>34, <2>1, <2>2, <2>3 DEF Join
<1>35. ASSUME NEW t \in Clients, LookAsleep(t) PROVE Typed'
  <2>1. {"haveWork", "haveWorkAgain"} \subseteq Pcs /\ t \in Threads
    BY <1>b, PcFacts
  <2> QED BY <1>35, <2>1 DEF LookAsleep
<1>36. ASSUME NEW t \in Clients, LookWork(t) PROVE Typed'
  <2>p. "Default" \in Pools
    BY ThreadFacts
  <2>1. PICK x \in QueuesOf("Default") \ tried[t] : LookWork(t)!2!(x)
    BY <1>36 DEF LookWork
  <2>2. x \in Pools \cup Workers
    BY <2>p, <1>b
  <2>3. tried' \in [Threads -> SUBSET (Pools \cup Workers)]
    BY <2>1, <2>2, <1>b
  <2>4. pc' \in [Threads -> Pcs]
    <3>1. {"look", "lookAgain", "sawIdle"} \subseteq Pcs /\ t \in Threads
      BY <1>b, PcFacts
    <3>2. pc' = pc \/ \E s \in {"look", "lookAgain", "sawIdle"} : pc' = [pc EXCEPT ![t] = s]
      BY <2>1
    <3> QED BY <3>1, <3>2
  <2> QED BY <1>36, <2>3, <2>4 DEF LookWork
<1>37. ASSUME NEW t \in Clients, Shutdown(t) PROVE Typed'
  BY <1>37, <1>b, StateAssumption, PcFacts, ThreadFacts DEF Shutdown
<1>38. ASSUME NEW t \in Clients, WaitForIdle(t) PROVE Typed'
  BY <1>38, <1>b, PcFacts DEF WaitForIdle
<1> QED
  BY <1>0, <1>1, <1>2, <1>3, <1>4, <1>5, <1>6, <1>7, <1>8, <1>9, <1>10, <1>11, <1>12, <1>13,
     <1>14, <1>15, <1>16, <1>17, <1>18, <1>19, <1>20, <1>21, <1>22, <1>23, <1>24, <1>25,
     <1>26, <1>27, <1>28, <1>29, <1>30, <1>31, <1>32, <1>33, <1>34, <1>35, <1>36, <1>37,
     <1>38, ThreadFacts
     DEF Next, WakeStep, WorkerStep, Body, ClientStep

-----------------------------------------------------------------------------
(* The locals of a thread *)

\* The locals of thread u stay.
Stays(u) == /\ pc'[u] = pc[u] /\ call'[u] = call[u] /\ back'[u] = back[u]
            /\ self'[u] = self[u] /\ tried'[u] = tried[u]
            /\ u \in Workers => isSleeping'[u] = isSleeping[u]

\* A thread that does nothing keeps its place, and what belongs to it.
LEMMA LocalStays ==
    ASSUME [Next]_vars, NEW u \in Threads, Local(u), Stays(u)
    PROVE  Local(u)'
BY CrewStays DEF Stays, Local, Control, ClientPlaced, WorkerPlaced

\* Everything but the place and the call of a thread stays.
Rests(t) == /\ back'[t] = back[t] /\ self'[t] = self[t] /\ tried'[t] = tried[t]
            /\ t \in Workers => isSleeping'[t] = isSleeping[t]

\* A call that returns.
LEMMA Returned ==
    ASSUME Typed, [Next]_vars, NEW t \in Threads, Local(t), pc[t] \in Waking, Rests(t),
           pc'[t] = call[t].back, call'[t] = NoCall
    PROVE  Local(t)'
<1>1. back[t] = "top" /\ back'[t] = "top"
  BY DEF Local, Control, Waking, Leaving, Rests
<1>2. Control(t)'
  BY <1>1, NoCallType DEF Local, Control, Waking, Rests
<1>3. ASSUME t \in Clients PROVE ClientPlaced(t)'
  BY <1>3, ThreadFacts DEF Local, Control, ClientPlaced, Rests
<1>4. ASSUME t \in Workers PROVE WorkerPlaced(t)'
  <2>1. call[t].back \in {"top", "search", "run"} /\ WorkerPlaced(t)
    BY <1>4 DEF Local, Control
  <2>2. pc[t] \notin Finding /\ pc[t] \notin Leaving /\ pc[t] # "run" /\ pc[t] # "exited"
    BY DEF Waking, Finding, Leaving
  <2>3. /\ tried'[t] = {}
        /\ t \in session'.crew
        /\ self'[t] # NULL <=> pc'[t] = "run"
    BY <1>4, <2>1, <2>2, CrewStays DEF WorkerPlaced, Rests
  <2>4. pc'[t] \notin Leaving /\ pc'[t] \notin Waking /\ pc'[t] \notin Asleep
        /\ pc'[t] \notin Looking
    BY <2>1 DEF Leaving, Waking, Asleep, Looking
  <2> QED BY <2>1, <2>3, <2>4 DEF WorkerPlaced
<1> QED BY <1>2, <1>3, <1>4 DEF Local

\* A call that goes on.
LEMMA Calling ==
    ASSUME Typed, [Next]_vars, NEW t \in Threads, Local(t), pc[t] \in Waking \ {"enqueue"}, Rests(t),
           pc'[t] \in Waking \ {"enqueue", "addRequest"},
           call'[t].item = call[t].item, call'[t].back = call[t].back,
           call'[t].pool = call[t].pool,
           pc'[t] \notin {"set", "lockSet", "notify"} => pc[t] \notin {"set", "lockSet", "notify"},
           pc'[t] \in {"set", "lockSet", "trySet", "store", "notify"} => call'[t].sleeper \in Workers
    PROVE  Local(t)'
<1>1. Control(t)'
  <2>1. /\ call[t].item = NULL /\ back[t] = "top"
        /\ call[t].back \in (IF t \in Workers THEN {"top", "search", "run"} ELSE {"idle", "wakeAll"})
        /\ pc[t] \notin {"set", "lockSet", "notify"} => call[t].pool \in Pools
    BY DEF Local, Control, Waking, Leaving
  <2> QED BY <2>1 DEF Control, Rests
<1>3. ASSUME t \in Clients PROVE ClientPlaced(t)'
  BY <1>3, ThreadFacts DEF Local, Control, ClientPlaced, Rests
<1>4. ASSUME t \in Workers PROVE WorkerPlaced(t)'
  BY <1>4, CrewStays DEF Local, WorkerPlaced, Rests, Waking, Leaving, Finding, Asleep, Looking
<1> QED BY <1>1, <1>3, <1>4 DEF Local

\* m_mayBeSleepingThreadCount does not exceed the number of threads.
LEMMA CountedBound ==
    ASSUME Counted, NEW p \in Pools
    PROVE  mayBeSleeping[p] <= threadCount(p) /\ sleeping[p] <= threadCount(p)
<1>1. CountedMayBe(p) \in SUBSET WorkersOf(p) /\ CountedAsleep(p) \in SUBSET WorkersOf(p)
  BY DEF CountedMayBe, CountedAsleep
<1>2. IsFiniteSet(WorkersOf(p))
  BY CrewFacts
<1>3. /\ Cardinality(CountedMayBe(p)) <= Cardinality(WorkersOf(p))
      /\ Cardinality(CountedAsleep(p)) <= Cardinality(WorkersOf(p))
  BY <1>1, <1>2, FS_Subset
<1> QED BY <1>3 DEF Counted, threadCount

\* Every step leaves the thread that takes it with the locals of its new place.
LEMMA LocalsStep == ASSUME Typed, Locals, Counted, [Next]_vars PROVE Locals'
<1>a. /\ pc \in [Threads -> Pcs]
      /\ call \in [Threads -> Calls]
      /\ back \in [Threads -> {"top", "search", "run"}]
      /\ self \in [Threads -> Coroutines \cup {NULL}] /\ isSleeping \in [Workers -> BOOLEAN]
      /\ tried \in [Threads -> SUBSET (Pools \cup Workers)]
  BY DEF Typed
<1>b. /\ \A w \in Workers : PoolOf(w) \in Pools /\ w \in Threads /\ w \notin Clients
      /\ \A t \in Clients : t \in Threads /\ t \notin Workers
      /\ \A t \in Threads : t \in Workers \/ t \in Clients
      /\ NULL \notin Coroutines
  BY ThreadFacts
<1>c. /\ \A p : WorkersOf(p)' = WorkersOf(p) /\ threadCount(p)' = threadCount(p)
      /\ session' = session
  BY CrewStays
<1>d. \A t \in Threads : Local(t)
  BY DEF Locals
<1>e. ASSUME NEW t \in Threads, Local(t)', \A u \in Threads \ {t} : Stays(u) PROVE Locals'
  BY <1>d, <1>e, LocalStays DEF Locals
<1>f. ASSUME \A u \in Threads : Stays(u) PROVE Locals'
  BY <1>d, <1>f, LocalStays DEF Locals

<1> USE DEF queues, counts, events, coros, locals, Go, At, Goto, Return, GoOn
<1>0. CASE UNCHANGED vars
  BY <1>0, <1>f DEF vars, Stays
<1>1. ASSUME NEW t \in Threads, Enqueue(t) PROVE Locals'
  <2>0. Local(t) /\ t \in Threads
    BY <1>b, <1>d
  <2>1. \A u \in Threads \ {t} : Stays(u)
    BY <1>1, <1>a, <1>b DEF Enqueue, Stays
  <2>2. Local(t)'
    BY <1>1, <2>0, <1>a, <1>b, <1>c, NoCallType
      DEF Enqueue, Local, Control, ClientPlaced, WorkerPlaced, Waking, Leaving, Finding,
          Asleep, Looking
  <2> QED BY <2>0, <2>1, <2>2, <1>e
<1>2. ASSUME NEW t \in Threads, Wake(t) PROVE Locals'
  <2>0. Local(t) /\ t \in Threads
    BY <1>b, <1>d
  <2>1. \A u \in Threads \ {t} : Stays(u)
    BY <1>2, <1>a, <1>b DEF Wake, Stays
  <2>2. Local(t)'
    BY <1>2, <2>0, <1>a, <1>b, <1>c, NoCallType
      DEF Wake, Local, Control, ClientPlaced, WorkerPlaced, Waking, Leaving, Finding,
          Asleep, Looking
  <2> QED BY <2>0, <2>1, <2>2, <1>e
<1>3. ASSUME NEW t \in Threads, NextSleeper(t) PROVE Locals'
  <2>0. Local(t)
    BY <1>d
  <2>1. \A u \in Threads \ {t} : Stays(u)
    BY <1>3, <1>a, <1>b DEF NextSleeper, Stays
  <2>2. Rests(t) /\ pc[t] \in Waking \ {"enqueue"}
    BY <1>3, <1>a DEF NextSleeper, Rests, Waking
  <2>3. CASE call[t].tried # WorkersOf(call[t].pool) /\ mayBeSleeping[call[t].pool] = 0
    <3>1. pc'[t] = call[t].back /\ call'[t] = NoCall
      BY <1>3, <2>3, <1>a DEF NextSleeper
    <3>2. Local(t)'
      BY <2>0, <2>2, <3>1, Returned
    <3> QED BY <2>1, <3>2, <1>e
  <2>4. CASE ~(call[t].tried # WorkersOf(call[t].pool) /\ mayBeSleeping[call[t].pool] = 0)
    <3>1. /\ pc[t] = "nextSleeper"
          /\ pc'[t] \in {"noneWoken", "trySleeper"} /\ call'[t] = call[t]
      BY <1>3, <2>4, <1>a DEF NextSleeper
    <3>2. /\ pc'[t] \in Waking \ {"enqueue", "addRequest"}
          /\ pc'[t] \notin {"set", "lockSet", "notify"} => pc[t] \notin {"set", "lockSet", "notify"}
      BY <3>1 DEF Waking
    <3>3. /\ call'[t].item = call[t].item /\ call'[t].back = call[t].back
          /\ call'[t].pool = call[t].pool
      BY <3>1, <1>a DEF Calls
    <3>4. pc'[t] \in {"set", "lockSet", "trySet", "store", "notify"} => call'[t].sleeper \in Workers
      BY <3>1, <2>0, <1>a DEF Local, Control, Calls
    <3>5. Local(t)'
      BY <2>0, <2>2, <3>2, <3>3, <3>4, Calling
    <3> QED BY <2>1, <3>5, <1>e
  <2> QED BY <2>3, <2>4
<1>4. ASSUME NEW t \in Threads, TrySleeper(t) PROVE Locals'
  <2>0. Local(t)
    BY <1>d
  <2>1. \A u \in Threads \ {t} : Stays(u)
    BY <1>4, <1>a, <1>b DEF TrySleeper, Stays
  <2>2. Rests(t) /\ pc[t] \in Waking \ {"enqueue"}
    BY <1>4, <1>a DEF TrySleeper, Rests, Waking
  <2>a. PICK x \in WorkersOf(call[t].pool) \ call[t].tried : TrySleeper(t)!2!(x)
    BY <1>4 DEF TrySleeper
  <2>b. x \in Workers
    <3>1. call[t].pool \in Pools /\ x \in WorkersOf(call[t].pool)
      BY <1>4, <2>0, <2>a DEF TrySleeper, Local, Control, Waking
    <3> QED BY <3>1, CrewFacts
  <2>c. pc[t] = "trySleeper"
    BY <1>4 DEF TrySleeper
  <2>4. CASE TRUE
    <3>1. /\ pc[t] = "trySleeper"
          /\ \/ pc'[t] \in {"set", "trySet"} /\ call'[t] = [call[t] EXCEPT !.tried = @ \cup {x}, !.sleeper = x]
             \/ pc'[t] = "nextSleeper" /\ call'[t] = [call[t] EXCEPT !.tried = @ \cup {x}]
      BY <2>a, <2>c, <1>a DEF TrySleeper
    <3>2. /\ pc'[t] \in Waking \ {"enqueue", "addRequest"}
          /\ pc'[t] \notin {"set", "lockSet", "notify"} => pc[t] \notin {"set", "lockSet", "notify"}
      BY <3>1 DEF Waking
    <3>3. /\ call'[t].item = call[t].item /\ call'[t].back = call[t].back
          /\ call'[t].pool = call[t].pool
      BY <3>1, <1>a DEF Calls
    <3>4. pc'[t] \in {"set", "lockSet", "trySet", "store", "notify"} => call'[t].sleeper \in Workers
      BY <3>1, <2>0, <1>a, <2>b DEF Local, Control, Calls
    <3>5. Local(t)'
      BY <2>0, <2>2, <3>2, <3>3, <3>4, Calling
    <3> QED BY <2>1, <3>5, <1>e
  <2> QED BY <2>4
<1>5. ASSUME NEW t \in Threads, Set(t) PROVE Locals'
  <2>0. Local(t)
    BY <1>d
  <2>1. \A u \in Threads \ {t} : Stays(u)
    BY <1>5, <1>a, <1>b DEF Set, Stays
  <2>2. Rests(t) /\ pc[t] \in Waking \ {"enqueue"}
    BY <1>5, <1>a DEF Set, Rests, Waking
  <2>3. CASE event[call[t].sleeper] # "NotSet"
    <3>1. pc'[t] = call[t].back /\ call'[t] = NoCall
      BY <1>5, <2>3, <1>a DEF Set
    <3>2. Local(t)'
      BY <2>0, <2>2, <3>1, Returned
    <3> QED BY <2>1, <3>2, <1>e
  <2>4. CASE event[call[t].sleeper] = "NotSet"
    <3>1. /\ pc[t] = "set"
          /\ pc'[t] = "lockSet" /\ call'[t] = call[t]
      BY <1>5, <2>4, <1>a DEF Set
    <3>2. /\ pc'[t] \in Waking \ {"enqueue", "addRequest"}
          /\ pc'[t] \notin {"set", "lockSet", "notify"} => pc[t] \notin {"set", "lockSet", "notify"}
      BY <3>1 DEF Waking
    <3>3. /\ call'[t].item = call[t].item /\ call'[t].back = call[t].back
          /\ call'[t].pool = call[t].pool
      BY <3>1, <1>a DEF Calls
    <3>4. pc'[t] \in {"set", "lockSet", "trySet", "store", "notify"} => call'[t].sleeper \in Workers
      BY <3>1, <2>0, <1>a DEF Local, Control, Calls
    <3>5. Local(t)'
      BY <2>0, <2>2, <3>2, <3>3, <3>4, Calling
    <3> QED BY <2>1, <3>5, <1>e
  <2> QED BY <2>3, <2>4
<1>6. ASSUME NEW t \in Threads, LockSet(t) PROVE Locals'
  <2>0. Local(t) /\ t \in Threads
    BY <1>b, <1>d
  <2>1. \A u \in Threads \ {t} : Stays(u)
    BY <1>6, <1>a, <1>b DEF LockSet, Stays
  <2>2. Local(t)'
    BY <1>6, <2>0, <1>a, <1>b, <1>c, NoCallType
      DEF LockSet, Local, Control, ClientPlaced, WorkerPlaced, Waking, Leaving, Finding,
          Asleep, Looking
  <2> QED BY <2>0, <2>1, <2>2, <1>e
<1>7. ASSUME NEW t \in Threads, TrySet(t) PROVE Locals'
  <2>0. Local(t)
    BY <1>d
  <2>1. \A u \in Threads \ {t} : Stays(u)
    BY <1>7, <1>a, <1>b DEF TrySet, Stays
  <2>2. Rests(t) /\ pc[t] \in Waking \ {"enqueue"}
    BY <1>7, <1>a DEF TrySet, Rests, Waking
  <2>4. CASE TRUE
    <3>1. /\ pc[t] = "trySet"
          /\ \/ pc'[t] = "store" /\ call'[t] = call[t]
             \/ pc'[t] = "nextSleeper" /\ call'[t] = [call[t] EXCEPT !.sleeper = NULL]
      BY <1>7, <2>4, <1>a DEF TrySet
    <3>2. /\ pc'[t] \in Waking \ {"enqueue", "addRequest"}
          /\ pc'[t] \notin {"set", "lockSet", "notify"} => pc[t] \notin {"set", "lockSet", "notify"}
      BY <3>1 DEF Waking
    <3>3. /\ call'[t].item = call[t].item /\ call'[t].back = call[t].back
          /\ call'[t].pool = call[t].pool
      BY <3>1, <1>a DEF Calls
    <3>4. pc'[t] \in {"set", "lockSet", "trySet", "store", "notify"} => call'[t].sleeper \in Workers
      BY <3>1, <2>0, <1>a DEF Local, Control, Calls
    <3>5. Local(t)'
      BY <2>0, <2>2, <3>2, <3>3, <3>4, Calling
    <3> QED BY <2>1, <3>5, <1>e
  <2> QED BY <2>4
<1>8. ASSUME NEW t \in Threads, Store(t) PROVE Locals'
  <2>0. Local(t) /\ t \in Threads
    BY <1>b, <1>d
  <2>1. \A u \in Threads \ {t} : Stays(u)
    BY <1>8, <1>a, <1>b DEF Store, Stays
  <2>2. Local(t)'
    BY <1>8, <2>0, <1>a, <1>b, <1>c, NoCallType
      DEF Store, Local, Control, ClientPlaced, WorkerPlaced, Waking, Leaving, Finding,
          Asleep, Looking
  <2> QED BY <2>0, <2>1, <2>2, <1>e
<1>9. ASSUME NEW t \in Threads, Notify(t) PROVE Locals'
  <2>0. Local(t)
    BY <1>d
  <2>1. /\ pc[t] = "notify" /\ pc[t] \in Waking /\ Rests(t)
        /\ pc'[t] = call[t].back /\ call'[t] = NoCall
    <3>1. pc[t] = "notify" /\ Rests(t) /\ call'[t] = NoCall
      BY <1>9, <1>a DEF Notify, Rests
    <3>2. pc'[t] = call[t].back
      BY <1>9 DEF Notify
    <3> QED BY <3>1, <3>2 DEF Waking
  <2>2. Local(t)'
    BY <2>0, <2>1, Returned
  <2>3. ASSUME NEW u \in Threads \ {t} PROVE Local(u)'
    <3>1. /\ call'[u] = call[u] /\ Rests(u)
          /\ pc'[u] = pc[u] \/ (pc[u] = "asleep" /\ pc'[u] = "lockWait")
      BY <1>9, <1>a DEF Notify, Rests
    <3>2. CASE pc'[u] = pc[u]
      BY <3>1, <3>2, <1>d, LocalStays DEF Stays, Rests
    <3>3. CASE pc[u] = "asleep" /\ pc'[u] = "lockWait"
      <4>1. Local(u)
        BY <1>d
      <4>2. u \in Workers
        BY <3>3, <4>1, <1>b DEF Local, ClientPlaced, Waking, Looking
      <4> QED BY <4>1, <4>2, <3>1, <3>3, <1>b, <1>c
        DEF Local, Control, ClientPlaced, WorkerPlaced, Waking, Leaving, Finding, Asleep,
            Looking, Rests
    <3> QED BY <3>1, <3>2, <3>3
  <2> QED BY <2>2, <2>3 DEF Locals
<1>10. ASSUME NEW t \in Threads, NoneWoken(t) PROVE Locals'
  <2>0. Local(t)
    BY <1>d
  <2>1. \A u \in Threads \ {t} : Stays(u)
    BY <1>10, <1>a, <1>b DEF NoneWoken, Stays
  <2>2. Rests(t) /\ pc[t] \in Waking \ {"enqueue"}
    BY <1>10, <1>a DEF NoneWoken, Rests, Waking
  <2>3. CASE call[t].immediate \/ mayBeSleeping[call[t].pool] = 0
    <3>1. pc'[t] = call[t].back /\ call'[t] = NoCall
      BY <1>10, <2>3, <1>a DEF NoneWoken
    <3>2. Local(t)'
      BY <2>0, <2>2, <3>1, Returned
    <3> QED BY <2>1, <3>2, <1>e
  <2>4. CASE ~(call[t].immediate \/ mayBeSleeping[call[t].pool] = 0)
    <3>1. /\ pc[t] = "noneWoken"
          /\ \/ pc'[t] = "nextSleeper" /\ call'[t] = [call[t] EXCEPT !.immediate = TRUE, !.tried = {}]
             \/ pc'[t] = "leaveRequest" /\ call'[t] = [call[t] EXCEPT !.seen = pending[call[t].pool], !.tried = {}]
      BY <1>10, <2>4, <1>a DEF NoneWoken
    <3>2. /\ pc'[t] \in Waking \ {"enqueue", "addRequest"}
          /\ pc'[t] \notin {"set", "lockSet", "notify"} => pc[t] \notin {"set", "lockSet", "notify"}
      BY <3>1 DEF Waking
    <3>3. /\ call'[t].item = call[t].item /\ call'[t].back = call[t].back
          /\ call'[t].pool = call[t].pool
      BY <3>1, <1>a DEF Calls
    <3>4. pc'[t] \in {"set", "lockSet", "trySet", "store", "notify"} => call'[t].sleeper \in Workers
      BY <3>1, <2>0, <1>a DEF Local, Control, Calls
    <3>5. Local(t)'
      BY <2>0, <2>2, <3>2, <3>3, <3>4, Calling
    <3> QED BY <2>1, <3>5, <1>e
  <2> QED BY <2>3, <2>4
<1>11. ASSUME NEW t \in Threads, LeaveRequest(t) PROVE Locals'
  <2>0. Local(t)
    BY <1>d
  <2>1. \A u \in Threads \ {t} : Stays(u)
    BY <1>11, <1>a, <1>b DEF LeaveRequest, Stays
  <2>2. Rests(t) /\ pc[t] \in Waking \ {"enqueue"}
    BY <1>11, <1>a DEF LeaveRequest, Rests, Waking
  <2>3. CASE call[t].seen >= mayBeSleeping[call[t].pool]
    <3>1. pc'[t] = call[t].back /\ call'[t] = NoCall
      BY <1>11, <2>3, <1>a DEF LeaveRequest
    <3>2. Local(t)'
      BY <2>0, <2>2, <3>1, Returned
    <3> QED BY <2>1, <3>2, <1>e
  <2>4. CASE ~(call[t].seen >= mayBeSleeping[call[t].pool])
    <3>1. /\ pc'[t] = "addRequest" /\ call'[t] = call[t] /\ pc[t] = "leaveRequest"
      BY <1>11, <2>4, <1>a DEF LeaveRequest
    <3>2. call[t].pool \in Pools /\ call[t].seen \in Nat
      BY <3>1, <2>0, <1>a DEF Local, Control, Waking, Calls
    <3>3. call[t].seen < threadCount(call[t].pool)
      <4>1. /\ mayBeSleeping[call[t].pool] <= threadCount(call[t].pool)
            /\ mayBeSleeping[call[t].pool] \in Int
            /\ threadCount(call[t].pool) \in Nat
        BY <3>2, CrewFacts, CountedBound DEF Typed
      <4> QED BY <2>4, <3>2, <4>1
    <3>4. Local(t)'
      BY <2>0, <2>2, <3>1, <3>2, <3>3, <1>b, <1>c
        DEF Local, Control, ClientPlaced, WorkerPlaced, Waking, Leaving, Finding, Asleep,
            Looking, Rests
    <3> QED BY <2>1, <3>4, <1>e
  <2> QED BY <2>3, <2>4
<1>12. ASSUME NEW t \in Threads, AddRequest(t) PROVE Locals'
  <2>0. Local(t)
    BY <1>d
  <2>1. \A u \in Threads \ {t} : Stays(u)
    BY <1>12, <1>a, <1>b DEF AddRequest, Stays
  <2>2. Rests(t) /\ pc[t] \in Waking \ {"enqueue"}
    BY <1>12, <1>a DEF AddRequest, Rests, Waking
  <2>3. CASE pending[call[t].pool] = call[t].seen
    <3>1. pc'[t] = call[t].back /\ call'[t] = NoCall
      BY <1>12, <2>3, <1>a DEF AddRequest
    <3>2. Local(t)'
      BY <2>0, <2>2, <3>1, Returned
    <3> QED BY <2>1, <3>2, <1>e
  <2>4. CASE pending[call[t].pool] # call[t].seen
    <3>1. /\ pc[t] = "addRequest"
          /\ pc'[t] = "leaveRequest" /\ call'[t] = [call[t] EXCEPT !.seen = pending[call[t].pool]]
      BY <1>12, <2>4, <1>a DEF AddRequest
    <3>2. /\ pc'[t] \in Waking \ {"enqueue", "addRequest"}
          /\ pc'[t] \notin {"set", "lockSet", "notify"} => pc[t] \notin {"set", "lockSet", "notify"}
      BY <3>1 DEF Waking
    <3>3. /\ call'[t].item = call[t].item /\ call'[t].back = call[t].back
          /\ call'[t].pool = call[t].pool
      BY <3>1, <1>a DEF Calls
    <3>4. pc'[t] \in {"set", "lockSet", "trySet", "store", "notify"} => call'[t].sleeper \in Workers
      BY <3>1, <2>0, <1>a DEF Local, Control, Calls
    <3>5. Local(t)'
      BY <2>0, <2>2, <3>2, <3>3, <3>4, Calling
    <3> QED BY <2>1, <3>5, <1>e
  <2> QED BY <2>3, <2>4
<1>13. ASSUME NEW w \in Workers, Top(w) PROVE Locals'
  <2>0. Local(w) /\ w \in Threads
    BY <1>b, <1>d
  <2>1. \A u \in Threads \ {w} : Stays(u)
    BY <1>13, <1>a, <1>b DEF Top, Stays
  <2>2. Local(w)'
    BY <1>13, <2>0, <1>a, <1>b, <1>c, NoCallType
      DEF Top, Local, Control, ClientPlaced, WorkerPlaced, Waking, Leaving, Finding, Asleep,
          Looking
  <2> QED BY <2>0, <2>1, <2>2, <1>e
<1>14. ASSUME NEW w \in Workers, Search(w) PROVE Locals'
  <2>0. Local(w) /\ w \in Threads /\ w \notin Clients /\ pc[w] \in Finding
    BY <1>14, <1>b, <1>d DEF Search, Finding
  <2>1. \A u \in Threads \ {w} : Stays(u)
    BY <1>14, <1>a, <1>b DEF Search, Stays
  <2>2. PICK x \in QueuesOf(PoolOf(w)) \ tried[w] : Search(w)!2!(x)
    BY <1>14 DEF Search
  <2>3. call'[w] = call[w] /\ isSleeping'[w] = isSleeping[w]
    BY <1>14 DEF Search
  <2>4. CASE Queue(x) # <<>>
    <3>1. /\ self'[w] = Head(Queue(x)) /\ tried'[w] = {} /\ back'[w] = "run"
          /\ pc'[w] = Found(w)
      BY <2>2, <2>4, <2>0, <1>a
    <3>2. Head(Queue(x)) # NULL
      <4>1. x \in Pools \cup Workers
        BY <2>2, CrewFacts, <1>b
      <4>2. Queue(x) \in Seq(Coroutines)
        BY <4>1, QueueType
      <4> QED BY <2>4, <4>2, <1>b
    <3>3. pc'[w] \in {"pendings", "normal"}
      BY <3>1 DEF Found
    <3> QED BY <2>0, <2>1, <2>3, <3>1, <3>2, <3>3, <1>c, <1>e
      DEF Local, Control, ClientPlaced, WorkerPlaced, Waking, Leaving, Finding, Asleep, Looking
  <2>5. CASE Queue(x) = <<>>
    <3>1. /\ self'[w] = self[w] /\ back'[w] = back[w]
          /\ \/ pc'[w] = pc[w]
             \/ /\ tried'[w] = {}
                /\ pc'[w] = Missed(w)
      BY <2>2, <2>5, <2>0, <1>a
    <3>2. Missed(w) \in {"search", "checkState", "checkPending"}
      BY <2>0 DEF Missed, Finding
    <3>3. Local(w)'
      BY <2>0, <2>3, <3>1, <3>2, <1>c
        DEF Local, Control, ClientPlaced, WorkerPlaced, Waking, Leaving, Finding, Asleep,
            Looking
    <3> QED BY <2>0, <2>1, <3>3, <1>e
  <2> QED BY <2>4, <2>5
<1>15. ASSUME NEW w \in Workers, CheckState(w) PROVE Locals'
  <2>0. Local(w) /\ w \in Threads
    BY <1>b, <1>d
  <2>1. \A u \in Threads \ {w} : Stays(u)
    BY <1>15, <1>a, <1>b DEF CheckState, Stays
  <2>2. Local(w)'
    BY <1>15, <2>0, <1>a, <1>b, <1>c, NoCallType
      DEF CheckState, Local, Control, ClientPlaced, WorkerPlaced, Waking, Leaving, Finding,
          Asleep, Looking
  <2> QED BY <2>0, <2>1, <2>2, <1>e
<1>16. ASSUME NEW w \in Workers, CheckPending(w) PROVE Locals'
  <2>0. Local(w) /\ w \in Threads
    BY <1>b, <1>d
  <2>1. \A u \in Threads \ {w} : Stays(u)
    BY <1>16, <1>a, <1>b DEF CheckPending, Stays
  <2>2. Local(w)'
    BY <1>16, <2>0, <1>a, <1>b, <1>c, NoCallType
      DEF CheckPending, Local, Control, ClientPlaced, WorkerPlaced, Waking, Leaving,
          Finding, Asleep, Looking
  <2> QED BY <2>0, <2>1, <2>2, <1>e
<1>17. ASSUME NEW w \in Workers, MarkSleeping(w) PROVE Locals'
  <2>0. Local(w) /\ w \in Threads
    BY <1>b, <1>d
  <2>1. \A u \in Threads \ {w} : Stays(u)
    BY <1>17, <1>a, <1>b DEF MarkSleeping, Stays
  <2>2. Local(w)'
    BY <1>17, <2>0, <1>a, <1>b, <1>c, NoCallType
      DEF MarkSleeping, Local, Control, ClientPlaced, WorkerPlaced, Waking, Leaving,
          Finding, Asleep, Looking
  <2> QED BY <2>0, <2>1, <2>2, <1>e
<1>18. ASSUME NEW w \in Workers, CountMayBe(w) PROVE Locals'
  <2>0. Local(w) /\ w \in Threads
    BY <1>b, <1>d
  <2>1. \A u \in Threads \ {w} : Stays(u)
    BY <1>18, <1>a, <1>b DEF CountMayBe, Stays
  <2>2. Local(w)'
    BY <1>18, <2>0, <1>a, <1>b, <1>c, NoCallType
      DEF CountMayBe, Local, Control, ClientPlaced, WorkerPlaced, Waking, Leaving, Finding,
          Asleep, Looking
  <2> QED BY <2>0, <2>1, <2>2, <1>e
<1>19. ASSUME NEW w \in Workers, CountAsleep(w) PROVE Locals'
  <2>0. Local(w) /\ w \in Threads
    BY <1>b, <1>d
  <2>1. \A u \in Threads \ {w} : Stays(u)
    BY <1>19, <1>a, <1>b DEF CountAsleep, Stays
  <2>2. Local(w)'
    BY <1>19, <2>0, <1>a, <1>b, <1>c, NoCallType
      DEF CountAsleep, Local, Control, ClientPlaced, WorkerPlaced, Waking, Leaving, Finding,
          Asleep, Looking
  <2> QED BY <2>0, <2>1, <2>2, <1>e
<1>20. ASSUME NEW w \in Workers, CountAwake(w) PROVE Locals'
  <2>0. Local(w) /\ w \in Threads
    BY <1>b, <1>d
  <2>1. \A u \in Threads \ {w} : Stays(u)
    BY <1>20, <1>a, <1>b DEF CountAwake, Stays
  <2>2. Local(w)'
    BY <1>20, <2>0, <1>a, <1>b, <1>c, NoCallType
      DEF CountAwake, Local, Control, ClientPlaced, WorkerPlaced, Waking, Leaving, Finding,
          Asleep, Looking
  <2> QED BY <2>0, <2>1, <2>2, <1>e
<1>21. ASSUME NEW w \in Workers, Normal(w) PROVE Locals'
  <2>0. Local(w) /\ w \in Threads
    BY <1>b, <1>d
  <2>1. \A u \in Threads \ {w} : Stays(u)
    BY <1>21, <1>a, <1>b DEF Normal, Stays
  <2>2. Local(w)'
    BY <1>21, <2>0, <1>a, <1>b, <1>c, NoCallType
      DEF Normal, Local, Control, ClientPlaced, WorkerPlaced, Waking, Leaving, Finding,
          Asleep, Looking
  <2> QED BY <2>0, <2>1, <2>2, <1>e
<1>22. ASSUME NEW w \in Workers, Unmark(w) PROVE Locals'
  <2>0. Local(w) /\ w \in Threads
    BY <1>b, <1>d
  <2>1. \A u \in Threads \ {w} : Stays(u)
    BY <1>22, <1>a, <1>b DEF Unmark, Stays
  <2>2. Local(w)'
    BY <1>22, <2>0, <1>a, <1>b, <1>c, NoCallType
      DEF Unmark, Local, Control, ClientPlaced, WorkerPlaced, Waking, Leaving, Finding,
          Asleep, Looking
  <2> QED BY <2>0, <2>1, <2>2, <1>e
<1>23. ASSUME NEW w \in Workers, Uncount(w) PROVE Locals'
  <2>0. Local(w) /\ w \in Threads
    BY <1>b, <1>d
  <2>1. \A u \in Threads \ {w} : Stays(u)
    BY <1>23, <1>a, <1>b DEF Uncount, Stays
  <2>2. Local(w)'
    BY <1>23, <2>0, <1>a, <1>b, <1>c, NoCallType
      DEF Uncount, Local, Control, ClientPlaced, WorkerPlaced, Waking, Leaving, Finding,
          Asleep, Looking
  <2> QED BY <2>0, <2>1, <2>2, <1>e
<1>24. ASSUME NEW w \in Workers, CheckNone(w) PROVE Locals'
  <2>0. Local(w) /\ w \in Threads
    BY <1>b, <1>d
  <2>1. \A u \in Threads \ {w} : Stays(u)
    BY <1>24, <1>a, <1>b DEF CheckNone, Stays
  <2>2. Local(w)'
    BY <1>24, <2>0, <1>a, <1>b, <1>c, NoCallType
      DEF CheckNone, Local, Control, ClientPlaced, WorkerPlaced, Waking, Leaving, Finding,
          Asleep, Looking
  <2> QED BY <2>0, <2>1, <2>2, <1>e
<1>25. ASSUME NEW w \in Workers, ClearPending(w) PROVE Locals'
  <2>0. Local(w) /\ w \in Threads
    BY <1>b, <1>d
  <2>1. \A u \in Threads \ {w} : Stays(u)
    BY <1>25, <1>a, <1>b DEF ClearPending, Stays
  <2>2. Local(w)'
    BY <1>25, <2>0, <1>a, <1>b, <1>c, NoCallType
      DEF ClearPending, Local, Control, ClientPlaced, WorkerPlaced, Waking, Leaving,
          Finding, Asleep, Looking
  <2> QED BY <2>0, <2>1, <2>2, <1>e
<1>26. ASSUME NEW w \in Workers, ProcessPending(w) PROVE Locals'
  <2>0. Local(w) /\ w \in Threads /\ w \notin Clients /\ pc[w] = "pendings" /\ PoolOf(w) \in Pools
    BY <1>26, <1>b, <1>d DEF ProcessPending
  <2>1. \A u \in Threads \ {w} : Stays(u)
    BY <1>26, <1>a, <1>b DEF ProcessPending, Stays
  <2>2. /\ self'[w] = self[w] /\ tried'[w] = tried[w] /\ isSleeping'[w] = isSleeping[w]
        /\ back'[w] = "top" /\ back[w] \in {"top", "search", "run"}
        /\ \/ pc'[w] = back[w] /\ call'[w] = call[w]
           \/ /\ pc'[w] = "wake"
              /\ call'[w] = [NoCall EXCEPT !.pool = PoolOf(w), !.back = back[w]]
    BY <1>26, <2>0, <1>a DEF ProcessPending
  <2>3. CASE pc'[w] = back[w] /\ call'[w] = call[w]
    <3>1. Local(w)'
      BY <2>0, <2>2, <2>3, <1>c
        DEF Local, Control, ClientPlaced, WorkerPlaced, Waking, Leaving, Finding, Asleep,
            Looking
    <3> QED BY <2>0, <2>1, <3>1, <1>e
  <2>4. CASE pc'[w] = "wake" /\ call'[w] = [NoCall EXCEPT !.pool = PoolOf(w), !.back = back[w]]
    <3>1. /\ call'[w].item = NULL /\ call'[w].pool \in Pools /\ call'[w].back = back[w]
      BY <2>0, <2>4, NoCallType
    <3>2. Local(w)'
      BY <2>0, <2>2, <2>4, <3>1, <1>c
        DEF Local, Control, ClientPlaced, WorkerPlaced, Waking, Leaving, Finding, Asleep,
            Looking
    <3> QED BY <2>0, <2>1, <3>2, <1>e
  <2> QED BY <2>2, <2>3, <2>4
<1>27. ASSUME NEW w \in Workers, Wait(w) PROVE Locals'
  <2>0. Local(w) /\ w \in Threads
    BY <1>b, <1>d
  <2>1. \A u \in Threads \ {w} : Stays(u)
    BY <1>27, <1>a, <1>b DEF Wait, Stays
  <2>2. Local(w)'
    BY <1>27, <2>0, <1>a, <1>b, <1>c, NoCallType
      DEF Wait, Local, Control, ClientPlaced, WorkerPlaced, Waking, Leaving, Finding,
          Asleep, Looking
  <2> QED BY <2>0, <2>1, <2>2, <1>e
<1>28. ASSUME NEW w \in Workers, LockWait(w) PROVE Locals'
  <2>0. Local(w) /\ w \in Threads
    BY <1>b, <1>d
  <2>1. \A u \in Threads \ {w} : Stays(u)
    BY <1>28, <1>a, <1>b DEF LockWait, Stays
  <2>2. Local(w)'
    BY <1>28, <2>0, <1>a, <1>b, <1>c, NoCallType
      DEF LockWait, Local, Control, ClientPlaced, WorkerPlaced, Waking, Leaving, Finding,
          Asleep, Looking
  <2> QED BY <2>0, <2>1, <2>2, <1>e
<1>29. ASSUME NEW w \in Workers, CheckSet(w) PROVE Locals'
  <2>0. Local(w) /\ w \in Threads
    BY <1>b, <1>d
  <2>1. \A u \in Threads \ {w} : Stays(u)
    BY <1>29, <1>a, <1>b DEF CheckSet, Stays
  <2>2. Local(w)'
    BY <1>29, <2>0, <1>a, <1>b, <1>c, NoCallType
      DEF CheckSet, Local, Control, ClientPlaced, WorkerPlaced, Waking, Leaving, Finding,
          Asleep, Looking
  <2> QED BY <2>0, <2>1, <2>2, <1>e
<1>30. ASSUME NEW w \in Workers, Finish(w) PROVE Locals'
  <2>0. Local(w) /\ w \in Threads
    BY <1>b, <1>d
  <2>1. \A u \in Threads \ {w} : Stays(u)
    BY <1>30, <1>a, <1>b DEF Finish, Stays
  <2>2. Local(w)'
    BY <1>30, <2>0, <1>a, <1>b, <1>c, NoCallType
      DEF Finish, Local, Control, ClientPlaced, WorkerPlaced, Waking, Leaving, Finding,
          Asleep, Looking
  <2> QED BY <2>0, <2>1, <2>2, <1>e
<1>31. ASSUME NEW w \in Workers, NEW p \in Pools, Hop(w, p) PROVE Locals'
  <2>0. Local(w) /\ w \in Threads
    BY <1>b, <1>d
  <2>1. \A u \in Threads \ {w} : Stays(u)
    BY <1>31, <1>a, <1>b DEF Hop, Stays, CallSchedule
  <2>2. Local(w)'
    BY <1>31, <2>0, <1>a, <1>b, <1>c, NoCallType
      DEF Hop, Local, Control, ClientPlaced, WorkerPlaced, Waking, Leaving, Finding, Asleep,
          Looking, CallSchedule
  <2> QED BY <2>0, <2>1, <2>2, <1>e
<1>32. ASSUME NEW t \in Threads, NEW c \in Coroutines, NEW p \in Pools, Start(t, c, p) PROVE Locals'
  <2>0. Local(t) /\ t \in Threads
    BY <1>b, <1>d
  <2>1. \A u \in Threads \ {t} : Stays(u)
    BY <1>32, <1>a, <1>b DEF Start, Stays, CallSchedule
  <2>2. Local(t)'
    BY <1>32, <2>0, <1>a, <1>b, <1>c, NoCallType
      DEF Start, Local, Control, ClientPlaced, WorkerPlaced, Waking, Leaving, Finding,
          Asleep, Looking, CallSchedule
  <2> QED BY <2>0, <2>1, <2>2, <1>e
<1>33. ASSUME NEW t \in Clients, WakeAll(t) PROVE Locals'
  <2>0. Local(t) /\ t \in Threads /\ t \notin Workers /\ pc[t] = "wakeAll"
    BY <1>33, <1>b, <1>d DEF WakeAll
  <2>1. \A u \in Threads \ {t} : Stays(u)
    BY <1>33, <1>a, <1>b DEF WakeAll, Stays
  <2>2. PICK x \in WorkersOf(ShutPool) \ tried[t] : WakeAll(t)!2!(x)
    BY <1>33 DEF WakeAll
  <2>3. x \in Workers
    BY <2>2, CrewFacts, ThreadFacts DEF ShutPool
  <2>4. /\ back'[t] = back[t] /\ self'[t] = self[t]
        /\ \/ pc'[t] = pc[t] /\ call'[t] = call[t]
           \/ /\ pc'[t] = "set"
              /\ call'[t] = [NoCall EXCEPT !.sleeper = x, !.back = "wakeAll"]
    BY <1>33, <2>0, <2>2, <1>a DEF WakeAll
  <2>5. Local(t)'
    BY <2>0, <2>3, <2>4, <1>c, NoCallType
      DEF Local, Control, ClientPlaced, WorkerPlaced, Waking, Leaving, Finding, Asleep, Looking
  <2> QED BY <2>0, <2>1, <2>5, <1>e
<1>34. ASSUME NEW t \in Clients, Join(t) PROVE Locals'
  <2>0. Local(t) /\ t \in Threads
    BY <1>b, <1>d
  <2>1. \A u \in Threads \ {t} : Stays(u)
    BY <1>34, <1>a, <1>b DEF Join, Stays
  <2>2. Local(t)'
    BY <1>34, <2>0, <1>a, <1>b, <1>c, NoCallType
      DEF Join, Local, Control, ClientPlaced, WorkerPlaced, Waking, Leaving, Finding,
          Asleep, Looking
  <2> QED BY <2>0, <2>1, <2>2, <1>e
<1>35. ASSUME NEW t \in Clients, LookAsleep(t) PROVE Locals'
  <2>0. Local(t) /\ t \in Threads
    BY <1>b, <1>d
  <2>1. \A u \in Threads \ {t} : Stays(u)
    BY <1>35, <1>a, <1>b DEF LookAsleep, Stays
  <2>2. Local(t)'
    BY <1>35, <2>0, <1>a, <1>b, <1>c, NoCallType
      DEF LookAsleep, Local, Control, ClientPlaced, WorkerPlaced, Waking, Leaving, Finding,
          Asleep, Looking
  <2> QED BY <2>0, <2>1, <2>2, <1>e
<1>36. ASSUME NEW t \in Clients, LookWork(t) PROVE Locals'
  <2>0. Local(t) /\ t \in Threads
    BY <1>b, <1>d
  <2>1. \A u \in Threads \ {t} : Stays(u)
    BY <1>36, <1>a, <1>b DEF LookWork, Stays
  <2>2. Local(t)'
    BY <1>36, <2>0, <1>a, <1>b, <1>c, NoCallType
      DEF LookWork, Local, Control, ClientPlaced, WorkerPlaced, Waking, Leaving, Finding,
          Asleep, Looking
  <2> QED BY <2>0, <2>1, <2>2, <1>e
<1>37. ASSUME NEW t \in Clients, Shutdown(t) PROVE Locals'
  <2>0. Local(t) /\ t \in Threads
    BY <1>b, <1>d
  <2>1. \A u \in Threads \ {t} : Stays(u)
    BY <1>37, <1>a, <1>b DEF Shutdown, Stays
  <2>2. Local(t)'
    BY <1>37, <2>0, <1>a, <1>b, <1>c, NoCallType
      DEF Shutdown, Local, Control, ClientPlaced, WorkerPlaced, Waking, Leaving, Finding,
          Asleep, Looking
  <2> QED BY <2>0, <2>1, <2>2, <1>e
<1>38. ASSUME NEW t \in Clients, WaitForIdle(t) PROVE Locals'
  <2>0. Local(t) /\ t \in Threads
    BY <1>b, <1>d
  <2>1. \A u \in Threads \ {t} : Stays(u)
    BY <1>38, <1>a, <1>b DEF WaitForIdle, Stays
  <2>2. Local(t)'
    BY <1>38, <2>0, <1>a, <1>b, <1>c, NoCallType
      DEF WaitForIdle, Local, Control, ClientPlaced, WorkerPlaced, Waking, Leaving, Finding,
          Asleep, Looking
  <2> QED BY <2>0, <2>1, <2>2, <1>e
<1> QED
  BY <1>0, <1>1, <1>2, <1>3, <1>4, <1>5, <1>6, <1>7, <1>8, <1>9, <1>10, <1>11, <1>12, <1>13,
     <1>14, <1>15, <1>16, <1>17, <1>18, <1>19, <1>20, <1>21, <1>22, <1>23, <1>24, <1>25,
     <1>26, <1>27, <1>28, <1>29, <1>30, <1>31, <1>32, <1>33, <1>34, <1>35, <1>36, <1>37,
     <1>38, ThreadFacts
     DEF Next, WakeStep, WorkerStep, Body, ClientStep

-----------------------------------------------------------------------------
(* The counts *)

\* A worker more, a worker less.
LEMMA OneMore ==
    ASSUME NEW S, IsFiniteSet(S), NEW w, w \notin S
    PROVE  Cardinality(S \cup {w}) = Cardinality(S) + 1
BY FS_AddElement

LEMMA OneLess ==
    ASSUME NEW S, IsFiniteSet(S), NEW w \in S
    PROVE  Cardinality(S \ {w}) = Cardinality(S) - 1
BY FS_RemoveElement

\* A count goes up with the thread that comes under it, and down with the one that leaves.
LEMMA CountedStep == ASSUME Typed, Locals, Counted, [Next]_vars PROVE Counted'
<1>a. /\ pc \in [Threads -> Pcs]
      /\ call \in [Threads -> Calls]
      /\ back \in [Threads -> {"top", "search", "run"}]
      /\ isSleeping \in [Workers -> BOOLEAN] /\ pending \in [Pools -> Nat]
      /\ mayBeSleeping \in [Pools -> Int] /\ sleeping \in [Pools -> Int]
  BY DEF Typed
<1>b. /\ \A w \in Workers : PoolOf(w) \in Pools /\ w \in Threads /\ w \notin Clients
      /\ \A t \in Clients : t \in Threads /\ t \notin Workers
      /\ \A t \in Threads : t \in Workers \/ t \in Clients
  BY ThreadFacts
<1>c. /\ \A p \in Pools : WorkersOf(p)' = WorkersOf(p) /\ threadCount(p)' = threadCount(p)
      /\ \A p \in Pools : WorkersOf(p) \subseteq Workers /\ threadCount(p) \in Nat
      /\ \A p \in Pools : /\ IsFiniteSet(CountedMayBe(p)) /\ IsFiniteSet(CountedAsleep(p))
                          /\ CountedMayBe(p) \subseteq WorkersOf(p)
                          /\ CountedAsleep(p) \subseteq WorkersOf(p)
                          /\ mayBeSleeping[p] = Cardinality(CountedMayBe(p))
                          /\ sleeping[p] = Cardinality(CountedAsleep(p))
                          /\ pending[p] <= threadCount(p)
      /\ \A w \in Workers, p \in Pools : w \in WorkersOf(p) <=> w \in session.crew /\ PoolOf(w) = p
  <2>1. ASSUME NEW p \in Pools PROVE IsFiniteSet(CountedMayBe(p)) /\ IsFiniteSet(CountedAsleep(p))
    <3>1. CountedMayBe(p) \in SUBSET WorkersOf(p) /\ CountedAsleep(p) \in SUBSET WorkersOf(p)
      BY DEF CountedMayBe, CountedAsleep
    <3> QED BY <3>1, CrewFacts, FS_Subset
  <2>2. \A p \in Pools : CountedMayBe(p) \subseteq WorkersOf(p) /\ CountedAsleep(p) \subseteq WorkersOf(p)
    BY DEF CountedMayBe, CountedAsleep
  <2> QED BY <2>1, <2>2, CrewFacts, CrewStays DEF Counted
<1>d. \A t \in Threads : Local(t)
  BY DEF Locals
<1>w. \A w \in Workers : pc[w] # "exited" => w \in WorkersOf(PoolOf(w))
  BY <1>b, <1>c, <1>d DEF Local, WorkerPlaced
<1>e. ASSUME \A u \in Workers : MayBe(u)' <=> MayBe(u), mayBeSleeping' = mayBeSleeping
      PROVE  \A p \in Pools : mayBeSleeping'[p] = Cardinality(CountedMayBe(p)')
  <2>1. \A p \in Pools : CountedMayBe(p)' = CountedMayBe(p)
    BY <1>c, <1>e DEF CountedMayBe
  <2> QED BY <1>c, <1>e, <2>1
<1>f. ASSUME \A u \in Workers : InSleep(u)' <=> InSleep(u), sleeping' = sleeping
      PROVE  \A p \in Pools : sleeping'[p] = Cardinality(CountedAsleep(p)')
  <2>1. \A p \in Pools : CountedAsleep(p)' = CountedAsleep(p)
    BY <1>c, <1>f DEF CountedAsleep
  <2> QED BY <1>c, <1>f, <2>1
<1>g. ASSUME \A p \in Pools : mayBeSleeping'[p] = Cardinality(CountedMayBe(p)'),
             \A p \in Pools : sleeping'[p] = Cardinality(CountedAsleep(p)'),
             \A p \in Pools : pending'[p] <= threadCount(p)
      PROVE  Counted'
  BY <1>c, <1>g DEF Counted
<1>h. ASSUME UNCHANGED <<mayBeSleeping, sleeping>>,
             \A p \in Pools : pending'[p] <= threadCount(p),
             \A u \in Workers : MayBe(u)' <=> MayBe(u),
             \A u \in Workers : InSleep(u)' <=> InSleep(u)
      PROVE  Counted'
  BY <1>e, <1>f, <1>g, <1>h
<1>i. ASSUME UNCHANGED <<counts, isSleeping>>,
             NEW t \in Threads, \A u \in Threads \ {t} : pc'[u] = pc[u],
             {pc[t], pc'[t]} \cap ({"countMayBe", "uncount"} \cup Asleep) = {}
      PROVE  Counted'
  <2>1. \A u \in Workers : MayBe(u)' <=> MayBe(u)
    BY <1>i, <1>b DEF MayBe
  <2>2. \A u \in Workers : InSleep(u)' <=> InSleep(u)
    BY <1>i, <1>b DEF InSleep
  <2> QED BY <1>c, <1>i, <1>h, <2>1, <2>2 DEF counts
<1> HIDE DEF MayBe, InSleep

<1> USE DEF queues, counts, events, coros, locals, Go, At, Goto, Return, GoOn
<1>0. CASE UNCHANGED vars
  BY <1>0, <1>c, <1>h DEF vars, MayBe, InSleep
<1>1. ASSUME NEW t \in Threads, Enqueue(t) PROVE Counted'
  <2>1. /\ UNCHANGED <<counts, isSleeping>> /\ t \in Threads /\ Local(t)
        /\ \A u \in Threads \ {t} : pc'[u] = pc[u]
    BY <1>1, <1>a, <1>b, <1>d DEF Enqueue
  <2>2. {pc[t], pc'[t]} \cap ({"countMayBe", "uncount"} \cup Asleep) = {}
    BY <1>1, <2>1, <1>a DEF Enqueue, Asleep
  <2> QED BY <2>1, <2>2, <1>i
<1>2. ASSUME NEW t \in Threads, Wake(t) PROVE Counted'
  <2>1. /\ UNCHANGED <<counts, isSleeping>> /\ t \in Threads /\ Local(t)
        /\ \A u \in Threads \ {t} : pc'[u] = pc[u]
    BY <1>2, <1>a, <1>b, <1>d DEF Wake
  <2>2. {pc[t], pc'[t]} \cap ({"countMayBe", "uncount"} \cup Asleep) = {}
    BY <1>2, <2>1, <1>a DEF Wake, Asleep
  <2> QED BY <2>1, <2>2, <1>i
<1>3. ASSUME NEW t \in Threads, NextSleeper(t) PROVE Counted'
  <2>1. /\ UNCHANGED <<counts, isSleeping>> /\ t \in Threads /\ Local(t)
        /\ \A u \in Threads \ {t} : pc'[u] = pc[u]
    BY <1>3, <1>a, <1>b, <1>d DEF NextSleeper, Local, Control, Waking, Calls
  <2>2. {pc[t], pc'[t]} \cap ({"countMayBe", "uncount"} \cup Asleep) = {}
    BY <1>3, <2>1, <1>a DEF NextSleeper, Asleep, Local, Control, Waking, Calls
  <2> QED BY <2>1, <2>2, <1>i
<1>4. ASSUME NEW t \in Threads, TrySleeper(t) PROVE Counted'
  <2>1. /\ UNCHANGED <<counts, isSleeping>> /\ t \in Threads /\ Local(t)
        /\ \A u \in Threads \ {t} : pc'[u] = pc[u]
    BY <1>4, <1>a, <1>b, <1>d DEF TrySleeper
  <2>2. {pc[t], pc'[t]} \cap ({"countMayBe", "uncount"} \cup Asleep) = {}
    BY <1>4, <2>1, <1>a DEF TrySleeper, Asleep
  <2> QED BY <2>1, <2>2, <1>i
<1>5. ASSUME NEW t \in Threads, Set(t) PROVE Counted'
  <2>1. /\ UNCHANGED <<counts, isSleeping>> /\ t \in Threads /\ Local(t)
        /\ \A u \in Threads \ {t} : pc'[u] = pc[u]
    BY <1>5, <1>a, <1>b, <1>d DEF Set, Local, Control, Waking, Calls
  <2>2. {pc[t], pc'[t]} \cap ({"countMayBe", "uncount"} \cup Asleep) = {}
    BY <1>5, <2>1, <1>a DEF Set, Asleep, Local, Control, Waking, Calls
  <2> QED BY <2>1, <2>2, <1>i
<1>6. ASSUME NEW t \in Threads, LockSet(t) PROVE Counted'
  <2>1. /\ UNCHANGED <<counts, isSleeping>> /\ t \in Threads /\ Local(t)
        /\ \A u \in Threads \ {t} : pc'[u] = pc[u]
    BY <1>6, <1>a, <1>b, <1>d DEF LockSet
  <2>2. {pc[t], pc'[t]} \cap ({"countMayBe", "uncount"} \cup Asleep) = {}
    BY <1>6, <2>1, <1>a DEF LockSet, Asleep
  <2> QED BY <2>1, <2>2, <1>i
<1>7. ASSUME NEW t \in Threads, TrySet(t) PROVE Counted'
  <2>1. /\ UNCHANGED <<counts, isSleeping>> /\ t \in Threads /\ Local(t)
        /\ \A u \in Threads \ {t} : pc'[u] = pc[u]
    BY <1>7, <1>a, <1>b, <1>d DEF TrySet
  <2>2. {pc[t], pc'[t]} \cap ({"countMayBe", "uncount"} \cup Asleep) = {}
    BY <1>7, <2>1, <1>a DEF TrySet, Asleep
  <2> QED BY <2>1, <2>2, <1>i
<1>8. ASSUME NEW t \in Threads, Store(t) PROVE Counted'
  <2>1. /\ UNCHANGED <<counts, isSleeping>> /\ t \in Threads /\ Local(t)
        /\ \A u \in Threads \ {t} : pc'[u] = pc[u]
    BY <1>8, <1>a, <1>b, <1>d DEF Store
  <2>2. {pc[t], pc'[t]} \cap ({"countMayBe", "uncount"} \cup Asleep) = {}
    BY <1>8, <2>1, <1>a DEF Store, Asleep
  <2> QED BY <2>1, <2>2, <1>i
<1>9. ASSUME NEW t \in Threads, Notify(t) PROVE Counted'
  <2>1. \A u \in Workers : MayBe(u)' <=> MayBe(u)
    <3> SUFFICES ASSUME NEW u \in Workers PROVE MayBe(u)' <=> MayBe(u)
      OBVIOUS
    <3>1. /\ isSleeping'[u] = isSleeping[u]
          /\ pc'[u] = "countMayBe" <=> pc[u] = "countMayBe"
          /\ pc'[u] = "uncount" <=> pc[u] = "uncount"
      BY <1>9, <1>a, <1>b, <1>d DEF Notify, Calls
    <3> QED BY <3>1 DEF MayBe
  <2>2. \A u \in Workers : InSleep(u)' <=> InSleep(u)
    BY <1>9, <1>a, <1>b, <1>d DEF Notify, InSleep, Asleep, Calls
  <2>3. UNCHANGED counts
    BY <1>9 DEF Notify
  <2> QED BY <2>1, <2>2, <2>3, <1>c, <1>h DEF counts
<1>10. ASSUME NEW t \in Threads, NoneWoken(t) PROVE Counted'
  <2>1. /\ UNCHANGED <<counts, isSleeping>> /\ t \in Threads /\ Local(t)
        /\ \A u \in Threads \ {t} : pc'[u] = pc[u]
    BY <1>10, <1>a, <1>b, <1>d DEF NoneWoken, Local, Control, Waking, Calls
  <2>2. {pc[t], pc'[t]} \cap ({"countMayBe", "uncount"} \cup Asleep) = {}
    BY <1>10, <2>1, <1>a DEF NoneWoken, Asleep, Local, Control, Waking, Calls
  <2> QED BY <2>1, <2>2, <1>i
<1>11. ASSUME NEW t \in Threads, LeaveRequest(t) PROVE Counted'
  <2>1. /\ UNCHANGED <<counts, isSleeping>> /\ t \in Threads /\ Local(t)
        /\ \A u \in Threads \ {t} : pc'[u] = pc[u]
    BY <1>11, <1>a, <1>b, <1>d DEF LeaveRequest, Local, Control, Waking, Calls
  <2>2. {pc[t], pc'[t]} \cap ({"countMayBe", "uncount"} \cup Asleep) = {}
    BY <1>11, <2>1, <1>a DEF LeaveRequest, Asleep, Local, Control, Waking, Calls
  <2> QED BY <2>1, <2>2, <1>i
<1>12. ASSUME NEW t \in Threads, AddRequest(t) PROVE Counted'
  <2>0. /\ t \in Threads /\ Local(t)
        /\ \A u \in Threads \ {t} : pc'[u] = pc[u]
        /\ UNCHANGED <<isSleeping, mayBeSleeping, sleeping>>
    BY <1>12, <1>a, <1>b, <1>d DEF AddRequest
  <2>1. {pc[t], pc'[t]} \cap ({"countMayBe", "uncount"} \cup Asleep) = {}
    BY <1>12, <2>0, <1>a DEF AddRequest, Asleep, Calls
  <2>2. \A u \in Workers : MayBe(u)' <=> MayBe(u)
    BY <2>0, <2>1, <1>b DEF MayBe
  <2>3. \A u \in Workers : InSleep(u)' <=> InSleep(u)
    BY <2>0, <2>1, <1>b DEF InSleep
  <2>4. \A p \in Pools : pending'[p] <= threadCount(p)
    <3>1. \/ pending' = pending
          \/ /\ pending[call[t].pool] = call[t].seen
             /\ pending' = [pending EXCEPT ![call[t].pool] = @ + 1]
      <4>1. CASE pending[call[t].pool] = call[t].seen
        BY <1>12, <4>1 DEF AddRequest
      <4>2. CASE pending[call[t].pool] # call[t].seen
        BY <1>12, <4>2 DEF AddRequest
      <4> QED BY <4>1, <4>2
    <3>2. call[t].seen < threadCount(call[t].pool) /\ call[t].pool \in Pools
      BY <1>12, <2>0 DEF AddRequest, Local, Control, Waking
    <3> QED BY <3>1, <3>2, <1>a, <1>c
  <2> QED BY <2>0, <2>2, <2>3, <2>4, <1>h
<1>13. ASSUME NEW w \in Workers, Top(w) PROVE Counted'
  <2>1. /\ UNCHANGED <<counts, isSleeping>> /\ w \in Threads /\ Local(w)
        /\ \A u \in Threads \ {w} : pc'[u] = pc[u]
    BY <1>13, <1>a, <1>b, <1>d DEF Top
  <2>2. {pc[w], pc'[w]} \cap ({"countMayBe", "uncount"} \cup Asleep) = {}
    BY <1>13, <2>1, <1>a DEF Top, Asleep
  <2> QED BY <2>1, <2>2, <1>i
<1>14. ASSUME NEW w \in Workers, Search(w) PROVE Counted'
  <2>1. /\ UNCHANGED <<counts, isSleeping>> /\ w \in Threads /\ Local(w)
        /\ \A u \in Threads \ {w} : pc'[u] = pc[u]
    BY <1>14, <1>a, <1>b, <1>d DEF Search, Missed, Found
  <2>2. {pc[w], pc'[w]} \cap ({"countMayBe", "uncount"} \cup Asleep) = {}
    BY <1>14, <2>1, <1>a DEF Search, Asleep, Missed, Found
  <2> QED BY <2>1, <2>2, <1>i
<1>15. ASSUME NEW w \in Workers, CheckState(w) PROVE Counted'
  <2>1. /\ UNCHANGED <<counts, isSleeping>> /\ w \in Threads /\ Local(w)
        /\ \A u \in Threads \ {w} : pc'[u] = pc[u]
    BY <1>15, <1>a, <1>b, <1>d DEF CheckState
  <2>2. {pc[w], pc'[w]} \cap ({"countMayBe", "uncount"} \cup Asleep) = {}
    BY <1>15, <2>1, <1>a DEF CheckState, Asleep
  <2> QED BY <2>1, <2>2, <1>i
<1>16. ASSUME NEW w \in Workers, CheckPending(w) PROVE Counted'
  <2>1. /\ UNCHANGED <<counts, isSleeping>> /\ w \in Threads /\ Local(w)
        /\ \A u \in Threads \ {w} : pc'[u] = pc[u]
    BY <1>16, <1>a, <1>b, <1>d DEF CheckPending
  <2>2. {pc[w], pc'[w]} \cap ({"countMayBe", "uncount"} \cup Asleep) = {}
    BY <1>16, <2>1, <1>a DEF CheckPending, Asleep
  <2> QED BY <2>1, <2>2, <1>i
<1>17. ASSUME NEW w \in Workers, MarkSleeping(w) PROVE Counted'
  <2>0. w \in Threads /\ Local(w) /\ \A u \in Threads \ {w} : pc'[u] = pc[u]
    BY <1>17, <1>a, <1>b, <1>d DEF MarkSleeping
  <2>1. \A u \in Workers : MayBe(u)' <=> MayBe(u)
    BY <1>17, <2>0, <1>a, <1>b DEF MarkSleeping, MayBe, Local, WorkerPlaced, Asleep
  <2>2. \A u \in Workers : InSleep(u)' <=> InSleep(u)
    BY <1>17, <2>0, <1>a, <1>b DEF MarkSleeping, InSleep, Asleep
  <2>3. UNCHANGED counts
    BY <1>17 DEF MarkSleeping
  <2> QED BY <2>1, <2>2, <2>3, <1>c, <1>h DEF counts
<1>18. ASSUME NEW w \in Workers, CountMayBe(w) PROVE Counted'
  <2> DEFINE p == PoolOf(w)
  <2>0. /\ w \in Threads /\ Local(w) /\ \A u \in Threads \ {w} : pc'[u] = pc[u]
        /\ p \in Pools /\ w \in WorkersOf(p)
        /\ isSleeping' = isSleeping /\ pending' = pending /\ sleeping' = sleeping
        /\ mayBeSleeping' = [mayBeSleeping EXCEPT ![p] = @ + 1]
    BY <1>18, <1>a, <1>b, <1>d, <1>w DEF CountMayBe
  <2>1. ~MayBe(w) /\ MayBe(w)'
    BY <1>18, <2>0, <1>a, <1>b DEF CountMayBe, MayBe, Local, WorkerPlaced, Asleep
  <2>2. \A u \in Workers \ {w} : MayBe(u)' <=> MayBe(u)
    BY <2>0, <1>b DEF MayBe
  <2>3. \A u \in Workers : InSleep(u)' <=> InSleep(u)
    BY <1>18, <2>0, <1>a, <1>b DEF CountMayBe, InSleep, Local, WorkerPlaced, Asleep
  <2>4. /\ CountedMayBe(p)' = CountedMayBe(p) \cup {w}
        /\ \A q \in Pools \ {p} : CountedMayBe(q)' = CountedMayBe(q)
    BY <2>0, <2>1, <2>2, <1>c DEF CountedMayBe
  <2>5. Cardinality(CountedMayBe(p)') = Cardinality(CountedMayBe(p)) + 1
    <3>1. w \notin CountedMayBe(p)
      BY <2>0, <2>1 DEF CountedMayBe
    <3> QED BY <2>0, <2>4, <3>1, <1>c, OneMore
  <2> HIDE DEF p
  <2>6. \A q \in Pools : mayBeSleeping'[q] = Cardinality(CountedMayBe(q)')
    BY <2>0, <2>4, <2>5, <1>a, <1>c
  <2>7. \A q \in Pools : sleeping'[q] = Cardinality(CountedAsleep(q)')
    BY <2>0, <2>3, <1>f
  <2> QED BY <2>0, <2>6, <2>7, <1>c, <1>g
<1>19. ASSUME NEW w \in Workers, CountAsleep(w) PROVE Counted'
  <2> DEFINE p == PoolOf(w)
  <2>0. /\ w \in Threads /\ Local(w) /\ \A u \in Threads \ {w} : pc'[u] = pc[u]
        /\ p \in Pools /\ w \in WorkersOf(p)
        /\ isSleeping' = isSleeping /\ pending' = pending /\ mayBeSleeping' = mayBeSleeping
        /\ sleeping' = [sleeping EXCEPT ![p] = @ + 1]
    BY <1>19, <1>a, <1>b, <1>d, <1>w DEF CountAsleep
  <2>1. ~InSleep(w) /\ InSleep(w)'
    BY <1>19, <2>0, <1>a, <1>b DEF CountAsleep, InSleep, Local, WorkerPlaced, Asleep
  <2>2. \A u \in Workers \ {w} : InSleep(u)' <=> InSleep(u)
    BY <2>0, <1>b DEF InSleep
  <2>3. \A u \in Workers : MayBe(u)' <=> MayBe(u)
    BY <1>19, <2>0, <1>a, <1>b DEF CountAsleep, MayBe, Local, WorkerPlaced, Asleep
  <2>4. /\ CountedAsleep(p)' = CountedAsleep(p) \cup {w}
        /\ \A q \in Pools \ {p} : CountedAsleep(q)' = CountedAsleep(q)
    BY <2>0, <2>1, <2>2, <1>c DEF CountedAsleep
  <2>5. Cardinality(CountedAsleep(p)') = Cardinality(CountedAsleep(p)) + 1
    <3>1. w \notin CountedAsleep(p)
      BY <2>0, <2>1 DEF CountedAsleep
    <3> QED BY <2>0, <2>4, <3>1, <1>c, OneMore
  <2> HIDE DEF p
  <2>6. \A q \in Pools : sleeping'[q] = Cardinality(CountedAsleep(q)')
    BY <2>0, <2>4, <2>5, <1>a, <1>c
  <2>7. \A q \in Pools : mayBeSleeping'[q] = Cardinality(CountedMayBe(q)')
    BY <2>0, <2>3, <1>e
  <2> QED BY <2>0, <2>6, <2>7, <1>c, <1>g
<1>20. ASSUME NEW w \in Workers, CountAwake(w) PROVE Counted'
  <2> DEFINE p == PoolOf(w)
  <2>0. /\ w \in Threads /\ Local(w) /\ \A u \in Threads \ {w} : pc'[u] = pc[u]
        /\ p \in Pools /\ w \in WorkersOf(p)
        /\ isSleeping' = isSleeping /\ pending' = pending /\ mayBeSleeping' = mayBeSleeping
        /\ sleeping' = [sleeping EXCEPT ![p] = @ - 1]
    BY <1>20, <1>a, <1>b, <1>d, <1>w DEF CountAwake
  <2>1. InSleep(w) /\ ~InSleep(w)'
    BY <1>20, <2>0, <1>a, <1>b DEF CountAwake, InSleep, Local, WorkerPlaced, Asleep
  <2>2. \A u \in Workers \ {w} : InSleep(u)' <=> InSleep(u)
    BY <2>0, <1>b DEF InSleep
  <2>3. \A u \in Workers : MayBe(u)' <=> MayBe(u)
    BY <1>20, <2>0, <1>a, <1>b DEF CountAwake, MayBe, Local, WorkerPlaced, Asleep
  <2>4. /\ CountedAsleep(p)' = CountedAsleep(p) \ {w}
        /\ \A q \in Pools \ {p} : CountedAsleep(q)' = CountedAsleep(q)
    BY <2>0, <2>1, <2>2, <1>c DEF CountedAsleep
  <2>5. Cardinality(CountedAsleep(p)') = Cardinality(CountedAsleep(p)) - 1
    <3>1. w \in CountedAsleep(p)
      BY <2>0, <2>1 DEF CountedAsleep
    <3> QED BY <2>0, <2>4, <3>1, <1>c, OneLess
  <2> HIDE DEF p
  <2>6. \A q \in Pools : sleeping'[q] = Cardinality(CountedAsleep(q)')
    BY <2>0, <2>4, <2>5, <1>a, <1>c
  <2>7. \A q \in Pools : mayBeSleeping'[q] = Cardinality(CountedMayBe(q)')
    BY <2>0, <2>3, <1>e
  <2> QED BY <2>0, <2>6, <2>7, <1>c, <1>g
<1>21. ASSUME NEW w \in Workers, Normal(w) PROVE Counted'
  <2>1. /\ UNCHANGED <<counts, isSleeping>> /\ w \in Threads /\ Local(w)
        /\ \A u \in Threads \ {w} : pc'[u] = pc[u]
    BY <1>21, <1>a, <1>b, <1>d DEF Normal
  <2>2. {pc[w], pc'[w]} \cap ({"countMayBe", "uncount"} \cup Asleep) = {}
    BY <1>21, <2>1, <1>a DEF Normal, Asleep
  <2> QED BY <2>1, <2>2, <1>i
<1>22. ASSUME NEW w \in Workers, Unmark(w) PROVE Counted'
  <2>0. w \in Threads /\ Local(w) /\ \A u \in Threads \ {w} : pc'[u] = pc[u]
    BY <1>22, <1>a, <1>b, <1>d DEF Unmark
  <2>1. \A u \in Workers : MayBe(u)' <=> MayBe(u)
    BY <1>22, <2>0, <1>a, <1>b DEF Unmark, MayBe, Local, WorkerPlaced, Asleep
  <2>2. \A u \in Workers : InSleep(u)' <=> InSleep(u)
    BY <1>22, <2>0, <1>a, <1>b DEF Unmark, InSleep, Asleep
  <2>3. UNCHANGED counts
    BY <1>22 DEF Unmark
  <2> QED BY <2>1, <2>2, <2>3, <1>c, <1>h DEF counts
<1>23. ASSUME NEW w \in Workers, Uncount(w) PROVE Counted'
  <2> DEFINE p == PoolOf(w)
  <2>0. /\ w \in Threads /\ Local(w) /\ \A u \in Threads \ {w} : pc'[u] = pc[u]
        /\ p \in Pools /\ w \in WorkersOf(p)
        /\ isSleeping' = isSleeping /\ pending' = pending /\ sleeping' = sleeping
        /\ mayBeSleeping' = [mayBeSleeping EXCEPT ![p] = @ - 1]
    BY <1>23, <1>a, <1>b, <1>d, <1>w DEF Uncount
  <2>1. MayBe(w) /\ ~MayBe(w)'
    BY <1>23, <2>0, <1>a, <1>b DEF Uncount, MayBe, Local, WorkerPlaced, Asleep
  <2>2. \A u \in Workers \ {w} : MayBe(u)' <=> MayBe(u)
    BY <2>0, <1>b DEF MayBe
  <2>3. \A u \in Workers : InSleep(u)' <=> InSleep(u)
    BY <1>23, <2>0, <1>a, <1>b DEF Uncount, InSleep, Local, WorkerPlaced, Asleep
  <2>4. /\ CountedMayBe(p)' = CountedMayBe(p) \ {w}
        /\ \A q \in Pools \ {p} : CountedMayBe(q)' = CountedMayBe(q)
    BY <2>0, <2>1, <2>2, <1>c DEF CountedMayBe
  <2>5. Cardinality(CountedMayBe(p)') = Cardinality(CountedMayBe(p)) - 1
    <3>1. w \in CountedMayBe(p)
      BY <2>0, <2>1 DEF CountedMayBe
    <3> QED BY <2>0, <2>4, <3>1, <1>c, OneLess
  <2> HIDE DEF p
  <2>6. \A q \in Pools : mayBeSleeping'[q] = Cardinality(CountedMayBe(q)')
    BY <2>0, <2>4, <2>5, <1>a, <1>c
  <2>7. \A q \in Pools : sleeping'[q] = Cardinality(CountedAsleep(q)')
    BY <2>0, <2>3, <1>f
  <2> QED BY <2>0, <2>6, <2>7, <1>c, <1>g
<1>24. ASSUME NEW w \in Workers, CheckNone(w) PROVE Counted'
  <2>1. /\ UNCHANGED <<counts, isSleeping>> /\ w \in Threads /\ Local(w)
        /\ \A u \in Threads \ {w} : pc'[u] = pc[u]
    BY <1>24, <1>a, <1>b, <1>d DEF CheckNone
  <2>2. {pc[w], pc'[w]} \cap ({"countMayBe", "uncount"} \cup Asleep) = {}
    BY <1>24, <2>1, <1>a DEF CheckNone, Asleep
  <2> QED BY <2>1, <2>2, <1>i
<1>25. ASSUME NEW w \in Workers, ClearPending(w) PROVE Counted'
  <2>0. /\ w \in Threads /\ Local(w)
        /\ \A u \in Threads \ {w} : pc'[u] = pc[u]
        /\ UNCHANGED <<isSleeping, mayBeSleeping, sleeping>>
    BY <1>25, <1>a, <1>b, <1>d DEF ClearPending
  <2>1. {pc[w], pc'[w]} \cap ({"countMayBe", "uncount"} \cup Asleep) = {}
    BY <1>25, <2>0, <1>a DEF ClearPending, Asleep, Calls
  <2>2. \A u \in Workers : MayBe(u)' <=> MayBe(u)
    BY <2>0, <2>1, <1>b DEF MayBe
  <2>3. \A u \in Workers : InSleep(u)' <=> InSleep(u)
    BY <2>0, <2>1, <1>b DEF InSleep
  <2>4. \A p \in Pools : pending'[p] <= threadCount(p)
    <3>1. pending' = [pending EXCEPT ![PoolOf(w)] = 0]
      BY <1>25 DEF ClearPending
    <3> QED BY <3>1, <1>a, <1>b, <1>c
  <2> QED BY <2>0, <2>2, <2>3, <2>4, <1>h
<1>26. ASSUME NEW w \in Workers, ProcessPending(w) PROVE Counted'
  <2>0. /\ w \in Threads /\ Local(w)
        /\ \A u \in Threads \ {w} : pc'[u] = pc[u]
        /\ UNCHANGED <<isSleeping, mayBeSleeping, sleeping>>
    BY <1>26, <1>a, <1>b, <1>d DEF ProcessPending
  <2>1. {pc[w], pc'[w]} \cap ({"countMayBe", "uncount"} \cup Asleep) = {}
    BY <1>26, <2>0, <1>a DEF ProcessPending, Asleep, Calls
  <2>2. \A u \in Workers : MayBe(u)' <=> MayBe(u)
    BY <2>0, <2>1, <1>b DEF MayBe
  <2>3. \A u \in Workers : InSleep(u)' <=> InSleep(u)
    BY <2>0, <2>1, <1>b DEF InSleep
  <2>4. \A p \in Pools : pending'[p] <= threadCount(p)
    <3>1. pending' = pending \/ pending' = [pending EXCEPT ![PoolOf(w)] = @ - 1]
      BY <1>26 DEF ProcessPending
    <3> QED BY <3>1, <1>a, <1>b, <1>c
  <2> QED BY <2>0, <2>2, <2>3, <2>4, <1>h
<1>27. ASSUME NEW w \in Workers, Wait(w) PROVE Counted'
  <2>0. w \in Threads /\ Local(w) /\ \A u \in Threads \ {w} : pc'[u] = pc[u]
    BY <1>27, <1>a, <1>b, <1>d DEF Wait
  <2>1. \A u \in Workers : MayBe(u)' <=> MayBe(u)
    BY <1>27, <2>0, <1>a, <1>b DEF Wait, MayBe, Local, WorkerPlaced, Asleep
  <2>2. \A u \in Workers : InSleep(u)' <=> InSleep(u)
    BY <1>27, <2>0, <1>a, <1>b DEF Wait, InSleep, Asleep
  <2>3. UNCHANGED counts
    BY <1>27 DEF Wait
  <2> QED BY <2>1, <2>2, <2>3, <1>c, <1>h DEF counts
<1>28. ASSUME NEW w \in Workers, LockWait(w) PROVE Counted'
  <2>0. w \in Threads /\ Local(w) /\ \A u \in Threads \ {w} : pc'[u] = pc[u]
    BY <1>28, <1>a, <1>b, <1>d DEF LockWait
  <2>1. \A u \in Workers : MayBe(u)' <=> MayBe(u)
    BY <1>28, <2>0, <1>a, <1>b DEF LockWait, MayBe, Local, WorkerPlaced, Asleep
  <2>2. \A u \in Workers : InSleep(u)' <=> InSleep(u)
    BY <1>28, <2>0, <1>a, <1>b DEF LockWait, InSleep, Asleep
  <2>3. UNCHANGED counts
    BY <1>28 DEF LockWait
  <2> QED BY <2>1, <2>2, <2>3, <1>c, <1>h DEF counts
<1>29. ASSUME NEW w \in Workers, CheckSet(w) PROVE Counted'
  <2>0. w \in Threads /\ Local(w) /\ \A u \in Threads \ {w} : pc'[u] = pc[u]
    BY <1>29, <1>a, <1>b, <1>d DEF CheckSet
  <2>1. \A u \in Workers : MayBe(u)' <=> MayBe(u)
    BY <1>29, <2>0, <1>a, <1>b DEF CheckSet, MayBe, Local, WorkerPlaced, Asleep
  <2>2. \A u \in Workers : InSleep(u)' <=> InSleep(u)
    BY <1>29, <2>0, <1>a, <1>b DEF CheckSet, InSleep, Asleep
  <2>3. UNCHANGED counts
    BY <1>29 DEF CheckSet
  <2> QED BY <2>1, <2>2, <2>3, <1>c, <1>h DEF counts
<1>30. ASSUME NEW w \in Workers, Finish(w) PROVE Counted'
  <2>1. /\ UNCHANGED <<counts, isSleeping>> /\ w \in Threads /\ Local(w)
        /\ \A u \in Threads \ {w} : pc'[u] = pc[u]
    BY <1>30, <1>a, <1>b, <1>d DEF Finish
  <2>2. {pc[w], pc'[w]} \cap ({"countMayBe", "uncount"} \cup Asleep) = {}
    BY <1>30, <2>1, <1>a DEF Finish, Asleep
  <2> QED BY <2>1, <2>2, <1>i
<1>31. ASSUME NEW w \in Workers, NEW p \in Pools, Hop(w, p) PROVE Counted'
  <2>1. /\ UNCHANGED <<counts, isSleeping>> /\ w \in Threads /\ Local(w)
        /\ \A u \in Threads \ {w} : pc'[u] = pc[u]
    BY <1>31, <1>a, <1>b, <1>d DEF Hop, CallSchedule
  <2>2. {pc[w], pc'[w]} \cap ({"countMayBe", "uncount"} \cup Asleep) = {}
    BY <1>31, <2>1, <1>a DEF Hop, Asleep, CallSchedule
  <2> QED BY <2>1, <2>2, <1>i
<1>32. ASSUME NEW t \in Threads, NEW c \in Coroutines, NEW p \in Pools, Start(t, c, p) PROVE Counted'
  <2>1. /\ UNCHANGED <<counts, isSleeping>> /\ t \in Threads /\ Local(t)
        /\ \A u \in Threads \ {t} : pc'[u] = pc[u]
    BY <1>32, <1>a, <1>b, <1>d DEF Start, CallSchedule
  <2>2. {pc[t], pc'[t]} \cap ({"countMayBe", "uncount"} \cup Asleep) = {}
    BY <1>32, <2>1, <1>a DEF Start, Asleep, CallSchedule
  <2> QED BY <2>1, <2>2, <1>i
<1>33. ASSUME NEW t \in Clients, WakeAll(t) PROVE Counted'
  <2>1. /\ UNCHANGED <<counts, isSleeping>> /\ t \in Threads /\ Local(t)
        /\ \A u \in Threads \ {t} : pc'[u] = pc[u]
    BY <1>33, <1>a, <1>b, <1>d DEF WakeAll
  <2>2. {pc[t], pc'[t]} \cap ({"countMayBe", "uncount"} \cup Asleep) = {}
    BY <1>33, <2>1, <1>a DEF WakeAll, Asleep
  <2> QED BY <2>1, <2>2, <1>i
<1>34. ASSUME NEW t \in Clients, Join(t) PROVE Counted'
  <2>1. /\ UNCHANGED <<counts, isSleeping>> /\ t \in Threads /\ Local(t)
        /\ \A u \in Threads \ {t} : pc'[u] = pc[u]
    BY <1>34, <1>a, <1>b, <1>d DEF Join
  <2>2. {pc[t], pc'[t]} \cap ({"countMayBe", "uncount"} \cup Asleep) = {}
    BY <1>34, <2>1, <1>a DEF Join, Asleep
  <2> QED BY <2>1, <2>2, <1>i
<1>35. ASSUME NEW t \in Clients, LookAsleep(t) PROVE Counted'
  <2>1. /\ UNCHANGED <<counts, isSleeping>> /\ t \in Threads /\ Local(t)
        /\ \A u \in Threads \ {t} : pc'[u] = pc[u]
    BY <1>35, <1>a, <1>b, <1>d DEF LookAsleep
  <2>2. {pc[t], pc'[t]} \cap ({"countMayBe", "uncount"} \cup Asleep) = {}
    BY <1>35, <2>1, <1>a DEF LookAsleep, Asleep
  <2> QED BY <2>1, <2>2, <1>i
<1>36. ASSUME NEW t \in Clients, LookWork(t) PROVE Counted'
  <2>1. /\ UNCHANGED <<counts, isSleeping>> /\ t \in Threads /\ Local(t)
        /\ \A u \in Threads \ {t} : pc'[u] = pc[u]
    BY <1>36, <1>a, <1>b, <1>d DEF LookWork
  <2>2. {pc[t], pc'[t]} \cap ({"countMayBe", "uncount"} \cup Asleep) = {}
    BY <1>36, <2>1, <1>a DEF LookWork, Asleep
  <2> QED BY <2>1, <2>2, <1>i
<1>37. ASSUME NEW t \in Clients, Shutdown(t) PROVE Counted'
  <2>1. /\ UNCHANGED <<counts, isSleeping>> /\ t \in Threads /\ Local(t)
        /\ \A u \in Threads \ {t} : pc'[u] = pc[u]
    BY <1>37, <1>a, <1>b, <1>d DEF Shutdown
  <2>2. {pc[t], pc'[t]} \cap ({"countMayBe", "uncount"} \cup Asleep) = {}
    BY <1>37, <2>1, <1>a DEF Shutdown, Asleep
  <2> QED BY <2>1, <2>2, <1>i
<1>38. ASSUME NEW t \in Clients, WaitForIdle(t) PROVE Counted'
  <2>1. /\ UNCHANGED <<counts, isSleeping>> /\ t \in Threads /\ Local(t)
        /\ \A u \in Threads \ {t} : pc'[u] = pc[u]
    BY <1>38, <1>a, <1>b, <1>d DEF WaitForIdle
  <2>2. {pc[t], pc'[t]} \cap ({"countMayBe", "uncount"} \cup Asleep) = {}
    BY <1>38, <2>1, <1>a DEF WaitForIdle, Asleep
  <2> QED BY <2>1, <2>2, <1>i
<1> QED
  BY <1>0, <1>1, <1>2, <1>3, <1>4, <1>5, <1>6, <1>7, <1>8, <1>9, <1>10, <1>11, <1>12, <1>13,
     <1>14, <1>15, <1>16, <1>17, <1>18, <1>19, <1>20, <1>21, <1>22, <1>23, <1>24, <1>25,
     <1>26, <1>27, <1>28, <1>29, <1>30, <1>31, <1>32, <1>33, <1>34, <1>35, <1>36, <1>37,
     <1>38, ThreadFacts
     DEF Next, WakeStep, WorkerStep, Body, ClientStep

-----------------------------------------------------------------------------
(* Where the coroutines are *)

\* The first coroutine of a queue leaves it.
LEMMA HeadLeaves ==
    ASSUME Typed, OnceQueued, NEW x \in Pools \cup Workers, Queue(x) # <<>>,
           \A y \in Pools \cup Workers : Queue(y)' = IF y = x THEN Tail(Queue(x)) ELSE Queue(y)
    PROVE  /\ OnceQueued'
           /\ \A c \in Coroutines : InQueue(c)' <=> InQueue(c) /\ c # Head(Queue(x))
           /\ InQueue(Head(Queue(x))) /\ Head(Queue(x)) \in Coroutines
<1> DEFINE q == Queue(x)
<1>1. /\ q \in Seq(Coroutines) /\ q # <<>> /\ Len(q) \in Nat /\ Len(q) >= 1
      /\ Len(Tail(q)) = Len(q) - 1 /\ Head(q) = q[1] /\ Head(q) \in Coroutines
      /\ \A i \in 1 .. Len(Tail(q)) : Tail(q)[i] = q[i + 1] /\ i + 1 \in 1 .. Len(q)
  BY QueueType
<1>2. \A y \in Pools \cup Workers : Queue(y) \in Seq(Coroutines) /\ Len(Queue(y)) \in Nat
  BY QueueType
<1>3. Queue(x)' = Tail(q) /\ \A y \in Pools \cup Workers : y # x => Queue(y)' = Queue(y)
  OBVIOUS
<1>4. OnceQueued'
  <2> SUFFICES ASSUME NEW y \in Pools \cup Workers, NEW z \in Pools \cup Workers,
                      NEW i \in 1 .. Len(Queue(y)'), NEW j \in 1 .. Len(Queue(z)'),
                      Queue(y)'[i] = Queue(z)'[j]
               PROVE  y = z /\ i = j
    BY DEF OnceQueued
  <2>1. PICK k \in 1 .. Len(Queue(y)) : /\ Queue(y)'[i] = Queue(y)[k]
                                        /\ k = IF y = x THEN i + 1 ELSE i
    <3>1. CASE y = x
      BY <3>1, <1>1, <1>3
    <3>2. CASE y # x
      BY <3>2, <1>3
    <3> QED BY <3>1, <3>2
  <2>2. PICK l \in 1 .. Len(Queue(z)) : /\ Queue(z)'[j] = Queue(z)[l]
                                        /\ l = IF z = x THEN j + 1 ELSE j
    <3>1. CASE z = x
      BY <3>1, <1>1, <1>3
    <3>2. CASE z # x
      BY <3>2, <1>3
    <3> QED BY <3>1, <3>2
  <2>3. y = z /\ k = l
    <3>1. Queue(y)[k] = Queue(z)[l]
      BY <2>1, <2>2
    <3> QED BY <3>1 DEF OnceQueued
  <2>4. i \in Int /\ j \in Int
    OBVIOUS
  <2> QED BY <2>1, <2>2, <2>3, <2>4
<1>5. InQueue(Head(q))
  BY <1>1 DEF InQueue
<1>6. ASSUME NEW c \in Coroutines, InQueue(c)' PROVE InQueue(c) /\ c # Head(q)
  <2>1. PICK y \in Pools \cup Workers : \E i \in 1 .. Len(Queue(y)') : Queue(y)'[i] = c
    BY <1>6 DEF InQueue
  <2>2. PICK i \in 1 .. Len(Queue(y)') : Queue(y)'[i] = c
    BY <2>1
  <2>3. CASE y = x
    <3>1. /\ i + 1 \in 1 .. Len(q) /\ q[i + 1] = c
      BY <2>2, <2>3, <1>1, <1>3
    <3>2. i + 1 # 1 /\ 1 \in 1 .. Len(q)
      BY <1>1
    <3>3. q[1] # q[i + 1]
      BY <3>1, <3>2 DEF OnceQueued
    <3> QED BY <3>1, <3>3, <1>1 DEF InQueue
  <2>4. CASE y # x
    <3>1. i \in 1 .. Len(Queue(y)) /\ Queue(y)[i] = c
      BY <2>2, <2>4, <1>3
    <3>2. 1 \in 1 .. Len(q)
      BY <1>1
    <3>3. q[1] # c
      BY <3>1, <3>2, <2>4 DEF OnceQueued
    <3> QED BY <3>1, <3>3, <1>1 DEF InQueue
  <2> QED BY <2>3, <2>4
<1>7. ASSUME NEW c \in Coroutines, InQueue(c), c # Head(q) PROVE InQueue(c)'
  <2>1. PICK y \in Pools \cup Workers : \E i \in 1 .. Len(Queue(y)) : Queue(y)[i] = c
    BY <1>7 DEF InQueue
  <2>2. PICK i \in 1 .. Len(Queue(y)) : Queue(y)[i] = c
    BY <2>1
  <2>3. CASE y = x
    <3>1. i # 1 /\ i \in Nat
      BY <2>2, <2>3, <1>7, <1>1
    <3>2. i - 1 \in 1 .. Len(Tail(q))
      BY <3>1, <2>2, <2>3, <1>1
    <3>3. Tail(q)[i - 1] = c
      <4>1. Tail(q)[i - 1] = q[(i - 1) + 1] /\ (i - 1) + 1 = i
        BY <3>1, <3>2, <1>1
      <4> QED BY <4>1, <2>2, <2>3
    <3> QED BY <3>2, <3>3, <1>3 DEF InQueue
  <2>4. CASE y # x
    BY <2>2, <2>4, <1>3 DEF InQueue
  <2> QED BY <2>3, <2>4
<1> QED BY <1>1, <1>4, <1>5, <1>6, <1>7

\* A coroutine that is in no queue comes to the end of one.
LEMMA LastComes ==
    ASSUME Typed, OnceQueued, NEW x \in Pools \cup Workers, NEW c \in Coroutines, ~InQueue(c),
           \A y \in Pools \cup Workers : Queue(y)' = IF y = x THEN Append(Queue(x), c) ELSE Queue(y)
    PROVE  /\ OnceQueued'
           /\ \A d \in Coroutines : InQueue(d)' <=> InQueue(d) \/ d = c
<1> DEFINE q == Queue(x)
           n == Len(q) + 1
<1>1. /\ q \in Seq(Coroutines) /\ Len(q) \in Nat /\ Len(Append(q, c)) = n /\ Append(q, c)[n] = c
      /\ \A i \in 1 .. Len(q) : Append(q, c)[i] = q[i] /\ i \in 1 .. n /\ i # n
      /\ n \in 1 .. n /\ \A i \in 1 .. n : i = n \/ i \in 1 .. Len(q)
  BY QueueType
<1>2. Queue(x)' = Append(q, c) /\ \A y \in Pools \cup Workers : y # x => Queue(y)' = Queue(y)
  OBVIOUS
<1> HIDE DEF n
<1>3. ASSUME NEW y \in Pools \cup Workers, NEW i \in 1 .. Len(Queue(y)')
      PROVE  \/ y = x /\ i = n /\ Queue(y)'[i] = c
             \/ i \in 1 .. Len(Queue(y)) /\ Queue(y)'[i] = Queue(y)[i] /\ Queue(y)'[i] # c
  <2>1. CASE y = x /\ i = n
    BY <2>1, <1>1, <1>2
  <2>2. CASE ~(y = x /\ i = n)
    <3>1. i \in 1 .. Len(Queue(y)) /\ Queue(y)'[i] = Queue(y)[i]
      <4>1. CASE y = x
        BY <4>1, <2>2, <1>3, <1>1, <1>2
      <4>2. CASE y # x
        BY <4>2, <1>3, <1>2
      <4> QED BY <4>1, <4>2
    <3>2. Queue(y)[i] # c
      BY <3>1 DEF InQueue
    <3> QED BY <3>1, <3>2
  <2> QED BY <2>1, <2>2
<1>4. OnceQueued'
  <2> SUFFICES ASSUME NEW y \in Pools \cup Workers, NEW z \in Pools \cup Workers,
                      NEW i \in 1 .. Len(Queue(y)'), NEW j \in 1 .. Len(Queue(z)'),
                      Queue(y)'[i] = Queue(z)'[j]
               PROVE  y = z /\ i = j
    BY DEF OnceQueued
  <2> QED BY <1>3 DEF OnceQueued
<1>5. ASSUME NEW d \in Coroutines, InQueue(d)' PROVE InQueue(d) \/ d = c
  <2>1. PICK y \in Pools \cup Workers : \E i \in 1 .. Len(Queue(y)') : Queue(y)'[i] = d
    BY <1>5 DEF InQueue
  <2> QED BY <2>1, <1>3 DEF InQueue
<1>6. InQueue(c)'
  BY <1>1, <1>2 DEF InQueue
<1>7. ASSUME NEW d \in Coroutines, InQueue(d) PROVE InQueue(d)'
  <2>1. PICK y \in Pools \cup Workers : \E i \in 1 .. Len(Queue(y)) : Queue(y)[i] = d
    BY <1>7 DEF InQueue
  <2>2. PICK i \in 1 .. Len(Queue(y)) : Queue(y)[i] = d
    BY <2>1
  <2>3. i \in 1 .. Len(Queue(y)') /\ Queue(y)'[i] = d
    <3>1. CASE y = x
      BY <3>1, <2>2, <1>1, <1>2
    <3>2. CASE y # x
      BY <3>2, <2>2, <1>2
    <3> QED BY <3>1, <3>2
  <2> QED BY <2>3 DEF InQueue
<1> QED BY <1>4, <1>5, <1>6, <1>7

\* Nothing moves.
LEMMA PlacedStays ==
    ASSUME Placed, UNCHANGED <<globalQueue, localQueue, self, place>>,
           \A t \in Threads : call'[t].item = call[t].item
    PROVE  Placed'
<1>1. \A c \in Coroutines : /\ InQueue(c)' <=> InQueue(c)
                            /\ Runs(c)' <=> Runs(c)
                            /\ Carried(c)' <=> Carried(c)
  BY DEF InQueue, Runs, Carried, Queue
<1>2. OnceQueued'
  BY DEF Placed, OnceQueued, Queue
<1>3. OnceHeld'
  BY DEF Placed, OnceHeld
<1> QED BY <1>1, <1>2, <1>3 DEF Placed, Once

\* A thread takes a coroutine and leaves it, and so does a call.
LEMMA RunsBegins ==
    ASSUME self \in [Threads -> Coroutines \cup {NULL}], NEW t \in Threads, NEW c \in Coroutines,
           self[t] = NULL, self' = [self EXCEPT ![t] = c]
    PROVE  \A d \in Coroutines : Runs(d)' <=> Runs(d) \/ d = c
<1>0. NULL \notin Coroutines
  BY ThreadFacts
<1>1. ASSUME NEW d \in Coroutines, Runs(d)' PROVE Runs(d) \/ d = c
  BY <1>1 DEF Runs
<1>2. ASSUME NEW d \in Coroutines, Runs(d) \/ d = c PROVE Runs(d)'
  BY <1>0, <1>2 DEF Runs
<1> QED BY <1>1, <1>2

LEMMA RunsEnds ==
    ASSUME self \in [Threads -> Coroutines \cup {NULL}], NEW t \in Threads, NEW c \in Coroutines,
           self[t] = c, OnceHeld, self' = [self EXCEPT ![t] = NULL]
    PROVE  \A d \in Coroutines : Runs(d)' <=> Runs(d) /\ d # c
<1>0. NULL \notin Coroutines
  BY ThreadFacts
<1>1. ASSUME NEW d \in Coroutines, Runs(d)' PROVE Runs(d) /\ d # c
  BY <1>0, <1>1 DEF Runs, OnceHeld
<1>2. ASSUME NEW d \in Coroutines, Runs(d) /\ d # c PROVE Runs(d)'
  BY <1>2 DEF Runs
<1> QED BY <1>1, <1>2

LEMMA CarriedBegins ==
    ASSUME NEW t \in Threads, NEW c \in Coroutines, call[t].item = NULL, call'[t].item = c,
           \A u \in Threads \ {t} : call'[u].item = call[u].item
    PROVE  \A d \in Coroutines : Carried(d)' <=> Carried(d) \/ d = c
<1>0. NULL \notin Coroutines
  BY ThreadFacts
<1>1. ASSUME NEW d \in Coroutines, Carried(d)' PROVE Carried(d) \/ d = c
  BY <1>1 DEF Carried
<1>2. ASSUME NEW d \in Coroutines, Carried(d) \/ d = c PROVE Carried(d)'
  BY <1>0, <1>2 DEF Carried
<1> QED BY <1>1, <1>2

LEMMA CarriedEnds ==
    ASSUME NEW t \in Threads, NEW c \in Coroutines, call[t].item = c, call'[t].item = NULL, OnceHeld,
           \A u \in Threads \ {t} : call'[u].item = call[u].item
    PROVE  \A d \in Coroutines : Carried(d)' <=> Carried(d) /\ d # c
<1>0. NULL \notin Coroutines
  BY ThreadFacts
<1>1. ASSUME NEW d \in Coroutines, Carried(d)' PROVE Carried(d) /\ d # c
  BY <1>0, <1>1 DEF Carried, OnceHeld
<1>2. ASSUME NEW d \in Coroutines, Carried(d) /\ d # c PROVE Carried(d)'
  BY <1>2 DEF Carried
<1> QED BY <1>1, <1>2

\* A coroutine goes from one place to the next, and from none to one when it starts.
LEMMA PlacedStep == ASSUME Typed, Locals, Placed, [Next]_vars PROVE Placed'
<1>a. /\ pc \in [Threads -> Pcs] /\ call \in [Threads -> Calls]
      /\ self \in [Threads -> Coroutines \cup {NULL}]
      /\ place \in [Coroutines -> {"new", "live", "done"}]
  BY DEF Typed
<1>b. /\ \A w \in Workers : PoolOf(w) \in Pools /\ w \in Threads
      /\ \A t \in Clients : t \in Threads
      /\ NULL \notin Coroutines /\ NoCall.item = NULL
  BY ThreadFacts, NoCallType
<1>c. /\ \A t \in Threads : Local(t)
      /\ \A t \in Threads : pc[t] # "enqueue" => call[t].item = NULL
  BY DEF Locals, Local, Control
<1>d. ASSUME UNCHANGED <<globalQueue, localQueue, self, place, call>> PROVE Placed'
  BY <1>d, PlacedStays
<1>e. ASSUME UNCHANGED <<globalQueue, localQueue, self, place>>, NEW t \in Threads,
             \A u \in Threads \ {t} : call'[u] = call[u], call'[t].item = call[t].item
      PROVE  Placed'
  BY <1>e, PlacedStays
<1>f. ASSUME OnceQueued', OnceHeld',
             \A c \in Coroutines : Once(c)'
      PROVE  Placed'
  BY <1>f DEF Placed
<1>g. /\ OnceQueued /\ OnceHeld
      /\ \A c \in Coroutines : Once(c)
  BY DEF Placed
<1>h. ASSUME UNCHANGED <<globalQueue, localQueue>>
      PROVE  OnceQueued' /\ \A c \in Coroutines : InQueue(c)' <=> InQueue(c)
  BY <1>g, <1>h DEF OnceQueued, InQueue, Queue

<1> USE DEF queues, counts, events, coros, locals, Go, At, Goto, Return, GoOn
<1>0. CASE UNCHANGED vars
  BY <1>0, <1>d DEF vars
<1>1. ASSUME NEW t \in Threads, Enqueue(t) PROVE Placed'
  <2> DEFINE p == call[t].pool
             c == call[t].item
             x == IF t \in DefaultWorkers /\ p = "Default" THEN t ELSE p
  <2>1. /\ pc[t] = "enqueue" /\ SetQueue(x, Append(Queue(x), c)) /\ UNCHANGED <<self, place>>
        /\ call' = [call EXCEPT ![t].item = NULL]
    BY <1>1 DEF Enqueue
  <2>2. p \in Pools /\ c \in Coroutines
    BY <2>1, <1>c DEF Local, Control
  <2>3. x \in Pools \cup Workers
    BY <2>2, ThreadFacts
  <2>4. Carried(c) /\ ~InQueue(c)
    BY <2>2, <1>g DEF Carried, Once
  <2>5. /\ OnceQueued'
        /\ \A d \in Coroutines : InQueue(d)' <=> InQueue(d) \/ d = c
    <3> HIDE DEF x, p, c
    <3>1. Append(Queue(x), c) \in Seq(Coroutines)
      BY <2>2, <2>3, QueueType
    <3>2. \A y \in Pools \cup Workers : Queue(y)' = IF y = x THEN Append(Queue(x), c) ELSE Queue(y)
      BY <2>1, <3>1, <2>3, QueueSet
    <3> QED BY <3>2, <2>2, <2>3, <2>4, <1>g, LastComes
  <2>a. call[t].item = c
    OBVIOUS
  <2> HIDE DEF p, x, c
  <2>6. call'[t].item = NULL /\ \A u \in Threads \ {t} : call'[u].item = call[u].item
    BY <2>1, <1>a DEF Calls
  <2>7. OnceHeld'
    BY <2>1, <2>6, <2>a, <1>g DEF OnceHeld
  <2>8. /\ \A d \in Coroutines : Runs(d)' <=> Runs(d)
        /\ \A d \in Coroutines : Carried(d)' <=> Carried(d) /\ d # c
    <3>1. \A d \in Coroutines : Runs(d)' <=> Runs(d)
      BY <2>1 DEF Runs
    <3>2. \A d \in Coroutines : Carried(d)' <=> Carried(d) /\ d # c
      BY <1>1, <2>2, <2>6, <2>a, <1>g, CarriedEnds
    <3> QED BY <3>1, <3>2
  <2> HIDE DEF c
  <2>9. ASSUME NEW d \in Coroutines PROVE Once(d)'
    <3>1. Once(d) /\ place'[d] = place[d]
      BY <2>1, <2>2, <1>a, <1>g
    <3>2. /\ (InQueue(d)' <=> InQueue(d) \/ d = c)
          /\ (Runs(d)' <=> Runs(d))
          /\ (Carried(d)' <=> Carried(d) /\ d # c)
      BY <2>5, <2>8
    <3> QED BY <3>1, <3>2, <2>2, <2>4, <1>g DEF Once
  <2> QED BY <2>5, <2>7, <2>9, <1>f
<1>2. ASSUME NEW t \in Threads, Wake(t) PROVE Placed'
  <2>1. t \in Threads /\ UNCHANGED <<globalQueue, localQueue, self, place>>
    BY <1>2, <1>b DEF Wake
  <2>2. \A u \in Threads \ {t} : call'[u] = call[u]
    BY <1>2, <2>1, <1>a DEF Wake
  <2>3. call'[t].item = call[t].item
    BY <1>2, <2>1, <1>a, <1>b, <1>c DEF Wake, Calls
  <2> QED BY <2>1, <2>2, <2>3, <1>e
<1>3. ASSUME NEW t \in Threads, NextSleeper(t) PROVE Placed'
  <2>1. t \in Threads /\ UNCHANGED <<globalQueue, localQueue, self, place>>
    BY <1>3, <1>b DEF NextSleeper
  <2>2. \A u \in Threads \ {t} : call'[u] = call[u]
    BY <1>3, <2>1, <1>a DEF NextSleeper
  <2>3. call'[t].item = call[t].item
    BY <1>3, <2>1, <1>a, <1>b, <1>c DEF NextSleeper, Calls
  <2> QED BY <2>1, <2>2, <2>3, <1>e
<1>4. ASSUME NEW t \in Threads, TrySleeper(t) PROVE Placed'
  <2>1. t \in Threads /\ UNCHANGED <<globalQueue, localQueue, self, place>>
    BY <1>4, <1>b DEF TrySleeper
  <2>2. \A u \in Threads \ {t} : call'[u] = call[u]
    BY <1>4, <2>1, <1>a DEF TrySleeper
  <2>3. call'[t].item = call[t].item
    BY <1>4, <2>1, <1>a, <1>b, <1>c DEF TrySleeper, Calls
  <2> QED BY <2>1, <2>2, <2>3, <1>e
<1>5. ASSUME NEW t \in Threads, Set(t) PROVE Placed'
  <2>1. t \in Threads /\ UNCHANGED <<globalQueue, localQueue, self, place>>
    BY <1>5, <1>b DEF Set
  <2>2. \A u \in Threads \ {t} : call'[u] = call[u]
    BY <1>5, <2>1, <1>a DEF Set
  <2>3. call'[t].item = call[t].item
    BY <1>5, <2>1, <1>a, <1>b, <1>c DEF Set, Calls
  <2> QED BY <2>1, <2>2, <2>3, <1>e
<1>6. ASSUME NEW t \in Threads, LockSet(t) PROVE Placed'
  BY <1>6, <1>d DEF LockSet
<1>7. ASSUME NEW t \in Threads, TrySet(t) PROVE Placed'
  <2>1. t \in Threads /\ UNCHANGED <<globalQueue, localQueue, self, place>>
    BY <1>7, <1>b DEF TrySet
  <2>2. \A u \in Threads \ {t} : call'[u] = call[u]
    BY <1>7, <2>1, <1>a DEF TrySet
  <2>3. call'[t].item = call[t].item
    BY <1>7, <2>1, <1>a, <1>b, <1>c DEF TrySet, Calls
  <2> QED BY <2>1, <2>2, <2>3, <1>e
<1>8. ASSUME NEW t \in Threads, Store(t) PROVE Placed'
  BY <1>8, <1>d DEF Store
<1>9. ASSUME NEW t \in Threads, Notify(t) PROVE Placed'
  <2>1. t \in Threads /\ UNCHANGED <<globalQueue, localQueue, self, place>>
    BY <1>9, <1>b DEF Notify
  <2>2. \A u \in Threads \ {t} : call'[u] = call[u]
    BY <1>9, <2>1, <1>a DEF Notify
  <2>3. call'[t].item = call[t].item
    BY <1>9, <2>1, <1>a, <1>b, <1>c DEF Notify, Calls
  <2> QED BY <2>1, <2>2, <2>3, <1>e
<1>10. ASSUME NEW t \in Threads, NoneWoken(t) PROVE Placed'
  <2>1. t \in Threads /\ UNCHANGED <<globalQueue, localQueue, self, place>>
    BY <1>10, <1>b DEF NoneWoken
  <2>2. \A u \in Threads \ {t} : call'[u] = call[u]
    BY <1>10, <2>1, <1>a DEF NoneWoken
  <2>3. call'[t].item = call[t].item
    BY <1>10, <2>1, <1>a, <1>b, <1>c DEF NoneWoken, Calls
  <2> QED BY <2>1, <2>2, <2>3, <1>e
<1>11. ASSUME NEW t \in Threads, LeaveRequest(t) PROVE Placed'
  <2>1. t \in Threads /\ UNCHANGED <<globalQueue, localQueue, self, place>>
    BY <1>11, <1>b DEF LeaveRequest
  <2>2. \A u \in Threads \ {t} : call'[u] = call[u]
    BY <1>11, <2>1, <1>a DEF LeaveRequest
  <2>3. call'[t].item = call[t].item
    BY <1>11, <2>1, <1>a, <1>b, <1>c DEF LeaveRequest, Calls
  <2> QED BY <2>1, <2>2, <2>3, <1>e
<1>12. ASSUME NEW t \in Threads, AddRequest(t) PROVE Placed'
  <2>1. t \in Threads /\ UNCHANGED <<globalQueue, localQueue, self, place>>
    BY <1>12, <1>b DEF AddRequest
  <2>2. \A u \in Threads \ {t} : call'[u] = call[u]
    BY <1>12, <2>1, <1>a DEF AddRequest
  <2>3. call'[t].item = call[t].item
    BY <1>12, <2>1, <1>a, <1>b, <1>c DEF AddRequest, Calls
  <2> QED BY <2>1, <2>2, <2>3, <1>e
<1>13. ASSUME NEW w \in Workers, Top(w) PROVE Placed'
  BY <1>13, <1>d DEF Top
<1>14. ASSUME NEW w \in Workers, Search(w) PROVE Placed'
  <2>1. PICK x \in QueuesOf(PoolOf(w)) \ tried[w] : Search(w)!2!(x)
    BY <1>14 DEF Search
  <2>2. w \in Threads /\ UNCHANGED <<call, place>> /\ x \in Pools \cup Workers
    BY <1>14, <2>1, <1>b, CrewFacts DEF Search
  <2>3. CASE Queue(x) = <<>>
    BY <2>1, <2>2, <2>3, <1>d
  <2>4. CASE Queue(x) # <<>>
    <3> DEFINE c == Head(Queue(x))
    <3>1. SetQueue(x, Tail(Queue(x))) /\ self' = [self EXCEPT ![w] = c]
      BY <2>1, <2>4
    <3>2. self[w] = NULL
      <4>1. pc[w] \in Finding /\ w \notin Clients /\ Local(w)
        BY <1>14, <2>2, <1>c, ThreadFacts DEF Search, Finding
      <4> QED BY <4>1, <1>14 DEF Local, WorkerPlaced, Finding, Leaving, Waking
    <3>3. /\ OnceQueued' /\ InQueue(c) /\ c \in Coroutines
          /\ \A d \in Coroutines : InQueue(d)' <=> InQueue(d) /\ d # c
      <4>1. Tail(Queue(x)) \in Seq(Coroutines)
        BY <2>2, <2>4, QueueType
      <4>2. \A y \in Pools \cup Workers : Queue(y)' = IF y = x THEN Tail(Queue(x)) ELSE Queue(y)
        BY <3>1, <4>1, <2>2, QueueSet
      <4> QED BY <4>2, <2>2, <2>4, <1>g, HeadLeaves
    <3> HIDE DEF c
    <3>4. /\ \A d \in Coroutines : Runs(d)' <=> Runs(d) \/ d = c
          /\ \A d \in Coroutines : Carried(d)' <=> Carried(d)
      <4>1. \A d \in Coroutines : Carried(d)' <=> Carried(d)
        BY <2>2 DEF Carried
      <4> QED BY <3>1, <3>2, <3>3, <2>2, <4>1, <1>a, RunsBegins
    <3>5. ~Runs(c)
      BY <3>3, <1>g DEF Once
    <3>6. OnceHeld'
      BY <3>1, <3>3, <3>5, <2>2, <1>a, <1>g DEF OnceHeld, Runs
    <3>7. ASSUME NEW d \in Coroutines PROVE Once(d)'
      BY <2>2, <3>3, <3>4, <1>g DEF Once
    <3> QED BY <3>3, <3>6, <3>7, <1>f
  <2> QED BY <2>3, <2>4
<1>15. ASSUME NEW w \in Workers, CheckState(w) PROVE Placed'
  BY <1>15, <1>d DEF CheckState
<1>16. ASSUME NEW w \in Workers, CheckPending(w) PROVE Placed'
  BY <1>16, <1>d DEF CheckPending
<1>17. ASSUME NEW w \in Workers, MarkSleeping(w) PROVE Placed'
  BY <1>17, <1>d DEF MarkSleeping
<1>18. ASSUME NEW w \in Workers, CountMayBe(w) PROVE Placed'
  BY <1>18, <1>d DEF CountMayBe
<1>19. ASSUME NEW w \in Workers, CountAsleep(w) PROVE Placed'
  BY <1>19, <1>d DEF CountAsleep
<1>20. ASSUME NEW w \in Workers, CountAwake(w) PROVE Placed'
  BY <1>20, <1>d DEF CountAwake
<1>21. ASSUME NEW w \in Workers, Normal(w) PROVE Placed'
  BY <1>21, <1>d DEF Normal
<1>22. ASSUME NEW w \in Workers, Unmark(w) PROVE Placed'
  BY <1>22, <1>d DEF Unmark
<1>23. ASSUME NEW w \in Workers, Uncount(w) PROVE Placed'
  BY <1>23, <1>d DEF Uncount
<1>24. ASSUME NEW w \in Workers, CheckNone(w) PROVE Placed'
  BY <1>24, <1>d DEF CheckNone
<1>25. ASSUME NEW w \in Workers, ClearPending(w) PROVE Placed'
  BY <1>25, <1>d DEF ClearPending
<1>26. ASSUME NEW w \in Workers, ProcessPending(w) PROVE Placed'
  <2>1. w \in Threads /\ UNCHANGED <<globalQueue, localQueue, self, place>>
    BY <1>26, <1>b DEF ProcessPending
  <2>2. \A u \in Threads \ {w} : call'[u] = call[u]
    BY <1>26, <2>1, <1>a DEF ProcessPending
  <2>3. call'[w].item = call[w].item
    <3>1. call[w].item = NULL
      BY <1>26, <2>1, <1>c DEF ProcessPending
    <3>2. \/ call' = call
          \/ call' = [call EXCEPT ![w] = [NoCall EXCEPT !.pool = PoolOf(w), !.back = back[w]]]
      BY <1>26 DEF ProcessPending
    <3> QED BY <3>1, <3>2, <2>1, <1>a DEF NoCall
  <2> QED BY <2>1, <2>2, <2>3, <1>e
<1>27. ASSUME NEW w \in Workers, Wait(w) PROVE Placed'
  BY <1>27, <1>d DEF Wait
<1>28. ASSUME NEW w \in Workers, LockWait(w) PROVE Placed'
  BY <1>28, <1>d DEF LockWait
<1>29. ASSUME NEW w \in Workers, CheckSet(w) PROVE Placed'
  BY <1>29, <1>d DEF CheckSet
<1>30. ASSUME NEW w \in Workers, Finish(w) PROVE Placed'
  <2> DEFINE c == self[w]
  <2>1. /\ pc[w] = "run" /\ UNCHANGED <<globalQueue, localQueue, call>> /\ w \in Threads
        /\ self' = [self EXCEPT ![w] = NULL] /\ place' = [place EXCEPT ![c] = "done"]
    BY <1>30, <1>b DEF Finish
  <2>2. c \in Coroutines /\ Runs(c)
    BY <2>1, <1>a, <1>c, ThreadFacts DEF Local, WorkerPlaced, Runs
  <2>7. OnceHeld'
    BY <2>1, <1>a, <1>g DEF OnceHeld
  <2>a. self[w] = c
    OBVIOUS
  <2> HIDE DEF c
  <2>8. /\ \A d \in Coroutines : Runs(d)' <=> Runs(d) /\ d # c
        /\ \A d \in Coroutines : Carried(d)' <=> Carried(d)
    <3>1. \A d \in Coroutines : Carried(d)' <=> Carried(d)
      BY <2>1 DEF Carried
    <3>2. \A d \in Coroutines : Runs(d)' <=> Runs(d) /\ d # c
      BY <2>1, <2>2, <1>a, <2>a, <1>g, RunsEnds
    <3> QED BY <3>1, <3>2
  <2>6. \A d \in Coroutines : place'[d] = IF d = c THEN "done" ELSE place[d]
    BY <2>1, <2>2, <1>a
  <2>9. ASSUME NEW d \in Coroutines PROVE Once(d)'
    <3>1. Once(d) /\ (place'[d] = IF d = c THEN "done" ELSE place[d])
      BY <2>1, <2>2, <1>a, <1>g
    <3>2. /\ (InQueue(d)' <=> InQueue(d))
          /\ (Runs(d)' <=> Runs(d) /\ d # c)
          /\ (Carried(d)' <=> Carried(d))
      BY <2>1, <2>8, <1>h
    <3> QED BY <3>1, <3>2, <2>2, <2>6, <1>g DEF Once
  <2> QED BY <2>1, <2>7, <1>h, <2>9, <1>f
<1>31. ASSUME NEW w \in Workers, NEW p \in Pools, Hop(w, p) PROVE Placed'
  <2> DEFINE c == self[w]
  <2>1. /\ pc[w] = "run" /\ UNCHANGED <<globalQueue, localQueue, place>> /\ w \in Threads
        /\ self' = [self EXCEPT ![w] = NULL]
        /\ call' = [call EXCEPT ![w] = [NoCall EXCEPT !.pool = p, !.item = c, !.back = "top"]]
    BY <1>31, <1>b DEF Hop, CallSchedule
  <2>2. c \in Coroutines /\ Runs(c) /\ ~Carried(c)
    BY <2>1, <1>a, <1>c, <1>g, ThreadFacts DEF Local, WorkerPlaced, Runs, Once
  <2>3. call'[w].item = c /\ call[w].item = NULL /\ \A u \in Threads \ {w} : call'[u].item = call[u].item
    BY <2>1, <1>a, <1>c DEF NoCall
  <2>7. OnceHeld'
    BY <2>1, <2>2, <2>3, <1>a, <1>g DEF OnceHeld, Carried
  <2>a. self[w] = c
    OBVIOUS
  <2> HIDE DEF c
  <2>8. /\ \A d \in Coroutines : Runs(d)' <=> Runs(d) /\ d # c
        /\ \A d \in Coroutines : Carried(d)' <=> Carried(d) \/ d = c
    <3>1. \A d \in Coroutines : Carried(d)' <=> Carried(d) \/ d = c
      BY <2>2, <2>3, <2>1, CarriedBegins
    <3>2. \A d \in Coroutines : Runs(d)' <=> Runs(d) /\ d # c
      BY <2>1, <2>2, <1>a, <2>a, <1>g, RunsEnds
    <3> QED BY <3>1, <3>2
  <2>9. ASSUME NEW d \in Coroutines PROVE Once(d)'
    <3>1. Once(d) /\ place'[d] = place[d]
      BY <2>1, <2>2, <1>a, <1>g
    <3>2. /\ (InQueue(d)' <=> InQueue(d))
          /\ (Runs(d)' <=> Runs(d) /\ d # c)
          /\ (Carried(d)' <=> Carried(d) \/ d = c)
      BY <2>1, <2>8, <1>h
    <3> QED BY <3>1, <3>2, <2>2, <1>g DEF Once
  <2> QED BY <2>1, <2>7, <1>h, <2>9, <1>f
<1>32. ASSUME NEW t \in Threads, NEW c \in Coroutines, NEW p \in Pools, Start(t, c, p) PROVE Placed'
  <2>1. /\ place[c] = "new" /\ UNCHANGED <<globalQueue, localQueue, self>>
        /\ pc[t] \in {"run", "idle"}
        /\ place' = [place EXCEPT ![c] = "live"]
        /\ call' = [call EXCEPT ![t] = [NoCall EXCEPT !.pool = p, !.item = c, !.back = pc[t]]]
    BY <1>32 DEF Start, CallSchedule
  <2>2. ~InQueue(c) /\ ~Runs(c) /\ ~Carried(c)
    BY <2>1, <1>g DEF Once
  <2>3. call'[t].item = c /\ call[t].item = NULL /\ \A u \in Threads \ {t} : call'[u].item = call[u].item
    BY <2>1, <1>a, <1>c DEF NoCall
  <2>7. OnceHeld'
    BY <2>1, <2>2, <2>3, <1>a, <1>g DEF OnceHeld, Carried
  <2>8. /\ \A d \in Coroutines : Runs(d)' <=> Runs(d)
        /\ \A d \in Coroutines : Carried(d)' <=> Carried(d) \/ d = c
    <3>1. \A d \in Coroutines : Runs(d)' <=> Runs(d)
      BY <2>1 DEF Runs
    <3>2. \A d \in Coroutines : Carried(d)' <=> Carried(d) \/ d = c
      BY <1>32, <2>3, CarriedBegins
    <3> QED BY <3>1, <3>2
  <2>9. ASSUME NEW d \in Coroutines PROVE Once(d)'
    <3>1. Once(d) /\ (place'[d] = IF d = c THEN "live" ELSE place[d])
      BY <2>1, <2>2, <1>a, <1>g
    <3>2. /\ (InQueue(d)' <=> InQueue(d))
          /\ (Runs(d)' <=> Runs(d))
          /\ (Carried(d)' <=> Carried(d) \/ d = c)
      BY <2>1, <2>8, <1>h
    <3> QED BY <3>1, <3>2, <2>2, <1>g DEF Once
  <2> QED BY <2>1, <2>7, <1>h, <2>9, <1>f
<1>33. ASSUME NEW t \in Clients, WakeAll(t) PROVE Placed'
  <2>1. t \in Threads /\ UNCHANGED <<globalQueue, localQueue, self, place>> /\ call[t].item = NULL
    BY <1>33, <1>b, <1>c DEF WakeAll
  <2>2. PICK x \in WorkersOf(ShutPool) \ tried[t] : WakeAll(t)!2!(x)
    BY <1>33 DEF WakeAll
  <2>3. \/ call' = call
        \/ call' = [call EXCEPT ![t] = [NoCall EXCEPT !.sleeper = x, !.back = "wakeAll"]]
    BY <2>2
  <2>4. call'[t].item = NULL /\ \A u \in Threads \ {t} : call'[u] = call[u]
    BY <2>1, <2>3, <1>a DEF NoCall
  <2> QED BY <2>1, <2>4, <1>e
<1>34. ASSUME NEW t \in Clients, Join(t) PROVE Placed'
  BY <1>34, <1>d DEF Join
<1>35. ASSUME NEW t \in Clients, LookAsleep(t) PROVE Placed'
  BY <1>35, <1>d DEF LookAsleep
<1>36. ASSUME NEW t \in Clients, LookWork(t) PROVE Placed'
  BY <1>36, <1>d DEF LookWork
<1>37. ASSUME NEW t \in Clients, Shutdown(t) PROVE Placed'
  BY <1>37, <1>d DEF Shutdown
<1>38. ASSUME NEW t \in Clients, WaitForIdle(t) PROVE Placed'
  BY <1>38, <1>d DEF WaitForIdle
<1> QED
  BY <1>0, <1>1, <1>2, <1>3, <1>4, <1>5, <1>6, <1>7, <1>8, <1>9, <1>10, <1>11, <1>12, <1>13,
     <1>14, <1>15, <1>16, <1>17, <1>18, <1>19, <1>20, <1>21, <1>22, <1>23, <1>24, <1>25,
     <1>26, <1>27, <1>28, <1>29, <1>30, <1>31, <1>32, <1>33, <1>34, <1>35, <1>36, <1>37,
     <1>38, ThreadFacts
     DEF Next, WakeStep, WorkerStep, Body, ClientStep

-----------------------------------------------------------------------------
(* The invariant *)

\* Where the threads begin.
LEMMA Begins ==
    ASSUME Init
    PROVE  /\ session \in Sessions /\ session.crew \subseteq Workers /\ session.hops \in Nat
           /\ \A t \in Threads : pc[t] = IF t \in Clients THEN "idle"
                                         ELSE IF t \in session.crew THEN "top" ELSE "exited"
           /\ pc \in [Threads -> {"idle", "top", "exited"}]
<1>1. session \in Sessions /\ session.crew \subseteq Workers /\ session.hops \in Nat
  <2>1. session \in Sessions
    BY DEF Init
  <2> QED BY <2>1, SessionsAssumption
<1>2. pc = [t \in Threads |-> CASE t \in Clients -> "idle"
                                [] t \in session.crew -> "top"
                                [] OTHER -> "exited"]
  BY DEF Init
<1>3. \A t \in Clients : t \notin session.crew
  BY <1>1, ThreadFacts
<1>4. ASSUME NEW t \in Threads
      PROVE  pc[t] = IF t \in Clients THEN "idle" ELSE IF t \in session.crew THEN "top" ELSE "exited"
  BY <1>2, <1>3
<1>5. DOMAIN pc = Threads /\ pc = [t \in Threads |-> pc[t]]
  BY <1>2
<1>6. pc \in [Threads -> {"idle", "top", "exited"}]
  BY <1>4, <1>5
<1> QED BY <1>1, <1>4, <1>6

\* The invariant holds at the beginning.
LEMMA PoolInit == ASSUME Init PROVE PoolInv
<1>0. /\ session \in Sessions /\ session.crew \subseteq Workers /\ session.hops \in Nat
      /\ \A t \in Threads : pc[t] = IF t \in Clients THEN "idle"
                                    ELSE IF t \in session.crew THEN "top" ELSE "exited"
      /\ pc \in [Threads -> {"idle", "top", "exited"}]
  BY Begins
<1>1. Typed
  <2>1. pc \in [Threads -> Pcs]
    BY <1>0, PcFacts
  <2>2. call \in [Threads -> Calls]
    BY NoCallType DEF Init
  <2>4. globalQueue \in [Pools -> Seq(Coroutines)] /\ localQueue \in [Workers -> Seq(Coroutines)]
    BY DEF Init
  <2>5. /\ state \in [Pools -> {"Started", "ShuttingDown", "ShuttingDownImmediately", "Terminated"}]
        /\ mayBeSleeping \in [Pools -> Int]
        /\ sleeping \in [Pools -> Int]
        /\ pending \in [Pools -> Nat]
    BY DEF Init
  <2>6. /\ isSleeping \in [Workers -> BOOLEAN] /\ event \in [Workers -> {"Set", "NotSet", "None"}]
        /\ mutex \in [Workers -> Threads \cup {NULL}]
    BY DEF Init
  <2>7. /\ place \in [Coroutines -> {"new", "live", "done"}] /\ hops \in [Coroutines -> Nat]
        /\ cancelled \in [Coroutines -> BOOLEAN]
    BY <1>0 DEF Init
  <2>8. /\ back \in [Threads -> {"top", "search", "run"}]
        /\ self \in [Threads -> Coroutines \cup {NULL}]
        /\ tried \in [Threads -> SUBSET (Pools \cup Workers)]
    BY DEF Init
  <2> QED BY <1>0, <2>1, <2>2, <2>4, <2>5, <2>6, <2>7, <2>8 DEF Typed
<1>2. Locals
  <2> SUFFICES ASSUME NEW t \in Threads PROVE Local(t)
    BY DEF Locals
  <2>1. /\ call[t] = NoCall /\ back[t] = "top" /\ self[t] = NULL /\ tried[t] = {}
        /\ NoCall.item = NULL
        /\ pc[t] = IF t \in Clients THEN "idle" ELSE IF t \in session.crew THEN "top" ELSE "exited"
    BY <1>0 DEF Init, NoCall
  <2>2. Control(t)
    BY <2>1 DEF Control, Waking
  <2>3. t \in Clients => ClientPlaced(t)
    BY <2>1 DEF ClientPlaced
  <2>4. t \in Workers => WorkerPlaced(t)
    BY <2>1, ThreadFacts DEF WorkerPlaced, Waking, Leaving, Finding, Asleep, Looking
  <2> QED BY <2>2, <2>3, <2>4 DEF Local
<1>3. Counted
  <2> SUFFICES ASSUME NEW p \in Pools
               PROVE  /\ mayBeSleeping[p] = Cardinality(CountedMayBe(p))
                      /\ sleeping[p] = Cardinality(CountedAsleep(p))
                      /\ pending[p] <= threadCount(p)
    BY DEF Counted
  <2>1. \A w \in Workers : ~MayBe(w) /\ ~InSleep(w)
    BY <1>0, ThreadFacts DEF Init, MayBe, InSleep, Asleep
  <2>2. CountedMayBe(p) = {} /\ CountedAsleep(p) = {}
    BY <2>1, CrewFacts DEF CountedMayBe, CountedAsleep
  <2>3. mayBeSleeping[p] = 0 /\ sleeping[p] = 0 /\ pending[p] = 0
    BY DEF Init
  <2> QED BY <2>2, <2>3, CrewFacts, FS_EmptySet
<1>4. Placed
  <2>1. \A x \in Pools \cup Workers : Queue(x) = <<>>
    BY ThreadFacts DEF Init, Queue
  <2>2. OnceQueued /\ \A c \in Coroutines : ~InQueue(c)
    BY <2>1 DEF OnceQueued, InQueue
  <2>3. \A t \in Threads : self[t] = NULL /\ call[t].item = NULL
    BY DEF Init, NoCall
  <2>4. OnceHeld /\ \A c \in Coroutines : ~Runs(c) /\ ~Carried(c)
    BY <2>3, ThreadFacts DEF OnceHeld, Runs, Carried
  <2>5. \A c \in Coroutines : place[c] # "live"
    BY DEF Init
  <2> QED BY <2>2, <2>4, <2>5 DEF Placed, Once
<1> QED BY <1>1, <1>2, <1>3, <1>4 DEF PoolInv

\* Every step keeps the invariant.
LEMMA PoolStep == ASSUME PoolInv, [Next]_vars PROVE PoolInv'
BY TypedStep, LocalsStep, CountedStep, PlacedStep DEF PoolInv

\* PoolInv is an inductive invariant: it holds initially, and every step keeps it.
THEOREM PoolInvariant == Spec => []PoolInv
<1>1. Init => PoolInv
  BY PoolInit
<1>2. PoolInv /\ [Next]_vars => PoolInv'
  BY PoolStep
<1> QED BY <1>1, <1>2, PTL DEF Spec

\* The counters are natural numbers, and not above the number of threads.
LEMMA PoolTypes == ASSUME PoolInv PROVE TypeOK
<1>1. Typed /\ Counted
  BY DEF PoolInv
<1>2. \A p \in Pools : /\ mayBeSleeping[p] \in Nat /\ sleeping[p] \in Nat
                       /\ mayBeSleeping[p] <= threadCount(p) /\ sleeping[p] <= threadCount(p)
                       /\ pending[p] <= threadCount(p)
  <2> SUFFICES ASSUME NEW p \in Pools
               PROVE  /\ mayBeSleeping[p] \in Nat /\ sleeping[p] \in Nat
                      /\ mayBeSleeping[p] <= threadCount(p) /\ sleeping[p] <= threadCount(p)
                      /\ pending[p] <= threadCount(p)
    OBVIOUS
  <2>1. CountedMayBe(p) \in SUBSET WorkersOf(p) /\ CountedAsleep(p) \in SUBSET WorkersOf(p)
    BY DEF CountedMayBe, CountedAsleep
  <2>2. IsFiniteSet(CountedMayBe(p)) /\ IsFiniteSet(CountedAsleep(p))
    BY <2>1, CrewFacts, FS_Subset
  <2>3. Cardinality(CountedMayBe(p)) \in Nat /\ Cardinality(CountedAsleep(p)) \in Nat
    BY <2>2, FS_CardinalityType
  <2> QED BY <1>1, <2>3, CountedBound DEF Counted
<1>3. /\ mayBeSleeping \in [Pools -> Nat] /\ sleeping \in [Pools -> Nat]
  BY <1>1, <1>2 DEF Typed
<1> QED BY <1>1, <1>2, <1>3 DEF TypeOK, Typed, Calls

\* The places of a coroutine, one by one.
LEMMA PlaceCases ==
    ASSUME NEW c \in Coroutines, NEW p
    PROVE  p \in PlacesOf(c) <=>
              \/ \E x \in Pools \cup Workers : \E i \in 1 .. Len(Queue(x)) :
                     Queue(x)[i] = c /\ p = <<"queue", x, i>>
              \/ \E t \in Threads : self[t] = c /\ p = <<"self", t>>
              \/ \E t \in Threads : call[t].item = c /\ p = <<"item", t>>
<1>1. p \in Queued(c) <=> \E x \in Pools \cup Workers : p \in PlacesIn(x, c)
  BY DEF Queued
<1>2. \A x : p \in PlacesIn(x, c) <=> \E i \in 1 .. Len(Queue(x)) :
                                         Queue(x)[i] = c /\ p = <<"queue", x, i>>
  BY DEF PlacesIn
<1>3. \/ p \notin PlacesOf(c)
      \/ p \in Queued(c)
      \/ \E t \in Threads : self[t] = c /\ p = <<"self", t>>
      \/ \E t \in Threads : call[t].item = c /\ p = <<"item", t>>
  BY DEF PlacesOf
<1>4. ASSUME \/ p \in Queued(c)
             \/ \E t \in Threads : self[t] = c /\ p = <<"self", t>>
             \/ \E t \in Threads : call[t].item = c /\ p = <<"item", t>>
      PROVE  p \in PlacesOf(c)
  BY <1>4 DEF PlacesOf
<1> QED BY <1>1, <1>2, <1>3, <1>4

\* What is in the queues, run and carried is in one place, if it is live.
LEMMA PoolPlaces == ASSUME PoolInv PROVE OnePlace
<1> SUFFICES ASSUME NEW c \in Coroutines
             PROVE  IF place[c] = "live" THEN \E p \in PlacesOf(c) : PlacesOf(c) = {p}
                                         ELSE PlacesOf(c) = {}
  BY DEF OnePlace
<1>0. OnceQueued /\ OnceHeld /\ Once(c) /\ c # NULL
  BY ThreadFacts DEF PoolInv, Placed
<1>1. CASE place[c] # "live"
  <2>1. ~InQueue(c) /\ ~Runs(c) /\ ~Carried(c)
    BY <1>0, <1>1 DEF Once
  <2>2. \A p : p \notin PlacesOf(c)
    BY <2>1, PlaceCases DEF InQueue, Runs, Carried
  <2> QED BY <1>1, <2>2
<1>2. CASE place[c] = "live"
  <2>1. \E p \in PlacesOf(c) : \A r \in PlacesOf(c) : r = p
    <3>1. CASE InQueue(c)
      <4>1. PICK x \in Pools \cup Workers : \E i \in 1 .. Len(Queue(x)) : Queue(x)[i] = c
        BY <3>1 DEF InQueue
      <4>2. PICK i \in 1 .. Len(Queue(x)) : Queue(x)[i] = c
        BY <4>1
      <4>3. <<"queue", x, i>> \in PlacesOf(c)
        BY <4>2, PlaceCases
      <4>4. ~Runs(c) /\ ~Carried(c)
        BY <3>1, <1>0 DEF Once
      <4>5. ASSUME NEW r \in PlacesOf(c) PROVE r = <<"queue", x, i>>
        <5>1. PICK y \in Pools \cup Workers : \E j \in 1 .. Len(Queue(y)) :
                   Queue(y)[j] = c /\ r = <<"queue", y, j>>
          BY <4>4, PlaceCases DEF Runs, Carried
        <5>2. PICK j \in 1 .. Len(Queue(y)) : Queue(y)[j] = c /\ r = <<"queue", y, j>>
          BY <5>1
        <5>3. Queue(y)[j] = Queue(x)[i]
          BY <4>2, <5>2
        <5>4. y = x /\ j = i
          BY <5>3, <1>0 DEF OnceQueued
        <5> QED BY <5>2, <5>4
      <4> QED BY <4>3, <4>5
    <3>2. CASE Runs(c)
      <4>1. PICK t \in Threads : self[t] = c
        BY <3>2 DEF Runs
      <4>2. <<"self", t>> \in PlacesOf(c)
        BY <4>1, PlaceCases
      <4>3. ~InQueue(c) /\ ~Carried(c)
        BY <3>2, <1>0 DEF Once
      <4>4. ASSUME NEW r \in PlacesOf(c) PROVE r = <<"self", t>>
        <5>1. PICK u \in Threads : self[u] = c /\ r = <<"self", u>>
          BY <4>3, PlaceCases DEF InQueue, Carried
        <5>2. u = t
          BY <4>1, <5>1, <1>0 DEF OnceHeld
        <5> QED BY <5>1, <5>2
      <4> QED BY <4>2, <4>4
    <3>3. CASE Carried(c)
      <4>1. PICK t \in Threads : call[t].item = c
        BY <3>3 DEF Carried
      <4>2. <<"item", t>> \in PlacesOf(c)
        BY <4>1, PlaceCases
      <4>3. ~InQueue(c) /\ ~Runs(c)
        BY <3>3, <1>0 DEF Once
      <4>4. ASSUME NEW r \in PlacesOf(c) PROVE r = <<"item", t>>
        <5>1. PICK u \in Threads : call[u].item = c /\ r = <<"item", u>>
          BY <4>3, PlaceCases DEF InQueue, Runs
        <5>2. u = t
          BY <4>1, <5>1, <1>0 DEF OnceHeld
        <5> QED BY <5>1, <5>2
      <4> QED BY <4>2, <4>4
    <3>4. InQueue(c) \/ Runs(c) \/ Carried(c)
      BY <1>0, <1>2 DEF Once
    <3> QED BY <3>1, <3>2, <3>3, <3>4
  <2>2. PICK p \in PlacesOf(c) : \A r \in PlacesOf(c) : r = p
    BY <2>1
  <2>3. PlacesOf(c) = {p}
    BY <2>2
  <2> QED BY <1>2, <2>3
<1> QED BY <1>1, <1>2

\* Types, the bounds that the assertions of the code demand of the counters, and the
\* one place of every coroutine: of m_threads a thread is counted at most once, and
\* no coroutine is lost between the queues, the workers and those who schedule it, or
\* resumed by two of them.
THEOREM PoolConsistent == Spec => []Consistent
<1>1. PoolInv => Consistent
  BY PoolTypes, PoolPlaces DEF Consistent
<1> QED BY <1>1, PoolInvariant, PTL

-----------------------------------------------------------------------------
(* Queues that are empty stay empty *)

\* A queue that is empty gets a coroutine from a thread that enqueues one.
Queues ==
    /\ \A w \in Workers : localQueue'[w] # localQueue[w] =>
           \/ localQueue[w] # <<>>
           \/ pc[w] = "enqueue" /\ pc'[w] = "wake" /\ w \in DefaultWorkers
    /\ \A p \in Pools : globalQueue'[p] # globalQueue[p] =>
           \/ globalQueue[p] # <<>>
           \/ \E t \in Threads : /\ pc[t] = "enqueue" /\ WorkersOf(p) # {}
                                 /\ t \in DefaultWorkers => p # "Default"

LEMMA QueueMoves == ASSUME PoolInv, [Next]_vars PROVE Queues
<1>a. Typed /\ Locals /\ pc \in [Threads -> Pcs]
  BY DEF PoolInv, Typed
<1>b. ASSUME UNCHANGED <<globalQueue, localQueue>>
      PROVE  /\ \A w \in Workers : localQueue'[w] = localQueue[w]
             /\ \A p \in Pools : globalQueue'[p] = globalQueue[p]
  BY <1>b
<1>c. ASSUME NEW x \in Pools \cup Workers, Queue(x) # <<>>, SetQueue(x, Tail(Queue(x)))
      PROVE  /\ \A w \in Workers : localQueue'[w] # localQueue[w] => localQueue[w] # <<>>
             /\ \A p \in Pools : globalQueue'[p] # globalQueue[p] => globalQueue[p] # <<>>
  <2>1. CASE x \in Pools
    BY <1>a, <1>c, <2>1 DEF SetQueue, Queue, Typed
  <2>2. CASE x \in Workers
    BY <1>a, <1>c, <2>2, ThreadFacts DEF SetQueue, Queue, Typed
  <2> QED BY <2>1, <2>2

<1> USE DEF queues, counts, events, coros, locals, Go, At, Goto, Return, GoOn
<1>0. CASE UNCHANGED vars
  BY <1>0, <1>b DEF vars, Queues
<1>1. ASSUME NEW t \in Threads, Enqueue(t) PROVE Queues
  <2>1. /\ pc[t] = "enqueue" /\ pc'[t] = "wake"
        /\ SetQueue(IF t \in DefaultWorkers /\ call[t].pool = "Default" THEN t ELSE call[t].pool,
                    Append(Queue(IF t \in DefaultWorkers /\ call[t].pool = "Default" THEN t
                                 ELSE call[t].pool), call[t].item))
    BY <1>1, <1>a DEF Enqueue
  <2>2. call[t].pool \in Pools /\ WorkersOf(call[t].pool) # {}
    BY <1>1, <2>1, <1>a DEF Locals, Local, Control
  <2>3. CASE t \in DefaultWorkers /\ call[t].pool = "Default"
    <3>1. t \notin Pools /\ t \in Workers
      BY <2>3, ThreadFacts
    <3>2. /\ globalQueue' = globalQueue
          /\ localQueue' = [localQueue EXCEPT ![t] = Append(Queue(t), call[t].item)]
      BY <2>1, <2>3, <3>1 DEF SetQueue
    <3>3. \A w \in Workers \ {t} : localQueue'[w] = localQueue[w]
      BY <3>1, <3>2, <1>a DEF Typed
    <3> QED BY <2>1, <2>3, <3>2, <3>3 DEF Queues
  <2>4. CASE ~(t \in DefaultWorkers /\ call[t].pool = "Default")
    BY <1>1, <2>1, <2>2, <2>4, <1>a, ThreadFacts DEF SetQueue, Queues, Typed
  <2> QED BY <2>3, <2>4
<1>2. ASSUME NEW t \in Threads, Wake(t) PROVE Queues
  BY <1>2, <1>b DEF Wake, Queues
<1>3. ASSUME NEW t \in Threads, NextSleeper(t) PROVE Queues
  BY <1>3, <1>b DEF NextSleeper, Queues
<1>4. ASSUME NEW t \in Threads, TrySleeper(t) PROVE Queues
  BY <1>4, <1>b DEF TrySleeper, Queues
<1>5. ASSUME NEW t \in Threads, Set(t) PROVE Queues
  BY <1>5, <1>b DEF Set, Queues
<1>6. ASSUME NEW t \in Threads, LockSet(t) PROVE Queues
  BY <1>6, <1>b DEF LockSet, Queues
<1>7. ASSUME NEW t \in Threads, TrySet(t) PROVE Queues
  BY <1>7, <1>b DEF TrySet, Queues
<1>8. ASSUME NEW t \in Threads, Store(t) PROVE Queues
  BY <1>8, <1>b DEF Store, Queues
<1>9. ASSUME NEW t \in Threads, Notify(t) PROVE Queues
  BY <1>9, <1>b DEF Notify, Queues
<1>10. ASSUME NEW t \in Threads, NoneWoken(t) PROVE Queues
  BY <1>10, <1>b DEF NoneWoken, Queues
<1>11. ASSUME NEW t \in Threads, LeaveRequest(t) PROVE Queues
  BY <1>11, <1>b DEF LeaveRequest, Queues
<1>12. ASSUME NEW t \in Threads, AddRequest(t) PROVE Queues
  BY <1>12, <1>b DEF AddRequest, Queues
<1>13. ASSUME NEW w \in Workers, Top(w) PROVE Queues
  BY <1>13, <1>b DEF Top, Queues
<1>14. ASSUME NEW w \in Workers, Search(w) PROVE Queues
  <2>1. PICK x \in QueuesOf(PoolOf(w)) \ tried[w] : Search(w)!2!(x)
    BY <1>14 DEF Search
  <2>2. x \in Pools \cup Workers
    BY <1>14, <2>1, CrewFacts, ThreadFacts
  <2>3. CASE Queue(x) = <<>>
    BY <2>1, <2>3, <1>b DEF Queues
  <2>4. CASE Queue(x) # <<>>
    BY <2>1, <2>2, <2>4, <1>c DEF Queues
  <2> QED BY <2>3, <2>4
<1>15. ASSUME NEW w \in Workers, CheckState(w) PROVE Queues
  BY <1>15, <1>b DEF CheckState, Queues
<1>16. ASSUME NEW w \in Workers, CheckPending(w) PROVE Queues
  BY <1>16, <1>b DEF CheckPending, Queues
<1>17. ASSUME NEW w \in Workers, MarkSleeping(w) PROVE Queues
  BY <1>17, <1>b DEF MarkSleeping, Queues
<1>18. ASSUME NEW w \in Workers, CountMayBe(w) PROVE Queues
  BY <1>18, <1>b DEF CountMayBe, Queues
<1>19. ASSUME NEW w \in Workers, CountAsleep(w) PROVE Queues
  BY <1>19, <1>b DEF CountAsleep, Queues
<1>20. ASSUME NEW w \in Workers, CountAwake(w) PROVE Queues
  BY <1>20, <1>b DEF CountAwake, Queues
<1>21. ASSUME NEW w \in Workers, Normal(w) PROVE Queues
  BY <1>21, <1>b DEF Normal, Queues
<1>22. ASSUME NEW w \in Workers, Unmark(w) PROVE Queues
  BY <1>22, <1>b DEF Unmark, Queues
<1>23. ASSUME NEW w \in Workers, Uncount(w) PROVE Queues
  BY <1>23, <1>b DEF Uncount, Queues
<1>24. ASSUME NEW w \in Workers, CheckNone(w) PROVE Queues
  BY <1>24, <1>b DEF CheckNone, Queues
<1>25. ASSUME NEW w \in Workers, ClearPending(w) PROVE Queues
  BY <1>25, <1>b DEF ClearPending, Queues
<1>26. ASSUME NEW w \in Workers, ProcessPending(w) PROVE Queues
  BY <1>26, <1>b DEF ProcessPending, Queues
<1>27. ASSUME NEW w \in Workers, Wait(w) PROVE Queues
  BY <1>27, <1>b DEF Wait, Queues
<1>28. ASSUME NEW w \in Workers, LockWait(w) PROVE Queues
  BY <1>28, <1>b DEF LockWait, Queues
<1>29. ASSUME NEW w \in Workers, CheckSet(w) PROVE Queues
  BY <1>29, <1>b DEF CheckSet, Queues
<1>30. ASSUME NEW w \in Workers, Finish(w) PROVE Queues
  BY <1>30, <1>b DEF Finish, Queues
<1>31. ASSUME NEW w \in Workers, NEW p \in Pools, Hop(w, p) PROVE Queues
  BY <1>31, <1>b DEF Hop, Queues
<1>32. ASSUME NEW t \in Threads, NEW c \in Coroutines, NEW p \in Pools, Start(t, c, p) PROVE Queues
  BY <1>32, <1>b DEF Start, Queues
<1>33. ASSUME NEW t \in Clients, WakeAll(t) PROVE Queues
  BY <1>33, <1>b DEF WakeAll, Queues
<1>34. ASSUME NEW t \in Clients, Join(t) PROVE Queues
  BY <1>34, <1>b DEF Join, Queues
<1>35. ASSUME NEW t \in Clients, LookAsleep(t) PROVE Queues
  BY <1>35, <1>b DEF LookAsleep, Queues
<1>36. ASSUME NEW t \in Clients, LookWork(t) PROVE Queues
  BY <1>36, <1>b DEF LookWork, Queues
<1>37. ASSUME NEW t \in Clients, Shutdown(t) PROVE Queues
  BY <1>37, <1>b DEF Shutdown, Queues
<1>38. ASSUME NEW t \in Clients, WaitForIdle(t) PROVE Queues
  BY <1>38, <1>b DEF WaitForIdle, Queues
<1> QED
  BY <1>0, <1>1, <1>2, <1>3, <1>4, <1>5, <1>6, <1>7, <1>8, <1>9, <1>10, <1>11, <1>12, <1>13,
     <1>14, <1>15, <1>16, <1>17, <1>18, <1>19, <1>20, <1>21, <1>22, <1>23, <1>24, <1>25,
     <1>26, <1>27, <1>28, <1>29, <1>30, <1>31, <1>32, <1>33, <1>34, <1>35, <1>36, <1>37,
     <1>38, ThreadFacts
     DEF Next, WakeStep, WorkerStep, Body, ClientStep

\* A worker begins to doze with an empty queue of its own, and ends from there, or
\* because it is told to at once.
Moves(v) == /\ Dozing(v)' /\ v \in DefaultWorkers => Dozing(v) \/ localQueue[v] = <<>>
            /\ pc[v] = "exited" => pc'[v] = "exited"
            /\ pc'[v] = "exited" => \/ pc[v] \in {"exited", "checkState"}
                                    \/ state[PoolOf(v)] = "ShuttingDownImmediately"

LEMMA WorkerMoves == ASSUME PoolInv, [Next]_vars, NEW v \in Workers PROVE Moves(v)
<1>a. /\ pc \in [Threads -> Pcs]
      /\ call \in [Threads -> Calls]
      /\ back \in [Threads -> {"top", "search", "run"}]
      /\ tried \in [Threads -> SUBSET (Pools \cup Workers)]
  BY DEF PoolInv, Typed
<1>b. /\ \A t \in Threads : Local(t)
      /\ v \in Threads /\ v \notin Clients /\ \A t \in Clients : t \notin Workers /\ t \in Threads
  BY ThreadFacts DEF PoolInv, Locals
<1>c. ASSUME pc'[v] = pc[v], tried'[v] = tried[v] PROVE Moves(v)
  BY <1>c DEF Moves, Dozing
<1>d. ASSUME NEW t \in Threads, \A u \in Threads \ {t} : pc'[u] = pc[u] /\ tried'[u] = tried[u],
             t = v => Moves(v)
      PROVE  Moves(v)
  BY <1>b, <1>c, <1>d
<1>e. pc[v] \notin Finding => tried[v] = {}
  BY <1>b DEF Local, WorkerPlaced
<1>f. ASSUME pc[v] \in Waking, pc'[v] \in Waking \cup {"top", "search", "run"}, tried'[v] = tried[v]
      PROVE  Moves(v)
  BY <1>e, <1>f DEF Moves, Dozing, Waking, Finding, Asleep

<1> USE DEF queues, counts, events, coros, locals, Go, At, Goto, Return, GoOn
<1>0. CASE UNCHANGED vars
  <2>1. pc' = pc /\ tried' = tried
    BY <1>0 DEF vars
  <2> QED BY <2>1, <1>c
<1>1. ASSUME NEW t \in Threads, Enqueue(t) PROVE Moves(v)
  <2>1. t \in Threads /\ \A u \in Threads \ {t} : pc'[u] = pc[u] /\ tried'[u] = tried[u]
    BY <1>1, <1>a DEF Enqueue
  <2>2. pc[t] \in Waking /\ tried'[t] = tried[t]
    BY <1>1 DEF Enqueue, Waking
  <2>3. t \in Workers => pc'[t] \in Waking \cup {"top", "search", "run"}
    BY <1>1, <1>a, <1>b DEF Enqueue, Waking
  <2> QED BY <2>1, <2>2, <2>3, <1>d, <1>f
<1>2. ASSUME NEW t \in Threads, Wake(t) PROVE Moves(v)
  <2>1. t \in Threads /\ \A u \in Threads \ {t} : pc'[u] = pc[u] /\ tried'[u] = tried[u]
    BY <1>2, <1>a DEF Wake
  <2>2. pc[t] \in Waking /\ tried'[t] = tried[t]
    BY <1>2 DEF Wake, Waking
  <2>3. t \in Workers => pc'[t] \in Waking \cup {"top", "search", "run"}
    BY <1>2, <1>a, <1>b DEF Wake, Waking
  <2> QED BY <2>1, <2>2, <2>3, <1>d, <1>f
<1>3. ASSUME NEW t \in Threads, NextSleeper(t) PROVE Moves(v)
  <2>1. t \in Threads /\ \A u \in Threads \ {t} : pc'[u] = pc[u] /\ tried'[u] = tried[u]
    BY <1>3, <1>a DEF NextSleeper
  <2>2. pc[t] \in Waking /\ tried'[t] = tried[t]
    BY <1>3 DEF NextSleeper, Waking
  <2>3. t \in Workers => pc'[t] \in Waking \cup {"top", "search", "run"}
    BY <1>3, <1>a, <1>b, <2>2 DEF NextSleeper, Waking, Local, Control
  <2> QED BY <2>1, <2>2, <2>3, <1>d, <1>f
<1>4. ASSUME NEW t \in Threads, TrySleeper(t) PROVE Moves(v)
  <2>1. t \in Threads /\ \A u \in Threads \ {t} : pc'[u] = pc[u] /\ tried'[u] = tried[u]
    BY <1>4, <1>a DEF TrySleeper
  <2>2. pc[t] \in Waking /\ tried'[t] = tried[t]
    BY <1>4 DEF TrySleeper, Waking
  <2>3. t \in Workers => pc'[t] \in Waking \cup {"top", "search", "run"}
    BY <1>4, <1>a, <1>b DEF TrySleeper, Waking
  <2> QED BY <2>1, <2>2, <2>3, <1>d, <1>f
<1>5. ASSUME NEW t \in Threads, Set(t) PROVE Moves(v)
  <2>1. t \in Threads /\ \A u \in Threads \ {t} : pc'[u] = pc[u] /\ tried'[u] = tried[u]
    BY <1>5, <1>a DEF Set
  <2>2. pc[t] \in Waking /\ tried'[t] = tried[t]
    BY <1>5 DEF Set, Waking
  <2>3. t \in Workers => pc'[t] \in Waking \cup {"top", "search", "run"}
    BY <1>5, <1>a, <1>b, <2>2 DEF Set, Waking, Local, Control
  <2> QED BY <2>1, <2>2, <2>3, <1>d, <1>f
<1>6. ASSUME NEW t \in Threads, LockSet(t) PROVE Moves(v)
  <2>1. t \in Threads /\ \A u \in Threads \ {t} : pc'[u] = pc[u] /\ tried'[u] = tried[u]
    BY <1>6, <1>a DEF LockSet
  <2>2. pc[t] \in Waking /\ tried'[t] = tried[t]
    BY <1>6 DEF LockSet, Waking
  <2>3. t \in Workers => pc'[t] \in Waking \cup {"top", "search", "run"}
    BY <1>6, <1>a, <1>b DEF LockSet, Waking
  <2> QED BY <2>1, <2>2, <2>3, <1>d, <1>f
<1>7. ASSUME NEW t \in Threads, TrySet(t) PROVE Moves(v)
  <2>1. t \in Threads /\ \A u \in Threads \ {t} : pc'[u] = pc[u] /\ tried'[u] = tried[u]
    BY <1>7, <1>a DEF TrySet
  <2>2. pc[t] \in Waking /\ tried'[t] = tried[t]
    BY <1>7 DEF TrySet, Waking
  <2>3. t \in Workers => pc'[t] \in Waking \cup {"top", "search", "run"}
    BY <1>7, <1>a, <1>b DEF TrySet, Waking
  <2> QED BY <2>1, <2>2, <2>3, <1>d, <1>f
<1>8. ASSUME NEW t \in Threads, Store(t) PROVE Moves(v)
  <2>1. t \in Threads /\ \A u \in Threads \ {t} : pc'[u] = pc[u] /\ tried'[u] = tried[u]
    BY <1>8, <1>a DEF Store
  <2>2. pc[t] \in Waking /\ tried'[t] = tried[t]
    BY <1>8 DEF Store, Waking
  <2>3. t \in Workers => pc'[t] \in Waking \cup {"top", "search", "run"}
    BY <1>8, <1>a, <1>b DEF Store, Waking
  <2> QED BY <2>1, <2>2, <2>3, <1>d, <1>f
<1>9. ASSUME NEW t \in Threads, Notify(t) PROVE Moves(v)
  <2>1. pc[t] = "notify" /\ tried' = tried /\ call[t].back = pc'[t]
    BY <1>9 DEF Notify
  <2>2. CASE t = v
    <3>1. call[t].back \in {"top", "search", "run"}
      BY <2>1, <2>2, <1>b DEF Local, Control, Waking
    <3> QED BY <2>1, <2>2, <3>1, <1>f DEF Waking
  <2>3. CASE t # v
    <3>1. pc'[v] = pc[v] \/ (pc[v] = "asleep" /\ pc'[v] = "lockWait")
      BY <1>9, <2>3, <1>b DEF Notify
    <3>2. CASE pc'[v] = pc[v]
      BY <2>1, <3>2, <1>c
    <3>3. CASE pc[v] = "asleep" /\ pc'[v] = "lockWait"
      BY <3>3 DEF Moves, Dozing, Asleep
    <3> QED BY <3>1, <3>2, <3>3
  <2> QED BY <2>2, <2>3
<1>10. ASSUME NEW t \in Threads, NoneWoken(t) PROVE Moves(v)
  <2>1. t \in Threads /\ \A u \in Threads \ {t} : pc'[u] = pc[u] /\ tried'[u] = tried[u]
    BY <1>10, <1>a DEF NoneWoken
  <2>2. pc[t] \in Waking /\ tried'[t] = tried[t]
    BY <1>10 DEF NoneWoken, Waking
  <2>3. t \in Workers => pc'[t] \in Waking \cup {"top", "search", "run"}
    BY <1>10, <1>a, <1>b, <2>2 DEF NoneWoken, Waking, Local, Control
  <2> QED BY <2>1, <2>2, <2>3, <1>d, <1>f
<1>11. ASSUME NEW t \in Threads, LeaveRequest(t) PROVE Moves(v)
  <2>1. t \in Threads /\ \A u \in Threads \ {t} : pc'[u] = pc[u] /\ tried'[u] = tried[u]
    BY <1>11, <1>a DEF LeaveRequest
  <2>2. pc[t] \in Waking /\ tried'[t] = tried[t]
    BY <1>11 DEF LeaveRequest, Waking
  <2>3. t \in Workers => pc'[t] \in Waking \cup {"top", "search", "run"}
    BY <1>11, <1>a, <1>b, <2>2 DEF LeaveRequest, Waking, Local, Control
  <2> QED BY <2>1, <2>2, <2>3, <1>d, <1>f
<1>12. ASSUME NEW t \in Threads, AddRequest(t) PROVE Moves(v)
  <2>1. t \in Threads /\ \A u \in Threads \ {t} : pc'[u] = pc[u] /\ tried'[u] = tried[u]
    BY <1>12, <1>a DEF AddRequest
  <2>2. pc[t] \in Waking /\ tried'[t] = tried[t]
    BY <1>12 DEF AddRequest, Waking
  <2>3. t \in Workers => pc'[t] \in Waking \cup {"top", "search", "run"}
    BY <1>12, <1>a, <1>b, <2>2 DEF AddRequest, Waking, Local, Control
  <2> QED BY <2>1, <2>2, <2>3, <1>d, <1>f
<1>13. ASSUME NEW w \in Workers, Top(w) PROVE Moves(v)
  <2>1. w \in Threads /\ \A u \in Threads \ {w} : pc'[u] = pc[u] /\ tried'[u] = tried[u]
    BY <1>13, <1>a, ThreadFacts DEF Top
  <2>2. w = v => Moves(v)
    BY <1>13, <1>a, <1>b, <1>e DEF Top, Moves, Dozing, Finding, Asleep
  <2> QED BY <2>1, <2>2, <1>d
<1>14. ASSUME NEW w \in Workers, Search(w) PROVE Moves(v)
  <2>1. w \in Threads /\ \A u \in Threads \ {w} : pc'[u] = pc[u] /\ tried'[u] = tried[u]
    BY <1>14, <1>a, ThreadFacts DEF Search
  <2>2. ASSUME w = v PROVE Moves(v)
    <3>0. pc[v] \in Finding
      BY <1>14, <2>2 DEF Search, Finding
    <3>1. PICK x \in QueuesOf(PoolOf(v)) \ tried[v] : Search(v)!2!(x)
      BY <1>14, <2>2 DEF Search
    <3>2. CASE Queue(x) # <<>>
      <4>1. pc'[v] \in {"pendings", "normal"}
        BY <3>1, <3>2, <1>a, <1>b DEF Found
      <4> QED BY <3>0, <4>1 DEF Moves, Dozing, Finding, Asleep
    <3>3. CASE Queue(x) = <<>>
      <4>1. \/ pc'[v] = pc[v] /\ tried'[v] = tried[v] \cup {x}
            \/ /\ tried[v] \cup {x} = QueuesOf(PoolOf(v)) /\ tried'[v] = {}
               /\ pc'[v] = Missed(v)
        BY <3>1, <3>3, <1>a, <1>b
      <4>2. pc'[v] # "exited"
        BY <3>0, <4>1 DEF Missed, Finding
      <4>3. ASSUME Dozing(v)', v \in DefaultWorkers PROVE Dozing(v) \/ localQueue[v] = <<>>
        <5>1. v \in tried[v] \cup {x}
          <6>1. CASE pc'[v] = pc[v] /\ tried'[v] = tried[v] \cup {x}
            BY <3>0, <4>3, <6>1 DEF Dozing, Finding, Asleep
          <6>2. CASE tried[v] \cup {x} = QueuesOf(PoolOf(v))
            <7>1. PoolOf(v) = "Default" /\ v \in session.crew
              BY <3>0, <4>3, <1>b DEF PoolOf, Local, WorkerPlaced, Finding
            <7> QED BY <6>2, <7>1, <4>3 DEF QueuesOf, WorkersOf
          <6> QED BY <4>1, <6>1, <6>2
        <5>2. CASE v \in tried[v]
          BY <3>0, <5>2 DEF Dozing
        <5>3. CASE v = x
          BY <3>3, <5>3, ThreadFacts DEF Queue
        <5> QED BY <5>1, <5>2, <5>3
      <4> QED BY <3>0, <4>2, <4>3 DEF Moves, Finding
    <3> QED BY <3>2, <3>3
  <2> QED BY <2>1, <2>2, <1>d
<1>15. ASSUME NEW w \in Workers, CheckState(w) PROVE Moves(v)
  <2>1. w \in Threads /\ \A u \in Threads \ {w} : pc'[u] = pc[u] /\ tried'[u] = tried[u]
    BY <1>15, <1>a, ThreadFacts DEF CheckState
  <2>2. w = v => Moves(v)
    BY <1>15, <1>a, <1>b, <1>e DEF CheckState, Moves, Dozing, Finding, Asleep
  <2> QED BY <2>1, <2>2, <1>d
<1>16. ASSUME NEW w \in Workers, CheckPending(w) PROVE Moves(v)
  <2>1. w \in Threads /\ \A u \in Threads \ {w} : pc'[u] = pc[u] /\ tried'[u] = tried[u]
    BY <1>16, <1>a, ThreadFacts DEF CheckPending
  <2>2. w = v => Moves(v)
    BY <1>16, <1>a, <1>b, <1>e DEF CheckPending, Moves, Dozing, Finding, Asleep
  <2> QED BY <2>1, <2>2, <1>d
<1>17. ASSUME NEW w \in Workers, MarkSleeping(w) PROVE Moves(v)
  <2>1. w \in Threads /\ \A u \in Threads \ {w} : pc'[u] = pc[u] /\ tried'[u] = tried[u]
    BY <1>17, <1>a, ThreadFacts DEF MarkSleeping
  <2>2. w = v => Moves(v)
    BY <1>17, <1>a, <1>b, <1>e DEF MarkSleeping, Moves, Dozing, Finding, Asleep
  <2> QED BY <2>1, <2>2, <1>d
<1>18. ASSUME NEW w \in Workers, CountMayBe(w) PROVE Moves(v)
  <2>1. w \in Threads /\ \A u \in Threads \ {w} : pc'[u] = pc[u] /\ tried'[u] = tried[u]
    BY <1>18, <1>a, ThreadFacts DEF CountMayBe
  <2>2. w = v => Moves(v)
    BY <1>18, <1>a, <1>b, <1>e DEF CountMayBe, Moves, Dozing, Finding, Asleep
  <2> QED BY <2>1, <2>2, <1>d
<1>19. ASSUME NEW w \in Workers, CountAsleep(w) PROVE Moves(v)
  <2>1. w \in Threads /\ \A u \in Threads \ {w} : pc'[u] = pc[u] /\ tried'[u] = tried[u]
    BY <1>19, <1>a, ThreadFacts DEF CountAsleep
  <2>2. w = v => Moves(v)
    BY <1>19, <1>a, <1>b, <1>e DEF CountAsleep, Moves, Dozing, Finding, Asleep
  <2> QED BY <2>1, <2>2, <1>d
<1>20. ASSUME NEW w \in Workers, CountAwake(w) PROVE Moves(v)
  <2>1. w \in Threads /\ \A u \in Threads \ {w} : pc'[u] = pc[u] /\ tried'[u] = tried[u]
    BY <1>20, <1>a, ThreadFacts DEF CountAwake
  <2>2. w = v => Moves(v)
    BY <1>20, <1>a, <1>b, <1>e DEF CountAwake, Moves, Dozing, Finding, Asleep
  <2> QED BY <2>1, <2>2, <1>d
<1>21. ASSUME NEW w \in Workers, Normal(w) PROVE Moves(v)
  <2>1. w \in Threads /\ \A u \in Threads \ {w} : pc'[u] = pc[u] /\ tried'[u] = tried[u]
    BY <1>21, <1>a, ThreadFacts DEF Normal
  <2>2. w = v => Moves(v)
    BY <1>21, <1>a, <1>b, <1>e DEF Normal, Moves, Dozing, Finding, Asleep
  <2> QED BY <2>1, <2>2, <1>d
<1>22. ASSUME NEW w \in Workers, Unmark(w) PROVE Moves(v)
  <2>1. w \in Threads /\ \A u \in Threads \ {w} : pc'[u] = pc[u] /\ tried'[u] = tried[u]
    BY <1>22, <1>a, ThreadFacts DEF Unmark
  <2>2. w = v => Moves(v)
    BY <1>22, <1>a, <1>b, <1>e DEF Unmark, Moves, Dozing, Finding, Asleep
  <2> QED BY <2>1, <2>2, <1>d
<1>23. ASSUME NEW w \in Workers, Uncount(w) PROVE Moves(v)
  <2>1. w \in Threads /\ \A u \in Threads \ {w} : pc'[u] = pc[u] /\ tried'[u] = tried[u]
    BY <1>23, <1>a, ThreadFacts DEF Uncount
  <2>2. w = v => Moves(v)
    BY <1>23, <1>a, <1>b, <1>e DEF Uncount, Moves, Dozing, Finding, Asleep
  <2> QED BY <2>1, <2>2, <1>d
<1>24. ASSUME NEW w \in Workers, CheckNone(w) PROVE Moves(v)
  <2>1. w \in Threads /\ \A u \in Threads \ {w} : pc'[u] = pc[u] /\ tried'[u] = tried[u]
    BY <1>24, <1>a, ThreadFacts DEF CheckNone
  <2>2. w = v => Moves(v)
    BY <1>24, <1>a, <1>b, <1>e DEF CheckNone, Moves, Dozing, Finding, Asleep
  <2> QED BY <2>1, <2>2, <1>d
<1>25. ASSUME NEW w \in Workers, ClearPending(w) PROVE Moves(v)
  <2>1. w \in Threads /\ \A u \in Threads \ {w} : pc'[u] = pc[u] /\ tried'[u] = tried[u]
    BY <1>25, <1>a, ThreadFacts DEF ClearPending
  <2>2. w = v => Moves(v)
    BY <1>25, <1>a, <1>b, <1>e DEF ClearPending, Moves, Dozing, Finding, Asleep
  <2> QED BY <2>1, <2>2, <1>d
<1>26. ASSUME NEW w \in Workers, ProcessPending(w) PROVE Moves(v)
  <2>1. w \in Threads /\ \A u \in Threads \ {w} : pc'[u] = pc[u] /\ tried'[u] = tried[u]
    BY <1>26, <1>a, ThreadFacts DEF ProcessPending
  <2>2. w = v => Moves(v)
    BY <1>26, <1>a, <1>b, <1>e DEF ProcessPending, Moves, Dozing, Finding, Asleep
  <2> QED BY <2>1, <2>2, <1>d
<1>27. ASSUME NEW w \in Workers, Wait(w) PROVE Moves(v)
  <2>1. w \in Threads /\ \A u \in Threads \ {w} : pc'[u] = pc[u] /\ tried'[u] = tried[u]
    BY <1>27, <1>a, ThreadFacts DEF Wait
  <2>2. w = v => Moves(v)
    BY <1>27, <1>a, <1>b, <1>e DEF Wait, Moves, Dozing, Finding, Asleep
  <2> QED BY <2>1, <2>2, <1>d
<1>28. ASSUME NEW w \in Workers, LockWait(w) PROVE Moves(v)
  <2>1. w \in Threads /\ \A u \in Threads \ {w} : pc'[u] = pc[u] /\ tried'[u] = tried[u]
    BY <1>28, <1>a, ThreadFacts DEF LockWait
  <2>2. w = v => Moves(v)
    BY <1>28, <1>a, <1>b, <1>e DEF LockWait, Moves, Dozing, Finding, Asleep
  <2> QED BY <2>1, <2>2, <1>d
<1>29. ASSUME NEW w \in Workers, CheckSet(w) PROVE Moves(v)
  <2>1. w \in Threads /\ \A u \in Threads \ {w} : pc'[u] = pc[u] /\ tried'[u] = tried[u]
    BY <1>29, <1>a, ThreadFacts DEF CheckSet
  <2>2. w = v => Moves(v)
    BY <1>29, <1>a, <1>b, <1>e DEF CheckSet, Moves, Dozing, Finding, Asleep
  <2> QED BY <2>1, <2>2, <1>d
<1>30. ASSUME NEW w \in Workers, Finish(w) PROVE Moves(v)
  <2>1. w \in Threads /\ \A u \in Threads \ {w} : pc'[u] = pc[u] /\ tried'[u] = tried[u]
    BY <1>30, <1>a, ThreadFacts DEF Finish
  <2>2. w = v => Moves(v)
    BY <1>30, <1>a, <1>b, <1>e DEF Finish, Moves, Dozing, Finding, Asleep
  <2> QED BY <2>1, <2>2, <1>d
<1>31. ASSUME NEW w \in Workers, NEW p \in Pools, Hop(w, p) PROVE Moves(v)
  <2>1. w \in Threads /\ \A u \in Threads \ {w} : pc'[u] = pc[u] /\ tried'[u] = tried[u]
    BY <1>31, <1>a, ThreadFacts DEF Hop, CallSchedule
  <2>2. pc[w] = "run" /\ pc'[w] = "enqueue"
    BY <1>31, <2>1, <1>a DEF Hop, CallSchedule
  <2>3. w = v => Moves(v)
    BY <2>2, <1>e DEF Moves, Dozing, Finding, Asleep
  <2> QED BY <2>1, <2>3, <1>d
<1>32. ASSUME NEW t \in Threads, NEW c \in Coroutines, NEW p \in Pools, Start(t, c, p) PROVE Moves(v)
  <2>1. t \in Threads /\ \A u \in Threads \ {t} : pc'[u] = pc[u] /\ tried'[u] = tried[u]
    BY <1>32, <1>a, ThreadFacts DEF Start, CallSchedule
  <2>2. pc[t] \in {"run", "idle"} /\ pc'[t] = "enqueue"
    BY <1>32, <2>1, <1>a DEF Start, CallSchedule
  <2>3. t = v => Moves(v)
    BY <2>2, <1>e DEF Moves, Dozing, Finding, Asleep
  <2> QED BY <2>1, <2>3, <1>d
<1>33. ASSUME NEW t \in Clients, WakeAll(t) PROVE Moves(v)
  BY <1>33, <1>a, <1>b, <1>c DEF WakeAll
<1>34. ASSUME NEW t \in Clients, Join(t) PROVE Moves(v)
  BY <1>34, <1>a, <1>b, <1>c DEF Join
<1>35. ASSUME NEW t \in Clients, LookAsleep(t) PROVE Moves(v)
  BY <1>35, <1>a, <1>b, <1>c DEF LookAsleep
<1>36. ASSUME NEW t \in Clients, LookWork(t) PROVE Moves(v)
  BY <1>36, <1>a, <1>b, <1>c DEF LookWork
<1>37. ASSUME NEW t \in Clients, Shutdown(t) PROVE Moves(v)
  BY <1>37, <1>a, <1>b, <1>c DEF Shutdown
<1>38. ASSUME NEW t \in Clients, WaitForIdle(t) PROVE Moves(v)
  BY <1>38, <1>a, <1>b, <1>c DEF WaitForIdle
<1> QED
  BY <1>0, <1>1, <1>2, <1>3, <1>4, <1>5, <1>6, <1>7, <1>8, <1>9, <1>10, <1>11, <1>12, <1>13,
     <1>14, <1>15, <1>16, <1>17, <1>18, <1>19, <1>20, <1>21, <1>22, <1>23, <1>24, <1>25,
     <1>26, <1>27, <1>28, <1>29, <1>30, <1>31, <1>32, <1>33, <1>34, <1>35, <1>36, <1>37,
     <1>38, ThreadFacts
     DEF Next, WakeStep, WorkerStep, Body, ClientStep

\* A worker that dozes does not schedule, and nobody else fills its queue.
LEMMA EmptiedStep == ASSUME PoolInv, Emptied, [Next]_vars PROVE Emptied'
<1> SUFFICES ASSUME NEW w \in Workers,
                    w \in BackgroundWorkers \/ w \notin session'.crew \/ Dozing(w)'
             PROVE  localQueue'[w] = <<>>
  BY DEF Emptied
<1>1. session' = session /\ Local(w) /\ w \in Threads
  BY CrewStays, ThreadFacts DEF PoolInv, Locals
<1>2. localQueue[w] = <<>>
  <2>1. CASE w \in BackgroundWorkers \/ w \notin session.crew
    BY <2>1 DEF Emptied
  <2>2. CASE Dozing(w)' /\ w \in DefaultWorkers
    BY <2>2, WorkerMoves DEF Moves, Emptied
  <2> QED BY <1>1, <2>1, <2>2, ThreadFacts
<1>3. ~(pc[w] = "enqueue" /\ pc'[w] = "wake" /\ w \in DefaultWorkers)
  <2> SUFFICES ASSUME pc[w] = "enqueue", pc'[w] = "wake", w \in DefaultWorkers PROVE FALSE
    OBVIOUS
  <2>1. w \in session.crew
    BY <1>1 DEF Local, WorkerPlaced
  <2>2. ~Dozing(w)'
    BY DEF Dozing, Finding, Asleep
  <2> QED BY <1>1, <2>1, <2>2, ThreadFacts
<1> QED BY <1>2, <1>3, QueueMoves DEF Queues

\* What a pool is told.
LEMMA StateMoves ==
    ASSUME PoolInv, [Next]_vars
    PROVE  \/ state' = state
           \/ /\ \A p \in Pools : state'[p] \in {state[p], ShutdownState, "Terminated"}
              /\ state'["Default"] = "Terminated" =>
                     \/ state["Default"] = "Terminated"
                     \/ \A w \in WorkersOf("Default") : pc[w] = "exited" /\ pc'[w] = "exited"
<1> DEFINE Told ==
       \/ state' = state
       \/ /\ \A p \in Pools : state'[p] \in {state[p], ShutdownState, "Terminated"}
          /\ state'["Default"] = "Terminated" =>
                 \/ state["Default"] = "Terminated"
                 \/ \A w \in WorkersOf("Default") : pc[w] = "exited" /\ pc'[w] = "exited"
<1>a. Typed /\ \A p \in Pools : p \in {"Default", "Background"}
  BY ThreadFacts DEF PoolInv
<1>b. ASSUME NEW t \in Clients, Shutdown(t) PROVE Told
  <2>1. state' = [state EXCEPT !["Default"] = ShutdownState]
    BY <1>b DEF Shutdown
  <2>2. ShutdownState # "Terminated"
    BY StateAssumption
  <2> QED BY <1>a, <2>1, <2>2, ThreadFacts DEF Typed
<1>c. ASSUME NEW t \in Clients, Join(t) PROVE Told
  <2>1. CASE state["Default"] = "Terminated"
    <3>1. state' = [state EXCEPT !["Background"] = "Terminated"]
      BY <1>c, <2>1 DEF Join, ShutPool
    <3> QED BY <1>a, <2>1, <3>1, ThreadFacts DEF Typed
  <2>2. CASE state["Default"] # "Terminated"
    <3>1. /\ state' = [state EXCEPT !["Default"] = "Terminated", !["Background"] = ShutdownState]
          /\ \A w \in WorkersOf("Default") : pc[w] = "exited"
          /\ pc' = pc
      BY <1>c, <2>2 DEF Join, ShutPool, At
    <3> QED BY <1>a, <3>1, ThreadFacts DEF Typed
  <2> QED BY <2>1, <2>2
<1>d. ASSUME UNCHANGED state PROVE Told
  BY <1>d
<1>e. \/ UNCHANGED state \/ \E t \in Clients : Shutdown(t) \/ Join(t)
  BY
    DEF Next, vars, WakeStep, WorkerStep, Body, ClientStep, Enqueue, Wake, NextSleeper,
        TrySleeper, Set, LockSet, TrySet, Store, Notify, NoneWoken, LeaveRequest,
        AddRequest, Top, Search, CheckState, CheckPending, MarkSleeping, CountMayBe,
        CountAsleep, CountAwake, Normal, Unmark, Uncount, CheckNone, ClearPending,
        ProcessPending, Wait, LockWait, CheckSet, Finish, Hop, Start, WakeAll, LookAsleep,
        LookWork, WaitForIdle
<1> QED BY <1>b, <1>c, <1>d, <1>e

\* A worker ends with an empty queue, and the pool after its workers.
LEMMA DrainedStep == ASSUME PoolInv, Emptied, Drained, [Next]_vars PROVE Drained'
<1> SUFFICES ASSUME ShutdownState = "ShuttingDown"
             PROVE  /\ \A p \in Pools : state'[p] # "ShuttingDownImmediately"
                    /\ \A w \in Workers : pc'[w] = "exited" => localQueue'[w] = <<>>
                    /\ state'["Default"] = "Terminated" =>
                           \A w \in WorkersOf("Default") : pc'[w] = "exited"
  BY CrewStays DEF Drained
<1>1. /\ \A p \in Pools : state[p] # "ShuttingDownImmediately"
      /\ \A w \in Workers : pc[w] = "exited" => localQueue[w] = <<>>
      /\ state["Default"] = "Terminated" => \A w \in WorkersOf("Default") : pc[w] = "exited"
  BY DEF Drained
<1>2. \A p \in Pools : state'[p] # "ShuttingDownImmediately"
  BY <1>1, StateMoves
<1>3. ASSUME NEW w \in Workers, pc'[w] = "exited" PROVE localQueue'[w] = <<>>
  <2>1. pc[w] \in {"exited", "checkState"}
    BY <1>1, <1>3, WorkerMoves, ThreadFacts DEF Moves
  <2>2. localQueue[w] = <<>>
    BY <1>1, <2>1 DEF Emptied, Dozing
  <2> QED BY <1>3, <2>2, QueueMoves DEF Queues
<1>4. ASSUME state'["Default"] = "Terminated", NEW w \in WorkersOf("Default") PROVE pc'[w] = "exited"
  <2>1. w \in Workers
    BY CrewFacts, ThreadFacts
  <2>2. state["Default"] = "Terminated" \/ (pc[w] = "exited" /\ pc'[w] = "exited")
    BY <1>4, StateMoves
  <2> QED BY <1>1, <1>4, <2>1, <2>2, WorkerMoves DEF Moves
<1> QED BY <1>2, <1>3, <1>4

\* shutdown() returns with nothing left in the queue of a worker.
THEOREM PoolDrains == Spec => []LocalWorkDrained
<1>1. Init => PoolInv /\ Emptied /\ Drained
  <2> SUFFICES ASSUME Init PROVE PoolInv /\ Emptied /\ Drained
    OBVIOUS
  <2>1. /\ \A w \in Workers : localQueue[w] = <<>>
        /\ \A p \in Pools : state[p] = "Started"
    BY DEF Init
  <2>2. Emptied
    BY <2>1 DEF Emptied
  <2>3. \A p \in Pools : state[p] \notin {"ShuttingDownImmediately", "Terminated"}
    BY <2>1
  <2>4. Drained
    <3>1. state["Default"] # "Terminated"
      BY <2>3, ThreadFacts
    <3> QED BY <2>1, <2>3, <3>1 DEF Drained
  <2> QED BY <2>2, <2>4, PoolInit
<1>2. PoolInv /\ Emptied /\ Drained /\ [Next]_vars => (PoolInv /\ Emptied /\ Drained)'
  BY PoolStep, EmptiedStep, DrainedStep
<1>3. PoolInv /\ Emptied /\ Drained => LocalWorkDrained
  <2> SUFFICES ASSUME PoolInv, Emptied, Drained, ShutdownState = "ShuttingDown",
                      state["Default"] = "Terminated", NEW w \in Workers
               PROVE  localQueue[w] = <<>>
    BY DEF LocalWorkDrained
  <2>1. CASE w \in BackgroundWorkers \/ w \notin session.crew
    BY <2>1 DEF Emptied
  <2>2. CASE w \in DefaultWorkers /\ w \in session.crew
    BY <2>2 DEF Drained, WorkersOf
  <2> QED BY <2>1, <2>2, ThreadFacts
<1> QED BY <1>1, <1>2, <1>3, PTL DEF Spec

-----------------------------------------------------------------------------
(* waitForAllThreadsIdle() *)

\* The places of a client in waitForAllThreadsIdle() change in its two loops.
LookMoves(v) == \/ pc'[v] = pc[v] /\ tried'[v] = tried[v]
                \/ /\ pc[v] \notin Looking /\ (pc'[v] \notin Looking \/ pc'[v] = "look")
                   /\ tried'[v] \subseteq tried[v] \cup Workers
                \/ LookAsleep(v) /\ tried' = tried
                \/ LookWork(v)

LEMMA ClientMoves == ASSUME PoolInv, [Next]_vars, NEW v \in Clients PROVE LookMoves(v)
<1>a. /\ pc \in [Threads -> Pcs]
      /\ call \in [Threads -> Calls]
      /\ tried \in [Threads -> SUBSET (Pools \cup Workers)]
  BY DEF PoolInv, Typed
<1>b. /\ \A t \in Threads : Local(t)
      /\ v \in Threads /\ v \notin Workers /\ \A w \in Workers : w \in Threads
      /\ \A t \in Clients : t \in Threads
  BY ThreadFacts DEF PoolInv, Locals
<1>c. ASSUME pc'[v] = pc[v], tried'[v] = tried[v] PROVE LookMoves(v)
  BY <1>c DEF LookMoves
<1>d. ASSUME NEW t \in Threads, \A u \in Threads \ {t} : pc'[u] = pc[u] /\ tried'[u] = tried[u],
             t = v => LookMoves(v)
      PROVE  LookMoves(v)
  BY <1>b, <1>c, <1>d
<1>e. ASSUME pc[v] \notin Looking, pc'[v] \notin Looking, tried'[v] = tried[v] PROVE LookMoves(v)
  BY <1>e DEF LookMoves

<1> USE DEF queues, counts, events, coros, locals, Go, At, Goto, Return, GoOn
<1>0. CASE UNCHANGED vars
  <2>1. pc' = pc /\ tried' = tried
    BY <1>0 DEF vars
  <2> QED BY <2>1, <1>c
<1>1. ASSUME NEW t \in Threads, Enqueue(t) PROVE LookMoves(v)
  <2>1. t \in Threads /\ \A u \in Threads \ {t} : pc'[u] = pc[u] /\ tried'[u] = tried[u]
    BY <1>1, <1>a DEF Enqueue
  <2>2. pc[t] \in Waking
    BY <1>1 DEF Enqueue, Waking
  <2>3. t = v => pc'[t] \notin Looking /\ pc[t] \notin Looking /\ tried'[t] = tried[t]
    BY <1>1, <1>a, <1>b, <2>2 DEF Enqueue, Looking
  <2> QED BY <2>1, <2>3, <1>d, <1>e
<1>2. ASSUME NEW t \in Threads, Wake(t) PROVE LookMoves(v)
  <2>1. t \in Threads /\ \A u \in Threads \ {t} : pc'[u] = pc[u] /\ tried'[u] = tried[u]
    BY <1>2, <1>a DEF Wake
  <2>2. pc[t] \in Waking
    BY <1>2 DEF Wake, Waking
  <2>3. t = v => pc'[t] \notin Looking /\ pc[t] \notin Looking /\ tried'[t] = tried[t]
    BY <1>2, <1>a, <1>b, <2>2 DEF Wake, Looking
  <2> QED BY <2>1, <2>3, <1>d, <1>e
<1>3. ASSUME NEW t \in Threads, NextSleeper(t) PROVE LookMoves(v)
  <2>1. t \in Threads /\ \A u \in Threads \ {t} : pc'[u] = pc[u] /\ tried'[u] = tried[u]
    BY <1>3, <1>a DEF NextSleeper
  <2>2. pc[t] \in Waking
    BY <1>3 DEF NextSleeper, Waking
  <2>3. t = v => pc'[t] \notin Looking /\ pc[t] \notin Looking /\ tried'[t] = tried[t]
    BY <1>3, <1>a, <1>b, <2>2 DEF NextSleeper, Looking, Local, Control
  <2> QED BY <2>1, <2>3, <1>d, <1>e
<1>4. ASSUME NEW t \in Threads, TrySleeper(t) PROVE LookMoves(v)
  <2>1. t \in Threads /\ \A u \in Threads \ {t} : pc'[u] = pc[u] /\ tried'[u] = tried[u]
    BY <1>4, <1>a DEF TrySleeper
  <2>2. pc[t] \in Waking
    BY <1>4 DEF TrySleeper, Waking
  <2>3. t = v => pc'[t] \notin Looking /\ pc[t] \notin Looking /\ tried'[t] = tried[t]
    BY <1>4, <1>a, <1>b, <2>2 DEF TrySleeper, Looking
  <2> QED BY <2>1, <2>3, <1>d, <1>e
<1>5. ASSUME NEW t \in Threads, Set(t) PROVE LookMoves(v)
  <2>1. t \in Threads /\ \A u \in Threads \ {t} : pc'[u] = pc[u] /\ tried'[u] = tried[u]
    BY <1>5, <1>a DEF Set
  <2>2. pc[t] \in Waking
    BY <1>5 DEF Set, Waking
  <2>3. t = v => pc'[t] \notin Looking /\ pc[t] \notin Looking /\ tried'[t] = tried[t]
    BY <1>5, <1>a, <1>b, <2>2 DEF Set, Looking, Local, Control
  <2> QED BY <2>1, <2>3, <1>d, <1>e
<1>6. ASSUME NEW t \in Threads, LockSet(t) PROVE LookMoves(v)
  <2>1. t \in Threads /\ \A u \in Threads \ {t} : pc'[u] = pc[u] /\ tried'[u] = tried[u]
    BY <1>6, <1>a DEF LockSet
  <2>2. pc[t] \in Waking
    BY <1>6 DEF LockSet, Waking
  <2>3. t = v => pc'[t] \notin Looking /\ pc[t] \notin Looking /\ tried'[t] = tried[t]
    BY <1>6, <1>a, <1>b, <2>2 DEF LockSet, Looking
  <2> QED BY <2>1, <2>3, <1>d, <1>e
<1>7. ASSUME NEW t \in Threads, TrySet(t) PROVE LookMoves(v)
  <2>1. t \in Threads /\ \A u \in Threads \ {t} : pc'[u] = pc[u] /\ tried'[u] = tried[u]
    BY <1>7, <1>a DEF TrySet
  <2>2. pc[t] \in Waking
    BY <1>7 DEF TrySet, Waking
  <2>3. t = v => pc'[t] \notin Looking /\ pc[t] \notin Looking /\ tried'[t] = tried[t]
    BY <1>7, <1>a, <1>b, <2>2 DEF TrySet, Looking
  <2> QED BY <2>1, <2>3, <1>d, <1>e
<1>8. ASSUME NEW t \in Threads, Store(t) PROVE LookMoves(v)
  <2>1. t \in Threads /\ \A u \in Threads \ {t} : pc'[u] = pc[u] /\ tried'[u] = tried[u]
    BY <1>8, <1>a DEF Store
  <2>2. pc[t] \in Waking
    BY <1>8 DEF Store, Waking
  <2>3. t = v => pc'[t] \notin Looking /\ pc[t] \notin Looking /\ tried'[t] = tried[t]
    BY <1>8, <1>a, <1>b, <2>2 DEF Store, Looking
  <2> QED BY <2>1, <2>3, <1>d, <1>e
<1>9. ASSUME NEW t \in Threads, Notify(t) PROVE LookMoves(v)
  <2>1. pc[t] = "notify" /\ tried' = tried /\ call[t].back = pc'[t]
    BY <1>9 DEF Notify
  <2>2. CASE t = v
    <3>1. call[t].back \in {"idle", "wakeAll"}
      BY <2>1, <2>2, <1>b DEF Local, Control, Waking
    <3> QED BY <2>1, <2>2, <3>1, <1>b, <1>e DEF Looking
  <2>3. CASE t # v
    <3>1. pc'[v] = pc[v] \/ (pc[v] = "asleep" /\ pc'[v] = "lockWait")
      BY <1>9, <2>3, <1>b DEF Notify
    <3> QED BY <2>1, <3>1, <1>c, <1>e DEF Looking
  <2> QED BY <2>2, <2>3
<1>10. ASSUME NEW t \in Threads, NoneWoken(t) PROVE LookMoves(v)
  <2>1. t \in Threads /\ \A u \in Threads \ {t} : pc'[u] = pc[u] /\ tried'[u] = tried[u]
    BY <1>10, <1>a DEF NoneWoken
  <2>2. pc[t] \in Waking
    BY <1>10 DEF NoneWoken, Waking
  <2>3. t = v => pc'[t] \notin Looking /\ pc[t] \notin Looking /\ tried'[t] = tried[t]
    BY <1>10, <1>a, <1>b, <2>2 DEF NoneWoken, Looking, Local, Control
  <2> QED BY <2>1, <2>3, <1>d, <1>e
<1>11. ASSUME NEW t \in Threads, LeaveRequest(t) PROVE LookMoves(v)
  <2>1. t \in Threads /\ \A u \in Threads \ {t} : pc'[u] = pc[u] /\ tried'[u] = tried[u]
    BY <1>11, <1>a DEF LeaveRequest
  <2>2. pc[t] \in Waking
    BY <1>11 DEF LeaveRequest, Waking
  <2>3. t = v => pc'[t] \notin Looking /\ pc[t] \notin Looking /\ tried'[t] = tried[t]
    BY <1>11, <1>a, <1>b, <2>2 DEF LeaveRequest, Looking, Local, Control
  <2> QED BY <2>1, <2>3, <1>d, <1>e
<1>12. ASSUME NEW t \in Threads, AddRequest(t) PROVE LookMoves(v)
  <2>1. t \in Threads /\ \A u \in Threads \ {t} : pc'[u] = pc[u] /\ tried'[u] = tried[u]
    BY <1>12, <1>a DEF AddRequest
  <2>2. pc[t] \in Waking
    BY <1>12 DEF AddRequest, Waking
  <2>3. t = v => pc'[t] \notin Looking /\ pc[t] \notin Looking /\ tried'[t] = tried[t]
    BY <1>12, <1>a, <1>b, <2>2 DEF AddRequest, Looking, Local, Control
  <2> QED BY <2>1, <2>3, <1>d, <1>e
<1>13. ASSUME NEW w \in Workers, Top(w) PROVE LookMoves(v)
  <2>1. pc'[v] = pc[v] /\ tried'[v] = tried[v]
    BY <1>13, <1>a, <1>b DEF Top
  <2> QED BY <2>1, <1>c
<1>14. ASSUME NEW w \in Workers, Search(w) PROVE LookMoves(v)
  <2>1. pc'[v] = pc[v] /\ tried'[v] = tried[v]
    BY <1>14, <1>a, <1>b DEF Search
  <2> QED BY <2>1, <1>c
<1>15. ASSUME NEW w \in Workers, CheckState(w) PROVE LookMoves(v)
  <2>1. pc'[v] = pc[v] /\ tried'[v] = tried[v]
    BY <1>15, <1>a, <1>b DEF CheckState
  <2> QED BY <2>1, <1>c
<1>16. ASSUME NEW w \in Workers, CheckPending(w) PROVE LookMoves(v)
  <2>1. pc'[v] = pc[v] /\ tried'[v] = tried[v]
    BY <1>16, <1>a, <1>b DEF CheckPending
  <2> QED BY <2>1, <1>c
<1>17. ASSUME NEW w \in Workers, MarkSleeping(w) PROVE LookMoves(v)
  <2>1. pc'[v] = pc[v] /\ tried'[v] = tried[v]
    BY <1>17, <1>a, <1>b DEF MarkSleeping
  <2> QED BY <2>1, <1>c
<1>18. ASSUME NEW w \in Workers, CountMayBe(w) PROVE LookMoves(v)
  <2>1. pc'[v] = pc[v] /\ tried'[v] = tried[v]
    BY <1>18, <1>a, <1>b DEF CountMayBe
  <2> QED BY <2>1, <1>c
<1>19. ASSUME NEW w \in Workers, CountAsleep(w) PROVE LookMoves(v)
  <2>1. pc'[v] = pc[v] /\ tried'[v] = tried[v]
    BY <1>19, <1>a, <1>b DEF CountAsleep
  <2> QED BY <2>1, <1>c
<1>20. ASSUME NEW w \in Workers, CountAwake(w) PROVE LookMoves(v)
  <2>1. pc'[v] = pc[v] /\ tried'[v] = tried[v]
    BY <1>20, <1>a, <1>b DEF CountAwake
  <2> QED BY <2>1, <1>c
<1>21. ASSUME NEW w \in Workers, Normal(w) PROVE LookMoves(v)
  <2>1. pc'[v] = pc[v] /\ tried'[v] = tried[v]
    BY <1>21, <1>a, <1>b DEF Normal
  <2> QED BY <2>1, <1>c
<1>22. ASSUME NEW w \in Workers, Unmark(w) PROVE LookMoves(v)
  <2>1. pc'[v] = pc[v] /\ tried'[v] = tried[v]
    BY <1>22, <1>a, <1>b DEF Unmark
  <2> QED BY <2>1, <1>c
<1>23. ASSUME NEW w \in Workers, Uncount(w) PROVE LookMoves(v)
  <2>1. pc'[v] = pc[v] /\ tried'[v] = tried[v]
    BY <1>23, <1>a, <1>b DEF Uncount
  <2> QED BY <2>1, <1>c
<1>24. ASSUME NEW w \in Workers, CheckNone(w) PROVE LookMoves(v)
  <2>1. pc'[v] = pc[v] /\ tried'[v] = tried[v]
    BY <1>24, <1>a, <1>b DEF CheckNone
  <2> QED BY <2>1, <1>c
<1>25. ASSUME NEW w \in Workers, ClearPending(w) PROVE LookMoves(v)
  <2>1. pc'[v] = pc[v] /\ tried'[v] = tried[v]
    BY <1>25, <1>a, <1>b DEF ClearPending
  <2> QED BY <2>1, <1>c
<1>26. ASSUME NEW w \in Workers, ProcessPending(w) PROVE LookMoves(v)
  <2>1. pc'[v] = pc[v] /\ tried'[v] = tried[v]
    BY <1>26, <1>a, <1>b DEF ProcessPending
  <2> QED BY <2>1, <1>c
<1>27. ASSUME NEW w \in Workers, Wait(w) PROVE LookMoves(v)
  <2>1. pc'[v] = pc[v] /\ tried'[v] = tried[v]
    BY <1>27, <1>a, <1>b DEF Wait
  <2> QED BY <2>1, <1>c
<1>28. ASSUME NEW w \in Workers, LockWait(w) PROVE LookMoves(v)
  <2>1. pc'[v] = pc[v] /\ tried'[v] = tried[v]
    BY <1>28, <1>a, <1>b DEF LockWait
  <2> QED BY <2>1, <1>c
<1>29. ASSUME NEW w \in Workers, CheckSet(w) PROVE LookMoves(v)
  <2>1. pc'[v] = pc[v] /\ tried'[v] = tried[v]
    BY <1>29, <1>a, <1>b DEF CheckSet
  <2> QED BY <2>1, <1>c
<1>30. ASSUME NEW w \in Workers, Finish(w) PROVE LookMoves(v)
  <2>1. pc'[v] = pc[v] /\ tried'[v] = tried[v]
    BY <1>30, <1>a, <1>b DEF Finish
  <2> QED BY <2>1, <1>c
<1>31. ASSUME NEW w \in Workers, NEW p \in Pools, Hop(w, p) PROVE LookMoves(v)
  <2>1. pc'[v] = pc[v] /\ tried'[v] = tried[v]
    BY <1>31, <1>a, <1>b DEF Hop, CallSchedule
  <2> QED BY <2>1, <1>c
<1>32. ASSUME NEW t \in Threads, NEW c \in Coroutines, NEW p \in Pools, Start(t, c, p) PROVE LookMoves(v)
  <2>1. \A u \in Threads \ {t} : pc'[u] = pc[u] /\ tried'[u] = tried[u]
    BY <1>32, <1>a DEF Start, CallSchedule
  <2>2. pc'[t] = "enqueue" /\ pc[t] \in {"run", "idle"} /\ tried' = tried
    BY <1>32, <1>a DEF Start, CallSchedule
  <2> QED BY <2>1, <2>2, <1>d, <1>e DEF Looking
<1>33. ASSUME NEW t \in Clients, WakeAll(t) PROVE LookMoves(v)
  <2>1. t \in Threads /\ \A u \in Threads \ {t} : pc'[u] = pc[u] /\ tried'[u] = tried[u]
    BY <1>33, <1>a, <1>b DEF WakeAll
  <2>2. t = v => LookMoves(v)
    BY <1>33, <1>a, <1>b, CrewFacts, ThreadFacts DEF WakeAll, ShutPool, LookMoves, Looking
  <2> QED BY <2>1, <2>2, <1>d
<1>34. ASSUME NEW t \in Clients, Join(t) PROVE LookMoves(v)
  <2>1. t \in Threads /\ \A u \in Threads \ {t} : pc'[u] = pc[u] /\ tried'[u] = tried[u]
    BY <1>34, <1>a, <1>b DEF Join
  <2>2. t = v => LookMoves(v)
    BY <1>34, <1>a, <1>b DEF Join, LookMoves, Looking
  <2> QED BY <2>1, <2>2, <1>d
<1>35. ASSUME NEW t \in Clients, LookAsleep(t) PROVE LookMoves(v)
  <2>1. t \in Threads /\ tried' = tried /\ \A u \in Threads \ {t} : pc'[u] = pc[u]
    BY <1>35, <1>a, <1>b DEF LookAsleep
  <2>2. t = v => LookMoves(v)
    BY <1>35, <2>1 DEF LookMoves
  <2> QED BY <2>1, <2>2, <1>d
<1>36. ASSUME NEW t \in Clients, LookWork(t) PROVE LookMoves(v)
  <2>1. t \in Threads /\ \A u \in Threads \ {t} : pc'[u] = pc[u] /\ tried'[u] = tried[u]
    BY <1>36, <1>a, <1>b DEF LookWork
  <2>2. t = v => LookMoves(v)
    BY <1>36 DEF LookMoves
  <2> QED BY <2>1, <2>2, <1>d
<1>37. ASSUME NEW t \in Clients, Shutdown(t) PROVE LookMoves(v)
  <2>1. t \in Threads /\ \A u \in Threads \ {t} : pc'[u] = pc[u] /\ tried'[u] = tried[u]
    BY <1>37, <1>a, <1>b DEF Shutdown
  <2>2. t = v => LookMoves(v)
    BY <1>37, <1>a, <1>b DEF Shutdown, LookMoves, Looking
  <2> QED BY <2>1, <2>2, <1>d
<1>38. ASSUME NEW t \in Clients, WaitForIdle(t) PROVE LookMoves(v)
  <2>1. t \in Threads /\ \A u \in Threads \ {t} : pc'[u] = pc[u] /\ tried'[u] = tried[u]
    BY <1>38, <1>a, <1>b DEF WaitForIdle
  <2>2. t = v => LookMoves(v)
    BY <1>38, <1>a, <1>b DEF WaitForIdle, LookMoves, Looking
  <2> QED BY <2>1, <2>2, <1>d
<1> QED
  BY <1>0, <1>1, <1>2, <1>3, <1>4, <1>5, <1>6, <1>7, <1>8, <1>9, <1>10, <1>11, <1>12, <1>13,
     <1>14, <1>15, <1>16, <1>17, <1>18, <1>19, <1>20, <1>21, <1>22, <1>23, <1>24, <1>25,
     <1>26, <1>27, <1>28, <1>29, <1>30, <1>31, <1>32, <1>33, <1>34, <1>35, <1>36, <1>37,
     <1>38, ThreadFacts
     DEF Next, WakeStep, WorkerStep, Body, ClientStep

\* A coroutine that comes to live is started by a running one or by an idle client.
LEMMA LiveMoves ==
    ASSUME PoolInv, [Next]_vars, NEW c \in Coroutines, place'[c] = "live", place[c] # "live"
    PROVE  \/ \E d \in Coroutines : place[d] = "live"
           \/ \E t \in Clients : pc[t] = "idle"
<1>1. place \in [Coroutines -> {"new", "live", "done"}] /\ self \in [Threads -> Coroutines \cup {NULL}]
  BY DEF PoolInv, Typed
<1>2. ASSUME NEW w \in Workers, pc[w] = "run" PROVE \E d \in Coroutines : place[d] = "live"
  <2>1. self[w] \in Coroutines /\ w \in Threads
    BY <1>1, <1>2, ThreadFacts DEF PoolInv, Locals, Local, WorkerPlaced
  <2>2. Runs(self[w]) /\ Once(self[w])
    BY <2>1 DEF Runs, PoolInv, Placed
  <2> QED BY <2>1, <2>2 DEF Once
<1>3. \/ UNCHANGED place
      \/ \E w \in Workers : Finish(w)
      \/ \E t \in Threads, d \in Coroutines, p \in Pools : Start(t, d, p)
  BY ThreadFacts
    DEF Next, vars, coros, WakeStep, WorkerStep, Body, ClientStep, Enqueue, Wake,
        NextSleeper, TrySleeper, Set, LockSet, TrySet, Store, Notify, NoneWoken,
        LeaveRequest, AddRequest, Top, Search, CheckState, CheckPending, MarkSleeping,
        CountMayBe, CountAsleep, CountAwake, Normal, Unmark, Uncount, CheckNone,
        ClearPending, ProcessPending, Wait, LockWait, CheckSet, Hop, WakeAll, Join,
        LookAsleep, LookWork, Shutdown, WaitForIdle
<1>4. ASSUME NEW w \in Workers, Finish(w) PROVE FALSE
  BY <1>1, <1>4 DEF Finish
<1>5. ASSUME NEW t \in Threads, NEW d \in Coroutines, NEW p \in Pools, Start(t, d, p)
      PROVE  (\E e \in Coroutines : place[e] = "live") \/ \E u \in Clients : pc[u] = "idle"
  BY <1>2, <1>5, ThreadFacts DEF Start, At
<1> QED BY <1>3, <1>4, <1>5

\* When every worker of the only pool is counted asleep, and the queue of the pool has
\* been seen empty, nothing is left.
LEMMA AllAsleep ==
    ASSUME PoolInv, Emptied, Seen, WorkersOf("Background") = {}, globalQueue["Default"] = <<>>,
           sleeping["Default"] = threadCount("Default"), \A t \in Clients : call[t].item = NULL
    PROVE  \A c \in Coroutines : place[c] # "live"
<1>1. \A w \in WorkersOf("Default") : pc[w] \in Asleep
  <2>1. CountedAsleep("Default") \in SUBSET WorkersOf("Default")
    BY DEF CountedAsleep
  <2>2. Cardinality(CountedAsleep("Default")) = Cardinality(WorkersOf("Default"))
    BY ThreadFacts DEF PoolInv, Counted, threadCount
  <2>3. CountedAsleep("Default") = WorkersOf("Default")
    BY <2>1, <2>2, CrewFacts, ThreadFacts, FS_Subset
  <2> QED BY <2>3 DEF CountedAsleep, InSleep
<1>2. \A w \in Workers : pc[w] \in Asleep \/ (w \notin session.crew /\ pc[w] = "exited")
  <2>1. \A w \in Workers : w \in session.crew => w \in WorkersOf("Default")
    BY ThreadFacts DEF WorkersOf
  <2>2. \A w \in Workers : w \notin session.crew => pc[w] = "exited"
    BY ThreadFacts DEF PoolInv, Locals, Local, WorkerPlaced
  <2> QED BY <1>1, <2>1, <2>2
<1>3. \A x \in Pools \cup Workers : Queue(x) = <<>>
  <2>1. \A w \in Workers : localQueue[w] = <<>>
    BY <1>2 DEF Emptied, Dozing
  <2>2. globalQueue["Background"] = <<>>
    BY ThreadFacts DEF Seen
  <2> QED BY <2>1, <2>2, ThreadFacts DEF Queue
<1>4. \A t \in Threads : self[t] = NULL /\ call[t].item = NULL
  <2>1. ASSUME NEW t \in Clients PROVE self[t] = NULL /\ call[t].item = NULL
    BY ThreadFacts DEF PoolInv, Locals, Local, ClientPlaced
  <2>2. ASSUME NEW w \in Workers PROVE self[w] = NULL /\ call[w].item = NULL
    <3>1. Local(w) /\ w \in Workers
      BY ThreadFacts DEF PoolInv, Locals
    <3>2. pc[w] # "enqueue" /\ pc[w] # "run" /\ pc[w] \notin Leaving /\ pc[w] \notin Waking
      BY <1>2 DEF Asleep, Leaving, Waking
    <3> QED BY <3>1, <3>2 DEF Local, Control, WorkerPlaced
  <2> QED BY <2>1, <2>2, ThreadFacts
<1>5. \A c \in Coroutines : ~InQueue(c) /\ ~Runs(c) /\ ~Carried(c)
  BY <1>3, <1>4, ThreadFacts DEF InQueue, Runs, Carried
<1> QED BY <1>5 DEF PoolInv, Placed, Once

\* No client and no worker of another pool fills the global queue while one looks.
LEMMA SeenStep ==
    ASSUME \A t, u \in Clients : t = u, PoolInv, Emptied, Seen, [Next]_vars
    PROVE  Seen'
<1>0. /\ \A p \in Pools : WorkersOf(p)' = WorkersOf(p)
      /\ \A p \in Pools : threadCount(p)' = threadCount(p)
      /\ \A p \in Pools : QueuesOf(p)' = QueuesOf(p)
      /\ "Default" \in Pools /\ "Background" \in Pools /\ Clients \subseteq Threads
  BY CrewStays, ThreadFacts
<1>1. ASSUME NEW p \in Pools, WorkersOf(p) = {} PROVE globalQueue'[p] = <<>>
  BY <1>1, QueueMoves DEF Queues, Seen
<1>2. ASSUME WorkersOf("Background") = {}, NEW t \in Clients PROVE SeenBy(t)'
  <2>0. SeenBy(t) /\ t \in Threads /\ ClientPlaced(t) /\ Control(t)
    BY <1>0, <1>2 DEF Seen, PoolInv, Locals, Local
  <2>1. ASSUME globalQueue["Default"] = <<>>, pc[t] # "enqueue" PROVE globalQueue'["Default"] = <<>>
    <3> SUFFICES ASSUME NEW u \in Threads, pc[u] = "enqueue", u \notin DefaultWorkers PROVE FALSE
      BY <1>0, <2>1, QueueMoves DEF Queues
    <3>1. u \notin Clients
      BY <2>1, <1>2
    <3>2. u \in Workers /\ u \notin session.crew
      BY <1>2, <3>1, ThreadFacts DEF WorkersOf
    <3> QED BY <3>2 DEF PoolInv, Locals, Local, WorkerPlaced
  <2>2. ASSUME \A c \in Coroutines : place[c] # "live", pc[t] # "idle"
        PROVE  \A c \in Coroutines : place'[c] # "live"
    BY <1>2, <2>2, LiveMoves
  <2>3. CASE pc'[t] = pc[t] /\ tried'[t] = tried[t]
    BY <2>0, <2>1, <2>2, <2>3 DEF SeenBy
  <2>4. CASE /\ pc[t] \notin Looking /\ (pc'[t] \notin Looking \/ pc'[t] = "look")
             /\ tried'[t] \subseteq tried[t] \cup Workers
    <3>1. "Default" \notin tried'[t]
      BY <2>0, <2>4, ThreadFacts DEF SeenBy, Looking
    <3> QED BY <2>4, <3>1 DEF SeenBy, Looking
  <2>b. pc \in [Threads -> Pcs] /\ tried \in [Threads -> SUBSET (Pools \cup Workers)]
    BY DEF PoolInv, Typed
  <2>5. CASE LookAsleep(t) /\ tried' = tried
    <3>1. /\ sleeping["Default"] = threadCount("Default") /\ UNCHANGED <<place, globalQueue, tried>>
          /\ \/ pc[t] = "look" /\ pc'[t] = "haveWork"
             \/ pc[t] = "lookAgain" /\ pc'[t] = "haveWorkAgain"
      BY <2>0, <2>5, <2>b DEF LookAsleep, Go, At, Goto, coros, queues, locals
    <3>2. "Default" \notin tried[t]
      BY <2>0, <3>1 DEF SeenBy
    <3>3. CASE pc[t] = "look" /\ pc'[t] = "haveWork"
      BY <3>1, <3>2, <3>3 DEF SeenBy
    <3>4. CASE pc[t] = "lookAgain" /\ pc'[t] = "haveWorkAgain"
      <4>1. globalQueue["Default"] = <<>>
        BY <2>0, <3>4 DEF SeenBy
      <4>2. \A u \in Clients : call[u].item = NULL
        BY <1>2, <2>0, <3>4 DEF Control
      <4>3. \A c \in Coroutines : place[c] # "live"
        BY <1>2, <3>1, <4>1, <4>2, AllAsleep
      <4> QED BY <3>1, <3>2, <3>4, <4>1, <4>3 DEF SeenBy
    <3> QED BY <3>1, <3>3, <3>4
  <2>6. CASE LookWork(t)
    <3>1. PICK x \in QueuesOf("Default") \ tried[t] :
              /\ tried' = [tried EXCEPT ![t] = IF tried[t] \cup {x} = QueuesOf("Default") \/ Queue(x) # <<>>
                                               THEN {} ELSE tried[t] \cup {x}]
              /\ IF Queue(x) # <<>> THEN Goto(t, IF At(t, "haveWork") THEN "look" ELSE "lookAgain")
                 ELSE IF tried[t] \cup {x} = QueuesOf("Default")
                      THEN Goto(t, IF At(t, "haveWork") THEN "lookAgain" ELSE "sawIdle")
                 ELSE UNCHANGED pc
      BY <2>6 DEF LookWork
    <3>2. pc[t] \in {"haveWork", "haveWorkAgain"} /\ UNCHANGED <<place, globalQueue>>
      BY <2>6 DEF LookWork, coros, queues
    <3>3. CASE tried[t] \cup {x} = QueuesOf("Default") \/ Queue(x) # <<>>
      <4>1. tried'[t] = {}
        BY <2>0, <2>b, <3>1, <3>3
      <4>2. CASE Queue(x) # <<>>
        <5>1. \/ pc'[t] = "look"
              \/ pc'[t] = "lookAgain" /\ pc[t] = "haveWorkAgain"
          BY <2>0, <2>b, <3>1, <3>2, <4>2 DEF At, Goto
        <5> QED BY <2>0, <3>2, <4>1, <5>1 DEF SeenBy
      <4>3. CASE Queue(x) = <<>>
        <5>1. tried[t] \cup {x} = QueuesOf("Default")
          BY <3>3, <4>3
        <5>2. "Default" \in tried[t] \/ x = "Default"
          BY <5>1 DEF QueuesOf
        <5>3. globalQueue["Default"] = <<>>
          BY <1>0, <2>0, <4>3, <5>2 DEF SeenBy, Queue
        <5>4. \/ pc'[t] = "lookAgain" /\ pc[t] = "haveWork"
              \/ pc'[t] = "sawIdle" /\ pc[t] = "haveWorkAgain"
          BY <2>0, <2>b, <3>1, <3>2, <4>3, <5>1 DEF At, Goto
        <5> QED BY <2>0, <3>2, <4>1, <5>3, <5>4 DEF SeenBy
      <4> QED BY <4>2, <4>3
    <3>4. CASE tried[t] \cup {x} # QueuesOf("Default") /\ Queue(x) = <<>>
      <4>1. pc'[t] = pc[t] /\ tried'[t] = tried[t] \cup {x}
        BY <2>0, <2>b, <3>1, <3>4
      <4>2. x = "Default" => globalQueue["Default"] = <<>>
        BY <1>0, <3>4 DEF Queue
      <4> QED BY <2>0, <3>2, <4>1, <4>2 DEF SeenBy
    <3> QED BY <3>3, <3>4
  <2> QED BY <1>2, <2>3, <2>4, <2>5, <2>6, ClientMoves DEF LookMoves
<1> QED BY <1>0, <1>1, <1>2 DEF Seen

\* Where nothing but the default pool is used, and by one client, nothing is queued or
\* runs when waitForAllThreadsIdle() returns: the first haveWork()
\* has found the global queue empty, and it stays so; when all workers are counted asleep
\* after that they are, with empty queues and nothing in hand, so nothing is under way.
THEOREM PoolIdle == ASSUME \A t, u \in Clients : t = u PROVE Spec => []IdleMeansDone
<1>1. Init => PoolInv /\ Emptied /\ Seen
  <2> SUFFICES ASSUME Init PROVE PoolInv /\ Emptied /\ Seen
    OBVIOUS
  <2>1. /\ \A w \in Workers : localQueue[w] = <<>>
        /\ \A p \in Pools : globalQueue[p] = <<>>
        /\ \A t \in Threads : tried[t] = {}
    BY DEF Init
  <2>2. \A t \in Clients : pc[t] = "idle"
    BY Begins, ThreadFacts
  <2>3. Emptied
    BY <2>1 DEF Emptied
  <2>4. Seen
    BY <2>1, <2>2, ThreadFacts DEF Seen, SeenBy
  <2> QED BY <2>3, <2>4, PoolInit
<1>2. PoolInv /\ Emptied /\ Seen /\ [Next]_vars => (PoolInv /\ Emptied /\ Seen)'
  BY PoolStep, EmptiedStep, SeenStep
<1>3. PoolInv /\ Emptied /\ Seen => IdleMeansDone
  BY DEF Seen, SeenBy, IdleMeansDone, At
<1> QED BY <1>1, <1>2, <1>3, PTL DEF Spec

=============================================================================
