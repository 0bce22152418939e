------------------------- MODULE ConcurrentFifoList -------------------------
(***************************************************************************)
(* ConcurrentFifoList<ListNode> (concurrent_fifo_list.hpp): the intrusive  *)
(* list every primitive of the library keeps its waiters in, and every     *)
(* thread pool its ready coroutines.  One action is one access to a shared *)
(* atomic (m_head, m_tail, m_count or a node's m_next), which are all      *)
(* sequentially consistent; the local computation up to the next access is *)
(* part of it.  A spin loop is an action that is not enabled until the     *)
(* value it waits for is there, and a spurious failure of the weak         *)
(* compare-exchange changes nothing, so it is a stuttering step.           *)
(***************************************************************************)
EXTENDS Integers, Sequences, FiniteSets

CONSTANTS Enqueuers, Dequeuers, Removers,  \* the threads that call each operation
          Nodes,       \* the awaiters that are queued
          NULL,        \* nullptr
          CountRange   \* m_count wraps at this value (2^64 in the code)

Threads == Enqueuers \cup Dequeuers \cup Removers

ASSUME NullAssumption  == NULL \notin Nodes
ASSUME RangeAssumption == CountRange \in Nat \ {0}

VARIABLES
    head, tail, count, \* m_head, m_tail, m_count
    next,              \* m_next of every node
    free,              \* the nodes that are in no list and in no call
    pc,                \* where each thread is
    node,              \* dequeue's oldHead; enqueue's argument
    link,              \* dequeue's newHead; enqueue's oldTail
    target,            \* remove's nodeToRemove, NULL in a plain dequeue
    left,              \* the iterations remove has left, this one included
    queue              \* history: the nodes in the order of their tail exchanges

shared == <<head, tail, count, next>>
locals == <<node, link, target, left>>
vars   == <<head, tail, count, next, free, pc, node, link, target, left, queue>>

NodeOrNull == Nodes \cup {NULL}

\* The steps of dequeue() up to the compare-exchange that takes the front
\* node, after it, and the steps of enqueue() up to the exchange of m_tail
\* and after it.
Looking   == {"loadHead", "loadTail", "spinHead", "spinTail", "takeHead"}
Taking    == {"readNext", "storeHead", "dropTail", "awaitNext", "relinkHead"}
Taken     == {"clearNext", "countDown"}
Preparing == {"initNext", "swapTail"}
Joining   == {"linkTail", "linkHead", "countUp"}
Steps     == {"idle"} \cup Looking \cup Taking \cup Taken \cup Preparing \cup Joining

Init ==
    /\ head = NULL /\ tail = NULL /\ count = 0
    /\ next = [n \in Nodes |-> NULL]
    /\ free = Nodes
    /\ pc = [t \in Threads |-> "idle"]
    /\ node = [t \in Threads |-> NULL]
    /\ link = [t \in Threads |-> NULL]
    /\ target = [t \in Threads |-> NULL]
    /\ left = [t \in Threads |-> 0]
    /\ queue = <<>>

At(t, s) == pc[t] = s
Goto(t, s) == pc' = [pc EXCEPT ![t] = s]
Hold(t, n) == node' = [node EXCEPT ![t] = n]
Note(t, n) == link' = [link EXCEPT ![t] = n]

\* The call returns to its caller and its locals are gone.
Leave(t) ==
    /\ Goto(t, "idle")
    /\ Hold(t, NULL)
    /\ Note(t, NULL)
    /\ target' = [target EXCEPT ![t] = NULL]
    /\ left' = [left EXCEPT ![t] = 0]

\* dequeue() found the list empty: nullptr to a plain caller, false from remove().
LeaveEmpty(t) == Leave(t) /\ UNCHANGED <<shared, free, queue>>

-----------------------------------------------------------------------------
(* ListNode* dequeue() *)

Dequeue(t) ==
    /\ At(t, "idle") /\ t \in Dequeuers
    /\ Goto(t, "loadHead")
    /\ UNCHANGED <<shared, free, locals, queue>>

\* oldHead = m_head, at the entry, in the spin loop and on a failed exchange.
LoadHead(t, from, ifNull) ==
    /\ At(t, from)
    /\ Hold(t, head)
    /\ Goto(t, IF head = NULL THEN ifNull ELSE "takeHead")
    /\ UNCHANGED <<shared, free, link, target, left, queue>>

EnterDequeue(t) == LoadHead(t, "loadHead", "loadTail")
SpinHead(t)     == LoadHead(t, "spinHead", "spinTail")

\* Mutant of LoadTail: takes the empty head for an empty list.
LoadTailTrusting(t) == pc[t] \in {"loadTail", "spinTail"} /\ LeaveEmpty(t)

\* !oldHead: the list is empty only if m_tail is null as well.
LoadTail(t) ==
    /\ pc[t] \in {"loadTail", "spinTail"}
    /\ IF tail = NULL
         THEN LeaveEmpty(t)
         ELSE Goto(t, "spinHead") /\ UNCHANGED <<shared, free, locals, queue>>

\* Mutant of TakeHead: a store in the place of the compare-exchange.
TakeHeadUnchecked(t) ==
    /\ At(t, "takeHead")
    /\ head' = NULL
    /\ queue' = IF queue = <<>> THEN queue ELSE Tail(queue)
    /\ Goto(t, "readNext")
    /\ UNCHANGED <<tail, count, next, free, locals>>

\* The compare-exchange of m_head with nullptr: takes the front node and keeps
\* every other dequeue out until the head is stored again ...
TakeHead(t) ==
    /\ At(t, "takeHead") /\ head = node[t]
    /\ head' = NULL
    /\ queue' = Tail(queue)
    /\ Goto(t, "readNext")
    /\ UNCHANGED <<tail, count, next, free, locals>>

\* ... or fails and leaves the current head in oldHead.
MissHead(t) ==
    /\ head # node[t]
    /\ LoadHead(t, "takeHead", "loadTail")

ReadNext(t) ==
    /\ At(t, "readNext")
    /\ Note(t, next[node[t]])
    /\ Goto(t, "storeHead")
    /\ UNCHANGED <<shared, free, node, target, left, queue>>

StoreHead(t) ==
    /\ At(t, "storeHead")
    /\ head' = link[t]
    /\ Goto(t, IF link[t] = NULL THEN "dropTail" ELSE "clearNext")
    /\ UNCHANGED <<tail, count, next, free, locals, queue>>

DropTailNever(t) ==
    /\ At(t, "dropTail") /\ Goto(t, "awaitNext")
    /\ UNCHANGED <<shared, free, locals, queue>>

\* The node taken was the last one: m_tail goes from it to nullptr, unless an
\* enqueue has exchanged it meanwhile.
DropTail(t) ==
    /\ At(t, "dropTail")
    /\ tail' = IF tail = node[t] THEN NULL ELSE tail
    /\ Goto(t, IF tail = node[t] THEN "clearNext" ELSE "awaitNext")
    /\ UNCHANGED <<head, count, next, free, locals, queue>>

AwaitNext(t) ==
    /\ At(t, "awaitNext")
    /\ next[node[t]] # NULL
    /\ Goto(t, "relinkHead")
    /\ UNCHANGED <<shared, free, locals, queue>>

RelinkHead(t) ==
    /\ At(t, "relinkHead")
    /\ head' = next[node[t]]
    /\ Goto(t, "clearNext")
    /\ UNCHANGED <<tail, count, next, free, locals, queue>>

ClearNext(t) ==
    /\ At(t, "clearNext")
    /\ next' = [next EXCEPT ![node[t]] = NULL]
    /\ Goto(t, "countDown")
    /\ UNCHANGED <<head, tail, count, free, locals, queue>>

\* Mutants of CountDown: m_count is signed; remove() does not count its nodes.
CountDownSigned(t) ==
    /\ At(t, "countDown")
    /\ count' = count - 1
    /\ free' = free \cup {node[t]}
    /\ Leave(t)
    /\ UNCHANGED <<head, tail, next, queue>>

CountDownPlain(t) ==
    /\ At(t, "countDown")
    /\ count' = IF target[t] = NULL THEN (count - 1) % CountRange ELSE count
    /\ IF target[t] \in {NULL, node[t]}
         THEN /\ free' = free \cup {node[t]}
              /\ Leave(t)
         ELSE /\ Goto(t, "initNext")
              /\ Note(t, NULL)
              /\ UNCHANGED <<free, node, target, left>>
    /\ UNCHANGED <<head, tail, next, queue>>

\* m_count--; a plain dequeue() and a remove() that found its node hand the
\* node to their caller, any other node remove() puts back.
CountDown(t) ==
    /\ At(t, "countDown")
    /\ count' = (count - 1) % CountRange
    /\ IF target[t] \in {NULL, node[t]}
         THEN /\ free' = free \cup {node[t]}
              /\ Leave(t)
         ELSE /\ Goto(t, "initNext")
              /\ Note(t, NULL)
              /\ UNCHANGED <<free, node, target, left>>
    /\ UNCHANGED <<head, tail, next, queue>>

-----------------------------------------------------------------------------
(* void enqueue(ListNode* node) *)

Enqueue(t, n) ==
    /\ At(t, "idle") /\ t \in Enqueuers
    /\ n \in free
    /\ free' = free \ {n}
    /\ Hold(t, n)
    /\ Goto(t, "initNext")
    /\ UNCHANGED <<shared, link, target, left, queue>>

InitNext(t) ==
    /\ At(t, "initNext")
    /\ next' = [next EXCEPT ![node[t]] = NULL]
    /\ Goto(t, "swapTail")
    /\ UNCHANGED <<head, tail, count, free, locals, queue>>

SwapTail(t) ==
    /\ At(t, "swapTail")
    /\ Note(t, tail)
    /\ tail' = node[t]
    /\ queue' = Append(queue, node[t])
    /\ Goto(t, IF tail = NULL THEN "linkHead" ELSE "linkTail")
    /\ UNCHANGED <<head, count, next, free, node, target, left>>

\* Mutant of LinkTail: the link is stored the wrong way round.
LinkTailSwapped(t) ==
    /\ At(t, "linkTail")
    /\ next' = [next EXCEPT ![node[t]] = link[t]]
    /\ Goto(t, "countUp")
    /\ UNCHANGED <<head, tail, count, free, locals, queue>>

LinkTail(t) ==
    /\ At(t, "linkTail")
    /\ next' = [next EXCEPT ![link[t]] = node[t]]
    /\ Goto(t, "countUp")
    /\ UNCHANGED <<head, tail, count, free, locals, queue>>

LinkHead(t) ==
    /\ At(t, "linkHead")
    /\ head' = node[t]
    /\ Goto(t, "countUp")
    /\ UNCHANGED <<tail, count, next, free, locals, queue>>

\* m_count++; remove() goes round again while it has iterations left.
CountUp(t) ==
    /\ At(t, "countUp")
    /\ count' = (count + 1) % CountRange
    /\ IF left[t] > 1
         THEN /\ Goto(t, "loadHead")
              /\ Hold(t, NULL)
              /\ Note(t, NULL)
              /\ left' = [left EXCEPT ![t] = @ - 1]
              /\ UNCHANGED target
         ELSE Leave(t)
    /\ UNCHANGED <<head, tail, next, free, queue>>

-----------------------------------------------------------------------------
(* bool remove(ListNode* nodeToRemove), isEmpty() and count() *)

\* Takes nodes out and puts them back, twice m_count times at most; when m_count
\* reads 0 it returns false at once, which changes nothing.
Remove(t, n) ==
    /\ At(t, "idle") /\ t \in Removers
    /\ (2 * count) % CountRange > 0
    /\ target' = [target EXCEPT ![t] = n]
    /\ left' = [left EXCEPT ![t] = (2 * count) % CountRange]
    /\ Goto(t, "loadHead")
    /\ UNCHANGED <<shared, free, node, link, queue>>

IsEmpty == head = NULL

-----------------------------------------------------------------------------
\* What a thread does once it is inside a call.
Step(t) ==
    \/ EnterDequeue(t) \/ SpinHead(t) \/ LoadTail(t) \/ TakeHead(t) \/ MissHead(t)
    \/ ReadNext(t) \/ StoreHead(t) \/ DropTail(t) \/ AwaitNext(t) \/ RelinkHead(t)
    \/ ClearNext(t) \/ CountDown(t)
    \/ InitNext(t) \/ SwapTail(t) \/ LinkTail(t) \/ LinkHead(t) \/ CountUp(t)

Call(t) ==
    \/ Dequeue(t)
    \/ \E n \in Nodes : Enqueue(t, n) \/ Remove(t, n)

Next == \E t \in Threads : Call(t) \/ Step(t)

Spec == Init /\ [][Next]_vars

-----------------------------------------------------------------------------
(* Properties *)

\* The type invariant.
TypeOK ==
    /\ head \in NodeOrNull /\ tail \in NodeOrNull
    /\ count \in 0 .. CountRange - 1
    /\ next \in [Nodes -> NodeOrNull]
    /\ free \in SUBSET Nodes
    /\ pc \in [Threads -> Steps]
    /\ node \in [Threads -> NodeOrNull]
    /\ link \in [Threads -> NodeOrNull]
    /\ target \in [Threads -> NodeOrNull]
    /\ left \in [Threads -> Nat]
    /\ \A t \in Threads :
         pc[t] \in {"takeHead"} \cup Taking \cup Taken \cup Preparing \cup Joining
           => node[t] \in Nodes
    /\ \A t \in Threads : At(t, "linkTail") => link[t] \in Nodes

\* A thread that has taken m_head away, or found the list empty with its m_tail
\* exchange, and is the one to store m_head next.
HeadOwner(t) == pc[t] \in Taking \cup {"linkHead"}

\* While one thread owes the list its head, the head is null and nobody else
\* owes it: the assertions of dequeue() (lines 44, 50, 57) and enqueue() (lines
\* 76 and 78) hold, and no store of m_head loses another one.
HeadExclusive ==
    \A t \in Threads : HeadOwner(t) =>
        /\ head = NULL
        /\ tail # NULL
        /\ \A u \in Threads \ {t} : ~HeadOwner(u)

\* The nodes a thread has in hand: on their way in, or taken out.
Holds(t, n) == node[t] = n /\ pc[t] \in Taking \cup Taken \cup Preparing
Queued(n)   == \E i \in 1 .. Len(queue) : queue[i] = n

\* Every awaiter is in exactly one place: free, queued once, or in the hands of
\* one thread.  Two dequeues never return the same node (a coroutine resumed
\* twice) and none is dropped (a coroutine never resumed).
OnePlace ==
    /\ \A i, j \in 1 .. Len(queue) : queue[i] = queue[j] => i = j
    /\ \A t, u \in Threads, n \in Nodes : Holds(t, n) /\ Holds(u, n) => t = u
    /\ \A n \in Nodes :
         /\ Queued(n) => ~\E t \in Threads : Holds(t, n)
         /\ n \in free <=> ~Queued(n) /\ ~\E t \in Threads : Holds(t, n)

\* An enqueue that still has to link its predecessor finds it pinned: it is in
\* the list or held by the dequeue that waits for this very link, so its
\* awaiter has not been handed out (and destroyed), and its m_next is null
\* (the assertion of line 73).
LinkTargetPinned ==
    \A t \in Threads : At(t, "linkTail") =>
        /\ next[link[t]] = NULL
        /\ Queued(link[t]) \/ \E u \in Threads : node[u] = link[t] /\ pc[u] \in Taking

\* m_count is the length of the list, corrected by the calls that have changed
\* the list and not yet the count; it may be off by those, and wrap below zero.
CountExact ==
    count = (Len(queue)
              + Cardinality({t \in Threads : pc[t] \in Taking \cup Taken})
              - Cardinality({t \in Threads : pc[t] \in Joining})) % CountRange

\* The nodes are chained from m_head to m_tail in the order of their tail
\* exchanges, except where an enqueue is about to store the missing link, and
\* except for a head on loan: isEmpty() may call a list empty that is not, but
\* never the other way round.
Chained ==
    /\ queue \in Seq(Nodes)
    /\ ~IsEmpty => queue # <<>> /\ head = queue[1]
    /\ queue # <<>> => tail = queue[Len(queue)]
    /\ \A i \in 1 .. Len(queue) - 1 :
         \/ next[queue[i]] = queue[i + 1]
         \/ /\ next[queue[i]] = NULL
            /\ \E t \in Threads :
                 At(t, "linkTail") /\ link[t] = queue[i] /\ node[t] = queue[i + 1]

\* Whoever spins has someone to wait for, who does not spin for a head himself:
\* a null head with a tail is owed by a thread, and the link that the owner of
\* the head may be waiting for by an enqueue, which never waits.  So no dequeue()
\* and no remove() spins for ever while the threads run.
SpinsForSomeone ==
    /\ head = NULL /\ tail # NULL => \E t \in Threads : HeadOwner(t)
    /\ \A t \in Threads : At(t, "awaitNext") /\ next[node[t]] = NULL =>
         \E u \in Threads : At(u, "linkTail") /\ link[u] = node[t]

\* What each call has come to, in the terms of FifoQueue.
AbsCall ==
    [t \in Threads |->
       CASE pc[t] \in Looking -> [op |-> "deq"]
         [] pc[t] \in Taking \cup Taken -> [op |-> "got", node |-> node[t]]
         [] pc[t] \in Preparing -> [op |-> "enq", node |-> node[t]]
         [] pc[t] \in Joining -> [op |-> "did", node |-> node[t]]
         [] OTHER -> [op |-> "none"]]

\* The list implements the linearizable queue of FifoQueue.
Abs == INSTANCE FifoQueue WITH queue <- queue, call <- AbsCall

ImplementsFifoQueue == Abs!Spec
=============================================================================
