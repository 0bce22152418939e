---------------------- MODULE ConcurrentFifoListProofs ----------------------
(***************************************************************************)
(* Proofs about ConcurrentFifoList, for any number of threads, any set of  *)
(* nodes and any width of m_count: types, who owns the head, and the shape *)
(* of the list while any number of calls are under way, which says where   *)
(* every node is, how the nodes are linked and what the locals of each     *)
(* call stand for, what m_count counts, and that the list is a FifoQueue.  *)
(***************************************************************************)
EXTENDS ConcurrentFifoList, SequenceTheorems, FiniteSetTheorems, TLAPS

\* The remainder of an integer is below the divisor: m_count keeps its width.
LEMMA ModRange ==
    ASSUME NEW a \in Int, NEW b \in Nat \ {0}
    PROVE  a % b \in 0 .. b - 1
  OBVIOUS

-----------------------------------------------------------------------------
(* Type correctness *)

\* Every step of a thread keeps the types.
LEMMA TypeStep == TypeOK /\ [Next]_vars => TypeOK'
  <1> SUFFICES ASSUME TypeOK, [Next]_vars PROVE TypeOK'
    OBVIOUS
  <1> USE NullAssumption, RangeAssumption
      DEF TypeOK, NodeOrNull, Steps, Looking, Taking, Taken, Preparing, Joining,
          At, Goto, Hold, Note, Leave, LeaveEmpty, shared, locals
  <1>1. ASSUME NEW t \in Threads, Dequeue(t) PROVE TypeOK'
    BY <1>1 DEF Dequeue
  <1>2. ASSUME NEW t \in Threads, NEW n \in Nodes, Enqueue(t, n) PROVE TypeOK'
    BY <1>2 DEF Enqueue
  <1>3. ASSUME NEW t \in Threads, NEW n \in Nodes, Remove(t, n) PROVE TypeOK'
    BY <1>3 DEF Remove
  <1>4. ASSUME NEW t \in Threads, EnterDequeue(t) PROVE TypeOK'
    BY <1>4 DEF EnterDequeue, LoadHead
  <1>5. ASSUME NEW t \in Threads, SpinHead(t) PROVE TypeOK'
    BY <1>5 DEF SpinHead, LoadHead
  <1>6. ASSUME NEW t \in Threads, LoadTail(t) PROVE TypeOK'
    BY <1>6 DEF LoadTail
  <1>7. ASSUME NEW t \in Threads, TakeHead(t) PROVE TypeOK'
    BY <1>7 DEF TakeHead
  <1>8. ASSUME NEW t \in Threads, MissHead(t) PROVE TypeOK'
    BY <1>8 DEF MissHead, LoadHead
  <1>9. ASSUME NEW t \in Threads, ReadNext(t) PROVE TypeOK'
    BY <1>9 DEF ReadNext
  <1>10. ASSUME NEW t \in Threads, StoreHead(t) PROVE TypeOK'
    BY <1>10 DEF StoreHead
  <1>11. ASSUME NEW t \in Threads, DropTail(t) PROVE TypeOK'
    BY <1>11 DEF DropTail
  <1>12. ASSUME NEW t \in Threads, AwaitNext(t) PROVE TypeOK'
    BY <1>12 DEF AwaitNext
  <1>13. ASSUME NEW t \in Threads, RelinkHead(t) PROVE TypeOK'
    BY <1>13 DEF RelinkHead
  <1>14. ASSUME NEW t \in Threads, ClearNext(t) PROVE TypeOK'
    BY <1>14 DEF ClearNext
  <1>15. ASSUME NEW t \in Threads, CountDown(t) PROVE TypeOK'
    <2>1. count' \in 0 .. CountRange - 1
      BY <1>15, ModRange DEF CountDown
    <2>2. QED
      BY <1>15, <2>1 DEF CountDown
  <1>16. ASSUME NEW t \in Threads, InitNext(t) PROVE TypeOK'
    BY <1>16 DEF InitNext
  <1>17. ASSUME NEW t \in Threads, SwapTail(t) PROVE TypeOK'
    BY <1>17 DEF SwapTail
  <1>18. ASSUME NEW t \in Threads, LinkTail(t) PROVE TypeOK'
    BY <1>18 DEF LinkTail
  <1>19. ASSUME NEW t \in Threads, LinkHead(t) PROVE TypeOK'
    BY <1>19 DEF LinkHead
  <1>20. ASSUME NEW t \in Threads, CountUp(t) PROVE TypeOK'
    <2>1. count' \in 0 .. CountRange - 1
      BY <1>20, ModRange DEF CountUp
    <2>2. QED
      BY <1>20, <2>1 DEF CountUp
  <1>21. CASE UNCHANGED vars
    BY <1>21 DEF vars
  <1> QED
    BY <1>1, <1>2, <1>3, <1>4, <1>5, <1>6, <1>7, <1>8, <1>9, <1>10, <1>11,
       <1>12, <1>13, <1>14, <1>15, <1>16, <1>17, <1>18, <1>19, <1>20, <1>21 DEF Next, Call, Step

\* Every variable keeps its type: m_count its width, and a call that is past its
\* first null check has a node in hand.
THEOREM TypeCorrect == Spec => []TypeOK
  <1>1. Init => TypeOK
    BY NullAssumption, RangeAssumption DEF Init, TypeOK, NodeOrNull, Steps, At,
       Looking, Taking, Taken, Preparing, Joining
  <1> QED
    BY <1>1, TypeStep, PTL DEF Spec

-----------------------------------------------------------------------------
(* The head has one owner *)

\* HeadExclusive is not inductive: that an enqueue that finds m_tail null is the
\* only one to owe the head also needs that a list with a head has a tail.
HeadInv ==
    /\ HeadExclusive
    /\ head # NULL => tail # NULL

\* Every step keeps the ownership of the head.
LEMMA HeadStep == TypeOK /\ HeadInv /\ [Next]_vars => HeadInv'
  <1> SUFFICES ASSUME TypeOK, HeadInv, [Next]_vars PROVE HeadInv'
    OBVIOUS
  <1>0. /\ pc \in [Threads -> Steps] /\ node \in [Threads -> NodeOrNull]
        /\ \A t \in Threads : pc[t] \in {"takeHead"} \cup Preparing => node[t] # NULL
    BY NullAssumption DEF TypeOK
  <1> USE <1>0 DEF HeadInv, HeadExclusive, HeadOwner, Taking, Preparing,
          At, Goto, Hold, Note, Leave, LeaveEmpty, shared, locals
  <1>1. ASSUME NEW t \in Threads, Dequeue(t) PROVE HeadInv'
    BY <1>1 DEF Dequeue
  <1>2. ASSUME NEW t \in Threads, NEW n \in Nodes, Enqueue(t, n) PROVE HeadInv'
    BY <1>2 DEF Enqueue
  <1>3. ASSUME NEW t \in Threads, NEW n \in Nodes, Remove(t, n) PROVE HeadInv'
    BY <1>3 DEF Remove
  <1>4. ASSUME NEW t \in Threads, EnterDequeue(t) PROVE HeadInv'
    BY <1>4 DEF EnterDequeue, LoadHead
  <1>5. ASSUME NEW t \in Threads, SpinHead(t) PROVE HeadInv'
    BY <1>5 DEF SpinHead, LoadHead
  <1>6. ASSUME NEW t \in Threads, LoadTail(t) PROVE HeadInv'
    BY <1>6 DEF LoadTail
  <1>7. ASSUME NEW t \in Threads, TakeHead(t) PROVE HeadInv'
    BY <1>7 DEF TakeHead
  <1>8. ASSUME NEW t \in Threads, MissHead(t) PROVE HeadInv'
    BY <1>8 DEF MissHead, LoadHead
  <1>9. ASSUME NEW t \in Threads, ReadNext(t) PROVE HeadInv'
    BY <1>9 DEF ReadNext
  <1>10. ASSUME NEW t \in Threads, StoreHead(t) PROVE HeadInv'
    BY <1>10 DEF StoreHead
  <1>11. ASSUME NEW t \in Threads, DropTail(t) PROVE HeadInv'
    BY <1>11 DEF DropTail
  <1>12. ASSUME NEW t \in Threads, AwaitNext(t) PROVE HeadInv'
    BY <1>12 DEF AwaitNext
  <1>13. ASSUME NEW t \in Threads, RelinkHead(t) PROVE HeadInv'
    BY <1>13 DEF RelinkHead
  <1>14. ASSUME NEW t \in Threads, ClearNext(t) PROVE HeadInv'
    BY <1>14 DEF ClearNext
  <1>15. ASSUME NEW t \in Threads, CountDown(t) PROVE HeadInv'
    BY <1>15 DEF CountDown
  <1>16. ASSUME NEW t \in Threads, InitNext(t) PROVE HeadInv'
    BY <1>16 DEF InitNext
  <1>17. ASSUME NEW t \in Threads, SwapTail(t) PROVE HeadInv'
    BY <1>17 DEF SwapTail
  <1>18. ASSUME NEW t \in Threads, LinkTail(t) PROVE HeadInv'
    BY <1>18 DEF LinkTail
  <1>19. ASSUME NEW t \in Threads, LinkHead(t) PROVE HeadInv'
    BY <1>19 DEF LinkHead
  <1>20. ASSUME NEW t \in Threads, CountUp(t) PROVE HeadInv'
    BY <1>20 DEF CountUp
  <1>21. CASE UNCHANGED vars
    BY <1>21 DEF vars
  <1> QED
    BY <1>1, <1>2, <1>3, <1>4, <1>5, <1>6, <1>7, <1>8, <1>9, <1>10, <1>11,
       <1>12, <1>13, <1>14, <1>15, <1>16, <1>17, <1>18, <1>19, <1>20, <1>21 DEF Next, Call, Step

\* At most one thread owes the list its head, and while one does m_head is null:
\* the assertions of dequeue() (lines 44, 50, 57) and of enqueue() (lines 76 and
\* 78) hold however many threads call them.
THEOREM HeadIsExclusive == Spec => []HeadExclusive
  <1>1. Init => HeadInv
    BY DEF Init, HeadInv, HeadExclusive, HeadOwner, Taking
  <1>2. HeadInv => HeadExclusive
    BY DEF HeadInv
  <1> QED
    BY <1>1, <1>2, HeadStep, TypeCorrect, PTL DEF Spec

-----------------------------------------------------------------------------
(* The shape of the list *)


\* A head is the front of the queue, the tail is its back and has no successor
\* yet, and a null head with a tail is on loan to a thread.
EndsKnown ==
    /\ head # NULL => Len(queue) > 0 /\ head = queue[1]
    /\ Len(queue) > 0 => tail = queue[Len(queue)] /\ next[tail] = NULL
    /\ head = NULL /\ tail # NULL => \E t \in Threads : HeadOwner(t)

\* Thread t is about to store n in the m_next of m.
Links(t, m, n) == At(t, "linkTail") /\ link[t] = m /\ node[t] = n

\* m is followed by n: the link is there, or an enqueue is about to store it.
Follows(m, n) ==
    \/ next[m] = n
    \/ next[m] = NULL /\ \E t \in Threads : Links(t, m, n)

QueueLinked == \A i \in 1 .. Len(queue) - 1 : Follows(queue[i], queue[i + 1])

\* The target of a missing link is the predecessor in the queue, or the node of
\* the dequeue that took the one in front of the queue.
Placed(t) ==
    /\ next[link[t]] = NULL
    /\ \/ \E i \in 1 .. Len(queue) - 1 : Links(t, queue[i], queue[i + 1])
       \/ /\ Len(queue) > 0 /\ node[t] = queue[1]
          /\ \E u \in Threads : pc[u] \in Taking /\ node[u] = link[t]

LinkersPlaced == \A t \in Threads : At(t, "linkTail") => Placed(t)

LinkersApart ==
    \A t, u \in Threads :
        At(t, "linkTail") /\ At(u, "linkTail") /\ link[t] = link[u] => t = u

\* The node a dequeue has taken away with the head still precedes the queue.
LoanFollowed ==
    \A t \in Threads : pc[t] \in Taking =>
        IF Len(queue) = 0
          THEN tail = node[t] /\ next[node[t]] = NULL
          ELSE Follows(node[t], queue[1])

\* What the local variables of a call stand for.
OwnersKnown ==
    /\ \A t \in Threads : At(t, "storeHead") /\ link[t] # NULL => link[t] = next[node[t]]
    /\ \A t \in Threads : At(t, "awaitNext") => Len(queue) > 0
    /\ \A t \in Threads : At(t, "relinkHead") => next[node[t]] # NULL
    /\ \A t \in Threads : At(t, "swapTail") => next[node[t]] = NULL
    /\ \A t \in Threads : At(t, "linkHead") => Len(queue) > 0 /\ node[t] = queue[1]

\* The inductive invariant.
Shape ==
    /\ TypeOK /\ queue \in Seq(Nodes)
    /\ HeadInv
    /\ OnePlace
    /\ EndsKnown
    /\ QueueLinked
    /\ LinkersPlaced
    /\ LinkersApart
    /\ LoanFollowed
    /\ OwnersKnown

-----------------------------------------------------------------------------
(* What a tail exchange and the taking of the head do to the queue *)

\* The queue without the node in front.
LEMMA TakeQueue ==
    ASSUME queue \in Seq(Nodes), Len(queue) > 0, queue' = Tail(queue)
    PROVE  /\ queue' \in Seq(Nodes)
           /\ Len(queue') = Len(queue) - 1
           /\ \A i \in 1 .. Len(queue) - 1 : queue'[i] = queue[i + 1]
  BY HeadTailProperties, EmptySeq, LenProperties

\* The queue with one more node at the back.
LEMMA PutQueue ==
    ASSUME queue \in Seq(Nodes), NEW n \in Nodes, queue' = Append(queue, n)
    PROVE  /\ queue' \in Seq(Nodes)
           /\ Len(queue') = Len(queue) + 1
           /\ \A i \in 1 .. Len(queue) : queue'[i] = queue[i]
           /\ queue'[Len(queue) + 1] = n
  BY AppendProperties, LenProperties

-----------------------------------------------------------------------------
(* The targets of the missing links *)

\* The node an enqueue is to link is not the last one.
LEMMA TargetNotLast ==
    ASSUME Shape, NEW t \in Threads, At(t, "linkTail")
    PROVE  Len(queue) > 0 /\ link[t] # tail
  <1>1. /\ Len(queue) \in Nat /\ OnePlace /\ EndsKnown /\ LinkersPlaced
    BY LenProperties DEF Shape
  <1>2. CASE \E i \in 1 .. Len(queue) - 1 : link[t] = queue[i]
    <2>1. PICK i \in 1 .. Len(queue) - 1 : link[t] = queue[i]
      BY <1>2
    <2>2. i # Len(queue) /\ i \in 1 .. Len(queue) /\ Len(queue) \in 1 .. Len(queue)
      BY <1>1, <2>1
    <2> QED
      BY <1>1, <2>1, <2>2 DEF OnePlace, EndsKnown
  <1>3. CASE Len(queue) > 0 /\ \E u \in Threads : pc[u] \in Taking /\ node[u] = link[t]
    <2>1. Len(queue) \in 1 .. Len(queue) /\ tail = queue[Len(queue)] /\ queue[Len(queue)] \in Nodes
      BY <1>1, <1>3, ElementOfSeq DEF EndsKnown, Shape
    <2> QED
      BY <1>1, <1>3, <2>1 DEF OnePlace, Holds, Queued
  <1> QED
    BY <1>1, <1>2, <1>3 DEF LinkersPlaced, Placed, Links

\* The node an enqueue is to link to a node of the queue is the next one there.
LEMMA TargetSuccessor ==
    ASSUME Shape, NEW t \in Threads, At(t, "linkTail"),
           NEW i \in 1 .. Len(queue) - 1, queue[i] = link[t]
    PROVE  node[t] = queue[i + 1]
  <1>1. /\ Len(queue) \in Nat /\ OnePlace /\ LinkersPlaced
        /\ i \in 1 .. Len(queue) /\ queue[i] \in Nodes
    BY LenProperties, ElementOfSeq DEF Shape
  <1>2. CASE \E j \in 1 .. Len(queue) - 1 : Links(t, queue[j], queue[j + 1])
    <2>1. PICK j \in 1 .. Len(queue) - 1 : Links(t, queue[j], queue[j + 1])
      BY <1>2
    <2>2. j \in 1 .. Len(queue) /\ queue[i] = queue[j]
      BY <1>1, <2>1 DEF Links
    <2> QED
      BY <1>1, <2>1, <2>2 DEF OnePlace, Links
  <1>3. CASE \E u \in Threads : pc[u] \in Taking /\ node[u] = link[t]
    BY <1>1, <1>3 DEF OnePlace, Holds, Queued
  <1> QED
    BY <1>1, <1>2, <1>3 DEF LinkersPlaced, Placed

\* The decrement of m_count leaves the nodes and the other calls alone.
LEMMA CountDownFrame ==
    ASSUME Shape, NEW t \in Threads, CountDown(t)
    PROVE  /\ pc[t] = "countDown" /\ pc'[t] \in {"idle", "initNext"}
           /\ head' = head /\ tail' = tail /\ next' = next /\ queue' = queue
           /\ \A u \in Threads \ {t} : pc'[u] = pc[u] /\ node'[u] = node[u] /\ link'[u] = link[u]
  <1>1. /\ pc \in [Threads -> Steps] /\ node \in [Threads -> NodeOrNull]
        /\ link \in [Threads -> NodeOrNull]
    BY DEF Shape, TypeOK
  <1> QED
    BY <1>1 DEF CountDown, At, Goto, Hold, Note, Leave

\* So does its increment.
LEMMA CountUpFrame ==
    ASSUME Shape, NEW t \in Threads, CountUp(t)
    PROVE  /\ pc[t] = "countUp" /\ pc'[t] \in {"idle", "loadHead"}
           /\ head' = head /\ tail' = tail /\ next' = next /\ queue' = queue
           /\ \A u \in Threads \ {t} : pc'[u] = pc[u] /\ node'[u] = node[u] /\ link'[u] = link[u]
  <1>1. /\ pc \in [Threads -> Steps] /\ node \in [Threads -> NodeOrNull]
        /\ link \in [Threads -> NodeOrNull]
    BY DEF Shape, TypeOK
  <1> QED
    BY <1>1 DEF CountUp, At, Goto, Hold, Note, Leave

-----------------------------------------------------------------------------
(* The invariant is inductive *)

\* Every step keeps every node in one place.
LEMMA OnePlaceStep == Shape /\ [Next]_vars => OnePlace'
  <1> SUFFICES ASSUME Shape, [Next]_vars PROVE OnePlace'
    OBVIOUS
  <1>t. /\ pc \in [Threads -> Steps] /\ node \in [Threads -> NodeOrNull]
        /\ \A u \in Threads :
             pc[u] \in {"takeHead"} \cup Taking \cup Taken \cup Preparing
               => node[u] \in Nodes
        /\ queue \in Seq(Nodes) /\ Len(queue) \in Nat
        /\ OnePlace
    BY LenProperties DEF Shape, TypeOK
  <1> USE DEF OnePlace, Holds, Queued, Looking, Taking, Taken, Preparing, Joining,
          At, Goto, Hold, Note, Leave, LeaveEmpty, shared, locals, NodeOrNull
  <1>1. ASSUME NEW t \in Threads, Dequeue(t) PROVE OnePlace'
    BY <1>1, <1>t DEF Dequeue
  <1>2. ASSUME NEW t \in Threads, NEW n \in Nodes, Enqueue(t, n) PROVE OnePlace'
    BY <1>2, <1>t DEF Enqueue
  <1>3. ASSUME NEW t \in Threads, NEW n \in Nodes, Remove(t, n) PROVE OnePlace'
    BY <1>3, <1>t DEF Remove
  <1>4. ASSUME NEW t \in Threads, EnterDequeue(t) PROVE OnePlace'
    BY <1>4, <1>t DEF EnterDequeue, LoadHead
  <1>5. ASSUME NEW t \in Threads, SpinHead(t) PROVE OnePlace'
    BY <1>5, <1>t DEF SpinHead, LoadHead
  <1>6. ASSUME NEW t \in Threads, LoadTail(t) PROVE OnePlace'
    <2>1. CASE tail = NULL
      BY <1>6, <1>t, <2>1 DEF LoadTail
    <2>2. CASE tail # NULL
      BY <1>6, <1>t, <2>2 DEF LoadTail
    <2> QED
      BY <2>1, <2>2
  <1>7. ASSUME NEW t \in Threads, TakeHead(t) PROVE OnePlace'
    <2>0. Len(queue) > 0 /\ node[t] = queue[1] /\ node[t] \in Nodes
      BY <1>7, <1>t, NullAssumption DEF Shape, EndsKnown, TakeHead
    <2>1. /\ Len(queue') = Len(queue) - 1
          /\ \A i \in 1 .. Len(queue) - 1 : queue'[i] = queue[i + 1]
      BY <1>7, <1>t, <2>0, TakeQueue DEF TakeHead
    <2>2. \A n \in Nodes : Queued(n)' <=> Queued(n) /\ n # node[t]
      <3> SUFFICES ASSUME NEW n \in Nodes PROVE Queued(n)' <=> Queued(n) /\ n # node[t]
        OBVIOUS
      <3>1. ASSUME Queued(n)' PROVE Queued(n) /\ n # node[t]
        <4>1. PICK i \in 1 .. Len(queue) - 1 : queue[i + 1] = n
          BY <2>1, <3>1
        <4>2. i + 1 \in 1 .. Len(queue) /\ 1 \in 1 .. Len(queue) /\ i + 1 # 1
          BY <1>t, <2>0
        <4> QED
          BY <1>t, <2>0, <4>1, <4>2
      <3>2. ASSUME Queued(n), n # node[t] PROVE Queued(n)'
        <4>1. PICK i \in 2 .. Len(queue) : queue[i] = n
          BY <1>t, <2>0, <3>2
        <4>2. queue'[i - 1] = n /\ i - 1 \in 1 .. Len(queue')
          BY <2>1, <4>1
        <4> QED
          BY <4>2
      <3> QED
        BY <3>1, <3>2
    <2>3. \A u \in Threads, n \in Nodes : Holds(u, n)' <=> Holds(u, n) \/ (u = t /\ n = node[t])
      <3> pc' = [pc EXCEPT ![t] = "readNext"] /\ pc[t] = "takeHead" /\ node' = node
        BY <1>7 DEF TakeHead
      <3> QED
        BY <1>t
    <2>4. Queued(node[t])
      BY <1>t, <2>0
    <2>5. \A i, j \in 1 .. Len(queue') : queue'[i] = queue'[j] => i = j
      <3> SUFFICES ASSUME NEW i \in 1 .. Len(queue) - 1, NEW j \in 1 .. Len(queue) - 1,
                          queue[i + 1] = queue[j + 1]
                   PROVE  i = j
        BY <2>1
      <3> i + 1 \in 1 .. Len(queue) /\ j + 1 \in 1 .. Len(queue)
        BY <1>t
      <3> QED
        BY <1>t
    <2>6. free' = free
      BY <1>7 DEF TakeHead
    <2>7. OnePlace
      BY <1>t
    <2> HIDE DEF Queued, Holds
    <2> QED
      BY <2>7, <2>0, <2>2, <2>3, <2>4, <2>5, <2>6
  <1>8. ASSUME NEW t \in Threads, MissHead(t) PROVE OnePlace'
    BY <1>8, <1>t DEF MissHead, LoadHead
  <1>9. ASSUME NEW t \in Threads, ReadNext(t) PROVE OnePlace'
    BY <1>9, <1>t DEF ReadNext
  <1>10. ASSUME NEW t \in Threads, StoreHead(t) PROVE OnePlace'
    BY <1>10, <1>t DEF StoreHead
  <1>11. ASSUME NEW t \in Threads, DropTail(t) PROVE OnePlace'
    BY <1>11, <1>t DEF DropTail
  <1>12. ASSUME NEW t \in Threads, AwaitNext(t) PROVE OnePlace'
    BY <1>12, <1>t DEF AwaitNext
  <1>13. ASSUME NEW t \in Threads, RelinkHead(t) PROVE OnePlace'
    BY <1>13, <1>t DEF RelinkHead
  <1>14. ASSUME NEW t \in Threads, ClearNext(t) PROVE OnePlace'
    BY <1>14, <1>t DEF ClearNext
  <1>15. ASSUME NEW t \in Threads, CountDown(t) PROVE OnePlace'
    <2>1. CASE target[t] \in {NULL, node[t]}
      <3>1. /\ pc[t] = "countDown" /\ free' = free \cup {node[t]} /\ queue' = queue
            /\ pc' = [pc EXCEPT ![t] = "idle"] /\ node' = [node EXCEPT ![t] = NULL]
        BY <1>15, <2>1 DEF CountDown
      <3>2. \A u \in Threads, n \in Nodes : Holds(u, n)' <=> Holds(u, n) /\ u # t
        BY <1>t, <3>1
      <3>3. /\ Holds(t, node[t]) /\ node[t] \in Nodes
            /\ \A n \in Nodes : Holds(t, n) => n = node[t]
        BY <1>t, <3>1
      <3>4. \A n \in Nodes : Queued(n)' <=> Queued(n)
        BY <3>1
      <3>5. OnePlace
        BY <1>t
      <3> HIDE DEF Holds, Queued
      <3>6. \A u \in Threads, n \in Nodes : n = node[t] => ~Holds(u, n)'
        BY <3>2, <3>3, <3>5
      <3>7. ~Queued(node[t])
        BY <3>3, <3>5
      <3>8. \A u \in Threads, n \in Nodes : n # node[t] => (Holds(u, n)' <=> Holds(u, n))
        BY <3>2, <3>3, <3>5
      <3> QED
        BY <3>1, <3>2, <3>3, <3>4, <3>5, <3>6, <3>7, <3>8
    <2>2. CASE target[t] \notin {NULL, node[t]}
      BY <1>15, <1>t, <2>2 DEF CountDown
    <2> QED
      BY <2>1, <2>2
  <1>16. ASSUME NEW t \in Threads, InitNext(t) PROVE OnePlace'
    BY <1>16, <1>t DEF InitNext
  <1>17. ASSUME NEW t \in Threads, SwapTail(t) PROVE OnePlace'
    <2>0. node[t] \in Nodes
      BY <1>17, <1>t DEF SwapTail
    <2>1. /\ Len(queue') = Len(queue) + 1
          /\ \A i \in 1 .. Len(queue) : queue'[i] = queue[i]
          /\ queue'[Len(queue) + 1] = node[t]
      BY <1>17, <1>t, <2>0, PutQueue DEF SwapTail
    <2> QED
      BY <1>17, <1>t, <2>0, <2>1 DEF SwapTail
  <1>18. ASSUME NEW t \in Threads, LinkTail(t) PROVE OnePlace'
    BY <1>18, <1>t DEF LinkTail
  <1>19. ASSUME NEW t \in Threads, LinkHead(t) PROVE OnePlace'
    BY <1>19, <1>t DEF LinkHead
  <1>20. ASSUME NEW t \in Threads, CountUp(t) PROVE OnePlace'
    BY <1>20, <1>t DEF CountUp
  <1>21. CASE UNCHANGED vars
    BY <1>21, <1>t DEF vars
  <1> QED
    BY <1>1, <1>2, <1>3, <1>4, <1>5, <1>6, <1>7, <1>8, <1>9, <1>10, <1>11,
       <1>12, <1>13, <1>14, <1>15, <1>16, <1>17, <1>18, <1>19, <1>20, <1>21 DEF Next, Call, Step

\* Every step keeps the ends known.
LEMMA EndsStep == Shape /\ [Next]_vars => EndsKnown'
  <1> SUFFICES ASSUME Shape, [Next]_vars PROVE EndsKnown'
    OBVIOUS
  <1>t. /\ pc \in [Threads -> Steps] /\ node \in [Threads -> NodeOrNull]
        /\ next \in [Nodes -> NodeOrNull]
        /\ \A u \in Threads :
             pc[u] \in {"takeHead"} \cup Taking \cup Taken \cup Preparing \cup Joining
               => node[u] \in Nodes
        /\ queue \in Seq(Nodes) /\ Len(queue) \in Nat
        /\ \A i \in 1 .. Len(queue) : queue[i] \in Nodes
    BY LenProperties DEF Shape, TypeOK
  <1>s. /\ NullAssumption /\ HeadInv /\ OnePlace /\ EndsKnown
        /\ LoanFollowed /\ OwnersKnown
    BY NullAssumption DEF Shape, NullAssumption
  <1> USE DEF Looking, Taking, Taken, Preparing, Joining,
          At, Goto, Hold, Note, Leave, LeaveEmpty, shared, locals, NodeOrNull,
          Holds, Queued, HeadInv, HeadExclusive, HeadOwner, OnePlace, EndsKnown,
          LoanFollowed, OwnersKnown
  <1>1. ASSUME NEW t \in Threads, Dequeue(t) PROVE EndsKnown'
    BY <1>1, <1>t, <1>s DEF Dequeue
  <1>2. ASSUME NEW t \in Threads, NEW n \in Nodes, Enqueue(t, n) PROVE EndsKnown'
    BY <1>2, <1>t, <1>s DEF Enqueue
  <1>3. ASSUME NEW t \in Threads, NEW n \in Nodes, Remove(t, n) PROVE EndsKnown'
    BY <1>3, <1>t, <1>s DEF Remove
  <1>4. ASSUME NEW t \in Threads, EnterDequeue(t) PROVE EndsKnown'
    BY <1>4, <1>t, <1>s DEF EnterDequeue, LoadHead
  <1>5. ASSUME NEW t \in Threads, SpinHead(t) PROVE EndsKnown'
    BY <1>5, <1>t, <1>s DEF SpinHead, LoadHead
  <1>6. ASSUME NEW t \in Threads, LoadTail(t) PROVE EndsKnown'
    BY <1>6, <1>t, <1>s DEF LoadTail
  <1>7. ASSUME NEW t \in Threads, TakeHead(t) PROVE EndsKnown'
    <2>0. Len(queue) > 0 /\ node[t] = queue[1] /\ node[t] \in Nodes
      BY <1>7, <1>t, <1>s DEF TakeHead
    <2>1. /\ Len(queue') = Len(queue) - 1
          /\ \A i \in 1 .. Len(queue) - 1 : queue'[i] = queue[i + 1]
      BY <1>7, <1>t, <1>s, <2>0, TakeQueue DEF TakeHead
    <2> QED
      BY <1>7, <1>t, <1>s, <2>0, <2>1 DEF TakeHead
  <1>8. ASSUME NEW t \in Threads, MissHead(t) PROVE EndsKnown'
    BY <1>8, <1>t, <1>s DEF MissHead, LoadHead
  <1>9. ASSUME NEW t \in Threads, ReadNext(t) PROVE EndsKnown'
    BY <1>9, <1>t, <1>s DEF ReadNext
  <1>10. ASSUME NEW t \in Threads, StoreHead(t) PROVE EndsKnown'
    BY <1>10, <1>t, <1>s DEF StoreHead, Follows
  <1>11. ASSUME NEW t \in Threads, DropTail(t) PROVE EndsKnown'
    BY <1>11, <1>t, <1>s DEF DropTail
  <1>12. ASSUME NEW t \in Threads, AwaitNext(t) PROVE EndsKnown'
    BY <1>12, <1>t, <1>s DEF AwaitNext
  <1>13. ASSUME NEW t \in Threads, RelinkHead(t) PROVE EndsKnown'
    BY <1>13, <1>t, <1>s DEF RelinkHead, Follows
  <1>14. ASSUME NEW t \in Threads, ClearNext(t) PROVE EndsKnown'
    BY <1>14, <1>t, <1>s DEF ClearNext
  <1>15. ASSUME NEW t \in Threads, CountDown(t) PROVE EndsKnown'
    BY <1>15, <1>t, <1>s, CountDownFrame
  <1>16. ASSUME NEW t \in Threads, InitNext(t) PROVE EndsKnown'
    BY <1>16, <1>t, <1>s DEF InitNext
  <1>17. ASSUME NEW t \in Threads, SwapTail(t) PROVE EndsKnown'
    <2>0. node[t] \in Nodes
      BY <1>17, <1>t, <1>s DEF SwapTail
    <2>1. /\ Len(queue') = Len(queue) + 1
          /\ \A i \in 1 .. Len(queue) : queue'[i] = queue[i]
          /\ queue'[Len(queue) + 1] = node[t]
      BY <1>17, <1>t, <1>s, <2>0, PutQueue DEF SwapTail
    <2> QED
      BY <1>17, <1>t, <1>s, <2>0, <2>1 DEF SwapTail
  <1>18. ASSUME NEW t \in Threads, LinkTail(t) PROVE EndsKnown'
    <2>1. link[t] # tail
      BY <1>18, TargetNotLast DEF LinkTail
    <2> QED
      BY <1>18, <1>t, <1>s, <2>1 DEF LinkTail
  <1>19. ASSUME NEW t \in Threads, LinkHead(t) PROVE EndsKnown'
    BY <1>19, <1>t, <1>s DEF LinkHead
  <1>20. ASSUME NEW t \in Threads, CountUp(t) PROVE EndsKnown'
    BY <1>20, <1>t, <1>s, CountUpFrame
  <1>21. CASE UNCHANGED vars
    BY <1>21, <1>t, <1>s DEF vars
  <1> QED
    BY <1>1, <1>2, <1>3, <1>4, <1>5, <1>6, <1>7, <1>8, <1>9, <1>10, <1>11,
       <1>12, <1>13, <1>14, <1>15, <1>16, <1>17, <1>18, <1>19, <1>20, <1>21 DEF Next, Call, Step

\* Every step keeps the queue linked.
LEMMA LinkedStep == Shape /\ [Next]_vars => QueueLinked'
  <1> SUFFICES ASSUME Shape, [Next]_vars PROVE QueueLinked'
    OBVIOUS
  <1>t. /\ pc \in [Threads -> Steps] /\ node \in [Threads -> NodeOrNull]
        /\ next \in [Nodes -> NodeOrNull] /\ link \in [Threads -> NodeOrNull]
        /\ \A u \in Threads :
             pc[u] \in {"takeHead"} \cup Taking \cup Taken \cup Preparing \cup Joining
               => node[u] \in Nodes
        /\ \A u \in Threads : At(u, "linkTail") => link[u] \in Nodes
        /\ queue \in Seq(Nodes) /\ Len(queue) \in Nat
        /\ \A i \in 1 .. Len(queue) : queue[i] \in Nodes
    BY LenProperties DEF Shape, TypeOK
  <1>s. NullAssumption /\ OnePlace /\ QueueLinked /\ LinkersApart /\ LinkersPlaced /\ EndsKnown
    BY NullAssumption DEF Shape, NullAssumption
  <1> USE DEF Looking, Taking, Taken, Preparing, Joining,
          At, Goto, Hold, Note, Leave, LeaveEmpty, shared, locals, NodeOrNull
  <1>1. ASSUME NEW t \in Threads, Dequeue(t) PROVE QueueLinked'
    BY <1>1, <1>t, <1>s DEF Dequeue, QueueLinked, Follows, Links
  <1>2. ASSUME NEW t \in Threads, NEW n \in Nodes, Enqueue(t, n) PROVE QueueLinked'
    BY <1>2, <1>t, <1>s DEF Enqueue, QueueLinked, Follows, Links
  <1>3. ASSUME NEW t \in Threads, NEW n \in Nodes, Remove(t, n) PROVE QueueLinked'
    BY <1>3, <1>t, <1>s DEF Remove, QueueLinked, Follows, Links
  <1>4. ASSUME NEW t \in Threads, EnterDequeue(t) PROVE QueueLinked'
    BY <1>4, <1>t, <1>s DEF EnterDequeue, LoadHead, QueueLinked, Follows, Links
  <1>5. ASSUME NEW t \in Threads, SpinHead(t) PROVE QueueLinked'
    BY <1>5, <1>t, <1>s DEF SpinHead, LoadHead, QueueLinked, Follows, Links
  <1>6. ASSUME NEW t \in Threads, LoadTail(t) PROVE QueueLinked'
    BY <1>6, <1>t, <1>s DEF LoadTail, QueueLinked, Follows, Links
  <1>7. ASSUME NEW t \in Threads, TakeHead(t) PROVE QueueLinked'
    <2>0. Len(queue) > 0 /\ node[t] = queue[1] /\ node[t] \in Nodes
      BY <1>7, <1>t, <1>s DEF TakeHead, Shape, EndsKnown
    <2>1. /\ Len(queue') = Len(queue) - 1
          /\ \A i \in 1 .. Len(queue) - 1 : queue'[i] = queue[i + 1]
      BY <1>7, <1>t, <2>0, TakeQueue DEF TakeHead
    <2>2. /\ next' = next /\ node' = node /\ link' = link
          /\ pc[t] = "takeHead" /\ pc' = [pc EXCEPT ![t] = "readNext"]
      BY <1>7 DEF TakeHead
    <2>3. SUFFICES ASSUME NEW i \in 1 .. Len(queue') - 1 PROVE Follows(queue[i], queue[i + 1])'
      BY DEF QueueLinked
    <2>4. /\ i + 1 \in 1 .. Len(queue) - 1
          /\ queue'[i] = queue[i + 1] /\ queue'[i + 1] = queue[i + 1 + 1]
      BY <1>t, <2>1
    <2>5. Follows(queue[i + 1], queue[i + 1 + 1])
      BY <1>s, <2>4 DEF QueueLinked
    <2> QED
      BY <1>t, <2>2, <2>4, <2>5 DEF Follows, Links
  <1>8. ASSUME NEW t \in Threads, MissHead(t) PROVE QueueLinked'
    BY <1>8, <1>t, <1>s DEF MissHead, LoadHead, QueueLinked, Follows, Links
  <1>9. ASSUME NEW t \in Threads, ReadNext(t) PROVE QueueLinked'
    BY <1>9, <1>t, <1>s DEF ReadNext, QueueLinked, Follows, Links
  <1>10. ASSUME NEW t \in Threads, StoreHead(t) PROVE QueueLinked'
    BY <1>10, <1>t, <1>s DEF StoreHead, QueueLinked, Follows, Links
  <1>11. ASSUME NEW t \in Threads, DropTail(t) PROVE QueueLinked'
    BY <1>11, <1>t, <1>s DEF DropTail, QueueLinked, Follows, Links
  <1>12. ASSUME NEW t \in Threads, AwaitNext(t) PROVE QueueLinked'
    BY <1>12, <1>t, <1>s DEF AwaitNext, QueueLinked, Follows, Links
  <1>13. ASSUME NEW t \in Threads, RelinkHead(t) PROVE QueueLinked'
    BY <1>13, <1>t, <1>s DEF RelinkHead, QueueLinked, Follows, Links
  <1>14. ASSUME NEW t \in Threads, ClearNext(t) PROVE QueueLinked'
    <2>1. /\ pc[t] \in Taken \cup Preparing /\ next' = [next EXCEPT ![node[t]] = NULL]
          /\ node' = node /\ link' = link /\ queue' = queue
          /\ \E s \in Steps \ Joining : pc' = [pc EXCEPT ![t] = s]
      BY <1>14 DEF ClearNext, Steps
    <2>2. \A i \in 1 .. Len(queue) : next'[queue[i]] = next[queue[i]]
      BY <1>t, <1>s, <2>1 DEF OnePlace, Holds, Queued
    <2>3. \A u \in Threads, m, n \in Nodes : Links(u, m, n)' <=> Links(u, m, n)
      BY <1>t, <2>1 DEF Steps, Links
    <2>4. SUFFICES ASSUME NEW i \in 1 .. Len(queue) - 1 PROVE Follows(queue[i], queue[i + 1])'
      BY <2>1 DEF QueueLinked
    <2>5. /\ Follows(queue[i], queue[i + 1]) /\ queue[i] \in Nodes /\ queue[i + 1] \in Nodes
          /\ i \in 1 .. Len(queue)
      BY <1>t, <1>s DEF QueueLinked
    <2> QED
      BY <2>1, <2>2, <2>3, <2>5 DEF Follows
  <1>15. ASSUME NEW t \in Threads, CountDown(t) PROVE QueueLinked'
    BY <1>15, <1>t, <1>s, CountDownFrame DEF QueueLinked, Follows, Links
  <1>16. ASSUME NEW t \in Threads, InitNext(t) PROVE QueueLinked'
    <2>1. /\ pc[t] \in Taken \cup Preparing /\ next' = [next EXCEPT ![node[t]] = NULL]
          /\ node' = node /\ link' = link /\ queue' = queue
          /\ \E s \in Steps \ Joining : pc' = [pc EXCEPT ![t] = s]
      BY <1>16 DEF InitNext, Steps
    <2>2. \A i \in 1 .. Len(queue) : next'[queue[i]] = next[queue[i]]
      BY <1>t, <1>s, <2>1 DEF OnePlace, Holds, Queued
    <2>3. \A u \in Threads, m, n \in Nodes : Links(u, m, n)' <=> Links(u, m, n)
      BY <1>t, <2>1 DEF Steps, Links
    <2>4. SUFFICES ASSUME NEW i \in 1 .. Len(queue) - 1 PROVE Follows(queue[i], queue[i + 1])'
      BY <2>1 DEF QueueLinked
    <2>5. /\ Follows(queue[i], queue[i + 1]) /\ queue[i] \in Nodes /\ queue[i + 1] \in Nodes
          /\ i \in 1 .. Len(queue)
      BY <1>t, <1>s DEF QueueLinked
    <2> QED
      BY <2>1, <2>2, <2>3, <2>5 DEF Follows
  <1>17. ASSUME NEW t \in Threads, SwapTail(t) PROVE QueueLinked'
    <2>0. node[t] \in Nodes
      BY <1>17, <1>t DEF SwapTail
    <2>1. /\ Len(queue') = Len(queue) + 1
          /\ \A i \in 1 .. Len(queue) : queue'[i] = queue[i]
          /\ queue'[Len(queue) + 1] = node[t]
      BY <1>17, <1>t, <2>0, PutQueue DEF SwapTail
    <2>2. /\ pc[t] = "swapTail" /\ next' = next /\ node' = node
          /\ link' = [link EXCEPT ![t] = tail]
          /\ pc' = [pc EXCEPT ![t] = IF tail = NULL THEN "linkHead" ELSE "linkTail"]
      BY <1>17 DEF SwapTail
    <2>3. \A u \in Threads, m, n \in Nodes : Links(u, m, n) => Links(u, m, n)'
      BY <1>t, <2>2 DEF Links
    <2>4. SUFFICES ASSUME NEW i \in 1 .. Len(queue) PROVE Follows(queue[i], queue[i + 1])'
      BY <1>t, <2>1 DEF QueueLinked
    <2>5. CASE i = Len(queue)
      <3>1. queue'[i] = tail /\ queue'[i + 1] = node[t] /\ tail \in Nodes /\ next[tail] = NULL
        BY <1>t, <1>s, <2>1, <2>5 DEF EndsKnown
      <3>2. Links(t, queue[i], queue[i + 1])'
        BY <1>t, <1>s, <2>2, <3>1 DEF Links
      <3> QED
        BY <2>2, <3>1, <3>2 DEF Follows
    <2>6. CASE i # Len(queue)
      <3>1. /\ i \in 1 .. Len(queue) - 1 /\ i + 1 \in 1 .. Len(queue)
            /\ queue'[i] = queue[i] /\ queue'[i + 1] = queue[i + 1]
        BY <1>t, <2>1, <2>6
      <3>2. Follows(queue[i], queue[i + 1]) /\ queue[i] \in Nodes /\ queue[i + 1] \in Nodes
        BY <1>t, <1>s, <3>1 DEF QueueLinked
      <3> QED
        BY <2>2, <2>3, <3>1, <3>2 DEF Follows
    <2> QED
      BY <2>5, <2>6
  <1>18. ASSUME NEW t \in Threads, LinkTail(t) PROVE QueueLinked'
    <2>1. /\ pc[t] = "linkTail" /\ next' = [next EXCEPT ![link[t]] = node[t]]
          /\ node' = node /\ link' = link /\ queue' = queue
          /\ pc' = [pc EXCEPT ![t] = "countUp"]
      BY <1>18 DEF LinkTail
    <2>2. SUFFICES ASSUME NEW i \in 1 .. Len(queue) - 1 PROVE Follows(queue[i], queue[i + 1])'
      BY <2>1 DEF QueueLinked
    <2>3. Follows(queue[i], queue[i + 1]) /\ queue[i] \in Nodes /\ queue[i + 1] \in Nodes
      BY <1>t, <1>s DEF QueueLinked
    <2>4. CASE queue[i] = link[t]
      <3>1. node[t] = queue[i + 1]
        BY <2>1, <2>4, TargetSuccessor
      <3> QED
        BY <1>t, <2>1, <2>3, <2>4, <3>1 DEF Follows
    <2>5. CASE queue[i] # link[t]
      BY <1>t, <2>1, <2>3, <2>5 DEF Follows, Links
    <2> QED
      BY <2>4, <2>5
  <1>19. ASSUME NEW t \in Threads, LinkHead(t) PROVE QueueLinked'
    BY <1>19, <1>t, <1>s DEF LinkHead, QueueLinked, Follows, Links
  <1>20. ASSUME NEW t \in Threads, CountUp(t) PROVE QueueLinked'
    BY <1>20, <1>t, <1>s, CountUpFrame DEF QueueLinked, Follows, Links
  <1>21. CASE UNCHANGED vars
    BY <1>21, <1>t, <1>s DEF vars, QueueLinked, Follows, Links
  <1> QED
    BY <1>1, <1>2, <1>3, <1>4, <1>5, <1>6, <1>7, <1>8, <1>9, <1>10, <1>11,
       <1>12, <1>13, <1>14, <1>15, <1>16, <1>17, <1>18, <1>19, <1>20, <1>21 DEF Next, Call, Step

\* Every step keeps the targets of the missing links in place.
LEMMA PlacedStep == Shape /\ [Next]_vars => LinkersPlaced'
  <1> SUFFICES ASSUME Shape, [Next]_vars PROVE LinkersPlaced'
    OBVIOUS
  <1>t. /\ pc \in [Threads -> Steps] /\ node \in [Threads -> NodeOrNull]
        /\ next \in [Nodes -> NodeOrNull] /\ link \in [Threads -> NodeOrNull]
        /\ \A u \in Threads :
             pc[u] \in {"takeHead"} \cup Taking \cup Taken \cup Preparing \cup Joining
               => node[u] \in Nodes
        /\ \A u \in Threads : At(u, "linkTail") => link[u] \in Nodes
        /\ queue \in Seq(Nodes) /\ Len(queue) \in Nat
        /\ \A i \in 1 .. Len(queue) : queue[i] \in Nodes
    BY LenProperties DEF Shape, TypeOK
  <1>s. /\ NullAssumption /\ HeadInv /\ OnePlace /\ EndsKnown /\ LinkersApart /\ LinkersPlaced
        /\ LoanFollowed /\ OwnersKnown
    BY NullAssumption DEF Shape, NullAssumption
  <1> USE DEF Looking, Taking, Taken, Preparing, Joining,
          At, Goto, Hold, Note, Leave, LeaveEmpty, shared, locals, NodeOrNull
  <1>1. ASSUME NEW t \in Threads, Dequeue(t) PROVE LinkersPlaced'
    BY <1>1, <1>t, <1>s DEF Dequeue, LinkersPlaced, Placed, Links
  <1>2. ASSUME NEW t \in Threads, NEW n \in Nodes, Enqueue(t, n) PROVE LinkersPlaced'
    BY <1>2, <1>t, <1>s DEF Enqueue, LinkersPlaced, Placed, Links
  <1>3. ASSUME NEW t \in Threads, NEW n \in Nodes, Remove(t, n) PROVE LinkersPlaced'
    BY <1>3, <1>t, <1>s DEF Remove, LinkersPlaced, Placed, Links
  <1>4. ASSUME NEW t \in Threads, EnterDequeue(t) PROVE LinkersPlaced'
    BY <1>4, <1>t, <1>s DEF EnterDequeue, LoadHead, LinkersPlaced, Placed, Links
  <1>5. ASSUME NEW t \in Threads, SpinHead(t) PROVE LinkersPlaced'
    BY <1>5, <1>t, <1>s DEF SpinHead, LoadHead, LinkersPlaced, Placed, Links
  <1>6. ASSUME NEW t \in Threads, LoadTail(t) PROVE LinkersPlaced'
    BY <1>6, <1>t, <1>s DEF LoadTail, LinkersPlaced, Placed, Links
  <1>7. ASSUME NEW t \in Threads, TakeHead(t) PROVE LinkersPlaced'
    <2>0. Len(queue) > 0 /\ node[t] = queue[1] /\ node[t] \in Nodes
      BY <1>7, <1>t, <1>s DEF TakeHead, EndsKnown
    <2>1. /\ Len(queue') = Len(queue) - 1
          /\ \A i \in 1 .. Len(queue) - 1 : queue'[i] = queue[i + 1]
      BY <1>7, <1>t, <2>0, TakeQueue DEF TakeHead
    <2>2. /\ pc[t] = "takeHead" /\ pc' = [pc EXCEPT ![t] = "readNext"] /\ head # NULL
          /\ node' = node /\ link' = link /\ next' = next
      BY <1>7, <1>t, <1>s DEF TakeHead
    <2>3. SUFFICES ASSUME NEW u \in Threads, At(u, "linkTail")' PROVE Placed(u)'
      BY DEF LinkersPlaced
    <2>4. u # t /\ At(u, "linkTail") /\ Placed(u)
      BY <1>t, <1>s, <2>2, <2>3 DEF LinkersPlaced
    <2>5. \A w \in Threads : pc[w] \notin Taking
      BY <1>s, <2>2 DEF HeadInv, HeadExclusive, HeadOwner
    <2>6. PICK i \in 1 .. Len(queue) - 1 : Links(u, queue[i], queue[i + 1])
      BY <2>4, <2>5 DEF Placed
    <2>7. CASE i = 1
      <3>1. 1 \in 1 .. Len(queue) - 1 /\ Len(queue') > 0
        BY <1>t, <2>1, <2>6, <2>7
      <3>2. node[u] = queue[1 + 1] /\ link[u] = queue[1]
        BY <2>6, <2>7 DEF Links
      <3>3. queue'[1] = queue[1 + 1]
        BY <2>1, <3>1
      <3>4. node'[u] = queue'[1] /\ next'[link'[u]] = NULL
        BY <2>2, <2>4, <3>2, <3>3 DEF Placed
      <3>5. pc'[t] \in Taking /\ node'[t] = link'[u]
        BY <1>t, <2>0, <2>2, <3>2
      <3> QED
        BY <3>1, <3>4, <3>5 DEF Placed
    <2>8. CASE i # 1
      <3>1. i - 1 \in 1 .. Len(queue') - 1
        BY <1>t, <2>1, <2>6, <2>8
      <3>2. PICK j \in 1 .. Len(queue') - 1 : i = j + 1
        BY <3>1
      <3>3. j \in 1 .. Len(queue) - 1 /\ j + 1 \in 1 .. Len(queue) - 1
        BY <1>t, <2>1, <3>2
      <3>4. queue'[j] = queue[j + 1] /\ queue'[j + 1] = queue[j + 1 + 1]
        BY <2>1, <3>3
      <3>5. Links(u, queue[j], queue[j + 1])'
        BY <1>t, <2>2, <2>4, <2>6, <3>2, <3>4 DEF Links
      <3> QED
        BY <2>2, <2>4, <3>2, <3>5 DEF Placed
    <2> QED
      BY <2>7, <2>8
  <1>8. ASSUME NEW t \in Threads, MissHead(t) PROVE LinkersPlaced'
    BY <1>8, <1>t, <1>s DEF MissHead, LoadHead, LinkersPlaced, Placed, Links
  <1>9. ASSUME NEW t \in Threads, ReadNext(t) PROVE LinkersPlaced'
    BY <1>9, <1>t, <1>s DEF ReadNext, LinkersPlaced, Placed, Links
  <1>10. ASSUME NEW t \in Threads, StoreHead(t) PROVE LinkersPlaced'
    <2>1. SUFFICES ASSUME NEW u \in Threads, At(u, "linkTail")' PROVE Placed(u)'
      BY DEF LinkersPlaced
    <2>3. u # t /\ At(u, "linkTail") /\ Placed(u)
      BY <1>10, <1>t, <1>s, <2>1 DEF StoreHead, LinkersPlaced
    <2>4. link[u] # node[t] \/ link[t] = NULL
      BY <1>10, <1>t, <1>s, <2>3 DEF StoreHead, Placed, OwnersKnown
    <2> QED
      BY <1>10, <1>t, <2>3, <2>4 DEF StoreHead, Placed, Links
  <1>11. ASSUME NEW t \in Threads, DropTail(t) PROVE LinkersPlaced'
    <2>1. SUFFICES ASSUME NEW u \in Threads, At(u, "linkTail")' PROVE Placed(u)'
      BY DEF LinkersPlaced
    <2>3. u # t /\ At(u, "linkTail") /\ Placed(u)
      BY <1>11, <1>t, <1>s, <2>1 DEF DropTail, LinkersPlaced
    <2>4. tail # node[t]
      <3>1. Len(queue) \in 1 .. Len(queue) /\ tail = queue[Len(queue)]
        BY <1>t, <1>s, <2>3, TargetNotLast DEF EndsKnown
      <3> QED
        BY <1>11, <1>t, <1>s, <3>1 DEF DropTail, OnePlace, Holds, Queued
    <2> QED
      BY <1>11, <1>t, <2>3, <2>4 DEF DropTail, Placed, Links
  <1>12. ASSUME NEW t \in Threads, AwaitNext(t) PROVE LinkersPlaced'
    BY <1>12, <1>t, <1>s DEF AwaitNext, LinkersPlaced, Placed, Links
  <1>13. ASSUME NEW t \in Threads, RelinkHead(t) PROVE LinkersPlaced'
    <2>1. SUFFICES ASSUME NEW u \in Threads, At(u, "linkTail")' PROVE Placed(u)'
      BY DEF LinkersPlaced
    <2>3. u # t /\ At(u, "linkTail") /\ Placed(u)
      BY <1>13, <1>t, <1>s, <2>1 DEF RelinkHead, LinkersPlaced
    <2>4. link[u] # node[t]
      BY <1>13, <1>t, <1>s, <2>3 DEF RelinkHead, Placed, OwnersKnown
    <2> QED
      BY <1>13, <1>t, <2>3, <2>4 DEF RelinkHead, Placed, Links
  <1>14. ASSUME NEW t \in Threads, ClearNext(t) PROVE LinkersPlaced'
    BY <1>14, <1>t, <1>s DEF ClearNext, LinkersPlaced, Placed, Links
  <1>15. ASSUME NEW t \in Threads, CountDown(t) PROVE LinkersPlaced'
    BY <1>15, <1>t, <1>s, CountDownFrame DEF LinkersPlaced, Placed, Links
  <1>16. ASSUME NEW t \in Threads, InitNext(t) PROVE LinkersPlaced'
    BY <1>16, <1>t, <1>s DEF InitNext, LinkersPlaced, Placed, Links
  <1>17. ASSUME NEW t \in Threads, SwapTail(t) PROVE LinkersPlaced'
    <2>0. node[t] \in Nodes
      BY <1>17, <1>t DEF SwapTail
    <2>1. /\ Len(queue') = Len(queue) + 1
          /\ \A i \in 1 .. Len(queue) : queue'[i] = queue[i]
          /\ queue'[Len(queue) + 1] = node[t]
      BY <1>17, <1>t, <2>0, PutQueue DEF SwapTail
    <2>2. /\ pc[t] = "swapTail" /\ next' = next /\ node' = node
          /\ link' = [link EXCEPT ![t] = tail]
          /\ pc' = [pc EXCEPT ![t] = IF tail = NULL THEN "linkHead" ELSE "linkTail"]
      BY <1>17 DEF SwapTail
    <2>3. SUFFICES ASSUME NEW u \in Threads, At(u, "linkTail")' PROVE Placed(u)'
      BY DEF LinkersPlaced
    <2>4. CASE u # t
      <3>1. At(u, "linkTail") /\ Placed(u)
        BY <1>t, <1>s, <2>2, <2>3, <2>4 DEF LinkersPlaced
      <3>2. CASE \E i \in 1 .. Len(queue) - 1 : Links(u, queue[i], queue[i + 1])
        <4>1. PICK i \in 1 .. Len(queue) - 1 : Links(u, queue[i], queue[i + 1])
          BY <3>2
        <4>2. /\ i \in 1 .. Len(queue') - 1
              /\ queue'[i] = queue[i] /\ queue'[i + 1] = queue[i + 1]
          BY <1>t, <2>1, <4>1
        <4>3. Links(u, queue[i], queue[i + 1])'
          BY <1>t, <2>2, <2>4, <4>1, <4>2 DEF Links
        <4> QED
          BY <2>2, <2>4, <3>1, <4>2, <4>3 DEF Placed
      <3>3. CASE /\ Len(queue) > 0 /\ node[u] = queue[1]
                 /\ \E w \in Threads : pc[w] \in Taking /\ node[w] = link[u]
        <4>1. Len(queue') > 0 /\ queue'[1] = queue[1]
          BY <1>t, <2>1, <3>3
        <4> QED
          BY <1>t, <2>2, <2>4, <3>1, <3>3, <4>1 DEF Placed
      <3> QED
        BY <3>1, <3>2, <3>3 DEF Placed
    <2>5. CASE u = t
      <3>1. tail # NULL /\ link'[t] = tail
        BY <1>t, <2>2, <2>3, <2>5
      <3>2. CASE Len(queue) > 0
        <4>1. PICK i \in 1 .. Len(queue) : i = Len(queue)
          BY <1>t, <3>2
        <4>2. /\ i \in 1 .. Len(queue') - 1 /\ queue'[i] = tail /\ queue'[i + 1] = node[t]
              /\ next[tail] = NULL
          BY <1>t, <1>s, <2>1, <3>2, <4>1 DEF EndsKnown
        <4>3. Links(t, queue[i], queue[i + 1])'
          BY <1>t, <2>2, <3>1, <4>2 DEF Links
        <4> QED
          BY <2>2, <2>5, <3>1, <4>2, <4>3 DEF Placed
      <3>3. CASE Len(queue) = 0
        <4>1. PICK w \in Threads : HeadOwner(w)
          BY <1>s, <3>1, <3>3 DEF EndsKnown
        <4>2. pc[w] \in Taking /\ tail = node[w] /\ next[node[w]] = NULL
          BY <1>t, <1>s, <3>3, <4>1 DEF LoanFollowed, OwnersKnown, HeadOwner
        <4>3. Len(queue') = 1 /\ queue'[1] = node[t] /\ w # t
          BY <1>t, <2>1, <2>2, <3>3, <4>2
        <4> QED
          BY <1>t, <2>2, <2>5, <3>1, <4>2, <4>3 DEF Placed
      <3> QED
        BY <1>t, <3>2, <3>3
    <2> QED
      BY <2>4, <2>5
  <1>18. ASSUME NEW t \in Threads, LinkTail(t) PROVE LinkersPlaced'
    <2>1. /\ pc[t] = "linkTail" /\ next' = [next EXCEPT ![link[t]] = node[t]]
          /\ node' = node /\ link' = link /\ queue' = queue
          /\ pc' = [pc EXCEPT ![t] = "countUp"]
      BY <1>18 DEF LinkTail
    <2>2. SUFFICES ASSUME NEW u \in Threads, At(u, "linkTail")' PROVE Placed(u)'
      BY DEF LinkersPlaced
    <2>3. u # t /\ At(u, "linkTail") /\ Placed(u) /\ link[u] # link[t]
      BY <1>t, <1>s, <2>1, <2>2 DEF LinkersPlaced, LinkersApart
    <2>4. \A w \in Threads : pc[w] \in Taking => pc'[w] \in Taking
      BY <1>t, <2>1
    <2> QED
      BY <1>t, <2>1, <2>3, <2>4 DEF Placed, Links
  <1>19. ASSUME NEW t \in Threads, LinkHead(t) PROVE LinkersPlaced'
    BY <1>19, <1>t, <1>s DEF LinkHead, LinkersPlaced, Placed, Links
  <1>20. ASSUME NEW t \in Threads, CountUp(t) PROVE LinkersPlaced'
    BY <1>20, <1>t, <1>s, CountUpFrame DEF LinkersPlaced, Placed, Links
  <1>21. CASE UNCHANGED vars
    BY <1>21, <1>t, <1>s DEF vars, LinkersPlaced, Placed, Links
  <1> QED
    BY <1>1, <1>2, <1>3, <1>4, <1>5, <1>6, <1>7, <1>8, <1>9, <1>10, <1>11,
       <1>12, <1>13, <1>14, <1>15, <1>16, <1>17, <1>18, <1>19, <1>20, <1>21 DEF Next, Call, Step

\* No step gives two enqueues the same target.
LEMMA ApartStep == Shape /\ [Next]_vars => LinkersApart'
  <1> SUFFICES ASSUME Shape, [Next]_vars PROVE LinkersApart'
    OBVIOUS
  <1>t. /\ pc \in [Threads -> Steps] /\ node \in [Threads -> NodeOrNull]
        /\ next \in [Nodes -> NodeOrNull] /\ link \in [Threads -> NodeOrNull]
        /\ \A u \in Threads :
             pc[u] \in {"takeHead"} \cup Taking \cup Taken \cup Preparing \cup Joining
               => node[u] \in Nodes
        /\ \A u \in Threads : At(u, "linkTail") => link[u] \in Nodes
        /\ queue \in Seq(Nodes) /\ Len(queue) \in Nat
        /\ \A i \in 1 .. Len(queue) : queue[i] \in Nodes
    BY LenProperties DEF Shape, TypeOK
  <1>s. NullAssumption /\ OnePlace /\ LinkersApart /\ LinkersPlaced /\ EndsKnown
    BY NullAssumption DEF Shape, NullAssumption
  <1> USE DEF Looking, Taking, Taken, Preparing, Joining,
          At, Goto, Hold, Note, Leave, LeaveEmpty, shared, locals, NodeOrNull,
          LinkersApart
  <1>1. ASSUME NEW t \in Threads, Dequeue(t) PROVE LinkersApart'
    BY <1>1, <1>t, <1>s DEF Dequeue
  <1>2. ASSUME NEW t \in Threads, NEW n \in Nodes, Enqueue(t, n) PROVE LinkersApart'
    BY <1>2, <1>t, <1>s DEF Enqueue
  <1>3. ASSUME NEW t \in Threads, NEW n \in Nodes, Remove(t, n) PROVE LinkersApart'
    BY <1>3, <1>t, <1>s DEF Remove
  <1>4. ASSUME NEW t \in Threads, EnterDequeue(t) PROVE LinkersApart'
    BY <1>4, <1>t, <1>s DEF EnterDequeue, LoadHead
  <1>5. ASSUME NEW t \in Threads, SpinHead(t) PROVE LinkersApart'
    BY <1>5, <1>t, <1>s DEF SpinHead, LoadHead
  <1>6. ASSUME NEW t \in Threads, LoadTail(t) PROVE LinkersApart'
    BY <1>6, <1>t, <1>s DEF LoadTail
  <1>7. ASSUME NEW t \in Threads, TakeHead(t) PROVE LinkersApart'
    BY <1>7, <1>t, <1>s DEF TakeHead
  <1>8. ASSUME NEW t \in Threads, MissHead(t) PROVE LinkersApart'
    BY <1>8, <1>t, <1>s DEF MissHead, LoadHead
  <1>9. ASSUME NEW t \in Threads, ReadNext(t) PROVE LinkersApart'
    BY <1>9, <1>t, <1>s DEF ReadNext
  <1>10. ASSUME NEW t \in Threads, StoreHead(t) PROVE LinkersApart'
    BY <1>10, <1>t, <1>s DEF StoreHead
  <1>11. ASSUME NEW t \in Threads, DropTail(t) PROVE LinkersApart'
    BY <1>11, <1>t, <1>s DEF DropTail
  <1>12. ASSUME NEW t \in Threads, AwaitNext(t) PROVE LinkersApart'
    BY <1>12, <1>t, <1>s DEF AwaitNext
  <1>13. ASSUME NEW t \in Threads, RelinkHead(t) PROVE LinkersApart'
    BY <1>13, <1>t, <1>s DEF RelinkHead
  <1>14. ASSUME NEW t \in Threads, ClearNext(t) PROVE LinkersApart'
    BY <1>14, <1>t, <1>s DEF ClearNext
  <1>15. ASSUME NEW t \in Threads, CountDown(t) PROVE LinkersApart'
    BY <1>15, <1>t, <1>s, CountDownFrame
  <1>16. ASSUME NEW t \in Threads, InitNext(t) PROVE LinkersApart'
    BY <1>16, <1>t, <1>s DEF InitNext
  <1>17. ASSUME NEW t \in Threads, SwapTail(t) PROVE LinkersApart'
    <2>0. node[t] \in Nodes
      BY <1>17, <1>t DEF SwapTail
    <2>1. /\ Len(queue') = Len(queue) + 1
          /\ \A i \in 1 .. Len(queue) : queue'[i] = queue[i]
          /\ queue'[Len(queue) + 1] = node[t]
      BY <1>17, <1>t, <2>0, PutQueue DEF SwapTail
    <2>2. /\ pc[t] = "swapTail" /\ next' = next /\ node' = node
          /\ link' = [link EXCEPT ![t] = tail]
          /\ pc' = [pc EXCEPT ![t] = IF tail = NULL THEN "linkHead" ELSE "linkTail"]
      BY <1>17 DEF SwapTail
    <2>3. \A u \in Threads : At(u, "linkTail") => link[u] # tail
      BY <1>s, TargetNotLast DEF Shape
    <2> QED
      BY <1>t, <1>s, <2>2, <2>3
  <1>18. ASSUME NEW t \in Threads, LinkTail(t) PROVE LinkersApart'
    BY <1>18, <1>t, <1>s DEF LinkTail
  <1>19. ASSUME NEW t \in Threads, LinkHead(t) PROVE LinkersApart'
    BY <1>19, <1>t, <1>s DEF LinkHead
  <1>20. ASSUME NEW t \in Threads, CountUp(t) PROVE LinkersApart'
    BY <1>20, <1>t, <1>s, CountUpFrame
  <1>21. CASE UNCHANGED vars
    BY <1>21, <1>t, <1>s DEF vars
  <1> QED
    BY <1>1, <1>2, <1>3, <1>4, <1>5, <1>6, <1>7, <1>8, <1>9, <1>10, <1>11,
       <1>12, <1>13, <1>14, <1>15, <1>16, <1>17, <1>18, <1>19, <1>20, <1>21 DEF Next, Call, Step

\* Every step keeps the node on loan in front of the queue.
LEMMA LoanStep == Shape /\ [Next]_vars => LoanFollowed'
  <1> SUFFICES ASSUME Shape, [Next]_vars PROVE LoanFollowed'
    OBVIOUS
  <1>t. /\ pc \in [Threads -> Steps] /\ node \in [Threads -> NodeOrNull]
        /\ next \in [Nodes -> NodeOrNull] /\ link \in [Threads -> NodeOrNull]
        /\ \A u \in Threads :
             pc[u] \in {"takeHead"} \cup Taking \cup Taken \cup Preparing \cup Joining
               => node[u] \in Nodes
        /\ \A u \in Threads : At(u, "linkTail") => link[u] \in Nodes
        /\ queue \in Seq(Nodes) /\ Len(queue) \in Nat
        /\ \A i \in 1 .. Len(queue) : queue[i] \in Nodes
    BY LenProperties DEF Shape, TypeOK
  <1>s. /\ NullAssumption /\ HeadInv /\ OnePlace /\ EndsKnown /\ QueueLinked
        /\ LinkersPlaced /\ LoanFollowed
    BY NullAssumption DEF Shape, NullAssumption
  <1> USE DEF Looking, Taking, Taken, Preparing, Joining,
          At, Goto, Hold, Note, Leave, LeaveEmpty, shared, locals, NodeOrNull,
          HeadInv, HeadExclusive, HeadOwner, OnePlace, Holds, Queued, EndsKnown,
          LoanFollowed, Follows, Links
  <1>1. ASSUME NEW t \in Threads, Dequeue(t) PROVE LoanFollowed'
    BY <1>1, <1>t, <1>s DEF Dequeue
  <1>2. ASSUME NEW t \in Threads, NEW n \in Nodes, Enqueue(t, n) PROVE LoanFollowed'
    BY <1>2, <1>t, <1>s DEF Enqueue
  <1>3. ASSUME NEW t \in Threads, NEW n \in Nodes, Remove(t, n) PROVE LoanFollowed'
    BY <1>3, <1>t, <1>s DEF Remove
  <1>4. ASSUME NEW t \in Threads, EnterDequeue(t) PROVE LoanFollowed'
    BY <1>4, <1>t, <1>s DEF EnterDequeue, LoadHead
  <1>5. ASSUME NEW t \in Threads, SpinHead(t) PROVE LoanFollowed'
    BY <1>5, <1>t, <1>s DEF SpinHead, LoadHead
  <1>6. ASSUME NEW t \in Threads, LoadTail(t) PROVE LoanFollowed'
    BY <1>6, <1>t, <1>s DEF LoadTail
  <1>7. ASSUME NEW t \in Threads, TakeHead(t) PROVE LoanFollowed'
    <2>0. Len(queue) > 0 /\ node[t] = queue[1] /\ node[t] \in Nodes
      BY <1>7, <1>t, <1>s DEF TakeHead
    <2>1. /\ Len(queue') = Len(queue) - 1
          /\ \A i \in 1 .. Len(queue) - 1 : queue'[i] = queue[i + 1]
      BY <1>7, <1>t, <2>0, TakeQueue DEF TakeHead
    <2>2. /\ pc[t] = "takeHead" /\ pc' = [pc EXCEPT ![t] = "readNext"] /\ head # NULL
          /\ node' = node /\ link' = link /\ next' = next /\ tail' = tail
      BY <1>7, <1>t, <1>s DEF TakeHead
    <2>3. \A u \in Threads : pc'[u] \in Taking => u = t
      BY <1>t, <1>s, <2>2
    <2>4. CASE Len(queue') = 0
      <3>1. Len(queue) = 1
        BY <1>t, <2>1, <2>4
      <3>2. tail = queue[1] /\ next[tail] = NULL
        BY <1>s, <2>0, <3>1
      <3> QED
        BY <2>0, <2>2, <2>3, <2>4, <3>2
    <2>5. CASE Len(queue') # 0
      <3>0. Len(queue) > 1
        BY <1>t, <2>0, <2>1, <2>5
      <3>1. queue'[1] = queue[2]
        BY <1>t, <2>1, <3>0
      <3>2. Follows(queue[1], queue[2])
        <4>1. 1 \in 1 .. Len(queue) - 1
          BY <1>t, <3>0
        <4>2. Follows(queue[1], queue[1 + 1])
          BY <1>s, <4>1 DEF QueueLinked
        <4> QED
          BY <4>2
      <3>3. Follows(node[t], queue[1])'
        BY <1>t, <2>0, <2>2, <3>1, <3>2
      <3> QED
        BY <2>3, <2>5, <3>3
    <2> QED
      BY <2>4, <2>5
  <1>8. ASSUME NEW t \in Threads, MissHead(t) PROVE LoanFollowed'
    BY <1>8, <1>t, <1>s DEF MissHead, LoadHead
  <1>9. ASSUME NEW t \in Threads, ReadNext(t) PROVE LoanFollowed'
    BY <1>9, <1>t, <1>s DEF ReadNext
  <1>10. ASSUME NEW t \in Threads, StoreHead(t) PROVE LoanFollowed'
    BY <1>10, <1>t, <1>s DEF StoreHead
  <1>11. ASSUME NEW t \in Threads, DropTail(t) PROVE LoanFollowed'
    <2>1. /\ pc[t] = "dropTail" /\ node' = node /\ link' = link /\ next' = next /\ queue' = queue
          /\ \/ pc' = [pc EXCEPT ![t] = "clearNext"]
             \/ pc' = [pc EXCEPT ![t] = "awaitNext"] /\ tail' = tail
      BY <1>11 DEF DropTail
    <2>2. \A u \in Threads : pc'[u] \in Taking => u = t /\ tail' = tail
      BY <1>t, <1>s, <2>1
    <2>3. \A u, v \in Threads : Links(u, node[v], queue[1]) => Links(u, node[v], queue[1])'
      BY <1>t, <2>1
    <2> QED
      BY <1>t, <1>s, <2>1, <2>2, <2>3
  <1>12. ASSUME NEW t \in Threads, AwaitNext(t) PROVE LoanFollowed'
    BY <1>12, <1>t, <1>s DEF AwaitNext
  <1>13. ASSUME NEW t \in Threads, RelinkHead(t) PROVE LoanFollowed'
    BY <1>13, <1>t, <1>s DEF RelinkHead
  <1>14. ASSUME NEW t \in Threads, ClearNext(t) PROVE LoanFollowed'
    <2>1. /\ pc[t] \in Taken \cup Preparing /\ next' = [next EXCEPT ![node[t]] = NULL]
          /\ node' = node /\ link' = link /\ queue' = queue /\ tail' = tail
          /\ \E s \in {"countDown", "swapTail"} : pc' = [pc EXCEPT ![t] = s]
      BY <1>14 DEF ClearNext
    <2>2. \A u \in Threads \ {t} : pc[u] \in Taking \cup Preparing => next'[node[u]] = next[node[u]]
      BY <1>t, <1>s, <2>1
    <2> QED
      BY <1>t, <1>s, <2>1, <2>2 DEF Steps
  <1>15. ASSUME NEW t \in Threads, CountDown(t) PROVE LoanFollowed'
    BY <1>15, <1>t, <1>s, CountDownFrame
  <1>16. ASSUME NEW t \in Threads, InitNext(t) PROVE LoanFollowed'
    <2>1. /\ pc[t] \in Taken \cup Preparing /\ next' = [next EXCEPT ![node[t]] = NULL]
          /\ node' = node /\ link' = link /\ queue' = queue /\ tail' = tail
          /\ \E s \in {"countDown", "swapTail"} : pc' = [pc EXCEPT ![t] = s]
      BY <1>16 DEF InitNext
    <2>2. \A u \in Threads \ {t} : pc[u] \in Taking \cup Preparing => next'[node[u]] = next[node[u]]
      BY <1>t, <1>s, <2>1
    <2> QED
      BY <1>t, <1>s, <2>1, <2>2 DEF Steps
  <1>17. ASSUME NEW t \in Threads, SwapTail(t) PROVE LoanFollowed'
    BY <1>17, <1>t, <1>s DEF SwapTail
  <1>18. ASSUME NEW t \in Threads, LinkTail(t) PROVE LoanFollowed'
    <2>1. /\ pc[t] = "linkTail" /\ next' = [next EXCEPT ![link[t]] = node[t]]
          /\ node' = node /\ link' = link /\ queue' = queue
          /\ pc' = [pc EXCEPT ![t] = "countUp"]
      BY <1>18 DEF LinkTail
    <2>2. SUFFICES ASSUME NEW u \in Threads, (pc[u] \in Taking)'
                   PROVE (IF Len(queue) = 0
                            THEN tail = node[u] /\ next[node[u]] = NULL
                            ELSE Follows(node[u], queue[1]))'
      OBVIOUS
    <2>3. pc[u] \in Taking /\ Len(queue) > 0
      BY <1>t, <2>1, <2>2, TargetNotLast
    <2>4. CASE node[u] = link[t]
      <3>1. node[t] = queue[1]
        BY <1>t, <1>s, <2>1, <2>3, <2>4 DEF LinkersPlaced, Placed
      <3> QED
        BY <1>t, <2>1, <2>3, <2>4, <3>1
    <2>5. CASE node[u] # link[t]
      BY <1>t, <1>s, <2>1, <2>3, <2>5
    <2> QED
      BY <2>4, <2>5
  <1>19. ASSUME NEW t \in Threads, LinkHead(t) PROVE LoanFollowed'
    BY <1>19, <1>t, <1>s DEF LinkHead
  <1>20. ASSUME NEW t \in Threads, CountUp(t) PROVE LoanFollowed'
    BY <1>20, <1>t, <1>s, CountUpFrame
  <1>21. CASE UNCHANGED vars
    BY <1>21, <1>t, <1>s DEF vars
  <1> QED
    BY <1>1, <1>2, <1>3, <1>4, <1>5, <1>6, <1>7, <1>8, <1>9, <1>10, <1>11,
       <1>12, <1>13, <1>14, <1>15, <1>16, <1>17, <1>18, <1>19, <1>20, <1>21 DEF Next, Call, Step

\* Every step keeps what the local variables of the calls stand for.
LEMMA OwnersStep == Shape /\ [Next]_vars => OwnersKnown'
  <1> SUFFICES ASSUME Shape, [Next]_vars PROVE OwnersKnown'
    OBVIOUS
  <1>t. /\ pc \in [Threads -> Steps] /\ node \in [Threads -> NodeOrNull]
        /\ next \in [Nodes -> NodeOrNull] /\ link \in [Threads -> NodeOrNull]
        /\ \A u \in Threads :
             pc[u] \in {"takeHead"} \cup Taking \cup Taken \cup Preparing \cup Joining
               => node[u] \in Nodes
        /\ \A u \in Threads : At(u, "linkTail") => link[u] \in Nodes
        /\ queue \in Seq(Nodes) /\ Len(queue) \in Nat
        /\ \A i \in 1 .. Len(queue) : queue[i] \in Nodes
    BY LenProperties DEF Shape, TypeOK
  <1>s. /\ NullAssumption /\ HeadInv /\ OnePlace /\ EndsKnown /\ LinkersPlaced
        /\ LoanFollowed /\ OwnersKnown
    BY NullAssumption DEF Shape, NullAssumption
  <1> USE DEF Looking, Taking, Taken, Preparing, Joining,
          At, Goto, Hold, Note, Leave, LeaveEmpty, shared, locals, NodeOrNull,
          HeadInv, HeadExclusive, HeadOwner, OnePlace, Holds, Queued, EndsKnown, OwnersKnown
  <1>1. ASSUME NEW t \in Threads, Dequeue(t) PROVE OwnersKnown'
    BY <1>1, <1>t, <1>s DEF Dequeue
  <1>2. ASSUME NEW t \in Threads, NEW n \in Nodes, Enqueue(t, n) PROVE OwnersKnown'
    BY <1>2, <1>t, <1>s DEF Enqueue
  <1>3. ASSUME NEW t \in Threads, NEW n \in Nodes, Remove(t, n) PROVE OwnersKnown'
    BY <1>3, <1>t, <1>s DEF Remove
  <1>4. ASSUME NEW t \in Threads, EnterDequeue(t) PROVE OwnersKnown'
    BY <1>4, <1>t, <1>s DEF EnterDequeue, LoadHead
  <1>5. ASSUME NEW t \in Threads, SpinHead(t) PROVE OwnersKnown'
    BY <1>5, <1>t, <1>s DEF SpinHead, LoadHead
  <1>6. ASSUME NEW t \in Threads, LoadTail(t) PROVE OwnersKnown'
    BY <1>6, <1>t, <1>s DEF LoadTail
  <1>7. ASSUME NEW t \in Threads, TakeHead(t) PROVE OwnersKnown'
    <2>1. /\ pc[t] = "takeHead" /\ pc' = [pc EXCEPT ![t] = "readNext"] /\ head # NULL
          /\ node' = node /\ link' = link /\ next' = next
      BY <1>7, <1>t, <1>s DEF TakeHead
    <2>2. \A u \in Threads : pc'[u] \notin {"storeHead", "awaitNext", "relinkHead", "linkHead"}
      BY <1>t, <1>s, <2>1
    <2>3. \A u \in Threads : pc'[u] = "swapTail" => pc[u] = "swapTail"
      BY <1>t, <2>1
    <2> QED
      BY <1>s, <2>1, <2>2, <2>3
  <1>8. ASSUME NEW t \in Threads, MissHead(t) PROVE OwnersKnown'
    BY <1>8, <1>t, <1>s DEF MissHead, LoadHead
  <1>9. ASSUME NEW t \in Threads, ReadNext(t) PROVE OwnersKnown'
    BY <1>9, <1>t, <1>s DEF ReadNext
  <1>10. ASSUME NEW t \in Threads, StoreHead(t) PROVE OwnersKnown'
    BY <1>10, <1>t, <1>s DEF StoreHead
  <1>11. ASSUME NEW t \in Threads, DropTail(t) PROVE OwnersKnown'
    <2>1. tail # node[t] => Len(queue) > 0
      BY <1>11, <1>t, <1>s DEF DropTail, LoanFollowed
    <2> QED
      BY <1>11, <1>t, <1>s, <2>1 DEF DropTail
  <1>12. ASSUME NEW t \in Threads, AwaitNext(t) PROVE OwnersKnown'
    BY <1>12, <1>t, <1>s DEF AwaitNext
  <1>13. ASSUME NEW t \in Threads, RelinkHead(t) PROVE OwnersKnown'
    BY <1>13, <1>t, <1>s DEF RelinkHead
  <1>14. ASSUME NEW t \in Threads, ClearNext(t) PROVE OwnersKnown'
    <2>1. /\ pc[t] \in Taken \cup Preparing /\ next' = [next EXCEPT ![node[t]] = NULL]
          /\ node' = node /\ link' = link /\ queue' = queue /\ tail' = tail
          /\ \E s \in {"countDown", "swapTail"} : pc' = [pc EXCEPT ![t] = s]
      BY <1>14 DEF ClearNext
    <2>2. \A u \in Threads \ {t} : pc[u] \in Taking \cup Preparing => next'[node[u]] = next[node[u]]
      BY <1>t, <1>s, <2>1
    <2> QED
      BY <1>t, <1>s, <2>1, <2>2 DEF Steps
  <1>15. ASSUME NEW t \in Threads, CountDown(t) PROVE OwnersKnown'
    BY <1>15, <1>t, <1>s, CountDownFrame
  <1>16. ASSUME NEW t \in Threads, InitNext(t) PROVE OwnersKnown'
    <2>1. /\ pc[t] \in Taken \cup Preparing /\ next' = [next EXCEPT ![node[t]] = NULL]
          /\ node' = node /\ link' = link /\ queue' = queue /\ tail' = tail
          /\ \E s \in {"countDown", "swapTail"} : pc' = [pc EXCEPT ![t] = s]
      BY <1>16 DEF InitNext
    <2>2. \A u \in Threads \ {t} : pc[u] \in Taking \cup Preparing => next'[node[u]] = next[node[u]]
      BY <1>t, <1>s, <2>1
    <2> QED
      BY <1>16, <1>t, <1>s, <2>1, <2>2 DEF InitNext
  <1>17. ASSUME NEW t \in Threads, SwapTail(t) PROVE OwnersKnown'
    <2>0. node[t] \in Nodes
      BY <1>17, <1>t DEF SwapTail
    <2>1. /\ Len(queue') = Len(queue) + 1
          /\ \A i \in 1 .. Len(queue) : queue'[i] = queue[i]
          /\ queue'[Len(queue) + 1] = node[t]
      BY <1>17, <1>t, <2>0, PutQueue DEF SwapTail
    <2>2. /\ pc[t] = "swapTail" /\ next' = next /\ node' = node
          /\ link' = [link EXCEPT ![t] = tail]
          /\ pc' = [pc EXCEPT ![t] = IF tail = NULL THEN "linkHead" ELSE "linkTail"]
      BY <1>17 DEF SwapTail
    <2>3. tail = NULL => Len(queue) = 0
      <3> SUFFICES ASSUME Len(queue) > 0 PROVE tail # NULL
        BY <1>t
      <3> QED
        BY <1>t, <1>s
    <2>4. Len(queue) > 0 => queue'[1] = queue[1]
      BY <1>t, <2>1
    <2>5. Len(queue) = 0 => queue'[1] = node[t]
      BY <1>t, <2>1
    <2>6. Len(queue') > 0
      BY <1>t, <2>1
    <2> QED
      BY <1>t, <1>s, <2>2, <2>3, <2>4, <2>5, <2>6
  <1>18. ASSUME NEW t \in Threads, LinkTail(t) PROVE OwnersKnown'
    <2>1. /\ pc[t] = "linkTail" /\ next' = [next EXCEPT ![link[t]] = node[t]]
          /\ node' = node /\ link' = link /\ queue' = queue
          /\ pc' = [pc EXCEPT ![t] = "countUp"]
      BY <1>18 DEF LinkTail
    <2>2. next[link[t]] = NULL /\ link[t] \in Nodes /\ node[t] # NULL
      BY <1>t, <1>s, <2>1 DEF LinkersPlaced, Placed
    <2>3. \A u \in Threads : At(u, "swapTail") => node[u] # link[t]
      BY <1>t, <1>s, <2>1 DEF LinkersPlaced, Placed, Links
    <2>4. \A u \in Threads : At(u, "storeHead") /\ link[u] # NULL => node[u] # link[t]
      BY <1>s, <2>2
    <2>5. \A m \in Nodes : next'[m] = IF m = link[t] THEN node[t] ELSE next[m]
      BY <1>t, <2>1
    <2>6. \A u \in Threads : pc'[u] \in Taking \cup {"swapTail", "linkHead"}
                                  => pc'[u] = pc[u] /\ node[u] \in Nodes
      BY <1>t, <2>1
    <2> QED
      <3>1. \A u \in Threads : pc'[u] = "storeHead" /\ link[u] # NULL => link[u] = next'[node[u]]
        BY <1>s, <2>4, <2>5, <2>6
      <3>2. \A u \in Threads : pc'[u] = "relinkHead" => next'[node[u]] # NULL
        BY <1>s, <2>2, <2>5, <2>6
      <3>3. \A u \in Threads : pc'[u] = "swapTail" => next'[node[u]] = NULL
        BY <1>s, <2>3, <2>5, <2>6
      <3> QED
        BY <1>s, <2>1, <2>6, <3>1, <3>2, <3>3
  <1>19. ASSUME NEW t \in Threads, LinkHead(t) PROVE OwnersKnown'
    BY <1>19, <1>t, <1>s DEF LinkHead
  <1>20. ASSUME NEW t \in Threads, CountUp(t) PROVE OwnersKnown'
    BY <1>20, <1>t, <1>s, CountUpFrame
  <1>21. CASE UNCHANGED vars
    BY <1>21, <1>t, <1>s DEF vars
  <1> QED
    BY <1>1, <1>2, <1>3, <1>4, <1>5, <1>6, <1>7, <1>8, <1>9, <1>10, <1>11,
       <1>12, <1>13, <1>14, <1>15, <1>16, <1>17, <1>18, <1>19, <1>20, <1>21 DEF Next, Call, Step

\* The history stays a sequence of nodes.
LEMMA QueueStep == Shape /\ [Next]_vars => queue' \in Seq(Nodes)
  <1> SUFFICES ASSUME Shape, [Next]_vars PROVE queue' \in Seq(Nodes)
    OBVIOUS
  <1>t. /\ queue \in Seq(Nodes)
        /\ \A t \in Threads : pc[t] \in {"takeHead"} \cup Preparing => node[t] \in Nodes
    BY DEF Shape, TypeOK
  <1>1. ASSUME NEW t \in Threads, TakeHead(t) PROVE queue' \in Seq(Nodes)
    <2>1. Len(queue) > 0
      BY <1>1, <1>t, NullAssumption DEF Shape, EndsKnown, TakeHead, At
    <2> QED
      BY <1>1, <1>t, <2>1, TakeQueue DEF TakeHead
  <1>2. ASSUME NEW t \in Threads, SwapTail(t) PROVE queue' \in Seq(Nodes)
    <2>1. node[t] \in Nodes
      BY <1>2, <1>t DEF SwapTail, At, Preparing
    <2> QED
      BY <1>2, <1>t, <2>1, PutQueue DEF SwapTail
  <1>3. CASE ~\E t \in Threads : TakeHead(t) \/ SwapTail(t)
    <2>1. queue' = queue
      BY <1>3 DEF Next, Call, Step, vars, Dequeue, Enqueue, Remove, EnterDequeue, SpinHead,
         LoadHead, LoadTail, MissHead, ReadNext, StoreHead, DropTail, AwaitNext, RelinkHead, ClearNext,
         CountDown, InitNext, LinkTail, LinkHead, CountUp, LeaveEmpty
    <2> QED
      BY <1>t, <2>1
  <1> QED
    BY <1>1, <1>2, <1>3

\* An empty list has the shape.
LEMMA ShapeInit == Init => Shape
  <1> SUFFICES ASSUME Init PROVE Shape
    OBVIOUS
  <1>1. queue \in Seq(Nodes) /\ Len(queue) = 0
    BY EmptySeq DEF Init
  <1>2. TypeOK
    BY NullAssumption, RangeAssumption DEF Init, TypeOK, NodeOrNull, Steps, At,
       Looking, Taking, Taken, Preparing, Joining
  <1>3. HeadInv
    BY DEF Init, HeadInv, HeadExclusive, HeadOwner, Taking
  <1>4. \A t \in Threads : pc[t] = "idle"
    BY DEF Init
  <1>5. OnePlace
    BY <1>1, <1>4 DEF Init, OnePlace, Holds, Queued, Taking, Taken, Preparing
  <1>6. EndsKnown /\ QueueLinked
    BY <1>1 DEF Init, EndsKnown, QueueLinked
  <1>7. LinkersPlaced /\ LinkersApart /\ LoanFollowed /\ OwnersKnown
    BY <1>4 DEF LinkersPlaced, LinkersApart, LoanFollowed, OwnersKnown, At, Taking
  <1> QED
    BY <1>1, <1>2, <1>3, <1>5, <1>6, <1>7 DEF Shape

\* Every reachable state has the shape.
THEOREM ShapeCorrect == Spec => []Shape
  <1>1. Shape /\ [Next]_vars => Shape'
    BY TypeStep, HeadStep, QueueStep, OnePlaceStep, EndsStep, LinkedStep, PlacedStep,
       ApartStep, LoanStep, OwnersStep DEF Shape
  <1> QED
    BY <1>1, ShapeInit, PTL DEF Spec

-----------------------------------------------------------------------------
(* What follows from the shape *)

\* Every awaiter is free, queued once or in the hands of one thread: two
\* dequeues never return the same node, and none is dropped.
THEOREM NodesInOnePlace == Spec => []OnePlace
  <1>1. Shape => OnePlace
    BY DEF Shape
  <1> QED
    BY <1>1, ShapeCorrect, PTL

\* The node an enqueue still has to link is in the list or held by the dequeue
\* that waits for the link, and its m_next is null (the assertion of line 73).
THEOREM LinkTargetIsPinned == Spec => []LinkTargetPinned
  <1>1. Shape => LinkTargetPinned
    <2> SUFFICES ASSUME Shape, NEW t \in Threads, At(t, "linkTail")
                 PROVE  /\ next[link[t]] = NULL
                        /\ \/ Queued(link[t])
                           \/ \E u \in Threads : node[u] = link[t] /\ pc[u] \in Taking
      BY DEF LinkTargetPinned
    <2>1. Placed(t) /\ Len(queue) \in Nat
      BY LenProperties DEF Shape, LinkersPlaced
    <2> QED
      BY <2>1 DEF Placed, Links, Queued
  <1> QED
    BY <1>1, ShapeCorrect, PTL

\* The nodes are chained from m_head to m_tail in the order of their tail
\* exchanges, whatever calls are under way.
THEOREM ListIsChained == Spec => []Chained
  <1>1. Shape => Chained
    <2> SUFFICES ASSUME Shape PROVE Chained
      OBVIOUS
    <2>1. queue \in Seq(Nodes) /\ (queue # <<>> => Len(queue) > 0)
      BY EmptySeq DEF Shape
    <2>2. Len(queue) > 0 => queue # <<>>
      BY EmptySeq
    <2> QED
      BY <2>1, <2>2 DEF Shape, Chained, IsEmpty, EndsKnown, QueueLinked, Follows, Links
  <1> QED
    BY <1>1, ShapeCorrect, PTL

\* A thread that spins for a head or for a link waits for a thread that is not
\* waiting for it: no dequeue() and no remove() spins for nobody.
THEOREM SpinnersAreServed == Spec => []SpinsForSomeone
  <1>1. Shape => SpinsForSomeone
    <2> SUFFICES ASSUME Shape PROVE SpinsForSomeone
      OBVIOUS
    <2>1. EndsKnown /\ LoanFollowed /\ OwnersKnown /\ queue \in Seq(Nodes)
      BY DEF Shape
    <2>2. ASSUME NEW t \in Threads, At(t, "awaitNext"), next[node[t]] = NULL
          PROVE  \E u \in Threads : At(u, "linkTail") /\ link[u] = node[t]
      <3>1. Len(queue) > 0 /\ pc[t] \in Taking
        BY <2>1, <2>2 DEF OwnersKnown, At, Taking
      <3>2. Follows(node[t], queue[1])
        BY <2>1, <3>1 DEF LoanFollowed
      <3>3. queue[1] # NULL
        BY <2>1, <3>1, ElementOfSeq, LenProperties, NullAssumption
      <3> QED
        BY <2>2, <3>2, <3>3 DEF Follows, Links
    <2> QED
      BY <2>1, <2>2 DEF SpinsForSomeone, EndsKnown
  <1> QED
    BY <1>1, ShapeCorrect, PTL

-----------------------------------------------------------------------------
(***************************************************************************)
(* What m_count counts: the nodes in the queue, the dequeues that have     *)
(* taken a node out of it and not yet counted it, less the enqueues that   *)
(* have put one in and not yet counted it.  At any moment only finitely    *)
(* many threads are in either, as each came there by a step of its own.    *)
(***************************************************************************)

Takers  == {t \in Threads : pc[t] \in Taking \cup Taken}
Joiners == {t \in Threads : pc[t] \in Joining}
Excess  == Len(queue) + Cardinality(Takers) - Cardinality(Joiners)
CountInv ==
    /\ IsFiniteSet(Takers) /\ IsFiniteSet(Joiners)
    /\ count = Excess % CountRange

One(b) == IF b THEN 1 ELSE 0

\* Quotient and remainder.
LEMMA Division ==
    ASSUME NEW a \in Int, NEW n \in Int, n > 0
    PROVE  /\ a \div n \in Int /\ a % n \in 0 .. n - 1
           /\ n * (a \div n) + (a % n) = a
  BY Z3

\* Two multiples of a number are apart by that number at least.
LEMMA Multiples ==
    ASSUME NEW p \in Int, NEW q \in Int, NEW n \in Int, n > 0, p < q
    PROVE  n * p \in Int /\ n * q \in Int /\ n * p + n <= n * q
  BY Z3

\* There is one remainder.
LEMMA Remainder ==
    ASSUME NEW q \in Int, NEW n \in Int, n > 0, NEW r \in 0 .. n - 1
    PROVE  (n * q + r) % n = r
<1>1. PICK a \in Int : a = n * q + r
  OBVIOUS
<1>2. PICK p \in Int, s \in 0 .. n - 1 : p = a \div n /\ s = a % n /\ n * p + s = a
  BY Division
<1>3. n * p \in Int /\ n * q \in Int
  OBVIOUS
<1>4. ~(p < q)
  BY <1>1, <1>2, <1>3, Multiples
<1>5. ~(q < p)
  BY <1>1, <1>2, <1>3, Multiples
<1>6. p = q
  BY <1>4, <1>5
<1> QED BY <1>1, <1>2, <1>3, <1>6

\* One more or less than a counter that wraps.
LEMMA Wraps ==
    ASSUME NEW n \in Int, n > 0, NEW a \in Int
    PROVE  /\ ((a % n) + 1) % n = (a + 1) % n
           /\ ((a % n) - 1) % n = (a - 1) % n
<1>1. PICK q \in Int, c \in 0 .. n - 1 : c = a % n /\ n * q + c = a
  BY Division
<1>2. /\ n * q \in Int /\ n * (q + 1) = n * q + n /\ n * (q - 1) = n * q - n
      /\ q + 1 \in Int /\ q - 1 \in Int
  BY Z3
<1>3. (c + 1) % n = (a + 1) % n
  <2>1. CASE c + 1 < n
    <3>1. (c + 1) % n = c + 1 /\ c + 1 \in 0 .. n - 1
      BY <2>1
    <3>2. a + 1 = n * q + (c + 1)
      BY <1>1, <1>2
    <3> QED BY <3>1, <3>2, Remainder
  <2>2. CASE c + 1 = n
    <3>1. (c + 1) % n = 0
      BY <2>2, SMT
    <3>2. a + 1 = n * (q + 1) + 0
      BY <1>1, <1>2, <2>2
    <3>3. (n * (q + 1) + 0) % n = 0
      BY <1>2, Remainder
    <3> QED BY <3>1, <3>2, <3>3
  <2> QED BY <2>1, <2>2
<1>4. (c - 1) % n = (a - 1) % n
  <2>1. CASE c > 0
    <3>1. (c - 1) % n = c - 1 /\ c - 1 \in 0 .. n - 1
      BY <2>1
    <3>2. a - 1 = n * q + (c - 1)
      BY <1>1, <1>2
    <3> QED BY <3>1, <3>2, Remainder
  <2>2. CASE c = 0
    <3>1. (c - 1) % n = n - 1
      BY <2>2, SMT
    <3>2. a - 1 = n * (q - 1) + (n - 1)
      BY <1>1, <1>2, <2>2
    <3>3. (n * (q - 1) + (n - 1)) % n = n - 1
      BY <1>2, Remainder
    <3> QED BY <3>1, <3>2, <3>3
  <2> QED BY <2>1, <2>2
<1> QED BY <1>1, <1>3, <1>4

\* A set with one member more, or less, or neither.
LEMMA OneDiffers ==
    ASSUME NEW S, NEW T, NEW d, IsFiniteSet(S), S \ {d} = T \ {d}
    PROVE  /\ IsFiniteSet(T) /\ Cardinality(S) \in Nat /\ Cardinality(T) \in Nat
           /\ Cardinality(T) = Cardinality(S) + One(d \in T) - One(d \in S)
<1>1. Cardinality(S) \in Nat
  BY FS_CardinalityType
<1>2. CASE d \in T
  <2>1. T = S \cup {d}
    BY <1>2
  <2>2. /\ IsFiniteSet(T)
        /\ Cardinality(T) = IF d \in S THEN Cardinality(S) ELSE Cardinality(S) + 1
    BY <2>1, FS_AddElement
  <2> QED BY <1>1, <1>2, <2>2 DEF One
<1>3. CASE d \notin T
  <2>1. T = S \ {d}
    BY <1>3
  <2>2. /\ IsFiniteSet(T)
        /\ Cardinality(T) = IF d \in S THEN Cardinality(S) - 1 ELSE Cardinality(S)
    BY <2>1, FS_RemoveElement
  <2>3. Cardinality(T) \in Nat
    BY <2>2, FS_CardinalityType
  <2> QED BY <1>1, <1>3, <2>2, <2>3 DEF One
<1> QED BY <1>2, <1>3

\* A step of thread t changes what is to be counted by what t does alone.
LEMMA ExcessBalance ==
    ASSUME CountInv, NEW t \in Threads, \A u \in Threads \ {t} : pc'[u] = pc[u],
           Len(queue) \in Nat, Len(queue') \in Nat
    PROVE  /\ IsFiniteSet(Takers') /\ IsFiniteSet(Joiners') /\ Excess \in Int
           /\ Excess' = Excess + (Len(queue') - Len(queue))
                          + (One(pc'[t] \in Taking \cup Taken) - One(pc[t] \in Taking \cup Taken))
                          - (One(pc'[t] \in Joining) - One(pc[t] \in Joining))
<1>1. Takers \ {t} = Takers' \ {t} /\ Joiners \ {t} = Joiners' \ {t}
  BY DEF Takers, Joiners
<1>2. /\ IsFiniteSet(Takers') /\ Cardinality(Takers) \in Nat /\ Cardinality(Takers') \in Nat
      /\ Cardinality(Takers') = Cardinality(Takers) + One(t \in Takers') - One(t \in Takers)
  BY <1>1, OneDiffers DEF CountInv
<1>3. /\ IsFiniteSet(Joiners') /\ Cardinality(Joiners) \in Nat /\ Cardinality(Joiners') \in Nat
      /\ Cardinality(Joiners') = Cardinality(Joiners) + One(t \in Joiners') - One(t \in Joiners)
  BY <1>1, OneDiffers DEF CountInv
<1>4. /\ t \in Takers <=> pc[t] \in Taking \cup Taken
      /\ t \in Takers' <=> pc'[t] \in Taking \cup Taken
      /\ t \in Joiners <=> pc[t] \in Joining
      /\ t \in Joiners' <=> pc'[t] \in Joining
  BY DEF Takers, Joiners
<1>5. /\ One(t \in Takers) = One(pc[t] \in Taking \cup Taken)
      /\ One(t \in Takers') = One(pc'[t] \in Taking \cup Taken)
      /\ One(t \in Joiners) = One(pc[t] \in Joining)
      /\ One(t \in Joiners') = One(pc'[t] \in Joining)
  BY <1>4 DEF One
<1>6. PICK k \in Int, m \in Int, i \in Int, j \in Int :
          /\ k = One(pc[t] \in Taking \cup Taken) /\ m = One(pc'[t] \in Taking \cup Taken)
          /\ i = One(pc[t] \in Joining) /\ j = One(pc'[t] \in Joining)
  BY DEF One
<1>7. Cardinality(Takers') = Cardinality(Takers) + m - k
  BY <1>2, <1>5, <1>6
<1>8. Cardinality(Joiners') = Cardinality(Joiners) + j - i
  BY <1>3, <1>5, <1>6
<1>9. /\ Excess = Len(queue) + Cardinality(Takers) - Cardinality(Joiners)
      /\ Excess' = Len(queue') + Cardinality(Takers') - Cardinality(Joiners')
  BY DEF Excess
<1>10. Excess \in Int /\ Excess' = Excess + (Len(queue') - Len(queue)) + (m - k) - (j - i)
  <2>1. PICK a \in Nat, b \in Nat, c \in Nat, d \in Nat, p \in Nat, q \in Nat :
            /\ a = Len(queue) /\ b = Cardinality(Takers) /\ c = Cardinality(Joiners)
            /\ d = Len(queue') /\ p = Cardinality(Takers') /\ q = Cardinality(Joiners')
    BY <1>2, <1>3
  <2>2. Excess = a + b - c /\ Excess' = d + p - q
    BY <1>9, <2>1
  <2>3. p = b + m - k /\ q = c + j - i
    BY <1>7, <1>8, <2>1
  <2>4. d + p - q = a + b - c + (d - a) + (m - k) - (j - i) /\ a + b - c \in Int
    BY <2>3
  <2>5. Len(queue') - Len(queue) = d - a
    BY <2>1
  <2> QED BY <2>2, <2>4, <2>5
<1> QED BY <1>2, <1>3, <1>6, <1>10

\* A step that counts nothing and changes nothing that is counted.
LEMMA NothingCounted ==
    ASSUME CountInv, Len(queue) \in Nat, count' = count,
           NEW t \in Threads, \A u \in Threads \ {t} : pc'[u] = pc[u],
           \/ /\ queue' = queue
              /\ pc'[t] \in Taking \cup Taken <=> pc[t] \in Taking \cup Taken
              /\ pc'[t] \in Joining <=> pc[t] \in Joining
           \/ /\ Len(queue') = Len(queue) - 1 /\ Len(queue') \in Nat
              /\ pc[t] \in Looking /\ pc'[t] \in Taking
           \/ /\ Len(queue') = Len(queue) + 1
              /\ pc[t] \in Preparing /\ pc'[t] \in Joining
    PROVE  CountInv'
<1>1. Len(queue') \in Nat
  OBVIOUS
<1>2. /\ IsFiniteSet(Takers') /\ IsFiniteSet(Joiners') /\ Excess \in Int
      /\ Excess' = Excess + (Len(queue') - Len(queue))
                     + (One(pc'[t] \in Taking \cup Taken) - One(pc[t] \in Taking \cup Taken))
                     - (One(pc'[t] \in Joining) - One(pc[t] \in Joining))
  BY <1>1, ExcessBalance
<1>3. Excess' = Excess
  <2> HIDE DEF Excess
  <2>1. CASE /\ queue' = queue
             /\ pc'[t] \in Taking \cup Taken <=> pc[t] \in Taking \cup Taken
             /\ pc'[t] \in Joining <=> pc[t] \in Joining
    BY <1>2, <2>1 DEF One
  <2>2. CASE /\ Len(queue') = Len(queue) - 1 /\ pc[t] \in Looking /\ pc'[t] \in Taking
    BY <1>1, <1>2, <2>2 DEF One, Looking, Taking, Taken, Joining
  <2>3. CASE /\ Len(queue') = Len(queue) + 1 /\ pc[t] \in Preparing /\ pc'[t] \in Joining
    BY <1>1, <1>2, <2>3 DEF One, Preparing, Taking, Taken, Joining
  <2> QED BY <2>1, <2>2, <2>3
<1> QED BY <1>2, <1>3 DEF CountInv

\* Every step keeps the count.
LEMMA CountStep == Shape /\ CountInv /\ [Next]_vars => CountInv'
  <1> SUFFICES ASSUME Shape, CountInv, [Next]_vars PROVE CountInv'
    OBVIOUS
  <1>t. /\ pc \in [Threads -> Steps] /\ node \in [Threads -> NodeOrNull]
        /\ \A u \in Threads : pc[u] = "takeHead" => node[u] \in Nodes
        /\ queue \in Seq(Nodes) /\ Len(queue) \in Nat
    BY LenProperties DEF Shape, TypeOK
  <1>1. ASSUME NEW t \in Threads,
               \/ Dequeue(t) \/ \E n \in Nodes : Enqueue(t, n) \/ Remove(t, n)
               \/ EnterDequeue(t) \/ SpinHead(t) \/ LoadTail(t) \/ MissHead(t)
        PROVE  CountInv'
    <2>1. /\ count' = count /\ queue' = queue
          /\ \A u \in Threads \ {t} : pc'[u] = pc[u]
          /\ pc[t] \in {"idle"} \cup Looking /\ pc'[t] \in {"idle"} \cup Looking \cup Preparing
      BY <1>1, <1>t DEF Dequeue, Enqueue, Remove, EnterDequeue, SpinHead, LoadTail, MissHead,
         LoadHead, LeaveEmpty, Leave, At, Goto, shared, Looking, Preparing
    <2>2. /\ pc'[t] \in Taking \cup Taken <=> pc[t] \in Taking \cup Taken
          /\ pc'[t] \in Joining <=> pc[t] \in Joining
      BY <2>1 DEF Looking, Preparing, Taking, Taken, Joining
    <2> QED BY <1>t, <2>1, <2>2, NothingCounted
  <1>2. ASSUME NEW t \in Threads,
               \/ ReadNext(t) \/ StoreHead(t) \/ DropTail(t) \/ AwaitNext(t) \/ RelinkHead(t)
               \/ ClearNext(t)
        PROVE  CountInv'
    <2>1. /\ count' = count /\ queue' = queue
          /\ \A u \in Threads \ {t} : pc'[u] = pc[u]
          /\ pc[t] \in Taking \cup Taken /\ pc'[t] \in Taking \cup Taken
      BY <1>2, <1>t DEF ReadNext, StoreHead, DropTail, AwaitNext, RelinkHead, ClearNext,
         At, Goto, shared, Taking, Taken
    <2>2. /\ pc'[t] \in Taking \cup Taken <=> pc[t] \in Taking \cup Taken
          /\ pc'[t] \in Joining <=> pc[t] \in Joining
      BY <2>1 DEF Taking, Taken, Joining
    <2> QED BY <1>t, <2>1, <2>2, NothingCounted
  <1>3. ASSUME NEW t \in Threads, InitNext(t) \/ LinkTail(t) \/ LinkHead(t) PROVE CountInv'
    <2>1. /\ count' = count /\ queue' = queue
          /\ \A u \in Threads \ {t} : pc'[u] = pc[u]
          /\ \/ pc[t] \in Preparing /\ pc'[t] \in Preparing
             \/ pc[t] \in Joining /\ pc'[t] \in Joining
      BY <1>3, <1>t DEF InitNext, LinkTail, LinkHead, At, Goto, Preparing, Joining
    <2>2. /\ pc'[t] \in Taking \cup Taken <=> pc[t] \in Taking \cup Taken
          /\ pc'[t] \in Joining <=> pc[t] \in Joining
      BY <2>1 DEF Preparing, Taking, Taken, Joining
    <2> QED BY <1>t, <2>1, <2>2, NothingCounted
  <1>4. ASSUME NEW t \in Threads, TakeHead(t) PROVE CountInv'
    <2>1. Len(queue) > 0
      BY <1>4, <1>t, NullAssumption DEF TakeHead, At, Shape, EndsKnown
    <2>2. Len(queue') = Len(queue) - 1 /\ Len(queue') \in Nat
      BY <1>4, <1>t, <2>1, TakeQueue DEF TakeHead
    <2>3. /\ count' = count /\ \A u \in Threads \ {t} : pc'[u] = pc[u]
          /\ pc[t] \in Looking /\ pc'[t] \in Taking
      BY <1>4, <1>t DEF TakeHead, At, Goto, Looking, Taking
    <2> QED BY <1>t, <2>2, <2>3, NothingCounted
  <1>5. ASSUME NEW t \in Threads, SwapTail(t) PROVE CountInv'
    <2>1. node[t] \in Nodes
      BY <1>5 DEF SwapTail, At, Shape, TypeOK, Preparing
    <2>2. Len(queue') = Len(queue) + 1
      BY <1>5, <1>t, <2>1, PutQueue DEF SwapTail
    <2>3. /\ count' = count /\ \A u \in Threads \ {t} : pc'[u] = pc[u]
          /\ pc[t] \in Preparing /\ pc'[t] \in Joining
      BY <1>5, <1>t DEF SwapTail, At, Goto, Preparing, Joining
    <2> QED BY <1>t, <2>2, <2>3, NothingCounted
  <1>6. ASSUME NEW t \in Threads, CountDown(t) PROVE CountInv'
    <2>1. /\ pc[t] = "countDown" /\ pc'[t] \in {"idle", "initNext"} /\ queue' = queue
          /\ \A u \in Threads \ {t} : pc'[u] = pc[u]
      BY <1>6, CountDownFrame
    <2>2. /\ IsFiniteSet(Takers') /\ IsFiniteSet(Joiners') /\ Excess \in Int
          /\ Excess' = Excess - 1
      <3>1. /\ One(pc[t] \in Taking \cup Taken) = 1 /\ One(pc'[t] \in Taking \cup Taken) = 0
            /\ One(pc[t] \in Joining) = 0 /\ One(pc'[t] \in Joining) = 0
        BY <2>1 DEF One, Taking, Taken, Joining
      <3> QED BY <1>t, <2>1, <3>1, ExcessBalance
    <2>3. count' = ((Excess % CountRange) - 1) % CountRange
      BY <1>6 DEF CountDown, CountInv
    <2>4. count' = (Excess - 1) % CountRange
      <3>1. CountRange \in Int /\ CountRange > 0
        BY RangeAssumption
      <3> QED BY <2>2, <2>3, <3>1, Wraps
    <2> QED BY <2>2, <2>4 DEF CountInv
  <1>7. ASSUME NEW t \in Threads, CountUp(t) PROVE CountInv'
    <2>1. /\ pc[t] = "countUp" /\ pc'[t] \in {"idle", "loadHead"} /\ queue' = queue
          /\ \A u \in Threads \ {t} : pc'[u] = pc[u]
      BY <1>7, CountUpFrame
    <2>2. /\ IsFiniteSet(Takers') /\ IsFiniteSet(Joiners') /\ Excess \in Int
          /\ Excess' = Excess + 1
      <3>1. /\ One(pc[t] \in Taking \cup Taken) = 0 /\ One(pc'[t] \in Taking \cup Taken) = 0
            /\ One(pc[t] \in Joining) = 1 /\ One(pc'[t] \in Joining) = 0
        BY <2>1 DEF One, Taking, Taken, Joining
      <3> QED BY <1>t, <2>1, <3>1, ExcessBalance
    <2>3. count' = ((Excess % CountRange) + 1) % CountRange
      BY <1>7 DEF CountUp, CountInv
    <2>4. count' = (Excess + 1) % CountRange
      <3>1. CountRange \in Int /\ CountRange > 0
        BY RangeAssumption
      <3> QED BY <2>2, <2>3, <3>1, Wraps
    <2> QED BY <2>2, <2>4 DEF CountInv
  <1>8. CASE UNCHANGED vars
    BY <1>8 DEF vars, CountInv, Excess, Takers, Joiners
  <1> QED
    BY <1>1, <1>2, <1>3, <1>4, <1>5, <1>6, <1>7, <1>8 DEF Next, Call, Step

\* m_count is the length of the list, corrected by the calls that have changed the list and
\* not yet the count, for any number of threads and whatever the width it wraps at.
THEOREM ListCountExact == Spec => []CountExact
  <1>1. Init => CountInv
    <2> SUFFICES ASSUME Init PROVE CountInv
      OBVIOUS
    <2>1. Takers = {} /\ Joiners = {} /\ queue = <<>> /\ count = 0
      BY DEF Init, Takers, Joiners, Taking, Taken, Joining
    <2>2. IsFiniteSet(Takers) /\ IsFiniteSet(Joiners) /\ Excess = 0
      BY <2>1, FS_EmptySet DEF Excess
    <2>3. 0 % CountRange = 0
      BY RangeAssumption
    <2> QED BY <2>1, <2>2, <2>3 DEF CountInv
  <1>2. CountInv => CountExact
    BY DEF CountInv, CountExact, Excess, Takers, Joiners
  <1> QED
    BY <1>1, <1>2, CountStep, ShapeCorrect, PTL DEF Spec

-----------------------------------------------------------------------------
(***************************************************************************)
(* ConcurrentFifoList implements FifoQueue: an enqueue takes effect with   *)
(* its exchange of m_tail, a dequeue with its exchange of m_head, and a    *)
(* dequeue that returns nullptr with its last look at m_tail.              *)
(***************************************************************************)

\* How far the call of one thread has come, in the terms of FifoQueue.
LEMMA CallOf ==
    ASSUME NEW t \in Threads
    PROVE  /\ pc[t] = "idle" => AbsCall[t] = Abs!NoCall
           /\ pc[t] \in Looking => AbsCall[t] = Abs!Deq
           /\ pc[t] \in Taking \cup Taken => AbsCall[t] = Abs!Got(node[t])
           /\ pc[t] \in Preparing => AbsCall[t] = Abs!Enq(node[t])
           /\ pc[t] \in Joining => AbsCall[t] = Abs!Did(node[t])
  BY DEF AbsCall, Looking, Taking, Taken, Preparing, Joining,
     Abs!NoCall, Abs!Deq, Abs!Got, Abs!Enq, Abs!Did

\* The same of the next state.
LEMMA NextCallOf ==
    ASSUME NEW t \in Threads
    PROVE  /\ pc'[t] = "idle" => AbsCall'[t] = Abs!NoCall
           /\ pc'[t] \in Looking => AbsCall'[t] = Abs!Deq
           /\ pc'[t] \in Taking \cup Taken => AbsCall'[t] = Abs!Got(node'[t])
           /\ pc'[t] \in Preparing => AbsCall'[t] = Abs!Enq(node'[t])
           /\ pc'[t] \in Joining => AbsCall'[t] = Abs!Did(node'[t])
  BY DEF AbsCall, Looking, Taking, Taken, Preparing, Joining,
     Abs!NoCall, Abs!Deq, Abs!Got, Abs!Enq, Abs!Did

\* A step of one thread leaves the calls of the others alone.
LEMMA OneCall ==
    ASSUME NEW t \in Threads,
           \A u \in Threads \ {t} : pc'[u] = pc[u] /\ node'[u] = node[u]
    PROVE  AbsCall' = [AbsCall EXCEPT ![t] = AbsCall'[t]]
  <1>1. \A u \in Threads \ {t} : AbsCall'[u] = AbsCall[u]
    BY DEF AbsCall
  <1>2. AbsCall = [u \in Threads |-> AbsCall[u]] /\ AbsCall' = [u \in Threads |-> AbsCall'[u]]
    BY DEF AbsCall
  <1> QED
    BY <1>1, <1>2

\* The kinds of pending and finished calls.
LEMMA Ops ==
    ASSUME NEW n
    PROVE  /\ Abs!NoCall.op = "none" /\ Abs!Deq.op = "deq"
           /\ Abs!Got(n).op = "got" /\ Abs!Got(n).node = n
           /\ Abs!Enq(n).op = "enq" /\ Abs!Enq(n).node = n
           /\ Abs!Did(n).op = "did" /\ Abs!Did(n).node = n
  BY DEF Abs!NoCall, Abs!Deq, Abs!Got, Abs!Enq, Abs!Did

\* The nodes in hand there are the nodes in hand here.
LEMMA InHandHolds ==
    ASSUME Shape, NEW n \in Abs!InHand
    PROVE  \E t \in Threads : Holds(t, n)
  <1>1. PICK t \in Threads : AbsCall[t].op \in {"enq", "got"} /\ n = AbsCall[t].node
    BY DEF Abs!InHand
  <1>2. pc[t] \in Steps
    BY DEF Shape, TypeOK
  <1>3. pc[t] \in Taking \cup Taken \cup Preparing
    BY <1>1, <1>2, CallOf, Ops DEF Steps
  <1>4. n = node[t]
    BY <1>1, <1>3, CallOf, Ops
  <1> QED
    BY <1>3, <1>4 DEF Holds

-----------------------------------------------------------------------------
(* The kinds of steps: each lemma takes one kind to a step of FifoQueue *)

\* A step that keeps the call of its thread where it was is a stutter.
LEMMA Stutter ==
    ASSUME NEW t \in Threads, queue' = queue, AbsCall'[t] = AbsCall[t],
           \A u \in Threads \ {t} : pc'[u] = pc[u] /\ node'[u] = node[u]
    PROVE  UNCHANGED Abs!vars
  <1>1. AbsCall = [u \in Threads |-> AbsCall[u]]
    BY DEF AbsCall
  <1> QED
    BY OneCall, <1>1 DEF Abs!vars

\* The step that starts a dequeue, the first of a caller or the next of remove().
LEMMA Started ==
    ASSUME NEW t \in Threads, queue' = queue, pc[t] \in {"idle", "countUp"},
           pc'[t] \in Looking,
           \A u \in Threads \ {t} : pc'[u] = pc[u] /\ node'[u] = node[u]
    PROVE  Abs!Next
  <1>1. ~Abs!Pending(t)
    BY CallOf, Ops DEF Joining, Abs!Pending
  <1>2. AbsCall' = [AbsCall EXCEPT ![t] = Abs!Deq]
    BY OneCall, NextCallOf
  <1> QED
    BY <1>1, <1>2 DEF Abs!CallDequeue, Abs!Set, Abs!Next

\* The step that ends a call.
LEMMA Returned ==
    ASSUME NEW t \in Threads, queue' = queue, pc[t] \in {"countDown", "countUp"},
           pc'[t] = "idle",
           \A u \in Threads \ {t} : pc'[u] = pc[u] /\ node'[u] = node[u]
    PROVE  Abs!Next
  <1>1. AbsCall[t].op \in {"got", "did"}
    BY CallOf, Ops DEF Joining, Taken
  <1>2. AbsCall' = [AbsCall EXCEPT ![t] = Abs!NoCall]
    BY OneCall, NextCallOf
  <1> QED
    BY <1>1, <1>2 DEF Abs!Return, Abs!Set, Abs!Next

-----------------------------------------------------------------------------
(* The refinement *)

\* Every step of the list is a step of the queue, or none.
LEMMA RefineStep == Shape /\ [Next]_vars => [Abs!Next]_(Abs!vars)
  <1> SUFFICES ASSUME Shape, [Next]_vars PROVE Abs!Next \/ UNCHANGED Abs!vars
    OBVIOUS
  <1>t. /\ pc \in [Threads -> Steps] /\ node \in [Threads -> NodeOrNull]
        /\ \A u \in Threads : pc[u] \in {"takeHead"} \cup Preparing => node[u] \in Nodes
        /\ queue \in Seq(Nodes)
    BY DEF Shape, TypeOK
  <1> USE DEF At, Goto, Hold, Note, Leave, LeaveEmpty, shared, locals
  <1>1. ASSUME NEW t \in Threads, Dequeue(t) PROVE Abs!Next
    BY <1>1, <1>t, Started DEF Dequeue, Looking
  <1>2. ASSUME NEW t \in Threads, NEW n \in Nodes, Enqueue(t, n) PROVE Abs!Next
    <2>1. /\ pc[t] = "idle" /\ pc'[t] \in Preparing /\ node'[t] = n /\ queue' = queue
          /\ \A u \in Threads \ {t} : pc'[u] = pc[u] /\ node'[u] = node[u]
      BY <1>2, <1>t DEF Enqueue, Preparing
    <2>2. ~Queued(n) /\ ~\E u \in Threads : Holds(u, n)
      BY <1>2 DEF Enqueue, Shape, OnePlace
    <2>3. n \notin Abs!InQueue
      BY <1>t, <2>2, LenProperties DEF Abs!InQueue, Queued
    <2>4. n \notin Abs!InHand
      BY <2>2, InHandHolds
    <2>5. ~Abs!Pending(t) /\ AbsCall' = [AbsCall EXCEPT ![t] = Abs!Enq(n)]
      BY <2>1, CallOf, NextCallOf, OneCall, Ops DEF Abs!Pending
    <2> QED
      BY <2>1, <2>3, <2>4, <2>5 DEF Abs!CallEnqueue, Abs!Set, Abs!Next
  <1>3. ASSUME NEW t \in Threads, NEW n \in Nodes, Remove(t, n) PROVE Abs!Next
    BY <1>3, <1>t, Started DEF Remove, Looking
  <1>4. ASSUME NEW t \in Threads, EnterDequeue(t) \/ SpinHead(t) \/ MissHead(t)
        PROVE  UNCHANGED Abs!vars
    <2>1. /\ pc[t] \in Looking /\ pc'[t] \in Looking /\ queue' = queue
          /\ \A u \in Threads \ {t} : pc'[u] = pc[u] /\ node'[u] = node[u]
      BY <1>4, <1>t DEF EnterDequeue, SpinHead, MissHead, LoadHead, Looking
    <2> QED
      BY <2>1, CallOf, NextCallOf, Stutter
  <1>5. ASSUME NEW t \in Threads, LoadTail(t) PROVE Abs!Next \/ UNCHANGED Abs!vars
    <2>1. CASE tail = NULL
      <3>1. /\ pc[t] \in Looking /\ pc'[t] = "idle" /\ queue' = queue
            /\ \A u \in Threads \ {t} : pc'[u] = pc[u] /\ node'[u] = node[u]
        BY <1>5, <1>t, <2>1 DEF LoadTail, Looking
      <3>2. queue = <<>>
        <4>1. ASSUME Len(queue) > 0 PROVE FALSE
          <5>1. Len(queue) \in 1 .. Len(queue) /\ tail = queue[Len(queue)]
            BY <1>t, <4>1, LenProperties DEF Shape, EndsKnown
          <5> QED
            BY <1>t, <2>1, <5>1, ElementOfSeq, NullAssumption
        <4> QED
          BY <1>t, <4>1, EmptySeq
      <3>3. AbsCall[t].op = "deq" /\ AbsCall' = [AbsCall EXCEPT ![t] = Abs!NoCall]
        BY <3>1, CallOf, NextCallOf, OneCall, Ops
      <3> QED
        BY <3>1, <3>2, <3>3 DEF Abs!FindEmpty, Abs!Set, Abs!Next
    <2>2. CASE tail # NULL
      <3>1. /\ pc[t] \in Looking /\ pc'[t] \in Looking /\ queue' = queue
            /\ \A u \in Threads \ {t} : pc'[u] = pc[u] /\ node'[u] = node[u]
        BY <1>5, <1>t, <2>2 DEF LoadTail, Looking
      <3> QED
        BY <3>1, CallOf, NextCallOf, Stutter
    <2> QED
      BY <2>1, <2>2
  <1>6. ASSUME NEW t \in Threads, TakeHead(t) PROVE Abs!Next
    <2>1. /\ pc[t] \in Looking /\ pc'[t] \in Taking /\ node' = node /\ queue' = Tail(queue)
          /\ \A u \in Threads \ {t} : pc'[u] = pc[u]
      BY <1>6, <1>t DEF TakeHead, Looking, Taking
    <2>2. queue # <<>> /\ node[t] = queue[1]
      <3>1. head = node[t] /\ node[t] \in Nodes
        BY <1>6, <1>t DEF TakeHead
      <3>2. Len(queue) > 0 /\ node[t] = queue[1]
        BY <3>1, NullAssumption DEF Shape, EndsKnown
      <3> QED
        BY <3>2, EmptySeq
    <2>3. AbsCall[t].op = "deq" /\ AbsCall' = [AbsCall EXCEPT ![t] = Abs!Got(node[t])]
      BY <2>1, CallOf, NextCallOf, OneCall, Ops
    <2>4. Head(queue) = node[t]
      BY <1>t, <2>2
    <2> QED
      BY <2>1, <2>2, <2>3, <2>4 DEF Abs!TakeEffectDequeue, Abs!Set, Abs!Got, Abs!Next
  <1>7. ASSUME NEW t \in Threads,
               \/ ReadNext(t) \/ StoreHead(t) \/ DropTail(t) \/ AwaitNext(t) \/ RelinkHead(t)
               \/ ClearNext(t)
        PROVE  UNCHANGED Abs!vars
    <2>1. /\ pc[t] \in Taking \cup Taken /\ pc'[t] \in Taking \cup Taken
          /\ queue' = queue /\ node' = node
          /\ \A u \in Threads \ {t} : pc'[u] = pc[u]
      BY <1>7, <1>t DEF ReadNext, StoreHead, DropTail, AwaitNext, RelinkHead, ClearNext,
         Taking, Taken
    <2> QED
      BY <2>1, CallOf, NextCallOf, Stutter
  <1>8. ASSUME NEW t \in Threads, CountDown(t) PROVE Abs!Next
    <2>1. CASE target[t] \in {NULL, node[t]}
      BY <1>8, <1>t, <2>1, Returned DEF CountDown
    <2>2. CASE target[t] \notin {NULL, node[t]}
      <3>1. /\ pc[t] \in Taken /\ pc'[t] \in Preparing /\ node' = node /\ queue' = queue
            /\ \A u \in Threads \ {t} : pc'[u] = pc[u]
        BY <1>8, <1>t, <2>2 DEF CountDown, Taken, Preparing
      <3>2. node[t] \in Nodes
        BY <3>1 DEF Shape, TypeOK
      <3>3. ~Queued(node[t])
        BY <3>1, <3>2 DEF Shape, OnePlace, Holds
      <3>4. node[t] \notin Abs!InQueue
        BY <1>t, <3>3, LenProperties DEF Abs!InQueue, Queued
      <3>5. AbsCall[t] = Abs!Got(node[t]) /\ AbsCall' = [AbsCall EXCEPT ![t] = Abs!Enq(node[t])]
        BY <3>1, CallOf, NextCallOf, OneCall
      <3>6. ~Abs!Pending(t)
        BY <3>5, Ops DEF Abs!Pending
      <3> QED
        BY <3>1, <3>2, <3>4, <3>5, <3>6 DEF Abs!CallEnqueue, Abs!Set, Abs!Next
    <2> QED
      BY <2>1, <2>2
  <1>9. ASSUME NEW t \in Threads, InitNext(t) PROVE UNCHANGED Abs!vars
    <2>1. /\ pc[t] \in Preparing /\ pc'[t] \in Preparing /\ queue' = queue /\ node' = node
          /\ \A u \in Threads \ {t} : pc'[u] = pc[u]
      BY <1>9, <1>t DEF InitNext, Preparing
    <2> QED
      BY <2>1, CallOf, NextCallOf, Stutter
  <1>10. ASSUME NEW t \in Threads, SwapTail(t) PROVE Abs!Next
    <2>1. /\ pc[t] \in Preparing /\ pc'[t] \in Joining /\ node' = node
          /\ queue' = Append(queue, node[t])
          /\ \A u \in Threads \ {t} : pc'[u] = pc[u]
      BY <1>10, <1>t DEF SwapTail, Preparing, Joining
    <2>2. /\ AbsCall[t].op = "enq" /\ AbsCall[t].node = node[t]
          /\ AbsCall' = [AbsCall EXCEPT ![t] = Abs!Did(node[t])]
      BY <2>1, CallOf, NextCallOf, OneCall, Ops
    <2> QED
      BY <2>1, <2>2 DEF Abs!TakeEffectEnqueue, Abs!Set, Abs!Did, Abs!Next
  <1>11. ASSUME NEW t \in Threads, LinkTail(t) \/ LinkHead(t) PROVE UNCHANGED Abs!vars
    <2>1. /\ pc[t] \in Joining /\ pc'[t] \in Joining /\ queue' = queue /\ node' = node
          /\ \A u \in Threads \ {t} : pc'[u] = pc[u]
      BY <1>11, <1>t DEF LinkTail, LinkHead, Joining
    <2> QED
      BY <2>1, CallOf, NextCallOf, Stutter
  <1>12. ASSUME NEW t \in Threads, CountUp(t) PROVE Abs!Next
    <2>1. /\ pc[t] = "countUp" /\ pc'[t] \in {"idle", "loadHead"} /\ queue' = queue
          /\ \A u \in Threads \ {t} : pc'[u] = pc[u] /\ node'[u] = node[u]
      BY <1>12, <1>t DEF CountUp
    <2> QED
      BY <2>1, Started, Returned DEF Looking
  <1>13. CASE UNCHANGED vars
    BY <1>13 DEF vars, Abs!vars, AbsCall
  <1> QED
    BY <1>1, <1>2, <1>3, <1>4, <1>5, <1>6, <1>7, <1>8, <1>9, <1>10, <1>11, <1>12, <1>13
       DEF Next, Call, Step

\* The list implements a linearizable FIFO queue: every behaviour of any number
\* of threads is one of FifoQueue.
THEOREM ListImplementsQueue == Spec => ImplementsFifoQueue
  <1>1. Init => Abs!Init
    BY DEF Init, AbsCall, Abs!Init, Abs!NoCall, Looking, Taking, Taken, Preparing, Joining
  <1> QED
    BY <1>1, RefineStep, ShapeCorrect, PTL DEF Spec, ImplementsFifoQueue, Abs!Spec
=============================================================================
