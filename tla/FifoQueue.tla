------------------------------ MODULE FifoQueue ------------------------------
(***************************************************************************)
(* What a ConcurrentFifoList promises to its callers: a linearizable FIFO  *)
(* queue.  A call is pending until it takes effect in one atomic step      *)
(* between its invocation and its return; an enqueue puts its node last, a *)
(* dequeue gets the node in front, and "empty" is only answered by a queue *)
(* that is empty at that instant.                                          *)
(***************************************************************************)
EXTENDS Sequences, FiniteSets

CONSTANTS Threads,   \* the callers
          Nodes      \* the waiting awaiters that are queued

VARIABLES queue,     \* the nodes in the queue, front first
          call       \* what each thread is doing

vars == <<queue, call>>

NoCall     == [op |-> "none"]
Deq        == [op |-> "deq"]
Enq(n)     == [op |-> "enq", node |-> n]
Got(n)     == [op |-> "got", node |-> n]
Did(n)     == [op |-> "did", node |-> n]

Calls == {NoCall, Deq} \cup {Enq(n) : n \in Nodes} \cup {Got(n) : n \in Nodes}
                       \cup {Did(n) : n \in Nodes}

Pending(t) == call[t].op \in {"deq", "enq"}

\* Nodes some thread has in hand: about to be put in, or just taken out.
InHand == {call[t].node : t \in {u \in Threads : call[u].op \in {"enq", "got"}}}
InQueue == {queue[i] : i \in DOMAIN queue}

Init ==
    /\ queue = <<>>
    /\ call = [t \in Threads |-> NoCall]

Set(t, c) == call' = [call EXCEPT ![t] = c]

\* A dequeue is called.
CallDequeue(t) ==
    /\ ~Pending(t)
    /\ Set(t, Deq)
    /\ UNCHANGED queue

\* An enqueue is called: with a node nobody else holds, or with the one the
\* caller itself just took (a rotation).
CallEnqueue(t, n) ==
    /\ ~Pending(t)
    /\ n \notin InQueue
    /\ n \notin InHand \/ call[t] = Got(n)
    /\ Set(t, Enq(n))
    /\ UNCHANGED queue

TakeEffectEnqueue(t) ==
    /\ call[t].op = "enq"
    /\ queue' = Append(queue, call[t].node)
    /\ Set(t, Did(call[t].node))

TakeEffectDequeue(t) ==
    /\ call[t].op = "deq"
    /\ queue # <<>>
    /\ queue' = Tail(queue)
    /\ Set(t, Got(Head(queue)))

FindEmpty(t) ==
    /\ call[t].op = "deq"
    /\ queue = <<>>
    /\ Set(t, NoCall)
    /\ UNCHANGED queue

Return(t) ==
    /\ call[t].op \in {"got", "did"}
    /\ Set(t, NoCall)
    /\ UNCHANGED queue

Next ==
    \E t \in Threads :
        \/ CallDequeue(t)
        \/ \E n \in Nodes : CallEnqueue(t, n)
        \/ TakeEffectEnqueue(t)
        \/ TakeEffectDequeue(t)
        \/ FindEmpty(t)
        \/ Return(t)

Spec == Init /\ [][Next]_vars
=============================================================================
