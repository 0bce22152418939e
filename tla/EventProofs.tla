----------------------------- MODULE EventProofs ----------------------------
(***************************************************************************)
(* Proofs about AsyncCountDownEvent and the AsyncValue built on it, for    *)
(* any numbers of waiters and agents and any bounds.                       *)
(*                                                                         *)
(* Of the event: every waiter is in exactly one place, a zero event that   *)
(* has waiters has somebody to look at them, and it implements WaitEvent.  *)
(* Of the value: nobody comes out of a wait with an unset one.             *)
(***************************************************************************)
EXTENDS AsyncValue, WhereaboutsLemmas

-----------------------------------------------------------------------------
(* The event *)

Running == {"ready", "suspend", "resume", "entry", "scope", "enqueue", "notListed"}
Cancelling == {"pause", "remove", "search", "take", "compare", "resumeLate", "removed"}
InCancel(a) == pc[a] \in Cancelling \/ (Draining(a) /\ back[a] = "removed")

\* What an agent's place in the code says of its local variables.
Control ==
    /\ \A a \in Agents :
          /\ pc[a] \in Running => self[a] \in Waiters
          /\ InCancel(a) => self[a] \in Waiters /\ cancelled[self[a]]
          /\ hand[a] \in Waiters <=> pc[a] \in {"wake", "requeue", "compare"}
          /\ found[a] => pc[a] \in {"resumeLate", "removed"}
                         \/ (Draining(a) /\ back[a] = "removed")
          /\ found[a] => hand[a] # self[a]
          /\ At(a, "compare") => left[a] > 0
    /\ \A c \in Waiters : point[c] # "done" => rounds[c] > 0

EventInv == TypeOK /\ Control /\ OnePlace

\* The remainder of a division is below the divisor: m_asyncScope.
LEMMA ScopeBound == ASSUME NEW m \in Int, NEW n \in Nat \ {0} PROVE m % n \in 0 .. n - 1
  OBVIOUS

\* One more time in the ready queues.
LEMMA CountsOneMore ==
    ASSUME NEW S, NEW f \in [S -> Nat], NEW c PROVE [f EXCEPT ![c] = @ + 1] \in [S -> Nat]
<1>1. \A d \in S : [f EXCEPT ![c] = @ + 1][d] = IF d = c THEN f[d] + 1 ELSE f[d]
  OBVIOUS
<1>2. \A d \in S : f[d] \in Nat /\ f[d] + 1 \in Nat
  OBVIOUS
<1>3. [f EXCEPT ![c] = @ + 1] = [d \in S |-> [f EXCEPT ![c] = @ + 1][d]]
  OBVIOUS
<1> QED BY <1>1, <1>2, <1>3

-----------------------------------------------------------------------------
(* What OnePlace says of a waiter in one of its places *)

LEMMA WaiterValues ==
    ASSUME TypeOK PROVE Values(Waiters, Agents, scheduled, waitQueue, Hands)
BY DEF TypeOK, Values, Hands

\* A waiter that an agent has is not in another place.
LEMMA HeldAlone ==
    ASSUME TypeOK, OnePlace, NEW a \in Agents, NEW c \in Waiters, Has(a, c)
    PROVE  /\ c \in Live /\ scheduled[c] = 0 /\ ~Queued(waitQueue, c)
           /\ \A b \in Agents : Has(b, c) => b = a
<1>1. Placed(Waiters, Live, scheduled, waitQueue, Hands)
  BY WaiterValues, PlacedIsInOnePlace DEF OnePlace
<1>2. <<a, c>> \in Hands /\ Held(Hands, c)
  BY DEF Hands, Held
<1>3. ASSUME NEW b \in Agents, Has(b, c) PROVE b = a
  <2>1. <<b, c>> \in Hands
    BY <1>3 DEF Hands
  <2>2. <<b, c>>[1] = <<a, c>>[1]
    BY <1>1, <1>2, <2>1 DEF Placed
  <2> QED BY <2>2
<1> QED BY <1>1, <1>2, <1>3 DEF Placed

\* The first in the queue is in nobody's hands.
LEMMA FirstAlone ==
    ASSUME TypeOK, OnePlace, waitQueue # <<>>
    PROVE  /\ Head(waitQueue) \in Waiters /\ Tail(waitQueue) \in Seq(Waiters)
           /\ Head(waitQueue) \in Live /\ scheduled[Head(waitQueue)] = 0
           /\ \A b \in Agents : ~Has(b, Head(waitQueue))
<1>1. Placed(Waiters, Live, scheduled, waitQueue, Hands)
  BY WaiterValues, PlacedIsInOnePlace DEF OnePlace
<1>2. /\ Head(waitQueue) \in Waiters /\ Queued(waitQueue, Head(waitQueue))
      /\ Tail(waitQueue) \in Seq(Waiters)
  BY <1>1, QueueDrops DEF Placed, TypeOK
<1>3. ASSUME NEW b \in Agents, Has(b, Head(waitQueue)) PROVE FALSE
  <2>1. <<b, Head(waitQueue)>> \in Hands
    BY <1>2, <1>3 DEF Hands
  <2>2. Held(Hands, Head(waitQueue))
    BY <2>1 DEF Held
  <2> QED BY <1>1, <1>2, <2>2 DEF Placed
<1> QED BY <1>1, <1>2, <1>3 DEF Placed

-----------------------------------------------------------------------------
(* Types, and what the agents know *)

LEMMA EventInitInv == Init => EventInv
<1> SUFFICES ASSUME Init PROVE EventInv
  OBVIOUS
<1> USE NullAssumption, CountAssumption, BoundAssumption DEF Init
<1>1. TypeOK
  <2>1. count \in 0 .. MaxCount /\ scope \in 0 .. ScopeRange - 1 /\ waitQueue \in Seq(Waiters)
    OBVIOUS
  <2>2. /\ point \in [Waiters -> {"new", "start", "await", "done"}]
        /\ rounds \in [Waiters -> 0 .. Rounds] /\ scheduled \in [Waiters -> Nat]
    OBVIOUS
  <2>3. downs \in [Agents -> 0 .. Downs] /\ ups \in [Agents -> 0 .. Ups]
    OBVIOUS
  <2> QED BY <2>1, <2>2, <2>3 DEF TypeOK, Places
<1>2. Control
  BY DEF Control, Running, InCancel, Cancelling, Draining, At
<1>3. OnePlace
  <2>1. Hands = {}
    BY DEF Hands, Has, InHand
  <2>2. \A c \in Waiters : ~Queued(waitQueue, c) /\ ~Held(Hands, c)
    BY <2>1 DEF Queued, Held
  <2>3. \A c \in Waiters : c \in Live <=> scheduled[c] = 1
    BY DEF Live
  <2>4. Placed(Waiters, Live, scheduled, waitQueue, Hands)
    BY <2>1, <2>2, <2>3 DEF Placed
  <2> QED BY <1>1, <2>4, WaiterValues, PlacedIsInOnePlace DEF OnePlace
<1> QED BY <1>1, <1>2, <1>3 DEF EventInv

\* A search of the wait queue has a length, whatever m_count says at that moment.
LEMMA SearchEnds == \A n \in QueueCounts : (2 * n) % CountRange \in Nat
<1>1. CountRange \in Int /\ CountRange > 0
  BY RangeAssumption
<1>2. \A i \in Int : i % CountRange \in Nat
  BY <1>1
<1>3. \A n \in QueueCounts : n \in Int
  BY <1>1 DEF QueueCounts
<1> QED BY <1>2, <1>3

\* Every step keeps the types: rounds does not fall below zero, nor left.
LEMMA EventTypeStep == ASSUME EventInv, [Next]_vars PROVE TypeOK'
<1>a. TypeOK
  BY DEF EventInv
<1>b. /\ \A a \in Agents : pc[a] \in {"enqueue", "notListed", "removed"} => self[a] \in Waiters
      /\ \A a \in Agents : pc[a] \in {"wake", "requeue", "compare"} => hand[a] \in Waiters
      /\ \A a \in Agents : pc[a] = "compare" => left[a] > 0
  BY DEF EventInv, Control, Running, InCancel, Cancelling, At
<1> USE <1>a
<1> USE NullAssumption, CountAssumption, BoundAssumption
       DEF TypeOK, Places, event, coros, agents, At, EmptyHand, Goto, Go, Schedule, isZero,
           CallResumeWaiting
<1>0. CASE UNCHANGED vars
  BY <1>0 DEF vars
<1>1. ASSUME NEW a \in Agents, Decrement(a) PROVE TypeOK'
  <2>1. count' \in 0 .. MaxCount
    BY <1>1 DEF Decrement
  <2>2. pc' \in [Agents -> Places] /\ back' \in [Agents -> {"idle", "exit", "listed", "removed"}]
    BY <1>1 DEF Decrement
  <2> QED BY <1>1, <2>1, <2>2 DEF Decrement
<1>2. ASSUME NEW a \in Agents, Exit(a) PROVE TypeOK'
  <2>1. scope' \in 0 .. ScopeRange - 1
    BY <1>2, ScopeBound DEF Exit
  <2> QED BY <1>2, <2>1 DEF Exit
<1>3. ASSUME NEW a \in Agents, DequeueWaiter(a) PROVE TypeOK'
  <2>1. CASE waitQueue = <<>>
    <3>1. pc' = [pc EXCEPT ![a] = back[a]] /\ UNCHANGED <<event, coros, agents>>
      BY <1>3, <2>1 DEF DequeueWaiter
    <3>2. pc' \in [Agents -> Places]
      BY <3>1
    <3> QED BY <3>1, <3>2
  <2>2. CASE waitQueue # <<>>
    <3>1. PICK c \in Waiters : c = Head(waitQueue)
      BY <2>2, FirstAlone DEF EventInv
    <3>2. /\ pc' = [pc EXCEPT ![a] = "wake"] /\ hand' = [hand EXCEPT ![a] = c]
          /\ waitQueue' = Tail(waitQueue)
          /\ UNCHANGED <<count, scope, destroyed, coros, self, back, left, found, downs, ups>>
      BY <1>3, <2>2, <3>1 DEF DequeueWaiter
    <3>3. /\ pc' \in [Agents -> Places] /\ hand' \in [Agents -> Waiters \cup {NULL}]
          /\ waitQueue' \in Seq(Waiters)
      BY <2>2, <3>2, FirstAlone DEF EventInv
    <3> QED BY <3>2, <3>3
  <2> QED BY <2>1, <2>2
<1>4. ASSUME NEW a \in Agents, Wake(a) PROVE TypeOK'
  <2>1. CASE isZero
    <3>1. /\ pc' = [pc EXCEPT ![a] = "again"] /\ hand' = [hand EXCEPT ![a] = NULL]
          /\ scheduled' = [scheduled EXCEPT ![hand[a]] = @ + 1]
          /\ UNCHANGED <<event, point, rounds, cancelled, blocked, pausing, self, back, left,
                         found, downs, ups>>
      BY <1>4, <2>1 DEF Wake
    <3>2. /\ pc' \in [Agents -> Places] /\ hand' \in [Agents -> Waiters \cup {NULL}]
          /\ scheduled' \in [Waiters -> Nat]
      BY <3>1, CountsOneMore
    <3> QED BY <3>1, <3>2
  <2>2. CASE ~isZero
    BY <1>4, <2>2 DEF Wake
  <2> QED BY <2>1, <2>2
<1>5. ASSUME NEW a \in Agents, Requeue(a) PROVE TypeOK'
  <2>1. pc' \in [Agents -> Places]
    BY <1>5, <1>b DEF Requeue
  <2>2. hand' \in [Agents -> Waiters \cup {NULL}]
    BY <1>5, <1>b DEF Requeue
  <2>3. waitQueue' \in Seq(Waiters)
    BY <1>5, <1>b DEF Requeue
  <2>4. UNCHANGED <<count, scope, destroyed, coros, self, back, left, found, downs, ups>>
    BY <1>5, <1>b DEF Requeue
  <2> QED BY <2>1, <2>2, <2>3, <2>4
<1>6. ASSUME NEW a \in Agents, Again(a) PROVE TypeOK'
  BY <1>6 DEF Again
<1>7. ASSUME NEW a \in Agents, EnqueueEntry(a) PROVE TypeOK'
  BY <1>7 DEF EnqueueEntry
<1>8. ASSUME NEW a \in Agents, EnqueueScope(a) PROVE TypeOK'
  <2>1. scope' \in 0 .. ScopeRange - 1
    BY <1>8, ScopeBound DEF EnqueueScope
  <2> QED BY <1>8, <2>1 DEF EnqueueScope
<1>9. ASSUME NEW a \in Agents, Enqueue(a) PROVE TypeOK'
  <2>1. pc' \in [Agents -> Places]
    BY <1>9, <1>b DEF Enqueue
  <2>2. waitQueue' \in Seq(Waiters)
    BY <1>9, <1>b DEF Enqueue
  <2>3. UNCHANGED <<count, scope, destroyed, coros, agents>>
    BY <1>9, <1>b DEF Enqueue
  <2> QED BY <2>1, <2>2, <2>3
<1>10. ASSUME NEW a \in Agents, Recheck(a) PROVE TypeOK'
  BY <1>10 DEF Recheck
<1>11. ASSUME NEW a \in Agents, Listed(a) PROVE TypeOK'
  <2>1. scope' \in 0 .. ScopeRange - 1
    BY <1>11, ScopeBound DEF Listed
  <2> QED BY <1>11, <2>1 DEF Listed
<1>12. ASSUME NEW a \in Agents, NotListed(a) PROVE TypeOK'
  <2>1. self[a] \in Waiters
    BY <1>12, <1>b DEF NotListed
  <2>2. scheduled' \in [Waiters -> Nat]
    <3>1. \/ scheduled' = [scheduled EXCEPT ![self[a]] = @ + 1]
          \/ scheduled' = scheduled
      BY <1>12 DEF NotListed
    <3>2. CASE scheduled' = [scheduled EXCEPT ![self[a]] = @ + 1]
      <4>1. scheduled[self[a]] + 1 \in Nat
        BY <2>1
      <4> QED BY <3>2, <4>1
    <3>3. CASE scheduled' = scheduled
      BY <3>3
    <3> QED BY <3>1, <3>2, <3>3
  <2>3. blocked' \in [Waiters -> BOOLEAN]
    BY <1>12, <2>1 DEF NotListed
  <2> QED BY <1>12, <2>2, <2>3 DEF NotListed
<1>13. ASSUME NEW a \in Agents, NEW c \in Waiters, PickUp(a, c) PROVE TypeOK'
  <2>1. pc' \in [Agents -> Places]
    BY <1>13 DEF PickUp
  <2>2. scheduled' \in [Waiters -> Nat]
    BY <1>13 DEF PickUp
  <2>3. self' \in [Agents -> Waiters \cup {NULL}]
    BY <1>13 DEF PickUp
  <2>4. UNCHANGED <<event, point, rounds, cancelled, blocked, pausing, hand, back, left,
                   found, downs, ups>>
    BY <1>13 DEF PickUp
  <2> QED BY <2>1, <2>2, <2>3, <2>4
<1>14. ASSUME NEW a \in Agents, AwaitReady(a) PROVE TypeOK'
  BY <1>14 DEF AwaitReady
<1>15. ASSUME NEW a \in Agents, AwaitSuspendCancelled(a) PROVE TypeOK'
  BY <1>15 DEF AwaitSuspendCancelled
<1>16. ASSUME NEW a \in Agents, AwaitSuspend(a) PROVE TypeOK'
  BY <1>16 DEF AwaitSuspend
<1>17. ASSUME NEW a \in Agents, Resume(a) PROVE TypeOK'
  <2>1. self[a] \in Waiters /\ Has(a, self[a])
    BY <1>17 DEF Resume, EventInv, Control, Running, Has
  <2>2. rounds[self[a]] > 0
    BY <2>1, HeldAlone DEF EventInv, Control, Live
  <2>3. pc' \in [Agents -> Places]
    BY <1>17, <2>1, <2>2 DEF Resume
  <2>4. blocked' \in [Waiters -> BOOLEAN]
    BY <1>17, <2>1, <2>2 DEF Resume
  <2>5. rounds' \in [Waiters -> 0 .. Rounds]
    BY <1>17, <2>1, <2>2 DEF Resume
  <2>6. point' \in [Waiters -> {"new", "start", "await", "done"}]
    BY <1>17, <2>1, <2>2 DEF Resume
  <2>7. UNCHANGED <<event, scheduled, cancelled, pausing, agents>>
    BY <1>17, <2>1, <2>2 DEF Resume
  <2> QED BY <2>3, <2>4, <2>5, <2>6, <2>7
<1>18. ASSUME NEW a \in Agents, Pause(a) PROVE TypeOK'
  BY <1>18 DEF Pause
<1>19. ASSUME NEW a \in Agents, Remove(a) PROVE TypeOK'
  BY <1>19 DEF Remove
<1>s. ASSUME NEW a \in Agents, RemoveSearch(a) PROVE TypeOK'
  <2>1. PICK n \in QueueCounts : left' = [left EXCEPT ![a] = (2 * n) % CountRange]
    BY <1>s DEF RemoveSearch
  <2>2. left' \in [Agents -> Nat]
    BY <2>1, SearchEnds
  <2>3. pc' \in [Agents -> Places] /\ UNCHANGED <<event, coros, self, hand, back, found, downs, ups>>
    BY <1>s DEF RemoveSearch
  <2> QED BY <2>2, <2>3
<1>20. ASSUME NEW a \in Agents, RemoveTake(a) PROVE TypeOK'
  <2>1. CASE left[a] = 0 \/ waitQueue = <<>>
    <3>1. /\ pc' = [pc EXCEPT ![a] = "resumeLate"] /\ left' = [left EXCEPT ![a] = 0]
          /\ UNCHANGED <<event, coros, self, hand, back, found, downs, ups>>
      BY <1>20, <2>1 DEF RemoveTake
    <3>2. pc' \in [Agents -> Places] /\ left' \in [Agents -> Nat]
      BY <3>1
    <3> QED BY <3>1, <3>2
  <2>2. CASE left[a] # 0 /\ waitQueue # <<>>
    <3>1. PICK c \in Waiters : c = Head(waitQueue)
      BY <2>2, FirstAlone DEF EventInv
    <3>2. /\ pc' = [pc EXCEPT ![a] = "compare"] /\ hand' = [hand EXCEPT ![a] = c]
          /\ waitQueue' = Tail(waitQueue)
          /\ UNCHANGED <<count, scope, destroyed, coros, self, back, left, found, downs, ups>>
      BY <1>20, <2>2, <3>1 DEF RemoveTake
    <3>3. /\ pc' \in [Agents -> Places] /\ hand' \in [Agents -> Waiters \cup {NULL}]
          /\ waitQueue' \in Seq(Waiters)
      BY <2>2, <3>2, FirstAlone DEF EventInv
    <3> QED BY <3>2, <3>3
  <2> QED BY <2>1, <2>2
<1>21. ASSUME NEW a \in Agents, RemoveFound(a) PROVE TypeOK'
  BY <1>21 DEF RemoveFound
<1>22. ASSUME NEW a \in Agents, RemovePutBack(a) PROVE TypeOK'
  <2>1. pc' \in [Agents -> Places]
    BY <1>22, <1>b DEF RemovePutBack
  <2>2. hand' \in [Agents -> Waiters \cup {NULL}]
    BY <1>22, <1>b DEF RemovePutBack
  <2>3. waitQueue' \in Seq(Waiters)
    BY <1>22, <1>b DEF RemovePutBack
  <2>4. left[a] > 0 /\ left' = [left EXCEPT ![a] = @ - 1]
    BY <1>22, <1>b DEF RemovePutBack
  <2>5. UNCHANGED <<count, scope, destroyed, coros, self, back, found, downs, ups>>
    BY <1>22, <1>b DEF RemovePutBack
  <2>6. left' \in [Agents -> Nat]
    BY <2>4
  <2> QED BY <2>1, <2>2, <2>3, <2>5, <2>6
<1>23. ASSUME NEW a \in Agents, ResumeLate(a) PROVE TypeOK'
  BY <1>23 DEF ResumeLate
<1>24. ASSUME NEW a \in Agents, Removed(a) PROVE TypeOK'
  <2>1. UNCHANGED <<event, point, rounds, cancelled, blocked, self, hand, back, left, downs, ups>>
    BY <1>24 DEF Removed
  <2>2. /\ pc' \in [Agents -> Places] /\ pausing' \in [Waiters -> BOOLEAN]
        /\ found' \in [Agents -> BOOLEAN]
    BY <1>24 DEF Removed
  <2>3. scheduled' \in [Waiters -> Nat]
    <3>1. UNCHANGED scheduled \/ scheduled' = [scheduled EXCEPT ![self[a]] = @ + 1]
      BY <1>24 DEF Removed
    <3>2. [scheduled EXCEPT ![self[a]] = @ + 1] \in [Waiters -> Nat]
      BY CountsOneMore
    <3> QED BY <3>1, <3>2
  <2> QED BY <2>1, <2>2, <2>3
<1>25. ASSUME NEW a \in Agents, CancelWaiters(a) PROVE TypeOK'
  <2>1. CASE waitQueue = <<>>
    BY <1>25, <2>1 DEF CancelWaiters
  <2>2. CASE waitQueue # <<>>
    <3>1. PICK c \in Waiters : c = Head(waitQueue)
      BY <2>2, FirstAlone DEF EventInv
    <3>2. Tail(waitQueue) \in Seq(Waiters)
      BY <2>2, FirstAlone DEF EventInv
    <3>3. /\ cancelled' = [cancelled EXCEPT ![c] = TRUE]
          /\ scheduled' = [scheduled EXCEPT ![c] = @ + 1]
          /\ waitQueue' = Tail(waitQueue)
          /\ UNCHANGED <<count, scope, destroyed, point, rounds, blocked, pausing, pc, agents>>
      BY <1>25, <2>2, <3>1 DEF CancelWaiters
    <3>4. scheduled' \in [Waiters -> Nat] /\ cancelled' \in [Waiters -> BOOLEAN]
      BY <3>3, CountsOneMore
    <3> QED BY <3>2, <3>3, <3>4
  <2> QED BY <2>1, <2>2
<1>26. ASSUME NEW a \in Agents, AwaitScope(a) PROVE TypeOK'
  BY <1>26 DEF AwaitScope
<1>27. ASSUME NEW a \in Agents, CountDown(a) PROVE TypeOK'
  <2>1. pc' \in [Agents -> Places]
    BY <1>27 DEF CountDown
  <2>2. scope' = (scope + 1) % ScopeRange
    BY <1>27 DEF CountDown
  <2>3. downs' \in [Agents -> 0 .. Downs]
    BY <1>27 DEF CountDown
  <2>4. UNCHANGED <<count, waitQueue, destroyed, coros, self, hand, back, left, found, ups>>
    BY <1>27 DEF CountDown
  <2>5. scope' \in 0 .. ScopeRange - 1
    BY <2>2, ScopeBound
  <2> QED BY <2>1, <2>3, <2>4, <2>5
<1>28. ASSUME NEW a \in Agents, CountUp(a) PROVE TypeOK'
  <2>1. count' \in 0 .. MaxCount
    BY <1>28 DEF CountUp
  <2>2. ups' \in [Agents -> 0 .. Ups]
    BY <1>28 DEF CountUp
  <2>3. UNCHANGED <<waitQueue, scope, destroyed, coros, pc, self, hand, back, left, found, downs>>
    BY <1>28 DEF CountUp
  <2> QED BY <2>1, <2>2, <2>3
<1>29. ASSUME NEW a \in Agents, Destroy(a) PROVE TypeOK'
  BY <1>29 DEF Destroy
<1>30. ASSUME NEW a \in Agents, NEW c \in Waiters, EnqueueAlways(a, c) PROVE TypeOK'
  BY <1>30 DEF EnqueueAlways
<1>31. ASSUME NEW a \in Agents, NEW c \in Waiters, Cancel(a, c) PROVE TypeOK'
  BY <1>31 DEF Cancel
<1> HIDE DEF TypeOK, Places, event, coros, agents, EmptyHand, Goto, Go, Schedule,
             CallResumeWaiting
<1> QED
  BY <1>0, <1>1, <1>2, <1>3, <1>4, <1>5, <1>6, <1>7, <1>8, <1>9, <1>10, <1>11, <1>12, <1>13,
     <1>14, <1>15, <1>16, <1>17, <1>18, <1>19, <1>s, <1>20, <1>21, <1>22, <1>23, <1>24, <1>25,
     <1>26, <1>27, <1>28, <1>29, <1>30, <1>31
     DEF Next, Call, Step

\* Every step keeps what the agents know of their variables.
LEMMA EventControlStep == ASSUME EventInv, [Next]_vars PROVE Control'
<1>a. Control
  BY DEF EventInv
<1>b. /\ pc \in [Agents -> Places] /\ self \in [Agents -> Waiters \cup {NULL}]
      /\ hand \in [Agents -> Waiters \cup {NULL}] /\ left \in [Agents -> Nat]
      /\ back \in [Agents -> {"idle", "exit", "listed", "removed"}]
      /\ found \in [Agents -> BOOLEAN] /\ cancelled \in [Waiters -> BOOLEAN]
      /\ point \in [Waiters -> {"new", "start", "await", "done"}]
      /\ rounds \in [Waiters -> 0 .. Rounds]
  BY DEF EventInv, TypeOK
<1> USE NullAssumption, <1>a, <1>b
       DEF Control, Running, InCancel, Cancelling, Draining, event, coros, agents, At, EmptyHand,
           Goto, Go, Schedule, isZero, CallResumeWaiting
<1>0. CASE UNCHANGED vars
  BY <1>0 DEF vars
<1>1. ASSUME NEW a \in Agents, Decrement(a) PROVE Control'
  BY <1>1 DEF Decrement
<1>2. ASSUME NEW a \in Agents, Exit(a) PROVE Control'
  BY <1>2 DEF Exit
<1>3. ASSUME NEW a \in Agents, DequeueWaiter(a) PROVE Control'
  <2>1. CASE waitQueue = <<>>
    <3>1. /\ pc[a] = "dequeue" /\ pc' = [pc EXCEPT ![a] = back[a]]
          /\ UNCHANGED <<point, rounds, cancelled, self, hand, back, left, found>>
      BY <1>3, <2>1 DEF DequeueWaiter
    <3>2. back[a] \in {"idle", "exit", "listed", "removed"}
      OBVIOUS
    <3> QED BY <3>1, <3>2
  <2>2. CASE waitQueue # <<>>
    <3>1. PICK c \in Waiters : c = Head(waitQueue) /\ ~Has(a, c)
      BY <2>2, FirstAlone DEF EventInv
    <3>2. /\ pc[a] = "dequeue" /\ pc' = [pc EXCEPT ![a] = "wake"]
          /\ hand' = [hand EXCEPT ![a] = c]
          /\ UNCHANGED <<point, rounds, cancelled, self, back, left, found>>
      BY <1>3, <2>2, <3>1 DEF DequeueWaiter
    <3>3. found[a] => self[a] # c
      BY <3>1 DEF Has
    <3> QED BY <2>2, <3>2, <3>3
  <2> QED BY <2>1, <2>2
<1>4. ASSUME NEW a \in Agents, Wake(a) PROVE Control'
  BY <1>4 DEF Wake
<1>5. ASSUME NEW a \in Agents, Requeue(a) PROVE Control'
  BY <1>5 DEF Requeue
<1>6. ASSUME NEW a \in Agents, Again(a) PROVE Control'
  BY <1>6 DEF Again
<1>7. ASSUME NEW a \in Agents, EnqueueEntry(a) PROVE Control'
  BY <1>7 DEF EnqueueEntry
<1>8. ASSUME NEW a \in Agents, EnqueueScope(a) PROVE Control'
  BY <1>8 DEF EnqueueScope
<1>9. ASSUME NEW a \in Agents, Enqueue(a) PROVE Control'
  BY <1>9 DEF Enqueue
<1>10. ASSUME NEW a \in Agents, Recheck(a) PROVE Control'
  BY <1>10 DEF Recheck
<1>11. ASSUME NEW a \in Agents, Listed(a) PROVE Control'
  BY <1>11 DEF Listed
<1>12. ASSUME NEW a \in Agents, NotListed(a) PROVE Control'
  BY <1>12 DEF NotListed
<1>13. ASSUME NEW a \in Agents, NEW c \in Waiters, PickUp(a, c) PROVE Control'
  BY <1>13 DEF PickUp
<1>14. ASSUME NEW a \in Agents, AwaitReady(a) PROVE Control'
  BY <1>14 DEF AwaitReady
<1>15. ASSUME NEW a \in Agents, AwaitSuspendCancelled(a) PROVE Control'
  BY <1>15 DEF AwaitSuspendCancelled
<1>16. ASSUME NEW a \in Agents, AwaitSuspend(a) PROVE Control'
  <2>1. self[a] \in Waiters /\ Has(a, self[a])
    BY <1>16 DEF AwaitSuspend, Has
  <2>2. rounds[self[a]] > 0
    BY <2>1, HeldAlone DEF EventInv, Live
  <2> QED BY <1>16, <2>1, <2>2 DEF AwaitSuspend
<1>17. ASSUME NEW a \in Agents, Resume(a) PROVE Control'
  <2>1. self[a] \in Waiters /\ Has(a, self[a])
    BY <1>17 DEF Resume, Has
  <2>2. rounds[self[a]] > 0
    BY <2>1, HeldAlone DEF EventInv, Live
  <2> QED BY <1>17, <2>1, <2>2 DEF Resume
<1>18. ASSUME NEW a \in Agents, Pause(a) PROVE Control'
  BY <1>18 DEF Pause
<1>19. ASSUME NEW a \in Agents, Remove(a) PROVE Control'
  BY <1>19 DEF Remove
<1>s. ASSUME NEW a \in Agents, RemoveSearch(a) PROVE Control'
  BY <1>s DEF RemoveSearch
<1>20. ASSUME NEW a \in Agents, RemoveTake(a) PROVE Control'
  <2>1. CASE left[a] = 0 \/ waitQueue = <<>>
    BY <1>20, <2>1 DEF RemoveTake
  <2>2. CASE left[a] # 0 /\ waitQueue # <<>>
    <3>1. PICK c \in Waiters : c = Head(waitQueue) /\ ~Has(a, c)
      BY <2>2, FirstAlone DEF EventInv
    <3>2. /\ pc[a] = "take" /\ pc' = [pc EXCEPT ![a] = "compare"]
          /\ hand' = [hand EXCEPT ![a] = c]
          /\ UNCHANGED <<point, rounds, cancelled, self, back, left, found>>
      BY <1>20, <2>2, <3>1 DEF RemoveTake
    <3>3. found[a] => self[a] # c
      BY <3>1 DEF Has
    <3> QED BY <2>2, <3>2, <3>3
  <2> QED BY <2>1, <2>2
<1>21. ASSUME NEW a \in Agents, RemoveFound(a) PROVE Control'
  BY <1>21 DEF RemoveFound
<1>22. ASSUME NEW a \in Agents, RemovePutBack(a) PROVE Control'
  BY <1>22 DEF RemovePutBack
<1>23. ASSUME NEW a \in Agents, ResumeLate(a) PROVE Control'
  BY <1>23 DEF ResumeLate
<1>24. ASSUME NEW a \in Agents, Removed(a) PROVE Control'
  BY <1>24 DEF Removed
<1>25. ASSUME NEW a \in Agents, CancelWaiters(a) PROVE Control'
  <2>1. CASE waitQueue = <<>>
    BY <1>25, <2>1 DEF CancelWaiters
  <2>2. CASE waitQueue # <<>>
    <3>1. /\ cancelled' = [cancelled EXCEPT ![Head(waitQueue)] = TRUE]
          /\ UNCHANGED <<pc, agents, point, rounds>>
      BY <1>25, <2>2 DEF CancelWaiters
    <3>2. \A c \in Waiters : cancelled[c] => cancelled'[c]
      BY <3>1
    <3> QED BY <3>1, <3>2
  <2> QED BY <2>1, <2>2
<1>26. ASSUME NEW a \in Agents, AwaitScope(a) PROVE Control'
  BY <1>26 DEF AwaitScope
<1>27. ASSUME NEW a \in Agents, CountDown(a) PROVE Control'
  BY <1>27 DEF CountDown
<1>28. ASSUME NEW a \in Agents, CountUp(a) PROVE Control'
  BY <1>28 DEF CountUp
<1>29. ASSUME NEW a \in Agents, Destroy(a) PROVE Control'
  BY <1>29 DEF Destroy
<1>30. ASSUME NEW a \in Agents, NEW c \in Waiters, EnqueueAlways(a, c) PROVE Control'
  BY <1>30 DEF EnqueueAlways
<1>31. ASSUME NEW a \in Agents, NEW c \in Waiters, Cancel(a, c) PROVE Control'
  BY <1>31 DEF Cancel
<1> HIDE DEF Control, InCancel, event, coros, agents, EmptyHand, Goto, Go, Schedule,
             CallResumeWaiting
<1> QED
  BY <1>0, <1>1, <1>2, <1>3, <1>4, <1>5, <1>6, <1>7, <1>8, <1>9, <1>10, <1>11, <1>12, <1>13,
     <1>14, <1>15, <1>16, <1>17, <1>18, <1>19, <1>s, <1>20, <1>21, <1>22, <1>23, <1>24, <1>25,
     <1>26, <1>27, <1>28, <1>29, <1>30, <1>31
     DEF Next, Call, Step

-----------------------------------------------------------------------------
(* The moves of WhereaboutsLemmas as steps of this module *)

\* What a step does to what the agents have: nothing, or an agent gets a waiter, or
\* lets go of one.
HandsKept == \A b \in Agents, e \in Waiters : Has(b, e)' <=> Has(b, e)
HandGains(a, c) == \A b \in Agents, e \in Waiters : Has(b, e)' <=> Has(b, e) \/ (b = a /\ e = c)
HandLoses(a, c) == \A b \in Agents, e \in Waiters : Has(b, e)' <=> Has(b, e) /\ ~(b = a /\ e = c)

\* Nobody moves.
LEMMA NobodyMoves ==
    ASSUME TypeOK, OnePlace, UNCHANGED <<scheduled, waitQueue>>,
           \A d \in Waiters : d \in Live' <=> d \in Live,
           HandsKept
    PROVE  OnePlace'
<1>1. Hands' = Hands /\ Live' = Live
  BY DEF Hands, Live, HandsKept
<1> QED BY <1>1 DEF OnePlace

\* The places of the next state, once its types hold.
LEMMA NextPlaces ==
    ASSUME TypeOK', Placed(Waiters, Live', scheduled', waitQueue', Hands')
    PROVE  OnePlace'
<1>1. Values(Waiters, Agents, scheduled', waitQueue', Hands')
  BY DEF TypeOK, Values, Hands
<1>2. InOnePlace(Waiters, Live', scheduled', waitQueue', Hands')
  BY <1>1, PlacedIsInOnePlace
<1> QED BY <1>2 DEF OnePlace

\* What a step does to Hands when an agent gets a waiter, or lets go of one.
LEMMA HandsAdd ==
    ASSUME NEW a \in Agents, NEW c \in Waiters,
           HandGains(a, c)
    PROVE  Hands' = Hands \cup {<<a, c>>}
BY DEF Hands, HandGains

LEMMA HandsDrop ==
    ASSUME NEW a \in Agents, NEW c \in Waiters,
           HandLoses(a, c)
    PROVE  Hands' = Hands \ {<<a, c>>}
BY DEF Hands, HandLoses

\* A worker takes a scheduled waiter.
LEMMA TakesScheduled ==
    ASSUME TypeOK, OnePlace, TypeOK', NEW a \in Agents, NEW c \in Waiters,
           scheduled[c] > 0, scheduled' = [scheduled EXCEPT ![c] = @ - 1],
           UNCHANGED <<waitQueue, point>>,
           HandGains(a, c)
    PROVE  OnePlace'
<1>1. /\ Placed(Waiters, Live, scheduled, waitQueue, Hands)
      /\ Values(Waiters, Agents, scheduled, waitQueue, Hands)
  BY WaiterValues, PlacedIsInOnePlace DEF OnePlace
<1>2. Hands' = Hands \cup {<<a, c>>}
  BY HandsAdd
<1>3. Live' = Live
  BY DEF Live
<1>4. Placed(Waiters, Live', scheduled', waitQueue', Hands')
  BY <1>1, <1>2, <1>3, ReadyToHand
<1> QED BY <1>4, NextPlaces

\* An agent schedules the waiter that it has.
LEMMA SchedulesOwn ==
    ASSUME TypeOK, OnePlace, TypeOK', NEW a \in Agents, NEW c \in Waiters,
           Has(a, c), scheduled' = [scheduled EXCEPT ![c] = @ + 1],
           UNCHANGED <<waitQueue, point>>,
           HandLoses(a, c)
    PROVE  OnePlace'
<1>1. /\ Placed(Waiters, Live, scheduled, waitQueue, Hands)
      /\ Values(Waiters, Agents, scheduled, waitQueue, Hands)
  BY WaiterValues, PlacedIsInOnePlace DEF OnePlace
<1>2. Hands' = Hands \ {<<a, c>>}
  BY HandsDrop
<1>0. <<a, c>> \in Hands
  BY DEF Hands
<1>3. Live' = Live
  BY DEF Live
<1>4. Placed(Waiters, Live', scheduled', waitQueue', Hands')
  BY <1>0, <1>1, <1>2, <1>3, HandToReady
<1> QED BY <1>4, NextPlaces

\* An agent enqueues the waiter that it has.
LEMMA EnqueuesOwn ==
    ASSUME TypeOK, OnePlace, TypeOK', NEW a \in Agents, NEW c \in Waiters,
           Has(a, c), waitQueue' = Append(waitQueue, c),
           UNCHANGED <<scheduled, point>>,
           HandLoses(a, c)
    PROVE  OnePlace'
<1>1. /\ Placed(Waiters, Live, scheduled, waitQueue, Hands)
      /\ Values(Waiters, Agents, scheduled, waitQueue, Hands)
  BY WaiterValues, PlacedIsInOnePlace DEF OnePlace
<1>2. Hands' = Hands \ {<<a, c>>}
  BY HandsDrop
<1>0. <<a, c>> \in Hands
  BY DEF Hands
<1>3. Live' = Live
  BY DEF Live
<1>4. Placed(Waiters, Live', scheduled', waitQueue', Hands')
  BY <1>0, <1>1, <1>2, <1>3, HandToQueue
<1> QED BY <1>4, NextPlaces

\* An agent takes the first of the queue.
LEMMA TakesFirst ==
    ASSUME TypeOK, OnePlace, TypeOK', NEW a \in Agents, NEW c \in Waiters,
           waitQueue # <<>>, c = Head(waitQueue), waitQueue' = Tail(waitQueue),
           UNCHANGED <<scheduled, point>>,
           HandGains(a, c)
    PROVE  OnePlace'
<1>1. /\ Placed(Waiters, Live, scheduled, waitQueue, Hands)
      /\ Values(Waiters, Agents, scheduled, waitQueue, Hands)
  BY WaiterValues, PlacedIsInOnePlace DEF OnePlace
<1>2. Hands' = Hands \cup {<<a, c>>}
  BY HandsAdd
<1>3. Live' = Live
  BY DEF Live
<1>4. Placed(Waiters, Live', scheduled', waitQueue', Hands')
  BY <1>1, <1>2, <1>3, QueueToHand
<1> QED BY <1>4, NextPlaces

\* An agent schedules the first of the queue.
LEMMA SchedulesFirst ==
    ASSUME TypeOK, OnePlace, TypeOK', NEW c \in Waiters,
           waitQueue # <<>>, c = Head(waitQueue), waitQueue' = Tail(waitQueue),
           scheduled' = [scheduled EXCEPT ![c] = @ + 1], UNCHANGED point,
           HandsKept
    PROVE  OnePlace'
<1>1. /\ Placed(Waiters, Live, scheduled, waitQueue, Hands)
      /\ Values(Waiters, Agents, scheduled, waitQueue, Hands)
  BY WaiterValues, PlacedIsInOnePlace DEF OnePlace
<1>2. Hands' = Hands
  BY DEF Hands, HandsKept
<1>3. Live' = Live
  BY DEF Live
<1>4. Placed(Waiters, Live', scheduled', waitQueue', Hands')
  BY <1>1, <1>2, <1>3, QueueToReady
<1> QED BY <1>4, NextPlaces

\* A waiter ends while an agent has it.
LEMMA EndsOwn ==
    ASSUME TypeOK, OnePlace, TypeOK', NEW a \in Agents, NEW c \in Waiters,
           Has(a, c), point' = [point EXCEPT ![c] = "done"],
           UNCHANGED <<scheduled, waitQueue>>,
           HandLoses(a, c)
    PROVE  OnePlace'
<1>1. /\ Placed(Waiters, Live, scheduled, waitQueue, Hands)
      /\ Values(Waiters, Agents, scheduled, waitQueue, Hands)
  BY WaiterValues, PlacedIsInOnePlace DEF OnePlace
<1>2. Hands' = Hands \ {<<a, c>>}
  BY HandsDrop
<1>0. <<a, c>> \in Hands
  BY DEF Hands
<1>3. Live' = Live \ {c}
  BY DEF Live, TypeOK
<1>4. Placed(Waiters, Live', scheduled', waitQueue', Hands')
  BY <1>0, <1>1, <1>2, <1>3, EndInHand
<1> QED BY <1>4, NextPlaces

\* A new waiter begins to wait in the hands of an agent.
LEMMA BeginsOwn ==
    ASSUME TypeOK, OnePlace, TypeOK', NEW a \in Agents, NEW c \in Waiters,
           c \notin Live, \A d \in Waiters : d \in Live' <=> d \in Live \/ d = c,
           UNCHANGED <<scheduled, waitQueue>>,
           HandGains(a, c)
    PROVE  OnePlace'
<1>1. /\ Placed(Waiters, Live, scheduled, waitQueue, Hands)
      /\ Values(Waiters, Agents, scheduled, waitQueue, Hands)
  BY WaiterValues, PlacedIsInOnePlace DEF OnePlace
<1>2. Hands' = Hands \cup {<<a, c>>}
  BY HandsAdd
<1>3. Live' = Live \cup {c}
  BY DEF Live
<1>4. Placed(Waiters, Live', scheduled', waitQueue', Hands')
  BY <1>1, <1>2, <1>3, BeginInHand
<1> QED BY <1>4, NextPlaces

-----------------------------------------------------------------------------
(* Every step leaves every waiter in one place *)

LEMMA EventPlacesStep == ASSUME EventInv, [Next]_vars PROVE OnePlace'
<1>a. TypeOK /\ OnePlace /\ Control
  BY DEF EventInv
<1>b. TypeOK'
  BY EventTypeStep
<1>c. /\ pc \in [Agents -> Places] /\ self \in [Agents -> Waiters \cup {NULL}]
      /\ hand \in [Agents -> Waiters \cup {NULL}] /\ found \in [Agents -> BOOLEAN]
      /\ back \in [Agents -> {"idle", "exit", "listed", "removed"}]
      /\ NULL \notin Waiters
  BY NullAssumption DEF EventInv, TypeOK
<1> USE <1>a, <1>b, <1>c
       DEF Control, Running, InCancel, Cancelling, Draining, event, coros, agents, At,
           EmptyHand, Goto, Go, Schedule, isZero, CallResumeWaiting
<1>0. CASE UNCHANGED vars
  <2>1. /\ UNCHANGED <<scheduled, waitQueue>> /\ \A d \in Waiters : d \in Live' <=> d \in Live
        /\ HandsKept
    BY <1>0 DEF vars, Live, Has, InHand, HandsKept
  <2> QED BY <2>1, NobodyMoves
<1>1. ASSUME NEW a \in Agents, Decrement(a) PROVE OnePlace'
  <2>1. /\ UNCHANGED <<scheduled, waitQueue>> /\ \A d \in Waiters : d \in Live' <=> d \in Live
        /\ HandsKept
    BY <1>1 DEF Decrement, Live, Has, InHand, HandsKept
  <2> QED BY <2>1, NobodyMoves
<1>2. ASSUME NEW a \in Agents, Exit(a) PROVE OnePlace'
  <2>1. /\ UNCHANGED <<scheduled, waitQueue>> /\ \A d \in Waiters : d \in Live' <=> d \in Live
        /\ HandsKept
    BY <1>2 DEF Exit, Live, Has, InHand, HandsKept
  <2> QED BY <2>1, NobodyMoves
<1>3. ASSUME NEW a \in Agents, DequeueWaiter(a) PROVE OnePlace'
  <2>1. CASE waitQueue = <<>>
    <3>1. /\ UNCHANGED <<scheduled, waitQueue, point>>
          /\ HandsKept
      BY <1>3, <2>1 DEF DequeueWaiter, Has, InHand, HandsKept
    <3> QED BY <3>1, NobodyMoves DEF Live
  <2>2. CASE waitQueue # <<>>
    <3>1. PICK c \in Waiters : c = Head(waitQueue)
      BY <2>2, FirstAlone
    <3>2. /\ waitQueue' = Tail(waitQueue) /\ UNCHANGED <<scheduled, point>>
          /\ HandGains(a, c)
      BY <1>3, <2>2, <3>1 DEF DequeueWaiter, Has, InHand, HandGains
    <3> QED BY <2>2, <3>1, <3>2, TakesFirst
  <2> QED BY <2>1, <2>2
<1>4. ASSUME NEW a \in Agents, Wake(a) PROVE OnePlace'
  <2>1. CASE isZero
    <3>1. PICK c \in Waiters : c = hand[a] /\ Has(a, c)
      BY <1>4 DEF Wake, Has, InHand
    <3>2. /\ scheduled' = [scheduled EXCEPT ![c] = @ + 1] /\ UNCHANGED <<waitQueue, point>>
          /\ HandLoses(a, c)
      BY <1>4, <2>1, <3>1 DEF Wake, Has, InHand, HandLoses
    <3> QED BY <3>1, <3>2, SchedulesOwn
  <2>2. CASE ~isZero
    <3>1. /\ UNCHANGED <<scheduled, waitQueue, point>>
          /\ HandsKept
      BY <1>4, <2>2 DEF Wake, Has, InHand, HandsKept
    <3> QED BY <3>1, NobodyMoves DEF Live
  <2> QED BY <2>1, <2>2
<1>5. ASSUME NEW a \in Agents, Requeue(a) PROVE OnePlace'
  <2>1. PICK c \in Waiters : c = hand[a] /\ Has(a, c)
    BY <1>5 DEF Requeue, Has, InHand
  <2>2. /\ waitQueue' = Append(waitQueue, c) /\ UNCHANGED <<scheduled, point>>
        /\ HandLoses(a, c)
    BY <1>5, <2>1 DEF Requeue, Has, InHand, HandLoses
  <2> QED BY <2>1, <2>2, EnqueuesOwn
<1>6. ASSUME NEW a \in Agents, Again(a) PROVE OnePlace'
  <2>1. /\ UNCHANGED <<scheduled, waitQueue>> /\ \A d \in Waiters : d \in Live' <=> d \in Live
        /\ HandsKept
    BY <1>6 DEF Again, Live, Has, InHand, HandsKept
  <2> QED BY <2>1, NobodyMoves
<1>7. ASSUME NEW a \in Agents, EnqueueEntry(a) PROVE OnePlace'
  <2>1. /\ UNCHANGED <<scheduled, waitQueue>> /\ \A d \in Waiters : d \in Live' <=> d \in Live
        /\ HandsKept
    BY <1>7 DEF EnqueueEntry, Live, Has, InHand, HandsKept
  <2> QED BY <2>1, NobodyMoves
<1>8. ASSUME NEW a \in Agents, EnqueueScope(a) PROVE OnePlace'
  <2>1. /\ UNCHANGED <<scheduled, waitQueue>> /\ \A d \in Waiters : d \in Live' <=> d \in Live
        /\ HandsKept
    BY <1>8 DEF EnqueueScope, Live, Has, InHand, HandsKept
  <2> QED BY <2>1, NobodyMoves
<1>9. ASSUME NEW a \in Agents, Enqueue(a) PROVE OnePlace'
  <2>1. PICK c \in Waiters : c = self[a] /\ Has(a, c)
    BY <1>9 DEF Enqueue, Has, InHand
  <2>2. /\ waitQueue' = Append(waitQueue, c) /\ UNCHANGED <<scheduled, point>>
        /\ HandLoses(a, c)
    BY <1>9, <2>1 DEF Enqueue, Has, InHand, HandLoses
  <2> QED BY <2>1, <2>2, EnqueuesOwn
<1>10. ASSUME NEW a \in Agents, Recheck(a) PROVE OnePlace'
  <2>1. /\ UNCHANGED <<scheduled, waitQueue>> /\ \A d \in Waiters : d \in Live' <=> d \in Live
        /\ HandsKept
    BY <1>10 DEF Recheck, Live, Has, InHand, HandsKept
  <2> QED BY <2>1, NobodyMoves
<1>11. ASSUME NEW a \in Agents, Listed(a) PROVE OnePlace'
  <2>1. /\ UNCHANGED <<scheduled, waitQueue>> /\ \A d \in Waiters : d \in Live' <=> d \in Live
        /\ HandsKept
    BY <1>11 DEF Listed, Live, Has, InHand, HandsKept
  <2> QED BY <2>1, NobodyMoves
<1>12. ASSUME NEW a \in Agents, NotListed(a) PROVE OnePlace'
  <2>1. PICK c \in Waiters : c = self[a] /\ Has(a, c)
    BY <1>12 DEF NotListed, Has, InHand
  <2>2. CASE pc' = [pc EXCEPT ![a] = "idle"]
    <3>1. /\ scheduled' = [scheduled EXCEPT ![c] = @ + 1] /\ UNCHANGED <<waitQueue, point>>
          /\ HandLoses(a, c)
      BY <1>12, <2>1, <2>2 DEF NotListed, Has, InHand, HandLoses
    <3> QED BY <2>1, <3>1, SchedulesOwn
  <2>3. CASE pc' = [pc EXCEPT ![a] = "resume"] /\ UNCHANGED scheduled
    <3>1. /\ UNCHANGED <<waitQueue, point>>
          /\ HandsKept
      BY <1>12, <2>3 DEF NotListed, Has, InHand, HandsKept
    <3> QED BY <2>3, <3>1, NobodyMoves DEF Live
  <2> QED BY <1>12, <2>2, <2>3 DEF NotListed, Has, InHand
<1>13. ASSUME NEW a \in Agents, NEW c \in Waiters, PickUp(a, c) PROVE OnePlace'
  <2>1. /\ scheduled[c] > 0 /\ scheduled' = [scheduled EXCEPT ![c] = @ - 1]
        /\ UNCHANGED <<waitQueue, point>>
        /\ HandGains(a, c)
    BY <1>13 DEF PickUp, Has, InHand, HandGains
  <2> QED BY <2>1, TakesScheduled
<1>14. ASSUME NEW a \in Agents, AwaitReady(a) PROVE OnePlace'
  <2>1. /\ UNCHANGED <<scheduled, waitQueue>> /\ \A d \in Waiters : d \in Live' <=> d \in Live
        /\ HandsKept
    BY <1>14 DEF AwaitReady, Live, Has, InHand, HandsKept
  <2> QED BY <2>1, NobodyMoves
<1>15. ASSUME NEW a \in Agents, AwaitSuspendCancelled(a) PROVE OnePlace'
  <2>1. /\ UNCHANGED <<scheduled, waitQueue>> /\ \A d \in Waiters : d \in Live' <=> d \in Live
        /\ HandsKept
    BY <1>15 DEF AwaitSuspendCancelled, Live, Has, InHand, HandsKept
  <2> QED BY <2>1, NobodyMoves
<1>16. ASSUME NEW a \in Agents, AwaitSuspend(a) PROVE OnePlace'
  <2>1. PICK c \in Waiters : c = self[a] /\ Has(a, c)
    BY <1>16 DEF AwaitSuspend, Has, InHand
  <2>2. c \in Live
    BY <2>1, HeldAlone
  <2>3. point' = [point EXCEPT ![c] = "await"] /\ UNCHANGED <<scheduled, waitQueue>>
    BY <1>16, <2>1 DEF AwaitSuspend, Has, InHand
  <2>4. HandsKept
    BY <1>16 DEF AwaitSuspend, Has, InHand, HandsKept
  <2>5. \A d \in Waiters : d \in Live' <=> d \in Live
    BY <2>2, <2>3 DEF Live
  <2> QED BY <2>3, <2>4, <2>5, NobodyMoves
<1>17. ASSUME NEW a \in Agents, Resume(a) PROVE OnePlace'
  <2>1. PICK c \in Waiters : c = self[a] /\ Has(a, c)
    BY <1>17 DEF Resume, Has, InHand
  <2>2. CASE cancelled[c] \/ rounds[c] = 1
    <3>1. /\ point' = [point EXCEPT ![c] = "done"] /\ UNCHANGED <<scheduled, waitQueue>>
          /\ HandLoses(a, c)
      BY <1>17, <2>1, <2>2 DEF Resume, Has, InHand, HandLoses
    <3> QED BY <2>1, <3>1, EndsOwn
  <2>3. CASE ~(cancelled[c] \/ rounds[c] = 1)
    <3>1. c \in Live
      BY <2>1, HeldAlone
    <3>2. /\ point' = [point EXCEPT ![c] = "start"] /\ UNCHANGED <<scheduled, waitQueue>>
          /\ HandsKept
      BY <1>17, <2>1, <2>3 DEF Resume, Has, InHand, HandsKept
    <3>3. \A d \in Waiters : d \in Live' <=> d \in Live
      BY <3>1, <3>2 DEF Live
    <3> QED BY <3>2, <3>3, NobodyMoves
  <2> QED BY <2>2, <2>3
<1>18. ASSUME NEW a \in Agents, Pause(a) PROVE OnePlace'
  <2>1. /\ UNCHANGED <<scheduled, waitQueue>> /\ \A d \in Waiters : d \in Live' <=> d \in Live
        /\ HandsKept
    BY <1>18 DEF Pause, Live, Has, InHand, HandsKept
  <2> QED BY <2>1, NobodyMoves
<1>19. ASSUME NEW a \in Agents, Remove(a) PROVE OnePlace'
  <2>1. /\ UNCHANGED <<scheduled, waitQueue>> /\ \A d \in Waiters : d \in Live' <=> d \in Live
        /\ HandsKept
    BY <1>19 DEF Remove, Live, Has, InHand, HandsKept
  <2> QED BY <2>1, NobodyMoves
<1>s. ASSUME NEW a \in Agents, RemoveSearch(a) PROVE OnePlace'
  <2>1. /\ UNCHANGED <<scheduled, waitQueue>> /\ \A d \in Waiters : d \in Live' <=> d \in Live
        /\ HandsKept
    BY <1>s DEF RemoveSearch, Live, Has, InHand, HandsKept
  <2> QED BY <2>1, NobodyMoves
<1>20. ASSUME NEW a \in Agents, RemoveTake(a) PROVE OnePlace'
  <2>1. CASE left[a] = 0 \/ waitQueue = <<>>
    <3>1. /\ UNCHANGED <<scheduled, waitQueue, point>>
          /\ HandsKept
      BY <1>20, <2>1 DEF RemoveTake, Has, InHand, HandsKept
    <3> QED BY <3>1, NobodyMoves DEF Live
  <2>2. CASE left[a] # 0 /\ waitQueue # <<>>
    <3>1. PICK c \in Waiters : c = Head(waitQueue)
      BY <2>2, FirstAlone
    <3>2. /\ waitQueue' = Tail(waitQueue) /\ UNCHANGED <<scheduled, point>>
          /\ HandGains(a, c)
      BY <1>20, <2>2, <3>1 DEF RemoveTake, Has, InHand, HandGains
    <3> QED BY <2>2, <3>1, <3>2, TakesFirst
  <2> QED BY <2>1, <2>2
<1>21. ASSUME NEW a \in Agents, RemoveFound(a) PROVE OnePlace'
  <2>1. /\ UNCHANGED <<scheduled, waitQueue>> /\ \A d \in Waiters : d \in Live' <=> d \in Live
        /\ HandsKept
    BY <1>21 DEF RemoveFound, Live, Has, InHand, HandsKept
  <2> QED BY <2>1, NobodyMoves
<1>22. ASSUME NEW a \in Agents, RemovePutBack(a) PROVE OnePlace'
  <2>1. PICK c \in Waiters : c = hand[a] /\ Has(a, c)
    BY <1>22 DEF RemovePutBack, Has, InHand
  <2>2. /\ waitQueue' = Append(waitQueue, c) /\ UNCHANGED <<scheduled, point>>
        /\ HandLoses(a, c)
    BY <1>22, <2>1 DEF RemovePutBack, Has, InHand, HandLoses
  <2> QED BY <2>1, <2>2, EnqueuesOwn
<1>23. ASSUME NEW a \in Agents, ResumeLate(a) PROVE OnePlace'
  <2>1. /\ UNCHANGED <<scheduled, waitQueue>> /\ \A d \in Waiters : d \in Live' <=> d \in Live
        /\ HandsKept
    BY <1>23 DEF ResumeLate, Live, Has, InHand, HandsKept
  <2> QED BY <2>1, NobodyMoves
<1>24. ASSUME NEW a \in Agents, Removed(a) PROVE OnePlace'
  <2>1. CASE found[a]
    <3>1. PICK c \in Waiters : c = self[a] /\ Has(a, c)
      BY <1>24, <2>1 DEF Removed, Has, InHand
    <3>2. /\ scheduled' = [scheduled EXCEPT ![c] = @ + 1] /\ UNCHANGED <<waitQueue, point>>
          /\ HandLoses(a, c)
      BY <1>24, <2>1, <3>1 DEF Removed, Has, InHand, HandLoses
    <3> QED BY <3>1, <3>2, SchedulesOwn
  <2>2. CASE ~found[a]
    <3>1. /\ UNCHANGED <<scheduled, waitQueue, point>>
          /\ HandsKept
      BY <1>24, <2>2 DEF Removed, Has, InHand, HandsKept
    <3> QED BY <3>1, NobodyMoves DEF Live
  <2> QED BY <2>1, <2>2
<1>25. ASSUME NEW a \in Agents, CancelWaiters(a) PROVE OnePlace'
  <2>1. CASE waitQueue = <<>>
    <3>1. /\ UNCHANGED <<scheduled, waitQueue, point>>
          /\ HandsKept
      BY <1>25, <2>1 DEF CancelWaiters, Has, InHand, HandsKept
    <3> QED BY <3>1, NobodyMoves DEF Live
  <2>2. CASE waitQueue # <<>>
    <3>1. PICK c \in Waiters : c = Head(waitQueue)
      BY <2>2, FirstAlone
    <3>2. /\ waitQueue' = Tail(waitQueue) /\ scheduled' = [scheduled EXCEPT ![c] = @ + 1]
          /\ UNCHANGED <<point, pc, self, hand, found>>
      BY <1>25, <2>2, <3>1 DEF CancelWaiters, Has, InHand
    <3>3. HandsKept
      BY <3>2 DEF Has, InHand, HandsKept
    <3> QED BY <2>2, <3>1, <3>2, <3>3, SchedulesFirst
  <2> QED BY <2>1, <2>2
<1>26. ASSUME NEW a \in Agents, AwaitScope(a) PROVE OnePlace'
  <2>1. /\ UNCHANGED <<scheduled, waitQueue>> /\ \A d \in Waiters : d \in Live' <=> d \in Live
        /\ HandsKept
    BY <1>26 DEF AwaitScope, Live, Has, InHand, HandsKept
  <2> QED BY <2>1, NobodyMoves
<1>27. ASSUME NEW a \in Agents, CountDown(a) PROVE OnePlace'
  <2>1. /\ UNCHANGED <<scheduled, waitQueue>> /\ \A d \in Waiters : d \in Live' <=> d \in Live
        /\ HandsKept
    BY <1>27 DEF CountDown, Live, Has, InHand, HandsKept
  <2> QED BY <2>1, NobodyMoves
<1>28. ASSUME NEW a \in Agents, CountUp(a) PROVE OnePlace'
  <2>1. /\ UNCHANGED <<scheduled, waitQueue>> /\ \A d \in Waiters : d \in Live' <=> d \in Live
        /\ HandsKept
    BY <1>28 DEF CountUp, Live, Has, InHand, HandsKept
  <2> QED BY <2>1, NobodyMoves
<1>29. ASSUME NEW a \in Agents, Destroy(a) PROVE OnePlace'
  <2>1. /\ UNCHANGED <<scheduled, waitQueue>> /\ \A d \in Waiters : d \in Live' <=> d \in Live
        /\ HandsKept
    BY <1>29 DEF Destroy, Live, Has, InHand, HandsKept
  <2> QED BY <2>1, NobodyMoves
<1>30. ASSUME NEW a \in Agents, NEW c \in Waiters, EnqueueAlways(a, c) PROVE OnePlace'
  <2>1. /\ point[c] = "new" /\ point' = [point EXCEPT ![c] = "await"]
        /\ UNCHANGED <<scheduled, waitQueue>>
    BY <1>30 DEF EnqueueAlways
  <2>2. HandGains(a, c)
    BY <1>30 DEF EnqueueAlways, Has, InHand, HandGains
  <2>3. point \in [Waiters -> {"new", "start", "await", "done"}]
    BY DEF TypeOK
  <2>4. c \notin Live /\ \A d \in Waiters : d \in Live' <=> d \in Live \/ d = c
    BY <2>1, <2>3 DEF Live
  <2> QED BY <2>1, <2>2, <2>4, BeginsOwn
<1>31. ASSUME NEW a \in Agents, NEW c \in Waiters, Cancel(a, c) PROVE OnePlace'
  <2>1. /\ UNCHANGED <<scheduled, waitQueue>> /\ \A d \in Waiters : d \in Live' <=> d \in Live
        /\ HandsKept
    BY <1>31 DEF Cancel, Live, Has, InHand, HandsKept
  <2> QED BY <2>1, NobodyMoves
<1> HIDE DEF Control, InCancel, event, coros, agents, EmptyHand, Goto, Go, Schedule,
             CallResumeWaiting
<1> QED
  BY <1>0, <1>1, <1>2, <1>3, <1>4, <1>5, <1>6, <1>7, <1>8, <1>9, <1>10, <1>11, <1>12, <1>13,
     <1>14, <1>15, <1>16, <1>17, <1>18, <1>19, <1>s, <1>20, <1>21, <1>22, <1>23, <1>24, <1>25,
     <1>26, <1>27, <1>28, <1>29, <1>30, <1>31
     DEF Next, Call, Step

LEMMA EventStepInv == EventInv /\ [Next]_vars => EventInv'
BY EventTypeStep, EventControlStep, EventPlacesStep DEF EventInv

\* The invariant holds in every behaviour.
LEMMA EventInvariant == Spec => []EventInv
BY EventInitInv, EventStepInv, PTL DEF Spec

\* The types hold, and every waiter is in exactly one place: it is never resumed
\* twice for one wait, and never dropped, whatever countDown(), countUp(), cancel()
\* and the destructor interleave, and however many of them there are.
THEOREM EventConsistent == Spec => []Consistent
<1>1. EventInv => Consistent
  BY DEF EventInv, Consistent
<1> QED BY EventInvariant, <1>1, PTL

-----------------------------------------------------------------------------
(* No wakeup is lost *)

\* NoStrandedWaiter is inductive: whoever stops looking at the waiters found none,
\* or a count that is not zero; whoever takes the count to zero, adds a waiter to
\* the queue or puts one back looks again afterwards.
LEMMA EventStrandedStep ==
    ASSUME TypeOK, NoStrandedWaiter, [Next]_vars PROVE NoStrandedWaiter'
<1>a. count \in 0 .. MaxCount /\ pc \in [Agents -> Places] /\ MaxCount \in Nat
  BY CountAssumption DEF TypeOK
<1>b. NoStrandedWaiter
  OBVIOUS
<1> USE <1>a, <1>b
       DEF NoStrandedWaiter, event, coros, agents, At, EmptyHand, Goto, Go, Schedule, isZero,
           CallResumeWaiting
<1>0. CASE UNCHANGED vars
  BY <1>0 DEF vars
<1>1. ASSUME NEW a \in Agents, Decrement(a) PROVE NoStrandedWaiter'
  BY <1>1 DEF Decrement
<1>2. ASSUME NEW a \in Agents, Exit(a) PROVE NoStrandedWaiter'
  BY <1>2 DEF Exit
<1>3. ASSUME NEW a \in Agents, DequeueWaiter(a) PROVE NoStrandedWaiter'
  BY <1>3 DEF DequeueWaiter
<1>4. ASSUME NEW a \in Agents, Wake(a) PROVE NoStrandedWaiter'
  BY <1>4 DEF Wake
<1>5. ASSUME NEW a \in Agents, Requeue(a) PROVE NoStrandedWaiter'
  BY <1>5 DEF Requeue
<1>6. ASSUME NEW a \in Agents, Again(a) PROVE NoStrandedWaiter'
  BY <1>6 DEF Again
<1>7. ASSUME NEW a \in Agents, EnqueueEntry(a) PROVE NoStrandedWaiter'
  BY <1>7 DEF EnqueueEntry
<1>8. ASSUME NEW a \in Agents, EnqueueScope(a) PROVE NoStrandedWaiter'
  BY <1>8 DEF EnqueueScope
<1>9. ASSUME NEW a \in Agents, Enqueue(a) PROVE NoStrandedWaiter'
  BY <1>9 DEF Enqueue
<1>10. ASSUME NEW a \in Agents, Recheck(a) PROVE NoStrandedWaiter'
  BY <1>10 DEF Recheck
<1>11. ASSUME NEW a \in Agents, Listed(a) PROVE NoStrandedWaiter'
  BY <1>11 DEF Listed
<1>12. ASSUME NEW a \in Agents, NotListed(a) PROVE NoStrandedWaiter'
  BY <1>12 DEF NotListed
<1>13. ASSUME NEW a \in Agents, NEW c \in Waiters, PickUp(a, c) PROVE NoStrandedWaiter'
  BY <1>13 DEF PickUp
<1>14. ASSUME NEW a \in Agents, AwaitReady(a) PROVE NoStrandedWaiter'
  BY <1>14 DEF AwaitReady
<1>15. ASSUME NEW a \in Agents, AwaitSuspendCancelled(a) PROVE NoStrandedWaiter'
  BY <1>15 DEF AwaitSuspendCancelled
<1>16. ASSUME NEW a \in Agents, AwaitSuspend(a) PROVE NoStrandedWaiter'
  BY <1>16 DEF AwaitSuspend
<1>17. ASSUME NEW a \in Agents, Resume(a) PROVE NoStrandedWaiter'
  BY <1>17 DEF Resume
<1>18. ASSUME NEW a \in Agents, Pause(a) PROVE NoStrandedWaiter'
  BY <1>18 DEF Pause
<1>19. ASSUME NEW a \in Agents, Remove(a) PROVE NoStrandedWaiter'
  BY <1>19 DEF Remove
<1>s. ASSUME NEW a \in Agents, RemoveSearch(a) PROVE NoStrandedWaiter'
  BY <1>s DEF RemoveSearch
<1>20. ASSUME NEW a \in Agents, RemoveTake(a) PROVE NoStrandedWaiter'
  BY <1>20 DEF RemoveTake
<1>21. ASSUME NEW a \in Agents, RemoveFound(a) PROVE NoStrandedWaiter'
  BY <1>21 DEF RemoveFound
<1>22. ASSUME NEW a \in Agents, RemovePutBack(a) PROVE NoStrandedWaiter'
  BY <1>22 DEF RemovePutBack
<1>23. ASSUME NEW a \in Agents, ResumeLate(a) PROVE NoStrandedWaiter'
  BY <1>23 DEF ResumeLate
<1>24. ASSUME NEW a \in Agents, Removed(a) PROVE NoStrandedWaiter'
  BY <1>24 DEF Removed
<1>25. ASSUME NEW a \in Agents, CancelWaiters(a) PROVE NoStrandedWaiter'
  BY <1>25 DEF CancelWaiters
<1>26. ASSUME NEW a \in Agents, AwaitScope(a) PROVE NoStrandedWaiter'
  BY <1>26 DEF AwaitScope
<1>27. ASSUME NEW a \in Agents, CountDown(a) PROVE NoStrandedWaiter'
  BY <1>27 DEF CountDown
<1>28. ASSUME NEW a \in Agents, CountUp(a) PROVE NoStrandedWaiter'
  BY <1>28 DEF CountUp
<1>29. ASSUME NEW a \in Agents, Destroy(a) PROVE NoStrandedWaiter'
  BY <1>29 DEF Destroy
<1>30. ASSUME NEW a \in Agents, NEW c \in Waiters, EnqueueAlways(a, c) PROVE NoStrandedWaiter'
  BY <1>30 DEF EnqueueAlways
<1>31. ASSUME NEW a \in Agents, NEW c \in Waiters, Cancel(a, c) PROVE NoStrandedWaiter'
  BY <1>31 DEF Cancel
<1> HIDE DEF NoStrandedWaiter, event, coros, agents, EmptyHand, Goto, Go, Schedule,
             CallResumeWaiting
<1> QED
  BY <1>0, <1>1, <1>2, <1>3, <1>4, <1>5, <1>6, <1>7, <1>8, <1>9, <1>10, <1>11, <1>12, <1>13,
     <1>14, <1>15, <1>16, <1>17, <1>18, <1>19, <1>s, <1>20, <1>21, <1>22, <1>23, <1>24, <1>25,
     <1>26, <1>27, <1>28, <1>29, <1>30, <1>31
     DEF Next, Call, Step

\* A zero event with waiters has an agent that is still going to look at them.
THEOREM EventStrandsNobody == Spec => []NoStrandedWaiter
<1>1. Init => NoStrandedWaiter
  BY DEF Init, NoStrandedWaiter
<1>2. EventInv /\ NoStrandedWaiter /\ [Next]_vars => NoStrandedWaiter'
  BY EventStrandedStep DEF EventInv
<1> QED BY EventInvariant, <1>1, <1>2, PTL DEF Spec

-----------------------------------------------------------------------------
(* The refinement of WaitEvent *)

\* What InQueueOrHand says of an agent: it took the waiter out of the queue.
Took(a, c) == hand[a] = c \/ (self[a] = c /\ found[a])

TookKept == \A b \in Agents, e \in Waiters : Took(b, e)' <=> Took(b, e)
TookGains(a, c) == \A b \in Agents, e \in Waiters : Took(b, e)' <=> Took(b, e) \/ (b = a /\ e = c)
TookLoses(a, c) == \A b \in Agents, e \in Waiters : Took(b, e)' <=> Took(b, e) /\ ~(b = a /\ e = c)

LEMMA ListedIsQueued ==
    ASSUME NEW q \in Seq(Waiters), NEW c
    PROVE  (\E i \in DOMAIN q : q[i] = c) <=> Queued(q, c)
<1>1. DOMAIN q = 1 .. Len(q)
  OBVIOUS
<1> QED BY <1>1 DEF Queued

LEMMA WhoWaits ==
    ASSUME TypeOK, TypeOK'
    PROVE  \A c : /\ c \in InQueueOrHand <=>
                       /\ c \in Waiters
                       /\ Queued(waitQueue, c) \/ \E a \in Agents : Took(a, c)
                  /\ c \in InQueueOrHand' <=>
                       /\ c \in Waiters
                       /\ Queued(waitQueue', c) \/ \E a \in Agents : Took(a, c)'
<1>1. waitQueue \in Seq(Waiters) /\ waitQueue' \in Seq(Waiters)
  BY DEF TypeOK
<1>2. \A c : (Waiting(c) <=> Queued(waitQueue, c)) /\ (Waiting(c)' <=> Queued(waitQueue', c))
  BY <1>1, ListedIsQueued DEF Waiting
<1> QED BY <1>2 DEF InQueueOrHand, InHand, Took

LEMMA TookIsHad == \A a \in Agents, c \in Waiters : Took(a, c) => Has(a, c)
BY DEF Took, Has, InHand

\* Nobody comes to wait, and nobody leaves.
LEMMA NobodyLeaves ==
    ASSUME TypeOK, TypeOK', UNCHANGED waitQueue,
           TookKept
    PROVE  InQueueOrHand' = InQueueOrHand
BY WhoWaits DEF TookKept

\* The first of the queue is taken, and goes on waiting.
LEMMA FirstTaken ==
    ASSUME TypeOK, OnePlace, TypeOK', NEW a \in Agents, NEW c \in Waiters,
           waitQueue # <<>>, c = Head(waitQueue), waitQueue' = Tail(waitQueue),
           TookGains(a, c)
    PROVE  InQueueOrHand' = InQueueOrHand
<1>1. Placed(Waiters, Live, scheduled, waitQueue, Hands)
  BY WaiterValues, PlacedIsInOnePlace DEF OnePlace
<1>2. Queued(waitQueue, c) /\ \A d : Queued(waitQueue', d) <=> Queued(waitQueue, d) /\ d # c
  BY <1>1, QueueDrops DEF Placed, TypeOK
<1> QED BY <1>2, WhoWaits DEF TookGains

\* One that was taken is put back.
LEMMA PutBack ==
    ASSUME TypeOK, OnePlace, TypeOK', NEW a \in Agents, NEW c \in Waiters,
           Took(a, c), waitQueue' = Append(waitQueue, c),
           TookLoses(a, c)
    PROVE  InQueueOrHand' = InQueueOrHand
<1>1. Placed(Waiters, Live, scheduled, waitQueue, Hands)
  BY WaiterValues, PlacedIsInOnePlace DEF OnePlace
<1>2. ~Queued(waitQueue, c)
  BY TookIsHad, HeldAlone
<1>3. \A d : Queued(waitQueue', d) <=> Queued(waitQueue, d) \/ d = c
  BY <1>1, <1>2, QueueAdds DEF Placed, TypeOK
<1> QED BY <1>3, WhoWaits DEF TookLoses

\* One that an agent runs joins the queue.
LEMMA OneJoins ==
    ASSUME TypeOK, OnePlace, TypeOK', NEW a \in Agents, NEW c \in Waiters,
           Has(a, c), ~Took(a, c), waitQueue' = Append(waitQueue, c),
           TookKept
    PROVE  c \notin InQueueOrHand /\ InQueueOrHand' = InQueueOrHand \cup {c}
<1>1. Placed(Waiters, Live, scheduled, waitQueue, Hands)
  BY WaiterValues, PlacedIsInOnePlace DEF OnePlace
<1>2. ~Queued(waitQueue, c) /\ \A b \in Agents : ~Took(b, c)
  BY TookIsHad, HeldAlone
<1>3. \A d : Queued(waitQueue', d) <=> Queued(waitQueue, d) \/ d = c
  BY <1>1, <1>2, QueueAdds DEF Placed, TypeOK
<1> QED BY <1>2, <1>3, WhoWaits DEF TookKept

\* One that was taken is let go.
LEMMA OneLeaves ==
    ASSUME TypeOK, OnePlace, TypeOK', NEW a \in Agents, NEW c \in Waiters,
           Took(a, c), UNCHANGED waitQueue,
           TookLoses(a, c)
    PROVE  c \in InQueueOrHand /\ InQueueOrHand' = InQueueOrHand \ {c}
<1>1. ~Queued(waitQueue, c) /\ \A b \in Agents : Took(b, c) => b = a
  BY TookIsHad, HeldAlone
<1> QED BY <1>1, WhoWaits DEF TookLoses

\* The first of the queue is let go.
LEMMA FirstLeaves ==
    ASSUME TypeOK, OnePlace, TypeOK', NEW c \in Waiters,
           waitQueue # <<>>, c = Head(waitQueue), waitQueue' = Tail(waitQueue),
           TookKept
    PROVE  c \in InQueueOrHand /\ InQueueOrHand' = InQueueOrHand \ {c}
<1>1. Placed(Waiters, Live, scheduled, waitQueue, Hands)
  BY WaiterValues, PlacedIsInOnePlace DEF OnePlace
<1>2. Queued(waitQueue, c) /\ \A d : Queued(waitQueue', d) <=> Queued(waitQueue, d) /\ d # c
  BY <1>1, QueueDrops DEF Placed, TypeOK
<1>3. \A b \in Agents : ~Took(b, c)
  BY TookIsHad, FirstAlone
<1> QED BY <1>2, <1>3, WhoWaits DEF TookKept

\* The first state is one of WaitEvent.
LEMMA RefineInit == Init => Abstract!Init
<1> SUFFICES ASSUME Init PROVE Abstract!Init
  OBVIOUS
<1>1. InQueueOrHand = {}
  BY NullAssumption DEF Init, InQueueOrHand, Waiting, InHand
<1> QED BY <1>1 DEF Init, Abstract!Init

\* Every step is one of WaitEvent or leaves what it sees alone: the Decrement that
\* counts, CountUp, Enqueue, the Wake that schedules, Cancel, and the ends of a
\* remove() and of the destructor's drain are its steps.
LEMMA RefineStep ==
    ASSUME EventInv, [Next]_vars PROVE [Abstract!Next]_Abstract!vars
<1>a. TypeOK /\ OnePlace /\ Control
  BY DEF EventInv
<1>b. TypeOK'
  BY EventTypeStep
<1>c. /\ pc \in [Agents -> Places] /\ self \in [Agents -> Waiters \cup {NULL}]
      /\ hand \in [Agents -> Waiters \cup {NULL}] /\ found \in [Agents -> BOOLEAN]
      /\ back \in [Agents -> {"idle", "exit", "listed", "removed"}]
      /\ cancelled \in [Waiters -> BOOLEAN] /\ count \in 0 .. MaxCount
      /\ NULL \notin Waiters /\ MaxCount \in Nat
  BY NullAssumption, CountAssumption DEF EventInv, TypeOK
<1> USE <1>a, <1>b, <1>c
       DEF Control, Running, InCancel, Cancelling, Draining, event, coros, agents, At,
           EmptyHand, Goto, Go, Schedule, isZero, CallResumeWaiting
<1>0. CASE UNCHANGED vars
  <2>1. UNCHANGED <<count, cancelled, waitQueue>> /\ TookKept
    BY <1>0 DEF vars, Took, TookKept
  <2> QED BY <2>1, NobodyLeaves DEF Abstract!vars
<1>1. ASSUME NEW a \in Agents, Decrement(a) PROVE [Abstract!Next]_Abstract!vars
  <2>1. UNCHANGED <<cancelled, waitQueue>> /\ TookKept
    BY <1>1 DEF Decrement, Took, TookKept
  <2>2. InQueueOrHand' = InQueueOrHand
    BY <2>1, NobodyLeaves
  <2>3. count' = count \/ (count > 0 /\ count' = count - 1)
    BY <1>1 DEF Decrement
  <2> QED BY <2>1, <2>2, <2>3 DEF Abstract!Next, Abstract!CountDown, Abstract!vars
<1>2. ASSUME NEW a \in Agents, Exit(a) PROVE [Abstract!Next]_Abstract!vars
  <2>1. UNCHANGED <<count, cancelled, waitQueue>> /\ TookKept
    BY <1>2 DEF Exit, Took, TookKept
  <2> QED BY <2>1, NobodyLeaves DEF Abstract!vars
<1>3. ASSUME NEW a \in Agents, DequeueWaiter(a) PROVE [Abstract!Next]_Abstract!vars
  <2>1. CASE waitQueue = <<>>
    <3>1. UNCHANGED <<count, cancelled, waitQueue>> /\ TookKept
      BY <1>3, <2>1 DEF DequeueWaiter, Took, TookKept
    <3> QED BY <3>1, NobodyLeaves DEF Abstract!vars
  <2>2. CASE waitQueue # <<>>
    <3>1. PICK c \in Waiters : c = Head(waitQueue)
      BY <2>2, FirstAlone
    <3>2. waitQueue' = Tail(waitQueue) /\ UNCHANGED <<count, cancelled>>
      BY <1>3, <2>2 DEF DequeueWaiter
    <3>3. TookGains(a, c)
      BY <1>3, <2>2, <3>1 DEF DequeueWaiter, Took, TookGains
    <3> QED BY <2>2, <3>1, <3>2, <3>3, FirstTaken DEF Abstract!vars
  <2> QED BY <2>1, <2>2
<1>4. ASSUME NEW a \in Agents, Wake(a) PROVE [Abstract!Next]_Abstract!vars
  <2>1. CASE isZero
    <3>1. PICK c \in Waiters : c = hand[a] /\ Took(a, c)
      BY <1>4 DEF Wake, Took
    <3>2. UNCHANGED <<count, cancelled, waitQueue>>
      BY <1>4 DEF Wake
    <3>3. TookLoses(a, c)
      BY <1>4, <2>1, <3>1 DEF Wake, Took, TookLoses
    <3>4. c \in InQueueOrHand /\ InQueueOrHand' = InQueueOrHand \ {c}
      BY <3>1, <3>2, <3>3, OneLeaves
    <3> QED BY <2>1, <3>2, <3>4 DEF Abstract!Next, Abstract!Wake
  <2>2. CASE ~isZero
    <3>1. UNCHANGED <<count, cancelled, waitQueue>> /\ TookKept
      BY <1>4, <2>2 DEF Wake, Took, TookKept
    <3> QED BY <3>1, NobodyLeaves DEF Abstract!vars
  <2> QED BY <2>1, <2>2
<1>5. ASSUME NEW a \in Agents, Requeue(a) PROVE [Abstract!Next]_Abstract!vars
  <2>1. PICK c \in Waiters : c = hand[a] /\ Took(a, c)
    BY <1>5 DEF Requeue, Took
  <2>2. waitQueue' = Append(waitQueue, c) /\ UNCHANGED <<count, cancelled>>
    BY <1>5, <2>1 DEF Requeue
  <2>3. TookLoses(a, c)
    BY <1>5, <2>1 DEF Requeue, Took, TookLoses
  <2> QED BY <2>1, <2>2, <2>3, PutBack DEF Abstract!vars
<1>6. ASSUME NEW a \in Agents, Again(a) PROVE [Abstract!Next]_Abstract!vars
  <2>1. UNCHANGED <<count, cancelled, waitQueue>> /\ TookKept
    BY <1>6 DEF Again, Took, TookKept
  <2> QED BY <2>1, NobodyLeaves DEF Abstract!vars
<1>7. ASSUME NEW a \in Agents, EnqueueEntry(a) PROVE [Abstract!Next]_Abstract!vars
  <2>1. UNCHANGED <<count, cancelled, waitQueue>> /\ TookKept
    BY <1>7 DEF EnqueueEntry, Took, TookKept
  <2> QED BY <2>1, NobodyLeaves DEF Abstract!vars
<1>8. ASSUME NEW a \in Agents, EnqueueScope(a) PROVE [Abstract!Next]_Abstract!vars
  <2>1. UNCHANGED <<count, cancelled, waitQueue>> /\ TookKept
    BY <1>8 DEF EnqueueScope, Took, TookKept
  <2> QED BY <2>1, NobodyLeaves DEF Abstract!vars
<1>9. ASSUME NEW a \in Agents, Enqueue(a) PROVE [Abstract!Next]_Abstract!vars
  <2>1. PICK c \in Waiters : c = self[a] /\ Has(a, c) /\ ~Took(a, c)
    BY <1>9 DEF Enqueue, Has, Took
  <2>2. waitQueue' = Append(waitQueue, c) /\ UNCHANGED <<count, cancelled>>
    BY <1>9, <2>1 DEF Enqueue
  <2>3. TookKept
    BY <1>9 DEF Enqueue, Took, TookKept
  <2>4. c \notin InQueueOrHand /\ InQueueOrHand' = InQueueOrHand \cup {c}
    BY <2>1, <2>2, <2>3, OneJoins
  <2> QED BY <2>2, <2>4 DEF Abstract!Next, Abstract!Wait
<1>10. ASSUME NEW a \in Agents, Recheck(a) PROVE [Abstract!Next]_Abstract!vars
  <2>1. UNCHANGED <<count, cancelled, waitQueue>> /\ TookKept
    BY <1>10 DEF Recheck, Took, TookKept
  <2> QED BY <2>1, NobodyLeaves DEF Abstract!vars
<1>11. ASSUME NEW a \in Agents, Listed(a) PROVE [Abstract!Next]_Abstract!vars
  <2>1. UNCHANGED <<count, cancelled, waitQueue>> /\ TookKept
    BY <1>11 DEF Listed, Took, TookKept
  <2> QED BY <2>1, NobodyLeaves DEF Abstract!vars
<1>12. ASSUME NEW a \in Agents, NotListed(a) PROVE [Abstract!Next]_Abstract!vars
  <2>1. UNCHANGED <<count, cancelled, waitQueue>> /\ TookKept
    BY <1>12 DEF NotListed, Took, TookKept
  <2> QED BY <2>1, NobodyLeaves DEF Abstract!vars
<1>13. ASSUME NEW a \in Agents, NEW c \in Waiters, PickUp(a, c)
      PROVE  [Abstract!Next]_Abstract!vars
  <2>1. UNCHANGED <<count, cancelled, waitQueue>> /\ TookKept
    BY <1>13 DEF PickUp, Took, TookKept
  <2> QED BY <2>1, NobodyLeaves DEF Abstract!vars
<1>14. ASSUME NEW a \in Agents, AwaitReady(a) PROVE [Abstract!Next]_Abstract!vars
  <2>1. UNCHANGED <<count, cancelled, waitQueue>> /\ TookKept
    BY <1>14 DEF AwaitReady, Took, TookKept
  <2> QED BY <2>1, NobodyLeaves DEF Abstract!vars
<1>15. ASSUME NEW a \in Agents, AwaitSuspendCancelled(a) PROVE [Abstract!Next]_Abstract!vars
  <2>1. UNCHANGED <<count, cancelled, waitQueue>> /\ TookKept
    BY <1>15 DEF AwaitSuspendCancelled, Took, TookKept
  <2> QED BY <2>1, NobodyLeaves DEF Abstract!vars
<1>16. ASSUME NEW a \in Agents, AwaitSuspend(a) PROVE [Abstract!Next]_Abstract!vars
  <2>1. UNCHANGED <<count, cancelled, waitQueue>> /\ TookKept
    BY <1>16 DEF AwaitSuspend, Took, TookKept
  <2> QED BY <2>1, NobodyLeaves DEF Abstract!vars
<1>17. ASSUME NEW a \in Agents, Resume(a) PROVE [Abstract!Next]_Abstract!vars
  <2>1. UNCHANGED <<count, cancelled, waitQueue>> /\ TookKept
    BY <1>17 DEF Resume, Took, TookKept
  <2> QED BY <2>1, NobodyLeaves DEF Abstract!vars
<1>18. ASSUME NEW a \in Agents, Pause(a) PROVE [Abstract!Next]_Abstract!vars
  <2>1. UNCHANGED <<count, cancelled, waitQueue>> /\ TookKept
    BY <1>18 DEF Pause, Took, TookKept
  <2> QED BY <2>1, NobodyLeaves DEF Abstract!vars
<1>19. ASSUME NEW a \in Agents, Remove(a) PROVE [Abstract!Next]_Abstract!vars
  <2>1. UNCHANGED <<count, cancelled, waitQueue>> /\ TookKept
    BY <1>19 DEF Remove, Took, TookKept
  <2> QED BY <2>1, NobodyLeaves DEF Abstract!vars
<1>s. ASSUME NEW a \in Agents, RemoveSearch(a) PROVE [Abstract!Next]_Abstract!vars
  <2>1. UNCHANGED <<count, cancelled, waitQueue>> /\ TookKept
    BY <1>s DEF RemoveSearch, Took, TookKept
  <2> QED BY <2>1, NobodyLeaves DEF Abstract!vars
<1>20. ASSUME NEW a \in Agents, RemoveTake(a) PROVE [Abstract!Next]_Abstract!vars
  <2>1. CASE left[a] = 0 \/ waitQueue = <<>>
    <3>1. UNCHANGED <<count, cancelled, waitQueue>> /\ TookKept
      BY <1>20, <2>1 DEF RemoveTake, Took, TookKept
    <3> QED BY <3>1, NobodyLeaves DEF Abstract!vars
  <2>2. CASE left[a] # 0 /\ waitQueue # <<>>
    <3>1. PICK c \in Waiters : c = Head(waitQueue)
      BY <2>2, FirstAlone
    <3>2. waitQueue' = Tail(waitQueue) /\ UNCHANGED <<count, cancelled>>
      BY <1>20, <2>2 DEF RemoveTake
    <3>3. TookGains(a, c)
      BY <1>20, <2>2, <3>1 DEF RemoveTake, Took, TookGains
    <3> QED BY <2>2, <3>1, <3>2, <3>3, FirstTaken DEF Abstract!vars
  <2> QED BY <2>1, <2>2
<1>21. ASSUME NEW a \in Agents, RemoveFound(a) PROVE [Abstract!Next]_Abstract!vars
  <2>1. UNCHANGED <<count, cancelled, waitQueue>> /\ TookKept
    BY <1>21 DEF RemoveFound, Took, TookKept
  <2> QED BY <2>1, NobodyLeaves DEF Abstract!vars
<1>22. ASSUME NEW a \in Agents, RemovePutBack(a) PROVE [Abstract!Next]_Abstract!vars
  <2>1. PICK c \in Waiters : c = hand[a] /\ Took(a, c)
    BY <1>22 DEF RemovePutBack, Took
  <2>2. waitQueue' = Append(waitQueue, c) /\ UNCHANGED <<count, cancelled>>
    BY <1>22, <2>1 DEF RemovePutBack
  <2>3. TookLoses(a, c)
    BY <1>22, <2>1 DEF RemovePutBack, Took, TookLoses
  <2> QED BY <2>1, <2>2, <2>3, PutBack DEF Abstract!vars
<1>23. ASSUME NEW a \in Agents, ResumeLate(a) PROVE [Abstract!Next]_Abstract!vars
  <2>1. UNCHANGED <<count, cancelled, waitQueue>> /\ TookKept
    BY <1>23 DEF ResumeLate, Took, TookKept
  <2> QED BY <2>1, NobodyLeaves DEF Abstract!vars
<1>24. ASSUME NEW a \in Agents, Removed(a) PROVE [Abstract!Next]_Abstract!vars
  <2>1. UNCHANGED <<count, cancelled, waitQueue>>
    BY <1>24 DEF Removed
  <2>2. CASE found[a]
    <3>1. PICK c \in Waiters : c = self[a] /\ Took(a, c) /\ cancelled[c]
      BY <1>24, <2>2 DEF Removed, Took
    <3>2. TookLoses(a, c)
      BY <1>24, <2>2, <3>1 DEF Removed, Took, TookLoses
    <3>3. c \in InQueueOrHand /\ InQueueOrHand' = InQueueOrHand \ {c}
      BY <2>1, <3>1, <3>2, OneLeaves
    <3> QED BY <2>1, <3>1, <3>3 DEF Abstract!Next, Abstract!Leave
  <2>3. CASE ~found[a]
    <3>1. TookKept
      BY <1>24, <2>3 DEF Removed, Took, TookKept
    <3> QED BY <2>1, <3>1, NobodyLeaves DEF Abstract!vars
  <2> QED BY <2>2, <2>3
<1>25. ASSUME NEW a \in Agents, CancelWaiters(a) PROVE [Abstract!Next]_Abstract!vars
  <2>1. UNCHANGED <<count, self, hand, found>>
    BY <1>25 DEF CancelWaiters
  <2>2. TookKept
    BY <2>1 DEF Took, TookKept
  <2>3. CASE waitQueue = <<>>
    <3>1. UNCHANGED <<cancelled, waitQueue>>
      BY <1>25, <2>3 DEF CancelWaiters
    <3> QED BY <2>1, <2>2, <3>1, NobodyLeaves DEF Abstract!vars
  <2>4. CASE waitQueue # <<>>
    <3>1. PICK c \in Waiters : c = Head(waitQueue)
      BY <2>4, FirstAlone
    <3>2. waitQueue' = Tail(waitQueue) /\ cancelled' = [cancelled EXCEPT ![c] = TRUE]
      BY <1>25, <2>4, <3>1 DEF CancelWaiters
    <3>3. c \in InQueueOrHand /\ InQueueOrHand' = InQueueOrHand \ {c}
      BY <2>2, <2>4, <3>1, <3>2, FirstLeaves
    <3>4. cancelled'[c]
      BY <3>2
    <3> QED BY <2>1, <3>2, <3>3, <3>4 DEF Abstract!Next, Abstract!Leave
  <2> QED BY <2>3, <2>4
<1>26. ASSUME NEW a \in Agents, AwaitScope(a) PROVE [Abstract!Next]_Abstract!vars
  <2>1. UNCHANGED <<count, cancelled, waitQueue>> /\ TookKept
    BY <1>26 DEF AwaitScope, Took, TookKept
  <2> QED BY <2>1, NobodyLeaves DEF Abstract!vars
<1>27. ASSUME NEW a \in Agents, CountDown(a) PROVE [Abstract!Next]_Abstract!vars
  <2>1. UNCHANGED <<count, cancelled, waitQueue>> /\ TookKept
    BY <1>27 DEF CountDown, Took, TookKept
  <2> QED BY <2>1, NobodyLeaves DEF Abstract!vars
<1>28. ASSUME NEW a \in Agents, CountUp(a) PROVE [Abstract!Next]_Abstract!vars
  <2>1. UNCHANGED <<cancelled, waitQueue>> /\ TookKept
    BY <1>28 DEF CountUp, Took, TookKept
  <2>2. InQueueOrHand' = InQueueOrHand
    BY <2>1, NobodyLeaves
  <2>3. count' = count \/ (count < MaxCount /\ count' = count + 1)
    BY <1>28 DEF CountUp
  <2> QED BY <2>1, <2>2, <2>3 DEF Abstract!Next, Abstract!CountUp, Abstract!vars
<1>29. ASSUME NEW a \in Agents, Destroy(a) PROVE [Abstract!Next]_Abstract!vars
  <2>1. UNCHANGED <<count, cancelled, waitQueue>> /\ TookKept
    BY <1>29 DEF Destroy, Took, TookKept
  <2> QED BY <2>1, NobodyLeaves DEF Abstract!vars
<1>30. ASSUME NEW a \in Agents, NEW c \in Waiters, EnqueueAlways(a, c)
      PROVE  [Abstract!Next]_Abstract!vars
  <2>1. UNCHANGED <<count, cancelled, waitQueue>> /\ TookKept
    BY <1>30 DEF EnqueueAlways, Took, TookKept
  <2> QED BY <2>1, NobodyLeaves DEF Abstract!vars
<1>31. ASSUME NEW a \in Agents, NEW c \in Waiters, Cancel(a, c)
      PROVE  [Abstract!Next]_Abstract!vars
  <2>1. UNCHANGED <<count, waitQueue>> /\ TookKept
    BY <1>31 DEF Cancel, Took, TookKept
  <2>2. InQueueOrHand' = InQueueOrHand
    BY <2>1, NobodyLeaves
  <2>3. cancelled' = [cancelled EXCEPT ![c] = TRUE]
    BY <1>31 DEF Cancel
  <2> QED BY <2>1, <2>2, <2>3 DEF Abstract!Next, Abstract!Cancel
<1> HIDE DEF Control, InCancel, event, coros, agents, EmptyHand, Goto, Go, Schedule,
             CallResumeWaiting
<1> QED
  BY <1>0, <1>1, <1>2, <1>3, <1>4, <1>5, <1>6, <1>7, <1>8, <1>9, <1>10, <1>11, <1>12, <1>13,
     <1>14, <1>15, <1>16, <1>17, <1>18, <1>19, <1>s, <1>20, <1>21, <1>22, <1>23, <1>24, <1>25,
     <1>26, <1>27, <1>28, <1>29, <1>30, <1>31
     DEF Next, Call, Step

\* Every behaviour of the event, its cancel() and its destructor is one of WaitEvent:
\* nobody is woken by a count that is not zero at that moment, nor by the search of
\* remove() for somebody else.
THEOREM EventImplementsWait == Spec => ImplementsWaitEvent
<1>1. EventInv /\ [Next]_vars => [Abstract!Next]_Abstract!vars
  BY RefineStep
<1> QED BY EventInvariant, RefineInit, <1>1, PTL DEF Spec, ImplementsWaitEvent, Abstract!Spec

-----------------------------------------------------------------------------
(***************************************************************************)
(* The value.  The property is about the end of a wait; that it holds is   *)
(* decided long before: as long as the value is unset only a cancel may    *)
(* schedule a coroutine that has begun to wait.  Unsignaled says so, and what *)
(* has to be known of every place in the code that schedules one.          *)
(***************************************************************************)

Typed ==
    /\ pc \in [Agents -> Places]
    /\ back \in [Agents -> Places]
    /\ self \in [Agents -> Waiters \cup {NULL}]
    /\ point \in [Waiters -> {"new", "start", "await", "done"}]
    /\ scheduled \in [Waiters -> Nat]
    /\ cancelled \in [Waiters -> BOOLEAN]
    /\ value \in Contents \cup {Unset}
    /\ got \in [Waiters -> Contents \cup {"nothing", "cancelled"}]

Cancelled(a) == self[a] \in Waiters /\ cancelled[self[a]]

\* The event is not signalled, and nobody works as if it were.
Closed ==
    /\ count = 1
    /\ \A a \in Agents :
           pc[a] \notin {"decrement", "notListed", "dequeue", "wake", "requeue", "again"}

\* Who removes a coroutine or ends its wait does so for a cancelled one.
OnlyCancelled ==
    \A a \in Agents :
        pc[a] \in {"resume", "pause", "remove", "search", "take", "compare", "resumeLate", "removed"}
            => Cancelled(a)

\* Who is about to wait is not scheduled meanwhile.
ReadyAlone ==
    \A a \in Agents :
        pc[a] \in {"ready", "suspend"}
            => Cancelled(a) \/ (self[a] \in Waiters /\ scheduled[self[a]] = 0)

\* A coroutine is scheduled once and to begin, unless it is cancelled.
ScheduledToStart ==
    \A c \in Waiters :
        \/ cancelled[c]
        \/ scheduled[c] = 0
        \/ scheduled[c] = 1 /\ point[c] = "start"

Unsignaled == Closed /\ OnlyCancelled /\ ReadyAlone /\ ScheduledToStart

ValueInv == Typed /\ (value = Unset => Unsignaled)

-----------------------------------------------------------------------------

\* A new value has nobody who works as if it were set.
LEMMA ValueInitInv == ValueInit => ValueInv
<1> SUFFICES ASSUME ValueInit PROVE ValueInv
  OBVIOUS
<1> USE DEF ValueInit, Init
<1>1. Typed
  BY DEF Typed, Places
<1>2. Unsignaled
  BY ValueAssumption DEF Unsignaled, Closed, OnlyCancelled, ReadyAlone, ScheduledToStart
<1> QED
  BY <1>1, <1>2 DEF ValueInv

\* Every step keeps the types.
LEMMA TypedStep == ASSUME Typed, value = Unset => Unsignaled, [ValueNext]_valueVars PROVE Typed'
<1> USE DEF Typed, Places, event, coros, agents, vars, At, Goto, Go, Schedule, CallResumeWaiting
<1>0. CASE UNCHANGED valueVars
  BY <1>0 DEF valueVars
<1>1. ASSUME NEW a \in Agents, Decrement(a), UNCHANGED <<value, got>>
     PROVE  Typed'
  BY <1>1 DEF Decrement
<1>2. ASSUME NEW a \in Agents, Exit(a), UNCHANGED <<value, got>>
     PROVE  Typed'
  BY <1>2 DEF Exit
<1>3. ASSUME NEW a \in Agents, DequeueWaiter(a), UNCHANGED <<value, got>>
     PROVE  Typed'
  BY <1>3 DEF DequeueWaiter
<1>4. ASSUME NEW a \in Agents, Wake(a), UNCHANGED <<value, got>>
     PROVE  Typed'
  BY <1>4 DEF Wake
<1>5. ASSUME NEW a \in Agents, Requeue(a), UNCHANGED <<value, got>>
     PROVE  Typed'
  BY <1>5 DEF Requeue
<1>6. ASSUME NEW a \in Agents, Again(a), UNCHANGED <<value, got>>
     PROVE  Typed'
  BY <1>6 DEF Again
<1>7. ASSUME NEW a \in Agents, EnqueueEntry(a), UNCHANGED <<value, got>>
     PROVE  Typed'
  BY <1>7 DEF EnqueueEntry
<1>8. ASSUME NEW a \in Agents, EnqueueScope(a), UNCHANGED <<value, got>>
     PROVE  Typed'
  BY <1>8 DEF EnqueueScope
<1>9. ASSUME NEW a \in Agents, Enqueue(a), UNCHANGED <<value, got>>
     PROVE  Typed'
  BY <1>9 DEF Enqueue
<1>10. ASSUME NEW a \in Agents, Recheck(a), UNCHANGED <<value, got>>
     PROVE  Typed'
  BY <1>10 DEF Recheck
<1>11. ASSUME NEW a \in Agents, Listed(a), UNCHANGED <<value, got>>
     PROVE  Typed'
  BY <1>11 DEF Listed
<1>12. ASSUME NEW a \in Agents, NotListed(a), UNCHANGED <<value, got>>
     PROVE  Typed'
  BY <1>12 DEF NotListed
<1>13. ASSUME NEW a \in Agents, NEW c \in Waiters, PickUp(a, c), UNCHANGED <<value, got>>
     PROVE  Typed'
  BY <1>13 DEF PickUp
<1>14. ASSUME NEW a \in Agents, AwaitReady(a), UNCHANGED <<value, got>>
     PROVE  Typed'
  BY <1>14 DEF AwaitReady
<1>15. ASSUME NEW a \in Agents, AwaitSuspendCancelled(a), UNCHANGED <<value, got>>
     PROVE  Typed'
  BY <1>15 DEF AwaitSuspendCancelled
<1>16. ASSUME NEW a \in Agents, AwaitSuspend(a), UNCHANGED <<value, got>>
     PROVE  Typed'
  BY <1>16 DEF AwaitSuspend
<1>17. ASSUME NEW a \in Agents, Pause(a), UNCHANGED <<value, got>>
     PROVE  Typed'
  BY <1>17 DEF Pause
<1>18. ASSUME NEW a \in Agents, Remove(a), UNCHANGED <<value, got>>
     PROVE  Typed'
  BY <1>18 DEF Remove
<1>s. ASSUME NEW a \in Agents, RemoveSearch(a), UNCHANGED <<value, got>>
     PROVE  Typed'
  BY <1>s DEF RemoveSearch
<1>19. ASSUME NEW a \in Agents, RemoveTake(a), UNCHANGED <<value, got>>
     PROVE  Typed'
  BY <1>19 DEF RemoveTake
<1>20. ASSUME NEW a \in Agents, RemoveFound(a), UNCHANGED <<value, got>>
     PROVE  Typed'
  BY <1>20 DEF RemoveFound
<1>21. ASSUME NEW a \in Agents, RemovePutBack(a), UNCHANGED <<value, got>>
     PROVE  Typed'
  BY <1>21 DEF RemovePutBack
<1>22. ASSUME NEW a \in Agents, ResumeLate(a), UNCHANGED <<value, got>>
     PROVE  Typed'
  BY <1>22 DEF ResumeLate
<1>23. ASSUME NEW a \in Agents, Removed(a), UNCHANGED <<value, got>>
     PROVE  Typed'
  BY <1>23 DEF Removed
<1>24. ASSUME NEW a \in Agents, CancelWaiters(a), UNCHANGED <<value, got>>
     PROVE  Typed'
  <2>1. CASE waitQueue = <<>>
    BY <1>24, <2>1 DEF CancelWaiters
  <2>2. CASE waitQueue # <<>>
    <3>1. PICK c : c = Head(waitQueue)
      OBVIOUS
    <3>2. /\ cancelled' = [cancelled EXCEPT ![c] = TRUE]
          /\ scheduled' = [scheduled EXCEPT ![c] = @ + 1]
          /\ UNCHANGED <<pc, back, self, point, value, got>>
      BY <1>24, <2>2, <3>1 DEF CancelWaiters
    <3>3. scheduled' \in [Waiters -> Nat]
      <4>1. \A w \in Waiters : scheduled'[w] = IF w = c THEN scheduled[w] + 1 ELSE scheduled[w]
        BY <3>2
      <4>2. DOMAIN scheduled' = Waiters /\ scheduled' = [w \in Waiters |-> scheduled'[w]]
        BY <3>2
      <4> QED
        BY <4>1, <4>2
    <3>4. cancelled' \in [Waiters -> BOOLEAN]
      BY <3>2
    <3> QED
      BY <3>2, <3>3, <3>4
  <2> QED
    BY <2>1, <2>2
<1>25. ASSUME NEW a \in Agents, AwaitScope(a), UNCHANGED <<value, got>>
     PROVE  Typed'
  BY <1>25 DEF AwaitScope
<1>26. ASSUME NEW a \in Agents, SuspendSignaled(a)
     PROVE  Typed'
  BY <1>26 DEF SuspendSignaled
<1>27. ASSUME NEW a \in Agents, TakeValue(a)
     PROVE  Typed'
  BY <1>27 DEF TakeValue, Resume, Unsignaled, OnlyCancelled, Cancelled
<1>28. ASSUME NEW a \in Agents, Set(a)
     PROVE  Typed'
  BY <1>28 DEF Set
<1>29. ASSUME NEW a \in Agents, SignalValue(a)
     PROVE  Typed'
  BY <1>29 DEF SignalValue, CountDown
<1>30. ASSUME NEW a \in Agents, Destroy(a), UNCHANGED <<value, got>>
     PROVE  Typed'
  BY <1>30 DEF Destroy
<1>31. ASSUME NEW a \in Agents, NEW c \in Waiters, Cancel(a, c), UNCHANGED <<value, got>>
     PROVE  Typed'
  BY <1>31 DEF Cancel
<1> HIDE DEF Typed, Places, event, coros, agents, vars, Goto, Go, Schedule, CallResumeWaiting
<1> QED
  BY <1>0, <1>1, <1>2, <1>3, <1>4, <1>5, <1>6, <1>7, <1>8, <1>9, <1>10, <1>11, <1>12, <1>13,
     <1>14, <1>15, <1>16, <1>17, <1>18, <1>s, <1>19, <1>20, <1>21, <1>22, <1>23, <1>24, <1>25, <1>26,
     <1>27, <1>28, <1>29, <1>30, <1>31
     DEF ValueNext, ValueStep, ValueCall, EventStep, Step, Resume

\* As long as the value is unset every step keeps those who work as if it were
\* set away, and a coroutine scheduled by anything but a cancel from its wait.
LEMMA UnsignaledStep ==
    ASSUME Typed, value = Unset, Unsignaled, [ValueNext]_valueVars, value' = Unset
    PROVE  Unsignaled'
<1> USE DEF Typed, Unsignaled, Closed, OnlyCancelled, ReadyAlone, ScheduledToStart, Cancelled,
            event, coros, agents, vars, At, Goto, Go, Schedule, CallResumeWaiting, isZero
<1>0. CASE UNCHANGED valueVars
  BY <1>0 DEF valueVars
<1>1. ASSUME NEW a \in Agents, Decrement(a), UNCHANGED <<value, got>>
     PROVE  Unsignaled'
  BY <1>1 DEF Decrement
<1>2. ASSUME NEW a \in Agents, Exit(a), UNCHANGED <<value, got>>
     PROVE  Unsignaled'
  BY <1>2 DEF Exit
<1>3. ASSUME NEW a \in Agents, DequeueWaiter(a), UNCHANGED <<value, got>>
     PROVE  Unsignaled'
  BY <1>3 DEF DequeueWaiter
<1>4. ASSUME NEW a \in Agents, Wake(a), UNCHANGED <<value, got>>
     PROVE  Unsignaled'
  BY <1>4 DEF Wake
<1>5. ASSUME NEW a \in Agents, Requeue(a), UNCHANGED <<value, got>>
     PROVE  Unsignaled'
  BY <1>5 DEF Requeue
<1>6. ASSUME NEW a \in Agents, Again(a), UNCHANGED <<value, got>>
     PROVE  Unsignaled'
  BY <1>6 DEF Again
<1>7. ASSUME NEW a \in Agents, EnqueueEntry(a), UNCHANGED <<value, got>>
     PROVE  Unsignaled'
  BY <1>7 DEF EnqueueEntry
<1>8. ASSUME NEW a \in Agents, EnqueueScope(a), UNCHANGED <<value, got>>
     PROVE  Unsignaled'
  BY <1>8 DEF EnqueueScope
<1>9. ASSUME NEW a \in Agents, Enqueue(a), UNCHANGED <<value, got>>
     PROVE  Unsignaled'
  BY <1>9 DEF Enqueue
<1>10. ASSUME NEW a \in Agents, Recheck(a), UNCHANGED <<value, got>>
     PROVE  Unsignaled'
  BY <1>10 DEF Recheck
<1>11. ASSUME NEW a \in Agents, Listed(a), UNCHANGED <<value, got>>
     PROVE  Unsignaled'
  BY <1>11 DEF Listed
<1>12. ASSUME NEW a \in Agents, NotListed(a), UNCHANGED <<value, got>>
     PROVE  Unsignaled'
  BY <1>12 DEF NotListed
<1>13. ASSUME NEW a \in Agents, NEW c \in Waiters, PickUp(a, c), UNCHANGED <<value, got>>
     PROVE  Unsignaled'
  BY <1>13 DEF PickUp
<1>14. ASSUME NEW a \in Agents, AwaitReady(a), UNCHANGED <<value, got>>
     PROVE  Unsignaled'
  BY <1>14 DEF AwaitReady
<1>15. ASSUME NEW a \in Agents, AwaitSuspendCancelled(a), UNCHANGED <<value, got>>
     PROVE  Unsignaled'
  BY <1>15 DEF AwaitSuspendCancelled
<1>16. ASSUME NEW a \in Agents, AwaitSuspend(a), UNCHANGED <<value, got>>
     PROVE  Unsignaled'
  BY <1>16 DEF AwaitSuspend
<1>17. ASSUME NEW a \in Agents, Pause(a), UNCHANGED <<value, got>>
     PROVE  Unsignaled'
  BY <1>17 DEF Pause
<1>18. ASSUME NEW a \in Agents, Remove(a), UNCHANGED <<value, got>>
     PROVE  Unsignaled'
  BY <1>18 DEF Remove
<1>s. ASSUME NEW a \in Agents, RemoveSearch(a), UNCHANGED <<value, got>>
     PROVE  Unsignaled'
  BY <1>s DEF RemoveSearch
<1>19. ASSUME NEW a \in Agents, RemoveTake(a), UNCHANGED <<value, got>>
     PROVE  Unsignaled'
  BY <1>19 DEF RemoveTake
<1>20. ASSUME NEW a \in Agents, RemoveFound(a), UNCHANGED <<value, got>>
     PROVE  Unsignaled'
  BY <1>20 DEF RemoveFound
<1>21. ASSUME NEW a \in Agents, RemovePutBack(a), UNCHANGED <<value, got>>
     PROVE  Unsignaled'
  BY <1>21 DEF RemovePutBack
<1>22. ASSUME NEW a \in Agents, ResumeLate(a), UNCHANGED <<value, got>>
     PROVE  Unsignaled'
  BY <1>22 DEF ResumeLate
<1>23. ASSUME NEW a \in Agents, Removed(a), UNCHANGED <<value, got>>
     PROVE  Unsignaled'
  BY <1>23 DEF Removed
<1>24. ASSUME NEW a \in Agents, CancelWaiters(a), UNCHANGED <<value, got>>
     PROVE  Unsignaled'
  <2>1. CASE waitQueue = <<>>
    BY <1>24, <2>1 DEF CancelWaiters
  <2>2. CASE waitQueue # <<>>
    <3>1. PICK c : c = Head(waitQueue)
      OBVIOUS
    <3>2. /\ cancelled' = [cancelled EXCEPT ![c] = TRUE]
          /\ scheduled' = [scheduled EXCEPT ![c] = @ + 1]
          /\ UNCHANGED <<count, pc, self, point>>
      BY <1>24, <2>2, <3>1 DEF CancelWaiters
    <3>3. \A w \in Waiters :
              /\ cancelled[w] => cancelled'[w]
              /\ ~cancelled'[w] => scheduled'[w] = scheduled[w]
      BY <3>2
    <3>4. \A b \in Agents : Cancelled(b) => Cancelled(b)'
      BY <3>2, <3>3
    <3> QED
      BY <3>2, <3>3, <3>4
  <2> QED
    BY <2>1, <2>2
<1>25. ASSUME NEW a \in Agents, AwaitScope(a), UNCHANGED <<value, got>>
     PROVE  Unsignaled'
  BY <1>25 DEF AwaitScope
<1>26. ASSUME NEW a \in Agents, SuspendSignaled(a)
     PROVE  Unsignaled'
  BY <1>26 DEF SuspendSignaled
<1>27. ASSUME NEW a \in Agents, TakeValue(a)
     PROVE  Unsignaled'
  BY <1>27 DEF TakeValue, Resume
<1>28. ASSUME NEW a \in Agents, Set(a)
     PROVE  Unsignaled'
  BY UnsetAssumption, <1>28 DEF Set
<1>29. ASSUME NEW a \in Agents, SignalValue(a)
     PROVE  Unsignaled'
  BY <1>29 DEF SignalValue
<1>30. ASSUME NEW a \in Agents, Destroy(a), UNCHANGED <<value, got>>
     PROVE  Unsignaled'
  BY <1>30 DEF Destroy
<1>31. ASSUME NEW a \in Agents, NEW c \in Waiters, Cancel(a, c), UNCHANGED <<value, got>>
     PROVE  Unsignaled'
  BY <1>31 DEF Cancel
<1> HIDE DEF Typed, Unsignaled, event, coros, agents, vars, Goto, Go, Schedule,
             CallResumeWaiting
<1> QED
  BY <1>0, <1>1, <1>2, <1>3, <1>4, <1>5, <1>6, <1>7, <1>8, <1>9, <1>10, <1>11, <1>12, <1>13,
     <1>14, <1>15, <1>16, <1>17, <1>18, <1>s, <1>19, <1>20, <1>21, <1>22, <1>23, <1>24, <1>25, <1>26,
     <1>27, <1>28, <1>29, <1>30, <1>31
     DEF ValueNext, ValueStep, ValueCall, EventStep, Step, Resume

\* A value that is set stays set, and the invariant goes on to hold.
LEMMA ValueStepInv == ValueInv /\ [ValueNext]_valueVars => ValueInv'
<1> SUFFICES ASSUME ValueInv, [ValueNext]_valueVars PROVE ValueInv'
  OBVIOUS
<1>1. Typed'
  BY TypedStep DEF ValueInv
<1>2. ASSUME value' = Unset PROVE value = Unset
  <2>1. CASE UNCHANGED value
    BY <1>2, <2>1
  <2>2. CASE \E a \in Agents : Set(a)
    BY <2>2 DEF Set
  <2> QED
    BY <2>1, <2>2
       DEF ValueNext, ValueStep, ValueCall, EventStep, SuspendSignaled, TakeValue, SignalValue,
           valueVars
<1>3. value' = Unset => Unsignaled'
  BY <1>2, UnsignaledStep DEF ValueInv
<1> QED
  BY <1>1, <1>3 DEF ValueInv

\* The invariant holds in every behaviour.
LEMMA ValueInvariant == ValueSpec => []ValueInv
<1>1. ValueInv /\ [ValueNext]_valueVars => ValueInv'
  BY ValueStepInv
<1> QED
  BY ValueInitInv, <1>1, PTL DEF ValueSpec

\* What TakeValue hands to a coroutine is never the null exception_ptr of a new
\* AsyncValue, whatever the destructor and cancel() release it from.
THEOREM ValueNeverUnset == ValueSpec => []NeverUnset
<1>1. ValueInv => NeverUnset
  BY UnsetAssumption DEF ValueInv, Typed, NeverUnset
<1> QED
  BY ValueInvariant, <1>1, PTL
=============================================================================
