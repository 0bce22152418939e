------------------------- MODULE AsyncMutexProofs --------------------------
(***************************************************************************)
(* Proofs about AsyncMutex, for any numbers of coroutines and agents and   *)
(* any bounds: every coroutine is in exactly one place, at most one is     *)
(* inside the lock, and a mutex that is destroyed when no call is under    *)
(* way has no owner and no waiter left.                                    *)
(***************************************************************************)
EXTENDS AsyncMutex, WhereaboutsLemmas, FiniteSetTheorems

Handing == {"enter", "load", "enqueue", "exchange", "pass", "compare"}
Removing == {"checkOwner", "rescueRemoved", "removed"}
InRemoved(a) == pc[a] \in Removing \/ (pc[a] \in InLocks /\ back[a] = "removed")
InCancel(a) == pc[a] \in {"pause", "search", "take", "compare"} \/ InRemoved(a)
InUnlock(a) == pc[a] \in InLocks /\ back[a] = "leave"

\* What an agent's place in the code says of its local variables.
Control ==
    /\ \A a \in Agents :
          /\ pc[a] \in InBody \/ InUnlock(a) => a \in Workers /\ self[a] \in Coroutines
          /\ pc[a] \in Handing => next[a] \in Coroutines
          /\ InCancel(a) => self[a] \in Coroutines /\ cancelled[self[a]]
          /\ found[a] => InRemoved(a)
          /\ found[a] /\ pc[a] \in Handing => next[a] # self[a]
          /\ At(a, "compare") => left[a] > 0
    /\ \A c \in Coroutines : point[c] # "done" => rounds[c] > 0

\* m_asyncScope counts the agents inside lock().
Callers == {a \in Agents : InLock(a)}
ScopeCounts == IsFiniteSet(Callers) /\ scope = Cardinality(Callers)

\* Who waits goes on in await_resume().
Awaiting ==
    /\ \A i \in 1 .. Len(waitList) : point[waitList[i]] = "await"
    /\ \A a \in Agents : /\ pc[a] \in Handing => point[next[a]] = "await"
                         /\ found[a] => point[self[a]] = "await"

\* Who is resumed owns the mutex, or learns that it was cancelled; who has left the
\* block with the lock does not own it any more.
Releasing == {"critical", "drain", "releaseCancelled", "handOver", "release", "pass"}
Released == {"drainAgain", "rescue", "leave"}
MayRun(c) == mutexCancelled \/ cancelled[c] \/ owner = c
Ownership ==
    /\ \A w \in Agents :
          /\ pc[w] \in Releasing => owner = self[w]
          /\ At(w, "resume") => MayRun(self[w])
          /\ pc[w] \in Released \/ InUnlock(w) => owner # self[w]
    /\ \A c \in Coroutines : scheduled[c] > 0 =>
          IF point[c] = "start" THEN owner # c ELSE MayRun(c)

MutexInv == TypeOK /\ Control /\ ScopeCounts /\ OnePlace /\ Awaiting /\ Ownership

\* What the destructor meets: the owner on its way out, and waiters that it cancels.
Destructing == {"closing", "awaitOwner", "assertEmpty", "awaitScope"}
OnTheWayOut == {"resume", "critical", "unlock", "drain", "releaseCancelled", "drainAgain", "leave"}
Closing ==
    /\ \A k \in Agents : pc[k] \in Destructing => mutexCancelled
    /\ \A k \in Agents : pc[k] \in Destructing \ {"closing"} => k \in Destroyers
    /\ \A k \in Destroyers : pc[k] \in Destructing =>
          /\ \A a \in Agents \ {k} : pc[a] \in OnTheWayOut \cup {"idle", "gone"}
          /\ \A w \in Agents : pc[w] \in {"drain", "releaseCancelled", "drainAgain", "leave"}
                                 => cancelled[self[w]]
          /\ \A c \in Coroutines : scheduled[c] > 0 => point[c] # "start"
          /\ pc[k] # "closing" => waitList = <<>>
          /\ At(k, "assertEmpty") => owner = NULL

-----------------------------------------------------------------------------
(* What OnePlace says of a coroutine in one of its places *)

Holders == {"runs", "hand"} \X Agents

LEMMA CoroutineValues ==
    ASSUME TypeOK PROVE Values(Coroutines, Holders, scheduled, waitList, Hands)
BY DEF TypeOK, Values, Hands, Holders

\* A coroutine that somebody has is not in another place.
LEMMA HeldAlone ==
    ASSUME TypeOK, OnePlace, NEW h \in Holders, NEW c \in Coroutines, Holds(h, c)
    PROVE  /\ c \in Live /\ scheduled[c] = 0 /\ ~Queued(waitList, c)
           /\ \A g \in Holders : Holds(g, c) => g = h
<1>1. Placed(Coroutines, Live, scheduled, waitList, Hands)
  BY CoroutineValues, PlacedIsInOnePlace DEF OnePlace
<1>2. <<h, c>> \in Hands /\ Held(Hands, c)
  BY DEF Hands, Held, Holders
<1>3. ASSUME NEW g \in Holders, Holds(g, c) PROVE g = h
  <2>1. <<g, c>> \in Hands
    BY <1>3 DEF Hands, Holders
  <2>2. <<g, c>>[1] = <<h, c>>[1]
    BY <1>1, <1>2, <2>1 DEF Placed
  <2> QED BY <2>2
<1> QED BY <1>1, <1>2, <1>3 DEF Placed

\* The one that an agent runs is run by no other, and in nobody's hand.
LEMMA RunsAlone ==
    ASSUME TypeOK, OnePlace, NEW a \in Agents, NEW c \in Coroutines, Runs(a, c)
    PROVE  /\ c \in Live /\ scheduled[c] = 0 /\ ~Queued(waitList, c)
           /\ \A b \in Agents : ~InHand(b, c) /\ (Runs(b, c) => b = a)
<1>1. <<"runs", a>> \in Holders /\ Holds(<<"runs", a>>, c)
  BY DEF Holders, Holds
<1>2. ASSUME NEW b \in Agents PROVE ~InHand(b, c) /\ (Runs(b, c) => b = a)
  <2>1. <<"runs", b>> \in Holders /\ <<"hand", b>> \in Holders
    BY DEF Holders
  <2>2. Runs(b, c) => <<"runs", b>> = <<"runs", a>>
    BY <1>1, <2>1, HeldAlone DEF Holds
  <2>3. InHand(b, c) => <<"hand", b>> = <<"runs", a>>
    BY <1>1, <2>1, HeldAlone DEF Holds
  <2> QED BY <2>2, <2>3
<1> QED BY <1>1, <1>2, HeldAlone

\* Nor is the one in an agent's hand run by anybody, or in another hand.
LEMMA InHandAlone ==
    ASSUME TypeOK, OnePlace, NEW a \in Agents, NEW c \in Coroutines, InHand(a, c)
    PROVE  /\ c \in Live /\ scheduled[c] = 0 /\ ~Queued(waitList, c)
           /\ \A b \in Agents : ~Runs(b, c) /\ (InHand(b, c) => b = a)
<1>1. <<"hand", a>> \in Holders /\ Holds(<<"hand", a>>, c)
  BY DEF Holders, Holds
<1>2. ASSUME NEW b \in Agents PROVE ~Runs(b, c) /\ (InHand(b, c) => b = a)
  <2>1. <<"runs", b>> \in Holders /\ <<"hand", b>> \in Holders
    BY DEF Holders
  <2>2. Runs(b, c) => <<"runs", b>> = <<"hand", a>>
    BY <1>1, <2>1, HeldAlone DEF Holds
  <2>3. InHand(b, c) => <<"hand", b>> = <<"hand", a>>
    BY <1>1, <2>1, HeldAlone DEF Holds
  <2> QED BY <2>2, <2>3
<1> QED BY <1>1, <1>2, HeldAlone

\* The first in the wait list is in nobody's hands.
LEMMA FirstAlone ==
    ASSUME TypeOK, OnePlace, waitList # <<>>
    PROVE  /\ Head(waitList) \in Coroutines /\ Tail(waitList) \in Seq(Coroutines)
           /\ Head(waitList) \in Live /\ scheduled[Head(waitList)] = 0
           /\ \A b \in Agents : ~Runs(b, Head(waitList)) /\ ~InHand(b, Head(waitList))
<1>1. Placed(Coroutines, Live, scheduled, waitList, Hands)
  BY CoroutineValues, PlacedIsInOnePlace DEF OnePlace
<1>2. PICK c \in Coroutines : /\ c = Head(waitList) /\ Queued(waitList, c)
                              /\ Tail(waitList) \in Seq(Coroutines)
  BY <1>1, QueueDrops DEF Placed, TypeOK
<1>3. c \in Live /\ scheduled[c] = 0
  BY <1>1, <1>2 DEF Placed
<1>4. \A b \in Agents : ~Runs(b, c) /\ ~InHand(b, c)
  BY <1>2, RunsAlone, InHandAlone
<1> QED BY <1>2, <1>3, <1>4

\* A scheduled one is not either.
LEMMA ReadyAlone ==
    ASSUME TypeOK, OnePlace, NEW c \in Coroutines, scheduled[c] > 0
    PROVE  /\ c \in Live /\ scheduled[c] = 1 /\ ~Queued(waitList, c)
           /\ \A b \in Agents : ~Runs(b, c) /\ ~InHand(b, c)
<1>1. Placed(Coroutines, Live, scheduled, waitList, Hands)
  BY CoroutineValues, PlacedIsInOnePlace DEF OnePlace
<1>2. c \in Live /\ scheduled[c] = 1 /\ ~Queued(waitList, c)
  BY <1>1 DEF Placed
<1>3. \A b \in Agents : ~Runs(b, c) /\ ~InHand(b, c)
  BY <1>2, RunsAlone, InHandAlone
<1> QED BY <1>2, <1>3

\* One more time in the ready queues.
LEMMA CountsOneMore ==
    ASSUME NEW S, NEW f \in [S -> Nat], NEW c PROVE [f EXCEPT ![c] = @ + 1] \in [S -> Nat]
<1>1. \A d \in S : [f EXCEPT ![c] = @ + 1][d] = IF d = c THEN f[d] + 1 ELSE f[d]
  OBVIOUS
<1>2. \A d \in S : f[d] \in Nat /\ f[d] + 1 \in Nat
  OBVIOUS
<1>3. [f EXCEPT ![c] = @ + 1] = [d \in S |-> [f EXCEPT ![c] = @ + 1][d]]
  OBVIOUS
<1> QED BY <1>1, <1>2, <1>3

-----------------------------------------------------------------------------
(* The first state *)

LEMMA MutexInit == Init => MutexInv /\ Closing
<1> SUFFICES ASSUME Init PROVE MutexInv /\ Closing
  OBVIOUS
<1> PICK s \in Sessions :
        /\ point = [c \in Coroutines |-> IF c \in s.party THEN "start" ELSE "done"]
        /\ scheduled = [c \in Coroutines |-> IF c \in s.party THEN 1 ELSE 0]
        /\ pc = [a \in Agents |-> IF a \in s.cast THEN "idle" ELSE "gone"]
  BY DEF Init
<1> USE NullAssumption, RoundsAssumption DEF Init
<1>0. \A a \in Agents : pc[a] \in {"idle", "gone"}
  OBVIOUS
<1>1. TypeOK
  <2>1. pc \in [Agents -> InBody \cup InLocks \cup Others]
    BY DEF InBody, InLocks, Others
  <2>2. owner \in Coroutines \cup {NULL} /\ waitList \in Seq(Coroutines) /\ scope \in Nat
    OBVIOUS
  <2>3. /\ point \in [Coroutines -> {"start", "await", "done"}]
        /\ scheduled \in [Coroutines -> Nat] /\ rounds \in [Coroutines -> 0 .. Rounds]
    OBVIOUS
  <2> QED BY <2>1, <2>2, <2>3 DEF TypeOK
<1>2. Control
  BY <1>0 DEF Control, InCancel, InRemoved, Removing, Handing, InUnlock, InLocks, InBody, At
<1>3. ScopeCounts
  <2>1. Callers = {}
    BY <1>0 DEF Callers, InLock
  <2> QED BY <2>1, FS_EmptySet DEF ScopeCounts
<1>4. OnePlace
  <2>1. Hands = {}
    BY <1>0 DEF Hands, Holds, Runs, InHand, InBody, InLocks
  <2>2. \A c \in Coroutines : ~Queued(waitList, c) /\ ~Held(Hands, c)
    BY <2>1 DEF Queued, Held
  <2>3. \A c \in Coroutines : c \in Live <=> scheduled[c] = 1
    BY DEF Live
  <2>4. Placed(Coroutines, Live, scheduled, waitList, Hands)
    BY <2>1, <2>2, <2>3 DEF Placed
  <2> QED BY <1>1, <2>4, CoroutineValues, PlacedIsInOnePlace DEF OnePlace
<1>7. Awaiting
  BY <1>0 DEF Awaiting, Handing
<1>5. Ownership
  BY <1>0 DEF Ownership, Releasing, Released, InUnlock, InLocks, At
<1>6. Closing
  BY <1>0 DEF Closing, Destructing, Agents
<1> QED BY <1>1, <1>2, <1>3, <1>4, <1>5, <1>6, <1>7 DEF MutexInv

-----------------------------------------------------------------------------
(* Types, and what the agents know *)

LEMMA DrainTurnType ==
    ASSUME MutexInv, NEW a \in Agents, NEW to \in InBody \cup Others, DrainTurn(a, to)
    PROVE  TypeOK'
<1>a. TypeOK
  BY DEF MutexInv
<1> USE <1>a DEF TypeOK, mutex, coros, agents, Goto, Schedule, MarkCancelled
<1>1. CASE waitList = <<>>
  <2>1. pc' \in [Agents -> InBody \cup InLocks \cup Others]
    BY <1>1 DEF DrainTurn
  <2>2. UNCHANGED <<mutex, coros, agents>>
    BY <1>1 DEF DrainTurn
  <2> QED BY <2>1, <2>2
<1>2. CASE waitList # <<>>
  <2>1. PICK c \in Coroutines : c = Head(waitList) /\ Tail(waitList) \in Seq(Coroutines)
    BY <1>2, FirstAlone DEF MutexInv
  <2>2. /\ cancelled' = [cancelled EXCEPT ![c] = TRUE]
        /\ scheduled' = [scheduled EXCEPT ![c] = @ + 1]
        /\ waitList' = Tail(waitList)
        /\ UNCHANGED <<pc, owner, scope, mutexCancelled, destroyed, point, rounds, blocked,
                       pausing, agents>>
    BY <1>2, <2>1 DEF DrainTurn
  <2>3. scheduled' \in [Coroutines -> Nat] /\ cancelled' \in [Coroutines -> BOOLEAN]
    BY <2>2, CountsOneMore
  <2> QED BY <2>1, <2>2, <2>3
<1> QED BY <1>1, <1>2

\* A search of the wait list has a length, whatever m_count says at that moment.
LEMMA SearchEnds == \A n \in ListCounts : (2 * n) % CountRange \in Nat
<1>1. CountRange \in Int /\ CountRange > 0
  BY RangeAssumption
<1>2. \A i \in Int : i % CountRange \in Nat
  BY <1>1
<1>3. \A n \in ListCounts : n \in Int
  BY <1>1 DEF ListCounts
<1> QED BY <1>2, <1>3

\* Every step keeps the types: rounds does not fall below zero, nor left, nor scope.
LEMMA MutexTypeStep == ASSUME MutexInv, [Next]_vars PROVE TypeOK'
<1>a. TypeOK
  BY DEF MutexInv
<1>b. \A a \in Agents : /\ pc[a] \in InBody => a \in Workers /\ self[a] \in Coroutines
                        /\ pc[a] \in Handing => next[a] \in Coroutines
                        /\ pc[a] = "compare" => left[a] > 0
  BY DEF MutexInv, Control, At
<1> USE <1>a, <1>b, NullAssumption, RoundsAssumption
       DEF TypeOK, mutex, coros, agents, At, Goto, Go, Schedule, MarkCancelled, CallLock,
           DequeueNext, InBody, InLocks, Others, Handing
<1>0. CASE UNCHANGED vars
  BY <1>0 DEF vars
<1>1. ASSUME NEW a \in Agents, LockEnter(a) PROVE TypeOK'
  BY <1>1 DEF LockEnter
<1>2. ASSUME NEW a \in Agents, LockLoad(a) PROVE TypeOK'
  BY <1>2 DEF LockLoad
<1>3. ASSUME NEW a \in Agents, LockEnqueue(a) PROVE TypeOK'
  <2>1. pc' \in [Agents -> InBody \cup InLocks \cup Others]
    BY <1>3, <1>b DEF LockEnqueue
  <2>2. waitList' \in Seq(Coroutines)
    BY <1>3, <1>b DEF LockEnqueue
  <2>3. UNCHANGED <<owner, scope, mutexCancelled, destroyed, coros, agents>>
    BY <1>3, <1>b DEF LockEnqueue
  <2> QED BY <2>1, <2>2, <2>3
<1>4. ASSUME NEW a \in Agents, LockRecheck(a) PROVE TypeOK'
  BY <1>4 DEF LockRecheck
<1>5. ASSUME NEW a \in Agents, LockDequeue(a) PROVE TypeOK'
  <2>1. CASE waitList = <<>>
    <3>1. pc' \in [Agents -> InBody \cup InLocks \cup Others]
      BY <1>5, <2>1 DEF LockDequeue
    <3>2. UNCHANGED <<waitList, next, owner, scope, mutexCancelled, destroyed, coros, self,
                      back, left, found>>
      BY <1>5, <2>1 DEF LockDequeue
    <3> QED BY <3>1, <3>2
  <2>2. CASE waitList # <<>>
    <3>1. PICK c \in Coroutines : c = Head(waitList) /\ Tail(waitList) \in Seq(Coroutines)
      BY <2>2, FirstAlone DEF MutexInv
    <3>2. /\ pc' = [pc EXCEPT ![a] = "exchange"] /\ next' = [next EXCEPT ![a] = c]
          /\ waitList' = Tail(waitList)
          /\ UNCHANGED <<owner, scope, mutexCancelled, destroyed, coros, self, back, left,
                         found>>
      BY <1>5, <2>2, <3>1 DEF LockDequeue
    <3>3. /\ pc' \in [Agents -> InBody \cup InLocks \cup Others]
          /\ next' \in [Agents -> Coroutines \cup {NULL}]
      BY <3>2
    <3> QED BY <3>1, <3>2, <3>3
  <2> QED BY <2>1, <2>2
<1>6. ASSUME NEW a \in Agents, LockExchange(a) PROVE TypeOK'
  <2>1. CASE owner = NULL
    <3>1. owner' = next[a] /\ scheduled' = [scheduled EXCEPT ![next[a]] = @ + 1]
      BY <1>6, <2>1 DEF LockExchange
    <3>2. scheduled' \in [Coroutines -> Nat]
      BY <3>1, CountsOneMore
    <3>3. /\ pc' \in [Agents -> InBody \cup InLocks \cup Others]
          /\ UNCHANGED <<waitList, scope, mutexCancelled, destroyed, point, rounds,
                        cancelled, blocked, pausing, agents>>
      BY <1>6, <2>1 DEF LockExchange
    <3> QED BY <3>1, <3>2, <3>3
  <2>2. CASE owner # NULL
    <3>1. pc' \in [Agents -> InBody \cup InLocks \cup Others]
      BY <1>6, <2>2 DEF LockExchange
    <3>2. UNCHANGED <<mutex, coros, agents>>
      BY <1>6, <2>2 DEF LockExchange
    <3> QED BY <3>1, <3>2
  <2> QED BY <2>1, <2>2
<1>7. ASSUME NEW a \in Agents, LockExit(a) PROVE TypeOK'
  <2>1. scope' \in Nat
    <3>1. a \in Callers
      BY <1>7 DEF LockExit, Callers, InLock
    <3>2. scope > 0
      BY <3>1, FS_EmptySet DEF MutexInv, ScopeCounts
    <3> QED BY <1>7, <3>2 DEF LockExit
  <2>2. pc' \in [Agents -> InBody \cup InLocks \cup Others]
    BY <1>7 DEF LockExit
  <2>3. UNCHANGED <<owner, waitList, mutexCancelled, destroyed, coros, agents>>
    BY <1>7 DEF LockExit
  <2> QED BY <2>1, <2>2, <2>3
<1>8. ASSUME NEW a \in Agents, Rescue(a) PROVE TypeOK'
  <2>0. PICK to \in {"leave", "removed"} : back' = [back EXCEPT ![a] = to]
                                         /\ DequeueNext(a, "enter", to)
    BY <1>8 DEF Rescue
  <2>a. back' \in [Agents -> {"idle", "leave", "removed"}]
    BY <2>0
  <2>b. UNCHANGED <<owner, scope, mutexCancelled, destroyed, coros, self, left, found>>
    BY <1>8 DEF Rescue
  <2>1. CASE waitList = <<>>
    <3>1. pc' \in [Agents -> InBody \cup InLocks \cup Others]
      BY <2>0, <2>1 DEF DequeueNext
    <3>2. UNCHANGED <<waitList, next>>
      BY <2>0, <2>1 DEF DequeueNext
    <3> QED BY <2>a, <2>b, <3>1, <3>2
  <2>2. CASE waitList # <<>>
    <3>1. PICK c \in Coroutines : c = Head(waitList) /\ Tail(waitList) \in Seq(Coroutines)
      BY <2>2, FirstAlone DEF MutexInv
    <3>2. /\ pc' = [pc EXCEPT ![a] = "enter"] /\ next' = [next EXCEPT ![a] = c]
          /\ waitList' = Tail(waitList)
      BY <2>0, <2>2, <3>1 DEF DequeueNext
    <3>3. /\ pc' \in [Agents -> InBody \cup InLocks \cup Others]
          /\ next' \in [Agents -> Coroutines \cup {NULL}]
      BY <3>2
    <3> QED BY <2>a, <2>b, <3>1, <3>2, <3>3
  <2> QED BY <2>1, <2>2
<1>9. ASSUME NEW a \in Agents, NEW c \in Coroutines, PickUp(a, c) PROVE TypeOK'
  <2>1. pc' \in [Agents -> InBody \cup InLocks \cup Others]
    BY <1>9, <1>b DEF PickUp
  <2>2. scheduled' \in [Coroutines -> Nat]
    BY <1>9, <1>b DEF PickUp
  <2>3. self' \in [Agents -> Coroutines \cup {NULL}]
    BY <1>9, <1>b DEF PickUp
  <2>4. UNCHANGED <<mutex, point, rounds, cancelled, blocked, pausing, next, back, left, found>>
    BY <1>9, <1>b DEF PickUp
  <2> QED BY <2>1, <2>2, <2>3, <2>4
<1>10. ASSUME NEW a \in Agents, AwaitReady(a) PROVE TypeOK'
  BY <1>10 DEF AwaitReady
<1>11. ASSUME NEW a \in Agents, TryLock(a) PROVE TypeOK'
  BY <1>11 DEF TryLock
<1>12. ASSUME NEW a \in Agents, AwaitSuspendCancelled(a) PROVE TypeOK'
  <2>1. UNCHANGED <<mutex, rounds, blocked, pausing, agents>>
    BY <1>12 DEF AwaitSuspendCancelled
  <2>2. pc' \in [Agents -> InBody \cup InLocks \cup Others]
    BY <1>12 DEF AwaitSuspendCancelled
  <2>3. cancelled' \in [Coroutines -> BOOLEAN]
    BY <1>12 DEF AwaitSuspendCancelled
  <2>4. point' \in [Coroutines -> {"start", "await", "done"}]
    BY <1>12 DEF AwaitSuspendCancelled
  <2>5. scheduled' = scheduled \/ scheduled' = [scheduled EXCEPT ![self[a]] = @ + 1]
    BY <1>12 DEF AwaitSuspendCancelled
  <2>6. scheduled' \in [Coroutines -> Nat]
    <3>1. [scheduled EXCEPT ![self[a]] = @ + 1] \in [Coroutines -> Nat]
      BY CountsOneMore
    <3> QED BY <2>5, <3>1
  <2> QED BY <2>1, <2>2, <2>3, <2>4, <2>6
<1>13. ASSUME NEW a \in Agents, AwaitSuspend(a) PROVE TypeOK'
  <2>1. pc' \in [Agents -> InBody \cup InLocks \cup Others]
    BY <1>13, <1>b DEF AwaitSuspend
  <2>2. next' \in [Agents -> Coroutines \cup {NULL}]
    BY <1>13, <1>b DEF AwaitSuspend
  <2>3. back' \in [Agents -> {"idle", "leave", "removed"}]
    BY <1>13, <1>b DEF AwaitSuspend
  <2>4. point' \in [Coroutines -> {"start", "await", "done"}]
    BY <1>13, <1>b DEF AwaitSuspend
  <2>5. blocked' \in [Coroutines -> BOOLEAN]
    BY <1>13, <1>b DEF AwaitSuspend
  <2>6. UNCHANGED <<mutex, rounds, scheduled, cancelled, pausing, self, left, found>>
    BY <1>13, <1>b DEF AwaitSuspend
  <2> QED BY <2>1, <2>2, <2>3, <2>4, <2>5, <2>6
<1>14. ASSUME NEW a \in Agents, Resume(a) PROVE TypeOK'
  <2>1. pc' \in [Agents -> InBody \cup InLocks \cup Others]
    BY <1>14, <1>b DEF Resume
  <2>2. cancelled' \in [Coroutines -> BOOLEAN]
    BY <1>14, <1>b DEF Resume
  <2>3. blocked' \in [Coroutines -> BOOLEAN]
    BY <1>14, <1>b DEF Resume
  <2>4. UNCHANGED <<mutex, point, rounds, scheduled, pausing, agents>>
    BY <1>14, <1>b DEF Resume
  <2> QED BY <2>1, <2>2, <2>3, <2>4
<1>15. ASSUME NEW a \in Agents, Critical(a) PROVE TypeOK'
  BY <1>15 DEF Critical
<1>16. ASSUME NEW a \in Agents, Leave(a) PROVE TypeOK'
  <2>1. self[a] \in Coroutines /\ Runs(a, self[a])
    BY <1>16, <1>b DEF Leave, Runs, InBody
  <2>2. rounds[self[a]] > 0
    BY <2>1, RunsAlone DEF MutexInv, Control, Live
  <2>3. rounds' \in [Coroutines -> 0 .. Rounds]
    BY <1>16, <2>1, <2>2 DEF Leave
  <2>4. pc' \in [Agents -> InBody \cup InLocks \cup Others]
    BY <1>16 DEF Leave
  <2>5. point' \in [Coroutines -> {"start", "await", "done"}]
    BY <1>16 DEF Leave
  <2>6. UNCHANGED <<mutex, scheduled, cancelled, blocked, pausing, agents>>
    BY <1>16 DEF Leave
  <2> QED BY <2>3, <2>4, <2>5, <2>6
<1>17. ASSUME NEW a \in Agents, Unlock(a) PROVE TypeOK'
  <2>1. pc' \in [Agents -> InBody \cup InLocks \cup Others]
    BY <1>17, <1>b DEF Unlock
  <2>2. cancelled' \in [Coroutines -> BOOLEAN]
    BY <1>17, <1>b DEF Unlock
  <2>3. UNCHANGED <<mutex, point, rounds, scheduled, blocked, pausing, agents>>
    BY <1>17, <1>b DEF Unlock
  <2> QED BY <2>1, <2>2, <2>3
<1>18. ASSUME NEW a \in Agents, UnlockDrain(a) PROVE TypeOK'
  BY <1>18, DrainTurnType DEF UnlockDrain, InBody
<1>19. ASSUME NEW a \in Agents, UnlockDrainAgain(a) PROVE TypeOK'
  BY <1>19, DrainTurnType DEF UnlockDrainAgain, InBody
<1>20. ASSUME NEW a \in Agents, ClearOwner(a) PROVE TypeOK'
  BY <1>20 DEF ClearOwner
<1>21. ASSUME NEW a \in Agents, HandOver(a) PROVE TypeOK'
  <2>1. CASE waitList = <<>>
    <3>1. pc' \in [Agents -> InBody \cup InLocks \cup Others]
      BY <1>21, <2>1 DEF HandOver
    <3>2. UNCHANGED <<waitList, next, owner, scope, mutexCancelled, destroyed, coros, self,
                      back, left, found>>
      BY <1>21, <2>1 DEF HandOver
    <3> QED BY <3>1, <3>2
  <2>2. CASE waitList # <<>>
    <3>1. PICK c \in Coroutines : c = Head(waitList) /\ Tail(waitList) \in Seq(Coroutines)
      BY <2>2, FirstAlone DEF MutexInv
    <3>2. /\ pc' = [pc EXCEPT ![a] = "pass"] /\ next' = [next EXCEPT ![a] = c]
          /\ waitList' = Tail(waitList)
          /\ UNCHANGED <<owner, scope, mutexCancelled, destroyed, coros, self, back, left,
                         found>>
      BY <1>21, <2>2, <3>1 DEF HandOver
    <3>3. /\ pc' \in [Agents -> InBody \cup InLocks \cup Others]
          /\ next' \in [Agents -> Coroutines \cup {NULL}]
      BY <3>2
    <3> QED BY <3>1, <3>2, <3>3
  <2> QED BY <2>1, <2>2
<1>22. ASSUME NEW a \in Agents, Pass(a) PROVE TypeOK'
  <2>1. owner' = next[a] /\ scheduled' = [scheduled EXCEPT ![next[a]] = @ + 1]
    BY <1>22 DEF Pass
  <2>2. scheduled' \in [Coroutines -> Nat]
    BY <2>1, CountsOneMore
  <2>3. pc' \in [Agents -> InBody \cup InLocks \cup Others]
    BY <1>22 DEF Pass
  <2>4. UNCHANGED <<waitList, scope, mutexCancelled, destroyed, point, rounds, cancelled,
                   blocked, pausing, agents>>
    BY <1>22 DEF Pass
  <2> QED BY <2>1, <2>2, <2>3, <2>4
<1>23. ASSUME NEW a \in Agents, Pause(a) PROVE TypeOK'
  <2>1. pc' \in [Agents -> InBody \cup InLocks \cup Others]
    BY <1>23, <1>b DEF Pause
  <2>2. pausing' \in [Coroutines -> BOOLEAN]
    BY <1>23, <1>b DEF Pause
  <2>3. UNCHANGED <<mutex, point, rounds, scheduled, cancelled, blocked, agents>>
    BY <1>23, <1>b DEF Pause
  <2> QED BY <2>1, <2>2, <2>3
<1>s. ASSUME NEW a \in Agents, RemoveSearch(a) PROVE TypeOK'
  <2>1. PICK n \in ListCounts : left' = [left EXCEPT ![a] = (2 * n) % CountRange]
    BY <1>s DEF RemoveSearch
  <2>2. left' \in [Agents -> Nat]
    BY <2>1, SearchEnds
  <2>3. pc' \in [Agents -> InBody \cup InLocks \cup Others]
    BY <1>s DEF RemoveSearch
  <2>4. UNCHANGED <<mutex, coros, self, next, back, found>>
    BY <1>s DEF RemoveSearch
  <2> QED BY <2>2, <2>3, <2>4
<1>24. ASSUME NEW a \in Agents, RemoveTake(a) PROVE TypeOK'
  <2>1. CASE waitList = <<>>
    <3>1. pc' \in [Agents -> InBody \cup InLocks \cup Others]
      BY <1>24, <2>1 DEF RemoveTake
    <3>2. /\ left' = [left EXCEPT ![a] = 0]
          /\ UNCHANGED <<waitList, next, owner, scope, mutexCancelled, destroyed, coros, self,
                         back, found>>
      BY <1>24, <2>1 DEF RemoveTake
    <3>3. left' \in [Agents -> Nat]
      BY <3>2
    <3> QED BY <3>1, <3>2, <3>3
  <2>2. CASE waitList # <<>>
    <3>1. PICK c \in Coroutines : c = Head(waitList) /\ Tail(waitList) \in Seq(Coroutines)
      BY <2>2, FirstAlone DEF MutexInv
    <3>2. /\ pc' = [pc EXCEPT ![a] = "compare"] /\ next' = [next EXCEPT ![a] = c]
          /\ waitList' = Tail(waitList)
          /\ UNCHANGED <<owner, scope, mutexCancelled, destroyed, coros, self, back, left,
                         found>>
      BY <1>24, <2>2, <3>1 DEF RemoveTake
    <3>3. /\ pc' \in [Agents -> InBody \cup InLocks \cup Others]
          /\ next' \in [Agents -> Coroutines \cup {NULL}]
      BY <3>2
    <3> QED BY <3>1, <3>2, <3>3
  <2> QED BY <2>1, <2>2
<1>25. ASSUME NEW a \in Agents, RemoveGiveUp(a) PROVE TypeOK'
  BY <1>25 DEF RemoveGiveUp
<1>26. ASSUME NEW a \in Agents, RemoveFound(a) PROVE TypeOK'
  BY <1>26 DEF RemoveFound
<1>27. ASSUME NEW a \in Agents, RemovePutBack(a) PROVE TypeOK'
  <2>1. pc' \in [Agents -> InBody \cup InLocks \cup Others]
    BY <1>27 DEF RemovePutBack
  <2>2. waitList' \in Seq(Coroutines)
    BY <1>27, <1>b DEF RemovePutBack
  <2>3. left[a] > 0 /\ left' = [left EXCEPT ![a] = @ - 1]
    BY <1>27, <1>b DEF RemovePutBack
  <2>4. left' \in [Agents -> Nat]
    BY <2>3
  <2>5. UNCHANGED <<owner, scope, mutexCancelled, destroyed, coros, self, next, back, found>>
    BY <1>27 DEF RemovePutBack
  <2> QED BY <2>1, <2>2, <2>4, <2>5
<1>28. ASSUME NEW a \in Agents, RemoveCheckOwner(a) PROVE TypeOK'
  BY <1>28 DEF RemoveCheckOwner
<1>29. ASSUME NEW a \in Agents, Removed(a) PROVE TypeOK'
  <2>1. UNCHANGED <<mutex, point, rounds, cancelled, blocked, self, next, back, left>>
    BY <1>29 DEF Removed
  <2>2. pc' \in [Agents -> InBody \cup InLocks \cup Others]
    BY <1>29 DEF Removed
  <2>3. pausing' \in [Coroutines -> BOOLEAN] /\ found' \in [Agents -> BOOLEAN]
    BY <1>29 DEF Removed
  <2>4. scheduled' \in [Coroutines -> Nat]
    <3>1. UNCHANGED scheduled \/ scheduled' = [scheduled EXCEPT ![self[a]] = @ + 1]
      BY <1>29 DEF Removed
    <3>2. [scheduled EXCEPT ![self[a]] = @ + 1] \in [Coroutines -> Nat]
      BY CountsOneMore
    <3> QED BY <3>1, <3>2
  <2> QED BY <2>1, <2>2, <2>3, <2>4
<1>30. ASSUME NEW a \in Agents, CloseDrain(a) PROVE TypeOK'
  <2>1. CASE a \in Destroyers
    BY <1>30, <2>1, DrainTurnType DEF CloseDrain, Others
  <2>2. CASE a \notin Destroyers
    BY <1>30, <2>2, DrainTurnType DEF CloseDrain, Others
  <2> QED BY <2>1, <2>2
<1>31. ASSUME NEW a \in Agents, AwaitOwner(a) PROVE TypeOK'
  BY <1>31 DEF AwaitOwner
<1>32. ASSUME NEW a \in Agents, AssertEmpty(a) PROVE TypeOK'
  BY <1>32 DEF AssertEmpty
<1>33. ASSUME NEW a \in Agents, AwaitScope(a) PROVE TypeOK'
  <2>1. pc' \in [Agents -> InBody \cup InLocks \cup Others]
    BY <1>33, <1>b DEF AwaitScope
  <2>2. destroyed' = TRUE
    BY <1>33, <1>b DEF AwaitScope
  <2>3. UNCHANGED <<owner, waitList, scope, mutexCancelled, coros, agents>>
    BY <1>33, <1>b DEF AwaitScope
  <2> QED BY <2>1, <2>2, <2>3
<1>34. ASSUME NEW a \in Agents, Close(a) PROVE TypeOK'
  <2>1. pc' \in [Agents -> InBody \cup InLocks \cup Others]
    BY <1>34, <1>b DEF Close
  <2>2. mutexCancelled' = TRUE
    BY <1>34, <1>b DEF Close
  <2>3. UNCHANGED <<owner, waitList, scope, destroyed, coros, agents>>
    BY <1>34, <1>b DEF Close
  <2> QED BY <2>1, <2>2, <2>3
<1>35. ASSUME NEW a \in Agents, NEW c \in Coroutines, Cancel(a, c) PROVE TypeOK'
  <2>1. pc' \in [Agents -> InBody \cup InLocks \cup Others]
    BY <1>35, <1>b DEF Cancel
  <2>2. cancelled' \in [Coroutines -> BOOLEAN]
    BY <1>35, <1>b DEF Cancel
  <2>3. self' \in [Agents -> Coroutines \cup {NULL}]
    BY <1>35, <1>b DEF Cancel
  <2>4. UNCHANGED <<mutex, point, rounds, scheduled, blocked, pausing, next, back, left, found>>
    BY <1>35, <1>b DEF Cancel
  <2> QED BY <2>1, <2>2, <2>3, <2>4
<1> HIDE DEF TypeOK, mutex, coros, agents, At, Goto, Go, Schedule, MarkCancelled, CallLock,
             DequeueNext, InBody, InLocks, Others, Handing
<1> QED
  BY <1>0, <1>1, <1>2, <1>3, <1>4, <1>5, <1>6, <1>7, <1>8, <1>9, <1>10, <1>11, <1>12, <1>13,
     <1>14, <1>15, <1>16, <1>17, <1>18, <1>19, <1>20, <1>21, <1>22, <1>23, <1>s, <1>24, <1>25,
     <1>26, <1>27, <1>28, <1>29, <1>30, <1>31, <1>32, <1>33, <1>34, <1>35
     DEF Next, Call, Step, LockStep, WorkerStep, CancelStep

\* Every step keeps what the agents know of their variables.
LEMMA MutexControlStep == ASSUME MutexInv, [Next]_vars PROVE Control'
<1>a. Control
  BY DEF MutexInv
<1>b. /\ pc \in [Agents -> InBody \cup InLocks \cup Others]
      /\ self \in [Agents -> Coroutines \cup {NULL}]
      /\ next \in [Agents -> Coroutines \cup {NULL}] /\ left \in [Agents -> Nat]
      /\ back \in [Agents -> {"idle", "leave", "removed"}]
      /\ found \in [Agents -> BOOLEAN] /\ cancelled \in [Coroutines -> BOOLEAN]
      /\ point \in [Coroutines -> {"start", "await", "done"}]
      /\ rounds \in [Coroutines -> 0 .. Rounds]
  BY DEF MutexInv, TypeOK
<1> USE NullAssumption, <1>a, <1>b
       DEF Control, InCancel, InRemoved, InUnlock, Removing, Handing, InBody, InLocks, mutex,
           coros, agents, At, Goto, Go, Schedule, MarkCancelled, CallLock, DequeueNext
<1>0. CASE UNCHANGED vars
  BY <1>0 DEF vars
<1>1. ASSUME NEW a \in Agents, LockEnter(a) PROVE Control'
  BY <1>1 DEF LockEnter
<1>2. ASSUME NEW a \in Agents, LockLoad(a) PROVE Control'
  BY <1>2 DEF LockLoad
<1>3. ASSUME NEW a \in Agents, LockEnqueue(a) PROVE Control'
  BY <1>3 DEF LockEnqueue
<1>4. ASSUME NEW a \in Agents, LockRecheck(a) PROVE Control'
  BY <1>4 DEF LockRecheck
<1>5. ASSUME NEW a \in Agents, LockDequeue(a) PROVE Control'
  <2>1. CASE waitList = <<>>
    <3>1. /\ pc[a] = "dequeue" /\ pc' = [pc EXCEPT ![a] = "exit"]
          /\ UNCHANGED <<point, rounds, cancelled, self, next, back, left, found>>
      BY <1>5, <2>1 DEF LockDequeue
    <3> QED BY <3>1
  <2>2. CASE waitList # <<>>
    <3>1. PICK c \in Coroutines : c = Head(waitList) /\ ~InHand(a, c)
      BY <2>2, FirstAlone DEF MutexInv
    <3>2. /\ pc[a] = "dequeue" /\ pc' = [pc EXCEPT ![a] = "exchange"]
          /\ next' = [next EXCEPT ![a] = c]
          /\ UNCHANGED <<point, rounds, cancelled, self, back, left, found>>
      BY <1>5, <2>2, <3>1 DEF LockDequeue
    <3>3. found[a] => self[a] # c
      BY <3>1 DEF InHand
    <3> QED BY <3>2, <3>3
  <2> QED BY <2>1, <2>2
<1>6. ASSUME NEW a \in Agents, LockExchange(a) PROVE Control'
  BY <1>6 DEF LockExchange
<1>7. ASSUME NEW a \in Agents, LockExit(a) PROVE Control'
  BY <1>7 DEF LockExit
<1>8. ASSUME NEW a \in Agents, Rescue(a) PROVE Control'
  <2>0. PICK to \in {"leave", "removed"} :
          /\ to = "leave" => pc[a] = "rescue"
          /\ to = "removed" => pc[a] = "rescueRemoved"
          /\ back' = [back EXCEPT ![a] = to]
          /\ DequeueNext(a, "enter", to)
          /\ UNCHANGED <<point, rounds, cancelled, self, left, found>>
    BY <1>8 DEF Rescue
  <2>1. CASE waitList = <<>>
    <3>1. pc' = [pc EXCEPT ![a] = to] /\ UNCHANGED next
      BY <2>0, <2>1
    <3> QED BY <2>0, <3>1
  <2>2. CASE waitList # <<>>
    <3>1. PICK c \in Coroutines : c = Head(waitList) /\ ~InHand(a, c)
      BY <2>2, FirstAlone DEF MutexInv
    <3>2. pc' = [pc EXCEPT ![a] = "enter"] /\ next' = [next EXCEPT ![a] = c]
      BY <2>0, <2>2, <3>1
    <3>3. found[a] => self[a] # c
      BY <3>1 DEF InHand
    <3> QED BY <2>0, <3>2, <3>3
  <2> QED BY <2>1, <2>2
<1>9. ASSUME NEW a \in Agents, NEW c \in Coroutines, PickUp(a, c) PROVE Control'
  BY <1>9 DEF PickUp
<1>10. ASSUME NEW a \in Agents, AwaitReady(a) PROVE Control'
  BY <1>10 DEF AwaitReady
<1>11. ASSUME NEW a \in Agents, TryLock(a) PROVE Control'
  BY <1>11 DEF TryLock
<1>12. ASSUME NEW a \in Agents, AwaitSuspendCancelled(a) PROVE Control'
  <2>1. self[a] \in Coroutines /\ Runs(a, self[a])
    BY <1>12 DEF AwaitSuspendCancelled, Runs
  <2>2. rounds[self[a]] > 0
    BY <2>1, RunsAlone DEF MutexInv, Live
  <2> QED BY <1>12, <2>1, <2>2 DEF AwaitSuspendCancelled
<1>13. ASSUME NEW a \in Agents, AwaitSuspend(a) PROVE Control'
  <2>1. self[a] \in Coroutines /\ Runs(a, self[a])
    BY <1>13 DEF AwaitSuspend, Runs
  <2>2. rounds[self[a]] > 0
    BY <2>1, RunsAlone DEF MutexInv, Live
  <2> QED BY <1>13, <2>1, <2>2 DEF AwaitSuspend
<1>14. ASSUME NEW a \in Agents, Resume(a) PROVE Control'
  BY <1>14 DEF Resume
<1>15. ASSUME NEW a \in Agents, Critical(a) PROVE Control'
  BY <1>15 DEF Critical
<1>16. ASSUME NEW a \in Agents, Leave(a) PROVE Control'
  <2>1. self[a] \in Coroutines /\ Runs(a, self[a])
    BY <1>16 DEF Leave, Runs
  <2>2. rounds[self[a]] > 0
    BY <2>1, RunsAlone DEF MutexInv, Live
  <2> QED BY <1>16, <2>1, <2>2 DEF Leave
<1>17. ASSUME NEW a \in Agents, Unlock(a) PROVE Control'
  BY <1>17 DEF Unlock
<1>18. ASSUME NEW a \in Agents, UnlockDrain(a) PROVE Control'
  <2>1. CASE waitList = <<>>
    <3>1. /\ pc[a] = "drain" /\ pc' = [pc EXCEPT ![a] = "releaseCancelled"]
          /\ UNCHANGED <<point, rounds, cancelled, self, next, back, left, found>>
      BY <1>18, <2>1 DEF UnlockDrain, DrainTurn
    <3> QED BY <3>1
  <2>2. CASE waitList # <<>>
    <3>1. /\ \A c \in Coroutines : cancelled[c] => cancelled'[c]
          /\ UNCHANGED <<pc, point, rounds, self, next, back, left, found>>
      BY <1>18, <2>2 DEF UnlockDrain, DrainTurn
    <3> QED BY <3>1
  <2> QED BY <2>1, <2>2
<1>19. ASSUME NEW a \in Agents, UnlockDrainAgain(a) PROVE Control'
  <2>1. CASE waitList = <<>>
    <3>1. /\ pc[a] = "drainAgain" /\ pc' = [pc EXCEPT ![a] = "leave"]
          /\ UNCHANGED <<point, rounds, cancelled, self, next, back, left, found>>
      BY <1>19, <2>1 DEF UnlockDrainAgain, DrainTurn
    <3> QED BY <3>1
  <2>2. CASE waitList # <<>>
    <3>1. /\ \A c \in Coroutines : cancelled[c] => cancelled'[c]
          /\ UNCHANGED <<pc, point, rounds, self, next, back, left, found>>
      BY <1>19, <2>2 DEF UnlockDrainAgain, DrainTurn
    <3> QED BY <3>1
  <2> QED BY <2>1, <2>2
<1>20. ASSUME NEW a \in Agents, ClearOwner(a) PROVE Control'
  BY <1>20 DEF ClearOwner
<1>21. ASSUME NEW a \in Agents, HandOver(a) PROVE Control'
  <2>1. CASE waitList = <<>>
    <3>1. /\ pc[a] = "handOver" /\ pc' = [pc EXCEPT ![a] = "release"]
          /\ UNCHANGED <<point, rounds, cancelled, self, next, back, left, found>>
      BY <1>21, <2>1 DEF HandOver
    <3> QED BY <3>1
  <2>2. CASE waitList # <<>>
    <3>1. PICK c \in Coroutines : c = Head(waitList) /\ ~InHand(a, c)
      BY <2>2, FirstAlone DEF MutexInv
    <3>2. /\ pc[a] = "handOver" /\ pc' = [pc EXCEPT ![a] = "pass"]
          /\ next' = [next EXCEPT ![a] = c]
          /\ UNCHANGED <<point, rounds, cancelled, self, back, left, found>>
      BY <1>21, <2>2, <3>1 DEF HandOver
    <3>3. found[a] => self[a] # c
      BY <3>1 DEF InHand
    <3> QED BY <3>2, <3>3
  <2> QED BY <2>1, <2>2
<1>22. ASSUME NEW a \in Agents, Pass(a) PROVE Control'
  BY <1>22 DEF Pass
<1>23. ASSUME NEW a \in Agents, Pause(a) PROVE Control'
  BY <1>23 DEF Pause
<1>s. ASSUME NEW a \in Agents, RemoveSearch(a) PROVE Control'
  BY <1>s DEF RemoveSearch
<1>24. ASSUME NEW a \in Agents, RemoveTake(a) PROVE Control'
  <2>1. CASE waitList = <<>>
    <3>1. /\ pc[a] = "take" /\ pc' = [pc EXCEPT ![a] = "checkOwner"]
          /\ left' = [left EXCEPT ![a] = 0]
          /\ UNCHANGED <<point, rounds, cancelled, self, next, back, found>>
      BY <1>24, <2>1 DEF RemoveTake
    <3> QED BY <3>1
  <2>2. CASE waitList # <<>>
    <3>1. PICK c \in Coroutines : c = Head(waitList) /\ ~InHand(a, c)
      BY <2>2, FirstAlone DEF MutexInv
    <3>2. /\ pc[a] = "take" /\ pc' = [pc EXCEPT ![a] = "compare"]
          /\ next' = [next EXCEPT ![a] = c]
          /\ UNCHANGED <<point, rounds, cancelled, self, back, left, found>>
      BY <1>24, <2>2, <3>1 DEF RemoveTake
    <3>3. found[a] => self[a] # c
      BY <3>1 DEF InHand
    <3> QED BY <1>24, <3>2, <3>3 DEF RemoveTake
  <2> QED BY <2>1, <2>2
<1>25. ASSUME NEW a \in Agents, RemoveGiveUp(a) PROVE Control'
  BY <1>25 DEF RemoveGiveUp
<1>26. ASSUME NEW a \in Agents, RemoveFound(a) PROVE Control'
  BY <1>26 DEF RemoveFound
<1>27. ASSUME NEW a \in Agents, RemovePutBack(a) PROVE Control'
  BY <1>27 DEF RemovePutBack
<1>28. ASSUME NEW a \in Agents, RemoveCheckOwner(a) PROVE Control'
  BY <1>28 DEF RemoveCheckOwner
<1>29. ASSUME NEW a \in Agents, Removed(a) PROVE Control'
  BY <1>29 DEF Removed
<1>30. ASSUME NEW a \in Agents, CloseDrain(a) PROVE Control'
  <2>1. CASE waitList = <<>>
    <3>1. /\ pc[a] = "closing" /\ pc' = [pc EXCEPT ![a] = IF a \in Destroyers THEN "awaitOwner" ELSE "idle"]
          /\ UNCHANGED <<point, rounds, cancelled, self, next, back, left, found>>
      BY <1>30, <2>1 DEF CloseDrain, DrainTurn
    <3> QED BY <3>1
  <2>2. CASE waitList # <<>>
    <3>1. /\ \A c \in Coroutines : cancelled[c] => cancelled'[c]
          /\ UNCHANGED <<pc, point, rounds, self, next, back, left, found>>
      BY <1>30, <2>2 DEF CloseDrain, DrainTurn
    <3> QED BY <3>1
  <2> QED BY <2>1, <2>2
<1>31. ASSUME NEW a \in Agents, AwaitOwner(a) PROVE Control'
  BY <1>31 DEF AwaitOwner
<1>32. ASSUME NEW a \in Agents, AssertEmpty(a) PROVE Control'
  BY <1>32 DEF AssertEmpty
<1>33. ASSUME NEW a \in Agents, AwaitScope(a) PROVE Control'
  BY <1>33 DEF AwaitScope
<1>34. ASSUME NEW a \in Agents, Close(a) PROVE Control'
  BY <1>34 DEF Close
<1>35. ASSUME NEW a \in Agents, NEW c \in Coroutines, Cancel(a, c) PROVE Control'
  BY <1>35 DEF Cancel
<1> HIDE DEF Control, InCancel, InRemoved, InUnlock, mutex, coros, agents, Goto, Go, Schedule,
             MarkCancelled, CallLock, DequeueNext
<1> QED
  BY <1>0, <1>1, <1>2, <1>3, <1>4, <1>5, <1>6, <1>7, <1>8, <1>9, <1>10, <1>11, <1>12, <1>13,
     <1>14, <1>15, <1>16, <1>17, <1>18, <1>19, <1>20, <1>21, <1>22, <1>23, <1>s, <1>24, <1>25,
     <1>26, <1>27, <1>28, <1>29, <1>30, <1>31, <1>32, <1>33, <1>34, <1>35
     DEF Next, Call, Step, LockStep, WorkerStep, CancelStep

-----------------------------------------------------------------------------
(* The moves of WhereaboutsLemmas as steps of this module *)

\* What a step does to what the agents run and have in hand: nothing, or an agent
\* gets a coroutine, or lets go of one.
RunsKept == \A b \in Agents, e \in Coroutines : Runs(b, e)' <=> Runs(b, e)
RunsGains(a, c) == \A b \in Agents, e \in Coroutines : Runs(b, e)' <=> Runs(b, e) \/ (b = a /\ e = c)
RunsLoses(a, c) == \A b \in Agents, e \in Coroutines : Runs(b, e)' <=> Runs(b, e) /\ ~(b = a /\ e = c)
HandKept == \A b \in Agents, e \in Coroutines : InHand(b, e)' <=> InHand(b, e)
HandGains(a, c) == \A b \in Agents, e \in Coroutines : InHand(b, e)' <=> InHand(b, e) \/ (b = a /\ e = c)
HandLoses(a, c) == \A b \in Agents, e \in Coroutines : InHand(b, e)' <=> InHand(b, e) /\ ~(b = a /\ e = c)

LEMMA HandsHold ==
    /\ \A b \in Agents, e \in Coroutines : <<<<"runs", b>>, e>> \in Hands <=> Runs(b, e)
    /\ \A b \in Agents, e \in Coroutines : <<<<"hand", b>>, e>> \in Hands <=> InHand(b, e)
    /\ Hands \subseteq Holders \X Coroutines
    /\ \A h \in Holders : \E b \in Agents : h = <<"runs", b>> \/ h = <<"hand", b>>
BY DEF Hands, Holds, Holders

LEMMA HandsHoldNext ==
    /\ \A b \in Agents, e \in Coroutines : <<<<"runs", b>>, e>> \in Hands' <=> Runs(b, e)'
    /\ \A b \in Agents, e \in Coroutines : <<<<"hand", b>>, e>> \in Hands' <=> InHand(b, e)'
    /\ Hands' \subseteq Holders \X Coroutines
BY DEF Hands, Holds, Holders

\* Two sets of holders and coroutines are the same if they agree on every pair.
LEMMA SameHands ==
    ASSUME NEW S, NEW T, S \subseteq Holders \X Coroutines, T \subseteq Holders \X Coroutines,
           \A b \in Agents, e \in Coroutines :
               /\ <<<<"runs", b>>, e>> \in S <=> <<<<"runs", b>>, e>> \in T
               /\ <<<<"hand", b>>, e>> \in S <=> <<<<"hand", b>>, e>> \in T
    PROVE  S = T
<1>1. ASSUME NEW p \in Holders \X Coroutines PROVE p \in S <=> p \in T
  <2>1. PICK b \in Agents, e \in Coroutines : p = <<<<"runs", b>>, e>> \/ p = <<<<"hand", b>>, e>>
    BY DEF Holders
  <2> QED BY <2>1
<1> QED BY <1>1

LEMMA HandsSame == ASSUME RunsKept, HandKept PROVE Hands' = Hands
BY HandsHold, HandsHoldNext, SameHands DEF RunsKept, HandKept

\* Nobody moves.
LEMMA NobodyMoves ==
    ASSUME TypeOK, OnePlace, UNCHANGED <<scheduled, waitList>>,
           \A d \in Coroutines : d \in Live' <=> d \in Live, RunsKept, HandKept
    PROVE  OnePlace'
<1>1. Live' = Live
  BY DEF Live
<1>2. Hands' = Hands
  BY HandsSame
<1> QED BY <1>1, <1>2 DEF OnePlace

\* The places of the next state, once its types hold.
LEMMA NextPlaces ==
    ASSUME TypeOK', Placed(Coroutines, Live', scheduled', waitList', Hands')
    PROVE  OnePlace'
<1>1. Values(Coroutines, Holders, scheduled', waitList', Hands')
  BY HandsHoldNext DEF TypeOK, Values
<1>2. InOnePlace(Coroutines, Live', scheduled', waitList', Hands')
  BY <1>1, PlacedIsInOnePlace
<1> QED BY <1>2 DEF OnePlace

\* What a step does to Hands.
LEMMA RunAdds ==
    ASSUME NEW a \in Agents, NEW c \in Coroutines, RunsGains(a, c), HandKept
    PROVE  Hands' = Hands \cup {<<<<"runs", a>>, c>>}
<1> DEFINE S == Hands \cup {<<<<"runs", a>>, c>>}
<1>1. S \subseteq Holders \X Coroutines
  BY HandsHold DEF Holders
<1>2. /\ <<"runs", a>> # <<"hand", a>>
      /\ \A b : <<"hand", b>> # <<"runs", a>> /\ <<"runs", b>> # <<"hand", a>>
      /\ \A b, e : <<<<"runs", b>>, e>> = <<<<"runs", a>>, c>> <=> b = a /\ e = c
      /\ \A b, e : <<<<"hand", b>>, e>> = <<<<"hand", a>>, c>> <=> b = a /\ e = c
  OBVIOUS
<1>3. \A b \in Agents, e \in Coroutines :
          /\ <<<<"runs", b>>, e>> \in S <=> Runs(b, e)'
          /\ <<<<"hand", b>>, e>> \in S <=> InHand(b, e)'
  BY <1>2, HandsHold DEF RunsGains, HandKept
<1> HIDE DEF S
<1>4. Hands' = S
  BY <1>1, <1>3, HandsHoldNext, SameHands
<1> QED BY <1>4 DEF S

LEMMA RunDrops ==
    ASSUME NEW a \in Agents, NEW c \in Coroutines, RunsLoses(a, c), HandKept
    PROVE  Hands' = Hands \ {<<<<"runs", a>>, c>>}
<1> DEFINE S == Hands \ {<<<<"runs", a>>, c>>}
<1>1. S \subseteq Holders \X Coroutines
  BY HandsHold DEF Holders
<1>2. /\ <<"runs", a>> # <<"hand", a>>
      /\ \A b : <<"hand", b>> # <<"runs", a>> /\ <<"runs", b>> # <<"hand", a>>
      /\ \A b, e : <<<<"runs", b>>, e>> = <<<<"runs", a>>, c>> <=> b = a /\ e = c
      /\ \A b, e : <<<<"hand", b>>, e>> = <<<<"hand", a>>, c>> <=> b = a /\ e = c
  OBVIOUS
<1>3. \A b \in Agents, e \in Coroutines :
          /\ <<<<"runs", b>>, e>> \in S <=> Runs(b, e)'
          /\ <<<<"hand", b>>, e>> \in S <=> InHand(b, e)'
  BY <1>2, HandsHold DEF RunsLoses, HandKept
<1> HIDE DEF S
<1>4. Hands' = S
  BY <1>1, <1>3, HandsHoldNext, SameHands
<1> QED BY <1>4 DEF S

LEMMA HandAdds ==
    ASSUME NEW a \in Agents, NEW c \in Coroutines, RunsKept, HandGains(a, c)
    PROVE  Hands' = Hands \cup {<<<<"hand", a>>, c>>}
<1> DEFINE S == Hands \cup {<<<<"hand", a>>, c>>}
<1>1. S \subseteq Holders \X Coroutines
  BY HandsHold DEF Holders
<1>2. /\ <<"runs", a>> # <<"hand", a>>
      /\ \A b : <<"hand", b>> # <<"runs", a>> /\ <<"runs", b>> # <<"hand", a>>
      /\ \A b, e : <<<<"runs", b>>, e>> = <<<<"runs", a>>, c>> <=> b = a /\ e = c
      /\ \A b, e : <<<<"hand", b>>, e>> = <<<<"hand", a>>, c>> <=> b = a /\ e = c
  OBVIOUS
<1>3. \A b \in Agents, e \in Coroutines :
          /\ <<<<"runs", b>>, e>> \in S <=> Runs(b, e)'
          /\ <<<<"hand", b>>, e>> \in S <=> InHand(b, e)'
  BY <1>2, HandsHold DEF RunsKept, HandGains
<1> HIDE DEF S
<1>4. Hands' = S
  BY <1>1, <1>3, HandsHoldNext, SameHands
<1> QED BY <1>4 DEF S

LEMMA HandDrops ==
    ASSUME NEW a \in Agents, NEW c \in Coroutines, RunsKept, HandLoses(a, c)
    PROVE  Hands' = Hands \ {<<<<"hand", a>>, c>>}
<1> DEFINE S == Hands \ {<<<<"hand", a>>, c>>}
<1>1. S \subseteq Holders \X Coroutines
  BY HandsHold DEF Holders
<1>2. /\ <<"runs", a>> # <<"hand", a>>
      /\ \A b : <<"hand", b>> # <<"runs", a>> /\ <<"runs", b>> # <<"hand", a>>
      /\ \A b, e : <<<<"runs", b>>, e>> = <<<<"runs", a>>, c>> <=> b = a /\ e = c
      /\ \A b, e : <<<<"hand", b>>, e>> = <<<<"hand", a>>, c>> <=> b = a /\ e = c
  OBVIOUS
<1>3. \A b \in Agents, e \in Coroutines :
          /\ <<<<"runs", b>>, e>> \in S <=> Runs(b, e)'
          /\ <<<<"hand", b>>, e>> \in S <=> InHand(b, e)'
  BY <1>2, HandsHold DEF RunsKept, HandLoses
<1> HIDE DEF S
<1>4. Hands' = S
  BY <1>1, <1>3, HandsHoldNext, SameHands
<1> QED BY <1>4 DEF S

LEMMA RunToHand ==
    ASSUME NEW a \in Agents, NEW c \in Coroutines, RunsLoses(a, c), HandGains(a, c)
    PROVE  Hands' = (Hands \ {<<<<"runs", a>>, c>>}) \cup {<<<<"hand", a>>, c>>}
<1> DEFINE S == (Hands \ {<<<<"runs", a>>, c>>}) \cup {<<<<"hand", a>>, c>>}
<1>1. S \subseteq Holders \X Coroutines
  BY HandsHold DEF Holders
<1>2. /\ <<"runs", a>> # <<"hand", a>>
      /\ \A b : <<"hand", b>> # <<"runs", a>> /\ <<"runs", b>> # <<"hand", a>>
      /\ \A b, e : <<<<"runs", b>>, e>> = <<<<"runs", a>>, c>> <=> b = a /\ e = c
      /\ \A b, e : <<<<"hand", b>>, e>> = <<<<"hand", a>>, c>> <=> b = a /\ e = c
  OBVIOUS
<1>3. \A b \in Agents, e \in Coroutines :
          /\ <<<<"runs", b>>, e>> \in S <=> Runs(b, e)'
          /\ <<<<"hand", b>>, e>> \in S <=> InHand(b, e)'
  BY <1>2, HandsHold DEF RunsLoses, HandGains
<1> HIDE DEF S
<1>4. Hands' = S
  BY <1>1, <1>3, HandsHoldNext, SameHands
<1> QED BY <1>4 DEF S

\* A worker takes a scheduled coroutine.
LEMMA TakesScheduled ==
    ASSUME TypeOK, OnePlace, TypeOK', NEW a \in Agents, NEW c \in Coroutines,
           scheduled[c] > 0, scheduled' = [scheduled EXCEPT ![c] = @ - 1],
           UNCHANGED <<waitList, point>>, RunsGains(a, c), HandKept
    PROVE  OnePlace'
<1>1. /\ Placed(Coroutines, Live, scheduled, waitList, Hands)
      /\ Values(Coroutines, Holders, scheduled, waitList, Hands)
  BY CoroutineValues, PlacedIsInOnePlace DEF OnePlace
<1>2. Hands' = Hands \cup {<<<<"runs", a>>, c>>}
  BY RunAdds
<1>3. Live' = Live
  BY DEF Live
<1>4. Placed(Coroutines, Live', scheduled', waitList', Hands')
  BY <1>1, <1>2, <1>3, ReadyToHand
<1> QED BY <1>4, NextPlaces

\* A worker schedules the coroutine that it runs.
LEMMA SchedulesRun ==
    ASSUME TypeOK, OnePlace, TypeOK', NEW a \in Agents, NEW c \in Coroutines,
           Runs(a, c), scheduled' = [scheduled EXCEPT ![c] = @ + 1],
           UNCHANGED waitList, \A d \in Coroutines : d \in Live' <=> d \in Live,
           RunsLoses(a, c), HandKept
    PROVE  OnePlace'
<1>1. /\ Placed(Coroutines, Live, scheduled, waitList, Hands)
      /\ Values(Coroutines, Holders, scheduled, waitList, Hands)
  BY CoroutineValues, PlacedIsInOnePlace DEF OnePlace
<1>2. Hands' = Hands \ {<<<<"runs", a>>, c>>}
  BY RunDrops
<1>0. <<<<"runs", a>>, c>> \in Hands
  BY HandsHold
<1>3. Live' = Live
  BY DEF Live
<1>4. Placed(Coroutines, Live', scheduled', waitList', Hands')
  BY <1>0, <1>1, <1>2, <1>3, HandToReady
<1> QED BY <1>4, NextPlaces

\* An agent schedules the coroutine that it has in hand.
LEMMA SchedulesOwn ==
    ASSUME TypeOK, OnePlace, TypeOK', NEW a \in Agents, NEW c \in Coroutines,
           InHand(a, c), scheduled' = [scheduled EXCEPT ![c] = @ + 1],
           UNCHANGED <<waitList, point>>, RunsKept, HandLoses(a, c)
    PROVE  OnePlace'
<1>1. /\ Placed(Coroutines, Live, scheduled, waitList, Hands)
      /\ Values(Coroutines, Holders, scheduled, waitList, Hands)
  BY CoroutineValues, PlacedIsInOnePlace DEF OnePlace
<1>2. Hands' = Hands \ {<<<<"hand", a>>, c>>}
  BY HandDrops
<1>0. <<<<"hand", a>>, c>> \in Hands
  BY HandsHold
<1>3. Live' = Live
  BY DEF Live
<1>4. Placed(Coroutines, Live', scheduled', waitList', Hands')
  BY <1>0, <1>1, <1>2, <1>3, HandToReady
<1> QED BY <1>4, NextPlaces

\* An agent enqueues the coroutine that it has in hand.
LEMMA EnqueuesOwn ==
    ASSUME TypeOK, OnePlace, TypeOK', NEW a \in Agents, NEW c \in Coroutines,
           InHand(a, c), waitList' = Append(waitList, c),
           UNCHANGED <<scheduled, point>>, RunsKept, HandLoses(a, c)
    PROVE  OnePlace'
<1>1. /\ Placed(Coroutines, Live, scheduled, waitList, Hands)
      /\ Values(Coroutines, Holders, scheduled, waitList, Hands)
  BY CoroutineValues, PlacedIsInOnePlace DEF OnePlace
<1>2. Hands' = Hands \ {<<<<"hand", a>>, c>>}
  BY HandDrops
<1>0. <<<<"hand", a>>, c>> \in Hands
  BY HandsHold
<1>3. Live' = Live
  BY DEF Live
<1>4. Placed(Coroutines, Live', scheduled', waitList', Hands')
  BY <1>0, <1>1, <1>2, <1>3, HandToQueue
<1> QED BY <1>4, NextPlaces

\* A worker takes the coroutine that it runs in hand.
LEMMA RunInHand ==
    ASSUME TypeOK, OnePlace, TypeOK', NEW a \in Agents, NEW c \in Coroutines,
           Runs(a, c), UNCHANGED <<scheduled, waitList>>,
           \A d \in Coroutines : d \in Live' <=> d \in Live, RunsLoses(a, c), HandGains(a, c)
    PROVE  OnePlace'
<1>1. /\ Placed(Coroutines, Live, scheduled, waitList, Hands)
      /\ Values(Coroutines, Holders, scheduled, waitList, Hands)
  BY CoroutineValues, PlacedIsInOnePlace DEF OnePlace
<1>2. Hands' = (Hands \ {<<<<"runs", a>>, c>>}) \cup {<<<<"hand", a>>, c>>}
  BY RunToHand
<1>0. <<<<"runs", a>>, c>> \in Hands
  BY HandsHold
<1>3. Live' = Live
  BY DEF Live
<1>4. Placed(Coroutines, Live', scheduled', waitList', Hands')
  BY <1>0, <1>1, <1>2, <1>3, HandToHand
<1> QED BY <1>4, NextPlaces

\* An agent takes the first of the wait list.
LEMMA TakesFirst ==
    ASSUME TypeOK, OnePlace, TypeOK', NEW a \in Agents, NEW c \in Coroutines,
           waitList # <<>>, c = Head(waitList), waitList' = Tail(waitList),
           UNCHANGED <<scheduled, point>>, RunsKept, HandGains(a, c)
    PROVE  OnePlace'
<1>1. /\ Placed(Coroutines, Live, scheduled, waitList, Hands)
      /\ Values(Coroutines, Holders, scheduled, waitList, Hands)
  BY CoroutineValues, PlacedIsInOnePlace DEF OnePlace
<1>2. Hands' = Hands \cup {<<<<"hand", a>>, c>>}
  BY HandAdds
<1>3. Live' = Live
  BY DEF Live
<1>4. Placed(Coroutines, Live', scheduled', waitList', Hands')
  BY <1>1, <1>2, <1>3, QueueToHand
<1> QED BY <1>4, NextPlaces

\* An agent schedules the first of the wait list.
LEMMA SchedulesFirst ==
    ASSUME TypeOK, OnePlace, TypeOK', NEW c \in Coroutines,
           waitList # <<>>, c = Head(waitList), waitList' = Tail(waitList),
           scheduled' = [scheduled EXCEPT ![c] = @ + 1], UNCHANGED point, RunsKept, HandKept
    PROVE  OnePlace'
<1>1. /\ Placed(Coroutines, Live, scheduled, waitList, Hands)
      /\ Values(Coroutines, Holders, scheduled, waitList, Hands)
  BY CoroutineValues, PlacedIsInOnePlace DEF OnePlace
<1>2. Hands' = Hands
  BY HandsSame
<1>3. Live' = Live
  BY DEF Live
<1>4. Placed(Coroutines, Live', scheduled', waitList', Hands')
  BY <1>1, <1>2, <1>3, QueueToReady
<1> QED BY <1>4, NextPlaces

\* A coroutine ends while a worker runs it.
LEMMA EndsOwn ==
    ASSUME TypeOK, OnePlace, TypeOK', NEW a \in Agents, NEW c \in Coroutines,
           Runs(a, c), point' = [point EXCEPT ![c] = "done"],
           UNCHANGED <<scheduled, waitList>>, RunsLoses(a, c), HandKept
    PROVE  OnePlace'
<1>1. /\ Placed(Coroutines, Live, scheduled, waitList, Hands)
      /\ Values(Coroutines, Holders, scheduled, waitList, Hands)
  BY CoroutineValues, PlacedIsInOnePlace DEF OnePlace
<1>2. Hands' = Hands \ {<<<<"runs", a>>, c>>}
  BY RunDrops
<1>0. <<<<"runs", a>>, c>> \in Hands
  BY HandsHold
<1>3. Live' = Live \ {c}
  BY DEF Live, TypeOK
<1>4. Placed(Coroutines, Live', scheduled', waitList', Hands')
  BY <1>0, <1>1, <1>2, <1>3, EndInHand
<1> QED BY <1>4, NextPlaces

-----------------------------------------------------------------------------
(* Every step leaves every coroutine in one place *)

LEMMA MutexPlacesStep == ASSUME MutexInv, [Next]_vars PROVE OnePlace'
<1>a. TypeOK /\ OnePlace /\ Control
  BY DEF MutexInv
<1>b. TypeOK'
  BY MutexTypeStep
<1>c. /\ pc \in [Agents -> InBody \cup InLocks \cup Others]
      /\ self \in [Agents -> Coroutines \cup {NULL}]
      /\ next \in [Agents -> Coroutines \cup {NULL}] /\ found \in [Agents -> BOOLEAN]
      /\ back \in [Agents -> {"idle", "leave", "removed"}]
      /\ NULL \notin Coroutines
  BY NullAssumption DEF MutexInv, TypeOK
<1> USE <1>a, <1>b, <1>c
       DEF Control, InCancel, InRemoved, InUnlock, Removing, Handing, InBody, InLocks, mutex,
           coros, agents, At, Goto, Go, Schedule, MarkCancelled, CallLock, DequeueNext
<1>0. CASE UNCHANGED vars
  <2>1. /\ UNCHANGED <<scheduled, waitList>> /\ \A d \in Coroutines : d \in Live' <=> d \in Live
        /\ RunsKept /\ HandKept
    BY <1>0 DEF vars, Live, Runs, InHand, RunsKept, HandKept
  <2> QED BY <2>1, NobodyMoves
<1>1. ASSUME NEW a \in Agents, LockEnter(a) PROVE OnePlace'
  <2>1. /\ UNCHANGED <<scheduled, waitList>> /\ \A d \in Coroutines : d \in Live' <=> d \in Live
        /\ RunsKept /\ HandKept
    BY <1>1 DEF LockEnter, Live, Runs, InHand, RunsKept, HandKept
  <2> QED BY <2>1, NobodyMoves
<1>2. ASSUME NEW a \in Agents, LockLoad(a) PROVE OnePlace'
  <2>1. /\ UNCHANGED <<scheduled, waitList>> /\ \A d \in Coroutines : d \in Live' <=> d \in Live
        /\ RunsKept /\ HandKept
    BY <1>2 DEF LockLoad, Live, Runs, InHand, RunsKept, HandKept
  <2> QED BY <2>1, NobodyMoves
<1>3. ASSUME NEW a \in Agents, LockEnqueue(a) PROVE OnePlace'
  <2>1. PICK c \in Coroutines : c = next[a] /\ InHand(a, c)
    BY <1>3 DEF LockEnqueue, InHand
  <2>2. waitList' = Append(waitList, c) /\ UNCHANGED <<scheduled, point>>
    BY <1>3, <2>1 DEF LockEnqueue
  <2>3. RunsKept /\ HandLoses(a, c)
    BY <1>3, <2>1 DEF LockEnqueue, Runs, InHand, RunsKept, HandLoses
  <2> QED BY <2>1, <2>2, <2>3, EnqueuesOwn
<1>4. ASSUME NEW a \in Agents, LockRecheck(a) PROVE OnePlace'
  <2>1. /\ UNCHANGED <<scheduled, waitList>> /\ \A d \in Coroutines : d \in Live' <=> d \in Live
        /\ RunsKept /\ HandKept
    BY <1>4 DEF LockRecheck, Live, Runs, InHand, RunsKept, HandKept
  <2> QED BY <2>1, NobodyMoves
<1>5. ASSUME NEW a \in Agents, LockDequeue(a) PROVE OnePlace'
  <2>1. CASE waitList = <<>>
    <3>1. UNCHANGED <<scheduled, waitList, point>>
      BY <1>5, <2>1 DEF LockDequeue
    <3>2. RunsKept /\ HandKept
      BY <1>5, <2>1 DEF LockDequeue, Runs, InHand, RunsKept, HandKept
    <3> QED BY <3>1, <3>2, NobodyMoves DEF Live
  <2>2. CASE waitList # <<>>
    <3>1. PICK c \in Coroutines : c = Head(waitList)
      BY <2>2, FirstAlone
    <3>2. waitList' = Tail(waitList) /\ UNCHANGED <<scheduled, point>>
      BY <1>5, <2>2, <3>1 DEF LockDequeue
    <3>3. RunsKept /\ HandGains(a, c)
      BY <1>5, <2>2, <3>1 DEF LockDequeue, Runs, InHand, RunsKept, HandGains
    <3> QED BY <2>2, <3>1, <3>2, <3>3, TakesFirst
  <2> QED BY <2>1, <2>2
<1>6. ASSUME NEW a \in Agents, LockExchange(a) PROVE OnePlace'
  <2>1. CASE owner = NULL
    <3>1. PICK c \in Coroutines : c = next[a] /\ InHand(a, c)
      BY <1>6, <2>1 DEF LockExchange, InHand
    <3>2. scheduled' = [scheduled EXCEPT ![c] = @ + 1] /\ UNCHANGED <<waitList, point>>
      BY <1>6, <2>1, <3>1 DEF LockExchange
    <3>3. RunsKept /\ HandLoses(a, c)
      BY <1>6, <2>1, <3>1 DEF LockExchange, Runs, InHand, RunsKept, HandLoses
    <3> QED BY <3>1, <3>2, <3>3, SchedulesOwn
  <2>2. CASE owner # NULL
    <3>1. /\ UNCHANGED <<scheduled,
                         waitList>> /\ \A d \in Coroutines : d \in Live' <=> d \in Live
          /\ RunsKept /\ HandKept
      BY <1>6, <2>2 DEF LockExchange, Live, Runs, InHand, RunsKept, HandKept
    <3> QED BY <3>1, NobodyMoves
  <2> QED BY <2>1, <2>2
<1>7. ASSUME NEW a \in Agents, LockExit(a) PROVE OnePlace'
  <2>1. /\ UNCHANGED <<scheduled, waitList>> /\ \A d \in Coroutines : d \in Live' <=> d \in Live
        /\ RunsKept /\ HandKept
    BY <1>7 DEF LockExit, Live, Runs, InHand, RunsKept, HandKept
  <2> QED BY <2>1, NobodyMoves
<1>8. ASSUME NEW a \in Agents, Rescue(a) PROVE OnePlace'
  <2>1. CASE waitList = <<>>
    <3>1. UNCHANGED <<scheduled, waitList, point>>
      BY <1>8, <2>1 DEF Rescue
    <3>2. RunsKept /\ HandKept
      BY <1>8, <2>1 DEF Rescue, Runs, InHand, RunsKept, HandKept
    <3> QED BY <3>1, <3>2, NobodyMoves DEF Live
  <2>2. CASE waitList # <<>>
    <3>1. PICK c \in Coroutines : c = Head(waitList)
      BY <2>2, FirstAlone
    <3>2. waitList' = Tail(waitList) /\ UNCHANGED <<scheduled, point>>
      BY <1>8, <2>2, <3>1 DEF Rescue
    <3>3. RunsKept /\ HandGains(a, c)
      BY <1>8, <2>2, <3>1 DEF Rescue, Runs, InHand, RunsKept, HandGains
    <3> QED BY <2>2, <3>1, <3>2, <3>3, TakesFirst
  <2> QED BY <2>1, <2>2
<1>9. ASSUME NEW a \in Agents, NEW c \in Coroutines, PickUp(a, c) PROVE OnePlace'
  <2>1. /\ scheduled[c] > 0 /\ scheduled' = [scheduled EXCEPT ![c] = @ - 1]
        /\ UNCHANGED <<waitList, point>>
    BY <1>9 DEF PickUp
  <2>2. RunsGains(a, c) /\ HandKept
    BY <1>9 DEF PickUp, Runs, InHand, RunsGains, HandKept
  <2> QED BY <2>1, <2>2, TakesScheduled
<1>10. ASSUME NEW a \in Agents, AwaitReady(a) PROVE OnePlace'
  <2>1. /\ UNCHANGED <<scheduled, waitList>> /\ \A d \in Coroutines : d \in Live' <=> d \in Live
        /\ RunsKept /\ HandKept
    BY <1>10 DEF AwaitReady, Live, Runs, InHand, RunsKept, HandKept
  <2> QED BY <2>1, NobodyMoves
<1>11. ASSUME NEW a \in Agents, TryLock(a) PROVE OnePlace'
  <2>1. /\ UNCHANGED <<scheduled, waitList>> /\ \A d \in Coroutines : d \in Live' <=> d \in Live
        /\ RunsKept /\ HandKept
    BY <1>11 DEF TryLock, Live, Runs, InHand, RunsKept, HandKept
  <2> QED BY <2>1, NobodyMoves
<1>12. ASSUME NEW a \in Agents, AwaitSuspendCancelled(a) PROVE OnePlace'
  <2>1. PICK c \in Coroutines : c = self[a] /\ Runs(a, c)
    BY <1>12 DEF AwaitSuspendCancelled, Runs
  <2>2. c \in Live
    BY <2>1, RunsAlone
  <2>3. point' = [point EXCEPT ![c] = "await"] /\ UNCHANGED <<waitList, self, next, back,
                                                              found>>
    BY <1>12, <2>1 DEF AwaitSuspendCancelled
  <2>4. \A d \in Coroutines : d \in Live' <=> d \in Live
    BY <2>2, <2>3 DEF Live
  <2>5. CASE pc' = [pc EXCEPT ![a] = "idle"]
    <3>1. scheduled' = [scheduled EXCEPT ![c] = @ + 1]
      BY <1>12, <2>1, <2>5 DEF AwaitSuspendCancelled
    <3>2. RunsLoses(a, c) /\ HandKept
      BY <1>12, <2>1, <2>3, <2>5 DEF AwaitSuspendCancelled, Runs, InHand, RunsLoses, HandKept
    <3> QED BY <2>1, <2>3, <2>4, <3>1, <3>2, SchedulesRun
  <2>6. CASE pc' = [pc EXCEPT ![a] = "resume"] /\ UNCHANGED scheduled
    <3>1. RunsKept /\ HandKept
      BY <1>12, <2>1, <2>3, <2>6 DEF AwaitSuspendCancelled, Runs, InHand, RunsKept, HandKept
    <3> QED BY <2>3, <2>4, <2>6, <3>1, NobodyMoves
  <2> QED BY <1>12, <2>5, <2>6 DEF AwaitSuspendCancelled
<1>13. ASSUME NEW a \in Agents, AwaitSuspend(a) PROVE OnePlace'
  <2>1. PICK c \in Coroutines : c = self[a] /\ Runs(a, c)
    BY <1>13 DEF AwaitSuspend, Runs
  <2>2. c \in Live
    BY <2>1, RunsAlone
  <2>3. point' = [point EXCEPT ![c] = "await"] /\ UNCHANGED <<scheduled, waitList>>
    BY <1>13, <2>1 DEF AwaitSuspend
  <2>4. \A d \in Coroutines : d \in Live' <=> d \in Live
    BY <2>2, <2>3 DEF Live
  <2>5. RunsLoses(a, c) /\ HandGains(a, c)
    BY <1>13, <2>1 DEF AwaitSuspend, Runs, InHand, RunsLoses, HandGains
  <2> QED BY <2>1, <2>3, <2>4, <2>5, RunInHand
<1>14. ASSUME NEW a \in Agents, Resume(a) PROVE OnePlace'
  <2>1. /\ UNCHANGED <<scheduled, waitList>> /\ \A d \in Coroutines : d \in Live' <=> d \in Live
        /\ RunsKept /\ HandKept
    BY <1>14 DEF Resume, Live, Runs, InHand, RunsKept, HandKept
  <2> QED BY <2>1, NobodyMoves
<1>15. ASSUME NEW a \in Agents, Critical(a) PROVE OnePlace'
  <2>1. /\ UNCHANGED <<scheduled, waitList>> /\ \A d \in Coroutines : d \in Live' <=> d \in Live
        /\ RunsKept /\ HandKept
    BY <1>15 DEF Critical, Live, Runs, InHand, RunsKept, HandKept
  <2> QED BY <2>1, NobodyMoves
<1>16. ASSUME NEW a \in Agents, Leave(a) PROVE OnePlace'
  <2>1. PICK c \in Coroutines : c = self[a] /\ Runs(a, c)
    BY <1>16 DEF Leave, Runs
  <2>2. CASE cancelled[c] \/ rounds[c] = 1
    <3>1. point' = [point EXCEPT ![c] = "done"] /\ UNCHANGED <<scheduled, waitList>>
      BY <1>16, <2>1, <2>2 DEF Leave
    <3>2. RunsLoses(a, c) /\ HandKept
      BY <1>16, <2>1, <2>2 DEF Leave, Runs, InHand, RunsLoses, HandKept
    <3> QED BY <2>1, <3>1, <3>2, EndsOwn
  <2>3. CASE ~(cancelled[c] \/ rounds[c] = 1)
    <3>1. c \in Live
      BY <2>1, RunsAlone
    <3>2. point' = [point EXCEPT ![c] = "start"] /\ UNCHANGED <<scheduled, waitList>>
      BY <1>16, <2>1, <2>3 DEF Leave
    <3>3. \A d \in Coroutines : d \in Live' <=> d \in Live
      BY <3>1, <3>2 DEF Live
    <3>4. RunsKept /\ HandKept
      BY <1>16, <2>1, <2>3 DEF Leave, Runs, InHand, RunsKept, HandKept
    <3> QED BY <3>2, <3>3, <3>4, NobodyMoves
  <2> QED BY <2>2, <2>3
<1>17. ASSUME NEW a \in Agents, Unlock(a) PROVE OnePlace'
  <2>1. /\ UNCHANGED <<scheduled, waitList>> /\ \A d \in Coroutines : d \in Live' <=> d \in Live
        /\ RunsKept /\ HandKept
    BY <1>17 DEF Unlock, Live, Runs, InHand, RunsKept, HandKept
  <2> QED BY <2>1, NobodyMoves
<1>18. ASSUME NEW a \in Agents, UnlockDrain(a) PROVE OnePlace'
  <2>1. CASE waitList = <<>>
    <3>1. UNCHANGED <<scheduled, waitList, point>>
      BY <1>18, <2>1 DEF UnlockDrain, DrainTurn
    <3>2. RunsKept /\ HandKept
      BY <1>18, <2>1 DEF UnlockDrain, DrainTurn, Runs, InHand, RunsKept, HandKept
    <3> QED BY <3>1, <3>2, NobodyMoves DEF Live
  <2>2. CASE waitList # <<>>
    <3>1. PICK c \in Coroutines : c = Head(waitList)
      BY <2>2, FirstAlone
    <3>2. /\ waitList' = Tail(waitList) /\ scheduled' = [scheduled EXCEPT ![c] = @ + 1]
          /\ UNCHANGED <<point, pc, self, next, back, found>>
      BY <1>18, <2>2, <3>1 DEF UnlockDrain, DrainTurn
    <3>3. RunsKept /\ HandKept
      BY <3>2 DEF Runs, InHand, RunsKept, HandKept
    <3> QED BY <2>2, <3>1, <3>2, <3>3, SchedulesFirst
  <2> QED BY <2>1, <2>2
<1>19. ASSUME NEW a \in Agents, UnlockDrainAgain(a) PROVE OnePlace'
  <2>1. CASE waitList = <<>>
    <3>1. UNCHANGED <<scheduled, waitList, point>>
      BY <1>19, <2>1 DEF UnlockDrainAgain, DrainTurn
    <3>2. RunsKept /\ HandKept
      BY <1>19, <2>1 DEF UnlockDrainAgain, DrainTurn, Runs, InHand, RunsKept, HandKept
    <3> QED BY <3>1, <3>2, NobodyMoves DEF Live
  <2>2. CASE waitList # <<>>
    <3>1. PICK c \in Coroutines : c = Head(waitList)
      BY <2>2, FirstAlone
    <3>2. /\ waitList' = Tail(waitList) /\ scheduled' = [scheduled EXCEPT ![c] = @ + 1]
          /\ UNCHANGED <<point, pc, self, next, back, found>>
      BY <1>19, <2>2, <3>1 DEF UnlockDrainAgain, DrainTurn
    <3>3. RunsKept /\ HandKept
      BY <3>2 DEF Runs, InHand, RunsKept, HandKept
    <3> QED BY <2>2, <3>1, <3>2, <3>3, SchedulesFirst
  <2> QED BY <2>1, <2>2
<1>20. ASSUME NEW a \in Agents, ClearOwner(a) PROVE OnePlace'
  <2>1. /\ UNCHANGED <<scheduled, waitList>> /\ \A d \in Coroutines : d \in Live' <=> d \in Live
        /\ RunsKept /\ HandKept
    BY <1>20 DEF ClearOwner, Live, Runs, InHand, RunsKept, HandKept
  <2> QED BY <2>1, NobodyMoves
<1>21. ASSUME NEW a \in Agents, HandOver(a) PROVE OnePlace'
  <2>1. CASE waitList = <<>>
    <3>1. UNCHANGED <<scheduled, waitList, point>>
      BY <1>21, <2>1 DEF HandOver
    <3>2. RunsKept /\ HandKept
      BY <1>21, <2>1 DEF HandOver, Runs, InHand, RunsKept, HandKept
    <3> QED BY <3>1, <3>2, NobodyMoves DEF Live
  <2>2. CASE waitList # <<>>
    <3>1. PICK c \in Coroutines : c = Head(waitList)
      BY <2>2, FirstAlone
    <3>2. waitList' = Tail(waitList) /\ UNCHANGED <<scheduled, point>>
      BY <1>21, <2>2, <3>1 DEF HandOver
    <3>3. RunsKept /\ HandGains(a, c)
      BY <1>21, <2>2, <3>1 DEF HandOver, Runs, InHand, RunsKept, HandGains
    <3> QED BY <2>2, <3>1, <3>2, <3>3, TakesFirst
  <2> QED BY <2>1, <2>2
<1>22. ASSUME NEW a \in Agents, Pass(a) PROVE OnePlace'
  <2>1. PICK c \in Coroutines : c = next[a] /\ InHand(a, c)
    BY <1>22 DEF Pass, InHand
  <2>2. scheduled' = [scheduled EXCEPT ![c] = @ + 1] /\ UNCHANGED <<waitList, point>>
    BY <1>22, <2>1 DEF Pass
  <2>3. RunsKept /\ HandLoses(a, c)
    BY <1>22, <2>1 DEF Pass, Runs, InHand, RunsKept, HandLoses
  <2> QED BY <2>1, <2>2, <2>3, SchedulesOwn
<1>23. ASSUME NEW a \in Agents, Pause(a) PROVE OnePlace'
  <2>1. /\ UNCHANGED <<scheduled, waitList>> /\ \A d \in Coroutines : d \in Live' <=> d \in Live
        /\ RunsKept /\ HandKept
    BY <1>23 DEF Pause, Live, Runs, InHand, RunsKept, HandKept
  <2> QED BY <2>1, NobodyMoves
<1>s. ASSUME NEW a \in Agents, RemoveSearch(a) PROVE OnePlace'
  <2>1. /\ UNCHANGED <<scheduled, waitList>> /\ \A d \in Coroutines : d \in Live' <=> d \in Live
        /\ RunsKept /\ HandKept
    BY <1>s DEF RemoveSearch, Live, Runs, InHand, RunsKept, HandKept
  <2> QED BY <2>1, NobodyMoves
<1>24. ASSUME NEW a \in Agents, RemoveTake(a) PROVE OnePlace'
  <2>1. CASE waitList = <<>>
    <3>1. UNCHANGED <<scheduled, waitList, point>>
      BY <1>24, <2>1 DEF RemoveTake
    <3>2. RunsKept /\ HandKept
      BY <1>24, <2>1 DEF RemoveTake, Runs, InHand, RunsKept, HandKept
    <3> QED BY <3>1, <3>2, NobodyMoves DEF Live
  <2>2. CASE waitList # <<>>
    <3>1. PICK c \in Coroutines : c = Head(waitList)
      BY <2>2, FirstAlone
    <3>2. waitList' = Tail(waitList) /\ UNCHANGED <<scheduled, point>>
      BY <1>24, <2>2, <3>1 DEF RemoveTake
    <3>3. RunsKept /\ HandGains(a, c)
      BY <1>24, <2>2, <3>1 DEF RemoveTake, Runs, InHand, RunsKept, HandGains
    <3> QED BY <2>2, <3>1, <3>2, <3>3, TakesFirst
  <2> QED BY <2>1, <2>2
<1>25. ASSUME NEW a \in Agents, RemoveGiveUp(a) PROVE OnePlace'
  <2>1. /\ UNCHANGED <<scheduled, waitList>> /\ \A d \in Coroutines : d \in Live' <=> d \in Live
        /\ RunsKept /\ HandKept
    BY <1>25 DEF RemoveGiveUp, Live, Runs, InHand, RunsKept, HandKept
  <2> QED BY <2>1, NobodyMoves
<1>26. ASSUME NEW a \in Agents, RemoveFound(a) PROVE OnePlace'
  <2>1. /\ UNCHANGED <<scheduled, waitList>> /\ \A d \in Coroutines : d \in Live' <=> d \in Live
        /\ RunsKept /\ HandKept
    BY <1>26 DEF RemoveFound, Live, Runs, InHand, RunsKept, HandKept
  <2> QED BY <2>1, NobodyMoves
<1>27. ASSUME NEW a \in Agents, RemovePutBack(a) PROVE OnePlace'
  <2>1. PICK c \in Coroutines : c = next[a] /\ InHand(a, c)
    BY <1>27 DEF RemovePutBack, InHand
  <2>2. waitList' = Append(waitList, c) /\ UNCHANGED <<scheduled, point>>
    BY <1>27, <2>1 DEF RemovePutBack
  <2>3. RunsKept /\ HandLoses(a, c)
    BY <1>27, <2>1 DEF RemovePutBack, Runs, InHand, RunsKept, HandLoses
  <2> QED BY <2>1, <2>2, <2>3, EnqueuesOwn
<1>28. ASSUME NEW a \in Agents, RemoveCheckOwner(a) PROVE OnePlace'
  <2>1. /\ UNCHANGED <<scheduled, waitList>> /\ \A d \in Coroutines : d \in Live' <=> d \in Live
        /\ RunsKept /\ HandKept
    BY <1>28 DEF RemoveCheckOwner, Live, Runs, InHand, RunsKept, HandKept
  <2> QED BY <2>1, NobodyMoves
<1>29. ASSUME NEW a \in Agents, Removed(a) PROVE OnePlace'
  <2>1. CASE found[a]
    <3>1. PICK c \in Coroutines : c = self[a] /\ InHand(a, c)
      BY <1>29, <2>1 DEF Removed, InHand
    <3>2. scheduled' = [scheduled EXCEPT ![c] = @ + 1] /\ UNCHANGED <<waitList, point>>
      BY <1>29, <2>1, <3>1 DEF Removed
    <3>3. RunsKept /\ HandLoses(a, c)
      BY <1>29, <2>1, <3>1 DEF Removed, Runs, InHand, RunsKept, HandLoses
    <3> QED BY <3>1, <3>2, <3>3, SchedulesOwn
  <2>2. CASE ~found[a]
    <3>1. /\ UNCHANGED <<scheduled,
                         waitList>> /\ \A d \in Coroutines : d \in Live' <=> d \in Live
          /\ RunsKept /\ HandKept
      BY <1>29, <2>2 DEF Removed, Live, Runs, InHand, RunsKept, HandKept
    <3> QED BY <3>1, NobodyMoves
  <2> QED BY <2>1, <2>2
<1>30. ASSUME NEW a \in Agents, CloseDrain(a) PROVE OnePlace'
  <2>1. CASE waitList = <<>>
    <3>1. UNCHANGED <<scheduled, waitList, point>>
      BY <1>30, <2>1 DEF CloseDrain, DrainTurn
    <3>2. RunsKept /\ HandKept
      BY <1>30, <2>1 DEF CloseDrain, DrainTurn, Runs, InHand, RunsKept, HandKept
    <3> QED BY <3>1, <3>2, NobodyMoves DEF Live
  <2>2. CASE waitList # <<>>
    <3>1. PICK c \in Coroutines : c = Head(waitList)
      BY <2>2, FirstAlone
    <3>2. /\ waitList' = Tail(waitList) /\ scheduled' = [scheduled EXCEPT ![c] = @ + 1]
          /\ UNCHANGED <<point, pc, self, next, back, found>>
      BY <1>30, <2>2, <3>1 DEF CloseDrain, DrainTurn
    <3>3. RunsKept /\ HandKept
      BY <3>2 DEF Runs, InHand, RunsKept, HandKept
    <3> QED BY <2>2, <3>1, <3>2, <3>3, SchedulesFirst
  <2> QED BY <2>1, <2>2
<1>31. ASSUME NEW a \in Agents, AwaitOwner(a) PROVE OnePlace'
  <2>1. /\ UNCHANGED <<scheduled, waitList>> /\ \A d \in Coroutines : d \in Live' <=> d \in Live
        /\ RunsKept /\ HandKept
    BY <1>31 DEF AwaitOwner, Live, Runs, InHand, RunsKept, HandKept
  <2> QED BY <2>1, NobodyMoves
<1>32. ASSUME NEW a \in Agents, AssertEmpty(a) PROVE OnePlace'
  <2>1. /\ UNCHANGED <<scheduled, waitList>> /\ \A d \in Coroutines : d \in Live' <=> d \in Live
        /\ RunsKept /\ HandKept
    BY <1>32 DEF AssertEmpty, Live, Runs, InHand, RunsKept, HandKept
  <2> QED BY <2>1, NobodyMoves
<1>33. ASSUME NEW a \in Agents, AwaitScope(a) PROVE OnePlace'
  <2>1. /\ UNCHANGED <<scheduled, waitList>> /\ \A d \in Coroutines : d \in Live' <=> d \in Live
        /\ RunsKept /\ HandKept
    BY <1>33 DEF AwaitScope, Live, Runs, InHand, RunsKept, HandKept
  <2> QED BY <2>1, NobodyMoves
<1>34. ASSUME NEW a \in Agents, Close(a) PROVE OnePlace'
  <2>1. /\ UNCHANGED <<scheduled, waitList>> /\ \A d \in Coroutines : d \in Live' <=> d \in Live
        /\ RunsKept /\ HandKept
    BY <1>34 DEF Close, Live, Runs, InHand, RunsKept, HandKept
  <2> QED BY <2>1, NobodyMoves
<1>35. ASSUME NEW a \in Agents, NEW c \in Coroutines, Cancel(a, c) PROVE OnePlace'
  <2>1. /\ UNCHANGED <<scheduled, waitList>> /\ \A d \in Coroutines : d \in Live' <=> d \in Live
        /\ RunsKept /\ HandKept
    BY <1>35 DEF Cancel, Live, Runs, InHand, RunsKept, HandKept
  <2> QED BY <2>1, NobodyMoves
<1> HIDE DEF Control, InCancel, InRemoved, InUnlock, mutex, coros, agents, Goto, Go, Schedule,
             MarkCancelled, CallLock, DequeueNext
<1> QED
  BY <1>0, <1>1, <1>2, <1>3, <1>4, <1>5, <1>6, <1>7, <1>8, <1>9, <1>10, <1>11, <1>12, <1>13,
     <1>14, <1>15, <1>16, <1>17, <1>18, <1>19, <1>20, <1>21, <1>22, <1>23, <1>s, <1>24, <1>25,
     <1>26, <1>27, <1>28, <1>29, <1>30, <1>31, <1>32, <1>33, <1>34, <1>35
     DEF Next, Call, Step, LockStep, WorkerStep, CancelStep

-----------------------------------------------------------------------------
(* The entry count, the waiters and the owner *)

\* Every step keeps the count of the agents inside lock().
LEMMA MutexScopeStep == ASSUME MutexInv, [Next]_vars PROVE ScopeCounts'
<1>a. ScopeCounts
  BY DEF MutexInv
<1>b. /\ pc \in [Agents -> InBody \cup InLocks \cup Others]
      /\ back \in [Agents -> {"idle", "leave", "removed"}]
  BY DEF MutexInv, TypeOK
<1> USE <1>a, <1>b
       DEF ScopeCounts, Callers, InLock, mutex, coros, agents, At, Goto, Go, CallLock, DequeueNext
<1>0. CASE UNCHANGED vars
  <2>1. Callers' = Callers /\ scope' = scope
    BY <1>0 DEF vars
  <2> QED BY <2>1
<1>1. ASSUME NEW a \in Agents, LockEnter(a) PROVE ScopeCounts'
  <2>1. a \notin Callers /\ Callers' = Callers \cup {a} /\ scope' = scope + 1
    BY <1>1 DEF LockEnter
  <2> HIDE DEF Callers
  <2> QED BY <2>1, FS_AddElement
<1>2. ASSUME NEW a \in Agents, LockLoad(a) PROVE ScopeCounts'
  <2>1. Callers' = Callers /\ scope' = scope
    BY <1>2 DEF LockLoad
  <2> QED BY <2>1
<1>3. ASSUME NEW a \in Agents, LockEnqueue(a) PROVE ScopeCounts'
  <2>1. Callers' = Callers /\ scope' = scope
    BY <1>3 DEF LockEnqueue
  <2> QED BY <2>1
<1>4. ASSUME NEW a \in Agents, LockRecheck(a) PROVE ScopeCounts'
  <2>1. Callers' = Callers /\ scope' = scope
    BY <1>4 DEF LockRecheck
  <2> QED BY <2>1
<1>5. ASSUME NEW a \in Agents, LockDequeue(a) PROVE ScopeCounts'
  <2>1. Callers' = Callers /\ scope' = scope
    BY <1>5 DEF LockDequeue
  <2> QED BY <2>1
<1>6. ASSUME NEW a \in Agents, LockExchange(a) PROVE ScopeCounts'
  <2>1. Callers' = Callers /\ scope' = scope
    BY <1>6 DEF LockExchange
  <2> QED BY <2>1
<1>7. ASSUME NEW a \in Agents, LockExit(a) PROVE ScopeCounts'
  <2>1. a \in Callers /\ Callers' = Callers \ {a} /\ scope' = scope - 1
    BY <1>7 DEF LockExit
  <2> HIDE DEF Callers
  <2> QED BY <2>1, FS_RemoveElement
<1>8. ASSUME NEW a \in Agents, Rescue(a) PROVE ScopeCounts'
  <2>0. PICK to \in {"leave", "removed"} : DequeueNext(a, "enter", to)
    BY <1>8 DEF Rescue
  <2>1. Callers' = Callers /\ scope' = scope
    BY <1>8, <2>0 DEF Rescue
  <2> QED BY <2>1
<1>9. ASSUME NEW a \in Agents, NEW c \in Coroutines, PickUp(a, c) PROVE ScopeCounts'
  <2>1. Callers' = Callers /\ scope' = scope
    BY <1>9 DEF PickUp
  <2> QED BY <2>1
<1>10. ASSUME NEW a \in Agents, AwaitReady(a) PROVE ScopeCounts'
  <2>1. Callers' = Callers /\ scope' = scope
    BY <1>10 DEF AwaitReady
  <2> QED BY <2>1
<1>11. ASSUME NEW a \in Agents, TryLock(a) PROVE ScopeCounts'
  <2>1. Callers' = Callers /\ scope' = scope
    BY <1>11 DEF TryLock
  <2> QED BY <2>1
<1>12. ASSUME NEW a \in Agents, AwaitSuspendCancelled(a) PROVE ScopeCounts'
  <2>1. Callers' = Callers /\ scope' = scope
    BY <1>12 DEF AwaitSuspendCancelled
  <2> QED BY <2>1
<1>13. ASSUME NEW a \in Agents, AwaitSuspend(a) PROVE ScopeCounts'
  <2>1. Callers' = Callers /\ scope' = scope
    BY <1>13 DEF AwaitSuspend
  <2> QED BY <2>1
<1>14. ASSUME NEW a \in Agents, Resume(a) PROVE ScopeCounts'
  <2>1. Callers' = Callers /\ scope' = scope
    BY <1>14 DEF Resume
  <2> QED BY <2>1
<1>15. ASSUME NEW a \in Agents, Critical(a) PROVE ScopeCounts'
  <2>1. Callers' = Callers /\ scope' = scope
    BY <1>15 DEF Critical
  <2> QED BY <2>1
<1>16. ASSUME NEW a \in Agents, Leave(a) PROVE ScopeCounts'
  <2>1. Callers' = Callers /\ scope' = scope
    BY <1>16 DEF Leave
  <2> QED BY <2>1
<1>17. ASSUME NEW a \in Agents, Unlock(a) PROVE ScopeCounts'
  <2>1. Callers' = Callers /\ scope' = scope
    BY <1>17 DEF Unlock
  <2> QED BY <2>1
<1>18. ASSUME NEW a \in Agents, UnlockDrain(a) PROVE ScopeCounts'
  <2>1. Callers' = Callers /\ scope' = scope
    BY <1>18 DEF UnlockDrain, DrainTurn
  <2> QED BY <2>1
<1>19. ASSUME NEW a \in Agents, UnlockDrainAgain(a) PROVE ScopeCounts'
  <2>1. Callers' = Callers /\ scope' = scope
    BY <1>19 DEF UnlockDrainAgain, DrainTurn
  <2> QED BY <2>1
<1>20. ASSUME NEW a \in Agents, ClearOwner(a) PROVE ScopeCounts'
  <2>1. Callers' = Callers /\ scope' = scope
    BY <1>20 DEF ClearOwner
  <2> QED BY <2>1
<1>21. ASSUME NEW a \in Agents, HandOver(a) PROVE ScopeCounts'
  <2>1. Callers' = Callers /\ scope' = scope
    BY <1>21 DEF HandOver
  <2> QED BY <2>1
<1>22. ASSUME NEW a \in Agents, Pass(a) PROVE ScopeCounts'
  <2>1. Callers' = Callers /\ scope' = scope
    BY <1>22 DEF Pass
  <2> QED BY <2>1
<1>23. ASSUME NEW a \in Agents, Pause(a) PROVE ScopeCounts'
  <2>1. Callers' = Callers /\ scope' = scope
    BY <1>23 DEF Pause
  <2> QED BY <2>1
<1>s. ASSUME NEW a \in Agents, RemoveSearch(a) PROVE ScopeCounts'
  <2>1. Callers' = Callers /\ scope' = scope
    BY <1>s DEF RemoveSearch
  <2> QED BY <2>1
<1>24. ASSUME NEW a \in Agents, RemoveTake(a) PROVE ScopeCounts'
  <2>1. Callers' = Callers /\ scope' = scope
    BY <1>24 DEF RemoveTake
  <2> QED BY <2>1
<1>25. ASSUME NEW a \in Agents, RemoveGiveUp(a) PROVE ScopeCounts'
  <2>1. Callers' = Callers /\ scope' = scope
    BY <1>25 DEF RemoveGiveUp
  <2> QED BY <2>1
<1>26. ASSUME NEW a \in Agents, RemoveFound(a) PROVE ScopeCounts'
  <2>1. Callers' = Callers /\ scope' = scope
    BY <1>26 DEF RemoveFound
  <2> QED BY <2>1
<1>27. ASSUME NEW a \in Agents, RemovePutBack(a) PROVE ScopeCounts'
  <2>1. Callers' = Callers /\ scope' = scope
    BY <1>27 DEF RemovePutBack
  <2> QED BY <2>1
<1>28. ASSUME NEW a \in Agents, RemoveCheckOwner(a) PROVE ScopeCounts'
  <2>1. Callers' = Callers /\ scope' = scope
    BY <1>28 DEF RemoveCheckOwner
  <2> QED BY <2>1
<1>29. ASSUME NEW a \in Agents, Removed(a) PROVE ScopeCounts'
  <2>1. Callers' = Callers /\ scope' = scope
    BY <1>29 DEF Removed
  <2> QED BY <2>1
<1>30. ASSUME NEW a \in Agents, CloseDrain(a) PROVE ScopeCounts'
  <2>1. Callers' = Callers /\ scope' = scope
    BY <1>30 DEF CloseDrain, DrainTurn
  <2> QED BY <2>1
<1>31. ASSUME NEW a \in Agents, AwaitOwner(a) PROVE ScopeCounts'
  <2>1. Callers' = Callers /\ scope' = scope
    BY <1>31 DEF AwaitOwner
  <2> QED BY <2>1
<1>32. ASSUME NEW a \in Agents, AssertEmpty(a) PROVE ScopeCounts'
  <2>1. Callers' = Callers /\ scope' = scope
    BY <1>32 DEF AssertEmpty
  <2> QED BY <2>1
<1>33. ASSUME NEW a \in Agents, AwaitScope(a) PROVE ScopeCounts'
  <2>1. Callers' = Callers /\ scope' = scope
    BY <1>33 DEF AwaitScope
  <2> QED BY <2>1
<1>34. ASSUME NEW a \in Agents, Close(a) PROVE ScopeCounts'
  <2>1. Callers' = Callers /\ scope' = scope
    BY <1>34 DEF Close
  <2> QED BY <2>1
<1>35. ASSUME NEW a \in Agents, NEW c \in Coroutines, Cancel(a, c) PROVE ScopeCounts'
  <2>1. Callers' = Callers /\ scope' = scope
    BY <1>35 DEF Cancel
  <2> QED BY <2>1
<1> HIDE DEF ScopeCounts, Callers, InLock, mutex, coros, agents, Goto, Go, CallLock, DequeueNext
<1> QED
  BY <1>0, <1>1, <1>2, <1>3, <1>4, <1>5, <1>6, <1>7, <1>8, <1>9, <1>10, <1>11, <1>12, <1>13,
     <1>14, <1>15, <1>16, <1>17, <1>18, <1>19, <1>20, <1>21, <1>22, <1>23, <1>s, <1>24, <1>25,
     <1>26, <1>27, <1>28, <1>29, <1>30, <1>31, <1>32, <1>33, <1>34, <1>35
     DEF Next, Call, Step, LockStep, WorkerStep, CancelStep

\* The first of the wait list and the rest of it.
LEMMA FirstAwaits ==
    ASSUME MutexInv, waitList # <<>>
    PROVE  /\ point[Head(waitList)] = "await" /\ Head(waitList) \in Coroutines
           /\ \A i \in 1 .. Len(Tail(waitList)) : point[Tail(waitList)[i]] = "await"
<1>1. waitList \in Seq(Coroutines) /\ Len(waitList) \in Nat /\ Len(waitList) > 0
  BY EmptySeq, LenProperties DEF MutexInv, TypeOK
<1>2. /\ Head(waitList) = waitList[1] /\ Head(waitList) \in Coroutines
      /\ Len(Tail(waitList)) = Len(waitList) - 1
      /\ \A i \in 1 .. Len(waitList) - 1 : Tail(waitList)[i] = waitList[i + 1]
  BY <1>1, HeadTailProperties
<1>3. \A i \in 1 .. Len(waitList) : point[waitList[i]] = "await"
  BY DEF MutexInv, Awaiting
<1>4. 1 \in 1 .. Len(waitList) /\ \A i \in 1 .. Len(waitList) - 1 : i + 1 \in 1 .. Len(waitList)
  BY <1>1
<1> QED BY <1>2, <1>3, <1>4

\* Every step leaves those that wait at await_resume().
LEMMA MutexAwaitingStep == ASSUME MutexInv, [Next]_vars PROVE Awaiting'
<1>a. Awaiting /\ Control
  BY DEF MutexInv
<1>b. /\ pc \in [Agents -> InBody \cup InLocks \cup Others]
      /\ self \in [Agents -> Coroutines \cup {NULL}]
      /\ next \in [Agents -> Coroutines \cup {NULL}] /\ found \in [Agents -> BOOLEAN]
      /\ back \in [Agents -> {"idle", "leave", "removed"}]
      /\ point \in [Coroutines -> {"start", "await", "done"}]
      /\ waitList \in Seq(Coroutines) /\ Len(waitList) \in Nat
      /\ \A i \in 1 .. Len(waitList) : waitList[i] \in Coroutines
      /\ NULL \notin Coroutines
  BY NullAssumption DEF MutexInv, TypeOK
<1> USE <1>a, <1>b
       DEF Awaiting, Control, InCancel, InRemoved, InUnlock, Removing, Handing, InBody, InLocks,
           mutex, coros, agents, At, Goto, Go, Schedule, MarkCancelled, CallLock, DequeueNext
<1>0. CASE UNCHANGED vars
  BY <1>0 DEF vars
<1>1. ASSUME NEW a \in Agents, LockEnter(a) PROVE Awaiting'
  BY <1>1 DEF LockEnter
<1>2. ASSUME NEW a \in Agents, LockLoad(a) PROVE Awaiting'
  BY <1>2 DEF LockLoad
<1>3. ASSUME NEW a \in Agents, LockEnqueue(a) PROVE Awaiting'
  <2>1. next[a] \in Coroutines /\ point[next[a]] = "await"
    BY <1>3 DEF LockEnqueue
  <2>2. \A i \in 1 .. Len(waitList') : point[waitList'[i]] = "await"
    <3>1. waitList' = Append(waitList, next[a])
      BY <1>3 DEF LockEnqueue
    <3>2. \A i \in 1 .. Len(waitList') :
             waitList'[i] = next[a] \/ (i \in 1 .. Len(waitList) /\ waitList'[i] = waitList[i])
      BY <2>1, <3>1
    <3> QED BY <2>1, <3>2
  <2> QED BY <1>3, <2>2 DEF LockEnqueue
<1>4. ASSUME NEW a \in Agents, LockRecheck(a) PROVE Awaiting'
  BY <1>4 DEF LockRecheck
<1>5. ASSUME NEW a \in Agents, LockDequeue(a) PROVE Awaiting'
  <2>1. CASE waitList = <<>>
    BY <1>5, <2>1 DEF LockDequeue
  <2>2. CASE waitList # <<>>
    <3>1. /\ point[Head(waitList)] = "await" /\ Head(waitList) \in Coroutines
          /\ \A i \in 1 .. Len(Tail(waitList)) : point[Tail(waitList)[i]] = "await"
      BY <2>2, FirstAwaits
    <3>2. /\ waitList' = Tail(waitList) /\ next' = [next EXCEPT ![a] = Head(waitList)]
          /\ UNCHANGED <<self, found, point>>
      BY <1>5, <2>2 DEF LockDequeue
    <3>3. \A b \in Agents \ {a} : pc'[b] = pc[b]
      BY <1>5 DEF LockDequeue
    <3> QED BY <3>1, <3>2, <3>3
  <2> QED BY <2>1, <2>2
<1>6. ASSUME NEW a \in Agents, LockExchange(a) PROVE Awaiting'
  BY <1>6 DEF LockExchange
<1>7. ASSUME NEW a \in Agents, LockExit(a) PROVE Awaiting'
  BY <1>7 DEF LockExit
<1>8. ASSUME NEW a \in Agents, Rescue(a) PROVE Awaiting'
  <2>1. CASE waitList = <<>>
    BY <1>8, <2>1 DEF Rescue
  <2>2. CASE waitList # <<>>
    <3>1. /\ point[Head(waitList)] = "await" /\ Head(waitList) \in Coroutines
          /\ \A i \in 1 .. Len(Tail(waitList)) : point[Tail(waitList)[i]] = "await"
      BY <2>2, FirstAwaits
    <3>2. /\ waitList' = Tail(waitList) /\ next' = [next EXCEPT ![a] = Head(waitList)]
          /\ UNCHANGED <<self, found, point>>
      BY <1>8, <2>2 DEF Rescue
    <3>3. \A b \in Agents \ {a} : pc'[b] = pc[b]
      BY <1>8 DEF Rescue
    <3> QED BY <3>1, <3>2, <3>3
  <2> QED BY <2>1, <2>2
<1>9. ASSUME NEW a \in Agents, NEW c \in Coroutines, PickUp(a, c) PROVE Awaiting'
  BY <1>9 DEF PickUp
<1>10. ASSUME NEW a \in Agents, AwaitReady(a) PROVE Awaiting'
  BY <1>10 DEF AwaitReady
<1>11. ASSUME NEW a \in Agents, TryLock(a) PROVE Awaiting'
  BY <1>11 DEF TryLock
<1>12. ASSUME NEW a \in Agents, AwaitSuspendCancelled(a) PROVE Awaiting'
  <2>1. \A d \in Coroutines : point[d] = "await" => point'[d] = "await"
    BY <1>12 DEF AwaitSuspendCancelled
  <2>2. UNCHANGED <<waitList, self,
                    found>> /\ self[a] \in Coroutines /\ point'[self[a]] = "await"
    BY <1>12 DEF AwaitSuspendCancelled
  <2>3. \A b \in Agents : pc'[b] \in Handing => (b = a /\ next'[b] = self[a])
                                               \/ (pc[b] \in Handing /\ next'[b] = next[b])
    BY <1>12 DEF AwaitSuspendCancelled
  <2>4. \A i \in 1 .. Len(waitList) : point'[waitList[i]] = "await"
    BY <2>1
  <2>5. \A b \in Agents : pc'[b] \in Handing => point'[next'[b]] = "await"
    BY <2>1, <2>2, <2>3
  <2>6. \A b \in Agents : found[b] => point'[self[b]] = "await"
    BY <2>1
  <2> QED BY <2>2, <2>4, <2>5, <2>6
<1>13. ASSUME NEW a \in Agents, AwaitSuspend(a) PROVE Awaiting'
  <2>1. \A d \in Coroutines : point[d] = "await" => point'[d] = "await"
    BY <1>13 DEF AwaitSuspend
  <2>2. UNCHANGED <<waitList, self,
                    found>> /\ self[a] \in Coroutines /\ point'[self[a]] = "await"
    BY <1>13 DEF AwaitSuspend
  <2>3. \A b \in Agents : pc'[b] \in Handing => (b = a /\ next'[b] = self[a])
                                               \/ (pc[b] \in Handing /\ next'[b] = next[b])
    BY <1>13 DEF AwaitSuspend
  <2>4. \A i \in 1 .. Len(waitList) : point'[waitList[i]] = "await"
    BY <2>1
  <2>5. \A b \in Agents : pc'[b] \in Handing => point'[next'[b]] = "await"
    BY <2>1, <2>2, <2>3
  <2>6. \A b \in Agents : found[b] => point'[self[b]] = "await"
    BY <2>1
  <2> QED BY <2>2, <2>4, <2>5, <2>6
<1>14. ASSUME NEW a \in Agents, Resume(a) PROVE Awaiting'
  BY <1>14 DEF Resume
<1>15. ASSUME NEW a \in Agents, Critical(a) PROVE Awaiting'
  BY <1>15 DEF Critical
<1>16. ASSUME NEW a \in Agents, Leave(a) PROVE Awaiting'
  <2>1. PICK c \in Coroutines : c = self[a] /\ Runs(a, c)
    BY <1>16 DEF Leave, Runs
  <2>2. ~Queued(waitList, c) /\ \A b \in Agents : ~InHand(b, c)
    BY <2>1, RunsAlone DEF MutexInv
  <2>3. \A d \in Coroutines \ {c} : point'[d] = point[d]
    BY <1>16, <2>1 DEF Leave
  <2>4. /\ UNCHANGED <<waitList, self, next, found>>
        /\ \A b \in Agents : pc'[b] \in Handing => pc[b] \in Handing
    BY <1>16 DEF Leave
  <2>5. \A i \in 1 .. Len(waitList) : waitList[i] # c
    BY <2>2 DEF Queued
  <2>6. \A b \in Agents : (pc[b] \in Handing => next[b] # c) /\ (found[b] => self[b] # c)
    BY <2>2 DEF InHand
  <2> QED BY <2>3, <2>4, <2>5, <2>6
<1>17. ASSUME NEW a \in Agents, Unlock(a) PROVE Awaiting'
  BY <1>17 DEF Unlock
<1>18. ASSUME NEW a \in Agents, UnlockDrain(a) PROVE Awaiting'
  <2>1. CASE waitList = <<>>
    BY <1>18, <2>1 DEF UnlockDrain, DrainTurn
  <2>2. CASE waitList # <<>>
    <3>1. \A i \in 1 .. Len(Tail(waitList)) : point[Tail(waitList)[i]] = "await"
      BY <2>2, FirstAwaits
    <3>2. waitList' = Tail(waitList) /\ UNCHANGED <<pc, self, next, found, point>>
      BY <1>18, <2>2 DEF UnlockDrain, DrainTurn
    <3> QED BY <3>1, <3>2
  <2> QED BY <2>1, <2>2
<1>19. ASSUME NEW a \in Agents, UnlockDrainAgain(a) PROVE Awaiting'
  <2>1. CASE waitList = <<>>
    BY <1>19, <2>1 DEF UnlockDrainAgain, DrainTurn
  <2>2. CASE waitList # <<>>
    <3>1. \A i \in 1 .. Len(Tail(waitList)) : point[Tail(waitList)[i]] = "await"
      BY <2>2, FirstAwaits
    <3>2. waitList' = Tail(waitList) /\ UNCHANGED <<pc, self, next, found, point>>
      BY <1>19, <2>2 DEF UnlockDrainAgain, DrainTurn
    <3> QED BY <3>1, <3>2
  <2> QED BY <2>1, <2>2
<1>20. ASSUME NEW a \in Agents, ClearOwner(a) PROVE Awaiting'
  BY <1>20 DEF ClearOwner
<1>21. ASSUME NEW a \in Agents, HandOver(a) PROVE Awaiting'
  <2>1. CASE waitList = <<>>
    BY <1>21, <2>1 DEF HandOver
  <2>2. CASE waitList # <<>>
    <3>1. /\ point[Head(waitList)] = "await" /\ Head(waitList) \in Coroutines
          /\ \A i \in 1 .. Len(Tail(waitList)) : point[Tail(waitList)[i]] = "await"
      BY <2>2, FirstAwaits
    <3>2. /\ waitList' = Tail(waitList) /\ next' = [next EXCEPT ![a] = Head(waitList)]
          /\ UNCHANGED <<self, found, point>>
      BY <1>21, <2>2 DEF HandOver
    <3>3. \A b \in Agents \ {a} : pc'[b] = pc[b]
      BY <1>21 DEF HandOver
    <3> QED BY <3>1, <3>2, <3>3
  <2> QED BY <2>1, <2>2
<1>22. ASSUME NEW a \in Agents, Pass(a) PROVE Awaiting'
  BY <1>22 DEF Pass
<1>23. ASSUME NEW a \in Agents, Pause(a) PROVE Awaiting'
  BY <1>23 DEF Pause
<1>s. ASSUME NEW a \in Agents, RemoveSearch(a) PROVE Awaiting'
  BY <1>s DEF RemoveSearch
<1>24. ASSUME NEW a \in Agents, RemoveTake(a) PROVE Awaiting'
  <2>1. CASE waitList = <<>>
    BY <1>24, <2>1 DEF RemoveTake
  <2>2. CASE waitList # <<>>
    <3>1. /\ point[Head(waitList)] = "await" /\ Head(waitList) \in Coroutines
          /\ \A i \in 1 .. Len(Tail(waitList)) : point[Tail(waitList)[i]] = "await"
      BY <2>2, FirstAwaits
    <3>2. /\ waitList' = Tail(waitList) /\ next' = [next EXCEPT ![a] = Head(waitList)]
          /\ UNCHANGED <<self, found, point>>
      BY <1>24, <2>2 DEF RemoveTake
    <3>3. \A b \in Agents \ {a} : pc'[b] = pc[b]
      BY <1>24 DEF RemoveTake
    <3> QED BY <3>1, <3>2, <3>3
  <2> QED BY <2>1, <2>2
<1>25. ASSUME NEW a \in Agents, RemoveGiveUp(a) PROVE Awaiting'
  BY <1>25 DEF RemoveGiveUp
<1>26. ASSUME NEW a \in Agents, RemoveFound(a) PROVE Awaiting'
  BY <1>26 DEF RemoveFound
<1>27. ASSUME NEW a \in Agents, RemovePutBack(a) PROVE Awaiting'
  <2>1. next[a] \in Coroutines /\ point[next[a]] = "await"
    BY <1>27 DEF RemovePutBack
  <2>2. \A i \in 1 .. Len(waitList') : point[waitList'[i]] = "await"
    <3>1. waitList' = Append(waitList, next[a])
      BY <1>27 DEF RemovePutBack
    <3>2. \A i \in 1 .. Len(waitList') :
             waitList'[i] = next[a] \/ (i \in 1 .. Len(waitList) /\ waitList'[i] = waitList[i])
      BY <2>1, <3>1
    <3> QED BY <2>1, <3>2
  <2> QED BY <1>27, <2>2 DEF RemovePutBack
<1>28. ASSUME NEW a \in Agents, RemoveCheckOwner(a) PROVE Awaiting'
  BY <1>28 DEF RemoveCheckOwner
<1>29. ASSUME NEW a \in Agents, Removed(a) PROVE Awaiting'
  BY <1>29 DEF Removed
<1>30. ASSUME NEW a \in Agents, CloseDrain(a) PROVE Awaiting'
  <2>1. CASE waitList = <<>>
    BY <1>30, <2>1 DEF CloseDrain, DrainTurn
  <2>2. CASE waitList # <<>>
    <3>1. \A i \in 1 .. Len(Tail(waitList)) : point[Tail(waitList)[i]] = "await"
      BY <2>2, FirstAwaits
    <3>2. waitList' = Tail(waitList) /\ UNCHANGED <<pc, self, next, found, point>>
      BY <1>30, <2>2 DEF CloseDrain, DrainTurn
    <3> QED BY <3>1, <3>2
  <2> QED BY <2>1, <2>2
<1>31. ASSUME NEW a \in Agents, AwaitOwner(a) PROVE Awaiting'
  BY <1>31 DEF AwaitOwner
<1>32. ASSUME NEW a \in Agents, AssertEmpty(a) PROVE Awaiting'
  BY <1>32 DEF AssertEmpty
<1>33. ASSUME NEW a \in Agents, AwaitScope(a) PROVE Awaiting'
  BY <1>33 DEF AwaitScope
<1>34. ASSUME NEW a \in Agents, Close(a) PROVE Awaiting'
  BY <1>34 DEF Close
<1>35. ASSUME NEW a \in Agents, NEW c \in Coroutines, Cancel(a, c) PROVE Awaiting'
  BY <1>35 DEF Cancel
<1> HIDE DEF Awaiting, Control, InCancel, InRemoved, InUnlock, mutex, coros, agents, Goto, Go,
             Schedule, MarkCancelled, CallLock, DequeueNext
<1> QED
  BY <1>0, <1>1, <1>2, <1>3, <1>4, <1>5, <1>6, <1>7, <1>8, <1>9, <1>10, <1>11, <1>12, <1>13,
     <1>14, <1>15, <1>16, <1>17, <1>18, <1>19, <1>20, <1>21, <1>22, <1>23, <1>s, <1>24, <1>25,
     <1>26, <1>27, <1>28, <1>29, <1>30, <1>31, <1>32, <1>33, <1>34, <1>35
     DEF Next, Call, Step, LockStep, WorkerStep, CancelStep

\* An agent is inside the body of its coroutine.
Inside(w) == pc[w] \in InBody \/ InUnlock(w)

\* Nobody else runs, has, schedules or queues it.
LEMMA InsideAlone ==
    ASSUME MutexInv, NEW w \in Agents, Inside(w)
    PROVE  /\ self[w] \in Coroutines /\ scheduled[self[w]] = 0
           /\ \A v \in Agents : Inside(v) /\ self[v] = self[w] => v = w
           /\ \A v \in Agents : pc[v] \in Handing => next[v] # self[w]
           /\ waitList # <<>> => Head(waitList) # self[w]
<1>1. self[w] \in Coroutines /\ Runs(w, self[w])
  BY DEF MutexInv, Control, Inside, InUnlock, Runs
<1>2. /\ scheduled[self[w]] = 0
      /\ \A v \in Agents : ~InHand(v, self[w]) /\ (Runs(v, self[w]) => v = w)
  BY <1>1, RunsAlone DEF MutexInv
<1>3. \A v \in Agents : Inside(v) => Runs(v, self[v])
  BY DEF MutexInv, Control, Inside, InUnlock, Runs
<1>4. \A v \in Agents : pc[v] \in Handing => InHand(v, next[v])
  BY DEF Handing, InHand
<1>5. waitList # <<>> => Head(waitList) # self[w]
  BY <1>1, FirstAlone DEF MutexInv
<1> QED BY <1>1, <1>2, <1>3, <1>4, <1>5

\* Nobody runs a scheduled coroutine, and nobody has it in hand.
LEMMA ReadyNowhere ==
    ASSUME MutexInv, NEW c \in Coroutines, scheduled[c] > 0
    PROVE  /\ \A v \in Agents : Inside(v) => self[v] # c
           /\ \A v \in Agents : pc[v] \in Handing => next[v] # c
<1>1. \A v \in Agents : ~Runs(v, c) /\ ~InHand(v, c)
  BY ReadyAlone DEF MutexInv
<1>2. \A v \in Agents : Inside(v) => Runs(v, self[v])
  BY DEF MutexInv, Control, Inside, InUnlock, Runs
<1>3. \A v \in Agents : pc[v] \in Handing => InHand(v, next[v])
  BY DEF Handing, InHand
<1> QED BY <1>1, <1>2, <1>3

\* Every step keeps who may run: the owner changes only when it is free, or by the
\* agent that runs it, and then nobody else runs the old or the new owner.
LEMMA MutexOwnerStep == ASSUME MutexInv, [Next]_vars PROVE Ownership'
<1>a. Ownership
  BY DEF MutexInv
<1>b. /\ pc \in [Agents -> InBody \cup InLocks \cup Others]
      /\ self \in [Agents -> Coroutines \cup {NULL}]
      /\ back \in [Agents -> {"idle", "leave", "removed"}]
      /\ point \in [Coroutines -> {"start", "await", "done"}]
      /\ scheduled \in [Coroutines -> Nat] /\ cancelled \in [Coroutines -> BOOLEAN]
      /\ mutexCancelled \in BOOLEAN /\ found \in [Agents -> BOOLEAN]
      /\ next \in [Agents -> Coroutines \cup {NULL}]
      /\ NULL \notin Coroutines
  BY NullAssumption DEF MutexInv, TypeOK
<1>c. \A w \in Agents : Inside(w) =>
          /\ self[w] \in Coroutines /\ scheduled[self[w]] = 0
          /\ \A v \in Agents : Inside(v) /\ self[v] = self[w] => v = w
          /\ \A v \in Agents : pc[v] \in Handing => next[v] # self[w]
  BY InsideAlone
<1>d. \A c \in Coroutines : scheduled[c] > 0 =>
          /\ \A v \in Agents : Inside(v) => self[v] # c
          /\ \A v \in Agents : pc[v] \in Handing => next[v] # c
  BY ReadyNowhere
<1>e. \A a \in Agents : /\ pc[a] \in Handing => point[next[a]] = "await" /\ next[a] \in Coroutines
                        /\ found[a] => point[self[a]] = "await" /\ self[a] \in Coroutines
                                       /\ cancelled[self[a]]
  BY DEF MutexInv, Awaiting, Control, InCancel
<1> USE <1>a, <1>b
       DEF Ownership, Releasing, Released, MayRun, InUnlock, Inside, Handing, InBody, InLocks,
           mutex, coros, agents, At, Goto, Go, Schedule, MarkCancelled, CallLock, DequeueNext
<1>0. CASE UNCHANGED vars
  BY <1>0 DEF vars
<1>1. ASSUME NEW a \in Agents, LockEnter(a) PROVE Ownership'
  BY <1>1 DEF LockEnter
<1>2. ASSUME NEW a \in Agents, LockLoad(a) PROVE Ownership'
  BY <1>2 DEF LockLoad
<1>3. ASSUME NEW a \in Agents, LockEnqueue(a) PROVE Ownership'
  BY <1>3 DEF LockEnqueue
<1>4. ASSUME NEW a \in Agents, LockRecheck(a) PROVE Ownership'
  BY <1>4 DEF LockRecheck
<1>5. ASSUME NEW a \in Agents, LockDequeue(a) PROVE Ownership'
  BY <1>5 DEF LockDequeue
<1>6. ASSUME NEW a \in Agents, LockExchange(a) PROVE Ownership'
  BY <1>6, <1>c, <1>d, <1>e DEF LockExchange
<1>7. ASSUME NEW a \in Agents, LockExit(a) PROVE Ownership'
  BY <1>7 DEF LockExit
<1>8. ASSUME NEW a \in Agents, Rescue(a) PROVE Ownership'
  <2>0. PICK to \in {"leave", "removed"} :
          /\ to = "leave" => pc[a] = "rescue"
          /\ to = "removed" => pc[a] = "rescueRemoved"
          /\ back' = [back EXCEPT ![a] = to]
          /\ UNCHANGED <<self, owner, mutexCancelled, cancelled, scheduled, point>>
          /\ pc' = [pc EXCEPT ![a] = "enter"] \/ pc' = [pc EXCEPT ![a] = to]
    BY <1>8 DEF Rescue
  <2>1. to = "leave" => owner # self[a]
    BY <2>0
  <2> QED BY <2>0, <2>1
<1>9. ASSUME NEW a \in Agents, NEW c \in Coroutines, PickUp(a, c) PROVE Ownership'
  BY <1>9, <1>c, <1>d, <1>e DEF PickUp
<1>10. ASSUME NEW a \in Agents, AwaitReady(a) PROVE Ownership'
  BY <1>10 DEF AwaitReady
<1>11. ASSUME NEW a \in Agents, TryLock(a) PROVE Ownership'
  BY <1>11, <1>c, <1>d, <1>e DEF TryLock
<1>12. ASSUME NEW a \in Agents, AwaitSuspendCancelled(a) PROVE Ownership'
  BY <1>12, <1>c, <1>d, <1>e DEF AwaitSuspendCancelled
<1>13. ASSUME NEW a \in Agents, AwaitSuspend(a) PROVE Ownership'
  BY <1>13, <1>c, <1>d, <1>e DEF AwaitSuspend
<1>14. ASSUME NEW a \in Agents, Resume(a) PROVE Ownership'
  BY <1>14, <1>c, <1>d, <1>e DEF Resume
<1>15. ASSUME NEW a \in Agents, Critical(a) PROVE Ownership'
  BY <1>15 DEF Critical
<1>16. ASSUME NEW a \in Agents, Leave(a) PROVE Ownership'
  BY <1>16, <1>c, <1>d, <1>e DEF Leave
<1>17. ASSUME NEW a \in Agents, Unlock(a) PROVE Ownership'
  BY <1>17, <1>c, <1>d, <1>e DEF Unlock
<1>18. ASSUME NEW a \in Agents, UnlockDrain(a) PROVE Ownership'
  <2>1. CASE waitList = <<>>
    BY <1>18, <2>1, <1>c DEF UnlockDrain, DrainTurn
  <2>2. CASE waitList # <<>>
    <3>1. PICK c \in Coroutines : c = Head(waitList) /\ point[c] = "await"
      BY <2>2, FirstAwaits
    <3>2. /\ cancelled' = [cancelled EXCEPT ![c] = TRUE]
          /\ scheduled' = [scheduled EXCEPT ![c] = @ + 1]
          /\ UNCHANGED <<pc, self, back, point, owner, mutexCancelled>>
      BY <1>18, <2>2, <3>1 DEF UnlockDrain, DrainTurn
    <3> QED BY <3>1, <3>2
  <2> QED BY <2>1, <2>2
<1>19. ASSUME NEW a \in Agents, UnlockDrainAgain(a) PROVE Ownership'
  <2>1. CASE waitList = <<>>
    BY <1>19, <2>1, <1>c DEF UnlockDrainAgain, DrainTurn
  <2>2. CASE waitList # <<>>
    <3>1. PICK c \in Coroutines : c = Head(waitList) /\ point[c] = "await"
      BY <2>2, FirstAwaits
    <3>2. /\ cancelled' = [cancelled EXCEPT ![c] = TRUE]
          /\ scheduled' = [scheduled EXCEPT ![c] = @ + 1]
          /\ UNCHANGED <<pc, self, back, point, owner, mutexCancelled>>
      BY <1>19, <2>2, <3>1 DEF UnlockDrainAgain, DrainTurn
    <3> QED BY <3>1, <3>2
  <2> QED BY <2>1, <2>2
<1>20. ASSUME NEW a \in Agents, ClearOwner(a) PROVE Ownership'
  BY <1>20, <1>c, <1>d, <1>e DEF ClearOwner
<1>21. ASSUME NEW a \in Agents, HandOver(a) PROVE Ownership'
  BY <1>21, <1>c, <1>d, <1>e DEF HandOver
<1>22. ASSUME NEW a \in Agents, Pass(a) PROVE Ownership'
  BY <1>22, <1>c, <1>d, <1>e DEF Pass
<1>23. ASSUME NEW a \in Agents, Pause(a) PROVE Ownership'
  BY <1>23 DEF Pause
<1>s. ASSUME NEW a \in Agents, RemoveSearch(a) PROVE Ownership'
  BY <1>s DEF RemoveSearch
<1>24. ASSUME NEW a \in Agents, RemoveTake(a) PROVE Ownership'
  BY <1>24 DEF RemoveTake
<1>25. ASSUME NEW a \in Agents, RemoveGiveUp(a) PROVE Ownership'
  BY <1>25 DEF RemoveGiveUp
<1>26. ASSUME NEW a \in Agents, RemoveFound(a) PROVE Ownership'
  BY <1>26 DEF RemoveFound
<1>27. ASSUME NEW a \in Agents, RemovePutBack(a) PROVE Ownership'
  BY <1>27 DEF RemovePutBack
<1>28. ASSUME NEW a \in Agents, RemoveCheckOwner(a) PROVE Ownership'
  BY <1>28 DEF RemoveCheckOwner
<1>29. ASSUME NEW a \in Agents, Removed(a) PROVE Ownership'
  BY <1>29, <1>c, <1>d, <1>e DEF Removed
<1>30. ASSUME NEW a \in Agents, CloseDrain(a) PROVE Ownership'
  <2>1. CASE waitList = <<>>
    BY <1>30, <2>1, <1>c DEF CloseDrain, DrainTurn
  <2>2. CASE waitList # <<>>
    <3>1. PICK c \in Coroutines : c = Head(waitList) /\ point[c] = "await"
      BY <2>2, FirstAwaits
    <3>2. /\ cancelled' = [cancelled EXCEPT ![c] = TRUE]
          /\ scheduled' = [scheduled EXCEPT ![c] = @ + 1]
          /\ UNCHANGED <<pc, self, back, point, owner, mutexCancelled>>
      BY <1>30, <2>2, <3>1 DEF CloseDrain, DrainTurn
    <3> QED BY <3>1, <3>2
  <2> QED BY <2>1, <2>2
<1>31. ASSUME NEW a \in Agents, AwaitOwner(a) PROVE Ownership'
  BY <1>31 DEF AwaitOwner
<1>32. ASSUME NEW a \in Agents, AssertEmpty(a) PROVE Ownership'
  BY <1>32 DEF AssertEmpty
<1>33. ASSUME NEW a \in Agents, AwaitScope(a) PROVE Ownership'
  BY <1>33 DEF AwaitScope
<1>34. ASSUME NEW a \in Agents, Close(a) PROVE Ownership'
  BY <1>34 DEF Close
<1>35. ASSUME NEW a \in Agents, NEW c \in Coroutines, Cancel(a, c) PROVE Ownership'
  BY <1>35 DEF Cancel
<1> HIDE DEF Ownership, MayRun, InUnlock, Inside, mutex, coros, agents, Goto, Go, Schedule,
             MarkCancelled, CallLock, DequeueNext
<1> QED
  BY <1>0, <1>1, <1>2, <1>3, <1>4, <1>5, <1>6, <1>7, <1>8, <1>9, <1>10, <1>11, <1>12, <1>13,
     <1>14, <1>15, <1>16, <1>17, <1>18, <1>19, <1>20, <1>21, <1>22, <1>23, <1>s, <1>24, <1>25,
     <1>26, <1>27, <1>28, <1>29, <1>30, <1>31, <1>32, <1>33, <1>34, <1>35
     DEF Next, Call, Step, LockStep, WorkerStep, CancelStep

-----------------------------------------------------------------------------
(* The destructor of a mutex at which no call is under way *)

\* When ~AsyncMutex() begins only the owner runs, and all others wait.
LEMMA DestructionBegins ==
    ASSUME MutexInv, Closing, QuietDestroy, NEW k \in Agents, Close(k)
    PROVE  Closing'
<1>a. TypeOK /\ OnePlace /\ Control /\ Ownership /\ Closing
  BY DEF MutexInv
<1>b. pc \in [Agents -> InBody \cup InLocks \cup Others] /\ waitList \in Seq(Coroutines)
  BY DEF MutexInv, TypeOK
<1>1. /\ ~mutexCancelled /\ mutexCancelled' /\ pc' = [pc EXCEPT ![k] = "closing"]
      /\ UNCHANGED <<owner, waitList, cancelled, scheduled, point, self>>
  BY DEF Close, Go, Goto, coros, agents
<1>2. \A j \in Agents : pc'[j] \in Destructing => j = k
  BY <1>a, <1>b, <1>1 DEF Closing
<1>3. \A j \in Agents : pc'[j] \in Destructing => mutexCancelled' /\ pc'[j] = "closing"
  BY <1>b, <1>1, <1>2
<1>4. ASSUME k \in Destroyers
      PROVE  /\ \A a \in Agents \ {k} : pc'[a] \in OnTheWayOut \cup {"idle", "gone"}
             /\ \A w \in Agents : pc'[w] \notin {"drain", "releaseCancelled", "drainAgain", "leave"}
             /\ \A c \in Coroutines : scheduled'[c] > 0 => point'[c] # "start"
  <2>1. MayDestroy
    BY <1>4, RolesAssumption DEF Close
  <2>2. \A a \in Agents : ~InCall(a)
    BY <2>1 DEF MayDestroy
  <2>3. \A c \in Coroutines : point[c] = "done" \/ owner = c \/ Queued(waitList, c)
    BY <1>b, <2>1, <2>2 DEF MayDestroy, Admitted, InCall, Queued
  <2>4. ASSUME NEW a \in Agents PROVE pc[a] # "leave"
    <3> SUFFICES ASSUME pc[a] = "leave" PROVE FALSE
      OBVIOUS
    <3>1. self[a] \in Coroutines /\ Runs(a, self[a])
      BY <1>a DEF Control, Runs, InBody
    <3>2. point[self[a]] # "done" /\ ~Queued(waitList, self[a])
      BY <1>a, <3>1, RunsAlone DEF Live
    <3>3. owner # self[a]
      BY <1>a DEF Ownership, Released
    <3> QED BY <2>3, <3>1, <3>2, <3>3
  <2>5. \A a \in Agents : pc[a] \in {"idle", "resume", "critical", "gone"} \cup Destructing
    BY <1>b, <2>2, <2>4 DEF InCall, InLock, InBody, InLocks, Others, Destructing
  <2>6. ASSUME NEW c \in Coroutines, scheduled[c] > 0 PROVE point[c] # "start"
    <3>1. point[c] # "done" /\ ~Queued(waitList, c)
      BY <1>a, <2>6, ReadyAlone DEF Live
    <3>2. owner = c
      BY <2>3, <3>1
    <3> QED BY <1>a, <2>6, <3>2 DEF Ownership
  <2>7. \A a \in Agents \ {k} : pc'[a] = pc[a] /\ pc'[a] \notin Destructing
    BY <1>b, <1>1, <1>2
  <2>8. pc'[k] = "closing"
    BY <1>b, <1>1
  <2> QED BY <1>1, <2>5, <2>6, <2>7, <2>8 DEF OnTheWayOut
<1>5. Destroyers \subseteq Agents
  BY DEF Agents
<1> QED BY <1>2, <1>3, <1>4, <1>5 DEF Closing, At

\* Nobody is inside lock(), and nobody is about to lock, once a destructor runs.
LEMMA NobodyDestructs ==
    ASSUME Closing, NEW a \in Agents, UNCHANGED mutexCancelled,
           pc[a] \notin OnTheWayOut \cup {"idle", "gone"} \cup Destructing,
           \A b \in Agents \ {a} : pc'[b] = pc[b], pc'[a] \notin Destructing
    PROVE  Closing'
<1>1. \A k \in Destroyers : pc[k] \notin Destructing
  BY DEF Closing, Agents
<1>2. \A k \in Agents : pc'[k] \in Destructing => pc[k] \in Destructing /\ pc'[k] = pc[k]
  OBVIOUS
<1>3. Destroyers \subseteq Agents
  BY DEF Agents
<1> QED BY <1>1, <1>2, <1>3 DEF Closing

\* From there on every step leads out: whoever still runs learns that the mutex is
\* cancelled, and nobody locks it or joins the wait list any more.
LEMMA MutexClosingStep ==
    ASSUME MutexInv, Closing, QuietDestroy, [Next]_vars PROVE Closing'
<1>a. Closing /\ Destroyers \subseteq Agents
  BY DEF Agents
<1>b. /\ pc \in [Agents -> InBody \cup InLocks \cup Others]
      /\ self \in [Agents -> Coroutines \cup {NULL}]
      /\ back \in [Agents -> {"idle", "leave", "removed"}]
      /\ point \in [Coroutines -> {"start", "await", "done"}]
      /\ scheduled \in [Coroutines -> Nat] /\ cancelled \in [Coroutines -> BOOLEAN]
      /\ mutexCancelled \in BOOLEAN /\ waitList \in Seq(Coroutines)
  BY DEF MutexInv, TypeOK
<1>c. \A w \in Agents : pc[w] \in InBody => self[w] \in Coroutines /\ scheduled[self[w]] = 0
  BY InsideAlone DEF Inside
<1>q. QuietDestroy
  OBVIOUS
<1> USE <1>a, <1>b
       DEF Closing, Destructing, OnTheWayOut, InBody, mutex, coros, agents, At, Goto, Go,
           Schedule, MarkCancelled, CallLock, DequeueNext
<1>0. CASE UNCHANGED vars
  BY <1>0 DEF vars
<1>1. ASSUME NEW a \in Agents, LockEnter(a) PROVE Closing'
  BY <1>1 DEF LockEnter
<1>2. ASSUME NEW a \in Agents, LockLoad(a) PROVE Closing'
  BY <1>2 DEF LockLoad
<1>3. ASSUME NEW a \in Agents, LockEnqueue(a) PROVE Closing'
  <2>1. /\ pc[a] \notin OnTheWayOut \cup {"idle", "gone"} \cup Destructing
        /\ \A b \in Agents \ {a} : pc'[b] = pc[b]
        /\ pc'[a] \notin Destructing /\ UNCHANGED mutexCancelled
    BY <1>3 DEF LockEnqueue
  <2> HIDE DEF Closing, OnTheWayOut, Destructing
  <2> QED BY <2>1, NobodyDestructs
<1>4. ASSUME NEW a \in Agents, LockRecheck(a) PROVE Closing'
  BY <1>4 DEF LockRecheck
<1>5. ASSUME NEW a \in Agents, LockDequeue(a) PROVE Closing'
  <2>1. /\ pc[a] \notin OnTheWayOut \cup {"idle", "gone"} \cup Destructing
        /\ \A b \in Agents \ {a} : pc'[b] = pc[b]
        /\ pc'[a] \notin Destructing /\ UNCHANGED mutexCancelled
    BY <1>5 DEF LockDequeue
  <2> HIDE DEF Closing, OnTheWayOut, Destructing
  <2> QED BY <2>1, NobodyDestructs
<1>6. ASSUME NEW a \in Agents, LockExchange(a) PROVE Closing'
  <2>1. /\ pc[a] \notin OnTheWayOut \cup {"idle", "gone"} \cup Destructing
        /\ \A b \in Agents \ {a} : pc'[b] = pc[b]
        /\ pc'[a] \notin Destructing /\ UNCHANGED mutexCancelled
    BY <1>6 DEF LockExchange
  <2> HIDE DEF Closing, OnTheWayOut, Destructing
  <2> QED BY <2>1, NobodyDestructs
<1>7. ASSUME NEW a \in Agents, LockExit(a) PROVE Closing'
  BY <1>7 DEF LockExit
<1>8. ASSUME NEW a \in Agents, Rescue(a) PROVE Closing'
  <2>0. PICK to \in {"leave", "removed"} : DequeueNext(a, "enter", to) /\ UNCHANGED mutexCancelled
                                         /\ pc[a] \in {"rescue", "rescueRemoved"}
    BY <1>8 DEF Rescue
  <2>1. /\ pc[a] \notin OnTheWayOut \cup {"idle", "gone"} \cup Destructing
        /\ \A b \in Agents \ {a} : pc'[b] = pc[b]
        /\ pc'[a] \notin Destructing /\ UNCHANGED mutexCancelled
    BY <2>0
  <2> HIDE DEF Closing, OnTheWayOut, Destructing
  <2> QED BY <2>1, NobodyDestructs
<1>9. ASSUME NEW a \in Agents, NEW c \in Coroutines, PickUp(a, c) PROVE Closing'
  BY <1>9, <1>c DEF PickUp
<1>10. ASSUME NEW a \in Agents, AwaitReady(a) PROVE Closing'
  <2>1. /\ pc[a] \notin OnTheWayOut \cup {"idle", "gone"} \cup Destructing
        /\ \A b \in Agents \ {a} : pc'[b] = pc[b]
        /\ pc'[a] \notin Destructing /\ UNCHANGED mutexCancelled
    BY <1>10 DEF AwaitReady
  <2> HIDE DEF Closing, OnTheWayOut, Destructing
  <2> QED BY <2>1, NobodyDestructs
<1>11. ASSUME NEW a \in Agents, TryLock(a) PROVE Closing'
  BY <1>11 DEF TryLock
<1>12. ASSUME NEW a \in Agents, AwaitSuspendCancelled(a) PROVE Closing'
  <2>1. /\ pc[a] \notin OnTheWayOut \cup {"idle", "gone"} \cup Destructing
        /\ \A b \in Agents \ {a} : pc'[b] = pc[b]
        /\ pc'[a] \notin Destructing /\ UNCHANGED mutexCancelled
    BY <1>12 DEF AwaitSuspendCancelled
  <2> HIDE DEF Closing, OnTheWayOut, Destructing
  <2> QED BY <2>1, NobodyDestructs
<1>13. ASSUME NEW a \in Agents, AwaitSuspend(a) PROVE Closing'
  BY <1>13 DEF AwaitSuspend
<1>14. ASSUME NEW a \in Agents, Resume(a) PROVE Closing'
  BY <1>14, <1>c DEF Resume
<1>15. ASSUME NEW a \in Agents, Critical(a) PROVE Closing'
  BY <1>15 DEF Critical
<1>16. ASSUME NEW a \in Agents, Leave(a) PROVE Closing'
  BY <1>16, <1>c DEF Leave
<1>17. ASSUME NEW a \in Agents, Unlock(a) PROVE Closing'
  BY <1>17, <1>c DEF Unlock
<1>18. ASSUME NEW a \in Agents, UnlockDrain(a) PROVE Closing'
  <2>1. CASE waitList = <<>>
    BY <1>18, <2>1, <1>c DEF UnlockDrain, DrainTurn
  <2>2. CASE waitList # <<>>
    <3>1. PICK c \in Coroutines : c = Head(waitList) /\ point[c] = "await"
      BY <2>2, FirstAwaits
    <3>2. /\ cancelled' = [cancelled EXCEPT ![c] = TRUE]
          /\ scheduled' = [scheduled EXCEPT ![c] = @ + 1]
          /\ UNCHANGED <<pc, self, point, owner, mutexCancelled>>
      BY <1>18, <2>2, <3>1 DEF UnlockDrain, DrainTurn
    <3> QED BY <2>2, <3>1, <3>2
  <2> QED BY <2>1, <2>2
<1>19. ASSUME NEW a \in Agents, UnlockDrainAgain(a) PROVE Closing'
  <2>1. CASE waitList = <<>>
    BY <1>19, <2>1, <1>c DEF UnlockDrainAgain, DrainTurn
  <2>2. CASE waitList # <<>>
    <3>1. PICK c \in Coroutines : c = Head(waitList) /\ point[c] = "await"
      BY <2>2, FirstAwaits
    <3>2. /\ cancelled' = [cancelled EXCEPT ![c] = TRUE]
          /\ scheduled' = [scheduled EXCEPT ![c] = @ + 1]
          /\ UNCHANGED <<pc, self, point, owner, mutexCancelled>>
      BY <1>19, <2>2, <3>1 DEF UnlockDrainAgain, DrainTurn
    <3> QED BY <2>2, <3>1, <3>2
  <2> QED BY <2>1, <2>2
<1>20. ASSUME NEW a \in Agents, ClearOwner(a) PROVE Closing'
  <2>1. CASE pc[a] = "release"
    <3>1. /\ pc[a] \notin OnTheWayOut \cup {"idle", "gone"} \cup Destructing
          /\ \A b \in Agents \ {a} : pc'[b] = pc[b]
          /\ pc'[a] \notin Destructing /\ UNCHANGED mutexCancelled
      BY <1>20, <2>1 DEF ClearOwner
    <3> HIDE DEF Closing, OnTheWayOut, Destructing
    <3> QED BY <3>1, NobodyDestructs
  <2>2. CASE pc[a] = "releaseCancelled"
    <3>1. /\ pc' = [pc EXCEPT ![a] = "drainAgain"] /\ owner' = NULL
          /\ UNCHANGED <<self, mutexCancelled, cancelled, scheduled, point, waitList>>
      BY <1>20, <2>2 DEF ClearOwner
    <3>2. \A k \in Agents : pc'[k] \in Destructing => k # a /\ pc'[k] = pc[k]
      BY <3>1
    <3> QED BY <2>2, <3>1, <3>2
  <2> QED BY <1>20, <2>1, <2>2 DEF ClearOwner
<1>21. ASSUME NEW a \in Agents, HandOver(a) PROVE Closing'
  <2>1. /\ pc[a] \notin OnTheWayOut \cup {"idle", "gone"} \cup Destructing
        /\ \A b \in Agents \ {a} : pc'[b] = pc[b]
        /\ pc'[a] \notin Destructing /\ UNCHANGED mutexCancelled
    BY <1>21 DEF HandOver
  <2> HIDE DEF Closing, OnTheWayOut, Destructing
  <2> QED BY <2>1, NobodyDestructs
<1>22. ASSUME NEW a \in Agents, Pass(a) PROVE Closing'
  BY <1>22 DEF Pass
<1>23. ASSUME NEW a \in Agents, Pause(a) PROVE Closing'
  BY <1>23 DEF Pause
<1>s. ASSUME NEW a \in Agents, RemoveSearch(a) PROVE Closing'
  BY <1>s DEF RemoveSearch
<1>24. ASSUME NEW a \in Agents, RemoveTake(a) PROVE Closing'
  <2>1. /\ pc[a] \notin OnTheWayOut \cup {"idle", "gone"} \cup Destructing
        /\ \A b \in Agents \ {a} : pc'[b] = pc[b]
        /\ pc'[a] \notin Destructing /\ UNCHANGED mutexCancelled
    BY <1>24 DEF RemoveTake
  <2> HIDE DEF Closing, OnTheWayOut, Destructing
  <2> QED BY <2>1, NobodyDestructs
<1>25. ASSUME NEW a \in Agents, RemoveGiveUp(a) PROVE Closing'
  BY <1>25 DEF RemoveGiveUp
<1>26. ASSUME NEW a \in Agents, RemoveFound(a) PROVE Closing'
  BY <1>26 DEF RemoveFound
<1>27. ASSUME NEW a \in Agents, RemovePutBack(a) PROVE Closing'
  <2>1. /\ pc[a] \notin OnTheWayOut \cup {"idle", "gone"} \cup Destructing
        /\ \A b \in Agents \ {a} : pc'[b] = pc[b]
        /\ pc'[a] \notin Destructing /\ UNCHANGED mutexCancelled
    BY <1>27 DEF RemovePutBack
  <2> HIDE DEF Closing, OnTheWayOut, Destructing
  <2> QED BY <2>1, NobodyDestructs
<1>28. ASSUME NEW a \in Agents, RemoveCheckOwner(a) PROVE Closing'
  BY <1>28 DEF RemoveCheckOwner
<1>29. ASSUME NEW a \in Agents, Removed(a) PROVE Closing'
  BY <1>29 DEF Removed
<1>30. ASSUME NEW a \in Agents, CloseDrain(a) PROVE Closing'
  <2>1. CASE waitList = <<>>
    <3>1. /\ pc[a] = "closing"
          /\ pc' = [pc EXCEPT ![a] = IF a \in Destroyers THEN "awaitOwner" ELSE "idle"]
          /\ UNCHANGED <<owner, self, mutexCancelled, cancelled, scheduled, point, waitList>>
      BY <1>30, <2>1 DEF CloseDrain, DrainTurn
    <3>2. CASE a \in Destroyers
      <4>1. \A k \in Destroyers : pc'[k] \in Destructing => k = a
        BY <3>1, <3>2
      <4> QED BY <2>1, <3>1, <3>2, <4>1
    <3>3. CASE a \notin Destroyers
      <4>1. \A k \in Destroyers : pc'[k] = pc[k] /\ pc[k] \notin Destructing
        BY <3>1, <3>3
      <4> QED BY <3>1, <3>3, <4>1
    <3> QED BY <3>2, <3>3
  <2>2. CASE waitList # <<>>
    <3>1. PICK c \in Coroutines : c = Head(waitList) /\ point[c] = "await"
      BY <2>2, FirstAwaits
    <3>2. /\ cancelled' = [cancelled EXCEPT ![c] = TRUE]
          /\ scheduled' = [scheduled EXCEPT ![c] = @ + 1]
          /\ UNCHANGED <<pc, self, point, owner, mutexCancelled>>
      BY <1>30, <2>2, <3>1 DEF CloseDrain, DrainTurn
    <3> QED BY <2>2, <3>1, <3>2
  <2> QED BY <2>1, <2>2
<1>31. ASSUME NEW a \in Agents, AwaitOwner(a) PROVE Closing'
  BY <1>31 DEF AwaitOwner
<1>32. ASSUME NEW a \in Agents, AssertEmpty(a) PROVE Closing'
  BY <1>32 DEF AssertEmpty
<1>33. ASSUME NEW a \in Agents, AwaitScope(a) PROVE Closing'
  BY <1>33 DEF AwaitScope
<1>34. ASSUME NEW a \in Agents, Close(a) PROVE Closing'
  BY <1>34, DestructionBegins
<1>35. ASSUME NEW a \in Agents, NEW c \in Coroutines, Cancel(a, c),
               \A d \in Destroyers : pc[d] \in {"idle", "gone"}
      PROVE Closing'
  BY <1>35 DEF Cancel
<1> HIDE DEF Closing, mutex, coros, agents, Goto, Go, Schedule, MarkCancelled, CallLock, DequeueNext
<1> QED
  BY <1>0, <1>1, <1>2, <1>3, <1>4, <1>5, <1>6, <1>7, <1>8, <1>9, <1>10, <1>11, <1>12, <1>13,
     <1>14, <1>15, <1>16, <1>17, <1>18, <1>19, <1>20, <1>21, <1>22, <1>23, <1>s, <1>24, <1>25,
     <1>26, <1>27, <1>28, <1>29, <1>30, <1>31, <1>32, <1>33, <1>34, <1>35, <1>q
     DEF Next, Call, Step, LockStep, WorkerStep, CancelStep

-----------------------------------------------------------------------------
(* The theorems *)

LEMMA MutexStepInv == MutexInv /\ [Next]_vars => MutexInv'
BY MutexTypeStep, MutexControlStep, MutexScopeStep, MutexPlacesStep, MutexAwaitingStep,
   MutexOwnerStep
   DEF MutexInv

\* The invariant holds in every behaviour.
LEMMA MutexInvariant == Spec => []MutexInv
BY MutexInit, MutexStepInv, PTL DEF Spec

\* The types hold, and every coroutine is in exactly one place: lock(), unlock(),
\* the cancels and the destructor neither resume one twice for one wait nor drop one,
\* in whatever order they meet and however many of them there are.
THEOREM MutexConsistent == Spec => []Consistent
<1>1. MutexInv => Consistent
  BY DEF MutexInv, Consistent
<1> QED BY MutexInvariant, <1>1, PTL

\* Whoever is inside the block that holds the lock owns the mutex,
\* whatever cancels of coroutines or of the mutex come between.
THEOREM MutexExcludes == Spec => []MutualExclusion
<1>1. MutexInv => MutualExclusion
  BY DEF MutexInv, Ownership, Releasing, MutualExclusion, At, Agents
<1> QED BY MutexInvariant, <1>1, PTL

\* Two workers are inside that block only if they are one.
THEOREM MutexOneInside ==
    Spec => [](\A v, w \in Workers : At(v, "critical") /\ At(w, "critical") => v = w)
<1>1. ASSUME MutexInv, NEW v \in Workers, NEW w \in Workers, At(v, "critical"), At(w, "critical")
      PROVE  v = w
  <2>1. v \in Agents /\ w \in Agents
    BY DEF Agents
  <2>2. self[v] = self[w]
    BY <1>1, <2>1 DEF MutexInv, Ownership, Releasing, At
  <2>3. Inside(v) /\ Inside(w)
    BY <1>1 DEF Inside, InBody, At
  <2> QED BY <1>1, <2>1, <2>2, <2>3, InsideAlone
<1>2. MutexInv => \A v, w \in Workers : At(v, "critical") /\ At(w, "critical") => v = w
  BY <1>1
<1> QED BY MutexInvariant, <1>2, PTL

\* A mutex that is destroyed when no call of it is under way ends with a free owner
\* and an empty wait list, whoever held it and whoever waited.
THEOREM MutexDestroyedFree == ASSUME QuietDestroy PROVE Spec => []DestroyedFree
<1>1. MutexInv /\ Closing /\ [Next]_vars => Closing'
  BY MutexClosingStep
<1>2. Closing => DestroyedFree
  BY DEF Closing, DestroyedFree, Destructing, At, Agents
<1> QED BY MutexInit, MutexInvariant, <1>1, <1>2, PTL DEF Spec
=============================================================================
