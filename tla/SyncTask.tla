------------------------------ MODULE SyncTask ------------------------------
(***************************************************************************)
(* A thread outside the pools starts a SyncTask and waits for its value    *)
(* (sync_task_promise.hpp, sync_manual_reset_event.cpp).  The task, and    *)
(* the asynchronous tasks below it, own each other: a coroutine that makes *)
(* a handle, or gets one by a copy or a move (base_task.hpp), becomes the  *)
(* owner of its task by Coroutine::setOwner(), and is complete only when   *)
(* all that it owns are.  Ownership changes while the tasks complete.      *)
(*                                                                         *)
(* One action is one access to m_completionEvent or m_owner, except that   *)
(* an owner is counted down in the step that takes it out of m_owner:      *)
(* until then it waits for one more.  What a task awaits, its cancellation *)
(* and the end of its frame are in AsyncTaskLifecycle.                     *)
(***************************************************************************)
EXTENDS Naturals, FiniteSets, CoroutineStatus

CONSTANTS NumTasks,      \* the asynchronous tasks are 1 .. NumTasks
          Handovers,     \* bound: how often ownership changes after the creation
          RootInside,    \* is the SyncTask made inside a coroutine?
          NULL

Root  == 0
Outer == NumTasks + 1    \* the coroutine that made the SyncTask, if one did
Tasks == 1 .. NumTasks
Coroutines == {Root} \cup Tasks

ASSUME TaskAssumption == NumTasks \in Nat /\ Handovers \in Nat /\ RootInside \in BOOLEAN
ASSUME NullAssumption == NULL \notin Nat

VARIABLES
    count, owner,    \* the count of m_completionEvent, m_owner
    at, job,         \* where a coroutine is, and the task whose owner it sets
    finisher,        \* of a coroutine: asyncSetCompletedState()
    handovers,       \* the changes of ownership so far
    status, frees,   \* of the SyncTask: m_status, and how often its frame was destroyed
    isSet,           \* m_isSet of its m_event
    thread           \* where the thread is
vars == <<count, owner, at, job, finisher, handovers, status, frees, isSet, thread>>
root == <<status, frees, isSet, thread>>

Init ==
    /\ count = [c \in Coroutines |-> 1]
    /\ owner = [c \in Coroutines |-> IF c = Root /\ RootInside THEN Outer ELSE NULL]
    /\ at = [c \in Coroutines |-> IF c = Root THEN "body" ELSE "new"]
    /\ job = [c \in Coroutines |-> NULL]
    /\ finisher = [c \in Coroutines |-> "none"]
    /\ handovers = 0
    /\ status = "Running" /\ frees = 0 /\ isSet = FALSE /\ thread = "start"

Go(c, from, to) == at[c] = from /\ at' = [at EXCEPT ![c] = to]
Becomes(s, final) == After(status, s, final, FALSE)
SetStatus(s, final) == status' = IF Becomes(s, final) = "abort" THEN status ELSE Becomes(s, final)
OrAbort(s, final, to) == IF Becomes(s, final) = "abort" THEN "abort" ELSE to

\* m_completionEvent.countDown() of the coroutines in cs (Outer is not modelled):
\* one that comes to zero has its finisher run.
CountDown(cs) ==
    /\ count' = [c \in Coroutines |-> IF c \in cs THEN count[c] - 1 ELSE count[c]]
    /\ finisher' = [c \in Coroutines |->
           IF c \in cs /\ count[c] = 1 /\ finisher[c] = "waiting" THEN "run" ELSE finisher[c]]

\* signalOwner() of t: m_owner.exchange(nullptr), and the owner's countDown().
SignalOwner(t) ==
    /\ owner' = [owner EXCEPT ![t] = NULL]
    /\ CountDown({owner[t]})

-----------------------------------------------------------------------------
(* BaseTask's constructors and assignments, and Coroutine::setOwner() *)

\* get_return_object() makes the first handle before the task is scheduled.
Create(c, t) ==
    /\ at[t] = "new" /\ c < t /\ at[c] = "body"
    /\ at' = [at EXCEPT ![c] = "isZero", ![t] = "made"]
    /\ job' = [job EXCEPT ![c] = t]
    /\ UNCHANGED <<count, owner, finisher, handovers, root>>

\* A handle is copied or moved into coroutine c.  A task is not given to one that it
\* owns: the two would wait for each other.
Handover(c, t) ==
    /\ at[t] \notin {"new", "made"} /\ c < t /\ handovers < Handovers
    /\ Go(c, "body", "isZero")
    /\ job' = [job EXCEPT ![c] = t]
    /\ handovers' = handovers + 1
    /\ UNCHANGED <<count, owner, finisher, root>>

\* The coroutine goes on; a task that was just made is scheduled.
Settle(c) ==
    /\ at' = [at EXCEPT ![c] = "body", ![job[c]] = IF @ = "made" THEN "body" ELSE @]
    /\ job' = [job EXCEPT ![c] = NULL]

IsZero(c) ==
    /\ at[c] = "isZero"
    /\ IF count[job[c]] = 0 THEN Settle(c) ELSE Go(c, "isZero", "countUp") /\ UNCHANGED job
    /\ UNCHANGED <<count, owner, finisher, handovers, root>>

\* The task cannot complete while its owner changes.
CountUp(c) ==
    /\ Go(c, "countUp", IF count[job[c]] = 0 THEN "undo" ELSE "reserve")
    /\ count' = [count EXCEPT ![job[c]] = @ + 1]
    /\ UNCHANGED <<owner, job, finisher, handovers, root>>

\* Mutant of Reserve: the new owner is not counted up.
ReserveNot(c) ==
    /\ Go(c, "reserve", "exchange")
    /\ UNCHANGED <<count, owner, job, finisher, handovers, root>>

\* The new owner counts the task before it can be signalled.
Reserve(c) ==
    /\ Go(c, "reserve", "exchange")
    /\ count' = [count EXCEPT ![c] = @ + 1]
    /\ UNCHANGED <<owner, job, finisher, handovers, root>>

ExchangeOwner(c) ==
    /\ Go(c, "exchange", "settle")
    /\ owner' = [owner EXCEPT ![job[c]] = c]
    /\ CountDown({owner[job[c]]})
    /\ UNCHANGED <<job, handovers, root>>

OwnerCountDown(c) ==
    /\ \/ Go(c, "undo", "signal")
       \/ Go(c, "settle", "recheck")
    /\ CountDown({job[c]})
    /\ UNCHANGED <<owner, job, handovers, root>>

RecheckZero(c) ==
    /\ at[c] = "recheck"
    /\ IF count[job[c]] = 0 THEN Go(c, "recheck", "signal") /\ UNCHANGED job ELSE Settle(c)
    /\ UNCHANGED <<count, owner, finisher, handovers, root>>

SignalForTask(c) ==
    /\ at[c] = "signal" /\ SignalOwner(job[c]) /\ Settle(c)
    /\ UNCHANGED <<handovers, root>>

-----------------------------------------------------------------------------
(* The end of a coroutine: final_suspend(), SyncTaskFinalAwaiter *)

Return(c) ==
    /\ Go(c, "body", "count")
    /\ IF c = Root THEN SetStatus("Returned", FALSE) ELSE UNCHANGED status
    /\ UNCHANGED <<count, owner, job, finisher, handovers, frees, isSet, thread>>

\* Mutant of FinalCount: the tasks it owns are not looked at.
FinalCountNot(c) ==
    /\ Go(c, "count", "complete")
    /\ UNCHANGED <<count, owner, job, finisher, handovers, root>>

\* Is everything complete but the coroutine itself?
FinalCount(c) ==
    /\ Go(c, "count", IF count[c] = 1 THEN "complete" ELSE "defer")
    /\ UNCHANGED <<count, owner, job, finisher, handovers, root>>

SetCompleted(c) ==
    /\ at[c] = "complete"
    /\ IF c = Root THEN SetStatus("Completed", FALSE) /\ Go(c, "complete", OrAbort("Completed", FALSE, "set"))
                   ELSE Go(c, "complete", "finish") /\ UNCHANGED status
    /\ UNCHANGED <<count, owner, job, finisher, handovers, frees, isSet, thread>>

\* m_event.set(): the waiting thread is notified.
SetEvent ==
    /\ isSet' = TRUE
    /\ thread' = IF thread = "asleep" /\ ~isSet THEN "woken" ELSE thread

FinalSetEvent ==
    /\ Go(Root, "set", "finish")
    /\ SetEvent
    /\ UNCHANGED <<count, owner, job, finisher, handovers, status, frees>>

DeferCompletion(c) ==
    /\ Go(c, "defer", "deferred")
    /\ finisher' = [finisher EXCEPT ![c] = "waiting"]
    /\ UNCHANGED <<count, owner, job, handovers, root>>

CompletionCountDown(c) ==
    /\ \/ Go(c, "finish", "signalOwner")
       \/ Go(c, "deferred", IF c = Root THEN "finalReady" ELSE "end")
    /\ CountDown({c})
    /\ UNCHANGED <<owner, job, handovers, root>>

FinalSignalOwner(c) ==
    /\ Go(c, "signalOwner", IF c = Root THEN "finalReady" ELSE "end")
    /\ SignalOwner(c)
    /\ UNCHANGED <<job, handovers, root>>

\* onReady() and onSuspend(): a SyncTask that is abandoned and complete is destroyed.
FinalReady ==
    /\ Go(Root, "finalReady", IF status = "AbandonedCompleted" THEN "end" ELSE "finalSuspend")
    /\ frees' = IF status = "AbandonedCompleted" THEN frees + 1 ELSE frees
    /\ UNCHANGED <<count, owner, job, finisher, handovers, status, isSet, thread>>

FinalSuspend ==
    /\ Go(Root, "finalSuspend", OrAbort("Suspended", TRUE, "end"))
    /\ SetStatus("Suspended", TRUE)
    /\ frees' = IF status = "AbandonedCompleted" THEN frees + 1 ELSE frees
    /\ UNCHANGED <<count, owner, job, finisher, handovers, isSet, thread>>

\* asyncSetCompletedState() of an asynchronous task signals its owner, ...
FinisherSignal(c) ==
    /\ c # Root /\ finisher[c] = "run"
    /\ owner' = [owner EXCEPT ![c] = NULL]
    /\ count' = [x \in Coroutines |-> IF x = owner[c] THEN count[x] - 1 ELSE count[x]]
    /\ finisher' = [x \in Coroutines |->
           IF x = c THEN "end"
           ELSE IF x = owner[c] /\ count[x] = 1 /\ finisher[x] = "waiting" THEN "run"
           ELSE finisher[x]]
    /\ UNCHANGED <<at, job, handovers, root>>

\* ... that of a SyncTask asserts that it has none, and sets the event.
FinisherSetEvent ==
    /\ finisher[Root] = "run"
    /\ finisher' = [finisher EXCEPT ![Root] = IF owner[Root] = NULL THEN "set" ELSE "abort"]
    /\ SetEvent
    /\ UNCHANGED <<count, owner, at, job, handovers, status, frees>>

FinisherSet ==
    /\ finisher[Root] = "set"
    /\ finisher' = [finisher EXCEPT ![Root] = OrAbort("Completed", FALSE, "end")]
    /\ SetStatus("Completed", FALSE)
    /\ frees' = IF status = "AbandonedFinalSuspended" THEN frees + 1 ELSE frees
    /\ UNCHANGED <<count, owner, at, job, handovers, isSet, thread>>

-----------------------------------------------------------------------------
(* The thread: value(), SyncManualResetEvent::wait(), destroyOrAbandon() *)

ThreadGo(from, to) == thread = from /\ thread' = to

\* Mutant of Wait: a notification is waited for though the event is set.
WaitBlind ==
    /\ ThreadGo("start", "asleep")
    /\ UNCHANGED <<count, owner, at, job, finisher, handovers, status, frees, isSet>>

\* Under the mutex of the event: is it set, or does the thread wait to be notified?
Wait ==
    /\ ThreadGo("start", IF isSet THEN "value" ELSE "asleep")
    /\ UNCHANGED <<count, owner, at, job, finisher, handovers, status, frees, isSet>>

WakeUp ==
    /\ isSet /\ ThreadGo("woken", "value")
    /\ UNCHANGED <<count, owner, at, job, finisher, handovers, status, frees, isSet>>

\* checkResult() asserts isDone().
Value ==
    /\ ThreadGo("value", IF status \in Done THEN "drop" ELSE "abort")
    /\ UNCHANGED <<count, owner, at, job, finisher, handovers, status, frees, isSet>>

\* The handle is given up, also by a thread that did not wait.  cancel() finds
\* nothing to wake: the awaits of the task are not modelled.
Drop ==
    /\ thread \in {"start", "drop"}
    /\ IF status = "CompletedFinalSuspended"
         THEN thread' = "gone" /\ frees' = frees + 1
         ELSE thread' = "abandon" /\ UNCHANGED frees
    /\ UNCHANGED <<count, owner, at, job, finisher, handovers, status, isSet>>

\* Mutant of Abandon: a task that is not complete is destroyed, too.
AbandonFrees ==
    /\ ThreadGo("abandon", "gone")
    /\ SetStatus("Abandoned", FALSE)
    /\ frees' = IF status \in Done THEN frees + 1 ELSE frees
    /\ UNCHANGED <<count, owner, at, job, finisher, handovers, isSet>>

Abandon ==
    /\ ThreadGo("abandon", OrAbort("Abandoned", FALSE, "gone"))
    /\ SetStatus("Abandoned", FALSE)
    /\ frees' = IF status = "CompletedFinalSuspended" THEN frees + 1 ELSE frees
    /\ UNCHANGED <<count, owner, at, job, finisher, handovers, isSet>>

-----------------------------------------------------------------------------
Own(c) ==
    \/ IsZero(c) \/ CountUp(c) \/ Reserve(c) \/ ExchangeOwner(c) \/ OwnerCountDown(c)
    \/ RecheckZero(c) \/ SignalForTask(c)

Finish(c) ==
    \/ Return(c) \/ FinalCount(c) \/ SetCompleted(c) \/ DeferCompletion(c)
    \/ CompletionCountDown(c) \/ FinalSignalOwner(c)

RootFinish == FinalSetEvent \/ FinalReady \/ FinalSuspend

FinisherStep == FinisherSetEvent \/ FinisherSet \/ \E c \in Tasks : FinisherSignal(c)

ThreadStep == Wait \/ WakeUp \/ Value \/ Drop \/ Abandon

Next ==
    \/ \E c \in Coroutines : Own(c) \/ Finish(c)
    \/ \E c \in Coroutines, t \in Tasks : Create(c, t) \/ Handover(c, t)
    \/ RootFinish \/ FinisherStep \/ ThreadStep

Spec == Init /\ [][Next]_vars

\* The workers run every coroutine to its end, and the finishers; the thread runs.
Fairness ==
    /\ \A c \in Coroutines : WF_vars(Own(c)) /\ WF_vars(Finish(c))
    /\ WF_vars(RootFinish) /\ WF_vars(FinisherStep) /\ WF_vars(ThreadStep)
FairSpec == Spec /\ Fairness

-----------------------------------------------------------------------------
(* Properties *)

Places == {"new", "made", "body", "isZero", "countUp", "reserve", "exchange", "settle", "undo",
           "recheck", "signal", "count", "complete", "set", "finish", "defer", "deferred",
           "signalOwner", "finalReady", "finalSuspend", "end"}

\* Types: no place is "abort", so no assertion fails and no status is met that ends the
\* program, whatever the thread, the coroutines and the finishers do at the same time.
TypeOK ==
    /\ count \in [Coroutines -> Nat]
    /\ owner \in [Coroutines -> Coroutines \cup {Outer, NULL}]
    /\ at \in [Coroutines -> Places] /\ job \in [Coroutines -> Tasks \cup {NULL}]
    /\ finisher \in [Coroutines -> {"none", "waiting", "run", "set", "end"}]
    /\ handovers \in 0 .. Handovers
    /\ status \in Statuses /\ frees \in 0 .. 1 /\ isSet \in BOOLEAN
    /\ thread \in {"start", "asleep", "woken", "value", "drop", "abandon", "gone"}

\* A coroutine that has not counted itself down yet.
Counts(c) == at[c] \notin {"signalOwner", "finalReady", "finalSuspend", "end"}
Number(S) == Cardinality(S)

\* The completion event counts exactly the coroutine itself, the tasks it owns, one
\* that it is about to own, and the changes of its own owner under way; so nobody
\* is counted down below zero, and nobody completes before what it owns.
CountsExact ==
    /\ TypeOK
    /\ \A c \in Coroutines :
           count[c] = Number({d \in {c} : Counts(d)})
                      + Number({t \in Coroutines : owner[t] = c})
                      + Number({d \in {c} : at[d] = "exchange"})
                      + Number({d \in Coroutines :
                                   job[d] = c /\ at[d] \in {"reserve", "exchange", "settle", "undo"}})

\* The thread gets the value only after every task below the SyncTask has come to its
\* end: no user code runs any more.
WaitsForAll ==
    thread \in {"value", "drop"} => \A t \in Tasks : at[t] = "new" \/ count[t] = 0

\* The frame of the SyncTask, with its event, is destroyed once and by the last of the
\* thread, the coroutine and its finisher.
FreedLast ==
    frees > 0 => /\ frees = 1 /\ at[Root] = "end" /\ thread = "gone"
                 /\ finisher[Root] \in {"none", "end"}

\* The thread returns, and the frame is destroyed.
ThreadReturns == <>(thread = "gone" /\ frees = 1)
=============================================================================
