--------------------------- MODULE TaskGenerator ---------------------------
(***************************************************************************)
(* A coroutine, the consumer, that awaits a Task again and again: it       *)
(* starts the task, or has it go on after a co_yield, and is resumed by it *)
(* (task_awaiter.hpp, task_promise.hpp); it may cancel the task, and gives *)
(* up its handle at last, wherever the task is by then (base_task.hpp).    *)
(* Somebody else may cancel the consumer meanwhile (coroutine.cpp).        *)
(*                                                                         *)
(* Each of the two coroutines is run by some worker.  A resumption, by     *)
(* schedule() or by symmetric transfer, is counted in `scheduled` until it *)
(* happens.  What is left of an await_suspend() once the coroutine may be  *)
(* resumed by another worker runs on by itself: `tail` is that of          *)
(* TaskAwaiter, `handing` that of the task's yield and final awaiters.     *)
(***************************************************************************)
EXTENDS Naturals, CoroutineStatus

CONSTANTS Yields,             \* bound: how often the task may yield
          Awaits,             \* bound: how often the consumer awaits it
          Children,           \* bound: how many tasks the task comes to own
          CancelGenerators    \* may the consumer of a task that yields be cancelled?

ASSUME BoundAssumption == Yields \in Nat /\ Awaits \in Nat /\ Children \in Nat
ASSUME ModeAssumption  == CancelGenerators \in BOOLEAN

VARIABLES
    task,       \* status, cancelled: of its Coroutine; cont: m_continuation is the consumer;
                \* value: m_value; completion: the count of m_completionEvent; owned: m_owner is
                \* the consumer; at: its place; kept, saw: the continuation its awaiter holds, and
                \* isCancelled() as onSuspend() read it; limit, made: how many values it may
                \* yield, and how many it has made; children, spawned: the tasks it owns, and
                \* how many it ever did; finisher: asyncSetCompletedState(); frees: how often
                \* the frame was destroyed
    consumer,   \* status, cancelled; listed, blocked: its awaiter is in m_awaiters, and is
                \* maybeBlocked(); at, saw; awaits, taken: its awaits, and the values it got
    scheduled, tail, handing,
    canceller   \* where the cancel() of the consumer is
vars == <<task, consumer, scheduled, tail, handing, canceller>>

Init ==
    /\ \E limit \in 0 .. Yields :
           /\ task = [status |-> "NotStarted", cancelled |-> FALSE, cont |-> FALSE, value |-> "none",
                      completion |-> 1, owned |-> TRUE, at |-> "start", kept |-> FALSE, saw |-> FALSE,
                      limit |-> limit, made |-> 0, children |-> 0, spawned |-> 0,
                      finisher |-> "none", frees |-> 0]
           /\ canceller \in {"idle", "end"}
           /\ canceller = "idle" /\ limit > 0 => CancelGenerators
    /\ consumer = [status |-> "Running", cancelled |-> FALSE, listed |-> FALSE, blocked |-> FALSE,
                   at |-> "body", saw |-> FALSE, awaits |-> 0, taken |-> 0]
    /\ scheduled = [task |-> 0, consumer |-> 0]
    /\ tail = "none" /\ handing = FALSE

\* Coroutine r after setStatus(s, final), when it goes on at `to`.
Turned(r, s, final, to) ==
    LET new == After(r.status, s, final, r.cancelled)
    IN  IF new = "abort" THEN [r EXCEPT !.at = "abort"] ELSE [r EXCEPT !.status = new, !.at = to]

TaskGo(from, to)     == task.at = from /\ task' = [task EXCEPT !.at = to]
ConsumerGo(from, to) == consumer.at = from /\ consumer' = [consumer EXCEPT !.at = to]
CancelGo(from, to)   == canceller = from /\ canceller' = to
Schedule(c)          == scheduled' = [scheduled EXCEPT ![c] = @ + 1]
Resume(c)            == scheduled[c] > 0 /\ scheduled' = [scheduled EXCEPT ![c] = @ - 1]
onlyTask     == <<consumer, scheduled, tail, handing, canceller>>
onlyConsumer == <<task, scheduled, tail, handing, canceller>>

\* The task after m_completionEvent.countDown(): zero schedules the waiting finisher.
CountedDown(t) ==
    [t EXCEPT !.completion = @ - 1,
              !.finisher = IF t.completion = 1 /\ @ = "waiting" THEN "signal" ELSE @]

Freed(t) == [t EXCEPT !.frees = @ + 1]

-----------------------------------------------------------------------------
(* The task: its awaits as onResume() ends them, and co_yield *)

ResumeTask ==
    /\ task.at \in {"start", "yielded"} /\ Resume("task")
    /\ task' = [task EXCEPT !.at = "resume"]
    /\ UNCHANGED <<consumer, tail, handing, canceller>>

TaskResume ==
    /\ task.at = "resume"
    /\ task' = Turned(task, "Running", FALSE, "check")
    /\ UNCHANGED onlyTask

TaskCheck ==
    /\ TaskGo("check", IF task.cancelled \/ task.status = "Abandoned" THEN "thrown" ELSE "body")
    /\ UNCHANGED onlyTask

Spawn ==
    /\ task.at = "body" /\ task.spawned < Children
    /\ task' = [task EXCEPT !.spawned = @ + 1, !.children = @ + 1, !.completion = @ + 1]
    /\ UNCHANGED onlyTask

ChildDone ==
    /\ task.children > 0
    /\ task' = [CountedDown(task) EXCEPT !.children = @ - 1]
    /\ UNCHANGED onlyTask

YieldValue ==
    /\ task.at = "body" /\ task.made < task.limit
    /\ task' = [Turned(task, "Yielded", FALSE, "yield") EXCEPT !.value = "value", !.made = @ + 1]
    /\ UNCHANGED onlyTask

\* The awaiter gets a copy of m_continuation, which stays.
CopyContinuation ==
    /\ task.at = "yield"
    /\ task' = [task EXCEPT !.at = "advise", !.kept = task.cont]
    /\ UNCHANGED onlyTask

\* TaskPromiseYieldSuspendAwaiter::await_ready(): a cancelled task goes on at once,
\* unless the pool asks for a suspension.
YieldReady ==
    /\ \/ TaskGo("advise", "suspend")
       \/ (task.cancelled \/ task.status = "Abandoned") /\ TaskGo("advise", "resume")
    /\ UNCHANGED onlyTask

YieldReadCancelled ==
    /\ task.at = "suspend"
    /\ task' = [task EXCEPT !.at = "suspending", !.saw = task.cancelled]
    /\ UNCHANGED onlyTask

\* Mutant of YieldSuspend: the task goes on instead of handing its value over.
YieldSuspendNot ==
    /\ task.at = "suspending"
    /\ task' = Turned(task, "Suspended", FALSE, "resume") /\ UNCHANGED handing
    /\ UNCHANGED <<consumer, scheduled, tail, canceller>>

YieldSuspend ==
    /\ task.at = "suspending"
    /\ \/ task' = Turned(task, "Suspended", FALSE, "yielded") /\ handing' = task.kept
       \/ /\ task.saw \/ task.status = "Abandoned"
          /\ task' = Turned(task, "Suspended", FALSE, "resume") /\ UNCHANGED handing
    /\ UNCHANGED <<consumer, scheduled, tail, canceller>>

\* The end of await_suspend() resumes the continuation.
HandBack ==
    /\ handing /\ handing' = FALSE
    /\ Schedule("consumer")
    /\ UNCHANGED <<task, consumer, tail, canceller>>

-----------------------------------------------------------------------------
(* The end of the task: return_value(), unhandled_exception(), final_suspend() *)

ReturnValue ==
    /\ task.at \in {"body", "thrown"}
    /\ task' = [Turned(task, "Returned", FALSE, "final") EXCEPT
                   !.value = IF task.at = "body" THEN "value" ELSE "error", !.made = @ + 1]
    /\ UNCHANGED onlyTask

\* Mutant of FinalSuspend: the continuation is copied, as a yield does.
FinalSuspendCopies ==
    /\ task.at = "final"
    /\ task' = [task EXCEPT !.at = "count", !.kept = task.cont]
    /\ UNCHANGED onlyTask

\* The continuation is taken: a cancel() of the consumer finds it there, or this does.
FinalSuspend ==
    /\ task.at = "final"
    /\ task' = [task EXCEPT !.at = "count", !.kept = task.cont, !.cont = FALSE]
    /\ UNCHANGED onlyTask

FinalCount ==
    /\ TaskGo("count", IF task.completion = 1 THEN "complete" ELSE "defer")
    /\ UNCHANGED onlyTask

SetCompleted ==
    /\ task.at = "complete"
    /\ task' = Turned(task, "Completed", FALSE, "finish")
    /\ UNCHANGED onlyTask

DeferCompletion ==
    /\ task.at = "defer"
    /\ task' = [task EXCEPT !.at = "deferred", !.finisher = "waiting"]
    /\ UNCHANGED onlyTask

CompletionCountDown ==
    /\ task.at \in {"finish", "deferred"}
    /\ task' = [CountedDown(task) EXCEPT !.at = IF @ = "finish" THEN "signalOwner" ELSE "finalReady"]
    /\ UNCHANGED onlyTask

SignalOwner ==
    /\ task.at = "signalOwner"
    /\ task' = [task EXCEPT !.at = "finalReady", !.owned = FALSE]
    /\ UNCHANGED onlyTask

\* TaskPromiseFinalSuspendAwaiter: a task that is abandoned and complete ends its
\* frame, in await_ready() or in await_suspend().
FinalReady ==
    /\ task.at = "finalReady"
    /\ IF task.status = "AbandonedCompleted"
         THEN task' = Freed([task EXCEPT !.at = "end"]) /\ handing' = task.kept
         ELSE task' = [task EXCEPT !.at = "finalSuspend"] /\ UNCHANGED handing
    /\ UNCHANGED <<consumer, scheduled, tail, canceller>>

FinalAwaitSuspend ==
    /\ task.at = "finalSuspend"
    /\ handing' = task.kept
    /\ task' = IF task.status = "AbandonedCompleted" THEN Freed([task EXCEPT !.at = "end"])
               ELSE Turned(task, "Suspended", TRUE, "end")
    /\ UNCHANGED <<consumer, scheduled, tail, canceller>>

\* asyncSetCompletedState()
FinisherSignal ==
    /\ task.finisher = "signal"
    /\ task' = [task EXCEPT !.finisher = "set", !.owned = FALSE]
    /\ UNCHANGED onlyTask

FinisherSet ==
    /\ task.finisher = "set"
    /\ LET t == [Turned(task, "Completed", FALSE, task.at) EXCEPT !.finisher = "end"]
       IN  task' = IF task.status = "AbandonedFinalSuspended" THEN Freed(t) ELSE t
    /\ UNCHANGED onlyTask

-----------------------------------------------------------------------------
(* The consumer: co_await of the task *)

\* await_transform() throws if the consumer is cancelled, and asserts that the task
\* waits to be started or to go on, or is done.
Await ==
    /\ consumer.at = "body" /\ consumer.awaits < Awaits
    /\ consumer' = [consumer EXCEPT !.awaits = @ + 1,
           !.at = IF consumer.cancelled THEN "drop"
                  ELSE IF task.status \in Done \cup {"NotStarted", "YieldedSuspended"} THEN "ready"
                  ELSE "abort"]
    /\ UNCHANGED onlyConsumer

AwaitReady ==
    /\ consumer.at = "ready"
    /\ \E to \in {"resume", "suspend"} :
           /\ to = "resume" => consumer.cancelled \/ task.status \in Done
           /\ to = "suspend" => task.status \notin Done
           /\ consumer' = [consumer EXCEPT !.at = to, !.listed = TRUE]
    /\ UNCHANGED onlyConsumer

ReadCancelled ==
    /\ consumer.at = "suspend"
    /\ consumer' = [consumer EXCEPT !.at = "suspending", !.saw = consumer.cancelled]
    /\ UNCHANGED onlyConsumer

OnSuspend ==
    /\ consumer.at = "suspending"
    /\ \E to \in {"claim", "resume"} :
           /\ to = "resume" => consumer.saw
           /\ consumer' = Turned(consumer, "Suspended", FALSE, to)
    /\ UNCHANGED onlyConsumer

\* justSetStatus(): the task belongs to this await from here on.
ClaimTask ==
    /\ consumer.at = "claim"
    /\ IF task.status \in {"NotStarted", "YieldedSuspended"}
         THEN /\ task' = [task EXCEPT !.status = "Suspended"]
              /\ consumer' = [consumer EXCEPT !.at = "store"]
         ELSE /\ consumer' = [consumer EXCEPT !.at = IF task.status \in Done THEN "resume" ELSE "abort"]
              /\ UNCHANGED task
    /\ UNCHANGED <<scheduled, tail, handing, canceller>>

StoreContinuation ==
    /\ ConsumerGo("store", "parked")
    /\ task' = [task EXCEPT !.cont = TRUE]
    /\ tail' = "mark"
    /\ UNCHANGED <<scheduled, handing, canceller>>

\* Mutant of MarkBlocked: the task is not started.
MarkBlockedOnly ==
    /\ tail = "mark" /\ tail' = "none"
    /\ consumer' = [consumer EXCEPT !.blocked = TRUE]
    /\ UNCHANGED <<task, scheduled, handing, canceller>>

\* setMaybeBlocked(true): a cancel() may take the continuation back.
MarkBlocked ==
    /\ tail = "mark" /\ tail' = "start"
    /\ consumer' = [consumer EXCEPT !.blocked = TRUE]
    /\ UNCHANGED <<task, scheduled, handing, canceller>>

StartTask ==
    /\ tail = "start" /\ tail' = "none"
    /\ Schedule("task")
    /\ UNCHANGED <<task, consumer, handing, canceller>>

ResumeConsumer ==
    /\ ConsumerGo("parked", "resume") /\ Resume("consumer")
    /\ UNCHANGED <<task, tail, handing, canceller>>

AwaitResume ==
    /\ ConsumerGo("resume", "remove")
    /\ task' = [task EXCEPT !.cont = FALSE]
    /\ UNCHANGED <<scheduled, tail, handing, canceller>>

\* removeAwaiter() asserts that the awaiter is listed, or was taken by a cancel().
RemoveAwaiter ==
    /\ consumer.at = "remove"
    /\ consumer' = [consumer EXCEPT !.listed = FALSE,
                        !.at = IF consumer.listed \/ consumer.cancelled THEN "running" ELSE "abort"]
    /\ UNCHANGED onlyConsumer

\* Mutant of SetRunning: the consumer runs on during a cancel().
SetRunningAtOnce ==
    /\ consumer.at = "running"
    /\ consumer' = Turned(consumer, "Running", FALSE, "check")
    /\ UNCHANGED onlyConsumer

SetRunning ==
    /\ consumer.at = "running"
    /\ consumer' = Turned(consumer, "Running", FALSE,
                          IF consumer.status = "PauseOnRunning" THEN "paused" ELSE "check")
    /\ UNCHANGED onlyConsumer

AwaitUnpaused ==
    /\ consumer.status # "Paused" /\ ConsumerGo("paused", "check")
    /\ UNCHANGED onlyConsumer

\* The awaiter is gone with the await, which a cancelled consumer ends by an exception.
CheckCancelled ==
    /\ consumer.at = "check"
    /\ consumer' = [consumer EXCEPT !.at = IF consumer.cancelled THEN "drop" ELSE "value",
                                    !.blocked = FALSE]
    /\ UNCHANGED onlyConsumer

\* Task::value() and checkResult(), which rethrows what the task has thrown.
TakeValue ==
    /\ consumer.at = "value"
    /\ consumer' =
         IF task.status \notin Done \cup {"Yielded", "YieldedSuspended"}
           THEN [consumer EXCEPT !.at = "abort"]
           ELSE [consumer EXCEPT !.taken = task.made,
                                 !.at = IF task.value = "error" THEN "drop" ELSE "body"]
    /\ UNCHANGED onlyConsumer

-----------------------------------------------------------------------------
(* The consumer: Task::cancel(), and destroyOrAbandon() of its only handle *)

\* The task has no awaiters of its own to cancel between its awaits.
CancelTask ==
    /\ consumer.at = "body" /\ ~task.cancelled
    /\ task' = [task EXCEPT !.cancelled = TRUE]
    /\ UNCHANGED <<consumer, scheduled, tail, handing, canceller>>

\* setOwner(), from the consumer to itself: isZero() and countUp() ...
OwnerCountUp ==
    /\ consumer.at \in {"body", "drop"}
    /\ IF task.completion = 0
         THEN consumer' = [consumer EXCEPT !.at = "lastRef"] /\ UNCHANGED task
         ELSE /\ consumer' = [consumer EXCEPT !.at = "exchange"]
              /\ task' = [task EXCEPT !.completion = @ + 1]
    /\ UNCHANGED <<scheduled, tail, handing, canceller>>

\* ... m_owner.exchange() ...
ExchangeOwner ==
    /\ ConsumerGo("exchange", "settle")
    /\ task' = [task EXCEPT !.owned = TRUE]
    /\ UNCHANGED <<scheduled, tail, handing, canceller>>

\* ... and countDown(), whose zero is signalled to the owner here.
OwnerCountDown ==
    /\ ConsumerGo("settle", "lastRef")
    /\ task' = [CountedDown(task) EXCEPT !.owned = @ /\ task.completion > 1]
    /\ UNCHANGED <<scheduled, tail, handing, canceller>>

\* unRef(), and cancel() unless the task is complete.
LastRef ==
    /\ consumer.at = "lastRef"
    /\ IF task.status = "CompletedFinalSuspended"
         THEN task' = Freed(task) /\ consumer' = [consumer EXCEPT !.at = "return"]
         ELSE /\ task' = [task EXCEPT !.cancelled = TRUE]
              /\ consumer' = [consumer EXCEPT !.at = "clear"]
    /\ UNCHANGED <<scheduled, tail, handing, canceller>>

ClearValue ==
    /\ ConsumerGo("clear", "abandon")
    /\ task' = IF task.status \in Done \cup {"Yielded", "YieldedSuspended"}
                 THEN [task EXCEPT !.value = "none"] ELSE task
    /\ UNCHANGED <<scheduled, tail, handing, canceller>>

\* A task that is complete, not started or between two awaits has nobody else to
\* destroy it.
Abandon ==
    /\ consumer.at = "abandon"
    /\ task' = IF task.status = "CompletedFinalSuspended" THEN Freed(task)
               ELSE Turned(task, "Abandoned", FALSE, task.at)
    /\ consumer' = [consumer EXCEPT !.at =
           CASE task.status = "NotStarted" -> IF task.completion = 1 THEN "retire" ELSE "abort"
             [] task.status = "YieldedSuspended" -> "recount"
             [] OTHER -> "return"]
    /\ UNCHANGED <<scheduled, tail, handing, canceller>>

\* Mutant of Recount: the tasks that the task owns are not looked at.
RecountNot == ConsumerGo("recount", "retire") /\ UNCHANGED onlyConsumer

\* A yielded task that owns others has to run to its end.
Recount ==
    /\ ConsumerGo("recount", IF task.completion = 1 THEN "retire" ELSE "restart")
    /\ UNCHANGED onlyConsumer

\* countDown(), signalOwner() and m_handle.destroy()
Retire ==
    /\ ConsumerGo("retire", "return")
    /\ task' = Freed([CountedDown(task) EXCEPT !.owned = FALSE, !.at = "end"])
    /\ UNCHANGED <<scheduled, tail, handing, canceller>>

\* setContinuation(nullptr) and schedule()
Restart ==
    /\ ConsumerGo("restart", "return")
    /\ task' = [task EXCEPT !.cont = FALSE, !.cancelled = TRUE]
    /\ Schedule("task")
    /\ UNCHANGED <<tail, handing, canceller>>

\* The consumer comes to its final suspend point; what follows is AsyncTaskLifecycle's.
ConsumerReturn ==
    /\ consumer.at = "return"
    /\ consumer' = Turned(consumer, "Returned", FALSE, "end")
    /\ UNCHANGED onlyConsumer

-----------------------------------------------------------------------------
(* Coroutine::cancel() of the consumer, and TaskAwaiterBase::cancel() *)

Cancel ==
    /\ CancelGo("idle", "status")
    /\ consumer' = [consumer EXCEPT !.cancelled = TRUE]
    /\ UNCHANGED <<task, scheduled, tail, handing>>

CancelStatus ==
    /\ CancelGo("status",
                IF consumer.status = "Suspended" /\ consumer.listed THEN "pause" ELSE "end")
    /\ UNCHANGED <<task, consumer, scheduled, tail, handing>>

Pause ==
    /\ CancelGo("pause", IF consumer.status = "Suspended" THEN "take" ELSE "end")
    /\ consumer' = Turned(consumer, "PauseOnRunning", FALSE, consumer.at)
    /\ UNCHANGED <<task, scheduled, tail, handing>>

TakeAwaiter ==
    /\ CancelGo("take", IF consumer.listed /\ consumer.blocked THEN "unblock" ELSE "resumed")
    /\ consumer' = [consumer EXCEPT !.listed = FALSE]
    /\ UNCHANGED <<task, scheduled, tail, handing>>

\* Who takes the continuation resumes the consumer.
Unblock ==
    /\ CancelGo("unblock", "resumed")
    /\ task' = [task EXCEPT !.cont = FALSE]
    /\ IF task.cont THEN Schedule("consumer") ELSE UNCHANGED scheduled
    /\ UNCHANGED <<consumer, tail, handing>>

CancelResumed ==
    /\ CancelGo("resumed", "end")
    /\ consumer' = Turned(consumer, "Resumed", FALSE, consumer.at)
    /\ UNCHANGED <<task, scheduled, tail, handing>>

-----------------------------------------------------------------------------
TaskStep ==
    \/ ResumeTask \/ TaskResume \/ TaskCheck \/ Spawn \/ YieldValue \/ CopyContinuation
    \/ YieldReady \/ YieldReadCancelled \/ YieldSuspend
    \/ ReturnValue \/ FinalSuspend \/ FinalCount \/ SetCompleted \/ DeferCompletion
    \/ CompletionCountDown \/ SignalOwner \/ FinalReady \/ FinalAwaitSuspend

FinisherStep == FinisherSignal \/ FinisherSet

TailStep == HandBack \/ MarkBlocked \/ StartTask

ConsumerStep ==
    \/ Await \/ AwaitReady \/ ReadCancelled \/ OnSuspend \/ ClaimTask \/ StoreContinuation
    \/ ResumeConsumer \/ AwaitResume \/ RemoveAwaiter \/ SetRunning \/ AwaitUnpaused
    \/ CheckCancelled \/ TakeValue
    \/ CancelTask \/ OwnerCountUp \/ ExchangeOwner \/ OwnerCountDown \/ LastRef \/ ClearValue
    \/ Abandon \/ Recount \/ Retire \/ Restart \/ ConsumerReturn

CancelStep == CancelStatus \/ Pause \/ TakeAwaiter \/ Unblock \/ CancelResumed

Next == TaskStep \/ ChildDone \/ FinisherStep \/ TailStep \/ ConsumerStep \/ Cancel \/ CancelStep

Spec == Init /\ [][Next]_vars

\* Workers run what is scheduled, a cancel() comes to its end, and the tasks that the
\* task owns complete.
Fairness ==
    /\ WF_vars(TaskStep) /\ WF_vars(ChildDone) /\ WF_vars(FinisherStep) /\ WF_vars(TailStep)
    /\ WF_vars(ConsumerStep) /\ WF_vars(CancelStep)
FairSpec == Spec /\ Fairness

-----------------------------------------------------------------------------
(* Properties *)

TaskPlaces == {"start", "resume", "check", "body", "thrown", "yield", "advise", "suspend",
               "suspending", "yielded", "final", "count", "complete", "finish", "defer",
               "deferred", "signalOwner", "finalReady", "finalSuspend", "end"}
ConsumerPlaces == {"body", "ready", "suspend", "suspending", "claim", "store", "parked", "resume",
                   "remove", "running", "paused", "check", "value", "drop", "exchange", "settle",
                   "lastRef", "clear", "abandon", "recount", "retire", "restart", "return", "end"}

\* Types: no place is "abort", so no assertion fails and no status is met that ends the
\* program, in whatever order the task returns, the consumer is cancelled and the handle
\* is given up; the task counts itself, the tasks it owns and a change of its owner.
TypeOK ==
    /\ task \in [status : Statuses, cancelled : BOOLEAN, cont : BOOLEAN,
                 value : {"none", "value", "error"}, completion : 0 .. Children + 2,
                 owned : BOOLEAN, at : TaskPlaces, kept : BOOLEAN, saw : BOOLEAN,
                 limit : 0 .. Yields, made : 0 .. Yields + 1, children : 0 .. Children,
                 spawned : 0 .. Children, frees : 0 .. 1,
                 finisher : {"none", "waiting", "signal", "set", "end"}]
    /\ consumer \in [status : Statuses, cancelled : BOOLEAN, listed : BOOLEAN, blocked : BOOLEAN,
                     at : ConsumerPlaces, saw : BOOLEAN, awaits : 0 .. Awaits,
                     taken : 0 .. Yields + 1]
    /\ scheduled \in [task : 0 .. 1, consumer : 0 .. 1]
    /\ tail \in {"none", "mark", "start"} /\ handing \in BOOLEAN
    /\ canceller \in {"idle", "status", "pause", "take", "unblock", "resumed", "end"}

Count(b) == IF b THEN 1 ELSE 0

\* Neither coroutine is resumed twice for one suspension, nor while it runs: when the
\* task returns and the consumer is cancelled, one of the two resumes the consumer.
ResumedOnce ==
    /\ scheduled.consumer + Count(handing) <= Count(consumer.at = "parked")
    /\ scheduled.task + Count(tail # "none") <= Count(task.at \in {"start", "yielded"})

\* The frame of the task is destroyed once, when nobody uses it: not the task, its
\* finisher, the tasks it owns, a cancel() with a reference to m_continuation, nor an
\* await of the consumer.
FreedLast ==
    /\ task.frees <= 1
    /\ task.frees = 1 => /\ task.at = "end" /\ task.children = 0 /\ ~task.owned
                         /\ task.finisher \in {"none", "end"}
                         /\ scheduled.task = 0 /\ tail = "none"
                         /\ consumer.at \in {"return", "end"} /\ canceller # "unblock"

\* An await of a task that goes on gets the next value, none twice and none left out.
ValuesInOrder == [][consumer.taken' \in {consumer.taken, consumer.taken + 1}]_vars

\* The consumer comes to its end and the task is destroyed, wherever either was when
\* the consumer was cancelled or gave the task up.
AllEnds == <>(consumer.at = "end" /\ task.frees = 1)

\* schedule() asserts !m_handle.done() of the coroutine it is given.
ScheduledNotDone == handing => consumer.at # "end"
=============================================================================
