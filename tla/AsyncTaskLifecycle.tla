------------------------- MODULE AsyncTaskLifecycle -------------------------
(***************************************************************************)
(* The life of one AsyncTask coroutine: its status (coroutine.cpp), its    *)
(* awaits as far as the status sees them (awaiter.cpp), its completion     *)
(* (async_task_promise.hpp, base_promise.hpp), and the task handles, whose *)
(* holders cancel it and at last destroy or abandon it (base_task.hpp).    *)
(*                                                                         *)
(* The coroutine is run by one worker at a time; its place is `at`.  The   *)
(* holders are other coroutines, each with one copy of the handle.  One    *)
(* action is one access to m_status, m_cancelled, m_awaiters, m_owner,     *)
(* m_refCount or m_completionEvent.  That the event wakes its waiter when  *)
(* its count is zero is what AsyncCountDownEvent is about.                 *)
(***************************************************************************)
EXTENDS Naturals, FiniteSets, CoroutineStatus

CONSTANTS Holders, NULL,
          Cancellers,       \* holders that may call cancel() while they hold the task
          Detachers,        \* holders that may call setCancelAbandoned(false)
          Waits,            \* bound: how often the coroutine waits for an event
          Children          \* bound: how many tasks it comes to own

ASSUME HolderAssumption == IsFiniteSet(Holders) /\ NULL \notin Holders
ASSUME CallAssumption   == Cancellers \subseteq Holders /\ Detachers \subseteq Holders
ASSUME BoundAssumption  == Waits \in Nat /\ Children \in Nat

VARIABLES
    status,      \* m_status
    cancelled,   \* m_cancelled
    cancelAbandoned,   \* m_cancelAbandoned
    listed,      \* m_awaiters holds the awaiter of the present await
    blocked,     \* maybeBlocked() of that awaiter
    waiting,     \* the coroutine is in the wait list of an event
    owner,       \* m_owner; an owner's completion event counts each task it owns
    refCount,    \* m_refCount
    completion,  \* the count of m_completionEvent
    frees,       \* how often the frame was destroyed
    at, saw,     \* where the coroutine is, and isCancelled as onSuspend() read it
    waits, children,   \* the waits so far; the tasks it owns, and how many it ever did
    spawned,
    finisher,    \* asyncSetCompletedState(): not made, waiting, or where it is
    pc, dropping \* of a holder: its place, and whether it gives up its handle

frame == <<status, cancelled, listed, blocked, waiting, owner, refCount, completion, frees>>
run   == <<at, saw, waits, children, spawned>>
flags == <<cancelAbandoned, dropping>>
hold  == <<pc, flags>>
vars  == <<frame, run, finisher, hold>>

\* What setStatus() makes of the present status, which stays when the program aborts.
Becomes(s, final) == After(status, s, final, cancelled)
SetStatus(s, final) == status' = IF Becomes(s, final) = "abort" THEN status ELSE Becomes(s, final)

\* The coroutine goes on at `to`, unless setStatus(s) has aborted; so for a holder.
RunTo(s, final, to) == at' = IF Becomes(s, final) = "abort" THEN "abort" ELSE to
HoldTo(h, s, to) ==
    pc' = [pc EXCEPT ![h] = IF Becomes(s, FALSE) = "abort" THEN "abort" ELSE to]
Goto(h, from, to) == pc[h] = from /\ pc' = [pc EXCEPT ![h] = to]

\* m_completionEvent.countDown(): reaching zero schedules the waiting finisher.
CountDown ==
    /\ completion' = completion - 1
    /\ finisher' = IF completion = 1 /\ finisher = "waiting" THEN "signal" ELSE finisher

Init ==
    /\ status = "NotStarted" /\ cancelAbandoned = TRUE
    /\ cancelled = FALSE /\ owner \in Holders
    /\ listed = TRUE /\ blocked = FALSE /\ waiting = FALSE
    /\ refCount = Cardinality(Holders) /\ completion = 1 /\ frees = 0
    /\ at = "resume" /\ saw = FALSE /\ waits = 0 /\ children = 0 /\ spawned = 0
    /\ finisher = "none"
    /\ pc = [h \in Holders |-> "hold"] /\ dropping = [h \in Holders |-> FALSE]

-----------------------------------------------------------------------------
(* The coroutine: Awaiter::onResume(), the body, onReady(), onSuspend() *)

RemoveAwaiter ==
    /\ at = "resume" /\ at' = "running"
    /\ listed' = FALSE
    /\ UNCHANGED <<status, cancelled, blocked, waiting, owner, refCount, completion, frees,
                   saw, waits, children, spawned, finisher, hold>>

\* A status of PauseOnRunning: a cancel() has the coroutine wait for its end.
SetRunning ==
    /\ at = "running"
    /\ SetStatus("Running", FALSE)
    /\ RunTo("Running", FALSE, IF status = "PauseOnRunning" THEN "paused" ELSE "check")
    /\ UNCHANGED <<cancelled, listed, blocked, waiting, owner, refCount, completion, frees,
                   saw, waits, children, spawned, finisher, hold>>

\* Mutant of AwaitUnpaused: the coroutine runs on during a cancel().
AwaitUnpausedNot ==
    /\ at = "paused" /\ at' = "check"
    /\ UNCHANGED <<frame, saw, waits, children, spawned, finisher, hold>>

AwaitUnpaused ==
    /\ at = "paused" /\ status # "Paused"
    /\ at' = "check"
    /\ UNCHANGED <<frame, saw, waits, children, spawned, finisher, hold>>

\* The await ends, by an exception if the coroutine is cancelled or abandoned.
CheckCancelled ==
    /\ at = "check"
    /\ at' = IF cancelled \/ (status = "Abandoned" /\ cancelAbandoned) THEN "returned" ELSE "body"
    /\ blocked' = FALSE
    /\ UNCHANGED <<status, cancelled, listed, waiting, owner, refCount, completion, frees,
                   saw, waits, children, spawned, finisher, hold>>

\* The coroutine comes to own another task, whose setOwner() counts it.
Spawn ==
    /\ at = "body" /\ spawned < Children
    /\ children' = children + 1 /\ spawned' = spawned + 1
    /\ completion' = completion + 1
    /\ UNCHANGED <<status, cancelled, listed, blocked, waiting, owner, refCount, frees,
                   at, saw, waits, finisher, hold>>

\* co_await: await_transform() throws if the coroutine is cancelled, and onReady()
\* lists the awaiter.
Await ==
    /\ at = "body" /\ waits < Waits
    /\ waits' = waits + 1
    /\ IF cancelled THEN at' = "returned" /\ UNCHANGED listed
                    ELSE at' = "advise" /\ listed' = TRUE
    /\ UNCHANGED <<status, cancelled, blocked, waiting, owner, refCount, completion, frees,
                   saw, children, spawned, finisher, hold>>

\* The advice of onReady(); await_ready() may also find the event set.
OnReady ==
    /\ at = "advise"
    /\ at' \in {"suspend", "resume"}
    /\ UNCHANGED <<frame, saw, waits, children, spawned, finisher, hold>>

\* onSuspend() reads isCancelled() before it makes the coroutine Suspended.
ReadCancelled ==
    /\ at = "suspend" /\ at' = "suspending"
    /\ saw' = cancelled
    /\ UNCHANGED <<frame, waits, children, spawned, finisher, hold>>

\* When the pool asks for a suspension, that goes before being cancelled.
OnSuspend ==
    /\ at = "suspending"
    /\ SetStatus("Suspended", FALSE)
    /\ \/ RunTo("Suspended", FALSE, "mark")
       \/ /\ saw \/ (status = "Abandoned" /\ cancelAbandoned)
          /\ RunTo("Suspended", FALSE, "resume")
    /\ UNCHANGED <<cancelled, listed, blocked, waiting, owner, refCount, completion, frees,
                   saw, waits, children, spawned, finisher, hold>>

MarkBlocked ==
    /\ at = "mark" /\ at' = "enqueue"
    /\ blocked' = TRUE
    /\ UNCHANGED <<status, cancelled, listed, waiting, owner, refCount, completion, frees,
                   saw, waits, children, spawned, finisher, hold>>

\* The event takes the coroutine into its wait list, or refuses and it runs on.
Enqueue ==
    /\ at = "enqueue"
    /\ \/ at' = "parked" /\ waiting' = TRUE /\ UNCHANGED blocked
       \/ at' = "resume" /\ blocked' = FALSE /\ UNCHANGED waiting
    /\ UNCHANGED <<status, cancelled, listed, owner, refCount, completion, frees,
                   saw, waits, children, spawned, finisher, hold>>

\* The event is signalled: it schedules its waiter.
Signal ==
    /\ waiting
    /\ waiting' = FALSE
    /\ at' = "resume"
    /\ UNCHANGED <<status, cancelled, listed, blocked, owner, refCount, completion, frees,
                   saw, waits, children, spawned, finisher, hold>>

\* A task owned by the coroutine completes: its signalOwner() counts down.
ChildDone ==
    /\ children > 0
    /\ children' = children - 1
    /\ CountDown
    /\ UNCHANGED <<status, cancelled, listed, blocked, waiting, owner, refCount, frees,
                   at, saw, waits, spawned, hold>>

-----------------------------------------------------------------------------
(* The end of the coroutine: return_value(), final_suspend() *)

ReturnValue ==
    /\ at = "body" \/ at = "returned"
    /\ SetStatus("Returned", FALSE)
    /\ RunTo("Returned", FALSE, "final")
    /\ UNCHANGED <<cancelled, listed, blocked, waiting, owner, refCount, completion, frees,
                   saw, waits, children, spawned, finisher, hold>>

\* AsyncTaskFinalSuspend::await_ready(): is everything complete but the coroutine?
FinalCount ==
    /\ at = "final"
    /\ at' = IF completion = 1 THEN "complete" ELSE "defer"
    /\ UNCHANGED <<frame, saw, waits, children, spawned, finisher, hold>>

SetCompleted ==
    /\ at = "complete"
    /\ SetStatus("Completed", FALSE)
    /\ RunTo("Completed", FALSE, "finish")
    /\ UNCHANGED <<cancelled, listed, blocked, waiting, owner, refCount, completion, frees,
                   saw, waits, children, spawned, finisher, hold>>

\* enqueueAsyncSetCompletedStateTask(): the finisher waits for the event.
DeferCompletion ==
    /\ at = "defer" /\ at' = "deferred"
    /\ finisher' = "waiting"
    /\ UNCHANGED <<frame, saw, waits, children, spawned, hold>>

CompletionCountDown ==
    /\ \/ at = "finish" /\ at' = "signalOwner"
       \/ at = "deferred" /\ at' = "finalReady"
    /\ CountDown
    /\ UNCHANGED <<status, cancelled, listed, blocked, waiting, owner, refCount, frees,
                   saw, waits, children, spawned, hold>>

SignalOwner ==
    /\ at = "signalOwner" /\ at' = "finalReady"
    /\ owner' = NULL
    /\ UNCHANGED <<status, cancelled, listed, blocked, waiting, refCount, completion, frees,
                   saw, waits, children, spawned, finisher, hold>>

\* A coroutine that is abandoned and complete does not suspend any more.
FinalReady ==
    /\ at = "finalReady"
    /\ at' = IF status = "AbandonedCompleted" THEN "destroy" ELSE "finalSuspend"
    /\ UNCHANGED <<frame, saw, waits, children, spawned, finisher, hold>>

\* Mutant of FinalSuspend: an abandoned coroutine is destroyed before it completes.
FinalSuspendHasty ==
    /\ at = "finalSuspend"
    /\ SetStatus("Suspended", TRUE)
    /\ RunTo("Suspended", TRUE,
             IF status \in {"Abandoned", "AbandonedCompleted"} THEN "destroy" ELSE "end")
    /\ UNCHANGED <<cancelled, listed, blocked, waiting, owner, refCount, completion, frees,
                   saw, waits, children, spawned, finisher, hold>>

FinalSuspend ==
    /\ at = "finalSuspend"
    /\ SetStatus("Suspended", TRUE)
    /\ RunTo("Suspended", TRUE, IF status = "AbandonedCompleted" THEN "destroy" ELSE "end")
    /\ UNCHANGED <<cancelled, listed, blocked, waiting, owner, refCount, completion, frees,
                   saw, waits, children, spawned, finisher, hold>>

\* handle.destroy(), or running off the end after the final suspend point.
DestroyFrame ==
    /\ \/ at = "destroy" /\ at' = "end" /\ UNCHANGED <<finisher, pc>>
       \/ finisher = "destroy" /\ finisher' = "end" /\ UNCHANGED <<at, pc>>
       \/ \E h \in Holders : Goto(h, "destroy", "gone") /\ UNCHANGED <<at, finisher>>
    /\ frees' = frees + 1
    /\ UNCHANGED <<status, cancelled, listed, blocked, waiting, owner, refCount, completion,
                   saw, waits, children, spawned, flags>>

\* asyncSetCompletedState()
FinisherSignal ==
    /\ finisher = "signal" /\ finisher' = "set"
    /\ owner' = NULL
    /\ UNCHANGED <<status, cancelled, listed, blocked, waiting, refCount, completion, frees,
                   run, hold>>

FinisherSet ==
    /\ finisher = "set"
    /\ SetStatus("Completed", FALSE)
    /\ finisher' = IF Becomes("Completed", FALSE) = "abort" THEN "abort"
                   ELSE IF status = "AbandonedFinalSuspended" THEN "destroy" ELSE "end"
    /\ UNCHANGED <<cancelled, listed, blocked, waiting, owner, refCount, completion, frees,
                   run, hold>>

-----------------------------------------------------------------------------
(* Coroutine::cancel(), by a holder, also as a part of giving up the last handle *)

\* Where a holder goes on after cancel().
Back(h) == IF dropping[h] THEN "abandon" ELSE "hold"

Cancel(h) ==
    /\ h \in Cancellers /\ ~cancelled
    /\ Goto(h, "hold", "markCancelled")
    /\ UNCHANGED <<frame, run, finisher, flags>>

MarkCancelled(h) ==
    /\ Goto(h, "markCancelled", "readStatus")
    /\ cancelled' = TRUE
    /\ UNCHANGED <<status, listed, blocked, waiting, owner, refCount, completion, frees,
                   run, finisher, flags>>

ReadStatus(h) ==
    /\ Goto(h, "readStatus", IF status = "Suspended" THEN "readAwaiters" ELSE Back(h))
    /\ UNCHANGED <<frame, run, finisher, flags>>

ReadAwaiters(h) ==
    /\ Goto(h, "readAwaiters", IF listed THEN "pause" ELSE Back(h))
    /\ UNCHANGED <<frame, run, finisher, flags>>

Pause(h) ==
    /\ pc[h] = "pause"
    /\ SetStatus("PauseOnRunning", FALSE)
    /\ HoldTo(h, "PauseOnRunning", IF status = "Suspended" THEN "takeAwaiter" ELSE Back(h))
    /\ UNCHANGED <<cancelled, listed, blocked, waiting, owner, refCount, completion, frees,
                   run, finisher, flags>>

\* The awaiter is taken out for good: when its cancel() finds nothing to do, the
\* loop comes round to an empty list.
TakeAwaiter(h) ==
    /\ Goto(h, "takeAwaiter", IF listed /\ blocked THEN "unblock" ELSE "resumed")
    /\ listed' = FALSE
    /\ UNCHANGED <<status, cancelled, blocked, waiting, owner, refCount, completion, frees,
                   run, finisher, flags>>

\* Awaiter::cancel(): takes the coroutine out of the wait list and schedules it.
Unblock(h) ==
    /\ Goto(h, "unblock", "resumed")
    /\ waiting' = FALSE
    /\ at' = IF waiting THEN "resume" ELSE at
    /\ UNCHANGED <<status, cancelled, listed, blocked, owner, refCount, completion, frees,
                   saw, waits, children, spawned, finisher, flags>>

SetResumed(h) ==
    /\ pc[h] = "resumed"
    /\ SetStatus("Resumed", FALSE)
    /\ HoldTo(h, "Resumed", Back(h))
    /\ UNCHANGED <<cancelled, listed, blocked, waiting, owner, refCount, completion, frees,
                   run, finisher, flags>>

-----------------------------------------------------------------------------
(* destroyOrAbandon(), which starts with setOwner(the coroutine that does it), and
   setCancelAbandoned(false), which ends with setOwner(nullptr) *)

Drop(h) ==
    /\ Goto(h, "hold", IF cancelAbandoned THEN "setOwner" ELSE "unRef")
    /\ dropping' = [dropping EXCEPT ![h] = TRUE]
    /\ UNCHANGED <<frame, run, finisher, cancelAbandoned>>

\* setCancelAbandoned(false): the task has no owner any more.
Detach(h) ==
    /\ h \in Detachers /\ cancelAbandoned
    /\ Goto(h, "hold", "checkOwner")
    /\ cancelAbandoned' = FALSE
    /\ UNCHANGED <<frame, run, finisher, dropping>>

CheckOwner(h) ==
    /\ Goto(h, "checkOwner", IF owner = NULL THEN "hold" ELSE "setOwner")
    /\ UNCHANGED <<frame, run, finisher, flags>>

\* Where a holder goes on after setOwner().
Settled(h) == IF dropping[h] THEN "unRef" ELSE "hold"

\* A complete task needs no owner.
SetOwner(h) ==
    /\ Goto(h, "setOwner", IF completion = 0 THEN Settled(h) ELSE "countUp")
    /\ UNCHANGED <<frame, run, finisher, flags>>

\* Mutant of OwnerCountUp: the count is left as it is.
OwnerCountUpNot(h) ==
    /\ Goto(h, "countUp", IF completion = 0 THEN "undo" ELSE "exchange")
    /\ UNCHANGED <<frame, run, finisher, flags>>

\* The completion event is kept from zero while the owner changes.
OwnerCountUp(h) ==
    /\ Goto(h, "countUp", IF completion = 0 THEN "undo" ELSE "exchange")
    /\ completion' = completion + 1
    /\ UNCHANGED <<status, cancelled, listed, blocked, waiting, owner, refCount, frees,
                   run, finisher, flags>>

ExchangeOwner(h) ==
    /\ Goto(h, "exchange", "settle")
    /\ owner' = IF dropping[h] THEN h ELSE NULL
    /\ UNCHANGED <<status, cancelled, listed, blocked, waiting, refCount, completion, frees,
                   run, finisher, flags>>

OwnerCountDown(h) ==
    /\ \/ Goto(h, "undo", "ownerSignal")
       \/ Goto(h, "settle", "recheck")
    /\ CountDown
    /\ UNCHANGED <<status, cancelled, listed, blocked, waiting, owner, refCount, frees,
                   run, flags>>

\* Mutant of RecheckZero: the new owner is not signalled by who gave it.
RecheckZeroNot(h) ==
    /\ Goto(h, "recheck", Settled(h))
    /\ UNCHANGED <<frame, run, finisher, flags>>

RecheckZero(h) ==
    /\ Goto(h, "recheck", IF completion = 0 THEN "ownerSignal" ELSE Settled(h))
    /\ UNCHANGED <<frame, run, finisher, flags>>

HolderSignal(h) ==
    /\ Goto(h, "ownerSignal", Settled(h))
    /\ owner' = NULL
    /\ UNCHANGED <<status, cancelled, listed, blocked, waiting, refCount, completion, frees,
                   run, finisher, flags>>

UnRef(h) ==
    /\ Goto(h, "unRef", IF refCount = 1 THEN "lastRef" ELSE "gone")
    /\ refCount' = refCount - 1
    /\ UNCHANGED <<status, cancelled, listed, blocked, waiting, owner, completion, frees,
                   run, finisher, flags>>

LastRef(h) ==
    /\ Goto(h, "lastRef", IF status = "CompletedFinalSuspended" THEN "destroy"
                          ELSE IF cancelAbandoned THEN "cancelLast" ELSE "abandon")
    /\ UNCHANGED <<frame, run, finisher, flags>>

CancelLast(h) ==
    /\ Goto(h, "cancelLast", IF cancelled THEN "abandon" ELSE "markCancelled")
    /\ UNCHANGED <<frame, run, finisher, flags>>

\* Mutant of Abandon: a frame that is complete by now is left alone.
AbandonOnly(h) ==
    /\ pc[h] = "abandon"
    /\ SetStatus("Abandoned", FALSE)
    /\ HoldTo(h, "Abandoned", "gone")
    /\ UNCHANGED <<cancelled, listed, blocked, waiting, owner, refCount, completion, frees,
                   run, finisher, flags>>

\* Whoever finds the other half of the end done destroys the frame.
Abandon(h) ==
    /\ pc[h] = "abandon"
    /\ SetStatus("Abandoned", FALSE)
    /\ HoldTo(h, "Abandoned", IF status = "CompletedFinalSuspended" THEN "destroy" ELSE "gone")
    /\ UNCHANGED <<cancelled, listed, blocked, waiting, owner, refCount, completion, frees,
                   run, finisher, flags>>

-----------------------------------------------------------------------------
RunStep ==
    \/ RemoveAwaiter \/ SetRunning \/ AwaitUnpaused \/ CheckCancelled
    \/ Spawn \/ Await \/ OnReady \/ ReadCancelled \/ OnSuspend \/ MarkBlocked \/ Enqueue
    \/ ReturnValue \/ FinalCount \/ SetCompleted \/ DeferCompletion \/ CompletionCountDown
    \/ SignalOwner \/ FinalReady \/ FinalSuspend

FinisherStep == FinisherSignal \/ FinisherSet

HolderStep(h) ==
    \/ MarkCancelled(h) \/ ReadStatus(h) \/ ReadAwaiters(h) \/ Pause(h) \/ TakeAwaiter(h)
    \/ Unblock(h) \/ SetResumed(h)
    \/ Drop(h) \/ CheckOwner(h) \/ SetOwner(h) \/ OwnerCountUp(h)
    \/ ExchangeOwner(h) \/ OwnerCountDown(h) \/ RecheckZero(h)
    \/ HolderSignal(h) \/ UnRef(h) \/ LastRef(h) \/ CancelLast(h) \/ Abandon(h)

\* std::abort() ends the program; here only the one who calls it stops.
Aborted == at = "abort" \/ finisher = "abort" \/ \E h \in Holders : pc[h] = "abort"

Next ==
    \/ RunStep \/ Signal \/ ChildDone \/ FinisherStep \/ DestroyFrame
    \/ \E h \in Holders : Cancel(h) \/ Detach(h) \/ HolderStep(h)

Spec == Init /\ [][Next]_vars

\* The workers of the pool and the holders make progress, every holder gives its
\* handle up at last, the tasks the coroutine owns complete, and the event it waits
\* for is signalled.
Fairness ==
    /\ WF_vars(RunStep) /\ WF_vars(Signal) /\ WF_vars(ChildDone)
    /\ WF_vars(FinisherStep) /\ WF_vars(DestroyFrame)
    /\ \A h \in Holders : WF_vars(HolderStep(h))
FairSpec == Spec /\ Fairness

-----------------------------------------------------------------------------
(* Properties *)

HolderPlaces == {"hold", "markCancelled", "readStatus", "readAwaiters", "pause", "takeAwaiter",
                 "unblock", "resumed", "checkOwner", "setOwner", "countUp", "exchange", "undo", "settle", "recheck",
                 "ownerSignal", "unRef", "lastRef", "cancelLast", "abandon", "destroy", "gone",
                 "abort"}
RunPlaces == {"resume", "running", "paused", "check", "body", "advise", "suspend", "suspending",
              "mark", "enqueue", "parked", "returned", "final", "complete", "finish",
              "signalOwner", "defer", "deferred", "finalReady", "finalSuspend", "destroy", "end",
              "abort"}

\* Types; the completion event counts the coroutine, the tasks it owns and the
\* changes of owner under way.
TypeOK ==
    /\ cancelAbandoned \in BOOLEAN
    /\ status \in Statuses /\ cancelled \in BOOLEAN /\ listed \in BOOLEAN
    /\ blocked \in BOOLEAN /\ waiting \in BOOLEAN
    /\ owner \in Holders \cup {NULL} /\ refCount \in 0 .. Cardinality(Holders)
    /\ frees \in 0 .. 2 /\ at \in RunPlaces /\ saw \in BOOLEAN
    /\ waits \in 0 .. Waits /\ spawned \in 0 .. Children /\ children \in 0 .. spawned
    /\ finisher \in {"none", "waiting", "signal", "set", "destroy", "end", "abort"}
    /\ pc \in [Holders -> HolderPlaces] /\ dropping \in [Holders -> BOOLEAN]
    /\ completion \in 0 .. 1 + Children + Cardinality(Holders)

\* No change of status meets a status that it aborts on, whatever the coroutine,
\* a cancel(), the completion and an abandoning holder do at the same time.
NoAbort == ~Aborted

\* With one canceller at a time there is one status that meets no case: a cancel()
\* that saw the coroutine Suspended finds it complete when it comes to pause it.
\* No other step of anybody aborts.
OnlyLateCancelAborts ==
    /\ TypeOK
    /\ at # "abort" /\ finisher # "abort"
    /\ \A h \in Holders : pc[h] = "abort" => status = "CompletedFinalSuspended"

\* The frame is destroyed once, by the last one to need it: the coroutine at its
\* end, the finisher or the last holder.
DestroyedLast ==
    /\ frees <= 1
    /\ frees = 1 => /\ at = "end" /\ children = 0 /\ finisher \in {"none", "end"}
                    /\ \A h \in Holders : pc[h] = "gone"

\* The counts that changes of owner add for their duration.
Pulses == Cardinality({h \in Holders : pc[h] \in {"exchange", "undo", "settle"}})

\* A task that is not complete, itself or one that it owns, has an owner, which
\* cannot complete before it; and a destroyed one leaves none behind waiting.
OwnedUntilComplete ==
    cancelAbandoned => /\ completion > Pulses => owner # NULL
                       /\ frees = 1 => owner = NULL

\* A coroutine that runs again after a cancel() has that cancel() behind it: the
\* canceller does not touch an awaiter that is gone.
PausedForCancel ==
    \A h \in Holders :
        pc[h] \in {"takeAwaiter", "unblock", "resumed"} =>
            at \in {"mark", "enqueue", "parked", "resume", "running", "paused"}

\* The frame is destroyed in the end, in whatever order the coroutine returns, the
\* tasks it owns complete, it is cancelled and its handles are given up.
NothingLeaks == <>(frees = 1 \/ Aborted)
=============================================================================
