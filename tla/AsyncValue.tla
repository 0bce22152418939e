------------------------------ MODULE AsyncValue ------------------------------
(***************************************************************************)
(* AsyncValue and its awaiter (event/async_value.hpp): coroutines wait for *)
(* a value, which one producer sets and then signals.  The value is a      *)
(* plain field beside an AsyncEvent, so this module is that event with a   *)
(* maximum count of one, its counters being producers: whoever comes to    *)
(* read the field relies on the event for its being set.                   *)
(***************************************************************************)
EXTENDS AsyncCountDownEvent

CONSTANTS Contents, \* the values and the exceptions that may be set
          Unset     \* the null exception_ptr of a new AsyncValue

ASSUME UnsetAssumption == Unset \notin Contents \cup {"nothing", "cancelled"}
ASSUME ValueAssumption == InitCount = 1 /\ MaxCount = 1

VARIABLES value, \* m_value
          got    \* what each coroutine took out of the last wait

valueVars == <<vars, value, got>>

ValueInit == Init /\ value = Unset /\ got = [c \in Waiters |-> "nothing"]

-----------------------------------------------------------------------------
(* setAndSignal(), setExceptionAndSignal() *)

\* set() and setException(): by the one producer of a value, and once.
Set(a) ==
    /\ a \in Counters /\ At(a, "idle") /\ value = Unset
    /\ value' \in Contents
    /\ UNCHANGED <<vars, got>>

\* Mutant of SignalValue: the value is signalled before it is set.
SignalValueFirst(a) == CountDown(a) /\ UNCHANGED <<value, got>>

SignalValue(a) == CountDown(a) /\ value # Unset /\ UNCHANGED <<value, got>>

-----------------------------------------------------------------------------
(* BaseAsyncValueAwaiter, AsyncValueAwaiter *)

\* await_suspend() looks at the event itself before it comes to enqueue.
SuspendSignaled(w) ==
    LET c == self[w] IN
    /\ At(w, "suspend") /\ ~cancelled[c] /\ isZero
    /\ \/ Goto(w, "resume") /\ UNCHANGED <<scheduled, point>>
       \/ Goto(w, "idle") /\ Schedule(c) /\ point' = [point EXCEPT ![c] = "await"]
    /\ UNCHANGED <<event, rounds, cancelled, blocked, pausing, agents, value, got>>

\* await_resume(): onResume() throws if the coroutine was cancelled, get() throws
\* the exception or returns the value.
TakeValue(w) ==
    /\ Resume(w)
    /\ got' = [got EXCEPT ![self[w]] = IF cancelled[self[w]] THEN "cancelled" ELSE value]
    /\ UNCHANGED value

\* Everything else is the event's doing.
EventStep(a) ==
    /\ ~At(a, "resume")
    /\ At(a, "suspend") => cancelled[self[a]] \/ ~isZero
    /\ Step(a)
    /\ UNCHANGED <<value, got>>

-----------------------------------------------------------------------------
ValueStep(a) == EventStep(a) \/ SuspendSignaled(a) \/ TakeValue(a)

ValueCall(a) ==
    /\ \A d \in Destroyers : At(d, "idle")
    /\ \/ Set(a) \/ SignalValue(a)
       \/ (Destroy(a) \/ \E c \in Waiters : Cancel(a, c)) /\ UNCHANGED <<value, got>>

ValueNext == \E a \in Agents : ValueStep(a) \/ ValueCall(a)

ValueSpec == ValueInit /\ [][ValueNext]_valueVars
ValueFairSpec == ValueSpec /\ \A a \in Agents : WF_valueVars(ValueStep(a))
-----------------------------------------------------------------------------
(* Properties *)

\* Nobody comes out of a wait with an unset value: not one that the destructor
\* or a cancel() released, nor one that found the event signalled on its way to
\* wait (the assertion of isSignaled() and what get() takes for granted).
NeverUnset == \A c \in Waiters : got[c] # Unset
=============================================================================
