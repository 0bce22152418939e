---------------------- MODULE AsyncTaskLifecycleProofs ----------------------
(***************************************************************************)
(* Proofs about AsyncTaskLifecycle, for any finite set of holders and any  *)
(* bounds, when one holder at most calls cancel(): the frame is destroyed  *)
(* once and last, an incomplete task has an owner, and no change of status *)
(* aborts but the late cancel's.                                           *)
(***************************************************************************)
EXTENDS AsyncTaskLifecycle, FiniteSetTheorems, TLAPS

\* One cancel() of the coroutine at a time.
OneCanceller == \A g, h \in Cancellers : g = h

\* Where a holder is inside cancel(), gives up its handle, or comes after that.
InCancel  == {"markCancelled", "readStatus", "readAwaiters", "pause", "takeAwaiter", "unblock",
              "resumed"}
InPause   == {"takeAwaiter", "unblock", "resumed"}
InRelease == {"lastRef", "cancelLast", "abandon", "destroy"}
InPulse   == {"exchange", "undo", "settle"}
PulseSet  == {h \in Holders : pc[h] \in InPulse}
WillSignal == InPulse \cup {"recheck", "ownerSignal"}

\* Who still has a handle, and what the holders' places say of each other.
Released(h) == dropping[h] /\ pc[h] \in InCancel \cup InRelease \cup {"gone", "abort"}
Refs == {h \in Holders : ~Released(h)}
Handles ==
    /\ IsFiniteSet(Refs) /\ refCount = Cardinality(Refs)
    /\ \A h \in Holders :
          /\ pc[h] \in InRelease \cup {"unRef", "gone"} => dropping[h]
          /\ pc[h] \in {"hold", "checkOwner"} => ~dropping[h]
          /\ pc[h] \in InCancel /\ ~dropping[h] => h \in Cancellers
          /\ Released(h) /\ pc[h] # "gone" =>
                /\ Refs = {}
                /\ \A g \in Holders \ {h} : pc[g] = "gone"

\* The status that goes with each place of the coroutine.
Live(s) == s \cup {"Abandoned"}
StatusAt ==
    /\ at \in {"resume", "running"} =>
          status \in Live({"NotStarted", "Running", "Suspended", "PauseOnRunning"})
    /\ at = "paused" => status \in Live({"Paused", "Running"})
    /\ at \in {"check", "body", "returned", "advise", "suspend", "suspending"} =>
          status \in Live({"Running"})
    /\ at \in {"mark", "enqueue", "parked"} => status \in Live({"Suspended", "PauseOnRunning"})
    /\ at \in {"final", "complete", "defer", "deferred"} => status \in Live({"Returned"})
    /\ at \in {"finish", "signalOwner"} => status \in {"ReturnedCompleted", "AbandonedCompleted"}
    /\ at \in {"finalReady", "finalSuspend"} =>
          status \in IF finisher \in {"none", "end"}
                     THEN {"ReturnedCompleted", "AbandonedCompleted"} ELSE Live({"Returned"})
    /\ at = "destroy" => status = "AbandonedCompleted"
    /\ at = "end" =>
          status \in IF finisher \in {"waiting", "signal", "set"}
                     THEN {"FinalSuspended", "AbandonedFinalSuspended"}
                     ELSE {"AbandonedCompleted", "AbandonedFinalSuspended",
                           "CompletedFinalSuspended"}
    /\ waiting => at = "parked"

\* What the completion event counts, and what the places of the coroutine and of
\* its finisher say of that.
Uncounted == {"signalOwner", "finalReady", "finalSuspend", "destroy", "end"}
Own == IF at \in Uncounted THEN 0 ELSE 1
Counted ==
    /\ at # "abort" /\ finisher # "abort"
    /\ completion = Own + children + Pulses
    /\ at \in {"complete", "finish"} => children = 0
    /\ finisher # "none" => at \in Uncounted \cup {"deferred"}
    /\ finisher \notin {"none", "waiting"} => at \in Uncounted \ {"signalOwner"} /\ children = 0
    /\ finisher = "none" => at # "deferred" /\ (at \in Uncounted => children = 0)
    /\ finisher = "waiting" => at \notin {"signalOwner", "destroy"}
    /\ finisher = "waiting" /\ at # "deferred" => completion > 0
    /\ finisher \in {"signal", "set"} => at # "destroy"
    /\ finisher = "destroy" => at = "end" /\ status = "AbandonedFinalSuspended"

\* A cancel() that pauses the coroutine; nobody gives up a handle, or is about to
\* destroy the frame, before what it says.
Pausing ==
    /\ \A h \in Holders : pc[h] \in InPause => status \in {"PauseOnRunning", "Paused"}
    /\ status \in {"PauseOnRunning", "Paused"} => \E h \in Holders : pc[h] \in InPause
    /\ \A h \in Holders : pc[h] \in {"destroy", "abort"} => status = "CompletedFinalSuspended"
    /\ status \in {"Abandoned", "AbandonedCompleted", "AbandonedFinalSuspended"} =>
          \A h \in Holders : pc[h] = "gone"
    /\ status \in {"FinalSuspended", "CompletedFinalSuspended", "AbandonedFinalSuspended"} =>
          at = "end"

\* Once the coroutine and all that it owns are complete, they stay so; until then
\* there is an owner, and after that somebody who makes it be forgotten.
Finished == at \in Uncounted /\ children = 0
Owned ==
    /\ \A h \in Holders : pc[h] \in {"undo", "ownerSignal"} => Finished
    /\ cancelAbandoned =>
          /\ \A h \in Holders :
                pc[h] \in {"checkOwner", "setOwner", "countUp", "exchange"} => dropping[h]
          /\ ~Finished => owner # NULL
          /\ Finished /\ owner # NULL =>
                \/ at = "signalOwner" \/ finisher = "signal"
                \/ \E h \in Holders : pc[h] \in WillSignal

LifeInv == TypeOK /\ Handles /\ StatusAt /\ Counted /\ Pausing /\ Owned /\ DestroyedLast

-----------------------------------------------------------------------------
(* The counts: pulses of m_completionEvent, and m_refCount *)

LEMMA PulsesFinite == IsFiniteSet(PulseSet) /\ Pulses \in Nat /\ Pulses <= Cardinality(Holders)
<1>1. PulseSet \in SUBSET Holders /\ Pulses = Cardinality(PulseSet)
  BY DEF PulseSet, Pulses, InPulse
<1> QED BY <1>1, HolderAssumption, FS_Subset, FS_CardinalityType

\* One holder's step changes the pulses by what it adds or takes back.
LEMMA HolderPulse ==
    ASSUME TypeOK, NEW h \in Holders, pc' = [pc EXCEPT ![h] = pc'[h]]
    PROVE  Pulses' = Pulses + (IF pc'[h] \in InPulse THEN 1 ELSE 0)
                            - (IF pc[h] \in InPulse THEN 1 ELSE 0)
<1>0. pc \in [Holders -> HolderPlaces]
  BY DEF TypeOK
<1>a. Pulses = Cardinality(PulseSet) /\ Pulses' = Cardinality(PulseSet')
  BY DEF PulseSet, Pulses, InPulse
<1>b. IsFiniteSet(PulseSet) /\ Pulses \in Nat /\ (h \in PulseSet <=> pc[h] \in InPulse)
  BY PulsesFinite DEF PulseSet
<1>1. CASE pc'[h] \in InPulse
  <2>1. PulseSet' = PulseSet \cup {h}
    BY <1>0, <1>1 DEF PulseSet
  <2>2. Cardinality(PulseSet \cup {h})
          = IF h \in PulseSet THEN Cardinality(PulseSet) ELSE Cardinality(PulseSet) + 1
    BY <1>b, FS_AddElement
  <2> QED BY <1>1, <1>a, <1>b, <2>1, <2>2
<1>2. CASE pc'[h] \notin InPulse
  <2>1. PulseSet' = PulseSet \ {h}
    BY <1>0, <1>2 DEF PulseSet
  <2>2. Cardinality(PulseSet \ {h})
          = IF h \in PulseSet THEN Cardinality(PulseSet) - 1 ELSE Cardinality(PulseSet)
    BY <1>b, FS_RemoveElement
  <2> QED BY <1>2, <1>a, <1>b, <2>1, <2>2
<1> QED BY <1>1, <1>2

LEMMA HolderKeepsPulses ==
    ASSUME TypeOK, NEW h \in Holders, pc' = [pc EXCEPT ![h] = pc'[h]],
           pc'[h] \in InPulse <=> pc[h] \in InPulse
    PROVE  Pulses' = Pulses
BY HolderPulse, PulsesFinite

LEMMA SomePulse == ASSUME Pulses > 0 PROVE \E h \in Holders : pc[h] \in InPulse
<1>1. PulseSet # {} \/ Pulses = 0
  BY FS_EmptySet DEF PulseSet, Pulses, InPulse
<1> QED BY <1>1 DEF PulseSet

LEMMA OnePulse == ASSUME NEW h \in Holders, pc[h] \in InPulse PROVE Pulses > 0
<1>1. PulseSet # {}
  BY DEF PulseSet
<1>2. Pulses = Cardinality(PulseSet)
  BY DEF PulseSet, Pulses, InPulse
<1> QED BY <1>1, <1>2, PulsesFinite, FS_EmptySet

-----------------------------------------------------------------------------
(* The handles *)

LEMMA HandlesInit == Init => Handles
<1> SUFFICES ASSUME Init PROVE Handles
  OBVIOUS
<1>1. Refs = Holders
  BY DEF Init, Refs, Released
<1> QED BY <1>1, HolderAssumption DEF Init, Handles, Released, InRelease, InCancel

\* A step of a holder that keeps or gives no handle.
LEMMA HandlesKept ==
    ASSUME Handles, TypeOK, NEW h \in Holders, pc[h] # "gone", refCount' = refCount,
           pc' = [pc EXCEPT ![h] = pc'[h]], dropping' = [dropping EXCEPT ![h] = dropping'[h]],
           Released(h)' <=> Released(h),
           pc'[h] \in InRelease \cup {"unRef", "gone"} => dropping'[h],
           pc'[h] \in {"hold", "checkOwner"} => ~dropping'[h],
           pc'[h] \in InCancel /\ ~dropping'[h] => h \in Cancellers
    PROVE  Handles'
<1>0. pc \in [Holders -> HolderPlaces] /\ dropping \in [Holders -> BOOLEAN]
  BY DEF TypeOK
<1>1. \A g \in Holders : Released(g)' <=> Released(g)
  BY <1>0 DEF Released
<1>2. Refs' = Refs
  BY <1>1 DEF Refs
<1> QED BY <1>0, <1>1, <1>2 DEF Handles

LEMMA HandlesUnchanged == ASSUME Handles, UNCHANGED <<refCount, pc, dropping>> PROVE Handles'
BY DEF Handles, Refs, Released

LEMMA HandlesStep == ASSUME LifeInv, [Next]_vars PROVE Handles'
<1>a. TypeOK /\ Handles
  BY DEF LifeInv
<1>b. pc \in [Holders -> HolderPlaces] /\ dropping \in [Holders -> BOOLEAN]
  BY <1>a DEF TypeOK
<1>c. \A h \in Holders :
        /\ pc[h] \in InRelease \cup {"unRef", "gone"} => dropping[h]
        /\ pc[h] \in {"hold", "checkOwner"} => ~dropping[h]
        /\ pc[h] \in InCancel /\ ~dropping[h] => h \in Cancellers
  BY <1>a DEF Handles
<1> USE <1>a, <1>b, <1>c DEF Released, InRelease, InCancel, Goto, HoldTo, Back, Settled,
    frame, flags
<1>0. CASE UNCHANGED vars
  BY <1>0, HandlesUnchanged DEF vars, frame, hold, flags
<1>1. ASSUME RunStep PROVE Handles'
  BY <1>1, HandlesUnchanged
     DEF RunStep, RemoveAwaiter, SetRunning, AwaitUnpaused, CheckCancelled, Spawn, Await,
         OnReady, ReadCancelled, OnSuspend, MarkBlocked, Enqueue, ReturnValue, FinalCount,
         SetCompleted, DeferCompletion, CompletionCountDown, SignalOwner, FinalReady,
         FinalSuspend, frame, hold
<1>2. ASSUME Signal PROVE Handles'
  BY <1>2, HandlesUnchanged DEF Signal, hold
<1>3. ASSUME ChildDone PROVE Handles'
  BY <1>3, HandlesUnchanged DEF ChildDone, hold
<1>4. ASSUME FinisherSignal PROVE Handles'
  BY <1>4, HandlesUnchanged DEF FinisherSignal, hold
<1>5. ASSUME FinisherSet PROVE Handles'
  BY <1>5, HandlesUnchanged DEF FinisherSet, hold
<1>6. ASSUME DestroyFrame PROVE Handles'
  <2>1. ASSUME NEW h \in Holders, Goto(h, "destroy", "gone") PROVE Handles'
    <3>1. UNCHANGED <<refCount, dropping>>
      BY <1>6 DEF DestroyFrame
    <3> QED BY <2>1, <3>1, HandlesKept
  <2>2. CASE UNCHANGED pc
    BY <1>6, <2>2, HandlesUnchanged DEF DestroyFrame
  <2> QED BY <1>6, <2>1, <2>2 DEF DestroyFrame
<1>7. ASSUME NEW h \in Holders, Cancel(h) PROVE Handles'
  BY <1>7, HandlesKept DEF Cancel
<1>8. ASSUME NEW h \in Holders, Detach(h) PROVE Handles'
  BY <1>8, HandlesKept DEF Detach
<1>9. ASSUME NEW h \in Holders, MarkCancelled(h) PROVE Handles'
  BY <1>9, HandlesKept DEF MarkCancelled
<1>10. ASSUME NEW h \in Holders, ReadStatus(h) PROVE Handles'
  BY <1>10, HandlesKept DEF ReadStatus
<1>11. ASSUME NEW h \in Holders, ReadAwaiters(h) PROVE Handles'
  BY <1>11, HandlesKept DEF ReadAwaiters
<1>12. ASSUME NEW h \in Holders, Pause(h) PROVE Handles'
  BY <1>12, HandlesKept DEF Pause
<1>13. ASSUME NEW h \in Holders, TakeAwaiter(h) PROVE Handles'
  BY <1>13, HandlesKept DEF TakeAwaiter
<1>14. ASSUME NEW h \in Holders, Unblock(h) PROVE Handles'
  BY <1>14, HandlesKept DEF Unblock
<1>15. ASSUME NEW h \in Holders, SetResumed(h) PROVE Handles'
  BY <1>15, HandlesKept DEF SetResumed
<1>16. ASSUME NEW h \in Holders, Drop(h) PROVE Handles'
  BY <1>16, HandlesKept DEF Drop
<1>17. ASSUME NEW h \in Holders, CheckOwner(h) PROVE Handles'
  BY <1>17, HandlesKept DEF CheckOwner
<1>18. ASSUME NEW h \in Holders, SetOwner(h) PROVE Handles'
  BY <1>18, HandlesKept DEF SetOwner
<1>19. ASSUME NEW h \in Holders, OwnerCountUp(h) PROVE Handles'
  BY <1>19, HandlesKept DEF OwnerCountUp
<1>20. ASSUME NEW h \in Holders, ExchangeOwner(h) PROVE Handles'
  BY <1>20, HandlesKept DEF ExchangeOwner
<1>21. ASSUME NEW h \in Holders, OwnerCountDown(h) PROVE Handles'
  BY <1>21, HandlesKept DEF OwnerCountDown
<1>22. ASSUME NEW h \in Holders, RecheckZero(h) PROVE Handles'
  BY <1>22, HandlesKept DEF RecheckZero
<1>23. ASSUME NEW h \in Holders, HolderSignal(h) PROVE Handles'
  BY <1>23, HandlesKept DEF HolderSignal
<1>24. ASSUME NEW h \in Holders, UnRef(h) PROVE Handles'
  <2>0. /\ pc[h] = "unRef" /\ refCount' = refCount - 1 /\ dropping' = dropping
        /\ pc' = [pc EXCEPT ![h] = IF refCount = 1 THEN "lastRef" ELSE "gone"]
    BY <1>24 DEF UnRef
  <2>1. IsFiniteSet(Refs) /\ refCount = Cardinality(Refs) /\ h \in Refs
    BY <2>0 DEF Handles, Refs
  <2>2. Refs' = Refs \ {h}
    BY <2>0 DEF Refs
  <2>3. IsFiniteSet(Refs') /\ refCount' = Cardinality(Refs')
    BY <2>0, <2>1, <2>2, FS_RemoveElement
  <2>4. ASSUME NEW g \in Holders, Released(g)', pc'[g] # "gone"
        PROVE  Refs' = {} /\ \A k \in Holders \ {g} : pc'[k] = "gone"
    <3>1. g = h /\ refCount = 1
      <4>1. CASE g = h
        BY <2>0, <2>4, <4>1
      <4>2. CASE g # h
        <5>1. Released(g) /\ pc[g] # "gone"
          BY <2>0, <2>4, <4>2
        <5> QED BY <5>1, <2>1 DEF Handles
      <4> QED BY <4>1, <4>2
    <3>2. Refs = {h}
      BY <3>1, <2>1, FS_Singleton
    <3>3. \A k \in Holders \ {h} : Released(k)
      BY <3>2 DEF Refs
    <3>4. \A k \in Holders \ {h} : pc[k] = "gone"
      BY <3>3, <2>1 DEF Handles
    <3> QED BY <2>0, <2>2, <3>1, <3>2, <3>4
  <2> QED BY <2>0, <2>3, <2>4 DEF Handles
<1>25. ASSUME NEW h \in Holders, LastRef(h) PROVE Handles'
  BY <1>25, HandlesKept DEF LastRef
<1>26. ASSUME NEW h \in Holders, CancelLast(h) PROVE Handles'
  BY <1>26, HandlesKept DEF CancelLast
<1>27. ASSUME NEW h \in Holders, Abandon(h) PROVE Handles'
  BY <1>27, HandlesKept DEF Abandon
<1> HIDE DEF Goto, HoldTo, Released, frame
<1> QED
  BY <1>0, <1>1, <1>2, <1>3, <1>4, <1>5, <1>6, <1>7, <1>8, <1>9, <1>10, <1>11, <1>12, <1>13,
     <1>14, <1>15, <1>16, <1>17, <1>18, <1>19, <1>20, <1>21, <1>22, <1>23, <1>24, <1>25,
     <1>26, <1>27  DEF Next, FinisherStep, HolderStep

-----------------------------------------------------------------------------
(* What setStatus() does at each place where it is called *)

LEMMA SetRunningEffect ==
    ASSUME StatusAt, SetRunning
    PROVE  /\ at' = IF status = "PauseOnRunning" THEN "paused" ELSE "check"
           /\ status' = CASE status = "PauseOnRunning" -> "Paused"
                          [] status = "Abandoned" -> "Abandoned"
                          [] OTHER -> "Running"
BY DEF SetRunning, StatusAt, Live, SetStatus, RunTo, Becomes, After, Asserted, Moves

LEMMA OnSuspendEffect ==
    ASSUME StatusAt, OnSuspend
    PROVE  /\ at' \in {"mark", "resume"}
           /\ status' = IF status = "Running" THEN "Suspended" ELSE status
           /\ status \in {"Running", "Abandoned"}
BY DEF OnSuspend, StatusAt, Live, SetStatus, RunTo, Becomes, After, Asserted, Moves

LEMMA ReturnValueEffect ==
    ASSUME StatusAt, ReturnValue
    PROVE  /\ at' = "final"
           /\ status' = IF status = "Running" THEN "Returned" ELSE status
           /\ status \in {"Running", "Abandoned"}
BY DEF ReturnValue, StatusAt, Live, SetStatus, RunTo, Becomes, After, Asserted, Moves

LEMMA SetCompletedEffect ==
    ASSUME StatusAt, SetCompleted
    PROVE  /\ at' = "finish"
           /\ status' = IF status = "Returned" THEN "ReturnedCompleted" ELSE "AbandonedCompleted"
           /\ status \in {"Returned", "Abandoned"}
BY DEF SetCompleted, StatusAt, Live, SetStatus, RunTo, Becomes, After, Asserted, Moves

LEMMA FinalSuspendEffect ==
    ASSUME StatusAt, FinalSuspend
    PROVE  /\ at' = IF status = "AbandonedCompleted" THEN "destroy" ELSE "end"
           /\ status' = CASE status = "Returned" -> "FinalSuspended"
                          [] status = "Abandoned" -> "AbandonedFinalSuspended"
                          [] status = "ReturnedCompleted" -> "CompletedFinalSuspended"
                          [] status = "AbandonedCompleted" -> "AbandonedCompleted"
           /\ status \in IF finisher \in {"none", "end"}
                         THEN {"ReturnedCompleted", "AbandonedCompleted"}
                         ELSE {"Returned", "Abandoned"}
BY DEF FinalSuspend, StatusAt, Live, SetStatus, RunTo, Becomes, After, Asserted, Moves

LEMMA FinisherSetEffect ==
    ASSUME StatusAt, Counted, FinisherSet
    PROVE  /\ finisher' = IF status = "AbandonedFinalSuspended" THEN "destroy" ELSE "end"
           /\ status' = CASE status = "Returned" -> "ReturnedCompleted"
                          [] status = "Abandoned" -> "AbandonedCompleted"
                          [] status = "FinalSuspended" -> "CompletedFinalSuspended"
                          [] status = "AbandonedFinalSuspended" -> "AbandonedFinalSuspended"
           /\ IF at = "end" THEN status \in {"FinalSuspended", "AbandonedFinalSuspended"}
                            ELSE status \in {"Returned", "Abandoned"}
           /\ at \in {"finalReady", "finalSuspend", "end"}
<1>1. finisher = "set" /\ at \in {"finalReady", "finalSuspend", "end"}
  BY DEF FinisherSet, Counted, Uncounted
<1>2. IF at = "end" THEN status \in {"FinalSuspended", "AbandonedFinalSuspended"}
                    ELSE status \in {"Returned", "Abandoned"}
  BY <1>1 DEF StatusAt, Live
<1> QED BY <1>1, <1>2 DEF FinisherSet, SetStatus, Becomes, After, Asserted, Moves

LEMMA SetResumedEffect ==
    ASSUME Pausing, NEW h \in Holders, SetResumed(h)
    PROVE  /\ pc' = [pc EXCEPT ![h] = Back(h)]
           /\ status' = IF status = "Paused" THEN "Running" ELSE "Suspended"
           /\ status \in {"Paused", "PauseOnRunning"}
<1>1. status \in {"Paused", "PauseOnRunning"}
  BY DEF SetResumed, Pausing, InPause
<1>2. Becomes("Resumed", FALSE) = IF status = "Paused" THEN "Running" ELSE "Suspended"
  BY <1>1 DEF Becomes, After, Asserted, Moves
<1>3. Becomes("Resumed", FALSE) # "abort"
  BY <1>2
<1> QED BY <1>1, <1>2, <1>3 DEF SetResumed, SetStatus, HoldTo

\* Only one holder is inside cancel(), and who ends the handles is alone.
LEMMA CancelAlone ==
    ASSUME OneCanceller, Handles, NEW g \in Holders, NEW h \in Holders,
           pc[g] \in InCancel, pc[h] \in InCancel
    PROVE  g = h
BY DEF OneCanceller, Handles, Released, InCancel

LEMMA LastAlone ==
    ASSUME Handles, NEW h \in Holders, pc[h] \in InRelease
    PROVE  \A g \in Holders \ {h} : pc[g] = "gone"
BY DEF Handles, Released, InRelease

\* The statuses of a coroutine that nobody has paused or abandoned.
Plain == {"NotStarted", "Returned", "FinalSuspended", "ReturnedCompleted", "Running", "Suspended"}

LEMMA StatusPlain ==
    ASSUME TypeOK, StatusAt, Counted, Pausing, NEW h \in Holders, pc[h] # "gone",
           \A g \in Holders : pc[g] \notin InPause
    PROVE  status \in Plain \cup {"CompletedFinalSuspended"}
<1>1. status \notin {"PauseOnRunning", "Paused", "Abandoned", "AbandonedCompleted",
                     "AbandonedFinalSuspended"}
  BY DEF Pausing
<1>2. status \in {"NotStarted", "Returned", "FinalSuspended", "ReturnedCompleted", "Running",
                  "Suspended", "PauseOnRunning", "Paused", "Abandoned", "AbandonedCompleted",
                  "AbandonedFinalSuspended", "CompletedFinalSuspended"}
  BY DEF TypeOK, RunPlaces, StatusAt, Live, Counted
<1> QED BY <1>1, <1>2 DEF Plain

LEMMA PauseEffect ==
    ASSUME OneCanceller, LifeInv, NEW h \in Holders, Pause(h)
    PROVE  /\ status \in Plain \cup {"CompletedFinalSuspended"}
           /\ status' = IF status = "Suspended" THEN "PauseOnRunning" ELSE status
           /\ pc' = [pc EXCEPT ![h] = IF status = "Suspended" THEN "takeAwaiter"
                                      ELSE IF status = "CompletedFinalSuspended" THEN "abort"
                                      ELSE Back(h)]
<1>1. pc[h] = "pause" /\ \A g \in Holders : pc[g] \notin InPause
  BY CancelAlone DEF Pause, LifeInv, InCancel, InPause
<1>2. status \in Plain \cup {"CompletedFinalSuspended"}
  BY <1>1, StatusPlain DEF LifeInv
<1>3. Becomes("PauseOnRunning", FALSE)
        = IF status = "Suspended" THEN "PauseOnRunning"
          ELSE IF status = "CompletedFinalSuspended" THEN "abort" ELSE status
  BY <1>2 DEF Plain, Becomes, After, Asserted, Moves
<1>4. status # "abort"
  BY <1>2 DEF Plain
<1> QED BY <1>2, <1>3, <1>4 DEF Pause, SetStatus, HoldTo

LEMMA AbandonEffect ==
    ASSUME LifeInv, NEW h \in Holders, Abandon(h)
    PROVE  /\ status \in Plain \cup {"CompletedFinalSuspended"}
           /\ status' = CASE status = "CompletedFinalSuspended" -> status
                          [] status = "FinalSuspended" -> "AbandonedFinalSuspended"
                          [] status = "ReturnedCompleted" -> "AbandonedCompleted"
                          [] OTHER -> "Abandoned"
           /\ pc' = [pc EXCEPT ![h] = IF status = "CompletedFinalSuspended" THEN "destroy"
                                      ELSE "gone"]
           /\ \A g \in Holders \ {h} : pc[g] = "gone"
<1>1. pc[h] = "abandon" /\ \A g \in Holders \ {h} : pc[g] = "gone"
  BY LastAlone DEF Abandon, LifeInv, InRelease
<1>2. status \in Plain \cup {"CompletedFinalSuspended"}
  BY <1>1, StatusPlain DEF LifeInv, InPause
<1>3. Becomes("Abandoned", FALSE)
        = CASE status = "CompletedFinalSuspended" -> status
            [] status = "FinalSuspended" -> "AbandonedFinalSuspended"
            [] status = "ReturnedCompleted" -> "AbandonedCompleted"
            [] OTHER -> "Abandoned"
  BY <1>2 DEF Plain, Becomes, After, Asserted, Moves
<1>4. Becomes("Abandoned", FALSE) # "abort"
  BY <1>3
<1> QED BY <1>1, <1>2, <1>3, <1>4 DEF Abandon, SetStatus, HoldTo

-----------------------------------------------------------------------------
(* The status at each place *)

LEMMA StatusAtStep == ASSUME OneCanceller, LifeInv, [Next]_vars PROVE StatusAt'
<1>a. StatusAt /\ Counted /\ Pausing
  BY DEF LifeInv
<1>b. finisher \in {"none", "waiting", "signal", "set", "destroy", "end", "abort"}
  BY DEF LifeInv, TypeOK
<1> USE <1>a, <1>b DEF Live
<1>0. CASE UNCHANGED vars
  BY <1>0 DEF vars, frame, run, StatusAt
<1>1. ASSUME RemoveAwaiter PROVE StatusAt'
  BY <1>1 DEF RemoveAwaiter, StatusAt, frame
<1>2. ASSUME SetRunning PROVE StatusAt'
  BY <1>2, SetRunningEffect DEF SetRunning, StatusAt
<1>3. ASSUME AwaitUnpaused PROVE StatusAt'
  BY <1>3 DEF AwaitUnpaused, StatusAt, frame
<1>4. ASSUME CheckCancelled PROVE StatusAt'
  BY <1>4 DEF CheckCancelled, StatusAt, frame
<1>5. ASSUME Spawn PROVE StatusAt'
  BY <1>5 DEF Spawn, StatusAt, frame
<1>6. ASSUME Await PROVE StatusAt'
  BY <1>6 DEF Await, StatusAt, frame
<1>7. ASSUME OnReady PROVE StatusAt'
  BY <1>7 DEF OnReady, StatusAt, frame
<1>8. ASSUME ReadCancelled PROVE StatusAt'
  BY <1>8 DEF ReadCancelled, StatusAt, frame
<1>9. ASSUME OnSuspend PROVE StatusAt'
  BY <1>9, OnSuspendEffect DEF OnSuspend, StatusAt
<1>10. ASSUME MarkBlocked PROVE StatusAt'
  BY <1>10 DEF MarkBlocked, StatusAt, frame
<1>11. ASSUME Enqueue PROVE StatusAt'
  BY <1>11 DEF Enqueue, StatusAt, frame
<1>12. ASSUME ReturnValue PROVE StatusAt'
  BY <1>12, ReturnValueEffect DEF ReturnValue, StatusAt
<1>13. ASSUME FinalCount PROVE StatusAt'
  BY <1>13 DEF FinalCount, StatusAt, frame
<1>14. ASSUME SetCompleted PROVE StatusAt'
  BY <1>14, SetCompletedEffect DEF SetCompleted, StatusAt
<1>15. ASSUME DeferCompletion PROVE StatusAt'
  BY <1>15 DEF DeferCompletion, StatusAt, frame
<1>16. ASSUME CompletionCountDown PROVE StatusAt'
  BY <1>16 DEF CompletionCountDown, CountDown, StatusAt, Counted, Uncounted
<1>17. ASSUME SignalOwner PROVE StatusAt'
  BY <1>17 DEF SignalOwner, StatusAt, Counted, Uncounted
<1>18. ASSUME FinalReady PROVE StatusAt'
  BY <1>18 DEF FinalReady, StatusAt, frame
<1>19. ASSUME FinalSuspend PROVE StatusAt'
  BY <1>19, FinalSuspendEffect DEF FinalSuspend, StatusAt, Counted, Uncounted
<1>20. ASSUME Signal PROVE StatusAt'
  BY <1>20 DEF Signal, StatusAt, frame
<1>21. ASSUME ChildDone PROVE StatusAt'
  BY <1>21 DEF ChildDone, CountDown, StatusAt
<1>22. ASSUME FinisherSignal PROVE StatusAt'
  BY <1>22 DEF FinisherSignal, StatusAt, run
<1>23. ASSUME FinisherSet PROVE StatusAt'
  BY <1>23, FinisherSetEffect DEF FinisherSet, StatusAt, run
<1>24. ASSUME DestroyFrame PROVE StatusAt'
  BY <1>24 DEF DestroyFrame, StatusAt, Counted, Uncounted
<1>25. ASSUME NEW h \in Holders, Cancel(h) PROVE StatusAt'
  BY <1>25 DEF Cancel, frame, run, StatusAt
<1>26. ASSUME NEW h \in Holders, Detach(h) PROVE StatusAt'
  BY <1>26 DEF Detach, frame, run, StatusAt
<1>27. ASSUME NEW h \in Holders, MarkCancelled(h) PROVE StatusAt'
  BY <1>27 DEF MarkCancelled, frame, run, StatusAt
<1>28. ASSUME NEW h \in Holders, ReadStatus(h) PROVE StatusAt'
  BY <1>28 DEF ReadStatus, frame, run, StatusAt
<1>29. ASSUME NEW h \in Holders, ReadAwaiters(h) PROVE StatusAt'
  BY <1>29 DEF ReadAwaiters, frame, run, StatusAt
<1>30. ASSUME NEW h \in Holders, Pause(h) PROVE StatusAt'
  <2>1. UNCHANGED <<at, finisher, waiting>>
    BY <1>30 DEF Pause, run
  <2> QED BY <1>30, <2>1, PauseEffect DEF StatusAt, Plain
<1>31. ASSUME NEW h \in Holders, TakeAwaiter(h) PROVE StatusAt'
  BY <1>31 DEF TakeAwaiter, frame, run, StatusAt
<1>32. ASSUME NEW h \in Holders, Unblock(h) PROVE StatusAt'
  BY <1>32 DEF Unblock, StatusAt
<1>33. ASSUME NEW h \in Holders, SetResumed(h) PROVE StatusAt'
  <2>1. UNCHANGED <<at, finisher, waiting>>
    BY <1>33 DEF SetResumed, run
  <2> QED BY <1>33, <2>1, SetResumedEffect DEF StatusAt, Plain
<1>34. ASSUME NEW h \in Holders, Drop(h) PROVE StatusAt'
  BY <1>34 DEF Drop, frame, run, StatusAt
<1>35. ASSUME NEW h \in Holders, CheckOwner(h) PROVE StatusAt'
  BY <1>35 DEF CheckOwner, frame, run, StatusAt
<1>36. ASSUME NEW h \in Holders, SetOwner(h) PROVE StatusAt'
  BY <1>36 DEF SetOwner, frame, run, StatusAt
<1>37. ASSUME NEW h \in Holders, OwnerCountUp(h) PROVE StatusAt'
  BY <1>37 DEF OwnerCountUp, frame, run, StatusAt
<1>38. ASSUME NEW h \in Holders, ExchangeOwner(h) PROVE StatusAt'
  BY <1>38 DEF ExchangeOwner, frame, run, StatusAt
<1>39. ASSUME NEW h \in Holders, OwnerCountDown(h) PROVE StatusAt'
  BY <1>39 DEF OwnerCountDown, frame, run, StatusAt, CountDown
<1>40. ASSUME NEW h \in Holders, RecheckZero(h) PROVE StatusAt'
  BY <1>40 DEF RecheckZero, frame, run, StatusAt
<1>41. ASSUME NEW h \in Holders, HolderSignal(h) PROVE StatusAt'
  BY <1>41 DEF HolderSignal, frame, run, StatusAt
<1>42. ASSUME NEW h \in Holders, UnRef(h) PROVE StatusAt'
  BY <1>42 DEF UnRef, frame, run, StatusAt
<1>43. ASSUME NEW h \in Holders, LastRef(h) PROVE StatusAt'
  BY <1>43 DEF LastRef, frame, run, StatusAt
<1>44. ASSUME NEW h \in Holders, CancelLast(h) PROVE StatusAt'
  BY <1>44 DEF CancelLast, frame, run, StatusAt
<1>45. ASSUME NEW h \in Holders, Abandon(h) PROVE StatusAt'
  <2>1. UNCHANGED <<at, finisher, waiting>>
    BY <1>45 DEF Abandon, run
  <2> QED BY <1>45, <2>1, AbandonEffect DEF StatusAt, Plain
<1> QED
  BY <1>0, <1>1, <1>2, <1>3, <1>4, <1>5, <1>6, <1>7, <1>8, <1>9, <1>10, <1>11, <1>12, <1>13,
     <1>14, <1>15, <1>16, <1>17, <1>18, <1>19, <1>20, <1>21, <1>22, <1>23, <1>24, <1>25,
     <1>26, <1>27, <1>28, <1>29, <1>30, <1>31, <1>32, <1>33, <1>34, <1>35, <1>36, <1>37,
     <1>38, <1>39, <1>40, <1>41, <1>42, <1>43, <1>44, <1>45  DEF Next, RunStep,
     FinisherStep, HolderStep

-----------------------------------------------------------------------------
(* What the completion event counts *)

LEMMA PulsesUnchanged == ASSUME UNCHANGED pc PROVE Pulses' = Pulses
BY DEF Pulses

LEMMA CountedStep == ASSUME OneCanceller, LifeInv, [Next]_vars PROVE Counted'
<1>a. StatusAt /\ Counted /\ TypeOK
  BY DEF LifeInv
<1>b. Pulses \in Nat /\ children \in Nat /\ completion \in Nat
  BY <1>a, PulsesFinite DEF TypeOK
<1>c. pc \in [Holders -> HolderPlaces]
  BY <1>a DEF TypeOK
<1> USE <1>a, <1>b DEF Counted, Own, Uncounted, frame, run, hold, flags
<1>0. CASE UNCHANGED vars
  BY <1>0, PulsesUnchanged DEF vars
<1>1. ASSUME RemoveAwaiter PROVE Counted'
  BY <1>1, PulsesUnchanged DEF RemoveAwaiter
<1>2. ASSUME SetRunning PROVE Counted'
  BY <1>2, PulsesUnchanged, SetRunningEffect DEF SetRunning
<1>3. ASSUME AwaitUnpaused PROVE Counted'
  BY <1>3, PulsesUnchanged DEF AwaitUnpaused
<1>4. ASSUME CheckCancelled PROVE Counted'
  BY <1>4, PulsesUnchanged DEF CheckCancelled
<1>5. ASSUME Spawn PROVE Counted'
  BY <1>5, PulsesUnchanged DEF Spawn
<1>6. ASSUME Await PROVE Counted'
  BY <1>6, PulsesUnchanged DEF Await
<1>7. ASSUME OnReady PROVE Counted'
  BY <1>7, PulsesUnchanged DEF OnReady
<1>8. ASSUME ReadCancelled PROVE Counted'
  BY <1>8, PulsesUnchanged DEF ReadCancelled
<1>9. ASSUME OnSuspend PROVE Counted'
  BY <1>9, PulsesUnchanged, OnSuspendEffect DEF OnSuspend
<1>10. ASSUME MarkBlocked PROVE Counted'
  BY <1>10, PulsesUnchanged DEF MarkBlocked
<1>11. ASSUME Enqueue PROVE Counted'
  BY <1>11, PulsesUnchanged DEF Enqueue
<1>12. ASSUME ReturnValue PROVE Counted'
  BY <1>12, PulsesUnchanged, ReturnValueEffect DEF ReturnValue
<1>13. ASSUME FinalCount PROVE Counted'
  BY <1>13, PulsesUnchanged DEF FinalCount
<1>14. ASSUME SetCompleted PROVE Counted'
  BY <1>14, PulsesUnchanged, SetCompletedEffect DEF SetCompleted
<1>15. ASSUME DeferCompletion PROVE Counted'
  BY <1>15, PulsesUnchanged DEF DeferCompletion
<1>16. ASSUME CompletionCountDown PROVE Counted'
  BY <1>16, PulsesUnchanged DEF CompletionCountDown, CountDown
<1>17. ASSUME SignalOwner PROVE Counted'
  BY <1>17, PulsesUnchanged DEF SignalOwner, StatusAt, Live
<1>18. ASSUME FinalReady PROVE Counted'
  BY <1>18, PulsesUnchanged DEF FinalReady, StatusAt, Live
<1>19. ASSUME FinalSuspend PROVE Counted'
  BY <1>19, PulsesUnchanged, FinalSuspendEffect DEF FinalSuspend
<1>20. ASSUME Signal PROVE Counted'
  BY <1>20, PulsesUnchanged DEF Signal, StatusAt, Live
<1>21. ASSUME ChildDone PROVE Counted'
  BY <1>21, PulsesUnchanged DEF ChildDone, CountDown
<1>22. ASSUME FinisherSignal PROVE Counted'
  BY <1>22, PulsesUnchanged DEF FinisherSignal
<1>23. ASSUME FinisherSet PROVE Counted'
  BY <1>23, PulsesUnchanged, FinisherSetEffect DEF FinisherSet
<1>24. ASSUME DestroyFrame PROVE Counted'
  <2>1. ASSUME NEW h \in Holders, Goto(h, "destroy", "gone") PROVE Pulses' = Pulses
    BY <1>c, <2>1, HolderKeepsPulses DEF Goto, InPulse
  <2>2. Pulses' = Pulses
    BY <1>24, <2>1, PulsesUnchanged DEF DestroyFrame
  <2> QED BY <1>24, <2>2 DEF DestroyFrame, StatusAt
<1>25. ASSUME NEW h \in Holders, Cancel(h) PROVE Counted'
  <2>1. Pulses' = Pulses
    BY <1>25, <1>c, HolderKeepsPulses DEF Cancel, Goto, InPulse
  <2> QED BY <1>25, <2>1 DEF Cancel
<1>26. ASSUME NEW h \in Holders, Detach(h) PROVE Counted'
  <2>1. Pulses' = Pulses
    BY <1>26, <1>c, HolderKeepsPulses DEF Detach, Goto, InPulse
  <2> QED BY <1>26, <2>1 DEF Detach
<1>27. ASSUME NEW h \in Holders, MarkCancelled(h) PROVE Counted'
  <2>1. Pulses' = Pulses
    BY <1>27, <1>c, HolderKeepsPulses DEF MarkCancelled, Goto, InPulse
  <2> QED BY <1>27, <2>1 DEF MarkCancelled
<1>28. ASSUME NEW h \in Holders, ReadStatus(h) PROVE Counted'
  <2>1. Pulses' = Pulses
    BY <1>28, <1>c, HolderKeepsPulses DEF ReadStatus, Goto, InPulse, Back
  <2> QED BY <1>28, <2>1 DEF ReadStatus
<1>29. ASSUME NEW h \in Holders, ReadAwaiters(h) PROVE Counted'
  <2>1. Pulses' = Pulses
    BY <1>29, <1>c, HolderKeepsPulses DEF ReadAwaiters, Goto, InPulse, Back
  <2> QED BY <1>29, <2>1 DEF ReadAwaiters
<1>30. ASSUME NEW h \in Holders, Pause(h) PROVE Counted'
  <2>1. Pulses' = Pulses
    BY <1>30, <1>c, HolderKeepsPulses, PauseEffect DEF Pause, Goto, InPulse, Back, LifeInv
  <2> QED BY <1>30, <2>1, PauseEffect DEF Pause, Plain, LifeInv
<1>31. ASSUME NEW h \in Holders, TakeAwaiter(h) PROVE Counted'
  <2>1. Pulses' = Pulses
    BY <1>31, <1>c, HolderKeepsPulses DEF TakeAwaiter, Goto, InPulse
  <2> QED BY <1>31, <2>1 DEF TakeAwaiter
<1>32. ASSUME NEW h \in Holders, Unblock(h) PROVE Counted'
  <2>1. Pulses' = Pulses
    BY <1>32, <1>c, HolderKeepsPulses DEF Unblock, Goto, InPulse
  <2> QED BY <1>32, <2>1 DEF Unblock, StatusAt
<1>33. ASSUME NEW h \in Holders, SetResumed(h) PROVE Counted'
  <2>1. Pulses' = Pulses
    BY <1>33, <1>c, HolderKeepsPulses, SetResumedEffect DEF SetResumed, Goto, InPulse, Back,
         LifeInv
  <2> QED BY <1>33, <2>1, SetResumedEffect DEF SetResumed, Plain, LifeInv
<1>34. ASSUME NEW h \in Holders, Drop(h) PROVE Counted'
  <2>1. Pulses' = Pulses
    BY <1>34, <1>c, HolderKeepsPulses DEF Drop, Goto, InPulse
  <2> QED BY <1>34, <2>1 DEF Drop
<1>35. ASSUME NEW h \in Holders, CheckOwner(h) PROVE Counted'
  <2>1. Pulses' = Pulses
    BY <1>35, <1>c, HolderKeepsPulses DEF CheckOwner, Goto, InPulse
  <2> QED BY <1>35, <2>1 DEF CheckOwner
<1>36. ASSUME NEW h \in Holders, SetOwner(h) PROVE Counted'
  <2>1. Pulses' = Pulses
    BY <1>36, <1>c, HolderKeepsPulses DEF SetOwner, Goto, InPulse, Settled
  <2> QED BY <1>36, <2>1 DEF SetOwner
<1>37. ASSUME NEW h \in Holders, OwnerCountUp(h) PROVE Counted'
  <2>1. Pulses' = Pulses + 1
    <3>1. /\ pc' = [pc EXCEPT ![h] = pc'[h]]
          /\ pc'[h] \in InPulse /\ pc[h] \notin InPulse
      BY <1>37, <1>c DEF OwnerCountUp, Goto, InPulse
    <3> QED BY <3>1, HolderPulse
  <2> QED BY <1>37, <2>1 DEF OwnerCountUp
<1>38. ASSUME NEW h \in Holders, ExchangeOwner(h) PROVE Counted'
  <2>1. Pulses' = Pulses
    BY <1>38, <1>c, HolderKeepsPulses DEF ExchangeOwner, Goto, InPulse
  <2> QED BY <1>38, <2>1 DEF ExchangeOwner
<1>39. ASSUME NEW h \in Holders, OwnerCountDown(h) PROVE Counted'
  <2>1. Pulses' = Pulses - 1
    BY <1>39, <1>c, HolderPulse DEF OwnerCountDown, Goto, InPulse
  <2>2. Pulses > 0
    BY <1>39, OnePulse DEF OwnerCountDown, Goto, InPulse
  <2> QED BY <1>39, <2>1, <2>2 DEF OwnerCountDown, CountDown
<1>40. ASSUME NEW h \in Holders, RecheckZero(h) PROVE Counted'
  <2>1. Pulses' = Pulses
    BY <1>40, <1>c, HolderKeepsPulses DEF RecheckZero, Goto, InPulse, Settled
  <2> QED BY <1>40, <2>1 DEF RecheckZero
<1>41. ASSUME NEW h \in Holders, HolderSignal(h) PROVE Counted'
  <2>1. Pulses' = Pulses
    BY <1>41, <1>c, HolderKeepsPulses DEF HolderSignal, Goto, InPulse, Settled
  <2> QED BY <1>41, <2>1 DEF HolderSignal
<1>42. ASSUME NEW h \in Holders, UnRef(h) PROVE Counted'
  <2>1. Pulses' = Pulses
    BY <1>42, <1>c, HolderKeepsPulses DEF UnRef, Goto, InPulse
  <2> QED BY <1>42, <2>1 DEF UnRef
<1>43. ASSUME NEW h \in Holders, LastRef(h) PROVE Counted'
  <2>1. Pulses' = Pulses
    BY <1>43, <1>c, HolderKeepsPulses DEF LastRef, Goto, InPulse
  <2> QED BY <1>43, <2>1 DEF LastRef
<1>44. ASSUME NEW h \in Holders, CancelLast(h) PROVE Counted'
  <2>1. Pulses' = Pulses
    BY <1>44, <1>c, HolderKeepsPulses DEF CancelLast, Goto, InPulse
  <2> QED BY <1>44, <2>1 DEF CancelLast
<1>45. ASSUME NEW h \in Holders, Abandon(h) PROVE Counted'
  <2>1. Pulses' = Pulses
    BY <1>45, <1>c, HolderKeepsPulses, AbandonEffect DEF Abandon, Goto, InPulse, LifeInv
  <2> QED BY <1>45, <2>1, AbandonEffect DEF Abandon, Plain, LifeInv
<1> QED
  BY <1>0, <1>1, <1>2, <1>3, <1>4, <1>5, <1>6, <1>7, <1>8, <1>9, <1>10, <1>11, <1>12, <1>13,
     <1>14, <1>15, <1>16, <1>17, <1>18, <1>19, <1>20, <1>21, <1>22, <1>23, <1>24, <1>25,
     <1>26, <1>27, <1>28, <1>29, <1>30, <1>31, <1>32, <1>33, <1>34, <1>35, <1>36, <1>37,
     <1>38, <1>39, <1>40, <1>41, <1>42, <1>43, <1>44, <1>45  DEF Next, RunStep,
     FinisherStep, HolderStep

-----------------------------------------------------------------------------
(* Pausing and abandoning *)

LEMMA PausingStep == ASSUME OneCanceller, LifeInv, [Next]_vars PROVE Pausing'
<1>a. StatusAt /\ Pausing /\ Counted /\ Handles
  BY DEF LifeInv
<1>b. pc \in [Holders -> HolderPlaces]
  BY DEF LifeInv, TypeOK
<1> USE <1>b DEF Pausing, InPause
<1>0. CASE UNCHANGED vars
  BY <1>0, <1>a DEF vars, frame, run, hold
<1>1. ASSUME RemoveAwaiter PROVE Pausing'
  BY <1>1, <1>a DEF RemoveAwaiter, frame, run, hold, StatusAt, Live
<1>2. ASSUME SetRunning PROVE Pausing'
  BY <1>2, <1>a, SetRunningEffect DEF SetRunning, hold, run, StatusAt, Live
<1>3. ASSUME AwaitUnpaused PROVE Pausing'
  BY <1>3, <1>a DEF AwaitUnpaused, frame, run, hold, StatusAt, Live
<1>4. ASSUME CheckCancelled PROVE Pausing'
  BY <1>4, <1>a DEF CheckCancelled, frame, run, hold, StatusAt, Live
<1>5. ASSUME Spawn PROVE Pausing'
  BY <1>5, <1>a DEF Spawn, frame, run, hold, StatusAt, Live
<1>6. ASSUME Await PROVE Pausing'
  BY <1>6, <1>a DEF Await, frame, run, hold, StatusAt, Live
<1>7. ASSUME OnReady PROVE Pausing'
  BY <1>7, <1>a DEF OnReady, frame, run, hold, StatusAt, Live
<1>8. ASSUME ReadCancelled PROVE Pausing'
  BY <1>8, <1>a DEF ReadCancelled, frame, run, hold, StatusAt, Live
<1>9. ASSUME OnSuspend PROVE Pausing'
  BY <1>9, <1>a, OnSuspendEffect DEF OnSuspend, hold, run, StatusAt, Live
<1>10. ASSUME MarkBlocked PROVE Pausing'
  BY <1>10, <1>a DEF MarkBlocked, frame, run, hold, StatusAt, Live
<1>11. ASSUME Enqueue PROVE Pausing'
  BY <1>11, <1>a DEF Enqueue, frame, run, hold, StatusAt, Live
<1>12. ASSUME ReturnValue PROVE Pausing'
  BY <1>12, <1>a, ReturnValueEffect DEF ReturnValue, hold, run, StatusAt, Live
<1>13. ASSUME FinalCount PROVE Pausing'
  BY <1>13, <1>a DEF FinalCount, frame, run, hold, StatusAt, Live
<1>14. ASSUME SetCompleted PROVE Pausing'
  BY <1>14, <1>a, SetCompletedEffect DEF SetCompleted, hold, run, StatusAt, Live
<1>15. ASSUME DeferCompletion PROVE Pausing'
  BY <1>15, <1>a DEF DeferCompletion, frame, run, hold, StatusAt, Live
<1>16. ASSUME CompletionCountDown PROVE Pausing'
  BY <1>16, <1>a DEF CompletionCountDown, frame, run, hold, StatusAt, Live, CountDown
<1>17. ASSUME SignalOwner PROVE Pausing'
  BY <1>17, <1>a DEF SignalOwner, frame, run, hold, StatusAt, Live
<1>18. ASSUME FinalReady PROVE Pausing'
  BY <1>18, <1>a DEF FinalReady, frame, run, hold, StatusAt, Live
<1>19. ASSUME FinalSuspend PROVE Pausing'
  BY <1>19, <1>a, FinalSuspendEffect DEF FinalSuspend, hold, run, StatusAt, Live
<1>20. ASSUME Signal PROVE Pausing'
  BY <1>20, <1>a DEF Signal, frame, run, hold, StatusAt, Live
<1>21. ASSUME ChildDone PROVE Pausing'
  BY <1>21, <1>a DEF ChildDone, frame, run, hold, StatusAt, Live, CountDown
<1>22. ASSUME FinisherSignal PROVE Pausing'
  BY <1>22, <1>a DEF FinisherSignal, frame, run, hold, StatusAt, Live
<1>23. ASSUME FinisherSet PROVE Pausing'
  BY <1>23, <1>a, FinisherSetEffect DEF FinisherSet, hold, run
<1>24. ASSUME DestroyFrame PROVE Pausing'
  <2>1. ASSUME NEW h \in Holders, Goto(h, "destroy", "gone") PROVE Pausing'
    <3>1. UNCHANGED <<status, at>>
      BY <1>24, <2>1, <1>a DEF DestroyFrame, Goto
    <3> QED BY <2>1, <3>1, <1>a DEF Goto
  <2>2. CASE UNCHANGED pc
    BY <1>24, <2>2, <1>a DEF DestroyFrame, StatusAt
  <2> QED BY <1>24, <2>1, <2>2 DEF DestroyFrame
<1>25. ASSUME NEW h \in Holders, Cancel(h) PROVE Pausing'
  BY <1>25, <1>a DEF Cancel, Goto, frame, run, flags, Back, Settled
<1>26. ASSUME NEW h \in Holders, Detach(h) PROVE Pausing'
  BY <1>26, <1>a DEF Detach, Goto, frame, run, flags, Back, Settled
<1>27. ASSUME NEW h \in Holders, MarkCancelled(h) PROVE Pausing'
  BY <1>27, <1>a DEF MarkCancelled, Goto, frame, run, flags, Back, Settled
<1>28. ASSUME NEW h \in Holders, ReadStatus(h) PROVE Pausing'
  BY <1>28, <1>a DEF ReadStatus, Goto, frame, run, flags, Back, Settled
<1>29. ASSUME NEW h \in Holders, ReadAwaiters(h) PROVE Pausing'
  BY <1>29, <1>a DEF ReadAwaiters, Goto, frame, run, flags, Back, Settled
<1>30. ASSUME NEW h \in Holders, Pause(h) PROVE Pausing'
  <2>1. at' = at /\ \A g \in Holders : pc[g] \notin InPause
    BY <1>30, <1>a, CancelAlone DEF Pause, run, InCancel
  <2>2. CASE status = "Suspended"
    <3>1. status' = "PauseOnRunning" /\ pc' = [pc EXCEPT ![h] = "takeAwaiter"]
      BY <1>30, <2>2, PauseEffect
    <3> QED BY <1>a, <2>1, <2>2, <3>1
  <2>3. CASE status = "CompletedFinalSuspended"
    <3>1. status' = status /\ pc' = [pc EXCEPT ![h] = "abort"]
      BY <1>30, <2>3, PauseEffect
    <3> QED BY <1>a, <2>1, <2>3, <3>1
  <2>4. CASE status \notin {"Suspended", "CompletedFinalSuspended"}
    <3>1. status' = status /\ pc' = [pc EXCEPT ![h] = Back(h)] /\ status \in Plain
      BY <1>30, <2>4, PauseEffect
    <3>2. Back(h) \in {"abandon", "hold"}
      BY DEF Back
    <3> QED BY <1>a, <2>1, <2>4, <3>1, <3>2 DEF Plain
  <2> QED BY <2>2, <2>3, <2>4
<1>31. ASSUME NEW h \in Holders, TakeAwaiter(h) PROVE Pausing'
  BY <1>31, <1>a DEF TakeAwaiter, Goto, frame, run, flags, Back, Settled
<1>32. ASSUME NEW h \in Holders, Unblock(h) PROVE Pausing'
  BY <1>32, <1>a DEF Unblock, Goto, frame, run, flags, Back, Settled
<1>33. ASSUME NEW h \in Holders, SetResumed(h) PROVE Pausing'
  <2>1. /\ at' = at /\ pc[h] = "resumed"
        /\ \A g \in Holders \ {h} : pc[g] \notin InPause
    BY <1>33, <1>a, CancelAlone DEF SetResumed, run, InCancel
  <2>2. /\ pc' = [pc EXCEPT ![h] = Back(h)] /\ status' \in {"Running", "Suspended"}
        /\ status \in {"Paused", "PauseOnRunning"}
    BY <1>33, <1>a, SetResumedEffect
  <2>3. Back(h) \in {"abandon", "hold"}
    BY DEF Back
  <2> QED BY <1>a, <2>1, <2>2, <2>3
<1>34. ASSUME NEW h \in Holders, Drop(h) PROVE Pausing'
  BY <1>34, <1>a DEF Drop, Goto, frame, run, flags, Back, Settled
<1>35. ASSUME NEW h \in Holders, CheckOwner(h) PROVE Pausing'
  BY <1>35, <1>a DEF CheckOwner, Goto, frame, run, flags, Back, Settled
<1>36. ASSUME NEW h \in Holders, SetOwner(h) PROVE Pausing'
  BY <1>36, <1>a DEF SetOwner, Goto, frame, run, flags, Back, Settled
<1>37. ASSUME NEW h \in Holders, OwnerCountUp(h) PROVE Pausing'
  BY <1>37, <1>a DEF OwnerCountUp, Goto, frame, run, flags, Back, Settled
<1>38. ASSUME NEW h \in Holders, ExchangeOwner(h) PROVE Pausing'
  BY <1>38, <1>a DEF ExchangeOwner, Goto, frame, run, flags, Back, Settled
<1>39. ASSUME NEW h \in Holders, OwnerCountDown(h) PROVE Pausing'
  BY <1>39, <1>a DEF OwnerCountDown, Goto, frame, run, flags, Back, Settled
<1>40. ASSUME NEW h \in Holders, RecheckZero(h) PROVE Pausing'
  BY <1>40, <1>a DEF RecheckZero, Goto, frame, run, flags, Back, Settled
<1>41. ASSUME NEW h \in Holders, HolderSignal(h) PROVE Pausing'
  BY <1>41, <1>a DEF HolderSignal, Goto, frame, run, flags, Back, Settled
<1>42. ASSUME NEW h \in Holders, UnRef(h) PROVE Pausing'
  BY <1>42, <1>a DEF UnRef, Goto, frame, run, flags, Back, Settled
<1>43. ASSUME NEW h \in Holders, LastRef(h) PROVE Pausing'
  BY <1>43, <1>a DEF LastRef, Goto, frame, run, flags, Back, Settled
<1>44. ASSUME NEW h \in Holders, CancelLast(h) PROVE Pausing'
  BY <1>44, <1>a DEF CancelLast, Goto, frame, run, flags, Back, Settled
<1>45. ASSUME NEW h \in Holders, Abandon(h) PROVE Pausing'
  <2>1. at' = at
    BY <1>45 DEF Abandon, run
  <2>2. \A g \in Holders \ {h} : pc[g] = "gone"
    BY <1>45, AbandonEffect
  <2>3. CASE status = "CompletedFinalSuspended"
    <3>1. status' = status /\ pc' = [pc EXCEPT ![h] = "destroy"]
      BY <1>45, <2>3, AbandonEffect
    <3> QED BY <1>a, <2>1, <2>2, <2>3, <3>1
  <2>4. CASE status # "CompletedFinalSuspended"
    <3>1. pc' = [pc EXCEPT ![h] = "gone"]
      BY <1>45, <2>4, AbandonEffect
    <3>2. /\ status' \in {"AbandonedFinalSuspended", "AbandonedCompleted", "Abandoned"}
          /\ status' = "AbandonedFinalSuspended" => status = "FinalSuspended"
      BY <1>45, <2>4, AbandonEffect
    <3> QED BY <1>a, <2>1, <2>2, <3>1, <3>2
  <2> QED BY <2>3, <2>4
<1> QED
  BY <1>0, <1>1, <1>2, <1>3, <1>4, <1>5, <1>6, <1>7, <1>8, <1>9, <1>10, <1>11, <1>12, <1>13,
     <1>14, <1>15, <1>16, <1>17, <1>18, <1>19, <1>20, <1>21, <1>22, <1>23, <1>24, <1>25,
     <1>26, <1>27, <1>28, <1>29, <1>30, <1>31, <1>32, <1>33, <1>34, <1>35, <1>36, <1>37,
     <1>38, <1>39, <1>40, <1>41, <1>42, <1>43, <1>44, <1>45  DEF Next, RunStep,
     FinisherStep, HolderStep

-----------------------------------------------------------------------------
(* The owner *)

LEMMA FinishedStays == ASSUME OneCanceller, LifeInv, [Next]_vars, Finished PROVE Finished'
<1>1. Counted /\ Counted' /\ StatusAt /\ at \in Uncounted /\ children = 0
  BY CountedStep DEF LifeInv, Finished
<1>2. at' \in Uncounted \cup {"abort"} /\ children' = 0
  <2>1. CASE UNCHANGED vars
    BY <1>1, <2>1 DEF vars, run
  <2>2. CASE RunStep
    BY <1>1, <2>2
       DEF RunStep, RemoveAwaiter, SetRunning, AwaitUnpaused, CheckCancelled, Spawn,
           Await, OnReady, ReadCancelled, OnSuspend, MarkBlocked, Enqueue, ReturnValue,
           FinalCount, SetCompleted, DeferCompletion, CompletionCountDown, SignalOwner,
           FinalReady, FinalSuspend, RunTo, Uncounted
  <2>5. CASE Signal \/ ChildDone
    BY <1>1, <2>5 DEF Signal, ChildDone, Uncounted, StatusAt
  <2>3. CASE FinisherStep \/ DestroyFrame
    BY <1>1, <2>3 DEF FinisherStep, FinisherSignal, FinisherSet, DestroyFrame, Uncounted, run
  <2>4. ASSUME NEW h \in Holders, Cancel(h) \/ Detach(h) \/ HolderStep(h)
        PROVE  at' \in Uncounted \cup {"abort"} /\ children' = 0
    BY <1>1, <2>4
       DEF HolderStep, Cancel, Detach, MarkCancelled, ReadStatus, ReadAwaiters, Pause,
           TakeAwaiter, Unblock, SetResumed, Drop, CheckOwner, SetOwner, OwnerCountUp,
           ExchangeOwner, OwnerCountDown, RecheckZero, HolderSignal, UnRef, LastRef,
           CancelLast, Abandon, Uncounted, run, StatusAt
  <2> QED BY <2>1, <2>2, <2>3, <2>4, <2>5 DEF Next
<1> QED BY <1>1, <1>2 DEF Counted, Finished

LEMMA OwnedStep == ASSUME OneCanceller, LifeInv, [Next]_vars PROVE Owned'
<1>a. Owned /\ Counted /\ Handles
  BY DEF LifeInv
<1>b. /\ pc \in [Holders -> HolderPlaces] /\ dropping \in [Holders -> BOOLEAN]
      /\ children \in Nat /\ completion \in Nat /\ Pulses \in Nat
  BY PulsesFinite DEF LifeInv, TypeOK
<1>c. Finished => Finished'
  BY FinishedStays
<1> USE <1>a, <1>b, <1>c DEF Owned
<1>0. CASE UNCHANGED vars
  BY <1>0 DEF vars, frame, run, hold, flags, Finished
<1>1. ASSUME RemoveAwaiter PROVE Owned'
  BY <1>1 DEF RemoveAwaiter, frame, run, hold, flags, Finished, Uncounted, RunTo
<1>2. ASSUME SetRunning PROVE Owned'
  BY <1>2 DEF SetRunning, frame, run, hold, flags, Finished, Uncounted, RunTo
<1>3. ASSUME AwaitUnpaused PROVE Owned'
  BY <1>3 DEF AwaitUnpaused, frame, run, hold, flags, Finished, Uncounted, RunTo
<1>4. ASSUME CheckCancelled PROVE Owned'
  BY <1>4 DEF CheckCancelled, frame, run, hold, flags, Finished, Uncounted, RunTo
<1>5. ASSUME Spawn PROVE Owned'
  BY <1>5 DEF Spawn, hold, flags, Finished, Uncounted
<1>6. ASSUME Await PROVE Owned'
  BY <1>6 DEF Await, frame, run, hold, flags, Finished, Uncounted, RunTo
<1>7. ASSUME OnReady PROVE Owned'
  BY <1>7 DEF OnReady, frame, run, hold, flags, Finished, Uncounted, RunTo
<1>8. ASSUME ReadCancelled PROVE Owned'
  BY <1>8 DEF ReadCancelled, frame, run, hold, flags, Finished, Uncounted, RunTo
<1>9. ASSUME OnSuspend PROVE Owned'
  BY <1>9 DEF OnSuspend, frame, run, hold, flags, Finished, Uncounted, RunTo
<1>10. ASSUME MarkBlocked PROVE Owned'
  BY <1>10 DEF MarkBlocked, frame, run, hold, flags, Finished, Uncounted, RunTo
<1>11. ASSUME Enqueue PROVE Owned'
  BY <1>11 DEF Enqueue, frame, run, hold, flags, Finished, Uncounted, RunTo
<1>12. ASSUME ReturnValue PROVE Owned'
  BY <1>12 DEF ReturnValue, frame, run, hold, flags, Finished, Uncounted, RunTo
<1>13. ASSUME FinalCount PROVE Owned'
  BY <1>13 DEF FinalCount, frame, run, hold, flags, Finished, Uncounted, RunTo
<1>14. ASSUME SetCompleted PROVE Owned'
  BY <1>14 DEF SetCompleted, frame, run, hold, flags, Finished, Uncounted, RunTo
<1>15. ASSUME DeferCompletion PROVE Owned'
  BY <1>15 DEF DeferCompletion, frame, run, hold, flags, Finished, Uncounted, RunTo
<1>16. ASSUME CompletionCountDown PROVE Owned'
  <2>1. /\ UNCHANGED <<owner, cancelAbandoned, pc, dropping, children>>
        /\ completion = 1 /\ finisher = "waiting" => finisher' = "signal"
        /\ ~Finished
    BY <1>16 DEF CompletionCountDown, CountDown, hold, flags, Finished, Uncounted
  <2>2. CASE at = "finish"
    <3>1. at' = "signalOwner"
      BY <1>16, <2>2 DEF CompletionCountDown
    <3> QED BY <2>1, <3>1
  <2>3. CASE at = "deferred"
    <3>1. finisher = "waiting"
      BY <2>3 DEF Counted, LifeInv, TypeOK, Uncounted
    <3>2. ASSUME Finished', completion # 1 PROVE \E h \in Holders : pc[h] \in InPulse
      BY <2>1, <2>3, <3>2, SomePulse DEF Counted, Own, Finished, Uncounted
    <3> QED BY <2>1, <3>1, <3>2 DEF WillSignal
  <2> QED BY <1>16, <2>2, <2>3 DEF CompletionCountDown
<1>17. ASSUME SignalOwner PROVE Owned'
  BY <1>17 DEF SignalOwner, hold, flags, Finished, Uncounted, Counted
<1>18. ASSUME FinalReady PROVE Owned'
  BY <1>18 DEF FinalReady, frame, run, hold, flags, Finished, Uncounted, RunTo
<1>19. ASSUME FinalSuspend PROVE Owned'
  BY <1>19 DEF FinalSuspend, frame, run, hold, flags, Finished, Uncounted, RunTo
<1>20. ASSUME Signal PROVE Owned'
  BY <1>20 DEF Signal, hold, flags, Finished, LifeInv, StatusAt, Uncounted
<1>21. ASSUME ChildDone PROVE Owned'
  <2>1. ASSUME Finished', completion # 1 \/ finisher # "waiting"
        PROVE  \E h \in Holders : pc[h] \in InPulse
    <3>1. at \in Uncounted /\ children = 1
      BY <1>21, <2>1 DEF ChildDone, Finished
    <3>2. finisher = "waiting"
      BY <3>1, LifeInv DEF Counted, LifeInv, TypeOK
    <3> QED BY <2>1, <3>1, <3>2, SomePulse DEF Counted, Own
  <2>2. /\ UNCHANGED <<owner, cancelAbandoned, pc, dropping, at>>
        /\ completion = 1 /\ finisher = "waiting" => finisher' = "signal"
        /\ ~Finished
    BY <1>21 DEF ChildDone, CountDown, hold, flags, Finished
  <2> QED BY <2>1, <2>2 DEF WillSignal
<1>22. ASSUME FinisherSignal PROVE Owned'
  BY <1>22 DEF FinisherSignal, run, hold, flags, Finished, Uncounted, Counted
<1>23. ASSUME FinisherSet PROVE Owned'
  BY <1>23 DEF FinisherSet, run, hold, flags, Finished, Uncounted, Counted
<1>24. ASSUME DestroyFrame PROVE Owned'
  <2>1. UNCHANGED <<owner, cancelAbandoned, dropping, children>>
    BY <1>24 DEF DestroyFrame, flags
  <2>2. /\ at = "signalOwner" => at' = at
        /\ finisher = "signal" => finisher' = finisher
    BY <1>24 DEF DestroyFrame, Goto
  <2>3. pc' = pc \/ \E h \in Holders : pc[h] = "destroy" /\ pc' = [pc EXCEPT ![h] = "gone"]
    BY <1>24 DEF DestroyFrame, Goto
  <2>4. Finished' <=> Finished
    BY <1>24, <2>1 DEF DestroyFrame, Finished, Uncounted
  <2> QED BY <2>1, <2>2, <2>3, <2>4 DEF WillSignal, InPulse
<1>25. ASSUME NEW h \in Holders, Cancel(h) PROVE Owned'
  BY <1>25 DEF Cancel, Goto, HoldTo, Back, Settled, frame, run, flags, Finished, WillSignal,
       InPulse
<1>26. ASSUME NEW h \in Holders, Detach(h) PROVE Owned'
  BY <1>26 DEF Detach, Goto, HoldTo, Back, Settled, frame, run, flags, Finished, WillSignal,
       InPulse
<1>27. ASSUME NEW h \in Holders, MarkCancelled(h) PROVE Owned'
  BY <1>27 DEF MarkCancelled, Goto, HoldTo, Back, Settled, frame, run, flags, Finished,
       WillSignal, InPulse
<1>28. ASSUME NEW h \in Holders, ReadStatus(h) PROVE Owned'
  BY <1>28 DEF ReadStatus, Goto, HoldTo, Back, Settled, frame, run, flags, Finished,
       WillSignal, InPulse
<1>29. ASSUME NEW h \in Holders, ReadAwaiters(h) PROVE Owned'
  BY <1>29 DEF ReadAwaiters, Goto, HoldTo, Back, Settled, frame, run, flags, Finished,
       WillSignal, InPulse
<1>30. ASSUME NEW h \in Holders, Pause(h) PROVE Owned'
  BY <1>30 DEF Pause, Goto, HoldTo, Back, Settled, frame, run, flags, Finished, WillSignal,
       InPulse
<1>31. ASSUME NEW h \in Holders, TakeAwaiter(h) PROVE Owned'
  BY <1>31 DEF TakeAwaiter, Goto, HoldTo, Back, Settled, frame, run, flags, Finished,
       WillSignal, InPulse
<1>32. ASSUME NEW h \in Holders, Unblock(h) PROVE Owned'
  <2>1. Finished' <=> Finished
    BY <1>32 DEF Unblock, Finished, LifeInv, StatusAt, Uncounted
  <2> QED BY <1>32, <2>1 DEF Unblock, Goto, flags, WillSignal, InPulse, Finished, LifeInv, StatusAt
<1>33. ASSUME NEW h \in Holders, SetResumed(h) PROVE Owned'
  BY <1>33 DEF SetResumed, Goto, HoldTo, Back, Settled, frame, run, flags, Finished,
       WillSignal, InPulse
<1>34. ASSUME NEW h \in Holders, Drop(h) PROVE Owned'
  BY <1>34 DEF Drop, Goto, HoldTo, Back, Settled, frame, run, flags, Finished, WillSignal,
       InPulse
<1>35. ASSUME NEW h \in Holders, CheckOwner(h) PROVE Owned'
  BY <1>35 DEF CheckOwner, Goto, HoldTo, Back, Settled, frame, run, flags, Finished,
       WillSignal, InPulse
<1>36. ASSUME NEW h \in Holders, SetOwner(h) PROVE Owned'
  BY <1>36 DEF SetOwner, Goto, HoldTo, Back, Settled, frame, run, flags, Finished, WillSignal,
       InPulse
<1>37. ASSUME NEW h \in Holders, OwnerCountUp(h) PROVE Owned'
  <2>1. completion = 0 => Finished
    BY DEF Counted, Own, Finished
  <2> QED BY <1>37, <2>1 DEF OwnerCountUp, Goto, run, flags, Finished, WillSignal, InPulse
<1>38. ASSUME NEW h \in Holders, ExchangeOwner(h) PROVE Owned'
  <2>1. h # NULL
    BY HolderAssumption
  <2>2. cancelAbandoned => owner' = h
    BY <1>38 DEF ExchangeOwner, Goto
  <2>3. /\ pc[h] = "exchange" /\ pc' = [pc EXCEPT ![h] = "settle"]
        /\ UNCHANGED <<children, at, finisher, cancelAbandoned, dropping>>
    BY <1>38 DEF ExchangeOwner, Goto, run, flags
  <2> QED BY <2>1, <2>2, <2>3 DEF Finished, WillSignal, InPulse
<1>39. ASSUME NEW h \in Holders, OwnerCountDown(h) PROVE Owned'
  BY <1>39 DEF OwnerCountDown, CountDown, Goto, run, flags, Finished, WillSignal, InPulse
<1>40. ASSUME NEW h \in Holders, RecheckZero(h) PROVE Owned'
  <2>1. completion = 0 => Finished
    BY DEF Counted, Own, Finished
  <2>2. completion # 0 /\ Finished => \E g \in Holders : pc[g] \in InPulse
    BY SomePulse DEF Counted, Own, Finished
  <2> QED BY <1>40, <2>1, <2>2
          DEF RecheckZero, Goto, Settled, frame, run, flags, Finished, WillSignal, InPulse
<1>41. ASSUME NEW h \in Holders, HolderSignal(h) PROVE Owned'
  BY <1>41 DEF HolderSignal, Goto, HoldTo, Back, Settled, frame, run, flags, Finished,
       WillSignal, InPulse
<1>42. ASSUME NEW h \in Holders, UnRef(h) PROVE Owned'
  BY <1>42 DEF UnRef, Goto, HoldTo, Back, Settled, frame, run, flags, Finished, WillSignal,
       InPulse
<1>43. ASSUME NEW h \in Holders, LastRef(h) PROVE Owned'
  BY <1>43 DEF LastRef, Goto, HoldTo, Back, Settled, frame, run, flags, Finished, WillSignal,
       InPulse
<1>44. ASSUME NEW h \in Holders, CancelLast(h) PROVE Owned'
  BY <1>44 DEF CancelLast, Goto, HoldTo, Back, Settled, frame, run, flags, Finished,
       WillSignal, InPulse
<1>45. ASSUME NEW h \in Holders, Abandon(h) PROVE Owned'
  BY <1>45 DEF Abandon, Goto, HoldTo, Back, Settled, frame, run, flags, Finished, WillSignal,
       InPulse
<1> QED
  BY <1>0, <1>1, <1>2, <1>3, <1>4, <1>5, <1>6, <1>7, <1>8, <1>9, <1>10, <1>11, <1>12, <1>13,
     <1>14, <1>15, <1>16, <1>17, <1>18, <1>19, <1>20, <1>21, <1>22, <1>23, <1>24, <1>25,
     <1>26, <1>27, <1>28, <1>29, <1>30, <1>31, <1>32, <1>33, <1>34, <1>35, <1>36, <1>37,
     <1>38, <1>39, <1>40, <1>41, <1>42, <1>43, <1>44, <1>45  DEF Next, RunStep,
     FinisherStep, HolderStep

-----------------------------------------------------------------------------
(* The frame *)

LEMMA DestroyedStep == ASSUME OneCanceller, LifeInv, [Next]_vars PROVE DestroyedLast'
<1>a. DestroyedLast /\ StatusAt /\ Counted /\ Pausing
  BY DEF LifeInv
<1>b. pc \in [Holders -> HolderPlaces] /\ frees \in Nat /\ children \in Nat
  BY DEF LifeInv, TypeOK
<1> USE <1>a, <1>b DEF DestroyedLast, frame, run, hold, flags
<1>0. CASE UNCHANGED vars
  BY <1>0 DEF vars
<1>1. ASSUME RemoveAwaiter PROVE DestroyedLast'
  BY <1>1 DEF RemoveAwaiter
<1>2. ASSUME SetRunning PROVE DestroyedLast'
  BY <1>2 DEF SetRunning
<1>3. ASSUME AwaitUnpaused PROVE DestroyedLast'
  BY <1>3 DEF AwaitUnpaused
<1>4. ASSUME CheckCancelled PROVE DestroyedLast'
  BY <1>4 DEF CheckCancelled
<1>5. ASSUME Spawn PROVE DestroyedLast'
  BY <1>5 DEF Spawn
<1>6. ASSUME Await PROVE DestroyedLast'
  BY <1>6 DEF Await
<1>7. ASSUME OnReady PROVE DestroyedLast'
  BY <1>7 DEF OnReady
<1>8. ASSUME ReadCancelled PROVE DestroyedLast'
  BY <1>8 DEF ReadCancelled
<1>9. ASSUME OnSuspend PROVE DestroyedLast'
  BY <1>9 DEF OnSuspend
<1>10. ASSUME MarkBlocked PROVE DestroyedLast'
  BY <1>10 DEF MarkBlocked
<1>11. ASSUME Enqueue PROVE DestroyedLast'
  BY <1>11 DEF Enqueue
<1>12. ASSUME ReturnValue PROVE DestroyedLast'
  BY <1>12 DEF ReturnValue
<1>13. ASSUME FinalCount PROVE DestroyedLast'
  BY <1>13 DEF FinalCount
<1>14. ASSUME SetCompleted PROVE DestroyedLast'
  BY <1>14 DEF SetCompleted
<1>15. ASSUME DeferCompletion PROVE DestroyedLast'
  BY <1>15 DEF DeferCompletion
<1>16. ASSUME CompletionCountDown PROVE DestroyedLast'
  BY <1>16 DEF CompletionCountDown, CountDown
<1>17. ASSUME SignalOwner PROVE DestroyedLast'
  BY <1>17 DEF SignalOwner
<1>18. ASSUME FinalReady PROVE DestroyedLast'
  BY <1>18 DEF FinalReady
<1>19. ASSUME FinalSuspend PROVE DestroyedLast'
  BY <1>19 DEF FinalSuspend
<1>20. ASSUME Signal PROVE DestroyedLast'
  BY <1>20 DEF Signal, StatusAt
<1>21. ASSUME ChildDone PROVE DestroyedLast'
  BY <1>21 DEF ChildDone, CountDown
<1>22. ASSUME FinisherSignal PROVE DestroyedLast'
  BY <1>22 DEF FinisherSignal
<1>23. ASSUME FinisherSet PROVE DestroyedLast'
  BY <1>23 DEF FinisherSet
<1>24. ASSUME DestroyFrame PROVE DestroyedLast'
  <2>0. frees' = frees + 1 /\ children' = children
    BY <1>24 DEF DestroyFrame
  <2>1. CASE at = "destroy" /\ at' = "end" /\ UNCHANGED <<finisher, pc>>
    <3>1. frees = 0 /\ status = "AbandonedCompleted" /\ finisher \in {"none", "end"}
      BY <2>1, LifeInv DEF StatusAt, Counted, LifeInv, TypeOK
    <3>2. children = 0 /\ \A h \in Holders : pc[h] = "gone"
      BY <2>1, <3>1 DEF Counted, Pausing, Uncounted
    <3> QED BY <2>0, <2>1, <3>1, <3>2
  <2>2. CASE finisher = "destroy" /\ finisher' = "end" /\ UNCHANGED <<at, pc>>
    <3>1. frees = 0 /\ at = "end" /\ children = 0 /\ \A h \in Holders : pc[h] = "gone"
      BY <2>2 DEF Counted, Pausing
    <3> QED BY <2>0, <2>2, <3>1
  <2>3. ASSUME NEW h \in Holders, Goto(h, "destroy", "gone"), UNCHANGED <<at, finisher>>
        PROVE  DestroyedLast'
    <3>1. frees = 0 /\ status = "CompletedFinalSuspended" /\ at = "end"
      BY <2>3 DEF Goto, Pausing
    <3>2. finisher \in {"none", "end"} /\ children = 0
      BY <3>1 DEF LifeInv, TypeOK, StatusAt, Counted, Uncounted
    <3>3. \A g \in Holders \ {h} : pc[g] = "gone"
      BY <2>3, LastAlone DEF LifeInv, Goto, InRelease
    <3> QED BY <2>0, <2>3, <3>1, <3>2, <3>3 DEF Goto
  <2> QED BY <1>24, <2>1, <2>2, <2>3 DEF DestroyFrame
<1>25. ASSUME NEW h \in Holders, Cancel(h) PROVE DestroyedLast'
  BY <1>25 DEF Cancel, Goto
<1>26. ASSUME NEW h \in Holders, Detach(h) PROVE DestroyedLast'
  BY <1>26 DEF Detach, Goto
<1>27. ASSUME NEW h \in Holders, MarkCancelled(h) PROVE DestroyedLast'
  BY <1>27 DEF MarkCancelled, Goto
<1>28. ASSUME NEW h \in Holders, ReadStatus(h) PROVE DestroyedLast'
  BY <1>28 DEF ReadStatus, Goto
<1>29. ASSUME NEW h \in Holders, ReadAwaiters(h) PROVE DestroyedLast'
  BY <1>29 DEF ReadAwaiters, Goto
<1>30. ASSUME NEW h \in Holders, Pause(h) PROVE DestroyedLast'
  BY <1>30 DEF Pause, Goto
<1>31. ASSUME NEW h \in Holders, TakeAwaiter(h) PROVE DestroyedLast'
  BY <1>31 DEF TakeAwaiter, Goto
<1>32. ASSUME NEW h \in Holders, Unblock(h) PROVE DestroyedLast'
  BY <1>32 DEF Unblock, Goto, StatusAt
<1>33. ASSUME NEW h \in Holders, SetResumed(h) PROVE DestroyedLast'
  BY <1>33 DEF SetResumed, Goto
<1>34. ASSUME NEW h \in Holders, Drop(h) PROVE DestroyedLast'
  BY <1>34 DEF Drop, Goto
<1>35. ASSUME NEW h \in Holders, CheckOwner(h) PROVE DestroyedLast'
  BY <1>35 DEF CheckOwner, Goto
<1>36. ASSUME NEW h \in Holders, SetOwner(h) PROVE DestroyedLast'
  BY <1>36 DEF SetOwner, Goto
<1>37. ASSUME NEW h \in Holders, OwnerCountUp(h) PROVE DestroyedLast'
  BY <1>37 DEF OwnerCountUp, Goto
<1>38. ASSUME NEW h \in Holders, ExchangeOwner(h) PROVE DestroyedLast'
  BY <1>38 DEF ExchangeOwner, Goto
<1>39. ASSUME NEW h \in Holders, OwnerCountDown(h) PROVE DestroyedLast'
  BY <1>39 DEF OwnerCountDown, Goto
<1>40. ASSUME NEW h \in Holders, RecheckZero(h) PROVE DestroyedLast'
  BY <1>40 DEF RecheckZero, Goto
<1>41. ASSUME NEW h \in Holders, HolderSignal(h) PROVE DestroyedLast'
  BY <1>41 DEF HolderSignal, Goto
<1>42. ASSUME NEW h \in Holders, UnRef(h) PROVE DestroyedLast'
  BY <1>42 DEF UnRef, Goto
<1>43. ASSUME NEW h \in Holders, LastRef(h) PROVE DestroyedLast'
  BY <1>43 DEF LastRef, Goto
<1>44. ASSUME NEW h \in Holders, CancelLast(h) PROVE DestroyedLast'
  BY <1>44 DEF CancelLast, Goto
<1>45. ASSUME NEW h \in Holders, Abandon(h) PROVE DestroyedLast'
  BY <1>45 DEF Abandon, Goto
<1> QED
  BY <1>0, <1>1, <1>2, <1>3, <1>4, <1>5, <1>6, <1>7, <1>8, <1>9, <1>10, <1>11, <1>12, <1>13,
     <1>14, <1>15, <1>16, <1>17, <1>18, <1>19, <1>20, <1>21, <1>22, <1>23, <1>24, <1>25,
     <1>26, <1>27, <1>28, <1>29, <1>30, <1>31, <1>32, <1>33, <1>34, <1>35, <1>36, <1>37,
     <1>38, <1>39, <1>40, <1>41, <1>42, <1>43, <1>44, <1>45  DEF Next, RunStep,
     FinisherStep, HolderStep

-----------------------------------------------------------------------------
(* The types *)

LEMMA TypeStep ==
    ASSUME OneCanceller, LifeInv, [Next]_vars, Counted', Handles', StatusAt', DestroyedLast'
    PROVE  TypeOK'
<1>a. TypeOK
  BY DEF LifeInv
<1> USE DEF frame, run, hold, flags
<1>1. /\ cancelAbandoned' \in BOOLEAN /\ cancelled' \in BOOLEAN /\ listed' \in BOOLEAN
      /\ blocked' \in BOOLEAN /\ waiting' \in BOOLEAN /\ saw' \in BOOLEAN
  <2>1. CASE UNCHANGED vars
    BY <1>a, <2>1
       DEF vars, CountDown, TypeOK
  <2>2. CASE RunStep
    BY <1>a, <2>2
       DEF RunStep, RemoveAwaiter, SetRunning, AwaitUnpaused, CheckCancelled, Spawn,
           Await, OnReady, ReadCancelled, OnSuspend, MarkBlocked, Enqueue, ReturnValue,
           FinalCount, SetCompleted, DeferCompletion, CompletionCountDown, SignalOwner,
           FinalReady, FinalSuspend, CountDown, TypeOK
  <2>3. CASE Signal \/ ChildDone \/ FinisherStep
    BY <1>a, <2>3
       DEF Signal, ChildDone, FinisherStep, FinisherSignal, FinisherSet, CountDown,
           TypeOK
  <2>4. CASE DestroyFrame
    BY <1>a, <2>4
       DEF DestroyFrame, CountDown, TypeOK
  <2>5. ASSUME NEW h \in Holders, Cancel(h) \/ Detach(h) \/ HolderStep(h)
        PROVE  /\ cancelAbandoned' \in BOOLEAN /\ cancelled' \in BOOLEAN /\ listed' \in BOOLEAN
               /\ blocked' \in BOOLEAN /\ waiting' \in BOOLEAN /\ saw' \in BOOLEAN
    BY <1>a, <2>5
       DEF HolderStep, Cancel, Detach, MarkCancelled, ReadStatus, ReadAwaiters, Pause,
           TakeAwaiter, Unblock, SetResumed, Drop, CheckOwner, SetOwner, OwnerCountUp,
           ExchangeOwner, OwnerCountDown, RecheckZero, HolderSignal, UnRef, LastRef,
           CancelLast, Abandon, CountDown, TypeOK
  <2> QED BY <2>1, <2>2, <2>3, <2>4, <2>5 DEF Next
<1>2. at' \in RunPlaces
  <2>1. CASE UNCHANGED vars
    BY <1>a, <2>1
       DEF vars, RunTo, RunPlaces, TypeOK
  <2>2. CASE RunStep
    BY <1>a, <2>2
       DEF RunStep, RemoveAwaiter, SetRunning, AwaitUnpaused, CheckCancelled, Spawn,
           Await, OnReady, ReadCancelled, OnSuspend, MarkBlocked, Enqueue, ReturnValue,
           FinalCount, SetCompleted, DeferCompletion, CompletionCountDown, SignalOwner,
           FinalReady, FinalSuspend, RunTo, RunPlaces, TypeOK
  <2>3. CASE Signal \/ ChildDone \/ FinisherStep
    BY <1>a, <2>3
       DEF Signal, ChildDone, FinisherStep, FinisherSignal, FinisherSet, RunTo,
           RunPlaces, TypeOK
  <2>4. CASE DestroyFrame
    BY <1>a, <2>4
       DEF DestroyFrame, RunTo, RunPlaces, TypeOK
  <2>5. ASSUME NEW h \in Holders, Cancel(h) \/ Detach(h) \/ HolderStep(h)
        PROVE  at' \in RunPlaces
    BY <1>a, <2>5
       DEF HolderStep, Cancel, Detach, MarkCancelled, ReadStatus, ReadAwaiters, Pause,
           TakeAwaiter, Unblock, SetResumed, Drop, CheckOwner, SetOwner, OwnerCountUp,
           ExchangeOwner, OwnerCountDown, RecheckZero, HolderSignal, UnRef, LastRef,
           CancelLast, Abandon, RunTo, RunPlaces, TypeOK
  <2> QED BY <2>1, <2>2, <2>3, <2>4, <2>5 DEF Next
<1>3. finisher' \in {"none", "waiting", "signal", "set", "destroy", "end", "abort"}
  <2>1. CASE UNCHANGED vars
    BY <1>a, <2>1
       DEF vars, CountDown, TypeOK
  <2>2. CASE RunStep
    BY <1>a, <2>2
       DEF RunStep, RemoveAwaiter, SetRunning, AwaitUnpaused, CheckCancelled, Spawn,
           Await, OnReady, ReadCancelled, OnSuspend, MarkBlocked, Enqueue, ReturnValue,
           FinalCount, SetCompleted, DeferCompletion, CompletionCountDown, SignalOwner,
           FinalReady, FinalSuspend, CountDown, TypeOK
  <2>3. CASE Signal \/ ChildDone \/ FinisherStep
    BY <1>a, <2>3
       DEF Signal, ChildDone, FinisherStep, FinisherSignal, FinisherSet, CountDown,
           TypeOK
  <2>4. CASE DestroyFrame
    BY <1>a, <2>4
       DEF DestroyFrame, CountDown, TypeOK
  <2>5. ASSUME NEW h \in Holders, Cancel(h) \/ Detach(h) \/ HolderStep(h)
        PROVE  finisher' \in {"none", "waiting", "signal", "set", "destroy", "end", "abort"}
    BY <1>a, <2>5
       DEF HolderStep, Cancel, Detach, MarkCancelled, ReadStatus, ReadAwaiters, Pause,
           TakeAwaiter, Unblock, SetResumed, Drop, CheckOwner, SetOwner, OwnerCountUp,
           ExchangeOwner, OwnerCountDown, RecheckZero, HolderSignal, UnRef, LastRef,
           CancelLast, Abandon, CountDown, TypeOK
  <2> QED BY <2>1, <2>2, <2>3, <2>4, <2>5 DEF Next
<1>4. owner' \in Holders \cup {NULL}
  <2>1. CASE UNCHANGED vars
    BY <1>a, <2>1
       DEF vars, TypeOK
  <2>2. CASE RunStep
    BY <1>a, <2>2
       DEF RunStep, RemoveAwaiter, SetRunning, AwaitUnpaused, CheckCancelled, Spawn,
           Await, OnReady, ReadCancelled, OnSuspend, MarkBlocked, Enqueue, ReturnValue,
           FinalCount, SetCompleted, DeferCompletion, CompletionCountDown, SignalOwner,
           FinalReady, FinalSuspend, TypeOK
  <2>3. CASE Signal \/ ChildDone \/ FinisherStep
    BY <1>a, <2>3
       DEF Signal, ChildDone, FinisherStep, FinisherSignal, FinisherSet, TypeOK
  <2>4. CASE DestroyFrame
    BY <1>a, <2>4
       DEF DestroyFrame, TypeOK
  <2>5. ASSUME NEW h \in Holders, Cancel(h) \/ Detach(h) \/ HolderStep(h)
        PROVE  owner' \in Holders \cup {NULL}
    BY <1>a, <2>5
       DEF HolderStep, Cancel, Detach, MarkCancelled, ReadStatus, ReadAwaiters, Pause,
           TakeAwaiter, Unblock, SetResumed, Drop, CheckOwner, SetOwner, OwnerCountUp,
           ExchangeOwner, OwnerCountDown, RecheckZero, HolderSignal, UnRef, LastRef,
           CancelLast, Abandon, TypeOK
  <2> QED BY <2>1, <2>2, <2>3, <2>4, <2>5 DEF Next
<1>5. \/ UNCHANGED <<waits, spawned, children>>
      \/ waits < Waits /\ waits' = waits + 1 /\ UNCHANGED <<spawned, children>>
      \/ /\ spawned < Children /\ spawned' = spawned + 1 /\ children' = children + 1
         /\ waits' = waits
      \/ children > 0 /\ children' = children - 1 /\ UNCHANGED <<waits, spawned>>
  <2>1. CASE UNCHANGED vars
    BY <2>1
       DEF vars
  <2>2. CASE RunStep
    BY <2>2
       DEF RunStep, RemoveAwaiter, SetRunning, AwaitUnpaused, CheckCancelled, Spawn,
           Await, OnReady, ReadCancelled, OnSuspend, MarkBlocked, Enqueue, ReturnValue,
           FinalCount, SetCompleted, DeferCompletion, CompletionCountDown, SignalOwner,
           FinalReady, FinalSuspend
  <2>3. CASE Signal \/ ChildDone \/ FinisherStep
    BY <2>3
       DEF Signal, ChildDone, FinisherStep, FinisherSignal, FinisherSet
  <2>4. CASE DestroyFrame
    BY <2>4
       DEF DestroyFrame
  <2>5. ASSUME NEW h \in Holders, Cancel(h) \/ Detach(h) \/ HolderStep(h)
        PROVE  \/ UNCHANGED <<waits, spawned, children>>
               \/ waits < Waits /\ waits' = waits + 1 /\ UNCHANGED <<spawned, children>>
               \/ /\ spawned < Children /\ spawned' = spawned + 1 /\ children' = children + 1
                  /\ waits' = waits
               \/ children > 0 /\ children' = children - 1 /\ UNCHANGED <<waits, spawned>>
    BY <2>5
       DEF HolderStep, Cancel, Detach, MarkCancelled, ReadStatus, ReadAwaiters, Pause,
           TakeAwaiter, Unblock, SetResumed, Drop, CheckOwner, SetOwner, OwnerCountUp,
           ExchangeOwner, OwnerCountDown, RecheckZero, HolderSignal, UnRef, LastRef,
           CancelLast, Abandon
  <2> QED BY <2>1, <2>2, <2>3, <2>4, <2>5 DEF Next
<1>6. frees' = frees \/ frees' = frees + 1
  <2>1. CASE UNCHANGED vars
    BY <2>1
       DEF vars
  <2>2. CASE RunStep
    BY <2>2
       DEF RunStep, RemoveAwaiter, SetRunning, AwaitUnpaused, CheckCancelled, Spawn,
           Await, OnReady, ReadCancelled, OnSuspend, MarkBlocked, Enqueue, ReturnValue,
           FinalCount, SetCompleted, DeferCompletion, CompletionCountDown, SignalOwner,
           FinalReady, FinalSuspend
  <2>3. CASE Signal \/ ChildDone \/ FinisherStep
    BY <2>3
       DEF Signal, ChildDone, FinisherStep, FinisherSignal, FinisherSet
  <2>4. CASE DestroyFrame
    BY <2>4
       DEF DestroyFrame
  <2>5. ASSUME NEW h \in Holders, Cancel(h) \/ Detach(h) \/ HolderStep(h)
        PROVE  frees' = frees \/ frees' = frees + 1
    BY <2>5
       DEF HolderStep, Cancel, Detach, MarkCancelled, ReadStatus, ReadAwaiters, Pause,
           TakeAwaiter, Unblock, SetResumed, Drop, CheckOwner, SetOwner, OwnerCountUp,
           ExchangeOwner, OwnerCountDown, RecheckZero, HolderSignal, UnRef, LastRef,
           CancelLast, Abandon
  <2> QED BY <2>1, <2>2, <2>3, <2>4, <2>5 DEF Next
<1>7. pc' \in [Holders -> HolderPlaces] /\ dropping' \in [Holders -> BOOLEAN]
  <2>1. CASE UNCHANGED vars
    BY <1>a, <2>1
       DEF vars, Goto, HoldTo, Back, Settled, HolderPlaces, TypeOK
  <2>2. CASE RunStep
    BY <1>a, <2>2
       DEF RunStep, RemoveAwaiter, SetRunning, AwaitUnpaused, CheckCancelled, Spawn,
           Await, OnReady, ReadCancelled, OnSuspend, MarkBlocked, Enqueue, ReturnValue,
           FinalCount, SetCompleted, DeferCompletion, CompletionCountDown, SignalOwner,
           FinalReady, FinalSuspend, Goto, HoldTo, Back, Settled, HolderPlaces, TypeOK
  <2>3. CASE Signal \/ ChildDone \/ FinisherStep
    BY <1>a, <2>3
       DEF Signal, ChildDone, FinisherStep, FinisherSignal, FinisherSet, Goto, HoldTo,
           Back, Settled, HolderPlaces, TypeOK
  <2>4. CASE DestroyFrame
    BY <1>a, <2>4
       DEF DestroyFrame, Goto, HoldTo, Back, Settled, HolderPlaces, TypeOK
  <2>5. ASSUME NEW h \in Holders, Cancel(h) \/ Detach(h) \/ HolderStep(h)
        PROVE  pc' \in [Holders -> HolderPlaces] /\ dropping' \in [Holders -> BOOLEAN]
    <3>1. CASE Cancel(h) \/ Detach(h) \/ MarkCancelled(h) \/ ReadStatus(h) \/
              ReadAwaiters(h) \/ Pause(h) \/ TakeAwaiter(h) \/ Unblock(h) \/ SetResumed(h)
      BY <1>a, <3>1
         DEF Cancel, Detach, MarkCancelled, ReadStatus, ReadAwaiters, Pause,
             TakeAwaiter, Unblock, SetResumed, Goto, HoldTo, Back, Settled,
             HolderPlaces, TypeOK
    <3>2. CASE Drop(h) \/ CheckOwner(h) \/ SetOwner(h) \/ OwnerCountUp(h) \/
              ExchangeOwner(h) \/ OwnerCountDown(h)
      BY <1>a, <3>2
         DEF Drop, CheckOwner, SetOwner, OwnerCountUp, ExchangeOwner, OwnerCountDown,
             Goto, HoldTo, Back, Settled, HolderPlaces, TypeOK
    <3>3. CASE RecheckZero(h) \/ HolderSignal(h) \/ UnRef(h) \/ LastRef(h) \/
              CancelLast(h) \/ Abandon(h)
      BY <1>a, <3>3
         DEF RecheckZero, HolderSignal, UnRef, LastRef, CancelLast, Abandon, Goto,
             HoldTo, Back, Settled, HolderPlaces, TypeOK
    <3> QED BY <2>5, <3>1, <3>2, <3>3 DEF HolderStep
  <2> QED BY <2>1, <2>2, <2>3, <2>4, <2>5 DEF Next
<1> USE <1>a DEF TypeOK
<1>8. /\ waits' \in 0 .. Waits /\ spawned' \in 0 .. Children
       /\ children' \in 0 .. spawned'
  BY <1>5, BoundAssumption
<1>9. status' \in Statuses
  <2>1. at' \in RunPlaces \ {"abort"}
    BY <1>2 DEF Counted
  <2>2. status' \in {"NotStarted", "Returned", "FinalSuspended", "ReturnedCompleted", "Running",
                     "Suspended", "PauseOnRunning", "Paused", "Abandoned",
                     "AbandonedCompleted", "AbandonedFinalSuspended",
                     "CompletedFinalSuspended"}
    BY <2>1 DEF RunPlaces, StatusAt, Live
  <2> QED BY <2>2 DEF Statuses, Moves
<1>10. refCount' \in 0 .. Cardinality(Holders)
  <2>1. Refs' \in SUBSET Holders /\ refCount' = Cardinality(Refs')
    BY DEF Refs, Handles
  <2>2. IsFiniteSet(Refs') /\ Cardinality(Refs') <= Cardinality(Holders)
    BY <2>1, HolderAssumption, FS_Subset
  <2> QED BY <2>1, <2>2, FS_CardinalityType
<1>11. completion' \in 0 .. 1 + Children + Cardinality(Holders)
  <2>1. PulseSet' \in SUBSET Holders /\ Pulses' = Cardinality(PulseSet')
    BY DEF PulseSet, Pulses, InPulse
  <2>2. Pulses' \in Nat /\ Pulses' <= Cardinality(Holders)
    BY <2>1, HolderAssumption, FS_Subset, FS_CardinalityType
  <2>3. completion' = Own' + children' + Pulses' /\ Own' \in 0 .. 1
    BY DEF Counted, Own
  <2>4. Cardinality(Holders) \in Nat
    BY HolderAssumption, FS_CardinalityType
  <2>5. children' \in Nat /\ children' <= Children
    BY <1>8, BoundAssumption
  <2>6. \A o \in 0 .. 1, c, p, m, n \in Nat :
           c <= n /\ p <= m => o + c + p \in 0 .. 1 + n + m
    OBVIOUS
  <2> QED BY <2>2, <2>3, <2>4, <2>5, <2>6, BoundAssumption, Zenon
<1>12. frees' \in 0 .. 2
  <2>1. frees \in Nat
    OBVIOUS
  <2> HIDE DEF TypeOK
  <2> QED BY <1>6, <2>1 DEF DestroyedLast
<1> QED BY <1>1, <1>2, <1>3, <1>4, <1>7, <1>8, <1>9, <1>10, <1>11, <1>12

-----------------------------------------------------------------------------
(* The theorems *)

LEMMA LifeInit == Init => LifeInv
<1> SUFFICES ASSUME Init PROVE LifeInv
  OBVIOUS
<1>1. Cardinality(Holders) \in Nat
  BY HolderAssumption, FS_CardinalityType
<1>2. Pulses = 0
  <2>1. {h \in Holders : pc[h] \in {"exchange", "undo", "settle"}} = {}
    BY DEF Init
  <2> QED BY <2>1, FS_EmptySet DEF Pulses
<1>3. TypeOK
  <2>1. /\ status \in Statuses /\ at \in RunPlaces
        /\ pc \in [Holders -> HolderPlaces] /\ dropping \in [Holders -> BOOLEAN]
    BY DEF Init, Statuses, Moves, RunPlaces, HolderPlaces
  <2>2. /\ waits \in 0 .. Waits /\ spawned \in 0 .. Children /\ children \in 0 .. spawned
        /\ frees \in 0 .. 2
    BY BoundAssumption DEF Init
  <2>3. /\ refCount \in 0 .. Cardinality(Holders)
        /\ completion \in 0 .. 1 + Children + Cardinality(Holders)
    BY <1>1, BoundAssumption DEF Init
  <2> QED BY <2>1, <2>2, <2>3 DEF Init, TypeOK
<1>4. StatusAt /\ Counted
  BY <1>2 DEF Init, StatusAt, Live, Counted, Own, Uncounted
<1>5. Pausing /\ DestroyedLast
  BY DEF Init, Pausing, InPause, DestroyedLast
<1>6. Owned
  BY HolderAssumption DEF Init, Owned, Finished, Uncounted
<1> QED BY <1>3, <1>4, <1>5, <1>6, HandlesInit DEF LifeInv

LEMMA LifeInvariant == ASSUME OneCanceller PROVE Spec => []LifeInv
<1>1. ASSUME LifeInv, [Next]_vars PROVE LifeInv'
  BY <1>1, HandlesStep, StatusAtStep, CountedStep, PausingStep, OwnedStep, DestroyedStep,
     TypeStep DEF LifeInv
<1> QED BY <1>1, LifeInit, PTL DEF Spec

\* No change of status meets one that it aborts on, whatever the coroutine, a cancel(),
\* the completion and the holders do at the same time, but for a cancel() that
\* comes to pause the coroutine when it is complete.
THEOREM OnlyLateCancelsAbort == ASSUME OneCanceller PROVE Spec => []OnlyLateCancelAborts
<1>1. LifeInv => OnlyLateCancelAborts
  BY DEF LifeInv, OnlyLateCancelAborts, Counted, Pausing
<1> QED BY <1>1, LifeInvariant, PTL

\* The frame is destroyed at most once, after the coroutine has come to its end, all
\* that it owns is complete, the finisher is done and every holder has gone.
THEOREM FrameDestroyedLast == ASSUME OneCanceller PROVE Spec => []DestroyedLast
<1>1. LifeInv => DestroyedLast
  BY DEF LifeInv
<1> QED BY <1>1, LifeInvariant, PTL

\* A task that is incomplete, itself or by one that it owns, has an owner through
\* every change of owner, unless it was detached; a destroyed one has none.
THEOREM TaskOwned == ASSUME OneCanceller PROVE Spec => []OwnedUntilComplete
<1>1. ASSUME LifeInv PROVE OwnedUntilComplete
  <2>1. completion = Own + children + Pulses /\ Owned
    BY <1>1 DEF LifeInv, Counted
  <2>2. Pulses \in Nat /\ children \in Nat
    BY <1>1, PulsesFinite DEF LifeInv, TypeOK
  <2>3. completion > Pulses => ~Finished
    BY <2>1, <2>2 DEF Own, Finished
  <2>4. frees = 1 => /\ Finished /\ at = "end" /\ finisher # "signal"
                     /\ \A h \in Holders : pc[h] \notin WillSignal
    BY <1>1 DEF LifeInv, DestroyedLast, Finished, Uncounted, WillSignal, InPulse
  <2> QED BY <2>1, <2>3, <2>4 DEF Owned, OwnedUntilComplete
<1> QED BY <1>1, LifeInvariant, PTL

\* While a holder takes the awaiter of the coroutine out, the coroutine is where that
\* awaiter lives: it cannot leave the await before the cancel() is over.
THEOREM AwaiterHeldForCancel == ASSUME OneCanceller PROVE Spec => []PausedForCancel
<1>1. ASSUME LifeInv PROVE PausedForCancel
  <2>1. \A h \in Holders : pc[h] \in InPause => status \in {"PauseOnRunning", "Paused"}
    BY <1>1 DEF LifeInv, Pausing
  <2>2. at \in RunPlaces \ {"abort"} /\ StatusAt
    BY <1>1 DEF LifeInv, TypeOK, Counted
  <2>3. status \in {"PauseOnRunning", "Paused"} =>
           at \in {"mark", "enqueue", "parked", "resume", "running", "paused"}
    BY <2>2 DEF StatusAt, Live, RunPlaces
  <2> QED BY <2>1, <2>3 DEF PausedForCancel, InPause
<1> QED BY <1>1, LifeInvariant, PTL
=============================================================================
