------------------------ MODULE TaskGeneratorProofs ------------------------
(***************************************************************************)
(* Theorems about TaskGenerator for every number of yields, awaits and     *)
(* owned tasks: no assertion of the task, its awaiters and its consumer    *)
(* fails, neither of the two coroutines is resumed twice, the frame of the *)
(* task is destroyed once and last, and its values are taken in order.     *)
(*                                                                         *)
(* They hold when nobody cancels the consumer of a task that yields        *)
(* (CancelGenerators = FALSE): what a cancel() does then is shown by the   *)
(* run that sets it TRUE and finds ScheduledNotDone violated.  A consumer  *)
(* that awaits a task which only returns may be cancelled at any step.     *)
(*                                                                         *)
(* The invariant says, for each place of the task and of the consumer,     *)
(* which status goes with it, whose turn it is, and who is going to resume *)
(* the consumer: exactly one of those who could.                           *)
(***************************************************************************)
EXTENDS TaskGenerator, Integers, TLAPS

-----------------------------------------------------------------------------
(* The inductive invariant *)

Going     == {"resume", "check", "body", "thrown"}
Yielding  == {"yield", "advise", "suspend", "suspending"}
Ending    == {"count", "complete", "finish", "defer", "deferred", "signalOwner", "finalReady",
              "finalSuspend"}
Uncounted == {"signalOwner", "finalReady", "finalSuspend", "end"}
Before    == {"body", "ready", "suspend", "suspending", "claim", "store"}
Leaving   == {"recount", "retire", "restart"}
Gone      == Leaving \cup {"return", "end"}
Deserted  == {"Abandoned", "AbandonedCompleted", "AbandonedFinalSuspended",
              "AbandonedYieldSuspended"}

\* The types, field by field and without the bounds that follow from the other parts.
TaskFields(t) ==
    [status |-> t.status, cancelled |-> t.cancelled, cont |-> t.cont, value |-> t.value,
     completion |-> t.completion, owned |-> t.owned, at |-> t.at, kept |-> t.kept, saw |-> t.saw,
     limit |-> t.limit, made |-> t.made, children |-> t.children, spawned |-> t.spawned,
     finisher |-> t.finisher, frees |-> t.frees]
ConsumerFields(c) ==
    [status |-> c.status, cancelled |-> c.cancelled, listed |-> c.listed, blocked |-> c.blocked,
     at |-> c.at, saw |-> c.saw, awaits |-> c.awaits, taken |-> c.taken]
ScheduledFields(s) == [task |-> s.task, consumer |-> s.consumer]
Shape ==
    /\ task = TaskFields(task) /\ consumer = ConsumerFields(consumer)
    /\ scheduled = ScheduledFields(scheduled)
Typed ==
    /\ task.status \in Statuses /\ task.at \in TaskPlaces
    /\ task.value \in {"none", "value", "error"}
    /\ task.finisher \in {"none", "waiting", "signal", "set", "end"}
    /\ task.cancelled \in BOOLEAN /\ task.cont \in BOOLEAN /\ task.owned \in BOOLEAN
    /\ task.kept \in BOOLEAN /\ task.saw \in BOOLEAN
    /\ task.completion \in Int /\ task.limit \in Int /\ task.made \in Int
    /\ task.children \in Int /\ task.spawned \in Int /\ task.frees \in Nat
    /\ consumer.status \in Statuses /\ consumer.at \in ConsumerPlaces
    /\ consumer.cancelled \in BOOLEAN /\ consumer.listed \in BOOLEAN
    /\ consumer.blocked \in BOOLEAN /\ consumer.saw \in BOOLEAN
    /\ consumer.awaits \in Int /\ consumer.taken \in Int
    /\ scheduled.task \in Int /\ scheduled.consumer \in Int
    /\ tail \in {"none", "mark", "start"} /\ handing \in BOOLEAN
    /\ canceller \in {"idle", "status", "pause", "take", "unblock", "resumed", "end"}

Bounded ==
    /\ 0 <= task.children /\ task.children <= task.spawned /\ task.spawned <= Children
    /\ 0 <= consumer.awaits /\ consumer.awaits <= Awaits
    /\ 0 <= task.limit /\ task.limit <= Yields /\ 0 <= task.made
    /\ task.made <= task.limit + Count(task.at \in Ending \cup {"final", "end"})

\* The status of the task at each of its places.
TaskStatus ==
    /\ task.at = "start" => task.status \in {"NotStarted", "Suspended", "Abandoned"}
    /\ task.at = "yielded" =>
          task.status \in {"YieldedSuspended", "Suspended", "AbandonedYieldSuspended"}
    /\ task.at = "resume" => /\ task.status \in {"Suspended", "AbandonedYieldSuspended", "Abandoned"}
                             /\ task.status = "AbandonedYieldSuspended" => task.cancelled
    /\ task.at \in {"check", "body", "thrown"} => task.status \in {"Running", "Abandoned"}
    /\ task.at \in Yielding => task.status = "Yielded"
    /\ task.at \in {"final", "count", "complete", "defer", "deferred"} =>
          task.status \in {"Returned", "Abandoned"}
    /\ task.at \in {"finish", "signalOwner"} =>
          task.status \in {"ReturnedCompleted", "AbandonedCompleted"}
    /\ task.at \in {"finalReady", "finalSuspend"} =>
          task.status \in IF task.finisher \in {"none", "end"}
                          THEN {"ReturnedCompleted", "AbandonedCompleted"} ELSE {"Returned", "Abandoned"}
    /\ task.at = "end" =>
          IF task.finisher \in {"none", "end"}
          THEN task.status = "CompletedFinalSuspended" \/ task.frees = 1
          ELSE task.status \in {"FinalSuspended", "AbandonedFinalSuspended"}

\* The consumer gives the task up in abandon(), and after that nothing of it is its own
\* but a task between two awaits, which it destroys or has go on.
GivenUp ==
    /\ task.status \in Deserted => consumer.at \in Gone
    /\ consumer.at \in Gone => task.status \in Deserted \/ task.frees = 1
    /\ consumer.at \in Leaving => /\ task.at \in {"start", "yielded"} /\ scheduled.task = 0
                                  /\ tail = "none" /\ task.finisher = "none"
    /\ consumer.at = "retire" => task.completion = 1

\* What the completion event counts, how far the finisher is, and who sets m_owner.
Counted ==
    /\ task.completion = Count(task.at \notin Uncounted) + task.children
                           + Count(consumer.at \in {"exchange", "settle"})
    /\ task.at = "start" => task.spawned = 0
    /\ task.at \in {"complete", "finish"} => task.children = 0
    /\ task.at = "deferred" => task.finisher = "waiting"
    /\ task.finisher # "none" => task.at \in {"deferred", "finalReady", "finalSuspend", "end"}
    /\ task.finisher = "none" /\ task.at \in Uncounted => task.children = 0
    /\ task.finisher \in {"signal", "set", "end"} => task.completion = 0
    /\ task.owned => task.completion > 0 \/ task.finisher = "signal" \/ task.at = "signalOwner"

\* The status of the consumer at each of its places, and the cancel() of it.
ConsumerStatus ==
    /\ consumer.at \in ConsumerPlaces \ {"claim", "store", "parked", "resume", "remove", "running",
                                         "paused", "end"} => consumer.status = "Running"
    /\ consumer.at \in {"claim", "store", "parked"} =>
          consumer.status \in {"Suspended", "PauseOnRunning"}
    /\ consumer.at \in {"resume", "remove", "running"} =>
          consumer.status \in {"Running", "Suspended", "PauseOnRunning"}
    /\ consumer.at = "paused" => consumer.status \in {"Paused", "Running"}
    /\ consumer.at = "end" => consumer.status = "Returned"
Cancelling ==
    /\ canceller = "idle" => ~consumer.cancelled
    /\ canceller \notin {"idle", "end"} => consumer.cancelled
    /\ consumer.status \in {"PauseOnRunning", "Paused"} <=> canceller \in {"take", "unblock", "resumed"}
    /\ consumer.at = "suspending" /\ consumer.saw => consumer.cancelled
    /\ consumer.at \in {"suspend", "suspending", "claim", "store", "parked", "resume", "remove"} =>
          consumer.listed \/ consumer.cancelled
    /\ consumer.blocked => consumer.at \in {"parked", "resume", "remove", "running", "paused", "check"}
    /\ canceller = "unblock" => consumer.at \in {"parked", "resume", "remove", "running", "paused"}
    /\ task.limit > 0 => canceller = "end" /\ ~consumer.cancelled

\* Whose turn it is: the task's from the end of the await to its next yield or its end.
Turn == tail # "none" \/ scheduled.task = 1 \/ task.at \notin {"start", "yielded", "end"}

\* The task is going to resume the consumer.
Owes == Turn /\ (task.cont \/ (task.kept /\ task.at \in Ending))

\* The task waits for an await, or has been told to go on, once.
TaskWaits ==
    /\ scheduled.task >= 0
    /\ scheduled.task + Count(tail # "none") <= Count(task.at \in {"start", "yielded"})
    /\ task.status \in {"NotStarted", "YieldedSuspended"} =>
          scheduled.task = 0 /\ tail = "none" /\ task.at \in {"start", "yielded"}
    /\ task.status = "Suspended" /\ task.at \in {"start", "yielded"} => Turn \/ consumer.at = "store"
    /\ consumer.at \in Before => /\ scheduled.task = 0 /\ tail = "none" /\ ~task.cont
                                 /\ task.at \in {"start", "yielded", "end"}
    /\ consumer.at = "store" => task.status = "Suspended"
    /\ tail = "mark" => /\ consumer.at = "parked" /\ task.cont /\ task.status = "Suspended"
                        /\ ~consumer.blocked /\ canceller # "unblock"

\* A consumer that is parked is going to be resumed by one: by who has scheduled it, by
\* what is left of the await_suspend() of the task, or by the task in its turn.
OneResumes ==
    /\ scheduled.consumer >= 0
    /\ consumer.at = "parked" => scheduled.consumer + Count(handing) + Count(Owes) = 1
    /\ consumer.at # "parked" => scheduled.consumer = 0 /\ ~handing /\ ~Owes
    /\ handing => task.at \in {"yielded", "end"}
    /\ task.cont => /\ task.at \notin Ending \cup {"end"}
                    /\ \/ consumer.at = "parked" /\ Turn
                       \/ task.at = "yielded" /\ consumer.at \in {"parked", "resume"}

\* A task that yields does so while the consumer, which is not cancelled, is parked.
YieldsInTurn ==
    /\ task.at \in Yielding \cup {"yielded"} => task.limit > 0
    /\ task.at \in Yielding => consumer.at = "parked" /\ ~task.cancelled /\ task.cont
    /\ task.at \in Yielding \ {"yield"} => task.kept
    /\ task.at = "suspending" => ~task.saw
    /\ task.limit > 0 /\ task.at = "body" => ~task.cancelled
    /\ task.limit > 0 /\ Turn /\ task.at \notin Ending =>
          \/ consumer.at = "parked" /\ task.cont
          \/ consumer.at \in {"return", "end"} /\ task.cancelled

\* Whoever comes out of an await uncancelled finds a value, and the next one.
Answered ==
    \/ task.at = "end" /\ task.status \in {"FinalSuspended", "CompletedFinalSuspended"}
    \/ task.at = "yielded" /\ task.status = "YieldedSuspended"
Answers ==
    /\ handing \/ scheduled.consumer = 1
          \/ consumer.at \in {"resume", "remove", "running", "paused", "check"} =>
       consumer.cancelled \/ Answered
    /\ consumer.at = "value" => Answered
    /\ 0 <= consumer.taken /\ consumer.taken <= task.made /\ task.made <= consumer.taken + 1
    /\ task.at \in {"start"} \cup Going => task.made = consumer.taken
    /\ task.at = "yielded" /\ task.made # consumer.taken =>
          /\ consumer.at \in {"parked", "resume", "remove", "running", "check", "value"}
          /\ scheduled.task = 0 /\ tail = "none"

GenInv ==
    /\ Shape /\ Typed /\ Bounded /\ TaskStatus /\ GivenUp /\ Counted /\ ConsumerStatus /\ Cancelling
    /\ TaskWaits /\ OneResumes /\ YieldsInTurn /\ Answers /\ FreedLast

LEMMA StatusesAre ==
    Statuses = {"NotStarted", "Returned", "Yielded", "FinalSuspended", "YieldedSuspended",
                "ReturnedCompleted", "Running", "Suspended", "Abandoned",
                "AbandonedFinalSuspended", "AbandonedYieldSuspended", "AbandonedCompleted",
                "CompletedFinalSuspended", "PauseOnRunning", "Paused"}
  BY DEF Statuses, Moves


\* What becomes of some steps whose outcome the invariant decides: a task that yields has
\* a consumer to resume, and is not cancelled; an abandoned task that ends in await_ready()
\* has nobody to resume; a task that is retired has nobody else to count it.
YieldsOver ==
    /\ task.at = "suspending" /\ task.kept
    /\ task' = [task EXCEPT !.status = "YieldedSuspended", !.at = "yielded"]
    /\ handing' = TRUE
    /\ UNCHANGED <<consumer, scheduled, tail, canceller>>
EndsAlone ==
    /\ task.at = "finalReady" /\ task.status = "AbandonedCompleted" /\ ~task.kept
    /\ task' = [task EXCEPT !.at = "end", !.frees = @ + 1]
    /\ handing' = FALSE
    /\ UNCHANGED <<consumer, scheduled, tail, canceller>>
GoesToSuspend ==
    /\ task.at = "finalReady" /\ task.status # "AbandonedCompleted"
    /\ task' = [task EXCEPT !.at = "finalSuspend"]
    /\ UNCHANGED <<consumer, scheduled, tail, handing, canceller>>
RetiresLast ==
    /\ consumer.at = "retire" /\ task.finisher = "none"
    /\ consumer' = [consumer EXCEPT !.at = "return"]
    /\ task' = [task EXCEPT !.completion = 0, !.finisher = "none", !.owned = FALSE, !.at = "end",
                            !.frees = @ + 1]
    /\ UNCHANGED <<scheduled, tail, handing, canceller>>

LEMMA YieldsToConsumer ==
    ASSUME Shape, Typed, TaskStatus, YieldsInTurn, YieldSuspend
    PROVE  YieldsOver
<1> USE DEF Shape, TaskFields, Typed, TaskStatus, YieldsInTurn, Yielding
<1>1. task.at = "suspending" /\ task.kept /\ ~task.saw /\ task.status = "Yielded"
  BY DEF YieldSuspend
<1>2. Turned(task, "Suspended", FALSE, "yielded") =
          [task EXCEPT !.status = "YieldedSuspended", !.at = "yielded"]
  <2>1. After(task.status, "Suspended", FALSE, task.cancelled) = "YieldedSuspended"
    BY <1>1 DEF After, Asserted, Moves
  <2> QED BY <2>1 DEF Turned
<1>3. task' = Turned(task, "Suspended", FALSE, "yielded") /\ handing' = task.kept
  BY <1>1 DEF YieldSuspend
<1>4. handing' = TRUE
  BY <1>1, <1>3
<1> QED BY <1>1, <1>2, <1>3, <1>4 DEF YieldSuspend, YieldsOver

LEMMA FinalEndsAlone ==
    ASSUME Shape, Typed, GivenUp, OneResumes, FinalReady
    PROVE  EndsAlone \/ GoesToSuspend
<1>1. task.at = "finalReady" /\ UNCHANGED <<consumer, scheduled, tail, canceller>>
  BY DEF FinalReady
<1>2. CASE task.status = "AbandonedCompleted"
  <2>1. consumer.at \in Gone
    BY <1>2 DEF GivenUp, Deserted
  <2>2. ~task.kept
    BY <1>1, <2>1 DEF OneResumes, Owes, Turn, Ending, Gone, Leaving
  <2>3. task' = Freed([task EXCEPT !.at = "end"]) /\ handing' = task.kept
    BY <1>2 DEF FinalReady
  <2>4. handing' = FALSE
    BY <2>2, <2>3 DEF Typed
  <2>5. task' = [task EXCEPT !.at = "end", !.frees = @ + 1]
    BY <2>3 DEF Freed, Shape, TaskFields
  <2> QED BY <1>1, <1>2, <2>2, <2>4, <2>5 DEF EndsAlone
<1>3. CASE task.status # "AbandonedCompleted"
  <2>1. task' = [task EXCEPT !.at = "finalSuspend"] /\ UNCHANGED handing
    BY <1>3 DEF FinalReady
  <2> QED BY <1>1, <1>3, <2>1 DEF GoesToSuspend
<1> QED BY <1>2, <1>3

LEMMA RetireIsLast ==
    ASSUME Shape, Typed, GivenUp, Retire
    PROVE  RetiresLast
<1>1. /\ consumer.at = "retire" /\ consumer' = [consumer EXCEPT !.at = "return"]
      /\ UNCHANGED <<scheduled, tail, handing, canceller>>
  BY DEF Retire, ConsumerGo
<1>2. task.finisher = "none" /\ task.completion = 1
  BY <1>1 DEF GivenUp, Leaving
<1>3. CountedDown(task) = [task EXCEPT !.completion = 0, !.finisher = "none"]
  BY <1>2 DEF CountedDown, Shape, TaskFields
<1>4. task' = Freed([[task EXCEPT !.completion = 0, !.finisher = "none"]
                     EXCEPT !.owned = FALSE, !.at = "end"])
  BY <1>3 DEF Retire
<1>5. task' = [task EXCEPT !.completion = 0, !.finisher = "none", !.owned = FALSE, !.at = "end",
                           !.frees = @ + 1]
  BY <1>4 DEF Freed, Shape, TaskFields
<1> QED BY <1>1, <1>2, <1>5 DEF RetiresLast

\* countDown() after the change of the owner: it is the last one, with or without a
\* finisher that waits, or it is not.
OwnerStays ==
    /\ task.completion > 1
    /\ task' = [task EXCEPT !.completion = @ - 1, !.finisher = @]
OwnerGoes ==
    /\ task.completion = 1 /\ task.finisher # "waiting"
    /\ task' = [task EXCEPT !.completion = 0, !.finisher = @, !.owned = FALSE]
OwnerWakes ==
    /\ task.completion = 1 /\ task.finisher = "waiting"
    /\ task' = [task EXCEPT !.completion = 0, !.finisher = "signal", !.owned = FALSE]
OwnerSettles ==
    /\ consumer.at = "settle" /\ consumer' = [consumer EXCEPT !.at = "lastRef"]
    /\ UNCHANGED <<scheduled, tail, handing, canceller>>
    /\ OwnerStays \/ OwnerGoes \/ OwnerWakes

LEMMA OwnerIsSettled ==
    ASSUME Shape, Typed, Bounded, Counted, OwnerCountDown
    PROVE  OwnerSettles
<1>1. /\ consumer.at = "settle" /\ consumer' = [consumer EXCEPT !.at = "lastRef"]
      /\ UNCHANGED <<scheduled, tail, handing, canceller>>
  BY DEF OwnerCountDown, ConsumerGo
<1>2. task.completion \in Int /\ task.completion >= 1
  BY <1>1 DEF Typed, Bounded, Counted, Count
<1>3. task' = [CountedDown(task) EXCEPT !.owned = @ /\ task.completion > 1]
  BY DEF OwnerCountDown
<1>4. CASE task.completion > 1
  <2>1. CountedDown(task) = [task EXCEPT !.completion = @ - 1, !.finisher = @]
    <3>1. task.completion # 1
      BY <1>2, <1>4
    <3> QED BY <3>1 DEF CountedDown, Shape, TaskFields
  <2>2. (task.owned /\ task.completion > 1) = task.owned
    BY <1>4 DEF Typed
  <2>3. task' = [task EXCEPT !.completion = @ - 1, !.finisher = @]
    BY <1>3, <2>1, <2>2 DEF Shape, TaskFields
  <2> QED BY <1>1, <1>4, <2>3 DEF OwnerSettles, OwnerStays
<1>5. CASE task.completion = 1
  <2>1. (task.owned /\ task.completion > 1) = FALSE
    BY <1>5
  <2>2. CASE task.finisher = "waiting"
    <3>1. CountedDown(task) = [task EXCEPT !.completion = 0, !.finisher = "signal"]
      BY <1>5, <2>2 DEF CountedDown, Shape, TaskFields
    <3>2. task' = [task EXCEPT !.completion = 0, !.finisher = "signal", !.owned = FALSE]
      BY <1>3, <2>1, <3>1 DEF Shape, TaskFields
    <3> QED BY <1>1, <1>5, <2>2, <3>2 DEF OwnerSettles, OwnerWakes
  <2>3. CASE task.finisher # "waiting"
    <3>1. CountedDown(task) = [task EXCEPT !.completion = 0, !.finisher = @]
      BY <1>5, <2>3 DEF CountedDown, Shape, TaskFields
    <3>2. task' = [task EXCEPT !.completion = 0, !.finisher = @, !.owned = FALSE]
      BY <1>3, <2>1, <3>1 DEF Shape, TaskFields
    <3> QED BY <1>1, <1>5, <2>3, <3>2 DEF OwnerSettles, OwnerGoes
  <2> QED BY <2>2, <2>3
<1> QED BY <1>2, <1>4, <1>5

\* HandBack with Schedule() expanded.
HandsBack ==
    /\ handing /\ handing' = FALSE
    /\ scheduled' = [scheduled EXCEPT !.consumer = @ + 1]
    /\ UNCHANGED <<task, consumer, tail, canceller>>

\* The finisher destroys the frame of a task that was given up at its final suspend point.
FinisherFrees ==
    /\ task.finisher = "set"
    /\ task' = [task EXCEPT !.finisher = "end", !.frees = @ + 1]
    /\ UNCHANGED <<consumer, scheduled, tail, handing, canceller>>

LEMMA FinisherDestroys ==
    ASSUME Shape, FinisherSet, task.status = "AbandonedFinalSuspended"
    PROVE  FinisherFrees
<1>1. After(task.status, "Completed", FALSE, task.cancelled) = "AbandonedFinalSuspended"
  BY DEF After, Asserted, Moves
<1>2. Turned(task, "Completed", FALSE, task.at) = task
  BY <1>1 DEF Turned, Shape, TaskFields
<1>3. task' = Freed([task EXCEPT !.finisher = "end"]) /\ task.finisher = "set" /\ UNCHANGED onlyTask
  BY <1>2 DEF FinisherSet
<1>4. task' = [task EXCEPT !.finisher = "end", !.frees = @ + 1]
  BY <1>3 DEF Freed, Shape, TaskFields
<1> QED BY <1>3, <1>4 DEF FinisherFrees, onlyTask

\* No step changes the fields that a record has.
LEMMA ShapeKept ==
    ASSUME Shape, [Next]_vars
    PROVE  Shape'
<1> USE DEF Shape, TaskFields, ConsumerFields, ScheduledFields
<1>1. CASE ResumeTask
  BY <1>1 DEF ResumeTask, Resume
<1>2. CASE TaskResume
  BY <1>2 DEF TaskResume, onlyTask, Turned
<1>3. CASE TaskCheck
  BY <1>3 DEF TaskCheck, TaskGo, onlyTask
<1>4. CASE Spawn
  BY <1>4 DEF Spawn, onlyTask
<1>5. CASE YieldValue
  BY <1>5 DEF YieldValue, onlyTask, Turned
<1>6. CASE CopyContinuation
  BY <1>6 DEF CopyContinuation, onlyTask
<1>7. CASE YieldReady
  BY <1>7 DEF YieldReady, TaskGo, onlyTask
<1>8. CASE YieldReadCancelled
  BY <1>8 DEF YieldReadCancelled, onlyTask
<1>9. CASE YieldSuspend
  BY <1>9 DEF YieldSuspend, Turned
<1>10. CASE ReturnValue
  BY <1>10 DEF ReturnValue, onlyTask, Turned
<1>11. CASE FinalSuspend
  BY <1>11 DEF FinalSuspend, onlyTask
<1>12. CASE FinalCount
  BY <1>12 DEF FinalCount, TaskGo, onlyTask
<1>13. CASE SetCompleted
  BY <1>13 DEF SetCompleted, onlyTask, Turned
<1>14. CASE DeferCompletion
  BY <1>14 DEF DeferCompletion, onlyTask
<1>15. CASE CompletionCountDown
  BY <1>15 DEF CompletionCountDown, onlyTask, CountedDown
<1>16. CASE SignalOwner
  BY <1>16 DEF SignalOwner, onlyTask
<1>17. CASE FinalReady
  BY <1>17 DEF FinalReady, Freed
<1>18. CASE FinalAwaitSuspend
  BY <1>18 DEF FinalAwaitSuspend, Freed, Turned
<1>19. CASE ChildDone
  BY <1>19 DEF ChildDone, onlyTask, CountedDown
<1>20. CASE FinisherSignal
  BY <1>20 DEF FinisherSignal, onlyTask
<1>21. CASE FinisherSet
  BY <1>21 DEF FinisherSet, onlyTask, Freed, Turned
<1>22. CASE HandBack
  BY <1>22 DEF HandBack, Schedule
<1>23. CASE MarkBlocked
  BY <1>23 DEF MarkBlocked
<1>24. CASE StartTask
  BY <1>24 DEF StartTask, Schedule
<1>25. CASE Await
  BY <1>25 DEF Await, onlyConsumer, Done
<1>26. CASE AwaitReady
  BY <1>26 DEF AwaitReady, onlyConsumer, Done
<1>27. CASE ReadCancelled
  BY <1>27 DEF ReadCancelled, onlyConsumer
<1>28. CASE OnSuspend
  BY <1>28 DEF OnSuspend, onlyConsumer, Turned
<1>29. CASE ClaimTask
  BY <1>29 DEF ClaimTask, Done
<1>30. CASE StoreContinuation
  BY <1>30 DEF StoreContinuation, ConsumerGo
<1>31. CASE ResumeConsumer
  BY <1>31 DEF ResumeConsumer, ConsumerGo, Resume
<1>32. CASE AwaitResume
  BY <1>32 DEF AwaitResume, ConsumerGo
<1>33. CASE RemoveAwaiter
  BY <1>33 DEF RemoveAwaiter, onlyConsumer
<1>34. CASE SetRunning
  BY <1>34 DEF SetRunning, onlyConsumer, Turned
<1>35. CASE AwaitUnpaused
  BY <1>35 DEF AwaitUnpaused, ConsumerGo, onlyConsumer
<1>36. CASE CheckCancelled
  BY <1>36 DEF CheckCancelled, onlyConsumer
<1>37. CASE TakeValue
  BY <1>37 DEF TakeValue, onlyConsumer, Done
<1>38. CASE CancelTask
  BY <1>38 DEF CancelTask
<1>39. CASE OwnerCountUp
  BY <1>39 DEF OwnerCountUp
<1>40. CASE ExchangeOwner
  BY <1>40 DEF ExchangeOwner, ConsumerGo
<1>41. CASE OwnerCountDown
  BY <1>41 DEF OwnerCountDown, ConsumerGo, CountedDown
<1>42. CASE LastRef
  BY <1>42 DEF LastRef, Freed
<1>43. CASE ClearValue
  BY <1>43 DEF ClearValue, ConsumerGo, Done
<1>44. CASE Abandon
  BY <1>44 DEF Abandon, Freed, Turned
<1>45. CASE Recount
  BY <1>45 DEF Recount, ConsumerGo, onlyConsumer
<1>46. CASE Retire
  BY <1>46 DEF Retire, ConsumerGo, CountedDown, Freed
<1>47. CASE Restart
  BY <1>47 DEF Restart, ConsumerGo, Schedule
<1>48. CASE ConsumerReturn
  BY <1>48 DEF ConsumerReturn, onlyConsumer, Turned
<1>49. CASE Cancel
  BY <1>49 DEF Cancel, CancelGo
<1>50. CASE CancelStatus
  BY <1>50 DEF CancelStatus, CancelGo
<1>51. CASE Pause
  BY <1>51 DEF Pause, CancelGo, Turned
<1>52. CASE TakeAwaiter
  BY <1>52 DEF TakeAwaiter, CancelGo
<1>53. CASE Unblock
  BY <1>53 DEF Unblock, CancelGo, Schedule
<1>54. CASE CancelResumed
  BY <1>54 DEF CancelResumed, CancelGo, Turned
<1>55. CASE UNCHANGED vars
  BY <1>55 DEF vars
<1> QED
  BY <1>1, <1>2, <1>3, <1>4, <1>5, <1>6, <1>7, <1>8, <1>9, <1>10, <1>11, <1>12, <1>13,
    <1>14, <1>15, <1>16, <1>17, <1>18, <1>19, <1>20, <1>21, <1>22, <1>23, <1>24, <1>25,
    <1>26, <1>27, <1>28, <1>29, <1>30, <1>31, <1>32, <1>33, <1>34, <1>35, <1>36, <1>37,
    <1>38, <1>39, <1>40, <1>41, <1>42, <1>43, <1>44, <1>45, <1>46, <1>47, <1>48, <1>49,
    <1>50, <1>51, <1>52, <1>53, <1>54, <1>55
    DEF Next, TaskStep, FinisherStep, TailStep, ConsumerStep, CancelStep

\* Every step keeps the types: no assertion fails and no status is met that setStatus()
\* aborts on.
LEMMA TypesKept ==
    ASSUME Shape, Typed, Bounded, TaskStatus, GivenUp, Counted, ConsumerStatus,
           Cancelling, TaskWaits, OneResumes, YieldsInTurn, Answers, FreedLast,
           [Next]_vars
    PROVE  Typed'
<1>a. YieldSuspend => YieldsOver
  BY YieldsToConsumer
<1>b. FinalReady => EndsAlone \/ GoesToSuspend
  BY FinalEndsAlone
<1>c. Retire => RetiresLast
  BY RetireIsLast
<1>d. OwnerCountDown => OwnerSettles
  BY OwnerIsSettled
<1>e. HandBack => HandsBack
  BY DEF HandBack, HandsBack, Schedule
<1>f. FinisherSet /\ task.status = "AbandonedFinalSuspended" => FinisherFrees
  BY FinisherDestroys
<1> USE DEF Shape, TaskFields, ConsumerFields, ScheduledFields, Typed, TaskPlaces,
    ConsumerPlaces, Bounded, TaskStatus, GivenUp, Counted, ConsumerStatus, Cancelling,
    TaskWaits, Answers, Answered, FreedLast, Turn, Owes, Count, Going, Yielding, Ending,
    Uncounted, Before, Leaving, Gone, Deserted
<1> USE StatusesAre
<1>1. CASE ResumeTask
  BY <1>1 DEF ResumeTask, Resume
<1>2. CASE TaskResume
  BY <1>2 DEF TaskResume, onlyTask, Turned, After, Asserted, Moves
<1>3. CASE TaskCheck
  BY <1>3 DEF TaskCheck, TaskGo, onlyTask
<1>4. CASE Spawn
  BY <1>4 DEF Spawn, onlyTask
<1>5. CASE YieldValue
  BY <1>5 DEF YieldValue, onlyTask, Turned, After, Asserted, Moves
<1>6. CASE CopyContinuation
  BY <1>6 DEF CopyContinuation, onlyTask
<1>7. CASE YieldReady
  BY <1>7 DEF YieldReady, TaskGo, onlyTask
<1>8. CASE YieldReadCancelled
  BY <1>8 DEF YieldReadCancelled, onlyTask
<1>9. CASE YieldSuspend
  <2>1. YieldsOver
    BY <1>9, <1>a
  <2>2. handing' \in BOOLEAN
    BY <2>1 DEF YieldsOver
  <2>3. /\ task'.status = "YieldedSuspended" /\ task'.at = "yielded"
        /\ task'.value = task.value /\ task'.finisher = task.finisher
        /\ task'.cancelled = task.cancelled /\ task'.cont = task.cont /\ task'.owned = task.owned
        /\ task'.kept = task.kept /\ task'.saw = task.saw
        /\ task'.completion = task.completion /\ task'.limit = task.limit
        /\ task'.made = task.made /\ task'.children = task.children
        /\ task'.spawned = task.spawned /\ task'.frees = task.frees
        /\ UNCHANGED <<consumer, scheduled, tail, canceller>>
    BY <2>1 DEF YieldsOver
  <2> QED BY <2>2, <2>3
<1>10. CASE ReturnValue
  BY <1>10 DEF ReturnValue, onlyTask, Turned, After, Asserted, Moves
<1>11. CASE FinalSuspend
  BY <1>11 DEF FinalSuspend, onlyTask
<1>12. CASE FinalCount
  BY <1>12 DEF FinalCount, TaskGo, onlyTask
<1>13. CASE SetCompleted
  BY <1>13 DEF SetCompleted, onlyTask, Turned, After, Asserted, Moves
<1>14. CASE DeferCompletion
  BY <1>14 DEF DeferCompletion, onlyTask
<1>15. CASE CompletionCountDown
  BY <1>15 DEF CompletionCountDown, onlyTask, CountedDown
<1>16. CASE SignalOwner
  BY <1>16 DEF SignalOwner, onlyTask
<1>17. CASE FinalReady
  <2>1. EndsAlone \/ GoesToSuspend
    BY <1>17, <1>b
  <2>2. CASE EndsAlone
    <3>1. handing' \in BOOLEAN
      BY <2>2 DEF EndsAlone
    <3> QED BY <2>2, <3>1 DEF EndsAlone
  <2>3. CASE GoesToSuspend
    BY <2>3 DEF GoesToSuspend
  <2> QED BY <2>1, <2>2, <2>3
<1>18. CASE FinalAwaitSuspend
  <2>1. CASE task.status = "AbandonedCompleted"
    BY <1>18, <2>1 DEF FinalAwaitSuspend, Freed, Turned, After, Asserted, Moves
  <2>2. CASE task.status # "AbandonedCompleted"
    BY <1>18, <2>2 DEF FinalAwaitSuspend, Freed, Turned, After, Asserted, Moves
  <2> QED BY <2>1, <2>2
<1>19. CASE ChildDone
  BY <1>19 DEF ChildDone, onlyTask, CountedDown
<1>20. CASE FinisherSignal
  BY <1>20 DEF FinisherSignal, onlyTask
<1>21. CASE FinisherSet
  <2>1. CASE task.status = "AbandonedFinalSuspended"
    <3>1. FinisherFrees
      BY <1>21, <2>1, <1>f
    <3> QED BY <2>1, <3>1 DEF FinisherFrees
  <2>2. CASE task.status # "AbandonedFinalSuspended"
    BY <1>21, <2>2 DEF FinisherSet, onlyTask, Freed, Turned, After, Asserted, Moves
  <2> QED BY <2>1, <2>2
<1>22. CASE HandBack
  <2>1. HandsBack
    BY <1>22, <1>e
  <2>2. handing' \in BOOLEAN
    BY <2>1 DEF HandsBack
  <2> QED BY <2>1, <2>2 DEF HandsBack
<1>23. CASE MarkBlocked
  BY <1>23 DEF MarkBlocked
<1>24. CASE StartTask
  BY <1>24 DEF StartTask, Schedule
<1>25. CASE Await
  BY <1>25 DEF Await, onlyConsumer, Done
<1>26. CASE AwaitReady
  BY <1>26 DEF AwaitReady, onlyConsumer, Done
<1>27. CASE ReadCancelled
  BY <1>27 DEF ReadCancelled, onlyConsumer
<1>28. CASE OnSuspend
  BY <1>28 DEF OnSuspend, onlyConsumer, Turned, After, Asserted, Moves
<1>29. CASE ClaimTask
  BY <1>29 DEF ClaimTask, Done
<1>30. CASE StoreContinuation
  BY <1>30 DEF StoreContinuation, ConsumerGo
<1>31. CASE ResumeConsumer
  BY <1>31 DEF ResumeConsumer, ConsumerGo, Resume
<1>32. CASE AwaitResume
  BY <1>32 DEF AwaitResume, ConsumerGo
<1>33. CASE RemoveAwaiter
  BY <1>33 DEF RemoveAwaiter, onlyConsumer
<1>34. CASE SetRunning
  BY <1>34 DEF SetRunning, onlyConsumer, Turned, After, Asserted, Moves
<1>35. CASE AwaitUnpaused
  BY <1>35 DEF AwaitUnpaused, ConsumerGo, onlyConsumer
<1>36. CASE CheckCancelled
  BY <1>36 DEF CheckCancelled, onlyConsumer
<1>37. CASE TakeValue
  BY <1>37 DEF TakeValue, onlyConsumer, Done
<1>38. CASE CancelTask
  BY <1>38 DEF CancelTask
<1>39. CASE OwnerCountUp
  BY <1>39 DEF OwnerCountUp
<1>40. CASE ExchangeOwner
  BY <1>40 DEF ExchangeOwner, ConsumerGo
<1>41. CASE OwnerCountDown
  <2>1. OwnerSettles
    BY <1>41, <1>d
  <2>2. CASE OwnerStays
    BY <2>1, <2>2 DEF OwnerSettles, OwnerStays
  <2>3. CASE OwnerGoes
    BY <2>1, <2>3 DEF OwnerSettles, OwnerGoes
  <2>4. CASE OwnerWakes
    BY <2>1, <2>4 DEF OwnerSettles, OwnerWakes
  <2> QED BY <2>1, <2>2, <2>3, <2>4 DEF OwnerSettles
<1>42. CASE LastRef
  <2>1. consumer.at = "lastRef" /\ UNCHANGED <<scheduled, tail, handing, canceller>>
    BY <1>42 DEF LastRef
  <2>2. CASE task.status = "CompletedFinalSuspended"
    <3>1. /\ task' = [task EXCEPT !.frees = @ + 1]
          /\ consumer' = [consumer EXCEPT !.at = "return"]
      BY <1>42, <2>2 DEF LastRef, Freed
    <3> QED BY <2>1, <2>2, <3>1
  <2>3. CASE task.status # "CompletedFinalSuspended"
    <3>1. /\ task' = [task EXCEPT !.cancelled = TRUE]
          /\ consumer' = [consumer EXCEPT !.at = "clear"]
      BY <1>42, <2>3 DEF LastRef
    <3> QED BY <2>1, <2>3, <3>1
  <2> QED BY <2>2, <2>3
<1>43. CASE ClearValue
  BY <1>43 DEF ClearValue, ConsumerGo, Done
<1>44. CASE Abandon
  <2>1. CASE task.status = "CompletedFinalSuspended"
    BY <1>44, <2>1 DEF Abandon, Freed, Turned, After, Asserted, Moves
  <2>2. CASE task.status \in {"NotStarted", "YieldedSuspended"}
    BY <1>44, <2>2 DEF Abandon, Freed, Turned, After, Asserted, Moves
  <2>3. CASE task.status \notin {"CompletedFinalSuspended", "NotStarted", "YieldedSuspended"}
    BY <1>44, <2>3 DEF Abandon, Freed, Turned, After, Asserted, Moves
  <2> QED BY <2>1, <2>2, <2>3
<1>45. CASE Recount
  BY <1>45 DEF Recount, ConsumerGo, onlyConsumer
<1>46. CASE Retire
  <2>1. RetiresLast
    BY <1>46, <1>c
  <2> QED BY <2>1 DEF RetiresLast
<1>47. CASE Restart
  BY <1>47 DEF Restart, ConsumerGo, Schedule
<1>48. CASE ConsumerReturn
  BY <1>48 DEF ConsumerReturn, onlyConsumer, Turned, After, Asserted, Moves
<1>49. CASE Cancel
  BY <1>49 DEF Cancel, CancelGo
<1>50. CASE CancelStatus
  BY <1>50 DEF CancelStatus, CancelGo
<1>51. CASE Pause
  BY <1>51 DEF Pause, CancelGo, Turned, After, Asserted, Moves
<1>52. CASE TakeAwaiter
  BY <1>52 DEF TakeAwaiter, CancelGo
<1>53. CASE Unblock
  BY <1>53 DEF Unblock, CancelGo, Schedule
<1>54. CASE CancelResumed
  BY <1>54 DEF CancelResumed, CancelGo, Turned, After, Asserted, Moves
<1>55. CASE UNCHANGED vars
  BY <1>55 DEF vars
<1> QED
  BY <1>1, <1>2, <1>3, <1>4, <1>5, <1>6, <1>7, <1>8, <1>9, <1>10, <1>11, <1>12, <1>13,
    <1>14, <1>15, <1>16, <1>17, <1>18, <1>19, <1>20, <1>21, <1>22, <1>23, <1>24, <1>25,
    <1>26, <1>27, <1>28, <1>29, <1>30, <1>31, <1>32, <1>33, <1>34, <1>35, <1>36, <1>37,
    <1>38, <1>39, <1>40, <1>41, <1>42, <1>43, <1>44, <1>45, <1>46, <1>47, <1>48, <1>49,
    <1>50, <1>51, <1>52, <1>53, <1>54, <1>55
    DEF Next, TaskStep, FinisherStep, TailStep, ConsumerStep, CancelStep

\* Every step keeps what is said of the consumer and of its cancel().
LEMMA ConsumerKept ==
    ASSUME Shape, Typed, Typed', Bounded, TaskStatus, GivenUp, Counted, ConsumerStatus,
           Cancelling, TaskWaits, OneResumes, YieldsInTurn, [Next]_vars
    PROVE  ConsumerStatus' /\ Cancelling'
<1>a. YieldSuspend => YieldsOver
  BY YieldsToConsumer
<1>b. FinalReady => EndsAlone \/ GoesToSuspend
  BY FinalEndsAlone
<1>c. Retire => RetiresLast
  BY RetireIsLast
<1>d. OwnerCountDown => OwnerSettles
  BY OwnerIsSettled
<1>e. HandBack => HandsBack
  BY DEF HandBack, HandsBack, Schedule
<1>f. FinisherSet /\ task.status = "AbandonedFinalSuspended" => FinisherFrees
  BY FinisherDestroys
<1> USE DEF Shape, TaskFields, ConsumerFields, ScheduledFields, Typed, TaskPlaces,
    ConsumerPlaces, ConsumerStatus, Cancelling, TaskWaits, Turn, Owes, Count, Going,
    Yielding, Ending, Uncounted, Before, Leaving, Gone, Deserted
<1>1. CASE ResumeTask
  BY <1>1 DEF ResumeTask, Resume
<1>2. CASE TaskResume
  BY <1>2 DEF TaskResume, onlyTask, Turned, After, Asserted, Moves
<1>3. CASE TaskCheck
  BY <1>3 DEF TaskCheck, TaskGo, onlyTask
<1>4. CASE Spawn
  BY <1>4 DEF Spawn, onlyTask
<1>5. CASE YieldValue
  BY <1>5 DEF YieldValue, onlyTask, Turned, After, Asserted, Moves
<1>6. CASE CopyContinuation
  BY <1>6 DEF CopyContinuation, onlyTask
<1>7. CASE YieldReady
  BY <1>7 DEF YieldReady, TaskGo, onlyTask
<1>8. CASE YieldReadCancelled
  BY <1>8 DEF YieldReadCancelled, onlyTask
<1>9. CASE YieldSuspend
  <2>1. YieldsOver
    BY <1>9, <1>a
  <2> QED BY <2>1 DEF YieldsOver
<1>10. CASE ReturnValue
  BY <1>10 DEF ReturnValue, onlyTask, Turned, After, Asserted, Moves
<1>11. CASE FinalSuspend
  BY <1>11 DEF FinalSuspend, onlyTask
<1>12. CASE FinalCount
  BY <1>12 DEF FinalCount, TaskGo, onlyTask
<1>13. CASE SetCompleted
  BY <1>13 DEF SetCompleted, onlyTask, Turned, After, Asserted, Moves
<1>14. CASE DeferCompletion
  BY <1>14 DEF DeferCompletion, onlyTask
<1>15. CASE CompletionCountDown
  BY <1>15 DEF CompletionCountDown, onlyTask, CountedDown
<1>16. CASE SignalOwner
  BY <1>16 DEF SignalOwner, onlyTask
<1>17. CASE FinalReady
  <2>1. EndsAlone \/ GoesToSuspend
    BY <1>17, <1>b
  <2>2. CASE EndsAlone
    <3>1. handing' \in BOOLEAN
      BY <2>2 DEF EndsAlone
    <3> QED BY <2>2, <3>1 DEF EndsAlone
  <2>3. CASE GoesToSuspend
    BY <2>3 DEF GoesToSuspend
  <2> QED BY <2>1, <2>2, <2>3
<1>18. CASE FinalAwaitSuspend
  <2>1. CASE task.status = "AbandonedCompleted"
    BY <1>18, <2>1 DEF FinalAwaitSuspend, Freed, Turned, After, Asserted, Moves
  <2>2. CASE task.status # "AbandonedCompleted"
    BY <1>18, <2>2 DEF FinalAwaitSuspend, Freed, Turned, After, Asserted, Moves
  <2> QED BY <2>1, <2>2
<1>19. CASE ChildDone
  BY <1>19 DEF ChildDone, onlyTask, CountedDown
<1>20. CASE FinisherSignal
  BY <1>20 DEF FinisherSignal, onlyTask
<1>21. CASE FinisherSet
  <2>1. CASE task.status = "AbandonedFinalSuspended"
    <3>1. FinisherFrees
      BY <1>21, <2>1, <1>f
    <3> QED BY <2>1, <3>1 DEF FinisherFrees
  <2>2. CASE task.status # "AbandonedFinalSuspended"
    BY <1>21, <2>2 DEF FinisherSet, onlyTask, Freed, Turned, After, Asserted, Moves
  <2> QED BY <2>1, <2>2
<1>22. CASE HandBack
  <2>1. HandsBack
    BY <1>22, <1>e
  <2>2. handing' \in BOOLEAN
    BY <2>1 DEF HandsBack
  <2> QED BY <2>1, <2>2 DEF HandsBack
<1>23. CASE MarkBlocked
  BY <1>23 DEF MarkBlocked
<1>24. CASE StartTask
  BY <1>24 DEF StartTask, Schedule
<1>25. CASE Await
  BY <1>25 DEF Await, onlyConsumer, Done
<1>26. CASE AwaitReady
  BY <1>26 DEF AwaitReady, onlyConsumer, Done
<1>27. CASE ReadCancelled
  BY <1>27 DEF ReadCancelled, onlyConsumer
<1>28. CASE OnSuspend
  BY <1>28 DEF OnSuspend, onlyConsumer, Turned, After, Asserted, Moves
<1>29. CASE ClaimTask
  BY <1>29 DEF ClaimTask, Done
<1>30. CASE StoreContinuation
  BY <1>30 DEF StoreContinuation, ConsumerGo
<1>31. CASE ResumeConsumer
  BY <1>31 DEF ResumeConsumer, ConsumerGo, Resume
<1>32. CASE AwaitResume
  BY <1>32 DEF AwaitResume, ConsumerGo
<1>33. CASE RemoveAwaiter
  BY <1>33 DEF RemoveAwaiter, onlyConsumer
<1>34. CASE SetRunning
  BY <1>34 DEF SetRunning, onlyConsumer, Turned, After, Asserted, Moves
<1>35. CASE AwaitUnpaused
  BY <1>35 DEF AwaitUnpaused, ConsumerGo, onlyConsumer
<1>36. CASE CheckCancelled
  BY <1>36 DEF CheckCancelled, onlyConsumer
<1>37. CASE TakeValue
  BY <1>37 DEF TakeValue, onlyConsumer, Done
<1>38. CASE CancelTask
  BY <1>38 DEF CancelTask
<1>39. CASE OwnerCountUp
  BY <1>39 DEF OwnerCountUp
<1>40. CASE ExchangeOwner
  BY <1>40 DEF ExchangeOwner, ConsumerGo
<1>41. CASE OwnerCountDown
  <2>1. OwnerSettles
    BY <1>41, <1>d
  <2>2. CASE OwnerStays
    BY <2>1, <2>2 DEF OwnerSettles, OwnerStays
  <2>3. CASE OwnerGoes
    BY <2>1, <2>3 DEF OwnerSettles, OwnerGoes
  <2>4. CASE OwnerWakes
    BY <2>1, <2>4 DEF OwnerSettles, OwnerWakes
  <2> QED BY <2>1, <2>2, <2>3, <2>4 DEF OwnerSettles
<1>42. CASE LastRef
  <2>1. consumer.at = "lastRef" /\ UNCHANGED <<scheduled, tail, handing, canceller>>
    BY <1>42 DEF LastRef
  <2>2. CASE task.status = "CompletedFinalSuspended"
    <3>1. /\ task' = [task EXCEPT !.frees = @ + 1]
          /\ consumer' = [consumer EXCEPT !.at = "return"]
      BY <1>42, <2>2 DEF LastRef, Freed
    <3> QED BY <2>1, <2>2, <3>1
  <2>3. CASE task.status # "CompletedFinalSuspended"
    <3>1. /\ task' = [task EXCEPT !.cancelled = TRUE]
          /\ consumer' = [consumer EXCEPT !.at = "clear"]
      BY <1>42, <2>3 DEF LastRef
    <3> QED BY <2>1, <2>3, <3>1
  <2> QED BY <2>2, <2>3
<1>43. CASE ClearValue
  BY <1>43 DEF ClearValue, ConsumerGo, Done
<1>44. CASE Abandon
  <2>1. CASE task.status = "CompletedFinalSuspended"
    BY <1>44, <2>1 DEF Abandon, Freed, Turned, After, Asserted, Moves
  <2>2. CASE task.status \in {"NotStarted", "YieldedSuspended"}
    BY <1>44, <2>2 DEF Abandon, Freed, Turned, After, Asserted, Moves
  <2>3. CASE task.status \notin {"CompletedFinalSuspended", "NotStarted", "YieldedSuspended"}
    BY <1>44, <2>3 DEF Abandon, Freed, Turned, After, Asserted, Moves
  <2> QED BY <2>1, <2>2, <2>3
<1>45. CASE Recount
  BY <1>45 DEF Recount, ConsumerGo, onlyConsumer
<1>46. CASE Retire
  <2>1. RetiresLast
    BY <1>46, <1>c
  <2> QED BY <2>1 DEF RetiresLast
<1>47. CASE Restart
  BY <1>47 DEF Restart, ConsumerGo, Schedule
<1>48. CASE ConsumerReturn
  BY <1>48 DEF ConsumerReturn, onlyConsumer, Turned, After, Asserted, Moves
<1>49. CASE Cancel
  BY <1>49 DEF Cancel, CancelGo
<1>50. CASE CancelStatus
  BY <1>50 DEF CancelStatus, CancelGo
<1>51. CASE Pause
  BY <1>51 DEF Pause, CancelGo, Turned, After, Asserted, Moves
<1>52. CASE TakeAwaiter
  BY <1>52 DEF TakeAwaiter, CancelGo
<1>53. CASE Unblock
  BY <1>53 DEF Unblock, CancelGo, Schedule
<1>54. CASE CancelResumed
  BY <1>54 DEF CancelResumed, CancelGo, Turned, After, Asserted, Moves
<1>55. CASE UNCHANGED vars
  BY <1>55 DEF vars
<1> QED
  BY <1>1, <1>2, <1>3, <1>4, <1>5, <1>6, <1>7, <1>8, <1>9, <1>10, <1>11, <1>12, <1>13,
    <1>14, <1>15, <1>16, <1>17, <1>18, <1>19, <1>20, <1>21, <1>22, <1>23, <1>24, <1>25,
    <1>26, <1>27, <1>28, <1>29, <1>30, <1>31, <1>32, <1>33, <1>34, <1>35, <1>36, <1>37,
    <1>38, <1>39, <1>40, <1>41, <1>42, <1>43, <1>44, <1>45, <1>46, <1>47, <1>48, <1>49,
    <1>50, <1>51, <1>52, <1>53, <1>54, <1>55
    DEF Next, TaskStep, FinisherStep, TailStep, ConsumerStep, CancelStep

\* Every step keeps the status that goes with the place of the task, before and after it
\* is given up.
LEMMA StatusKept ==
    ASSUME Shape, Typed, Typed', Bounded, TaskStatus, GivenUp, Counted, ConsumerStatus,
           Cancelling, TaskWaits, OneResumes, YieldsInTurn, FreedLast, [Next]_vars
    PROVE  TaskStatus' /\ GivenUp'
<1>a. YieldSuspend => YieldsOver
  BY YieldsToConsumer
<1>b. FinalReady => EndsAlone \/ GoesToSuspend
  BY FinalEndsAlone
<1>c. Retire => RetiresLast
  BY RetireIsLast
<1>d. OwnerCountDown => OwnerSettles
  BY OwnerIsSettled
<1>e. HandBack => HandsBack
  BY DEF HandBack, HandsBack, Schedule
<1>f. FinisherSet /\ task.status = "AbandonedFinalSuspended" => FinisherFrees
  BY FinisherDestroys
<1> USE DEF Shape, TaskFields, ConsumerFields, ScheduledFields, Typed, TaskPlaces,
    ConsumerPlaces, Bounded, TaskStatus, GivenUp, Counted, ConsumerStatus, Cancelling,
    TaskWaits, YieldsInTurn, FreedLast, Turn, Owes, Count, Going, Yielding, Ending,
    Uncounted, Before, Leaving, Gone, Deserted
<1>1. CASE ResumeTask
  BY <1>1 DEF ResumeTask, Resume
<1>2. CASE TaskResume
  BY <1>2 DEF TaskResume, onlyTask, Turned, After, Asserted, Moves
<1>3. CASE TaskCheck
  BY <1>3 DEF TaskCheck, TaskGo, onlyTask
<1>4. CASE Spawn
  BY <1>4 DEF Spawn, onlyTask
<1>5. CASE YieldValue
  BY SMTT(60), <1>5 DEF YieldValue, onlyTask, Turned, After, Asserted, Moves
<1>6. CASE CopyContinuation
  BY <1>6 DEF CopyContinuation, onlyTask
<1>7. CASE YieldReady
  BY <1>7 DEF YieldReady, TaskGo, onlyTask
<1>8. CASE YieldReadCancelled
  BY <1>8 DEF YieldReadCancelled, onlyTask
<1>9. CASE YieldSuspend
  <2>1. YieldsOver
    BY <1>9, <1>a
  <2> QED BY <2>1 DEF YieldsOver
<1>10. CASE ReturnValue
  BY SMTT(60), <1>10 DEF ReturnValue, onlyTask, Turned, After, Asserted, Moves
<1>11. CASE FinalSuspend
  BY <1>11 DEF FinalSuspend, onlyTask
<1>12. CASE FinalCount
  BY <1>12 DEF FinalCount, TaskGo, onlyTask
<1>13. CASE SetCompleted
  BY <1>13 DEF SetCompleted, onlyTask, Turned, After, Asserted, Moves
<1>14. CASE DeferCompletion
  BY <1>14 DEF DeferCompletion, onlyTask
<1>15. CASE CompletionCountDown
  BY <1>15 DEF CompletionCountDown, onlyTask, CountedDown
<1>16. CASE SignalOwner
  BY <1>16 DEF SignalOwner, onlyTask
<1>17. CASE FinalReady
  <2>1. EndsAlone \/ GoesToSuspend
    BY <1>17, <1>b
  <2>2. CASE EndsAlone
    <3>1. handing' \in BOOLEAN
      BY <2>2 DEF EndsAlone
    <3> QED BY <2>2, <3>1 DEF EndsAlone
  <2>3. CASE GoesToSuspend
    BY <2>3 DEF GoesToSuspend
  <2> QED BY <2>1, <2>2, <2>3
<1>18. CASE FinalAwaitSuspend
  <2>1. CASE task.status = "AbandonedCompleted"
    BY <1>18, <2>1 DEF FinalAwaitSuspend, Freed, Turned, After, Asserted, Moves
  <2>2. CASE task.status # "AbandonedCompleted"
    BY <1>18, <2>2 DEF FinalAwaitSuspend, Freed, Turned, After, Asserted, Moves
  <2> QED BY <2>1, <2>2
<1>19. CASE ChildDone
  BY <1>19 DEF ChildDone, onlyTask, CountedDown
<1>20. CASE FinisherSignal
  BY <1>20 DEF FinisherSignal, onlyTask
<1>21. CASE FinisherSet
  <2>1. CASE task.status = "AbandonedFinalSuspended"
    <3>1. FinisherFrees
      BY <1>21, <2>1, <1>f
    <3> QED BY <2>1, <3>1 DEF FinisherFrees
  <2>2. CASE task.status # "AbandonedFinalSuspended"
    BY SMTT(60), <1>21, <2>2 DEF FinisherSet, onlyTask, Freed, Turned, After, Asserted, Moves
  <2> QED BY <2>1, <2>2
<1>22. CASE HandBack
  <2>1. HandsBack
    BY <1>22, <1>e
  <2>2. handing' \in BOOLEAN
    BY <2>1 DEF HandsBack
  <2> QED BY <2>1, <2>2 DEF HandsBack
<1>23. CASE MarkBlocked
  BY <1>23 DEF MarkBlocked
<1>24. CASE StartTask
  BY <1>24 DEF StartTask, Schedule
<1>25. CASE Await
  BY <1>25 DEF Await, onlyConsumer, Done
<1>26. CASE AwaitReady
  BY <1>26 DEF AwaitReady, onlyConsumer, Done
<1>27. CASE ReadCancelled
  BY <1>27 DEF ReadCancelled, onlyConsumer
<1>28. CASE OnSuspend
  BY <1>28 DEF OnSuspend, onlyConsumer, Turned, After, Asserted, Moves
<1>29. CASE ClaimTask
  BY <1>29 DEF ClaimTask, Done
<1>30. CASE StoreContinuation
  BY <1>30 DEF StoreContinuation, ConsumerGo
<1>31. CASE ResumeConsumer
  BY <1>31 DEF ResumeConsumer, ConsumerGo, Resume
<1>32. CASE AwaitResume
  BY <1>32 DEF AwaitResume, ConsumerGo
<1>33. CASE RemoveAwaiter
  BY <1>33 DEF RemoveAwaiter, onlyConsumer
<1>34. CASE SetRunning
  BY <1>34 DEF SetRunning, onlyConsumer, Turned, After, Asserted, Moves
<1>35. CASE AwaitUnpaused
  BY <1>35 DEF AwaitUnpaused, ConsumerGo, onlyConsumer
<1>36. CASE CheckCancelled
  BY <1>36 DEF CheckCancelled, onlyConsumer
<1>37. CASE TakeValue
  BY <1>37 DEF TakeValue, onlyConsumer, Done
<1>38. CASE CancelTask
  BY <1>38 DEF CancelTask
<1>39. CASE OwnerCountUp
  BY <1>39 DEF OwnerCountUp
<1>40. CASE ExchangeOwner
  BY <1>40 DEF ExchangeOwner, ConsumerGo
<1>41. CASE OwnerCountDown
  <2>1. OwnerSettles
    BY <1>41, <1>d
  <2>2. CASE OwnerStays
    BY <2>1, <2>2 DEF OwnerSettles, OwnerStays
  <2>3. CASE OwnerGoes
    BY <2>1, <2>3 DEF OwnerSettles, OwnerGoes
  <2>4. CASE OwnerWakes
    BY <2>1, <2>4 DEF OwnerSettles, OwnerWakes
  <2> QED BY <2>1, <2>2, <2>3, <2>4 DEF OwnerSettles
<1>42. CASE LastRef
  <2>1. consumer.at = "lastRef" /\ UNCHANGED <<scheduled, tail, handing, canceller>>
    BY <1>42 DEF LastRef
  <2>2. CASE task.status = "CompletedFinalSuspended"
    <3>1. /\ task' = [task EXCEPT !.frees = @ + 1]
          /\ consumer' = [consumer EXCEPT !.at = "return"]
      BY <1>42, <2>2 DEF LastRef, Freed
    <3> QED BY <2>1, <2>2, <3>1
  <2>3. CASE task.status # "CompletedFinalSuspended"
    <3>1. /\ task' = [task EXCEPT !.cancelled = TRUE]
          /\ consumer' = [consumer EXCEPT !.at = "clear"]
      BY <1>42, <2>3 DEF LastRef
    <3> QED BY <2>1, <2>3, <3>1
  <2> QED BY <2>2, <2>3
<1>43. CASE ClearValue
  BY <1>43 DEF ClearValue, ConsumerGo, Done
<1>44. CASE Abandon
  <2>1. CASE task.status = "CompletedFinalSuspended"
    BY <1>44, <2>1 DEF Abandon, Freed, Turned, After, Asserted, Moves
  <2>2. CASE task.status \in {"NotStarted", "YieldedSuspended"}
    BY <1>44, <2>2 DEF Abandon, Freed, Turned, After, Asserted, Moves
  <2>3. CASE task.status \notin {"CompletedFinalSuspended", "NotStarted", "YieldedSuspended"}
    BY <1>44, <2>3 DEF Abandon, Freed, Turned, After, Asserted, Moves
  <2> QED BY <2>1, <2>2, <2>3
<1>45. CASE Recount
  BY <1>45 DEF Recount, ConsumerGo, onlyConsumer
<1>46. CASE Retire
  <2>1. RetiresLast
    BY <1>46, <1>c
  <2> QED BY <2>1 DEF RetiresLast
<1>47. CASE Restart
  BY <1>47 DEF Restart, ConsumerGo, Schedule
<1>48. CASE ConsumerReturn
  BY <1>48 DEF ConsumerReturn, onlyConsumer, Turned, After, Asserted, Moves
<1>49. CASE Cancel
  BY <1>49 DEF Cancel, CancelGo
<1>50. CASE CancelStatus
  BY <1>50 DEF CancelStatus, CancelGo
<1>51. CASE Pause
  BY <1>51 DEF Pause, CancelGo, Turned, After, Asserted, Moves
<1>52. CASE TakeAwaiter
  BY <1>52 DEF TakeAwaiter, CancelGo
<1>53. CASE Unblock
  BY <1>53 DEF Unblock, CancelGo, Schedule
<1>54. CASE CancelResumed
  BY <1>54 DEF CancelResumed, CancelGo, Turned, After, Asserted, Moves
<1>55. CASE UNCHANGED vars
  BY <1>55 DEF vars
<1> QED
  BY <1>1, <1>2, <1>3, <1>4, <1>5, <1>6, <1>7, <1>8, <1>9, <1>10, <1>11, <1>12, <1>13,
    <1>14, <1>15, <1>16, <1>17, <1>18, <1>19, <1>20, <1>21, <1>22, <1>23, <1>24, <1>25,
    <1>26, <1>27, <1>28, <1>29, <1>30, <1>31, <1>32, <1>33, <1>34, <1>35, <1>36, <1>37,
    <1>38, <1>39, <1>40, <1>41, <1>42, <1>43, <1>44, <1>45, <1>46, <1>47, <1>48, <1>49,
    <1>50, <1>51, <1>52, <1>53, <1>54, <1>55
    DEF Next, TaskStep, FinisherStep, TailStep, ConsumerStep, CancelStep

\* Every step keeps the counts, and nobody destroys a frame that is in use.
LEMMA CountsKept ==
    ASSUME Shape, Typed, Typed', Bounded, TaskStatus, GivenUp, Counted, ConsumerStatus,
           Cancelling, TaskWaits, OneResumes, YieldsInTurn, FreedLast, [Next]_vars
    PROVE  Bounded' /\ Counted' /\ FreedLast'
<1>a. YieldSuspend => YieldsOver
  BY YieldsToConsumer
<1>b. FinalReady => EndsAlone \/ GoesToSuspend
  BY FinalEndsAlone
<1>c. Retire => RetiresLast
  BY RetireIsLast
<1>d. OwnerCountDown => OwnerSettles
  BY OwnerIsSettled
<1>e. HandBack => HandsBack
  BY DEF HandBack, HandsBack, Schedule
<1>f. FinisherSet /\ task.status = "AbandonedFinalSuspended" => FinisherFrees
  BY FinisherDestroys
<1> USE DEF Shape, TaskFields, ConsumerFields, ScheduledFields, Typed, TaskPlaces,
    ConsumerPlaces, Bounded, TaskStatus, GivenUp, Counted, ConsumerStatus, Cancelling,
    TaskWaits, FreedLast, Turn, Owes, Count, Going, Yielding, Ending, Uncounted, Before,
    Leaving, Gone, Deserted
<1> USE BoundAssumption
<1>1. CASE ResumeTask
  BY <1>1 DEF ResumeTask, Resume
<1>2. CASE TaskResume
  BY <1>2 DEF TaskResume, onlyTask, Turned, After, Asserted, Moves
<1>3. CASE TaskCheck
  BY <1>3 DEF TaskCheck, TaskGo, onlyTask
<1>4. CASE Spawn
  BY <1>4 DEF Spawn, onlyTask
<1>5. CASE YieldValue
  BY <1>5 DEF YieldValue, onlyTask, Turned, After, Asserted, Moves
<1>6. CASE CopyContinuation
  BY <1>6 DEF CopyContinuation, onlyTask
<1>7. CASE YieldReady
  BY <1>7 DEF YieldReady, TaskGo, onlyTask
<1>8. CASE YieldReadCancelled
  BY <1>8 DEF YieldReadCancelled, onlyTask
<1>9. CASE YieldSuspend
  <2>1. YieldsOver
    BY <1>9, <1>a
  <2> QED BY <2>1 DEF YieldsOver
<1>10. CASE ReturnValue
  BY <1>10 DEF ReturnValue, onlyTask, Turned, After, Asserted, Moves
<1>11. CASE FinalSuspend
  BY <1>11 DEF FinalSuspend, onlyTask
<1>12. CASE FinalCount
  BY <1>12 DEF FinalCount, TaskGo, onlyTask
<1>13. CASE SetCompleted
  BY <1>13 DEF SetCompleted, onlyTask, Turned, After, Asserted, Moves
<1>14. CASE DeferCompletion
  BY <1>14 DEF DeferCompletion, onlyTask
<1>15. CASE CompletionCountDown
  BY <1>15 DEF CompletionCountDown, onlyTask, CountedDown
<1>16. CASE SignalOwner
  BY <1>16 DEF SignalOwner, onlyTask
<1>17. CASE FinalReady
  <2>1. EndsAlone \/ GoesToSuspend
    BY <1>17, <1>b
  <2>2. CASE EndsAlone
    <3>1. handing' \in BOOLEAN
      BY <2>2 DEF EndsAlone
    <3> QED BY <2>2, <3>1 DEF EndsAlone
  <2>3. CASE GoesToSuspend
    BY <2>3 DEF GoesToSuspend
  <2> QED BY <2>1, <2>2, <2>3
<1>18. CASE FinalAwaitSuspend
  <2>1. CASE task.status = "AbandonedCompleted"
    BY <1>18, <2>1 DEF FinalAwaitSuspend, Freed, Turned, After, Asserted, Moves
  <2>2. CASE task.status # "AbandonedCompleted"
    BY <1>18, <2>2 DEF FinalAwaitSuspend, Freed, Turned, After, Asserted, Moves
  <2> QED BY <2>1, <2>2
<1>19. CASE ChildDone
  BY <1>19 DEF ChildDone, onlyTask, CountedDown
<1>20. CASE FinisherSignal
  BY <1>20 DEF FinisherSignal, onlyTask
<1>21. CASE FinisherSet
  <2>1. CASE task.status = "AbandonedFinalSuspended"
    <3>1. FinisherFrees
      BY <1>21, <2>1, <1>f
    <3> QED BY <2>1, <3>1 DEF FinisherFrees
  <2>2. CASE task.status # "AbandonedFinalSuspended"
    BY <1>21, <2>2 DEF FinisherSet, onlyTask, Freed, Turned, After, Asserted, Moves
  <2> QED BY <2>1, <2>2
<1>22. CASE HandBack
  <2>1. HandsBack
    BY <1>22, <1>e
  <2>2. handing' \in BOOLEAN
    BY <2>1 DEF HandsBack
  <2> QED BY <2>1, <2>2 DEF HandsBack
<1>23. CASE MarkBlocked
  BY <1>23 DEF MarkBlocked
<1>24. CASE StartTask
  BY <1>24 DEF StartTask, Schedule
<1>25. CASE Await
  BY <1>25 DEF Await, onlyConsumer, Done
<1>26. CASE AwaitReady
  BY <1>26 DEF AwaitReady, onlyConsumer, Done
<1>27. CASE ReadCancelled
  BY <1>27 DEF ReadCancelled, onlyConsumer
<1>28. CASE OnSuspend
  BY <1>28 DEF OnSuspend, onlyConsumer, Turned, After, Asserted, Moves
<1>29. CASE ClaimTask
  BY <1>29 DEF ClaimTask, Done
<1>30. CASE StoreContinuation
  BY <1>30 DEF StoreContinuation, ConsumerGo
<1>31. CASE ResumeConsumer
  BY <1>31 DEF ResumeConsumer, ConsumerGo, Resume
<1>32. CASE AwaitResume
  BY <1>32 DEF AwaitResume, ConsumerGo
<1>33. CASE RemoveAwaiter
  BY <1>33 DEF RemoveAwaiter, onlyConsumer
<1>34. CASE SetRunning
  BY <1>34 DEF SetRunning, onlyConsumer, Turned, After, Asserted, Moves
<1>35. CASE AwaitUnpaused
  BY <1>35 DEF AwaitUnpaused, ConsumerGo, onlyConsumer
<1>36. CASE CheckCancelled
  BY <1>36 DEF CheckCancelled, onlyConsumer
<1>37. CASE TakeValue
  BY <1>37 DEF TakeValue, onlyConsumer, Done
<1>38. CASE CancelTask
  BY <1>38 DEF CancelTask
<1>39. CASE OwnerCountUp
  BY <1>39 DEF OwnerCountUp
<1>40. CASE ExchangeOwner
  BY <1>40 DEF ExchangeOwner, ConsumerGo
<1>41. CASE OwnerCountDown
  <2>1. OwnerSettles
    BY <1>41, <1>d
  <2>2. CASE OwnerStays
    BY <2>1, <2>2 DEF OwnerSettles, OwnerStays
  <2>3. CASE OwnerGoes
    BY <2>1, <2>3 DEF OwnerSettles, OwnerGoes
  <2>4. CASE OwnerWakes
    BY <2>1, <2>4 DEF OwnerSettles, OwnerWakes
  <2> QED BY <2>1, <2>2, <2>3, <2>4 DEF OwnerSettles
<1>42. CASE LastRef
  <2>1. consumer.at = "lastRef" /\ UNCHANGED <<scheduled, tail, handing, canceller>>
    BY <1>42 DEF LastRef
  <2>2. CASE task.status = "CompletedFinalSuspended"
    <3>1. /\ task' = [task EXCEPT !.frees = @ + 1]
          /\ consumer' = [consumer EXCEPT !.at = "return"]
      BY <1>42, <2>2 DEF LastRef, Freed
    <3> QED BY <2>1, <2>2, <3>1
  <2>3. CASE task.status # "CompletedFinalSuspended"
    <3>1. /\ task' = [task EXCEPT !.cancelled = TRUE]
          /\ consumer' = [consumer EXCEPT !.at = "clear"]
      BY <1>42, <2>3 DEF LastRef
    <3> QED BY <2>1, <2>3, <3>1
  <2> QED BY <2>2, <2>3
<1>43. CASE ClearValue
  BY <1>43 DEF ClearValue, ConsumerGo, Done
<1>44. CASE Abandon
  <2>1. CASE task.status = "CompletedFinalSuspended"
    BY <1>44, <2>1 DEF Abandon, Freed, Turned, After, Asserted, Moves
  <2>2. CASE task.status \in {"NotStarted", "YieldedSuspended"}
    BY <1>44, <2>2 DEF Abandon, Freed, Turned, After, Asserted, Moves
  <2>3. CASE task.status \notin {"CompletedFinalSuspended", "NotStarted", "YieldedSuspended"}
    BY <1>44, <2>3 DEF Abandon, Freed, Turned, After, Asserted, Moves
  <2> QED BY <2>1, <2>2, <2>3
<1>45. CASE Recount
  BY <1>45 DEF Recount, ConsumerGo, onlyConsumer
<1>46. CASE Retire
  <2>1. RetiresLast
    BY <1>46, <1>c
  <2> QED BY <2>1 DEF RetiresLast
<1>47. CASE Restart
  BY <1>47 DEF Restart, ConsumerGo, Schedule
<1>48. CASE ConsumerReturn
  BY <1>48 DEF ConsumerReturn, onlyConsumer, Turned, After, Asserted, Moves
<1>49. CASE Cancel
  BY <1>49 DEF Cancel, CancelGo
<1>50. CASE CancelStatus
  BY <1>50 DEF CancelStatus, CancelGo
<1>51. CASE Pause
  BY <1>51 DEF Pause, CancelGo, Turned, After, Asserted, Moves
<1>52. CASE TakeAwaiter
  BY <1>52 DEF TakeAwaiter, CancelGo
<1>53. CASE Unblock
  BY <1>53 DEF Unblock, CancelGo, Schedule
<1>54. CASE CancelResumed
  BY <1>54 DEF CancelResumed, CancelGo, Turned, After, Asserted, Moves
<1>55. CASE UNCHANGED vars
  BY <1>55 DEF vars
<1> QED
  BY <1>1, <1>2, <1>3, <1>4, <1>5, <1>6, <1>7, <1>8, <1>9, <1>10, <1>11, <1>12, <1>13,
    <1>14, <1>15, <1>16, <1>17, <1>18, <1>19, <1>20, <1>21, <1>22, <1>23, <1>24, <1>25,
    <1>26, <1>27, <1>28, <1>29, <1>30, <1>31, <1>32, <1>33, <1>34, <1>35, <1>36, <1>37,
    <1>38, <1>39, <1>40, <1>41, <1>42, <1>43, <1>44, <1>45, <1>46, <1>47, <1>48, <1>49,
    <1>50, <1>51, <1>52, <1>53, <1>54, <1>55
    DEF Next, TaskStep, FinisherStep, TailStep, ConsumerStep, CancelStep

\* Every step keeps whose turn it is, and who is going to resume the consumer.
LEMMA TurnKept ==
    ASSUME Shape, Typed, Typed', Bounded, TaskStatus, GivenUp, Counted, ConsumerStatus,
           Cancelling, TaskWaits, OneResumes, YieldsInTurn, Answers, FreedLast,
           [Next]_vars
    PROVE  TaskWaits' /\ OneResumes'
<1>a. YieldSuspend => YieldsOver
  BY YieldsToConsumer
<1>b. FinalReady => EndsAlone \/ GoesToSuspend
  BY FinalEndsAlone
<1>c. Retire => RetiresLast
  BY RetireIsLast
<1>d. OwnerCountDown => OwnerSettles
  BY OwnerIsSettled
<1>e. HandBack => HandsBack
  BY DEF HandBack, HandsBack, Schedule
<1>f. FinisherSet /\ task.status = "AbandonedFinalSuspended" => FinisherFrees
  BY FinisherDestroys
<1> USE DEF Shape, TaskFields, ConsumerFields, ScheduledFields, Typed, TaskPlaces,
    ConsumerPlaces, TaskStatus, GivenUp, Counted, ConsumerStatus, Cancelling, TaskWaits,
    OneResumes, YieldsInTurn, Answers, Answered, FreedLast, Turn, Owes, Count, Going,
    Yielding, Ending, Uncounted, Before, Leaving, Gone, Deserted
<1>1. CASE ResumeTask
  <2>1. /\ task.at \in {"start", "yielded"} /\ scheduled.task > 0
        /\ scheduled' = [scheduled EXCEPT !.task = @ - 1] /\ task' = [task EXCEPT !.at = "resume"]
        /\ UNCHANGED <<consumer, tail, handing, canceller>>
    BY <1>1 DEF ResumeTask, Resume
  <2>2. TaskWaits'
    BY <2>1
  <2>3. /\ task'.at = "resume" /\ task'.cont = task.cont /\ task'.kept = task.kept
        /\ scheduled'.consumer = scheduled.consumer
    BY <2>1
  <2>4. Turn /\ Turn' /\ (Owes <=> task.cont) /\ (Owes' <=> task.cont)
    BY SMTT(60), <2>1, <2>3
  <2>5. OneResumes'
    BY SMTT(60), <2>1, <2>3, <2>4
  <2> QED BY <2>2, <2>5
<1>2. CASE TaskResume
  BY <1>2 DEF TaskResume, onlyTask, Turned, After, Asserted, Moves
<1>3. CASE TaskCheck
  BY <1>3 DEF TaskCheck, TaskGo, onlyTask
<1>4. CASE Spawn
  BY <1>4 DEF Spawn, onlyTask
<1>5. CASE YieldValue
  BY <1>5 DEF YieldValue, onlyTask, Turned, After, Asserted, Moves
<1>6. CASE CopyContinuation
  BY <1>6 DEF CopyContinuation, onlyTask
<1>7. CASE YieldReady
  BY <1>7 DEF YieldReady, TaskGo, onlyTask
<1>8. CASE YieldReadCancelled
  BY <1>8 DEF YieldReadCancelled, onlyTask
<1>9. CASE YieldSuspend
  <2>1. YieldsOver
    BY <1>9, <1>a
  <2> QED BY <2>1 DEF YieldsOver
<1>10. CASE ReturnValue
  BY SMTT(60), <1>10 DEF ReturnValue, onlyTask, Turned, After, Asserted, Moves
<1>11. CASE FinalSuspend
  BY <1>11 DEF FinalSuspend, onlyTask
<1>12. CASE FinalCount
  BY <1>12 DEF FinalCount, TaskGo, onlyTask
<1>13. CASE SetCompleted
  BY <1>13 DEF SetCompleted, onlyTask, Turned, After, Asserted, Moves
<1>14. CASE DeferCompletion
  BY <1>14 DEF DeferCompletion, onlyTask
<1>15. CASE CompletionCountDown
  BY <1>15 DEF CompletionCountDown, onlyTask, CountedDown
<1>16. CASE SignalOwner
  BY <1>16 DEF SignalOwner, onlyTask
<1>17. CASE FinalReady
  <2>1. EndsAlone \/ GoesToSuspend
    BY <1>17, <1>b
  <2>2. CASE EndsAlone
    <3>1. handing' \in BOOLEAN
      BY <2>2 DEF EndsAlone
    <3> QED BY <2>2, <3>1 DEF EndsAlone
  <2>3. CASE GoesToSuspend
    BY <2>3 DEF GoesToSuspend
  <2> QED BY <2>1, <2>2, <2>3
<1>18. CASE FinalAwaitSuspend
  <2>1. CASE task.status = "AbandonedCompleted"
    BY <1>18, <2>1 DEF FinalAwaitSuspend, Freed, Turned, After, Asserted, Moves
  <2>2. CASE task.status # "AbandonedCompleted"
    BY <1>18, <2>2 DEF FinalAwaitSuspend, Freed, Turned, After, Asserted, Moves
  <2> QED BY <2>1, <2>2
<1>19. CASE ChildDone
  BY <1>19 DEF ChildDone, onlyTask, CountedDown
<1>20. CASE FinisherSignal
  BY <1>20 DEF FinisherSignal, onlyTask
<1>21. CASE FinisherSet
  <2>1. CASE task.status = "AbandonedFinalSuspended"
    <3>1. FinisherFrees
      BY <1>21, <2>1, <1>f
    <3>2. UNCHANGED <<Turn, Owes>>
      BY <3>1 DEF FinisherFrees
    <3>3. /\ task'.status = task.status /\ task'.at = task.at /\ task'.cont = task.cont
          /\ UNCHANGED <<consumer, scheduled, tail, handing, canceller>>
      BY <3>1 DEF FinisherFrees
    <3>4. TaskWaits'
      BY <2>1, <3>2, <3>3
    <3>5. OneResumes'
      BY <2>1, <3>2, <3>3
    <3> QED BY <3>4, <3>5
  <2>2. CASE task.status # "AbandonedFinalSuspended"
    BY SMTT(60), <1>21, <2>2 DEF FinisherSet, onlyTask, Freed, Turned, After, Asserted, Moves
  <2> QED BY <2>1, <2>2
<1>22. CASE HandBack
  <2>1. HandsBack
    BY <1>22, <1>e
  <2>2. handing' \in BOOLEAN
    BY <2>1 DEF HandsBack
  <2> QED BY <2>1, <2>2 DEF HandsBack
<1>23. CASE MarkBlocked
  BY <1>23 DEF MarkBlocked
<1>24. CASE StartTask
  BY <1>24 DEF StartTask, Schedule
<1>25. CASE Await
  BY <1>25 DEF Await, onlyConsumer, Done
<1>26. CASE AwaitReady
  BY <1>26 DEF AwaitReady, onlyConsumer, Done
<1>27. CASE ReadCancelled
  BY <1>27 DEF ReadCancelled, onlyConsumer
<1>28. CASE OnSuspend
  BY <1>28 DEF OnSuspend, onlyConsumer, Turned, After, Asserted, Moves
<1>29. CASE ClaimTask
  BY <1>29 DEF ClaimTask, Done
<1>30. CASE StoreContinuation
  BY <1>30 DEF StoreContinuation, ConsumerGo
<1>31. CASE ResumeConsumer
  BY <1>31 DEF ResumeConsumer, ConsumerGo, Resume
<1>32. CASE AwaitResume
  BY <1>32 DEF AwaitResume, ConsumerGo
<1>33. CASE RemoveAwaiter
  BY <1>33 DEF RemoveAwaiter, onlyConsumer
<1>34. CASE SetRunning
  BY <1>34 DEF SetRunning, onlyConsumer, Turned, After, Asserted, Moves
<1>35. CASE AwaitUnpaused
  BY <1>35 DEF AwaitUnpaused, ConsumerGo, onlyConsumer
<1>36. CASE CheckCancelled
  BY <1>36 DEF CheckCancelled, onlyConsumer
<1>37. CASE TakeValue
  BY <1>37 DEF TakeValue, onlyConsumer, Done
<1>38. CASE CancelTask
  BY <1>38 DEF CancelTask
<1>39. CASE OwnerCountUp
  BY <1>39 DEF OwnerCountUp
<1>40. CASE ExchangeOwner
  BY <1>40 DEF ExchangeOwner, ConsumerGo
<1>41. CASE OwnerCountDown
  <2>1. OwnerSettles
    BY <1>41, <1>d
  <2>2. CASE OwnerStays
    BY <2>1, <2>2 DEF OwnerSettles, OwnerStays
  <2>3. CASE OwnerGoes
    BY <2>1, <2>3 DEF OwnerSettles, OwnerGoes
  <2>4. CASE OwnerWakes
    BY <2>1, <2>4 DEF OwnerSettles, OwnerWakes
  <2> QED BY <2>1, <2>2, <2>3, <2>4 DEF OwnerSettles
<1>42. CASE LastRef
  <2>1. consumer.at = "lastRef" /\ UNCHANGED <<scheduled, tail, handing, canceller>>
    BY <1>42 DEF LastRef
  <2>2. CASE task.status = "CompletedFinalSuspended"
    <3>1. /\ task' = [task EXCEPT !.frees = @ + 1]
          /\ consumer' = [consumer EXCEPT !.at = "return"]
      BY <1>42, <2>2 DEF LastRef, Freed
    <3> QED BY <2>1, <2>2, <3>1
  <2>3. CASE task.status # "CompletedFinalSuspended"
    <3>1. /\ task' = [task EXCEPT !.cancelled = TRUE]
          /\ consumer' = [consumer EXCEPT !.at = "clear"]
      BY <1>42, <2>3 DEF LastRef
    <3> QED BY <2>1, <2>3, <3>1
  <2> QED BY <2>2, <2>3
<1>43. CASE ClearValue
  BY <1>43 DEF ClearValue, ConsumerGo, Done
<1>44. CASE Abandon
  <2>1. CASE task.status = "CompletedFinalSuspended"
    BY <1>44, <2>1 DEF Abandon, Freed, Turned, After, Asserted, Moves
  <2>2. CASE task.status \in {"NotStarted", "YieldedSuspended"}
    BY <1>44, <2>2 DEF Abandon, Freed, Turned, After, Asserted, Moves
  <2>3. CASE task.status \notin {"CompletedFinalSuspended", "NotStarted", "YieldedSuspended"}
    BY <1>44, <2>3 DEF Abandon, Freed, Turned, After, Asserted, Moves
  <2> QED BY <2>1, <2>2, <2>3
<1>45. CASE Recount
  BY <1>45 DEF Recount, ConsumerGo, onlyConsumer
<1>46. CASE Retire
  <2>1. RetiresLast
    BY <1>46, <1>c
  <2> QED BY <2>1 DEF RetiresLast
<1>47. CASE Restart
  BY <1>47 DEF Restart, ConsumerGo, Schedule
<1>48. CASE ConsumerReturn
  BY <1>48 DEF ConsumerReturn, onlyConsumer, Turned, After, Asserted, Moves
<1>49. CASE Cancel
  BY <1>49 DEF Cancel, CancelGo
<1>50. CASE CancelStatus
  BY <1>50 DEF CancelStatus, CancelGo
<1>51. CASE Pause
  BY <1>51 DEF Pause, CancelGo, Turned, After, Asserted, Moves
<1>52. CASE TakeAwaiter
  BY <1>52 DEF TakeAwaiter, CancelGo
<1>53. CASE Unblock
  BY <1>53 DEF Unblock, CancelGo, Schedule
<1>54. CASE CancelResumed
  BY <1>54 DEF CancelResumed, CancelGo, Turned, After, Asserted, Moves
<1>55. CASE UNCHANGED vars
  BY <1>55 DEF vars
<1> QED
  BY <1>1, <1>2, <1>3, <1>4, <1>5, <1>6, <1>7, <1>8, <1>9, <1>10, <1>11, <1>12, <1>13,
    <1>14, <1>15, <1>16, <1>17, <1>18, <1>19, <1>20, <1>21, <1>22, <1>23, <1>24, <1>25,
    <1>26, <1>27, <1>28, <1>29, <1>30, <1>31, <1>32, <1>33, <1>34, <1>35, <1>36, <1>37,
    <1>38, <1>39, <1>40, <1>41, <1>42, <1>43, <1>44, <1>45, <1>46, <1>47, <1>48, <1>49,
    <1>50, <1>51, <1>52, <1>53, <1>54, <1>55
    DEF Next, TaskStep, FinisherStep, TailStep, ConsumerStep, CancelStep

\* Every step keeps in order what is yielded, returned and taken.
LEMMA AnswersKept ==
    ASSUME Shape, Typed, Typed', Bounded, TaskStatus, GivenUp, Counted, ConsumerStatus,
           Cancelling, TaskWaits, OneResumes, YieldsInTurn, Answers, FreedLast,
           [Next]_vars
    PROVE  YieldsInTurn' /\ Answers'
<1>a. YieldSuspend => YieldsOver
  BY YieldsToConsumer
<1>b. FinalReady => EndsAlone \/ GoesToSuspend
  BY FinalEndsAlone
<1>c. Retire => RetiresLast
  BY RetireIsLast
<1>d. OwnerCountDown => OwnerSettles
  BY OwnerIsSettled
<1>e. HandBack => HandsBack
  BY DEF HandBack, HandsBack, Schedule
<1>f. FinisherSet /\ task.status = "AbandonedFinalSuspended" => FinisherFrees
  BY FinisherDestroys
<1> USE DEF Shape, TaskFields, ConsumerFields, ScheduledFields, Typed, TaskPlaces,
    ConsumerPlaces, Bounded, TaskStatus, GivenUp, Counted, ConsumerStatus, Cancelling,
    TaskWaits, OneResumes, YieldsInTurn, Answers, Answered, FreedLast, Turn, Owes,
    Count, Going, Yielding, Ending, Uncounted, Before, Leaving, Gone, Deserted
<1>1. CASE ResumeTask
  BY <1>1 DEF ResumeTask, Resume
<1>2. CASE TaskResume
  BY <1>2 DEF TaskResume, onlyTask, Turned, After, Asserted, Moves
<1>3. CASE TaskCheck
  BY <1>3 DEF TaskCheck, TaskGo, onlyTask
<1>4. CASE Spawn
  BY <1>4 DEF Spawn, onlyTask
<1>5. CASE YieldValue
  BY <1>5 DEF YieldValue, onlyTask, Turned, After, Asserted, Moves
<1>6. CASE CopyContinuation
  BY <1>6 DEF CopyContinuation, onlyTask
<1>7. CASE YieldReady
  BY <1>7 DEF YieldReady, TaskGo, onlyTask
<1>8. CASE YieldReadCancelled
  BY <1>8 DEF YieldReadCancelled, onlyTask
<1>9. CASE YieldSuspend
  <2>1. YieldsOver
    BY <1>9, <1>a
  <2> QED BY <2>1 DEF YieldsOver
<1>10. CASE ReturnValue
  BY <1>10 DEF ReturnValue, onlyTask, Turned, After, Asserted, Moves
<1>11. CASE FinalSuspend
  BY <1>11 DEF FinalSuspend, onlyTask
<1>12. CASE FinalCount
  BY <1>12 DEF FinalCount, TaskGo, onlyTask
<1>13. CASE SetCompleted
  BY <1>13 DEF SetCompleted, onlyTask, Turned, After, Asserted, Moves
<1>14. CASE DeferCompletion
  BY <1>14 DEF DeferCompletion, onlyTask
<1>15. CASE CompletionCountDown
  BY <1>15 DEF CompletionCountDown, onlyTask, CountedDown
<1>16. CASE SignalOwner
  BY <1>16 DEF SignalOwner, onlyTask
<1>17. CASE FinalReady
  <2>1. EndsAlone \/ GoesToSuspend
    BY <1>17, <1>b
  <2>2. CASE EndsAlone
    <3>1. handing' \in BOOLEAN
      BY <2>2 DEF EndsAlone
    <3> QED BY <2>2, <3>1 DEF EndsAlone
  <2>3. CASE GoesToSuspend
    BY <2>3 DEF GoesToSuspend
  <2> QED BY <2>1, <2>2, <2>3
<1>18. CASE FinalAwaitSuspend
  <2>1. CASE task.status = "AbandonedCompleted"
    BY <1>18, <2>1 DEF FinalAwaitSuspend, Freed, Turned, After, Asserted, Moves
  <2>2. CASE task.status # "AbandonedCompleted"
    BY <1>18, <2>2 DEF FinalAwaitSuspend, Freed, Turned, After, Asserted, Moves
  <2> QED BY <2>1, <2>2
<1>19. CASE ChildDone
  BY <1>19 DEF ChildDone, onlyTask, CountedDown
<1>20. CASE FinisherSignal
  BY <1>20 DEF FinisherSignal, onlyTask
<1>21. CASE FinisherSet
  <2>1. CASE task.status = "AbandonedFinalSuspended"
    <3>1. FinisherFrees
      BY <1>21, <2>1, <1>f
    <3> QED BY <2>1, <3>1 DEF FinisherFrees
  <2>2. CASE task.status # "AbandonedFinalSuspended"
    BY <1>21, <2>2 DEF FinisherSet, onlyTask, Freed, Turned, After, Asserted, Moves
  <2> QED BY <2>1, <2>2
<1>22. CASE HandBack
  <2>1. HandsBack
    BY <1>22, <1>e
  <2>2. handing' \in BOOLEAN
    BY <2>1 DEF HandsBack
  <2> QED BY <2>1, <2>2 DEF HandsBack
<1>23. CASE MarkBlocked
  BY <1>23 DEF MarkBlocked
<1>24. CASE StartTask
  BY <1>24 DEF StartTask, Schedule
<1>25. CASE Await
  BY <1>25 DEF Await, onlyConsumer, Done
<1>26. CASE AwaitReady
  BY <1>26 DEF AwaitReady, onlyConsumer, Done
<1>27. CASE ReadCancelled
  BY <1>27 DEF ReadCancelled, onlyConsumer
<1>28. CASE OnSuspend
  BY <1>28 DEF OnSuspend, onlyConsumer, Turned, After, Asserted, Moves
<1>29. CASE ClaimTask
  BY <1>29 DEF ClaimTask, Done
<1>30. CASE StoreContinuation
  BY <1>30 DEF StoreContinuation, ConsumerGo
<1>31. CASE ResumeConsumer
  BY <1>31 DEF ResumeConsumer, ConsumerGo, Resume
<1>32. CASE AwaitResume
  BY <1>32 DEF AwaitResume, ConsumerGo
<1>33. CASE RemoveAwaiter
  BY <1>33 DEF RemoveAwaiter, onlyConsumer
<1>34. CASE SetRunning
  BY <1>34 DEF SetRunning, onlyConsumer, Turned, After, Asserted, Moves
<1>35. CASE AwaitUnpaused
  BY <1>35 DEF AwaitUnpaused, ConsumerGo, onlyConsumer
<1>36. CASE CheckCancelled
  BY <1>36 DEF CheckCancelled, onlyConsumer
<1>37. CASE TakeValue
  BY <1>37 DEF TakeValue, onlyConsumer, Done
<1>38. CASE CancelTask
  BY <1>38 DEF CancelTask
<1>39. CASE OwnerCountUp
  BY <1>39 DEF OwnerCountUp
<1>40. CASE ExchangeOwner
  BY <1>40 DEF ExchangeOwner, ConsumerGo
<1>41. CASE OwnerCountDown
  <2>1. OwnerSettles
    BY <1>41, <1>d
  <2>2. CASE OwnerStays
    BY <2>1, <2>2 DEF OwnerSettles, OwnerStays
  <2>3. CASE OwnerGoes
    BY <2>1, <2>3 DEF OwnerSettles, OwnerGoes
  <2>4. CASE OwnerWakes
    BY <2>1, <2>4 DEF OwnerSettles, OwnerWakes
  <2> QED BY <2>1, <2>2, <2>3, <2>4 DEF OwnerSettles
<1>42. CASE LastRef
  <2>1. consumer.at = "lastRef" /\ UNCHANGED <<scheduled, tail, handing, canceller>>
    BY <1>42 DEF LastRef
  <2>2. CASE task.status = "CompletedFinalSuspended"
    <3>1. /\ task' = [task EXCEPT !.frees = @ + 1]
          /\ consumer' = [consumer EXCEPT !.at = "return"]
      BY <1>42, <2>2 DEF LastRef, Freed
    <3> QED BY <2>1, <2>2, <3>1
  <2>3. CASE task.status # "CompletedFinalSuspended"
    <3>1. /\ task' = [task EXCEPT !.cancelled = TRUE]
          /\ consumer' = [consumer EXCEPT !.at = "clear"]
      BY <1>42, <2>3 DEF LastRef
    <3> QED BY <2>1, <2>3, <3>1
  <2> QED BY <2>2, <2>3
<1>43. CASE ClearValue
  BY <1>43 DEF ClearValue, ConsumerGo, Done
<1>44. CASE Abandon
  <2>1. CASE task.status = "CompletedFinalSuspended"
    BY <1>44, <2>1 DEF Abandon, Freed, Turned, After, Asserted, Moves
  <2>2. CASE task.status \in {"NotStarted", "YieldedSuspended"}
    BY <1>44, <2>2 DEF Abandon, Freed, Turned, After, Asserted, Moves
  <2>3. CASE task.status \notin {"CompletedFinalSuspended", "NotStarted", "YieldedSuspended"}
    BY <1>44, <2>3 DEF Abandon, Freed, Turned, After, Asserted, Moves
  <2> QED BY <2>1, <2>2, <2>3
<1>45. CASE Recount
  BY <1>45 DEF Recount, ConsumerGo, onlyConsumer
<1>46. CASE Retire
  <2>1. RetiresLast
    BY <1>46, <1>c
  <2> QED BY <2>1 DEF RetiresLast
<1>47. CASE Restart
  BY <1>47 DEF Restart, ConsumerGo, Schedule
<1>48. CASE ConsumerReturn
  BY <1>48 DEF ConsumerReturn, onlyConsumer, Turned, After, Asserted, Moves
<1>49. CASE Cancel
  BY <1>49 DEF Cancel, CancelGo
<1>50. CASE CancelStatus
  BY <1>50 DEF CancelStatus, CancelGo
<1>51. CASE Pause
  BY <1>51 DEF Pause, CancelGo, Turned, After, Asserted, Moves
<1>52. CASE TakeAwaiter
  BY <1>52 DEF TakeAwaiter, CancelGo
<1>53. CASE Unblock
  BY <1>53 DEF Unblock, CancelGo, Schedule
<1>54. CASE CancelResumed
  BY <1>54 DEF CancelResumed, CancelGo, Turned, After, Asserted, Moves
<1>55. CASE UNCHANGED vars
  BY <1>55 DEF vars
<1> QED
  BY <1>1, <1>2, <1>3, <1>4, <1>5, <1>6, <1>7, <1>8, <1>9, <1>10, <1>11, <1>12, <1>13,
    <1>14, <1>15, <1>16, <1>17, <1>18, <1>19, <1>20, <1>21, <1>22, <1>23, <1>24, <1>25,
    <1>26, <1>27, <1>28, <1>29, <1>30, <1>31, <1>32, <1>33, <1>34, <1>35, <1>36, <1>37,
    <1>38, <1>39, <1>40, <1>41, <1>42, <1>43, <1>44, <1>45, <1>46, <1>47, <1>48, <1>49,
    <1>50, <1>51, <1>52, <1>53, <1>54, <1>55
    DEF Next, TaskStep, FinisherStep, TailStep, ConsumerStep, CancelStep

-----------------------------------------------------------------------------
(* The theorems *)

LEMMA GenInvInit ==
    ASSUME CancelGenerators = FALSE, Init
    PROVE  GenInv
<1> PICK limit \in 0 .. Yields :
        /\ task = [status |-> "NotStarted", cancelled |-> FALSE, cont |-> FALSE, value |-> "none",
                   completion |-> 1, owned |-> TRUE, at |-> "start", kept |-> FALSE, saw |-> FALSE,
                   limit |-> limit, made |-> 0, children |-> 0, spawned |-> 0,
                   finisher |-> "none", frees |-> 0]
        /\ canceller \in {"idle", "end"}
        /\ canceller = "idle" /\ limit > 0 => CancelGenerators
  BY DEF Init
<1>1. /\ consumer = [status |-> "Running", cancelled |-> FALSE, listed |-> FALSE,
                     blocked |-> FALSE, at |-> "body", saw |-> FALSE, awaits |-> 0, taken |-> 0]
      /\ scheduled = [task |-> 0, consumer |-> 0]
      /\ tail = "none" /\ handing = FALSE
  BY DEF Init
<1> USE <1>1, BoundAssumption, StatusesAre
<1>2. Shape
  BY DEF Shape, TaskFields, ConsumerFields, ScheduledFields
<1>3. Typed /\ Bounded
  <2>1. Typed
    <3>1. /\ task.completion \in Int /\ task.limit \in Int /\ task.made \in Int
          /\ task.children \in Int /\ task.spawned \in Int /\ task.frees \in Nat
          /\ consumer.awaits \in Int /\ consumer.taken \in Int
          /\ scheduled.task \in Int /\ scheduled.consumer \in Int
      OBVIOUS
    <3>2. /\ task.status \in Statuses /\ task.at \in TaskPlaces
          /\ consumer.status \in Statuses /\ consumer.at \in ConsumerPlaces
      BY DEF TaskPlaces, ConsumerPlaces
    <3>3. /\ task.value = "none" /\ task.finisher = "none"
          /\ task.cancelled = FALSE /\ task.cont = FALSE /\ task.owned = TRUE
          /\ task.kept = FALSE /\ task.saw = FALSE
      OBVIOUS
    <3>4. /\ consumer.cancelled = FALSE /\ consumer.listed = FALSE
          /\ consumer.blocked = FALSE /\ consumer.saw = FALSE
      OBVIOUS
    <3> QED BY <3>1, <3>2, <3>3, <3>4 DEF Typed
  <2>2. Bounded
    BY DEF Bounded, Count, Ending
  <2> QED BY <2>1, <2>2
<1>4. TaskStatus /\ GivenUp /\ Counted
  BY DEF TaskStatus, GivenUp, Counted, Count, Going, Yielding, Uncounted, Gone, Leaving, Deserted
<1>5. ConsumerStatus /\ Cancelling
  BY DEF ConsumerStatus, ConsumerPlaces, Cancelling
<1>6. TaskWaits /\ OneResumes
  BY DEF TaskWaits, OneResumes, Turn, Owes, Count, Before, Ending
<1>7. YieldsInTurn /\ Answers /\ FreedLast
  BY DEF YieldsInTurn, Answers, FreedLast, Turn, Going, Yielding, Ending
<1> QED BY <1>2, <1>3, <1>4, <1>5, <1>6, <1>7 DEF GenInv

LEMMA GenInvStep ==
    ASSUME GenInv, [Next]_vars
    PROVE  GenInv'
<1> USE DEF GenInv
<1>1. Shape'
  BY ShapeKept
<1>2. Typed'
  BY TypesKept
<1>3. ConsumerStatus' /\ Cancelling'
  BY <1>2, ConsumerKept
<1>4. TaskStatus' /\ GivenUp'
  BY <1>2, StatusKept
<1>5. Bounded' /\ Counted' /\ FreedLast'
  BY <1>2, CountsKept
<1>6. TaskWaits' /\ OneResumes'
  BY <1>2, TurnKept
<1>7. YieldsInTurn' /\ Answers'
  BY <1>2, AnswersKept
<1> QED BY <1>1, <1>2, <1>3, <1>4, <1>5, <1>6, <1>7

\* The invariant holds of every task that does not yield, or whose consumer is not cancelled.
THEOREM GeneratorInvariant ==
    ASSUME CancelGenerators = FALSE
    PROVE  Spec => []GenInv
<1>1. Init => GenInv
  BY GenInvInit
<1>2. GenInv /\ [Next]_vars => GenInv'
  BY GenInvStep
<1> QED BY <1>1, <1>2, PTL DEF Spec

\* No assertion fails and no status is met that setStatus() aborts on (coroutine.cpp,
\* task_awaiter.hpp), in whatever order the task yields, ends and is given up.
THEOREM GeneratorTypes ==
    ASSUME CancelGenerators = FALSE
    PROVE  Spec => []TypeOK
<1>1. GenInv => TypeOK
  <2> SUFFICES ASSUME GenInv PROVE TypeOK
    OBVIOUS
  <2>1. Shape /\ Typed /\ Bounded /\ Counted /\ Answers /\ FreedLast /\ TaskWaits /\ OneResumes
    BY DEF GenInv
  <2>2. /\ task.completion \in 0 .. Children + 2 /\ task.limit \in 0 .. Yields
        /\ task.made \in 0 .. Yields + 1 /\ task.children \in 0 .. Children
        /\ task.spawned \in 0 .. Children /\ task.frees \in 0 .. 1
        /\ consumer.awaits \in 0 .. Awaits /\ consumer.taken \in 0 .. Yields + 1
    BY <2>1, BoundAssumption DEF Typed, Bounded, Counted, Answers, FreedLast, Count
  <2>3. scheduled.task \in 0 .. 1 /\ scheduled.consumer \in 0 .. 1
    <3>1. scheduled.task \in Int /\ scheduled.consumer \in Int
      BY <2>1 DEF Typed
    <3>2. scheduled.task >= 0 /\ scheduled.consumer >= 0
      BY <2>1 DEF TaskWaits, OneResumes
    <3>3. scheduled.task <= 1
      BY <2>1, <3>1 DEF TaskWaits, Count
    <3>4. scheduled.consumer <= 1
      BY <2>1, <3>1 DEF OneResumes, Count
    <3> QED BY <3>1, <3>2, <3>3, <3>4
  <2>4. task \in [status : Statuses, cancelled : BOOLEAN, cont : BOOLEAN,
                  value : {"none", "value", "error"}, completion : 0 .. Children + 2,
                  owned : BOOLEAN, at : TaskPlaces, kept : BOOLEAN, saw : BOOLEAN,
                  limit : 0 .. Yields, made : 0 .. Yields + 1, children : 0 .. Children,
                  spawned : 0 .. Children, frees : 0 .. 1,
                  finisher : {"none", "waiting", "signal", "set", "end"}]
    <3>1. TaskFields(task) \in
                 [status : Statuses, cancelled : BOOLEAN, cont : BOOLEAN,
                  value : {"none", "value", "error"}, completion : 0 .. Children + 2,
                  owned : BOOLEAN, at : TaskPlaces, kept : BOOLEAN, saw : BOOLEAN,
                  limit : 0 .. Yields, made : 0 .. Yields + 1, children : 0 .. Children,
                  spawned : 0 .. Children, frees : 0 .. 1,
                  finisher : {"none", "waiting", "signal", "set", "end"}]
      BY <2>1, <2>2 DEF Typed, TaskFields
    <3> QED BY <2>1, <3>1 DEF Shape
  <2>5. consumer \in [status : Statuses, cancelled : BOOLEAN, listed : BOOLEAN,
                      blocked : BOOLEAN, at : ConsumerPlaces, saw : BOOLEAN,
                      awaits : 0 .. Awaits, taken : 0 .. Yields + 1]
    <3>1. ConsumerFields(consumer) \in
                     [status : Statuses, cancelled : BOOLEAN, listed : BOOLEAN,
                      blocked : BOOLEAN, at : ConsumerPlaces, saw : BOOLEAN,
                      awaits : 0 .. Awaits, taken : 0 .. Yields + 1]
      BY <2>1, <2>2 DEF Typed, ConsumerFields
    <3> QED BY <2>1, <3>1 DEF Shape
  <2>6. scheduled \in [task : 0 .. 1, consumer : 0 .. 1]
    <3>1. ScheduledFields(scheduled) \in [task : 0 .. 1, consumer : 0 .. 1]
      BY <2>3 DEF ScheduledFields
    <3> QED BY <2>1, <3>1 DEF Shape
  <2> QED BY <2>1, <2>4, <2>5, <2>6 DEF TypeOK, Typed
<1> QED BY <1>1, GeneratorInvariant, PTL

\* No coroutine of the two is resumed twice for one suspension, nor while it runs: the task's
\* yield and final awaiters, the start by the consumer and a cancel() never both do it.
THEOREM GeneratorResumedOnce ==
    ASSUME CancelGenerators = FALSE
    PROVE  Spec => []ResumedOnce
<1>1. GenInv => ResumedOnce
  <2> SUFFICES ASSUME GenInv PROVE ResumedOnce
    OBVIOUS
  <2>1. Typed /\ TaskWaits /\ OneResumes
    BY DEF GenInv
  <2>2. scheduled.consumer + Count(handing) <= Count(consumer.at = "parked")
    BY <2>1 DEF Typed, OneResumes, Count
  <2>3. scheduled.task + Count(tail # "none") <= Count(task.at \in {"start", "yielded"})
    BY <2>1 DEF TaskWaits
  <2> QED BY <2>2, <2>3 DEF ResumedOnce
<1> QED BY <1>1, GeneratorInvariant, PTL

\* The frame of the task is destroyed once, by whoever leaves it last (destroyOrAbandon(),
\* the final awaiter or the finisher).
THEOREM GeneratorFreedLast ==
    ASSUME CancelGenerators = FALSE
    PROVE  Spec => []FreedLast
<1>1. GenInv => FreedLast
  BY DEF GenInv
<1> QED BY <1>1, GeneratorInvariant, PTL

\* The consumer takes what the task yields in order: what value() returns is the value
\* that was taken last, or the next.
THEOREM GeneratorValuesInOrder ==
    ASSUME CancelGenerators = FALSE
    PROVE  Spec => ValuesInOrder
<1>1. GenInv /\ [Next]_vars => [consumer.taken' \in {consumer.taken, consumer.taken + 1}]_vars
  <2> SUFFICES ASSUME GenInv, [Next]_vars
               PROVE  consumer'.taken \in {consumer.taken, consumer.taken + 1}
    OBVIOUS
  <2>1. Shape /\ Typed /\ Bounded /\ Counted /\ Answers
    BY DEF GenInv
  <2>2. consumer'.taken \in {consumer.taken, task.made}
    <3> USE <2>1 DEF Shape, ConsumerFields
    <3>1. CASE ResumeTask
      BY <3>1 DEF ResumeTask
    <3>2. CASE TaskResume
      BY <3>2 DEF TaskResume, onlyTask
    <3>3. CASE TaskCheck
      BY <3>3 DEF TaskCheck, onlyTask
    <3>4. CASE Spawn
      BY <3>4 DEF Spawn, onlyTask
    <3>5. CASE YieldValue
      BY <3>5 DEF YieldValue, onlyTask
    <3>6. CASE CopyContinuation
      BY <3>6 DEF CopyContinuation, onlyTask
    <3>7. CASE YieldReady
      BY <3>7 DEF YieldReady, onlyTask
    <3>8. CASE YieldReadCancelled
      BY <3>8 DEF YieldReadCancelled, onlyTask
    <3>9. CASE YieldSuspend
      BY <3>9 DEF YieldSuspend
    <3>10. CASE ReturnValue
      BY <3>10 DEF ReturnValue, onlyTask
    <3>11. CASE FinalSuspend
      BY <3>11 DEF FinalSuspend, onlyTask
    <3>12. CASE FinalCount
      BY <3>12 DEF FinalCount, onlyTask
    <3>13. CASE SetCompleted
      BY <3>13 DEF SetCompleted, onlyTask
    <3>14. CASE DeferCompletion
      BY <3>14 DEF DeferCompletion, onlyTask
    <3>15. CASE CompletionCountDown
      BY <3>15 DEF CompletionCountDown, onlyTask
    <3>16. CASE SignalOwner
      BY <3>16 DEF SignalOwner, onlyTask
    <3>17. CASE FinalReady
      BY <3>17 DEF FinalReady
    <3>18. CASE FinalAwaitSuspend
      BY <3>18 DEF FinalAwaitSuspend
    <3>19. CASE ChildDone
      BY <3>19 DEF ChildDone, onlyTask
    <3>20. CASE FinisherSignal
      BY <3>20 DEF FinisherSignal, onlyTask
    <3>21. CASE FinisherSet
      BY <3>21 DEF FinisherSet, onlyTask
    <3>22. CASE HandBack
      BY <3>22 DEF HandBack
    <3>23. CASE MarkBlocked
      BY <3>23 DEF MarkBlocked
    <3>24. CASE StartTask
      BY <3>24 DEF StartTask
    <3>25. CASE Await
      BY <3>25 DEF Await
    <3>26. CASE AwaitReady
      BY <3>26 DEF AwaitReady
    <3>27. CASE ReadCancelled
      BY <3>27 DEF ReadCancelled
    <3>28. CASE OnSuspend
      BY <3>28 DEF OnSuspend, Turned
    <3>29. CASE ClaimTask
      BY <3>29 DEF ClaimTask
    <3>30. CASE StoreContinuation
      BY <3>30 DEF StoreContinuation, ConsumerGo
    <3>31. CASE ResumeConsumer
      BY <3>31 DEF ResumeConsumer, ConsumerGo
    <3>32. CASE AwaitResume
      BY <3>32 DEF AwaitResume, ConsumerGo
    <3>33. CASE RemoveAwaiter
      BY <3>33 DEF RemoveAwaiter
    <3>34. CASE SetRunning
      BY <3>34 DEF SetRunning, Turned
    <3>35. CASE AwaitUnpaused
      BY <3>35 DEF AwaitUnpaused, ConsumerGo
    <3>36. CASE CheckCancelled
      BY <3>36 DEF CheckCancelled
    <3>37. CASE TakeValue
      BY <3>37 DEF TakeValue
    <3>38. CASE CancelTask
      BY <3>38 DEF CancelTask
    <3>39. CASE OwnerCountUp
      BY <3>39 DEF OwnerCountUp
    <3>40. CASE ExchangeOwner
      BY <3>40 DEF ExchangeOwner, ConsumerGo
    <3>41. CASE OwnerCountDown
      BY <3>41 DEF OwnerCountDown, ConsumerGo
    <3>42. CASE LastRef
      BY <3>42 DEF LastRef
    <3>43. CASE ClearValue
      BY <3>43 DEF ClearValue, ConsumerGo
    <3>44. CASE Abandon
      BY <3>44 DEF Abandon, Turned
    <3>45. CASE Recount
      BY <3>45 DEF Recount, ConsumerGo
    <3>46. CASE Retire
      BY <3>46 DEF Retire, ConsumerGo
    <3>47. CASE Restart
      BY <3>47 DEF Restart, ConsumerGo
    <3>48. CASE ConsumerReturn
      BY <3>48 DEF ConsumerReturn, Turned
    <3>49. CASE Cancel
      BY <3>49 DEF Cancel
    <3>50. CASE CancelStatus
      BY <3>50 DEF CancelStatus
    <3>51. CASE Pause
      BY <3>51 DEF Pause, Turned
    <3>52. CASE TakeAwaiter
      BY <3>52 DEF TakeAwaiter
    <3>53. CASE Unblock
      BY <3>53 DEF Unblock
    <3>54. CASE CancelResumed
      BY <3>54 DEF CancelResumed, Turned
    <3>55. CASE UNCHANGED vars
      BY <3>55 DEF vars
    <3> QED BY <3>1, <3>2, <3>3, <3>4, <3>5, <3>6, <3>7, <3>8, <3>9, <3>10, <3>11,
        <3>12, <3>13, <3>14, <3>15, <3>16, <3>17, <3>18, <3>19, <3>20, <3>21, <3>22,
        <3>23, <3>24, <3>25, <3>26, <3>27, <3>28, <3>29, <3>30, <3>31, <3>32, <3>33,
        <3>34, <3>35, <3>36, <3>37, <3>38, <3>39, <3>40, <3>41, <3>42, <3>43, <3>44,
        <3>45, <3>46, <3>47, <3>48, <3>49, <3>50, <3>51, <3>52, <3>53, <3>54, <3>55
        DEF Next, TaskStep, FinisherStep, TailStep, ConsumerStep, CancelStep
  <2>3. task.made \in {consumer.taken, consumer.taken + 1}
    BY <2>1 DEF Answers, Typed
  <2> QED BY <2>2, <2>3
<1> QED BY <1>1, GeneratorInvariant, PTL DEF Spec, ValuesInOrder
=============================================================================
