-------------------------- MODULE CoroutineStatus --------------------------
(***************************************************************************)
(* The status of a coroutine: what Coroutine::setStatus() (coroutine.cpp)  *)
(* makes of each status when it is asked for another one.  A pair of       *)
(* statuses that is missing here is one where the code calls std::abort(). *)
(***************************************************************************)

\* First while the frame has something to run, or has come to one of its ends alone;
\* then when it is abandoned, complete at its final suspend point, or being cancelled.
Moves ==
    [NotStarted        |-> [PauseOnRunning |-> "NotStarted", Suspended |-> "NotStarted",
                            Abandoned |-> "Abandoned", Running |-> "Running"],
     Returned          |-> [PauseOnRunning |-> "Returned", Abandoned |-> "Abandoned",
                            Completed |-> "ReturnedCompleted", Suspended |-> "FinalSuspended"],
     Yielded           |-> [PauseOnRunning |-> "Yielded", Abandoned |-> "Abandoned",
                            Suspended |-> "YieldedSuspended", Running |-> "Running"],
     FinalSuspended    |-> [PauseOnRunning |-> "FinalSuspended",
                            Abandoned |-> "AbandonedFinalSuspended",
                            Completed |-> "CompletedFinalSuspended"],
     YieldedSuspended  |-> [PauseOnRunning |-> "YieldedSuspended",
                            Abandoned |-> "AbandonedYieldSuspended", Running |-> "Running"],
     ReturnedCompleted |-> [PauseOnRunning |-> "ReturnedCompleted",
                            Abandoned |-> "AbandonedCompleted",
                            Suspended |-> "CompletedFinalSuspended"],
     Running           |-> [Running |-> "Running", PauseOnRunning |-> "Running",
                            Suspended |-> "Suspended", Returned |-> "Returned",
                            Yielded |-> "Yielded", Abandoned |-> "Abandoned"],
     Suspended         |-> [Suspended |-> "Suspended", Running |-> "Running",
                            Abandoned |-> "Abandoned", PauseOnRunning |-> "PauseOnRunning"],

     Abandoned               |-> [Suspended |-> "Abandoned", Completed |-> "AbandonedCompleted",
                                  Running |-> "Abandoned", Returned |-> "Abandoned",
                                  Yielded |-> "Abandoned"],
     AbandonedFinalSuspended |-> [Completed |-> "AbandonedFinalSuspended"],
     AbandonedYieldSuspended |-> [Running |-> "Abandoned"],
     AbandonedCompleted      |-> [Suspended |-> "AbandonedCompleted"],
     CompletedFinalSuspended |-> [Abandoned |-> "CompletedFinalSuspended"],
     PauseOnRunning          |-> [Running |-> "Paused", Resumed |-> "Suspended"],
     Paused                  |-> [Resumed |-> "Running"]]

Statuses == DOMAIN Moves

\* The assertions on isFinalAwaiter and m_cancelled.
Asserted(cur, s, final, cancelled) ==
    /\ s = "Suspended" /\ cur \in {"Returned", "ReturnedCompleted", "AbandonedCompleted"} => final
    /\ s = "Running" /\ cur \in {"Yielded", "AbandonedYieldSuspended"} => cancelled

\* The status that setStatus(s, final) makes of cur, or "abort".
After(cur, s, final, cancelled) ==
    IF s \notin DOMAIN Moves[cur] \/ ~Asserted(cur, s, final, cancelled) THEN "abort"
    ELSE IF cur = "Abandoned" /\ s = "Suspended" /\ final THEN "AbandonedFinalSuspended"
    ELSE Moves[cur][s]

\* bool isDone()
Done == {"Returned", "ReturnedCompleted", "FinalSuspended", "CompletedFinalSuspended"}
=============================================================================
