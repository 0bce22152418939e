--------------------------- MODULE SyncTaskProofs ---------------------------
(***************************************************************************)
(* Proofs about SyncTask, for any number of tasks and any bound on the     *)
(* changes of ownership, when the SyncTask is not made inside a coroutine: *)
(* the completion events count what they stand for, the thread gets the    *)
(* value after every task below has completed, and the frame is destroyed  *)
(* once and last.                                                          *)
(***************************************************************************)
EXTENDS SyncTask, FiniteSetTheorems, TLAPS

\* The thread that makes the SyncTask runs no coroutine.
RootOutside == RootInside = FALSE

\* Where a coroutine sets the owner of its job, and where it has counted that up.
Setting == {"isZero", "countUp", "reserve", "exchange", "settle", "undo", "recheck", "signal"}
Pulsing == {"reserve", "exchange", "settle", "undo"}
InBody  == Setting \cup {"body"}

\* CountsExact, part by part.
Kids(c)   == {t \in Coroutines : owner[t] = c}
Movers(c) == {d \in Coroutines : job[d] = c /\ at[d] \in Pulsing}
One(b) == IF b THEN 1 ELSE 0
Total(c) == One(Counts(c)) + Cardinality(Kids(c)) + One(at[c] = "exchange")
                + Cardinality(Movers(c))
Exact == \A c \in Coroutines : count[c] = Total(c)

\* Who owns whom: a coroutine owns, and sets the owner of, tasks made after it.
Tree ==
    /\ at[Root] \notin {"new", "made"} /\ owner[Root] = NULL
    /\ \A c \in Coroutines : at[c] \in Setting =>
          job[c] \in Tasks /\ c < job[c] /\ at[job[c]] # "new"
    /\ \A t \in Tasks : owner[t] # NULL =>
          owner[t] \in Coroutines /\ owner[t] < t /\ at[owner[t]] # "new" /\ at[t] # "new"

\* A coroutine that has counted itself down, and owns nothing, stays so.
Childless(c) == \A t \in Coroutines : owner[t] # c
Finished(c) == ~Counts(c) /\ Childless(c)

\* What a coroutine on its way to its end, and its finisher, know.
EndingAt(c) ==
    /\ at[c] \in {"complete", "set", "finish", "signalOwner"} =>
          Childless(c) /\ finisher[c] = "none"
    /\ at[c] = "deferred" => finisher[c] = "waiting"
    /\ finisher[c] # "none" => ~Counts(c) \/ at[c] = "deferred"
    /\ finisher[c] \notin {"none", "waiting"} => Finished(c)
    /\ at[c] \in {"undo", "signal"} => Finished(job[c])
Ending == \A c \in Coroutines : EndingAt(c)

\* A task that is not finished has an owner, or one that is about to be set.
OwnerKnown(c) == at[c] \in {"settle", "recheck"} => Finished(job[c]) \/ owner[job[c]] # NULL
OwnedTask(t) ==
    \/ at[t] = "new" \/ Finished(t) \/ owner[t] # NULL
    \/ at[t] = "made" /\ \E c \in Coroutines : at[c] \in Setting /\ job[c] = t
Owned == (\A c \in Coroutines : OwnerKnown(c)) /\ (\A t \in Tasks : OwnedTask(t))

\* The status of the SyncTask at each place of it.
Live(s) == s \cup {"Abandoned"}
Gone == {"Abandoned", "AbandonedCompleted", "AbandonedFinalSuspended"}
StatusAt ==
    /\ at[Root] \in InBody => status \in Live({"Running"})
    /\ at[Root] \in {"count", "complete", "defer", "deferred"} => status \in Live({"Returned"})
    /\ at[Root] \in {"set", "finish", "signalOwner"} =>
          status \in {"ReturnedCompleted", "AbandonedCompleted"}
    /\ at[Root] \in {"finalReady", "finalSuspend"} =>
          status \in IF finisher[Root] \in {"none", "end"}
                     THEN {"ReturnedCompleted", "AbandonedCompleted"} ELSE Live({"Returned"})
    /\ at[Root] = "end" =>
          status \in IF finisher[Root] \in {"waiting", "run", "set"}
                     THEN {"FinalSuspended", "AbandonedFinalSuspended"}
                     ELSE {"AbandonedCompleted", "AbandonedFinalSuspended",
                           "CompletedFinalSuspended"}
    /\ status \in Gone => thread = "gone"

\* When the event is set, all below the SyncTask is finished.
Signaled ==
    /\ isSet => /\ at[Root] \in {"finish", "signalOwner", "finalReady", "finalSuspend", "end"}
                /\ Childless(Root)
    /\ thread \in {"value", "drop"} => isSet

SyncInv == TypeOK /\ Exact /\ Tree /\ Ending /\ Owned /\ StatusAt /\ Signaled /\ FreedLast
-----------------------------------------------------------------------------
(* The coroutines, and the numbers of tasks that they own *)

LEMMA Numbers ==
    /\ Coroutines \subseteq Nat /\ IsFiniteSet(Coroutines)
    /\ Root \in Coroutines /\ Tasks \subseteq Coroutines
    /\ \A c \in Coroutines : c # NULL /\ c # Outer /\ (c # Root => c \in Tasks)
    /\ \A t \in Tasks : t # Root
<1>1. IsFiniteSet(1 .. NumTasks)
  BY TaskAssumption, FS_Interval
<1>2. IsFiniteSet(Coroutines)
  BY <1>1, FS_AddElement, FS_Union, FS_Singleton DEF Coroutines, Tasks
<1> QED BY <1>2, TaskAssumption, NullAssumption DEF Coroutines, Tasks, Root, Outer

LEMMA KidsFinite ==
    ASSUME NEW c
    PROVE  /\ IsFiniteSet(Kids(c)) /\ Cardinality(Kids(c)) \in Nat
           /\ Cardinality(Kids(c)) = 0 <=> Childless(c)
<1>1. Kids(c) \subseteq Coroutines
  BY DEF Kids
<1>2. IsFiniteSet(Kids(c))
  BY <1>1, Numbers, FS_Subset
<1>3. Kids(c) = {} <=> Childless(c)
  BY DEF Kids, Childless
<1> QED BY <1>2, <1>3, FS_CardinalityType, FS_EmptySet

LEMMA MoversFinite ==
    ASSUME NEW c
    PROVE  /\ IsFiniteSet(Movers(c)) /\ Cardinality(Movers(c)) \in Nat
           /\ \A d \in Movers(c) : Cardinality(Movers(c)) > 0
<1>1. Movers(c) \subseteq Coroutines
  BY DEF Movers
<1>2. IsFiniteSet(Movers(c))
  BY <1>1, Numbers, FS_Subset
<1> QED BY <1>2, FS_CardinalityType, FS_EmptySet

\* The two with the next state's owners and places.
LEMMA NextFinite ==
    ASSUME NEW c
    PROVE  /\ IsFiniteSet(Kids(c)') /\ Cardinality(Kids(c)') \in Nat
           /\ Cardinality(Kids(c)') = 0 <=> Childless(c)'
           /\ IsFiniteSet(Movers(c)') /\ Cardinality(Movers(c)') \in Nat
<1>1. Kids(c)' \subseteq Coroutines /\ Movers(c)' \subseteq Coroutines
  BY DEF Kids, Movers
<1>2. IsFiniteSet(Kids(c)') /\ IsFiniteSet(Movers(c)')
  BY <1>1, Numbers, FS_Subset
<1>3. Kids(c)' = {} <=> Childless(c)'
  BY DEF Kids, Childless
<1> QED BY <1>2, <1>3, FS_CardinalityType, FS_EmptySet

\* One member more, or less, or neither.
LEMMA OneDiffers ==
    ASSUME NEW S, NEW T, NEW d, IsFiniteSet(S), S \ {d} = T \ {d}
    PROVE  Cardinality(T) = Cardinality(S) + One(d \in T) - One(d \in S)
<1>0. Cardinality(S) \in Nat
  BY FS_CardinalityType
<1>1. CASE d \in T
  <2>1. T = S \cup {d}
    BY <1>1
  <2>2. Cardinality(T) = IF d \in S THEN Cardinality(S) ELSE Cardinality(S) + 1
    BY <2>1, FS_AddElement
  <2> QED BY <1>0, <1>1, <2>2 DEF One
<1>2. CASE d \notin T
  <2>1. T = S \ {d}
    BY <1>2
  <2>2. Cardinality(T) = IF d \in S THEN Cardinality(S) - 1 ELSE Cardinality(S)
    BY <2>1, FS_RemoveElement
  <2> QED BY <1>0, <1>2, <2>2 DEF One
<1> QED BY <1>1, <1>2

\* What the totals become when one coroutine moves and one task gets another owner.
LEMMA Balance ==
    ASSUME NEW c \in Coroutines, NEW t \in Coroutines,
           \A d \in Coroutines \ {c} :
               /\ job'[d] = job[d] /\ Counts(d)' = Counts(d)
               /\ at'[d] \in Pulsing <=> at[d] \in Pulsing
               /\ at'[d] = "exchange" <=> at[d] = "exchange",
           \A d \in Coroutines \ {t} : owner'[d] = owner[d],
           NEW x \in Coroutines
    PROVE  /\ Total(x) \in Nat /\ Total(x)' \in Nat
           /\ Total(x)' = Total(x) + One(owner'[t] = x) - One(owner[t] = x)
                  + One(job'[c] = x /\ at'[c] \in Pulsing) - One(job[c] = x /\ at[c] \in Pulsing)
                  + One(x = c /\ Counts(c)') - One(x = c /\ Counts(c))
                  + One(x = c /\ at'[c] = "exchange") - One(x = c /\ at[c] = "exchange")
<1>1. Cardinality(Kids(x)') = Cardinality(Kids(x)) + One(owner'[t] = x) - One(owner[t] = x)
  <2>1. Kids(x) \ {t} = Kids(x)' \ {t}
    BY DEF Kids
  <2>2. t \in Kids(x) <=> owner[t] = x
    BY DEF Kids
  <2>3. t \in Kids(x)' <=> owner'[t] = x
    BY DEF Kids
  <2>4. Cardinality(Kids(x)') = Cardinality(Kids(x)) + One(t \in Kids(x)') - One(t \in Kids(x))
    BY <2>1, KidsFinite, OneDiffers
  <2> QED BY <2>2, <2>3, <2>4 DEF One
<1>2. Cardinality(Movers(x)') = Cardinality(Movers(x))
         + One(job'[c] = x /\ at'[c] \in Pulsing) - One(job[c] = x /\ at[c] \in Pulsing)
  <2>1. Movers(x) \ {c} = Movers(x)' \ {c}
    BY DEF Movers
  <2>2. c \in Movers(x) <=> job[c] = x /\ at[c] \in Pulsing
    BY DEF Movers
  <2>3. c \in Movers(x)' <=> job'[c] = x /\ at'[c] \in Pulsing
    BY DEF Movers
  <2>4. Cardinality(Movers(x)')
          = Cardinality(Movers(x)) + One(c \in Movers(x)') - One(c \in Movers(x))
    BY <2>1, MoversFinite, OneDiffers
  <2> QED BY <2>2, <2>3, <2>4 DEF One
<1>3. /\ Cardinality(Kids(x)) \in Nat /\ Cardinality(Movers(x)) \in Nat
      /\ Cardinality(Kids(x)') \in Nat /\ Cardinality(Movers(x)') \in Nat
  BY KidsFinite, MoversFinite, NextFinite
<1>4. /\ One(Counts(x)') = One(Counts(x)) + One(x = c /\ Counts(c)') - One(x = c /\ Counts(c))
      /\ One(at'[x] = "exchange") = One(at[x] = "exchange")
            + One(x = c /\ at'[c] = "exchange") - One(x = c /\ at[c] = "exchange")
      /\ \A b \in BOOLEAN : One(b) \in Nat
  BY DEF One, Counts
<1>5. /\ Total(x)' = One(Counts(x)') + Cardinality(Kids(x)') + One(at'[x] = "exchange")
                        + Cardinality(Movers(x)')
      /\ Total(x) = One(Counts(x)) + Cardinality(Kids(x)) + One(at[x] = "exchange")
                        + Cardinality(Movers(x))
  BY DEF Total, One
<1>6. /\ One(Counts(x)') \in Nat /\ One(at'[x] = "exchange") \in Nat
      /\ One(Counts(x)) \in Nat /\ One(at[x] = "exchange") \in Nat
      /\ One(owner'[t] = x) \in Nat /\ One(owner[t] = x) \in Nat
      /\ One(job'[c] = x /\ at'[c] \in Pulsing) \in Nat
      /\ One(job[c] = x /\ at[c] \in Pulsing) \in Nat
      /\ One(x = c /\ Counts(c)') \in Nat /\ One(x = c /\ Counts(c)) \in Nat
      /\ One(x = c /\ at'[c] = "exchange") \in Nat /\ One(x = c /\ at[c] = "exchange") \in Nat
  BY DEF One
<1>7. Total(x) \in Nat /\ Total(x)' \in Nat
  BY <1>3, <1>5, <1>6
<1> QED BY <1>1, <1>2, <1>3, <1>4, <1>5, <1>6, <1>7

-----------------------------------------------------------------------------
(* What setStatus() does at each place where it is called *)

LEMMA ReturnEffect ==
    ASSUME StatusAt, Return(Root)
    PROVE  /\ status' = IF status = "Running" THEN "Returned" ELSE status
           /\ status \in {"Running", "Abandoned"}
BY DEF Return, Go, InBody, StatusAt, Live, SetStatus, Becomes, After, Asserted, Moves

LEMMA SetCompletedEffect ==
    ASSUME StatusAt, SetCompleted(Root)
    PROVE  /\ at' = [at EXCEPT ![Root] = "set"]
           /\ status' = IF status = "Returned" THEN "ReturnedCompleted" ELSE "AbandonedCompleted"
           /\ status \in {"Returned", "Abandoned"}
BY DEF SetCompleted, OrAbort, Go, StatusAt, Live, SetStatus, Becomes, After, Asserted, Moves

LEMMA FinalSuspendEffect ==
    ASSUME StatusAt, FinalSuspend
    PROVE  /\ at[Root] = "finalSuspend" /\ at' = [at EXCEPT ![Root] = "end"]
           /\ status' = CASE status = "Returned" -> "FinalSuspended"
                          [] status = "Abandoned" -> "AbandonedFinalSuspended"
                          [] status = "ReturnedCompleted" -> "CompletedFinalSuspended"
                          [] status = "AbandonedCompleted" -> "AbandonedCompleted"
           /\ status \in IF finisher[Root] \in {"none", "end"}
                         THEN {"ReturnedCompleted", "AbandonedCompleted"}
                         ELSE {"Returned", "Abandoned"}
<1>1. /\ at[Root] = "finalSuspend"
      /\ status \in IF finisher[Root] \in {"none", "end"}
                    THEN {"ReturnedCompleted", "AbandonedCompleted"} ELSE {"Returned", "Abandoned"}
  BY DEF FinalSuspend, Go, StatusAt, Live
<1>2. Becomes("Suspended", TRUE) = CASE status = "Returned" -> "FinalSuspended"
                                     [] status = "Abandoned" -> "AbandonedFinalSuspended"
                                     [] status = "ReturnedCompleted" -> "CompletedFinalSuspended"
                                     [] status = "AbandonedCompleted" -> "AbandonedCompleted"
  BY <1>1 DEF Becomes, After, Asserted, Moves
<1>3. Becomes("Suspended", TRUE) # "abort"
  BY <1>1, <1>2
<1> QED BY <1>1, <1>2, <1>3 DEF FinalSuspend, OrAbort, Go, SetStatus

LEMMA FinisherSetEffect ==
    ASSUME TypeOK, Ending, StatusAt, FinisherSet
    PROVE  /\ finisher[Root] = "set" /\ finisher' = [finisher EXCEPT ![Root] = "end"]
           /\ status' = CASE status = "Returned" -> "ReturnedCompleted"
                          [] status = "Abandoned" -> "AbandonedCompleted"
                          [] status = "FinalSuspended" -> "CompletedFinalSuspended"
                          [] status = "AbandonedFinalSuspended" -> "AbandonedFinalSuspended"
           /\ IF at[Root] = "end" THEN status \in {"FinalSuspended", "AbandonedFinalSuspended"}
                                  ELSE status \in {"Returned", "Abandoned"}
           /\ at[Root] \in {"finalReady", "finalSuspend", "end"}
<1>1. finisher[Root] = "set" /\ at[Root] \in {"finalReady", "finalSuspend", "end"}
  BY Numbers DEF FinisherSet, TypeOK, Ending, EndingAt, Finished, Counts
<1>2. IF at[Root] = "end" THEN status \in {"FinalSuspended", "AbandonedFinalSuspended"}
                          ELSE status \in {"Returned", "Abandoned"}
  BY <1>1 DEF StatusAt, Live
<1>3. Becomes("Completed", FALSE)
        = CASE status = "Returned" -> "ReturnedCompleted"
            [] status = "Abandoned" -> "AbandonedCompleted"
            [] status = "FinalSuspended" -> "CompletedFinalSuspended"
            [] status = "AbandonedFinalSuspended" -> "AbandonedFinalSuspended"
  BY <1>2 DEF Becomes, After, Asserted, Moves
<1>4. Becomes("Completed", FALSE) # "abort"
  BY <1>2, <1>3
<1> QED BY <1>1, <1>2, <1>3, <1>4 DEF FinisherSet, OrAbort, SetStatus

\* The thread meets a task that nobody has abandoned.
LEMMA StatusKept ==
    ASSUME TypeOK, Tree, StatusAt, thread # "gone"
    PROVE  status \in {"Running", "Returned", "ReturnedCompleted", "FinalSuspended",
                       "CompletedFinalSuspended"}
<1>1. status \notin {"Abandoned", "AbandonedCompleted", "AbandonedFinalSuspended"}
  BY DEF StatusAt, Gone
<1>2. at[Root] \in Places \ {"new", "made"}
  BY Numbers DEF TypeOK, Tree
<1> QED BY <1>1, <1>2 DEF Places, StatusAt, Live, InBody, Setting

LEMMA AbandonEffect ==
    ASSUME TypeOK, Tree, StatusAt, Abandon
    PROVE  /\ thread = "abandon" /\ thread' = "gone"
           /\ status' = CASE status = "Running" -> "Abandoned"
                          [] status = "Returned" -> "Abandoned"
                          [] status = "ReturnedCompleted" -> "AbandonedCompleted"
                          [] status = "FinalSuspended" -> "AbandonedFinalSuspended"
                          [] status = "CompletedFinalSuspended" -> status
           /\ status \in {"Running", "Returned", "ReturnedCompleted", "FinalSuspended",
                          "CompletedFinalSuspended"}
<1>1. thread = "abandon"
  BY DEF Abandon, ThreadGo
<1>2. status \in {"Running", "Returned", "ReturnedCompleted", "FinalSuspended",
                  "CompletedFinalSuspended"}
  BY <1>1, StatusKept
<1> QED BY <1>1, <1>2 DEF Abandon, ThreadGo, OrAbort, SetStatus, Becomes, After, Asserted, Moves

-----------------------------------------------------------------------------
(* The counts *)

\* What the places and jobs become when a coroutine has set an owner.
LEMMA Settled ==
    ASSUME TypeOK, Tree, NEW c \in Coroutines, at[c] \in Setting, Settle(c)
    PROVE  /\ job[c] \in Tasks /\ c # job[c] /\ job[c] \in Coroutines
           /\ at' \in [Coroutines -> Places] /\ job' \in [Coroutines -> Tasks \cup {NULL}]
           /\ at'[c] = "body" /\ job'[c] = NULL
           /\ \A d \in Coroutines \ {c} :
                 /\ job'[d] = job[d]
                 /\ at'[d] = IF d = job[c] /\ at[d] = "made" THEN "body" ELSE at[d]
<1>1. job[c] \in Tasks /\ c < job[c] /\ job[c] \in Nat /\ c \in Nat /\ job[c] \in Coroutines
  BY Numbers DEF Tree
<1> QED BY <1>1 DEF TypeOK, Settle, Places

LEMMA ExactStep == ASSUME TypeOK, Exact, Tree, StatusAt, [Next]_vars PROVE Exact'
<1>a. /\ count \in [Coroutines -> Nat] /\ at \in [Coroutines -> Places]
      /\ owner \in [Coroutines -> Coroutines \cup {Outer, NULL}]
      /\ job \in [Coroutines -> Tasks \cup {NULL}]
  BY DEF TypeOK
<1>b. \A c \in Coroutines : at[c] \in Setting => job[c] \in Tasks /\ c # job[c]
  BY Numbers DEF Tree
<1>c. \A c \in Coroutines : count[c] = Total(c)
  BY DEF Exact
<1>d. /\ Tasks \subseteq Coroutines
      /\ \A c \in Coroutines : c # NULL /\ c # Outer /\ (c # Root => c \in Tasks)
  BY Numbers
<1>e. ASSUME UNCHANGED <<count, owner, at, job>> PROVE Exact'
  <2>1. \A c \in Coroutines : Total(c)' = Total(c)
    BY <1>e DEF Total, Kids, Movers, Counts
  <2> QED BY <1>c, <1>e, <2>1 DEF Exact
<1> USE <1>a, <1>b, <1>d DEF Go, Setting, Pulsing

<1>0. CASE UNCHANGED vars
  BY <1>0, <1>e DEF vars
<1>1. ASSUME NEW c \in Coroutines, IsZero(c) PROVE Exact'
  <2>s. Settle(c) => /\ job[c] \in Coroutines /\ at'[c] = "body"
                      /\ \A d \in Coroutines \ {c} :
                            /\ job'[d] = job[d]
                            /\ at'[d] = IF d = job[c] /\ at[d] = "made" THEN "body" ELSE at[d]
    BY <1>1, Settled DEF IsZero
  <2>1. /\ \A d \in Coroutines \ {c} :
              /\ job'[d] = job[d] /\ Counts(d)' = Counts(d)
              /\ at'[d] \in Pulsing <=> at[d] \in Pulsing
              /\ at'[d] = "exchange" <=> at[d] = "exchange"
        /\ \A d \in Coroutines \ {c} : owner'[d] = owner[d]
        /\ c \in Coroutines
    BY <1>1, <2>s DEF IsZero, Counts
  <2>2. /\ at[c] \notin Pulsing /\ at'[c] \notin Pulsing
        /\ Counts(c)' = Counts(c) /\ owner' = owner
    BY <1>1, <2>s DEF IsZero, Counts
  <2>3. ASSUME NEW x \in Coroutines PROVE count'[x] = Total(x)'
    <3>1. count'[x] = count[x]
      BY <1>1, <2>s DEF IsZero, CountDown, SignalOwner
    <3>2. count[x] = Total(x) /\ count[x] \in Nat /\ x # NULL
      BY <1>c
    <3>3. /\ Total(x)' \in Nat
          /\ Total(x)' = Total(x) + One(owner'[c] = x) - One(owner[c] = x)
                 + One(job'[c] = x /\ at'[c] \in Pulsing) - One(job[c] = x /\ at[c] \in Pulsing)
                 + One(x = c /\ Counts(c)') - One(x = c /\ Counts(c))
                 + One(x = c /\ at'[c] = "exchange") - One(x = c /\ at[c] = "exchange")
      BY <2>1, Balance
    <3> QED BY <2>2, <3>1, <3>2, <3>3 DEF One
  <2> QED BY <2>3 DEF Exact
<1>2. ASSUME NEW c \in Coroutines, CountUp(c) PROVE Exact'
  <2>1. /\ \A d \in Coroutines \ {c} :
              /\ job'[d] = job[d] /\ Counts(d)' = Counts(d)
              /\ at'[d] \in Pulsing <=> at[d] \in Pulsing
              /\ at'[d] = "exchange" <=> at[d] = "exchange"
        /\ \A d \in Coroutines \ {c} : owner'[d] = owner[d]
        /\ c \in Coroutines
    BY <1>2 DEF CountUp, Counts
  <2>2. /\ at[c] = "countUp" /\ at'[c] \in Pulsing \ {"exchange"} /\ Counts(c) /\ Counts(c)'
        /\ job' = job /\ owner' = owner
    BY <1>2 DEF CountUp, Counts
  <2>3. ASSUME NEW x \in Coroutines PROVE count'[x] = Total(x)'
    <3>1. count'[x] = IF x = job[c] THEN count[x] + 1 ELSE count[x]
      BY <1>2 DEF CountUp, CountDown, SignalOwner
    <3>2. count[x] = Total(x) /\ count[x] \in Nat /\ x # NULL
      BY <1>c
    <3>3. /\ Total(x)' \in Nat
          /\ Total(x)' = Total(x) + One(owner'[c] = x) - One(owner[c] = x)
                 + One(job'[c] = x /\ at'[c] \in Pulsing) - One(job[c] = x /\ at[c] \in Pulsing)
                 + One(x = c /\ Counts(c)') - One(x = c /\ Counts(c))
                 + One(x = c /\ at'[c] = "exchange") - One(x = c /\ at[c] = "exchange")
      BY <2>1, Balance
    <3> QED BY <2>2, <3>1, <3>2, <3>3 DEF One
  <2> QED BY <2>3 DEF Exact
<1>3. ASSUME NEW c \in Coroutines, Reserve(c) PROVE Exact'
  <2>1. /\ \A d \in Coroutines \ {c} :
              /\ job'[d] = job[d] /\ Counts(d)' = Counts(d)
              /\ at'[d] \in Pulsing <=> at[d] \in Pulsing
              /\ at'[d] = "exchange" <=> at[d] = "exchange"
        /\ \A d \in Coroutines \ {c} : owner'[d] = owner[d]
        /\ c \in Coroutines
    BY <1>3 DEF Reserve, Counts
  <2>2. /\ at[c] = "reserve" /\ at'[c] = "exchange" /\ Counts(c) /\ Counts(c)'
        /\ job' = job /\ owner' = owner
    BY <1>3 DEF Reserve, Counts
  <2>3. ASSUME NEW x \in Coroutines PROVE count'[x] = Total(x)'
    <3>1. count'[x] = IF x = c THEN count[x] + 1 ELSE count[x]
      BY <1>3 DEF Reserve, CountDown, SignalOwner
    <3>2. count[x] = Total(x) /\ count[x] \in Nat /\ x # NULL
      BY <1>c
    <3>3. /\ Total(x)' \in Nat
          /\ Total(x)' = Total(x) + One(owner'[c] = x) - One(owner[c] = x)
                 + One(job'[c] = x /\ at'[c] \in Pulsing) - One(job[c] = x /\ at[c] \in Pulsing)
                 + One(x = c /\ Counts(c)') - One(x = c /\ Counts(c))
                 + One(x = c /\ at'[c] = "exchange") - One(x = c /\ at[c] = "exchange")
      BY <2>1, Balance
    <3> QED BY <2>2, <3>1, <3>2, <3>3 DEF One
  <2> QED BY <2>3 DEF Exact
<1>4. ASSUME NEW c \in Coroutines, ExchangeOwner(c) PROVE Exact'
  <2>1. /\ \A d \in Coroutines \ {c} :
              /\ job'[d] = job[d] /\ Counts(d)' = Counts(d)
              /\ at'[d] \in Pulsing <=> at[d] \in Pulsing
              /\ at'[d] = "exchange" <=> at[d] = "exchange"
        /\ \A d \in Coroutines \ {job[c]} : owner'[d] = owner[d]
        /\ job[c] \in Coroutines
    BY <1>4 DEF ExchangeOwner, Counts
  <2>2. /\ at[c] = "exchange" /\ at'[c] = "settle" /\ Counts(c) /\ Counts(c)'
        /\ job' = job /\ owner'[job[c]] = c
    BY <1>4 DEF ExchangeOwner, Counts
  <2>3. ASSUME NEW x \in Coroutines PROVE count'[x] = Total(x)'
    <3>1. count'[x] = IF x = owner[job[c]] THEN count[x] - 1 ELSE count[x]
      BY <1>4 DEF ExchangeOwner, CountDown, SignalOwner
    <3>2. count[x] = Total(x) /\ count[x] \in Nat /\ x # NULL
      BY <1>c
    <3>3. /\ Total(x)' \in Nat
          /\ Total(x)' = Total(x) + One(owner'[job[c]] = x) - One(owner[job[c]] = x)
                 + One(job'[c] = x /\ at'[c] \in Pulsing) - One(job[c] = x /\ at[c] \in Pulsing)
                 + One(x = c /\ Counts(c)') - One(x = c /\ Counts(c))
                 + One(x = c /\ at'[c] = "exchange") - One(x = c /\ at[c] = "exchange")
      BY <2>1, Balance
    <3> QED BY <2>2, <3>1, <3>2, <3>3 DEF One
  <2> QED BY <2>3 DEF Exact
<1>5. ASSUME NEW c \in Coroutines, OwnerCountDown(c) PROVE Exact'
  <2>1. /\ \A d \in Coroutines \ {c} :
              /\ job'[d] = job[d] /\ Counts(d)' = Counts(d)
              /\ at'[d] \in Pulsing <=> at[d] \in Pulsing
              /\ at'[d] = "exchange" <=> at[d] = "exchange"
        /\ \A d \in Coroutines \ {c} : owner'[d] = owner[d]
        /\ c \in Coroutines
    BY <1>5 DEF OwnerCountDown, Counts
  <2>2. /\ at[c] \in Pulsing \ {"exchange"} /\ at'[c] \notin Pulsing /\ Counts(c) /\ Counts(c)'
        /\ job' = job /\ owner' = owner
    BY <1>5 DEF OwnerCountDown, Counts
  <2>3. ASSUME NEW x \in Coroutines PROVE count'[x] = Total(x)'
    <3>1. count'[x] = IF x = job[c] THEN count[x] - 1 ELSE count[x]
      BY <1>5 DEF OwnerCountDown, CountDown, SignalOwner
    <3>2. count[x] = Total(x) /\ count[x] \in Nat /\ x # NULL
      BY <1>c
    <3>3. /\ Total(x)' \in Nat
          /\ Total(x)' = Total(x) + One(owner'[c] = x) - One(owner[c] = x)
                 + One(job'[c] = x /\ at'[c] \in Pulsing) - One(job[c] = x /\ at[c] \in Pulsing)
                 + One(x = c /\ Counts(c)') - One(x = c /\ Counts(c))
                 + One(x = c /\ at'[c] = "exchange") - One(x = c /\ at[c] = "exchange")
      BY <2>1, Balance
    <3> QED BY <2>2, <3>1, <3>2, <3>3 DEF One
  <2> QED BY <2>3 DEF Exact
<1>6. ASSUME NEW c \in Coroutines, RecheckZero(c) PROVE Exact'
  <2>s. Settle(c) => /\ job[c] \in Coroutines /\ at'[c] = "body"
                      /\ \A d \in Coroutines \ {c} :
                            /\ job'[d] = job[d]
                            /\ at'[d] = IF d = job[c] /\ at[d] = "made" THEN "body" ELSE at[d]
    BY <1>6, Settled DEF RecheckZero
  <2>1. /\ \A d \in Coroutines \ {c} :
              /\ job'[d] = job[d] /\ Counts(d)' = Counts(d)
              /\ at'[d] \in Pulsing <=> at[d] \in Pulsing
              /\ at'[d] = "exchange" <=> at[d] = "exchange"
        /\ \A d \in Coroutines \ {c} : owner'[d] = owner[d]
        /\ c \in Coroutines
    BY <1>6, <2>s DEF RecheckZero, Counts
  <2>2. /\ at[c] \notin Pulsing /\ at'[c] \notin Pulsing
        /\ Counts(c)' = Counts(c) /\ owner' = owner
    BY <1>6, <2>s DEF RecheckZero, Counts
  <2>3. ASSUME NEW x \in Coroutines PROVE count'[x] = Total(x)'
    <3>1. count'[x] = count[x]
      BY <1>6, <2>s DEF RecheckZero, CountDown, SignalOwner
    <3>2. count[x] = Total(x) /\ count[x] \in Nat /\ x # NULL
      BY <1>c
    <3>3. /\ Total(x)' \in Nat
          /\ Total(x)' = Total(x) + One(owner'[c] = x) - One(owner[c] = x)
                 + One(job'[c] = x /\ at'[c] \in Pulsing) - One(job[c] = x /\ at[c] \in Pulsing)
                 + One(x = c /\ Counts(c)') - One(x = c /\ Counts(c))
                 + One(x = c /\ at'[c] = "exchange") - One(x = c /\ at[c] = "exchange")
      BY <2>1, Balance
    <3> QED BY <2>2, <3>1, <3>2, <3>3 DEF One
  <2> QED BY <2>3 DEF Exact
<1>7. ASSUME NEW c \in Coroutines, SignalForTask(c) PROVE Exact'
  <2>s. Settle(c) => /\ job[c] \in Coroutines /\ at'[c] = "body"
                      /\ \A d \in Coroutines \ {c} :
                            /\ job'[d] = job[d]
                            /\ at'[d] = IF d = job[c] /\ at[d] = "made" THEN "body" ELSE at[d]
    BY <1>7, Settled DEF SignalForTask
  <2>1. /\ \A d \in Coroutines \ {c} :
              /\ job'[d] = job[d] /\ Counts(d)' = Counts(d)
              /\ at'[d] \in Pulsing <=> at[d] \in Pulsing
              /\ at'[d] = "exchange" <=> at[d] = "exchange"
        /\ \A d \in Coroutines \ {job[c]} : owner'[d] = owner[d]
        /\ job[c] \in Coroutines
    BY <1>7, <2>s DEF SignalForTask, Counts, SignalOwner
  <2>2. /\ at[c] \notin Pulsing /\ at'[c] \notin Pulsing /\ Counts(c) /\ Counts(c)'
        /\ owner'[job[c]] = NULL
    BY <1>7, <2>s DEF SignalForTask, Counts, SignalOwner
  <2>3. ASSUME NEW x \in Coroutines PROVE count'[x] = Total(x)'
    <3>1. count'[x] = IF x = owner[job[c]] THEN count[x] - 1 ELSE count[x]
      BY <1>7, <2>s DEF SignalForTask, CountDown, SignalOwner, SignalOwner
    <3>2. count[x] = Total(x) /\ count[x] \in Nat /\ x # NULL
      BY <1>c
    <3>3. /\ Total(x)' \in Nat
          /\ Total(x)' = Total(x) + One(owner'[job[c]] = x) - One(owner[job[c]] = x)
                 + One(job'[c] = x /\ at'[c] \in Pulsing) - One(job[c] = x /\ at[c] \in Pulsing)
                 + One(x = c /\ Counts(c)') - One(x = c /\ Counts(c))
                 + One(x = c /\ at'[c] = "exchange") - One(x = c /\ at[c] = "exchange")
      BY <2>1, Balance
    <3> QED BY <2>2, <3>1, <3>2, <3>3 DEF One
  <2> QED BY <2>3 DEF Exact
<1>8. ASSUME NEW c \in Coroutines, Return(c) PROVE Exact'
  <2>1. /\ \A d \in Coroutines \ {c} :
              /\ job'[d] = job[d] /\ Counts(d)' = Counts(d)
              /\ at'[d] \in Pulsing <=> at[d] \in Pulsing
              /\ at'[d] = "exchange" <=> at[d] = "exchange"
        /\ \A d \in Coroutines \ {c} : owner'[d] = owner[d]
        /\ c \in Coroutines
    BY <1>8 DEF Return, Counts
  <2>2. /\ at[c] \notin Pulsing /\ at'[c] \notin Pulsing
        /\ Counts(c)' = Counts(c) /\ owner' = owner
    BY <1>8 DEF Return, Counts
  <2>3. ASSUME NEW x \in Coroutines PROVE count'[x] = Total(x)'
    <3>1. count'[x] = count[x]
      BY <1>8 DEF Return, CountDown, SignalOwner
    <3>2. count[x] = Total(x) /\ count[x] \in Nat /\ x # NULL
      BY <1>c
    <3>3. /\ Total(x)' \in Nat
          /\ Total(x)' = Total(x) + One(owner'[c] = x) - One(owner[c] = x)
                 + One(job'[c] = x /\ at'[c] \in Pulsing) - One(job[c] = x /\ at[c] \in Pulsing)
                 + One(x = c /\ Counts(c)') - One(x = c /\ Counts(c))
                 + One(x = c /\ at'[c] = "exchange") - One(x = c /\ at[c] = "exchange")
      BY <2>1, Balance
    <3> QED BY <2>2, <3>1, <3>2, <3>3 DEF One
  <2> QED BY <2>3 DEF Exact
<1>9. ASSUME NEW c \in Coroutines, FinalCount(c) PROVE Exact'
  <2>1. /\ \A d \in Coroutines \ {c} :
              /\ job'[d] = job[d] /\ Counts(d)' = Counts(d)
              /\ at'[d] \in Pulsing <=> at[d] \in Pulsing
              /\ at'[d] = "exchange" <=> at[d] = "exchange"
        /\ \A d \in Coroutines \ {c} : owner'[d] = owner[d]
        /\ c \in Coroutines
    BY <1>9 DEF FinalCount, Counts
  <2>2. /\ at[c] \notin Pulsing /\ at'[c] \notin Pulsing
        /\ Counts(c)' = Counts(c) /\ owner' = owner
    BY <1>9 DEF FinalCount, Counts
  <2>3. ASSUME NEW x \in Coroutines PROVE count'[x] = Total(x)'
    <3>1. count'[x] = count[x]
      BY <1>9 DEF FinalCount, CountDown, SignalOwner
    <3>2. count[x] = Total(x) /\ count[x] \in Nat /\ x # NULL
      BY <1>c
    <3>3. /\ Total(x)' \in Nat
          /\ Total(x)' = Total(x) + One(owner'[c] = x) - One(owner[c] = x)
                 + One(job'[c] = x /\ at'[c] \in Pulsing) - One(job[c] = x /\ at[c] \in Pulsing)
                 + One(x = c /\ Counts(c)') - One(x = c /\ Counts(c))
                 + One(x = c /\ at'[c] = "exchange") - One(x = c /\ at[c] = "exchange")
      BY <2>1, Balance
    <3> QED BY <2>2, <3>1, <3>2, <3>3 DEF One
  <2> QED BY <2>3 DEF Exact
<1>10. ASSUME NEW c \in Coroutines, SetCompleted(c) PROVE Exact'
  <2>1. /\ \A d \in Coroutines \ {c} :
              /\ job'[d] = job[d] /\ Counts(d)' = Counts(d)
              /\ at'[d] \in Pulsing <=> at[d] \in Pulsing
              /\ at'[d] = "exchange" <=> at[d] = "exchange"
        /\ \A d \in Coroutines \ {c} : owner'[d] = owner[d]
        /\ c \in Coroutines
    BY <1>10 DEF SetCompleted, Counts, OrAbort
  <2>2. /\ at[c] \notin Pulsing /\ at'[c] \notin Pulsing
        /\ Counts(c)' = Counts(c) /\ owner' = owner
    BY <1>10 DEF SetCompleted, Counts, OrAbort
  <2>3. ASSUME NEW x \in Coroutines PROVE count'[x] = Total(x)'
    <3>1. count'[x] = count[x]
      BY <1>10 DEF SetCompleted, CountDown, SignalOwner, OrAbort
    <3>2. count[x] = Total(x) /\ count[x] \in Nat /\ x # NULL
      BY <1>c
    <3>3. /\ Total(x)' \in Nat
          /\ Total(x)' = Total(x) + One(owner'[c] = x) - One(owner[c] = x)
                 + One(job'[c] = x /\ at'[c] \in Pulsing) - One(job[c] = x /\ at[c] \in Pulsing)
                 + One(x = c /\ Counts(c)') - One(x = c /\ Counts(c))
                 + One(x = c /\ at'[c] = "exchange") - One(x = c /\ at[c] = "exchange")
      BY <2>1, Balance
    <3> QED BY <2>2, <3>1, <3>2, <3>3 DEF One
  <2> QED BY <2>3 DEF Exact
<1>11. ASSUME NEW c \in Coroutines, DeferCompletion(c) PROVE Exact'
  <2>1. /\ \A d \in Coroutines \ {c} :
              /\ job'[d] = job[d] /\ Counts(d)' = Counts(d)
              /\ at'[d] \in Pulsing <=> at[d] \in Pulsing
              /\ at'[d] = "exchange" <=> at[d] = "exchange"
        /\ \A d \in Coroutines \ {c} : owner'[d] = owner[d]
        /\ c \in Coroutines
    BY <1>11 DEF DeferCompletion, Counts
  <2>2. /\ at[c] \notin Pulsing /\ at'[c] \notin Pulsing
        /\ Counts(c)' = Counts(c) /\ owner' = owner
    BY <1>11 DEF DeferCompletion, Counts
  <2>3. ASSUME NEW x \in Coroutines PROVE count'[x] = Total(x)'
    <3>1. count'[x] = count[x]
      BY <1>11 DEF DeferCompletion, CountDown, SignalOwner
    <3>2. count[x] = Total(x) /\ count[x] \in Nat /\ x # NULL
      BY <1>c
    <3>3. /\ Total(x)' \in Nat
          /\ Total(x)' = Total(x) + One(owner'[c] = x) - One(owner[c] = x)
                 + One(job'[c] = x /\ at'[c] \in Pulsing) - One(job[c] = x /\ at[c] \in Pulsing)
                 + One(x = c /\ Counts(c)') - One(x = c /\ Counts(c))
                 + One(x = c /\ at'[c] = "exchange") - One(x = c /\ at[c] = "exchange")
      BY <2>1, Balance
    <3> QED BY <2>2, <3>1, <3>2, <3>3 DEF One
  <2> QED BY <2>3 DEF Exact
<1>12. ASSUME NEW c \in Coroutines, CompletionCountDown(c) PROVE Exact'
  <2>1. /\ \A d \in Coroutines \ {c} :
              /\ job'[d] = job[d] /\ Counts(d)' = Counts(d)
              /\ at'[d] \in Pulsing <=> at[d] \in Pulsing
              /\ at'[d] = "exchange" <=> at[d] = "exchange"
        /\ \A d \in Coroutines \ {c} : owner'[d] = owner[d]
        /\ c \in Coroutines
    BY <1>12 DEF CompletionCountDown, Counts
  <2>2. /\ at[c] \notin Pulsing /\ at'[c] \notin Pulsing /\ Counts(c) /\ ~Counts(c)'
        /\ owner' = owner
    BY <1>12 DEF CompletionCountDown, Counts
  <2>3. ASSUME NEW x \in Coroutines PROVE count'[x] = Total(x)'
    <3>1. count'[x] = IF x = c THEN count[x] - 1 ELSE count[x]
      BY <1>12 DEF CompletionCountDown, CountDown, SignalOwner
    <3>2. count[x] = Total(x) /\ count[x] \in Nat /\ x # NULL
      BY <1>c
    <3>3. /\ Total(x)' \in Nat
          /\ Total(x)' = Total(x) + One(owner'[c] = x) - One(owner[c] = x)
                 + One(job'[c] = x /\ at'[c] \in Pulsing) - One(job[c] = x /\ at[c] \in Pulsing)
                 + One(x = c /\ Counts(c)') - One(x = c /\ Counts(c))
                 + One(x = c /\ at'[c] = "exchange") - One(x = c /\ at[c] = "exchange")
      BY <2>1, Balance
    <3> QED BY <2>2, <3>1, <3>2, <3>3 DEF One
  <2> QED BY <2>3 DEF Exact
<1>13. ASSUME NEW c \in Coroutines, FinalSignalOwner(c) PROVE Exact'
  <2>1. /\ \A d \in Coroutines \ {c} :
              /\ job'[d] = job[d] /\ Counts(d)' = Counts(d)
              /\ at'[d] \in Pulsing <=> at[d] \in Pulsing
              /\ at'[d] = "exchange" <=> at[d] = "exchange"
        /\ \A d \in Coroutines \ {c} : owner'[d] = owner[d]
        /\ c \in Coroutines
    BY <1>13 DEF FinalSignalOwner, Counts, SignalOwner
  <2>2. /\ at[c] \notin Pulsing /\ at'[c] \notin Pulsing /\ ~Counts(c) /\ ~Counts(c)'
        /\ owner'[c] = NULL
    BY <1>13 DEF FinalSignalOwner, Counts, SignalOwner
  <2>3. ASSUME NEW x \in Coroutines PROVE count'[x] = Total(x)'
    <3>1. count'[x] = IF x = owner[c] THEN count[x] - 1 ELSE count[x]
      BY <1>13 DEF FinalSignalOwner, CountDown, SignalOwner, SignalOwner
    <3>2. count[x] = Total(x) /\ count[x] \in Nat /\ x # NULL
      BY <1>c
    <3>3. /\ Total(x)' \in Nat
          /\ Total(x)' = Total(x) + One(owner'[c] = x) - One(owner[c] = x)
                 + One(job'[c] = x /\ at'[c] \in Pulsing) - One(job[c] = x /\ at[c] \in Pulsing)
                 + One(x = c /\ Counts(c)') - One(x = c /\ Counts(c))
                 + One(x = c /\ at'[c] = "exchange") - One(x = c /\ at[c] = "exchange")
      BY <2>1, Balance
    <3> QED BY <2>2, <3>1, <3>2, <3>3 DEF One
  <2> QED BY <2>3 DEF Exact
<1>14. ASSUME NEW c \in Coroutines, NEW t \in Tasks, Create(c, t) PROVE Exact'
  <2>1. /\ \A d \in Coroutines \ {c} :
              /\ job'[d] = job[d] /\ Counts(d)' = Counts(d)
              /\ at'[d] \in Pulsing <=> at[d] \in Pulsing
              /\ at'[d] = "exchange" <=> at[d] = "exchange"
        /\ \A d \in Coroutines \ {c} : owner'[d] = owner[d]
        /\ c \in Coroutines
    BY <1>14 DEF Create, Counts
  <2>2. /\ at[c] \notin Pulsing /\ at'[c] \notin Pulsing
        /\ Counts(c)' = Counts(c) /\ owner' = owner
    BY <1>14 DEF Create, Counts
  <2>3. ASSUME NEW x \in Coroutines PROVE count'[x] = Total(x)'
    <3>1. count'[x] = count[x]
      BY <1>14 DEF Create, CountDown, SignalOwner
    <3>2. count[x] = Total(x) /\ count[x] \in Nat /\ x # NULL
      BY <1>c
    <3>3. /\ Total(x)' \in Nat
          /\ Total(x)' = Total(x) + One(owner'[c] = x) - One(owner[c] = x)
                 + One(job'[c] = x /\ at'[c] \in Pulsing) - One(job[c] = x /\ at[c] \in Pulsing)
                 + One(x = c /\ Counts(c)') - One(x = c /\ Counts(c))
                 + One(x = c /\ at'[c] = "exchange") - One(x = c /\ at[c] = "exchange")
      BY <2>1, Balance
    <3> QED BY <2>2, <3>1, <3>2, <3>3 DEF One
  <2> QED BY <2>3 DEF Exact
<1>15. ASSUME NEW c \in Coroutines, NEW t \in Tasks, Handover(c, t) PROVE Exact'
  <2>1. /\ \A d \in Coroutines \ {c} :
              /\ job'[d] = job[d] /\ Counts(d)' = Counts(d)
              /\ at'[d] \in Pulsing <=> at[d] \in Pulsing
              /\ at'[d] = "exchange" <=> at[d] = "exchange"
        /\ \A d \in Coroutines \ {c} : owner'[d] = owner[d]
        /\ c \in Coroutines
    BY <1>15 DEF Handover, Counts
  <2>2. /\ at[c] \notin Pulsing /\ at'[c] \notin Pulsing
        /\ Counts(c)' = Counts(c) /\ owner' = owner
    BY <1>15 DEF Handover, Counts
  <2>3. ASSUME NEW x \in Coroutines PROVE count'[x] = Total(x)'
    <3>1. count'[x] = count[x]
      BY <1>15 DEF Handover, CountDown, SignalOwner
    <3>2. count[x] = Total(x) /\ count[x] \in Nat /\ x # NULL
      BY <1>c
    <3>3. /\ Total(x)' \in Nat
          /\ Total(x)' = Total(x) + One(owner'[c] = x) - One(owner[c] = x)
                 + One(job'[c] = x /\ at'[c] \in Pulsing) - One(job[c] = x /\ at[c] \in Pulsing)
                 + One(x = c /\ Counts(c)') - One(x = c /\ Counts(c))
                 + One(x = c /\ at'[c] = "exchange") - One(x = c /\ at[c] = "exchange")
      BY <2>1, Balance
    <3> QED BY <2>2, <3>1, <3>2, <3>3 DEF One
  <2> QED BY <2>3 DEF Exact
<1>16. ASSUME FinalSetEvent PROVE Exact'
  <2>c. PICK c \in Coroutines : c = Root
    BY Numbers
  <2>1. /\ \A d \in Coroutines \ {c} :
              /\ job'[d] = job[d] /\ Counts(d)' = Counts(d)
              /\ at'[d] \in Pulsing <=> at[d] \in Pulsing
              /\ at'[d] = "exchange" <=> at[d] = "exchange"
        /\ \A d \in Coroutines \ {c} : owner'[d] = owner[d]
        /\ c \in Coroutines
    BY <1>16, <2>c DEF FinalSetEvent, Counts
  <2>2. /\ at[c] \notin Pulsing /\ at'[c] \notin Pulsing
        /\ Counts(c)' = Counts(c) /\ owner' = owner
    BY <1>16, <2>c DEF FinalSetEvent, Counts
  <2>3. ASSUME NEW x \in Coroutines PROVE count'[x] = Total(x)'
    <3>1. count'[x] = count[x]
      BY <1>16, <2>c DEF FinalSetEvent, CountDown, SignalOwner
    <3>2. count[x] = Total(x) /\ count[x] \in Nat /\ x # NULL
      BY <1>c
    <3>3. /\ Total(x)' \in Nat
          /\ Total(x)' = Total(x) + One(owner'[c] = x) - One(owner[c] = x)
                 + One(job'[c] = x /\ at'[c] \in Pulsing) - One(job[c] = x /\ at[c] \in Pulsing)
                 + One(x = c /\ Counts(c)') - One(x = c /\ Counts(c))
                 + One(x = c /\ at'[c] = "exchange") - One(x = c /\ at[c] = "exchange")
      BY <2>1, Balance
    <3> QED BY <2>2, <3>1, <3>2, <3>3 DEF One
  <2> QED BY <2>3 DEF Exact
<1>17. ASSUME FinalReady PROVE Exact'
  <2>c. PICK c \in Coroutines : c = Root
    BY Numbers
  <2>1. /\ \A d \in Coroutines \ {c} :
              /\ job'[d] = job[d] /\ Counts(d)' = Counts(d)
              /\ at'[d] \in Pulsing <=> at[d] \in Pulsing
              /\ at'[d] = "exchange" <=> at[d] = "exchange"
        /\ \A d \in Coroutines \ {c} : owner'[d] = owner[d]
        /\ c \in Coroutines
    BY <1>17, <2>c DEF FinalReady, Counts
  <2>2. /\ at[c] \notin Pulsing /\ at'[c] \notin Pulsing
        /\ Counts(c)' = Counts(c) /\ owner' = owner
    BY <1>17, <2>c DEF FinalReady, Counts
  <2>3. ASSUME NEW x \in Coroutines PROVE count'[x] = Total(x)'
    <3>1. count'[x] = count[x]
      BY <1>17, <2>c DEF FinalReady, CountDown, SignalOwner
    <3>2. count[x] = Total(x) /\ count[x] \in Nat /\ x # NULL
      BY <1>c
    <3>3. /\ Total(x)' \in Nat
          /\ Total(x)' = Total(x) + One(owner'[c] = x) - One(owner[c] = x)
                 + One(job'[c] = x /\ at'[c] \in Pulsing) - One(job[c] = x /\ at[c] \in Pulsing)
                 + One(x = c /\ Counts(c)') - One(x = c /\ Counts(c))
                 + One(x = c /\ at'[c] = "exchange") - One(x = c /\ at[c] = "exchange")
      BY <2>1, Balance
    <3> QED BY <2>2, <3>1, <3>2, <3>3 DEF One
  <2> QED BY <2>3 DEF Exact
<1>18. ASSUME FinalSuspend PROVE Exact'
  <2>c. PICK c \in Coroutines : c = Root
    BY Numbers
  <2>1. /\ \A d \in Coroutines \ {c} :
              /\ job'[d] = job[d] /\ Counts(d)' = Counts(d)
              /\ at'[d] \in Pulsing <=> at[d] \in Pulsing
              /\ at'[d] = "exchange" <=> at[d] = "exchange"
        /\ \A d \in Coroutines \ {c} : owner'[d] = owner[d]
        /\ c \in Coroutines
    BY <1>18, <2>c, FinalSuspendEffect DEF FinalSuspend, Counts
  <2>2. /\ at[c] \notin Pulsing /\ at'[c] \notin Pulsing
        /\ Counts(c)' = Counts(c) /\ owner' = owner
    BY <1>18, <2>c, FinalSuspendEffect DEF FinalSuspend, Counts
  <2>3. ASSUME NEW x \in Coroutines PROVE count'[x] = Total(x)'
    <3>1. count'[x] = count[x]
      BY <1>18, <2>c, FinalSuspendEffect DEF FinalSuspend, CountDown, SignalOwner
    <3>2. count[x] = Total(x) /\ count[x] \in Nat /\ x # NULL
      BY <1>c
    <3>3. /\ Total(x)' \in Nat
          /\ Total(x)' = Total(x) + One(owner'[c] = x) - One(owner[c] = x)
                 + One(job'[c] = x /\ at'[c] \in Pulsing) - One(job[c] = x /\ at[c] \in Pulsing)
                 + One(x = c /\ Counts(c)') - One(x = c /\ Counts(c))
                 + One(x = c /\ at'[c] = "exchange") - One(x = c /\ at[c] = "exchange")
      BY <2>1, Balance
    <3> QED BY <2>2, <3>1, <3>2, <3>3 DEF One
  <2> QED BY <2>3 DEF Exact
<1>19. ASSUME NEW c \in Tasks, FinisherSignal(c) PROVE Exact'
  <2>1. /\ \A d \in Coroutines \ {c} :
              /\ job'[d] = job[d] /\ Counts(d)' = Counts(d)
              /\ at'[d] \in Pulsing <=> at[d] \in Pulsing
              /\ at'[d] = "exchange" <=> at[d] = "exchange"
        /\ \A d \in Coroutines \ {c} : owner'[d] = owner[d]
        /\ c \in Coroutines
    BY <1>19 DEF FinisherSignal, Counts
  <2>2. /\ at' = at /\ job' = job /\ owner'[c] = NULL /\ Counts(c)' = Counts(c)
    BY <1>19 DEF FinisherSignal, Counts
  <2>3. ASSUME NEW x \in Coroutines PROVE count'[x] = Total(x)'
    <3>1. count'[x] = IF x = owner[c] THEN count[x] - 1 ELSE count[x]
      BY <1>19 DEF FinisherSignal, CountDown, SignalOwner
    <3>2. count[x] = Total(x) /\ count[x] \in Nat /\ x # NULL
      BY <1>c
    <3>3. /\ Total(x)' \in Nat
          /\ Total(x)' = Total(x) + One(owner'[c] = x) - One(owner[c] = x)
                 + One(job'[c] = x /\ at'[c] \in Pulsing) - One(job[c] = x /\ at[c] \in Pulsing)
                 + One(x = c /\ Counts(c)') - One(x = c /\ Counts(c))
                 + One(x = c /\ at'[c] = "exchange") - One(x = c /\ at[c] = "exchange")
      BY <2>1, Balance
    <3> QED BY <2>2, <3>1, <3>2, <3>3 DEF One
  <2> QED BY <2>3 DEF Exact
<1>20. ASSUME FinisherSetEvent PROVE Exact'
  BY <1>20, <1>e DEF FinisherSetEvent, root, ThreadGo
<1>21. ASSUME FinisherSet PROVE Exact'
  BY <1>21, <1>e DEF FinisherSet, root, ThreadGo
<1>22. ASSUME Wait PROVE Exact'
  BY <1>22, <1>e DEF Wait, root, ThreadGo
<1>23. ASSUME WakeUp PROVE Exact'
  BY <1>23, <1>e DEF WakeUp, root, ThreadGo
<1>24. ASSUME Value PROVE Exact'
  BY <1>24, <1>e DEF Value, root, ThreadGo
<1>25. ASSUME Drop PROVE Exact'
  BY <1>25, <1>e DEF Drop, root, ThreadGo
<1>26. ASSUME Abandon PROVE Exact'
  BY <1>26, <1>e DEF Abandon, root, ThreadGo
<1> QED
  BY <1>0, <1>1, <1>2, <1>3, <1>4, <1>5, <1>6, <1>7, <1>8, <1>9, <1>10, <1>11, <1>12, <1>13,
     <1>14, <1>15, <1>16, <1>17, <1>18, <1>19, <1>20, <1>21, <1>22, <1>23, <1>24, <1>25,
     <1>26
     DEF Next, Own, Finish, RootFinish, FinisherStep, ThreadStep
-----------------------------------------------------------------------------
(* The types *)

LEMMA CountIsFunction ==
    ASSUME TypeOK, Tree, [Next]_vars PROVE count' = [c \in Coroutines |-> count'[c]]
<1>a. count = [c \in Coroutines |-> count[c]]
  BY DEF TypeOK
<1> DEFINE Goal == count' = [c \in Coroutines |-> count'[c]]
<1>b. ASSUME UNCHANGED count PROVE Goal
  BY <1>a, <1>b
<1>c. ASSUME NEW cs, CountDown(cs) PROVE Goal
  BY <1>c DEF CountDown
<1>d. ASSUME NEW c \in Coroutines, count' = [count EXCEPT ![c] = @ + 1] PROVE Goal
  BY <1>a, <1>d
<1>e. \A c \in Coroutines : at[c] = "countUp" => job[c] \in Coroutines
  BY Numbers DEF Tree, Setting
<1> HIDE DEF Goal
<1>0. CASE UNCHANGED vars
  BY <1>0, <1>a DEF vars, Goal
<1>1. ASSUME NEW c \in Coroutines, IsZero(c) PROVE Goal
  BY <1>1, <1>b DEF IsZero
<1>2. ASSUME NEW c \in Coroutines, CountUp(c) PROVE Goal
  BY <1>2, <1>d, <1>e DEF CountUp, Go
<1>3. ASSUME NEW c \in Coroutines, Reserve(c) PROVE Goal
  BY <1>3, <1>d DEF Reserve
<1>4. ASSUME NEW c \in Coroutines, ExchangeOwner(c) PROVE Goal
  BY <1>4, <1>c DEF ExchangeOwner
<1>5. ASSUME NEW c \in Coroutines, OwnerCountDown(c) PROVE Goal
  BY <1>5, <1>c DEF OwnerCountDown
<1>6. ASSUME NEW c \in Coroutines, RecheckZero(c) PROVE Goal
  BY <1>6, <1>b DEF RecheckZero
<1>7. ASSUME NEW c \in Coroutines, SignalForTask(c) PROVE Goal
  BY <1>7, <1>c DEF SignalForTask, SignalOwner
<1>8. ASSUME NEW c \in Coroutines, Return(c) PROVE Goal
  BY <1>8, <1>b DEF Return
<1>9. ASSUME NEW c \in Coroutines, FinalCount(c) PROVE Goal
  BY <1>9, <1>b DEF FinalCount
<1>10. ASSUME NEW c \in Coroutines, SetCompleted(c) PROVE Goal
  BY <1>10, <1>b DEF SetCompleted
<1>11. ASSUME NEW c \in Coroutines, DeferCompletion(c) PROVE Goal
  BY <1>11, <1>b DEF DeferCompletion
<1>12. ASSUME NEW c \in Coroutines, CompletionCountDown(c) PROVE Goal
  BY <1>12, <1>c DEF CompletionCountDown
<1>13. ASSUME NEW c \in Coroutines, FinalSignalOwner(c) PROVE Goal
  BY <1>13, <1>c DEF FinalSignalOwner, SignalOwner
<1>14. ASSUME NEW c \in Coroutines, NEW t \in Tasks, Create(c, t) PROVE Goal
  BY <1>14, <1>b DEF Create
<1>15. ASSUME NEW c \in Coroutines, NEW t \in Tasks, Handover(c, t) PROVE Goal
  BY <1>15, <1>b DEF Handover
<1>16. ASSUME FinalSetEvent PROVE Goal
  BY <1>16, <1>b DEF FinalSetEvent
<1>17. ASSUME FinalReady PROVE Goal
  BY <1>17, <1>b DEF FinalReady
<1>18. ASSUME FinalSuspend PROVE Goal
  BY <1>18, <1>b DEF FinalSuspend
<1>19. ASSUME NEW c \in Tasks, FinisherSignal(c) PROVE Goal
  BY <1>19 DEF FinisherSignal, Goal
<1>20. ASSUME FinisherSetEvent PROVE Goal
  BY <1>20, <1>b DEF FinisherSetEvent
<1>21. ASSUME FinisherSet PROVE Goal
  BY <1>21, <1>b DEF FinisherSet
<1>22. ASSUME Wait PROVE Goal
  BY <1>22, <1>b DEF Wait
<1>23. ASSUME WakeUp PROVE Goal
  BY <1>23, <1>b DEF WakeUp
<1>24. ASSUME Value PROVE Goal
  BY <1>24, <1>b DEF Value
<1>25. ASSUME Drop PROVE Goal
  BY <1>25, <1>b DEF Drop
<1>26. ASSUME Abandon PROVE Goal
  BY <1>26, <1>b DEF Abandon
<1> QED
  BY <1>0, <1>1, <1>2, <1>3, <1>4, <1>5, <1>6, <1>7, <1>8, <1>9, <1>10, <1>11, <1>12, <1>13,
     <1>14, <1>15, <1>16, <1>17, <1>18, <1>19, <1>20, <1>21, <1>22, <1>23, <1>24, <1>25,
     <1>26
     DEF Next, Own, Finish, RootFinish, FinisherStep, ThreadStep, Goal

LEMMA TypeStep ==
    ASSUME TypeOK, Exact, Tree, Ending, StatusAt, Signaled, FreedLast, [Next]_vars, Exact'
    PROVE  TypeOK'
<1>a. /\ count \in [Coroutines -> Nat] /\ at \in [Coroutines -> Places]
      /\ owner \in [Coroutines -> Coroutines \cup {Outer, NULL}]
      /\ job \in [Coroutines -> Tasks \cup {NULL}]
      /\ finisher \in [Coroutines -> {"none", "waiting", "run", "set", "end"}]
      /\ handovers \in 0 .. Handovers /\ status \in Statuses /\ frees \in 0 .. 1
      /\ isSet \in BOOLEAN
      /\ thread \in {"start", "asleep", "woken", "value", "drop", "abandon", "gone"}
  BY DEF TypeOK
<1>b. \A c \in Coroutines : at[c] \in Setting =>
         job[c] \in Tasks /\ c # job[c] /\ job[c] \in Coroutines
  <2>1. \A c \in Coroutines : at[c] \in Setting => job[c] \in Tasks /\ c # job[c]
    BY Numbers DEF Tree
  <2> QED BY <2>1, Numbers
<1>c. count' \in [Coroutines -> Nat]
  <2>1. \A c \in Coroutines : count'[c] \in Nat
    BY NextFinite DEF Exact, Total, One
  <2> QED BY <2>1, CountIsFunction
<1>d. /\ Tasks \subseteq Coroutines /\ Root \in Coroutines
      /\ \A c \in Coroutines : c # Root => c \in Tasks
  BY Numbers
<1> DEFINE Placed == /\ at' \in [Coroutines -> Places]
                     /\ job' \in [Coroutines -> Tasks \cup {NULL}]
                     /\ owner' \in [Coroutines -> Coroutines \cup {Outer, NULL}]
           Advanced == /\ finisher' \in [Coroutines -> {"none", "waiting", "run", "set", "end"}]
                        /\ handovers' \in 0 .. Handovers
           Threaded == /\ status' \in Statuses /\ frees' \in 0 .. 1 /\ isSet' \in BOOLEAN
                       /\ thread' \in {"start", "asleep", "woken", "value", "drop", "abandon",
                                       "gone"}
<1>e. ASSUME UNCHANGED root PROVE Threaded
  BY <1>a, <1>e DEF root
<1>f. ASSUME NEW cs, CountDown(cs)
      PROVE  finisher' \in [Coroutines -> {"none", "waiting", "run", "set", "end"}]
  BY <1>a, <1>f DEF CountDown
<1>g. ASSUME NEW c \in Coroutines, at[c] \in Setting, Settle(c)
      PROVE  at' \in [Coroutines -> Places] /\ job' \in [Coroutines -> Tasks \cup {NULL}]
  BY <1>g, Settled
<1>h. ASSUME Placed, Advanced, Threaded PROVE TypeOK'
  BY <1>c, <1>h DEF TypeOK
<1>i. thread # "gone" => frees = 0
  BY <1>a DEF FreedLast
<1>j. thread = "value" =>
         at[Root] \in {"finish", "signalOwner", "finalReady", "finalSuspend", "end"}
  BY DEF Signaled
<1> HIDE DEF Placed, Advanced, Threaded
<1>0. CASE UNCHANGED vars
  BY <1>0, <1>a DEF vars, TypeOK
<1>1. ASSUME NEW c \in Coroutines, IsZero(c) PROVE TypeOK'
  <2>1. Placed
    BY <1>1, <1>a, <1>g DEF IsZero, Go, Places, Setting, Placed
  <2>2. Advanced
    BY <1>1, <1>a DEF IsZero, Advanced
  <2>3. Threaded
    BY <1>1, <1>e DEF IsZero, Threaded
  <2> QED BY <1>h, <2>1, <2>2, <2>3
<1>2. ASSUME NEW c \in Coroutines, CountUp(c) PROVE TypeOK'
  <2>1. Placed
    BY <1>2, <1>a, <1>b, <1>d DEF CountUp, Go, Places, Setting, Placed
  <2>2. Advanced
    BY <1>2, <1>a DEF CountUp, Advanced
  <2>3. Threaded
    BY <1>2, <1>e DEF CountUp, Threaded
  <2> QED BY <1>h, <2>1, <2>2, <2>3
<1>3. ASSUME NEW c \in Coroutines, Reserve(c) PROVE TypeOK'
  <2>1. Placed
    BY <1>3, <1>a, <1>b, <1>d DEF Reserve, Go, Places, Setting, Placed
  <2>2. Advanced
    BY <1>3, <1>a DEF Reserve, Advanced
  <2>3. Threaded
    BY <1>3, <1>e DEF Reserve, Threaded
  <2> QED BY <1>h, <2>1, <2>2, <2>3
<1>4. ASSUME NEW c \in Coroutines, ExchangeOwner(c) PROVE TypeOK'
  <2>1. Placed
    BY <1>4, <1>a, <1>b, <1>d DEF ExchangeOwner, Go, Places, Setting, Placed
  <2>2. Advanced
    BY <1>4, <1>a, <1>f DEF ExchangeOwner, Advanced
  <2>3. Threaded
    BY <1>4, <1>e DEF ExchangeOwner, Threaded
  <2> QED BY <1>h, <2>1, <2>2, <2>3
<1>5. ASSUME NEW c \in Coroutines, OwnerCountDown(c) PROVE TypeOK'
  <2>1. Placed
    BY <1>5, <1>a, <1>b, <1>d DEF OwnerCountDown, Go, Places, Setting, Placed
  <2>2. Advanced
    BY <1>5, <1>a, <1>f DEF OwnerCountDown, Advanced
  <2>3. Threaded
    BY <1>5, <1>e DEF OwnerCountDown, Threaded
  <2> QED BY <1>h, <2>1, <2>2, <2>3
<1>6. ASSUME NEW c \in Coroutines, RecheckZero(c) PROVE TypeOK'
  <2>1. Placed
    BY <1>6, <1>a, <1>g DEF RecheckZero, Go, Places, Setting, Placed
  <2>2. Advanced
    BY <1>6, <1>a DEF RecheckZero, Advanced
  <2>3. Threaded
    BY <1>6, <1>e DEF RecheckZero, Threaded
  <2> QED BY <1>h, <2>1, <2>2, <2>3
<1>7. ASSUME NEW c \in Coroutines, SignalForTask(c) PROVE TypeOK'
  <2>1. Placed
    BY <1>7, <1>a, <1>b, <1>g DEF SignalForTask, SignalOwner, Setting, Placed
  <2>2. Advanced
    BY <1>7, <1>a, <1>f DEF SignalForTask, SignalOwner, Advanced
  <2>3. Threaded
    BY <1>7, <1>e DEF SignalForTask, Threaded
  <2> QED BY <1>h, <2>1, <2>2, <2>3
<1>8. ASSUME NEW c \in Coroutines, Return(c) PROVE TypeOK'
  <2>1. Placed
    BY <1>8, <1>a, <1>b, <1>d DEF Return, Go, Places, Setting, Placed
  <2>2. Advanced
    BY <1>8, <1>a DEF Return, Advanced
  <2>3. Threaded
    <3>1. CASE c = Root
      BY <1>8, <3>1, <1>a, ReturnEffect DEF Return, Statuses, Moves, Threaded
    <3>2. CASE c # Root
      BY <1>8, <3>2, <1>a DEF Return, Threaded
    <3> QED BY <3>1, <3>2 DEF Threaded
  <2> QED BY <1>h, <2>1, <2>2, <2>3
<1>9. ASSUME NEW c \in Coroutines, FinalCount(c) PROVE TypeOK'
  <2>1. Placed
    BY <1>9, <1>a, <1>b, <1>d DEF FinalCount, Go, Places, Setting, Placed
  <2>2. Advanced
    BY <1>9, <1>a DEF FinalCount, Advanced
  <2>3. Threaded
    BY <1>9, <1>e DEF FinalCount, Threaded
  <2> QED BY <1>h, <2>1, <2>2, <2>3
<1>10. ASSUME NEW c \in Coroutines, SetCompleted(c) PROVE TypeOK'
  <2>1. Placed
    <3>1. CASE c = Root
      BY <1>10, <3>1, <1>a, SetCompletedEffect DEF SetCompleted, Places, Placed
    <3>2. CASE c # Root
      BY <1>10, <3>2, <1>a DEF SetCompleted, Go, Places, Placed
    <3> QED BY <3>1, <3>2 DEF Placed
  <2>2. Advanced
    BY <1>10, <1>a DEF SetCompleted, Advanced
  <2>3. Threaded
    <3>1. CASE c = Root
      BY <1>10, <3>1, <1>a, SetCompletedEffect DEF SetCompleted, Statuses, Moves, Threaded
    <3>2. CASE c # Root
      BY <1>10, <3>2, <1>a DEF SetCompleted, Threaded
    <3> QED BY <3>1, <3>2 DEF Threaded
  <2> QED BY <1>h, <2>1, <2>2, <2>3
<1>11. ASSUME NEW c \in Coroutines, DeferCompletion(c) PROVE TypeOK'
  <2>1. Placed
    BY <1>11, <1>a, <1>b, <1>d DEF DeferCompletion, Go, Places, Setting, Placed
  <2>2. Advanced
    BY <1>11, <1>a DEF DeferCompletion, Advanced
  <2>3. Threaded
    BY <1>11, <1>e DEF DeferCompletion, Threaded
  <2> QED BY <1>h, <2>1, <2>2, <2>3
<1>12. ASSUME NEW c \in Coroutines, CompletionCountDown(c) PROVE TypeOK'
  <2>1. Placed
    BY <1>12, <1>a, <1>b, <1>d DEF CompletionCountDown, Go, Places, Setting, Placed
  <2>2. Advanced
    BY <1>12, <1>a, <1>f DEF CompletionCountDown, Advanced
  <2>3. Threaded
    BY <1>12, <1>e DEF CompletionCountDown, Threaded
  <2> QED BY <1>h, <2>1, <2>2, <2>3
<1>13. ASSUME NEW c \in Coroutines, FinalSignalOwner(c) PROVE TypeOK'
  <2>1. Placed
    BY <1>13, <1>a DEF FinalSignalOwner, SignalOwner, Go, Places, Placed
  <2>2. Advanced
    BY <1>13, <1>a, <1>f DEF FinalSignalOwner, SignalOwner, Advanced
  <2>3. Threaded
    BY <1>13, <1>e DEF FinalSignalOwner, Threaded
  <2> QED BY <1>h, <2>1, <2>2, <2>3
<1>14. ASSUME NEW c \in Coroutines, NEW t \in Tasks, Create(c, t) PROVE TypeOK'
  <2>1. Placed
    BY <1>14, <1>a, <1>b, <1>d DEF Create, Go, Places, Setting, Placed
  <2>2. Advanced
    BY <1>14, <1>a DEF Create, Advanced
  <2>3. Threaded
    BY <1>14, <1>e DEF Create, Threaded
  <2> QED BY <1>h, <2>1, <2>2, <2>3
<1>15. ASSUME NEW c \in Coroutines, NEW t \in Tasks, Handover(c, t) PROVE TypeOK'
  <2>1. Placed
    BY <1>15, <1>a, <1>b, <1>d DEF Handover, Go, Places, Setting, Placed
  <2>2. Advanced
    BY <1>15, <1>a, TaskAssumption DEF Handover, Advanced
  <2>3. Threaded
    BY <1>15, <1>e DEF Handover, Threaded
  <2> QED BY <1>h, <2>1, <2>2, <2>3
<1>16. ASSUME FinalSetEvent PROVE TypeOK'
  <2>1. Placed
    BY <1>16, <1>a, <1>b, <1>d DEF FinalSetEvent, Go, Places, Setting, Placed
  <2>2. Advanced
    BY <1>16, <1>a DEF FinalSetEvent, Advanced
  <2>3. Threaded
    BY <1>16, <1>a DEF FinalSetEvent, SetEvent, Threaded
  <2> QED BY <1>h, <2>1, <2>2, <2>3
<1>17. ASSUME FinalReady PROVE TypeOK'
  <2>1. Placed
    BY <1>17, <1>a, <1>b, <1>d DEF FinalReady, Go, Places, Setting, Placed
  <2>2. Advanced
    BY <1>17, <1>a DEF FinalReady, Advanced
  <2>3. Threaded
    <3>1. frees' \in 0 .. 1
      BY <1>17, <1>a DEF FinalReady, FreedLast, Go
    <3> QED BY <1>17, <3>1, <1>a DEF FinalReady, Threaded
  <2> QED BY <1>h, <2>1, <2>2, <2>3
<1>18. ASSUME FinalSuspend PROVE TypeOK'
  <2>1. Placed
    BY <1>18, FinalSuspendEffect, <1>a, <1>d DEF FinalSuspend, Places, Placed
  <2>2. Advanced
    BY <1>18, <1>a DEF FinalSuspend, Advanced
  <2>3. Threaded
    <3>1. frees' \in 0 .. 1
      BY <1>18, <1>a, FinalSuspendEffect DEF FinalSuspend, FreedLast
    <3>2. status' \in Statuses
      BY <1>18, FinalSuspendEffect DEF Statuses, Moves
    <3> QED BY <1>18, <3>1, <3>2, <1>a DEF FinalSuspend, Threaded
  <2> QED BY <1>h, <2>1, <2>2, <2>3
<1>19. ASSUME NEW c \in Tasks, FinisherSignal(c) PROVE TypeOK'
  <2>1. Placed
    BY <1>19, <1>a, <1>d DEF FinisherSignal, Placed
  <2>2. Advanced
    BY <1>19, <1>a DEF FinisherSignal, Advanced
  <2>3. Threaded
    BY <1>19, <1>e DEF FinisherSignal, Threaded
  <2> QED BY <1>h, <2>1, <2>2, <2>3
<1>20. ASSUME FinisherSetEvent PROVE TypeOK'
  <2>1. Placed
    BY <1>20, <1>a, <1>b, <1>d DEF FinisherSetEvent, Go, Places, Setting, Placed
  <2>2. Advanced
    BY <1>20, <1>a DEF FinisherSetEvent, Tree, Advanced
  <2>3. Threaded
    BY <1>20, <1>a DEF FinisherSetEvent, SetEvent, Threaded
  <2> QED BY <1>h, <2>1, <2>2, <2>3
<1>21. ASSUME FinisherSet PROVE TypeOK'
  <2>1. Placed
    BY <1>21, <1>a, <1>b, <1>d DEF FinisherSet, Go, Places, Setting, Placed
  <2>2. Advanced
    BY <1>21, <1>a, FinisherSetEffect DEF FinisherSet, Advanced
  <2>3. Threaded
    <3>1. frees' \in 0 .. 1
      BY <1>21, <1>a, FinisherSetEffect DEF FinisherSet, FreedLast
    <3>2. status' \in Statuses
      BY <1>21, FinisherSetEffect DEF Statuses, Moves
    <3> QED BY <1>21, <3>1, <3>2, <1>a DEF FinisherSet, Threaded
  <2> QED BY <1>h, <2>1, <2>2, <2>3
<1>22. ASSUME Wait PROVE TypeOK'
  <2>1. Placed
    BY <1>22, <1>a, <1>b, <1>d DEF Wait, Go, Places, Setting, Placed
  <2>2. Advanced
    BY <1>22, <1>a DEF Wait, Advanced
  <2>3. Threaded
    BY <1>22, <1>a DEF Wait, ThreadGo, Threaded
  <2> QED BY <1>h, <2>1, <2>2, <2>3
<1>23. ASSUME WakeUp PROVE TypeOK'
  <2>1. Placed
    BY <1>23, <1>a, <1>b, <1>d DEF WakeUp, Go, Places, Setting, Placed
  <2>2. Advanced
    BY <1>23, <1>a DEF WakeUp, Advanced
  <2>3. Threaded
    BY <1>23, <1>a DEF WakeUp, ThreadGo, Threaded
  <2> QED BY <1>h, <2>1, <2>2, <2>3
<1>24. ASSUME Value PROVE TypeOK'
  <2>1. Placed
    BY <1>24, <1>a, <1>b, <1>d DEF Value, Go, Places, Setting, Placed
  <2>2. Advanced
    BY <1>24, <1>a DEF Value, Advanced
  <2>3. Threaded
    <3>1. status \in Done
      BY <1>24, StatusKept, <1>j DEF Value, ThreadGo, Done, StatusAt, Live
    <3> QED BY <1>24, <1>a, <3>1 DEF Value, ThreadGo, Threaded
  <2> QED BY <1>h, <2>1, <2>2, <2>3
<1>25. ASSUME Drop PROVE TypeOK'
  <2>1. Placed
    BY <1>25, <1>a, <1>b, <1>d DEF Drop, Go, Places, Setting, Placed
  <2>2. Advanced
    BY <1>25, <1>a DEF Drop, Advanced
  <2>3. Threaded
    BY <1>25, <1>a, <1>i DEF Drop, Threaded
  <2> QED BY <1>h, <2>1, <2>2, <2>3
<1>26. ASSUME Abandon PROVE TypeOK'
  <2>1. Placed
    BY <1>26, <1>a, <1>b, <1>d DEF Abandon, Go, Places, Setting, Placed
  <2>2. Advanced
    BY <1>26, <1>a DEF Abandon, Advanced
  <2>3. Threaded
    <3>1. frees' \in 0 .. 1
      BY <1>26, <1>a, <1>i DEF Abandon, ThreadGo
    <3>2. status' \in Statuses /\ thread' = "gone"
      BY <1>26, AbandonEffect DEF Statuses, Moves
    <3> QED BY <1>26, <3>1, <3>2, <1>a DEF Abandon, Threaded
  <2> QED BY <1>h, <2>1, <2>2, <2>3
<1> QED
  BY <1>0, <1>1, <1>2, <1>3, <1>4, <1>5, <1>6, <1>7, <1>8, <1>9, <1>10, <1>11, <1>12, <1>13,
     <1>14, <1>15, <1>16, <1>17, <1>18, <1>19, <1>20, <1>21, <1>22, <1>23, <1>24, <1>25,
     <1>26
     DEF Next, Own, Finish, RootFinish, FinisherStep, ThreadStep

-----------------------------------------------------------------------------
(* What stays: who is finished, and who owns whom until then *)

\* An owner is set by a coroutine that exchanges it, and forgotten for a finished task.
LEMMA OwnersFrame ==
    ASSUME TypeOK, Tree, Ending, [Next]_vars, NEW k \in Coroutines
    PROVE  \/ owner'[k] = owner[k]
           \/ owner'[k] = NULL /\ Finished(k)
           \/ \E c \in Coroutines : /\ at[c] = "exchange" /\ job[c] = k /\ owner'[k] = c
                                    /\ at'[c] = "settle"
<1>a. /\ at \in [Coroutines -> Places]
      /\ owner \in [Coroutines -> Coroutines \cup {Outer, NULL}]
      /\ job \in [Coroutines -> Tasks \cup {NULL}]
      /\ finisher \in [Coroutines -> {"none", "waiting", "run", "set", "end"}]
  BY DEF TypeOK
<1>b. \A c \in Coroutines : at[c] \in Setting =>
         job[c] \in Tasks /\ c # job[c] /\ job[c] \in Coroutines
  <2>1. \A c \in Coroutines : at[c] \in Setting => job[c] \in Tasks /\ c # job[c]
    BY Numbers DEF Tree
  <2> QED BY <2>1, Numbers
<1>c. ASSUME NEW c \in Coroutines, at[c] \in Setting, Settle(c)
      PROVE  /\ at'[c] = "body" /\ job'[c] = NULL
             /\ \A d \in Coroutines \ {c} :
                   /\ job'[d] = job[d]
                   /\ at'[d] = IF d = job[c] /\ at[d] = "made" THEN "body" ELSE at[d]
  BY <1>c, Settled
<1>d. Tasks \subseteq Coroutines /\ Root \in Coroutines /\ NULL \notin Coroutines
  BY Numbers
<1> DEFINE Kept == owner'[k] = owner[k]
           Forgotten == owner'[k] = NULL /\ Finished(k)
           Set == \E c \in Coroutines : /\ at[c] = "exchange" /\ job[c] = k /\ owner'[k] = c
                                        /\ at'[c] = "settle"
<1>e. ASSUME UNCHANGED owner PROVE Kept
  BY <1>e
<1>f. ASSUME NEW u \in Coroutines, Finished(u), owner' = [owner EXCEPT ![u] = NULL]
      PROVE  Kept \/ Forgotten
  BY <1>a, <1>f
<1> HIDE DEF Kept, Forgotten, Set
<1>0. CASE UNCHANGED vars
  BY <1>0, <1>e DEF vars
<1>1. ASSUME NEW c \in Coroutines, IsZero(c) PROVE Kept \/ Forgotten \/ Set
  BY <1>1, <1>e DEF IsZero
<1>2. ASSUME NEW c \in Coroutines, CountUp(c) PROVE Kept \/ Forgotten \/ Set
  BY <1>2, <1>e DEF CountUp
<1>3. ASSUME NEW c \in Coroutines, Reserve(c) PROVE Kept \/ Forgotten \/ Set
  BY <1>3, <1>e DEF Reserve
<1>4. ASSUME NEW c \in Coroutines, ExchangeOwner(c) PROVE Kept \/ Forgotten \/ Set
  BY <1>4, <1>a, <1>b DEF ExchangeOwner, Go, Kept, Set, Setting
<1>5. ASSUME NEW c \in Coroutines, OwnerCountDown(c) PROVE Kept \/ Forgotten \/ Set
  BY <1>5, <1>e DEF OwnerCountDown
<1>6. ASSUME NEW c \in Coroutines, RecheckZero(c) PROVE Kept \/ Forgotten \/ Set
  BY <1>6, <1>e DEF RecheckZero
<1>7. ASSUME NEW c \in Coroutines, SignalForTask(c) PROVE Kept \/ Forgotten \/ Set
  <2>1. at[c] = "signal" /\ job[c] \in Coroutines /\ Finished(job[c])
    BY <1>7, <1>b DEF SignalForTask, Ending, EndingAt, Setting
  <2> QED BY <1>7, <1>f, <2>1 DEF SignalForTask, SignalOwner
<1>8. ASSUME NEW c \in Coroutines, Return(c) PROVE Kept \/ Forgotten \/ Set
  BY <1>8, <1>e DEF Return
<1>9. ASSUME NEW c \in Coroutines, FinalCount(c) PROVE Kept \/ Forgotten \/ Set
  BY <1>9, <1>e DEF FinalCount
<1>10. ASSUME NEW c \in Coroutines, SetCompleted(c) PROVE Kept \/ Forgotten \/ Set
  BY <1>10, <1>e DEF SetCompleted
<1>11. ASSUME NEW c \in Coroutines, DeferCompletion(c) PROVE Kept \/ Forgotten \/ Set
  BY <1>11, <1>e DEF DeferCompletion
<1>12. ASSUME NEW c \in Coroutines, CompletionCountDown(c) PROVE Kept \/ Forgotten \/ Set
  BY <1>12, <1>e DEF CompletionCountDown
<1>13. ASSUME NEW c \in Coroutines, FinalSignalOwner(c) PROVE Kept \/ Forgotten \/ Set
  <2>1. at[c] = "signalOwner" /\ Finished(c)
    BY <1>13 DEF FinalSignalOwner, Go, Ending, EndingAt, Finished, Counts
  <2> QED BY <1>13, <1>f, <2>1 DEF FinalSignalOwner, SignalOwner
<1>14. ASSUME NEW c \in Coroutines, NEW t \in Tasks, Create(c, t) PROVE Kept \/ Forgotten \/ Set
  BY <1>14, <1>e DEF Create
<1>15. ASSUME NEW c \in Coroutines, NEW t \in Tasks, Handover(c, t) PROVE Kept \/ Forgotten \/ Set
  BY <1>15, <1>e DEF Handover
<1>16. ASSUME FinalSetEvent PROVE Kept \/ Forgotten \/ Set
  BY <1>16, <1>e DEF FinalSetEvent
<1>17. ASSUME FinalReady PROVE Kept \/ Forgotten \/ Set
  BY <1>17, <1>e DEF FinalReady
<1>18. ASSUME FinalSuspend PROVE Kept \/ Forgotten \/ Set
  BY <1>18, <1>e DEF FinalSuspend
<1>19. ASSUME NEW c \in Tasks, FinisherSignal(c) PROVE Kept \/ Forgotten \/ Set
  <2>1. c \in Coroutines /\ Finished(c)
    BY <1>19, <1>d DEF FinisherSignal, Ending, EndingAt
  <2> QED BY <1>19, <1>f, <2>1 DEF FinisherSignal
<1>20. ASSUME FinisherSetEvent PROVE Kept \/ Forgotten \/ Set
  BY <1>20, <1>e DEF FinisherSetEvent
<1>21. ASSUME FinisherSet PROVE Kept \/ Forgotten \/ Set
  BY <1>21, <1>e DEF FinisherSet
<1>22. ASSUME Wait PROVE Kept \/ Forgotten \/ Set
  BY <1>22, <1>e DEF Wait
<1>23. ASSUME WakeUp PROVE Kept \/ Forgotten \/ Set
  BY <1>23, <1>e DEF WakeUp
<1>24. ASSUME Value PROVE Kept \/ Forgotten \/ Set
  BY <1>24, <1>e DEF Value
<1>25. ASSUME Drop PROVE Kept \/ Forgotten \/ Set
  BY <1>25, <1>e DEF Drop
<1>26. ASSUME Abandon PROVE Kept \/ Forgotten \/ Set
  BY <1>26, <1>e DEF Abandon
<1> QED
  BY <1>0, <1>1, <1>2, <1>3, <1>4, <1>5, <1>6, <1>7, <1>8, <1>9, <1>10, <1>11, <1>12, <1>13,
     <1>14, <1>15, <1>16, <1>17, <1>18, <1>19, <1>20, <1>21, <1>22, <1>23, <1>24, <1>25,
     <1>26
     DEF Next, Own, Finish, RootFinish, FinisherStep, ThreadStep, Kept, Forgotten, Set

LEMMA ChildlessStays ==
    ASSUME TypeOK, Tree, Ending, [Next]_vars, NEW x \in Coroutines, Childless(x),
           at[x] # "exchange"
    PROVE  Childless(x)'
BY OwnersFrame, Numbers DEF Childless

\* Nobody counts itself again.
LEMMA UncountedStays ==
    ASSUME TypeOK, Tree, StatusAt, [Next]_vars, NEW x \in Coroutines, ~Counts(x)
    PROVE  ~Counts(x)'
<1>a. /\ at \in [Coroutines -> Places]
      /\ owner \in [Coroutines -> Coroutines \cup {Outer, NULL}]
      /\ job \in [Coroutines -> Tasks \cup {NULL}]
      /\ finisher \in [Coroutines -> {"none", "waiting", "run", "set", "end"}]
  BY DEF TypeOK
<1>b. \A c \in Coroutines : at[c] \in Setting =>
         job[c] \in Tasks /\ c # job[c] /\ job[c] \in Coroutines
  <2>1. \A c \in Coroutines : at[c] \in Setting => job[c] \in Tasks /\ c # job[c]
    BY Numbers DEF Tree
  <2> QED BY <2>1, Numbers
<1>c. ASSUME NEW c \in Coroutines, at[c] \in Setting, Settle(c)
      PROVE  /\ at'[c] = "body" /\ job'[c] = NULL
             /\ \A d \in Coroutines \ {c} :
                   /\ job'[d] = job[d]
                   /\ at'[d] = IF d = job[c] /\ at[d] = "made" THEN "body" ELSE at[d]
  BY <1>c, Settled
<1>d. Tasks \subseteq Coroutines /\ Root \in Coroutines /\ NULL \notin Coroutines
  BY Numbers
<1>e. at[x] \in {"signalOwner", "finalReady", "finalSuspend", "end"}
  BY DEF Counts
<1> USE <1>a, <1>e DEF Counts, Go
<1>0. CASE UNCHANGED vars
  BY <1>0 DEF vars
<1>1. ASSUME NEW c \in Coroutines, IsZero(c) PROVE ~Counts(x)'
  BY <1>1, <1>b, <1>c DEF IsZero, Setting
<1>2. ASSUME NEW c \in Coroutines, CountUp(c) PROVE ~Counts(x)'
  BY <1>2 DEF CountUp
<1>3. ASSUME NEW c \in Coroutines, Reserve(c) PROVE ~Counts(x)'
  BY <1>3 DEF Reserve
<1>4. ASSUME NEW c \in Coroutines, ExchangeOwner(c) PROVE ~Counts(x)'
  BY <1>4 DEF ExchangeOwner
<1>5. ASSUME NEW c \in Coroutines, OwnerCountDown(c) PROVE ~Counts(x)'
  BY <1>5 DEF OwnerCountDown
<1>6. ASSUME NEW c \in Coroutines, RecheckZero(c) PROVE ~Counts(x)'
  BY <1>6, <1>b, <1>c DEF RecheckZero, Setting
<1>7. ASSUME NEW c \in Coroutines, SignalForTask(c) PROVE ~Counts(x)'
  BY <1>7, <1>b, <1>c DEF SignalForTask, Setting
<1>8. ASSUME NEW c \in Coroutines, Return(c) PROVE ~Counts(x)'
  BY <1>8 DEF Return
<1>9. ASSUME NEW c \in Coroutines, FinalCount(c) PROVE ~Counts(x)'
  BY <1>9 DEF FinalCount
<1>10. ASSUME NEW c \in Coroutines, SetCompleted(c) PROVE ~Counts(x)'
  BY <1>10 DEF SetCompleted
<1>11. ASSUME NEW c \in Coroutines, DeferCompletion(c) PROVE ~Counts(x)'
  BY <1>11 DEF DeferCompletion
<1>12. ASSUME NEW c \in Coroutines, CompletionCountDown(c) PROVE ~Counts(x)'
  BY <1>12 DEF CompletionCountDown
<1>13. ASSUME NEW c \in Coroutines, FinalSignalOwner(c) PROVE ~Counts(x)'
  BY <1>13 DEF FinalSignalOwner
<1>14. ASSUME NEW c \in Coroutines, NEW t \in Tasks, Create(c, t) PROVE ~Counts(x)'
  BY <1>14 DEF Create
<1>15. ASSUME NEW c \in Coroutines, NEW t \in Tasks, Handover(c, t) PROVE ~Counts(x)'
  BY <1>15 DEF Handover
<1>16. ASSUME FinalSetEvent PROVE ~Counts(x)'
  BY <1>16 DEF FinalSetEvent
<1>17. ASSUME FinalReady PROVE ~Counts(x)'
  BY <1>17 DEF FinalReady
<1>18. ASSUME FinalSuspend PROVE ~Counts(x)'
  BY <1>18, FinalSuspendEffect DEF FinalSuspend
<1>19. ASSUME NEW c \in Tasks, FinisherSignal(c) PROVE ~Counts(x)'
  BY <1>19 DEF FinisherSignal
<1>20. ASSUME FinisherSetEvent PROVE ~Counts(x)'
  BY <1>20 DEF FinisherSetEvent
<1>21. ASSUME FinisherSet PROVE ~Counts(x)'
  BY <1>21 DEF FinisherSet
<1>22. ASSUME Wait PROVE ~Counts(x)'
  BY <1>22 DEF Wait, ThreadGo
<1>23. ASSUME WakeUp PROVE ~Counts(x)'
  BY <1>23 DEF WakeUp, ThreadGo
<1>24. ASSUME Value PROVE ~Counts(x)'
  BY <1>24 DEF Value, ThreadGo
<1>25. ASSUME Drop PROVE ~Counts(x)'
  BY <1>25 DEF Drop, ThreadGo
<1>26. ASSUME Abandon PROVE ~Counts(x)'
  BY <1>26 DEF Abandon, ThreadGo
<1> QED
  BY <1>0, <1>1, <1>2, <1>3, <1>4, <1>5, <1>6, <1>7, <1>8, <1>9, <1>10, <1>11, <1>12, <1>13,
     <1>14, <1>15, <1>16, <1>17, <1>18, <1>19, <1>20, <1>21, <1>22, <1>23, <1>24, <1>25,
     <1>26
     DEF Next, Own, Finish, RootFinish, FinisherStep, ThreadStep

LEMMA FinishedStays ==
    ASSUME TypeOK, Tree, Ending, StatusAt, [Next]_vars, NEW x \in Coroutines, Finished(x)
    PROVE  Finished(x)'
BY ChildlessStays, UncountedStays DEF Finished, Counts

\* Who is counted down to zero is finished, and nobody sets its owner.
LEMMA ZeroIsFinished ==
    ASSUME Exact, NEW x \in Coroutines, count[x] = 0
    PROVE  Finished(x) /\ \A d \in Coroutines : job[d] = x => at[d] \notin Pulsing
<1>1. PICK k, m \in Nat :
          /\ count[x] = k + Cardinality(Kids(x)) + m + Cardinality(Movers(x))
          /\ k = 0 => ~Counts(x)
  BY DEF Exact, Total, One
<1>2. Cardinality(Kids(x)) \in Nat /\ Cardinality(Movers(x)) \in Nat
  BY KidsFinite, MoversFinite
<1>3. k = 0 /\ Cardinality(Kids(x)) = 0
  BY <1>1, <1>2
<1>4. ~(Cardinality(Movers(x)) > 0)
  BY <1>1, <1>2
<1>5. \A d \in Movers(x) : FALSE
  BY <1>4, MoversFinite
<1>6. Finished(x)
  BY <1>1, <1>3, KidsFinite DEF Finished
<1> QED BY <1>5, <1>6 DEF Movers

LEMMA ZeroIsFinishedNext ==
    ASSUME Exact', NEW x \in Coroutines, count'[x] = 0 PROVE Finished(x)'
<1>1. PICK k, m \in Nat :
          /\ count'[x] = k + Cardinality(Kids(x)') + m + Cardinality(Movers(x)')
          /\ k = 0 => ~Counts(x)'
  BY DEF Exact, Total, One
<1>2. Cardinality(Kids(x)') \in Nat /\ Cardinality(Movers(x)') \in Nat
  BY NextFinite
<1>3. k = 0 /\ Cardinality(Kids(x)') = 0
  BY <1>1, <1>2
<1> QED BY <1>1, <1>3, NextFinite DEF Finished

\* Who finds a count of one, its own, owns nothing.
LEMMA LastIsChildless ==
    ASSUME Exact, NEW x \in Coroutines, Counts(x), count[x] = 1 PROVE Childless(x)
<1>1. PICK m \in Nat : count[x] = 1 + Cardinality(Kids(x)) + m + Cardinality(Movers(x))
  BY DEF Exact, Total, One
<1>2. Cardinality(Kids(x)) \in Nat /\ Cardinality(Movers(x)) \in Nat
  BY KidsFinite, MoversFinite
<1>3. Cardinality(Kids(x)) = 0
  BY <1>1, <1>2
<1> QED BY <1>3, KidsFinite

\* Counting down lets a finisher run only when its coroutine is finished.
LEMMA CountDownRuns ==
    ASSUME TypeOK, Exact', NEW cs, CountDown(cs), NEW x \in Coroutines
    PROVE  \/ finisher'[x] = finisher[x]
           \/ finisher[x] = "waiting" /\ finisher'[x] = "run" /\ Finished(x)'
<1>1. CASE x \in cs /\ count[x] = 1
  <2>1. count'[x] = 0
    BY <1>1 DEF CountDown
  <2> QED BY <1>1, <2>1, ZeroIsFinishedNext DEF CountDown
<1>2. CASE ~(x \in cs /\ count[x] = 1)
  BY <1>2 DEF CountDown
<1> QED BY <1>1, <1>2
-----------------------------------------------------------------------------
(* The tree of the owners, the ends, and the owners until then *)

LEMMA TreeStep == ASSUME TypeOK, Tree, StatusAt, [Next]_vars PROVE Tree'
<1>a. /\ at \in [Coroutines -> Places]
      /\ owner \in [Coroutines -> Coroutines \cup {Outer, NULL}]
      /\ job \in [Coroutines -> Tasks \cup {NULL}]
      /\ finisher \in [Coroutines -> {"none", "waiting", "run", "set", "end"}]
  BY DEF TypeOK
<1>b. \A c \in Coroutines : at[c] \in Setting =>
         job[c] \in Tasks /\ c # job[c] /\ job[c] \in Coroutines
  <2>1. \A c \in Coroutines : at[c] \in Setting => job[c] \in Tasks /\ c # job[c]
    BY Numbers DEF Tree
  <2> QED BY <2>1, Numbers
<1>c. ASSUME NEW c \in Coroutines, at[c] \in Setting, Settle(c)
      PROVE  /\ at'[c] = "body" /\ job'[c] = NULL
             /\ \A d \in Coroutines \ {c} :
                   /\ job'[d] = job[d]
                   /\ at'[d] = IF d = job[c] /\ at[d] = "made" THEN "body" ELSE at[d]
  BY <1>c, Settled
<1>d. Tasks \subseteq Coroutines /\ Root \in Coroutines /\ NULL \notin Coroutines
  BY Numbers
<1>e. /\ at[Root] \notin {"new", "made"} /\ owner[Root] = NULL
      /\ \A c \in Coroutines : at[c] \in Setting =>
            job[c] \in Tasks /\ c < job[c] /\ at[job[c]] # "new"
      /\ \A t \in Tasks : owner[t] # NULL =>
            owner[t] \in Coroutines /\ owner[t] < t /\ at[owner[t]] # "new" /\ at[t] # "new"
      /\ \A t \in Tasks : t # Root
  BY Numbers DEF Tree
<1> USE <1>a, <1>b, <1>d, <1>e DEF Go, Setting
<1>0. CASE UNCHANGED vars
  BY <1>0 DEF vars, Tree
<1>1. ASSUME NEW c \in Coroutines, IsZero(c) PROVE Tree'
  BY <1>1, <1>c DEF IsZero, Tree
<1>2. ASSUME NEW c \in Coroutines, CountUp(c) PROVE Tree'
  BY <1>2 DEF CountUp, Tree
<1>3. ASSUME NEW c \in Coroutines, Reserve(c) PROVE Tree'
  BY <1>3 DEF Reserve, Tree
<1>4. ASSUME NEW c \in Coroutines, ExchangeOwner(c) PROVE Tree'
  BY <1>4 DEF ExchangeOwner, Tree
<1>5. ASSUME NEW c \in Coroutines, OwnerCountDown(c) PROVE Tree'
  BY <1>5 DEF OwnerCountDown, Tree
<1>6. ASSUME NEW c \in Coroutines, RecheckZero(c) PROVE Tree'
  BY <1>6, <1>c DEF RecheckZero, Tree
<1>7. ASSUME NEW c \in Coroutines, SignalForTask(c) PROVE Tree'
  BY <1>7, <1>c DEF SignalForTask, SignalOwner, Tree
<1>8. ASSUME NEW c \in Coroutines, Return(c) PROVE Tree'
  BY <1>8 DEF Return, Tree
<1>9. ASSUME NEW c \in Coroutines, FinalCount(c) PROVE Tree'
  BY <1>9 DEF FinalCount, Tree
<1>10. ASSUME NEW c \in Coroutines, SetCompleted(c) PROVE Tree'
  <2>1. CASE c = Root
    <3>1. at' = [at EXCEPT ![Root] = "set"] /\ owner' = owner /\ job' = job
      BY <1>10, <2>1, SetCompletedEffect DEF SetCompleted
    <3> QED BY <3>1 DEF Tree
  <2>2. CASE c # Root
    BY <1>10, <2>2 DEF SetCompleted, Tree
  <2> QED BY <2>1, <2>2
<1>11. ASSUME NEW c \in Coroutines, DeferCompletion(c) PROVE Tree'
  BY <1>11 DEF DeferCompletion, Tree
<1>12. ASSUME NEW c \in Coroutines, CompletionCountDown(c) PROVE Tree'
  BY <1>12 DEF CompletionCountDown, Tree
<1>13. ASSUME NEW c \in Coroutines, FinalSignalOwner(c) PROVE Tree'
  BY <1>13 DEF FinalSignalOwner, SignalOwner, Tree
<1>14. ASSUME NEW c \in Coroutines, NEW t \in Tasks, Create(c, t) PROVE Tree'
  BY <1>14 DEF Create, Tree
<1>15. ASSUME NEW c \in Coroutines, NEW t \in Tasks, Handover(c, t) PROVE Tree'
  BY <1>15 DEF Handover, Tree
<1>16. ASSUME FinalSetEvent PROVE Tree'
  BY <1>16 DEF FinalSetEvent, Tree
<1>17. ASSUME FinalReady PROVE Tree'
  BY <1>17 DEF FinalReady, Tree
<1>18. ASSUME FinalSuspend PROVE Tree'
  BY <1>18, FinalSuspendEffect DEF FinalSuspend, Tree
<1>19. ASSUME NEW c \in Tasks, FinisherSignal(c) PROVE Tree'
  BY <1>19 DEF FinisherSignal, Tree
<1>20. ASSUME FinisherSetEvent PROVE Tree'
  BY <1>20 DEF FinisherSetEvent, Tree
<1>21. ASSUME FinisherSet PROVE Tree'
  BY <1>21 DEF FinisherSet, Tree
<1>22. ASSUME Wait PROVE Tree'
  BY <1>22 DEF Wait, ThreadGo, Tree
<1>23. ASSUME WakeUp PROVE Tree'
  BY <1>23 DEF WakeUp, ThreadGo, Tree
<1>24. ASSUME Value PROVE Tree'
  BY <1>24 DEF Value, ThreadGo, Tree
<1>25. ASSUME Drop PROVE Tree'
  BY <1>25 DEF Drop, ThreadGo, Tree
<1>26. ASSUME Abandon PROVE Tree'
  BY <1>26 DEF Abandon, ThreadGo, Tree
<1> QED
  BY <1>0, <1>1, <1>2, <1>3, <1>4, <1>5, <1>6, <1>7, <1>8, <1>9, <1>10, <1>11, <1>12, <1>13,
     <1>14, <1>15, <1>16, <1>17, <1>18, <1>19, <1>20, <1>21, <1>22, <1>23, <1>24, <1>25,
     <1>26
     DEF Next, Own, Finish, RootFinish, FinisherStep, ThreadStep

LEMMA EndingStep ==
    ASSUME TypeOK, Exact, Tree, Ending, StatusAt, [Next]_vars, Exact' PROVE Ending'
<1> SUFFICES ASSUME NEW x \in Coroutines PROVE EndingAt(x)'
  BY DEF Ending
<1>a. /\ at \in [Coroutines -> Places]
      /\ owner \in [Coroutines -> Coroutines \cup {Outer, NULL}]
      /\ job \in [Coroutines -> Tasks \cup {NULL}]
      /\ finisher \in [Coroutines -> {"none", "waiting", "run", "set", "end"}]
  BY DEF TypeOK
<1>b. \A c \in Coroutines : at[c] \in Setting =>
         job[c] \in Tasks /\ c # job[c] /\ job[c] \in Coroutines
  <2>1. \A c \in Coroutines : at[c] \in Setting => job[c] \in Tasks /\ c # job[c]
    BY Numbers DEF Tree
  <2> QED BY <2>1, Numbers
<1>c. ASSUME NEW c \in Coroutines, at[c] \in Setting, Settle(c)
      PROVE  /\ at'[c] = "body" /\ job'[c] = NULL
             /\ \A d \in Coroutines \ {c} :
                   /\ job'[d] = job[d]
                   /\ at'[d] = IF d = job[c] /\ at[d] = "made" THEN "body" ELSE at[d]
  BY <1>c, Settled
<1>d. Tasks \subseteq Coroutines /\ Root \in Coroutines /\ NULL \notin Coroutines
  BY Numbers
<1>e. /\ at[x] \in {"complete", "set", "finish", "signalOwner"} =>
            Childless(x) /\ finisher[x] = "none"
      /\ at[x] = "deferred" => finisher[x] = "waiting"
      /\ finisher[x] # "none" => ~Counts(x) \/ at[x] = "deferred"
      /\ finisher[x] \notin {"none", "waiting"} => Finished(x)
      /\ at[x] \in {"undo", "signal"} => Finished(job[x])
  BY DEF Ending, EndingAt
<1>f. Childless(x) /\ at[x] # "exchange" => Childless(x)'
  BY ChildlessStays
<1>g. \A y \in Coroutines : Finished(y) => Finished(y)'
  BY FinishedStays
<1>h. ASSUME NEW cs, CountDown(cs)
      PROVE  \/ finisher'[x] = finisher[x]
             \/ finisher[x] = "waiting" /\ finisher'[x] = "run" /\ Finished(x)'
  BY <1>h, CountDownRuns
<1>i. Finished(x)' => ~Counts(x)'
  BY DEF Finished
<1>j. at[x] \in Setting => job[x] \in Coroutines
  BY <1>b
<1> USE <1>a, <1>d, <1>e, <1>f, <1>g, <1>i, <1>j DEF Go, Setting, Counts, EndingAt
<1>0. CASE UNCHANGED vars
  BY <1>0 DEF vars
<1>1. ASSUME NEW c \in Coroutines, IsZero(c) PROVE EndingAt(x)'
  BY <1>1, <1>b, <1>c DEF IsZero
<1>2. ASSUME NEW c \in Coroutines, CountUp(c) PROVE EndingAt(x)'
  <2>1. count[job[c]] = 0 => Finished(job[c])'
    BY <1>2, <1>b, ZeroIsFinished DEF CountUp
  <2> QED BY <1>2, <2>1 DEF CountUp
<1>3. ASSUME NEW c \in Coroutines, Reserve(c) PROVE EndingAt(x)'
  BY <1>3 DEF Reserve
<1>4. ASSUME NEW c \in Coroutines, ExchangeOwner(c) PROVE EndingAt(x)'
  BY <1>4, <1>h DEF ExchangeOwner
<1>5. ASSUME NEW c \in Coroutines, OwnerCountDown(c) PROVE EndingAt(x)'
  BY <1>5, <1>h DEF OwnerCountDown
<1>6. ASSUME NEW c \in Coroutines, RecheckZero(c) PROVE EndingAt(x)'
  <2>1. count[job[c]] = 0 => Finished(job[c])'
    BY <1>6, <1>b, ZeroIsFinished DEF RecheckZero
  <2> QED BY <1>6, <1>b, <1>c, <2>1 DEF RecheckZero
<1>7. ASSUME NEW c \in Coroutines, SignalForTask(c) PROVE EndingAt(x)'
  BY <1>7, <1>b, <1>c, <1>h DEF SignalForTask, SignalOwner
<1>8. ASSUME NEW c \in Coroutines, Return(c) PROVE EndingAt(x)'
  BY <1>8 DEF Return
<1>9. ASSUME NEW c \in Coroutines, FinalCount(c) PROVE EndingAt(x)'
  <2>1. at[c] = "count" /\ count[c] = 1 => Childless(c)
    BY LastIsChildless
  <2> QED BY <1>9, <2>1 DEF FinalCount
<1>10. ASSUME NEW c \in Coroutines, SetCompleted(c) PROVE EndingAt(x)'
  <2>1. CASE c = Root
    BY <1>10, <2>1, SetCompletedEffect DEF SetCompleted
  <2>2. CASE c # Root
    BY <1>10, <2>2 DEF SetCompleted
  <2> QED BY <2>1, <2>2
<1>11. ASSUME NEW c \in Coroutines, DeferCompletion(c) PROVE EndingAt(x)'
  BY <1>11 DEF DeferCompletion
<1>12. ASSUME NEW c \in Coroutines, CompletionCountDown(c) PROVE EndingAt(x)'
  BY <1>12, <1>h DEF CompletionCountDown
<1>13. ASSUME NEW c \in Coroutines, FinalSignalOwner(c) PROVE EndingAt(x)'
  BY <1>13, <1>h DEF FinalSignalOwner, SignalOwner
<1>14. ASSUME NEW c \in Coroutines, NEW t \in Tasks, Create(c, t) PROVE EndingAt(x)'
  BY <1>14 DEF Create
<1>15. ASSUME NEW c \in Coroutines, NEW t \in Tasks, Handover(c, t) PROVE EndingAt(x)'
  BY <1>15 DEF Handover
<1>16. ASSUME FinalSetEvent PROVE EndingAt(x)'
  BY <1>16 DEF FinalSetEvent
<1>17. ASSUME FinalReady PROVE EndingAt(x)'
  BY <1>17 DEF FinalReady
<1>18. ASSUME FinalSuspend PROVE EndingAt(x)'
  BY <1>18, FinalSuspendEffect DEF FinalSuspend
<1>19. ASSUME NEW c \in Tasks, FinisherSignal(c) PROVE EndingAt(x)'
  <2>1. \/ finisher'[x] = finisher[x]
        \/ x = c /\ finisher[x] = "run" /\ finisher'[x] = "end"
        \/ finisher[x] = "waiting" /\ finisher'[x] = "run" /\ count'[x] = 0
    BY <1>19 DEF FinisherSignal
  <2>2. count'[x] = 0 => Finished(x)'
    BY ZeroIsFinishedNext
  <2> QED BY <1>19, <2>1, <2>2 DEF FinisherSignal
<1>20. ASSUME FinisherSetEvent PROVE EndingAt(x)'
  BY <1>20 DEF FinisherSetEvent
<1>21. ASSUME FinisherSet PROVE EndingAt(x)'
  BY <1>21, FinisherSetEffect DEF FinisherSet
<1>22. ASSUME Wait PROVE EndingAt(x)'
  BY <1>22 DEF Wait, ThreadGo
<1>23. ASSUME WakeUp PROVE EndingAt(x)'
  BY <1>23 DEF WakeUp, ThreadGo
<1>24. ASSUME Value PROVE EndingAt(x)'
  BY <1>24 DEF Value, ThreadGo
<1>25. ASSUME Drop PROVE EndingAt(x)'
  BY <1>25 DEF Drop, ThreadGo
<1>26. ASSUME Abandon PROVE EndingAt(x)'
  BY <1>26 DEF Abandon, ThreadGo
<1> QED
  BY <1>0, <1>1, <1>2, <1>3, <1>4, <1>5, <1>6, <1>7, <1>8, <1>9, <1>10, <1>11, <1>12, <1>13,
     <1>14, <1>15, <1>16, <1>17, <1>18, <1>19, <1>20, <1>21, <1>22, <1>23, <1>24, <1>25,
     <1>26
     DEF Next, Own, Finish, RootFinish, FinisherStep, ThreadStep

LEMMA OwnerKnownStep ==
    ASSUME TypeOK, Exact, Tree, Ending, Owned, StatusAt, [Next]_vars, NEW x \in Coroutines
    PROVE  OwnerKnown(x)'
<1>a. /\ at \in [Coroutines -> Places]
      /\ owner \in [Coroutines -> Coroutines \cup {Outer, NULL}]
      /\ job \in [Coroutines -> Tasks \cup {NULL}]
      /\ finisher \in [Coroutines -> {"none", "waiting", "run", "set", "end"}]
  BY DEF TypeOK
<1>b. \A c \in Coroutines : at[c] \in Setting =>
         job[c] \in Tasks /\ c # job[c] /\ job[c] \in Coroutines
  <2>1. \A c \in Coroutines : at[c] \in Setting => job[c] \in Tasks /\ c # job[c]
    BY Numbers DEF Tree
  <2> QED BY <2>1, Numbers
<1>c. ASSUME NEW c \in Coroutines, at[c] \in Setting, Settle(c)
      PROVE  /\ at'[c] = "body" /\ job'[c] = NULL
             /\ \A d \in Coroutines \ {c} :
                   /\ job'[d] = job[d]
                   /\ at'[d] = IF d = job[c] /\ at[d] = "made" THEN "body" ELSE at[d]
  BY <1>c, Settled
<1>d. Tasks \subseteq Coroutines /\ Root \in Coroutines /\ NULL \notin Coroutines
  BY Numbers
<1>e. at[x] \in {"settle", "recheck"} => Finished(job[x]) \/ owner[job[x]] # NULL
  BY DEF Owned, OwnerKnown
<1>f. ASSUME at[x] \in {"settle", "recheck"}
      PROVE  \E y \in Coroutines : y = job[x] /\ (Finished(y)' \/ owner'[y] # NULL)
  <2>1. PICK y \in Coroutines : y = job[x]
    BY <1>b, <1>f DEF Setting
  <2>2. Finished(y) => Finished(y)'
    BY FinishedStays
  <2>3. owner[y] # NULL => owner'[y] # NULL \/ Finished(y)
    BY OwnersFrame, Numbers
  <2> QED BY <1>e, <1>f, <2>1, <2>2, <2>3
<1>g. ASSUME at'[x] \in {"settle", "recheck"} => at[x] \in {"settle", "recheck"} /\ job'[x] = job[x]
      PROVE  OwnerKnown(x)'
  BY <1>f, <1>g DEF OwnerKnown
<1> USE <1>a, <1>d DEF Go, Setting
<1>0. CASE UNCHANGED vars
  BY <1>0, <1>g DEF vars
<1>1. ASSUME NEW c \in Coroutines, IsZero(c) PROVE OwnerKnown(x)'
  BY <1>1, <1>b, <1>c, <1>g DEF IsZero
<1>2. ASSUME NEW c \in Coroutines, CountUp(c) PROVE OwnerKnown(x)'
  BY <1>2, <1>g DEF CountUp
<1>3. ASSUME NEW c \in Coroutines, Reserve(c) PROVE OwnerKnown(x)'
  BY <1>3, <1>g DEF Reserve
<1>4. ASSUME NEW c \in Coroutines, ExchangeOwner(c) PROVE OwnerKnown(x)'
  <2>1. CASE x = c
    BY <1>4, <2>1, <1>b DEF ExchangeOwner, OwnerKnown
  <2>2. CASE x # c
    BY <1>4, <2>2, <1>g DEF ExchangeOwner
  <2> QED BY <2>1, <2>2
<1>5. ASSUME NEW c \in Coroutines, OwnerCountDown(c) PROVE OwnerKnown(x)'
  BY <1>5, <1>g DEF OwnerCountDown
<1>6. ASSUME NEW c \in Coroutines, RecheckZero(c) PROVE OwnerKnown(x)'
  BY <1>6, <1>b, <1>c, <1>g DEF RecheckZero
<1>7. ASSUME NEW c \in Coroutines, SignalForTask(c) PROVE OwnerKnown(x)'
  BY <1>7, <1>b, <1>c, <1>g DEF SignalForTask
<1>8. ASSUME NEW c \in Coroutines, Return(c) PROVE OwnerKnown(x)'
  BY <1>8, <1>g DEF Return
<1>9. ASSUME NEW c \in Coroutines, FinalCount(c) PROVE OwnerKnown(x)'
  BY <1>9, <1>g DEF FinalCount
<1>10. ASSUME NEW c \in Coroutines, SetCompleted(c) PROVE OwnerKnown(x)'
  <2>1. CASE c = Root
    BY <1>10, <2>1, <1>g, SetCompletedEffect DEF SetCompleted
  <2>2. CASE c # Root
    BY <1>10, <2>2, <1>g DEF SetCompleted
  <2> QED BY <2>1, <2>2
<1>11. ASSUME NEW c \in Coroutines, DeferCompletion(c) PROVE OwnerKnown(x)'
  BY <1>11, <1>g DEF DeferCompletion
<1>12. ASSUME NEW c \in Coroutines, CompletionCountDown(c) PROVE OwnerKnown(x)'
  BY <1>12, <1>g DEF CompletionCountDown
<1>13. ASSUME NEW c \in Coroutines, FinalSignalOwner(c) PROVE OwnerKnown(x)'
  BY <1>13, <1>g DEF FinalSignalOwner
<1>14. ASSUME NEW c \in Coroutines, NEW t \in Tasks, Create(c, t) PROVE OwnerKnown(x)'
  BY <1>14, <1>g DEF Create
<1>15. ASSUME NEW c \in Coroutines, NEW t \in Tasks, Handover(c, t) PROVE OwnerKnown(x)'
  BY <1>15, <1>g DEF Handover
<1>16. ASSUME FinalSetEvent PROVE OwnerKnown(x)'
  BY <1>16, <1>g DEF FinalSetEvent
<1>17. ASSUME FinalReady PROVE OwnerKnown(x)'
  BY <1>17, <1>g DEF FinalReady
<1>18. ASSUME FinalSuspend PROVE OwnerKnown(x)'
  BY <1>18, <1>g, FinalSuspendEffect DEF FinalSuspend
<1>19. ASSUME NEW c \in Tasks, FinisherSignal(c) PROVE OwnerKnown(x)'
  BY <1>19, <1>g DEF FinisherSignal
<1>20. ASSUME FinisherSetEvent PROVE OwnerKnown(x)'
  BY <1>20, <1>g DEF FinisherSetEvent
<1>21. ASSUME FinisherSet PROVE OwnerKnown(x)'
  BY <1>21, <1>g DEF FinisherSet
<1>22. ASSUME Wait PROVE OwnerKnown(x)'
  BY <1>22, <1>g DEF Wait, ThreadGo
<1>23. ASSUME WakeUp PROVE OwnerKnown(x)'
  BY <1>23, <1>g DEF WakeUp, ThreadGo
<1>24. ASSUME Value PROVE OwnerKnown(x)'
  BY <1>24, <1>g DEF Value, ThreadGo
<1>25. ASSUME Drop PROVE OwnerKnown(x)'
  BY <1>25, <1>g DEF Drop, ThreadGo
<1>26. ASSUME Abandon PROVE OwnerKnown(x)'
  BY <1>26, <1>g DEF Abandon, ThreadGo
<1> QED
  BY <1>0, <1>1, <1>2, <1>3, <1>4, <1>5, <1>6, <1>7, <1>8, <1>9, <1>10, <1>11, <1>12, <1>13,
     <1>14, <1>15, <1>16, <1>17, <1>18, <1>19, <1>20, <1>21, <1>22, <1>23, <1>24, <1>25,
     <1>26
     DEF Next, Own, Finish, RootFinish, FinisherStep, ThreadStep

LEMMA OwnedTaskStep ==
    ASSUME TypeOK, Exact, Tree, Ending, Owned, StatusAt, [Next]_vars, NEW x \in Tasks
    PROVE  OwnedTask(x)'
<1>a. /\ at \in [Coroutines -> Places]
      /\ owner \in [Coroutines -> Coroutines \cup {Outer, NULL}]
      /\ job \in [Coroutines -> Tasks \cup {NULL}]
      /\ finisher \in [Coroutines -> {"none", "waiting", "run", "set", "end"}]
  BY DEF TypeOK
<1>b. \A c \in Coroutines : at[c] \in Setting =>
         job[c] \in Tasks /\ c # job[c] /\ job[c] \in Coroutines
  <2>1. \A c \in Coroutines : at[c] \in Setting => job[c] \in Tasks /\ c # job[c]
    BY Numbers DEF Tree
  <2> QED BY <2>1, Numbers
<1>c. ASSUME NEW c \in Coroutines, at[c] \in Setting, Settle(c)
      PROVE  /\ at'[c] = "body" /\ job'[c] = NULL
             /\ \A d \in Coroutines \ {c} :
                   /\ job'[d] = job[d]
                   /\ at'[d] = IF d = job[c] /\ at[d] = "made" THEN "body" ELSE at[d]
  BY <1>c, Settled
<1>d. Tasks \subseteq Coroutines /\ Root \in Coroutines /\ NULL \notin Coroutines
  BY Numbers
<1>e. /\ x \in Coroutines
      /\ \/ at[x] = "new" \/ Finished(x) \/ owner[x] # NULL
         \/ at[x] = "made" /\ \E c \in Coroutines : at[c] \in Setting /\ job[c] = x
  BY <1>d DEF Owned, OwnedTask
<1>f. Finished(x) => OwnedTask(x)'
  BY <1>e, FinishedStays DEF OwnedTask
<1>g. owner[x] # NULL => OwnedTask(x)'
  BY <1>d, <1>e, <1>f, OwnersFrame DEF OwnedTask
\* A task that is new, or made, and stays so.
<1>h. ASSUME at[x] = "new", at'[x] = "new" PROVE OwnedTask(x)'
  BY <1>h DEF OwnedTask
<1>i. ASSUME at[x] = "made", at'[x] = "made",
             \A c \in Coroutines : at[c] \in Setting /\ job[c] = x =>
                at'[c] \in Setting /\ job'[c] = x
      PROVE  OwnedTask(x)'
  BY <1>e, <1>f, <1>g, <1>i DEF OwnedTask
<1>j. at[x] \in {"new", "made"} \/ OwnedTask(x)'
  BY <1>e, <1>f, <1>g
<1>k. ASSUME NEW c \in Coroutines, at[c] = "isZero", count[job[c]] = 0 PROVE Finished(job[c])
  BY <1>b, <1>k, ZeroIsFinished DEF Setting
<1>l. ASSUME at[x] = "made", NEW c \in Coroutines, at[c] \in Setting, Settle(c),
             job[c] = x => Finished(x) \/ owner[x] # NULL
      PROVE  OwnedTask(x)'
  <2>1. CASE job[c] = x
    BY <1>f, <1>g, <1>l, <2>1
  <2>2. CASE job[c] # x
    BY <1>b, <1>c, <1>e, <1>i, <1>l, <2>2 DEF Setting
  <2> QED BY <2>1, <2>2
<1> USE <1>a, <1>d, <1>e DEF Go, Setting
<1>0. CASE UNCHANGED vars
  BY <1>0, <1>h, <1>i, <1>j DEF vars
<1>1. ASSUME NEW c \in Coroutines, IsZero(c) PROVE OwnedTask(x)'
  <2>1. CASE ~Settle(c)
    BY <1>1, <2>1, <1>h, <1>i, <1>j DEF IsZero
  <2>2. CASE Settle(c)
    <3>1. at[c] = "isZero" /\ (count[job[c]] = 0 => Finished(job[c]))
      BY <1>1, <1>k DEF IsZero
    <3>2. count[job[c]] = 0
      BY <1>1, <1>c, <2>2 DEF IsZero
    <3> QED BY <1>c, <1>h, <1>j, <1>l, <1>b, <2>2, <3>1, <3>2
  <2> QED BY <2>1, <2>2
<1>2. ASSUME NEW c \in Coroutines, CountUp(c) PROVE OwnedTask(x)'
  BY <1>2, <1>h, <1>i, <1>j DEF CountUp
<1>3. ASSUME NEW c \in Coroutines, Reserve(c) PROVE OwnedTask(x)'
  BY <1>3, <1>h, <1>i, <1>j DEF Reserve
<1>4. ASSUME NEW c \in Coroutines, ExchangeOwner(c) PROVE OwnedTask(x)'
  BY <1>4, <1>h, <1>i, <1>j DEF ExchangeOwner
<1>5. ASSUME NEW c \in Coroutines, OwnerCountDown(c) PROVE OwnedTask(x)'
  BY <1>5, <1>h, <1>i, <1>j DEF OwnerCountDown
<1>6. ASSUME NEW c \in Coroutines, RecheckZero(c) PROVE OwnedTask(x)'
  <2>1. CASE ~Settle(c)
    BY <1>6, <2>1, <1>h, <1>i, <1>j DEF RecheckZero
  <2>2. CASE Settle(c)
    <3>1. at[c] = "recheck" /\ (Finished(job[c]) \/ owner[job[c]] # NULL)
      BY <1>6 DEF RecheckZero, Owned, OwnerKnown
    <3> QED BY <1>c, <1>h, <1>j, <1>l, <1>b, <2>2, <3>1
  <2> QED BY <2>1, <2>2
<1>7. ASSUME NEW c \in Coroutines, SignalForTask(c) PROVE OwnedTask(x)'
  <2>1. at[c] = "signal" /\ Settle(c) /\ Finished(job[c])
    BY <1>7 DEF SignalForTask, Ending, EndingAt
  <2> QED BY <1>c, <1>h, <1>j, <1>l, <1>b, <2>1
<1>8. ASSUME NEW c \in Coroutines, Return(c) PROVE OwnedTask(x)'
  BY <1>8, <1>h, <1>i, <1>j DEF Return
<1>9. ASSUME NEW c \in Coroutines, FinalCount(c) PROVE OwnedTask(x)'
  BY <1>9, <1>h, <1>i, <1>j DEF FinalCount
<1>10. ASSUME NEW c \in Coroutines, SetCompleted(c) PROVE OwnedTask(x)'
  <2>1. CASE c = Root
    BY <1>10, <2>1, <1>h, <1>i, <1>j, SetCompletedEffect DEF SetCompleted
  <2>2. CASE c # Root
    BY <1>10, <2>2, <1>h, <1>i, <1>j DEF SetCompleted
  <2> QED BY <2>1, <2>2
<1>11. ASSUME NEW c \in Coroutines, DeferCompletion(c) PROVE OwnedTask(x)'
  BY <1>11, <1>h, <1>i, <1>j DEF DeferCompletion
<1>12. ASSUME NEW c \in Coroutines, CompletionCountDown(c) PROVE OwnedTask(x)'
  BY <1>12, <1>h, <1>i, <1>j DEF CompletionCountDown
<1>13. ASSUME NEW c \in Coroutines, FinalSignalOwner(c) PROVE OwnedTask(x)'
  BY <1>13, <1>h, <1>i, <1>j DEF FinalSignalOwner
<1>14. ASSUME NEW c \in Coroutines, NEW t \in Tasks, Create(c, t) PROVE OwnedTask(x)'
  <2>1. CASE t = x
    <3>1. at'[x] = "made" /\ at'[c] = "isZero" /\ job'[c] = x
      BY <1>14, <2>1 DEF Create
    <3> QED BY <3>1 DEF OwnedTask
  <2>2. CASE t # x
    BY <1>14, <2>2, <1>h, <1>i, <1>j DEF Create
  <2> QED BY <2>1, <2>2
<1>15. ASSUME NEW c \in Coroutines, NEW t \in Tasks, Handover(c, t) PROVE OwnedTask(x)'
  BY <1>15, <1>h, <1>i, <1>j DEF Handover
<1>16. ASSUME FinalSetEvent PROVE OwnedTask(x)'
  BY <1>16, <1>h, <1>i, <1>j DEF FinalSetEvent
<1>17. ASSUME FinalReady PROVE OwnedTask(x)'
  BY <1>17, <1>h, <1>i, <1>j DEF FinalReady
<1>18. ASSUME FinalSuspend PROVE OwnedTask(x)'
  BY <1>18, FinalSuspendEffect, <1>h, <1>i, <1>j DEF FinalSuspend
<1>19. ASSUME NEW c \in Tasks, FinisherSignal(c) PROVE OwnedTask(x)'
  BY <1>19, <1>h, <1>i, <1>j DEF FinisherSignal
<1>20. ASSUME FinisherSetEvent PROVE OwnedTask(x)'
  BY <1>20, <1>h, <1>i, <1>j DEF FinisherSetEvent
<1>21. ASSUME FinisherSet PROVE OwnedTask(x)'
  BY <1>21, <1>h, <1>i, <1>j DEF FinisherSet
<1>22. ASSUME Wait PROVE OwnedTask(x)'
  BY <1>22, <1>h, <1>i, <1>j DEF Wait, ThreadGo
<1>23. ASSUME WakeUp PROVE OwnedTask(x)'
  BY <1>23, <1>h, <1>i, <1>j DEF WakeUp, ThreadGo
<1>24. ASSUME Value PROVE OwnedTask(x)'
  BY <1>24, <1>h, <1>i, <1>j DEF Value, ThreadGo
<1>25. ASSUME Drop PROVE OwnedTask(x)'
  BY <1>25, <1>h, <1>i, <1>j DEF Drop, ThreadGo
<1>26. ASSUME Abandon PROVE OwnedTask(x)'
  BY <1>26, <1>h, <1>i, <1>j DEF Abandon, ThreadGo
<1> QED
  BY <1>0, <1>1, <1>2, <1>3, <1>4, <1>5, <1>6, <1>7, <1>8, <1>9, <1>10, <1>11, <1>12, <1>13,
     <1>14, <1>15, <1>16, <1>17, <1>18, <1>19, <1>20, <1>21, <1>22, <1>23, <1>24, <1>25,
     <1>26
     DEF Next, Own, Finish, RootFinish, FinisherStep, ThreadStep

-----------------------------------------------------------------------------
(* The SyncTask and the thread that waits for it *)

LEMMA StatusAtStep ==
    ASSUME TypeOK, Exact, Tree, Ending, StatusAt, Signaled, [Next]_vars PROVE StatusAt'
<1>a. /\ at \in [Coroutines -> Places]
      /\ owner \in [Coroutines -> Coroutines \cup {Outer, NULL}]
      /\ job \in [Coroutines -> Tasks \cup {NULL}]
      /\ finisher \in [Coroutines -> {"none", "waiting", "run", "set", "end"}]
  BY DEF TypeOK
<1>b. \A c \in Coroutines : at[c] \in Setting =>
         job[c] \in Tasks /\ c # job[c] /\ job[c] \in Coroutines
  <2>1. \A c \in Coroutines : at[c] \in Setting => job[c] \in Tasks /\ c # job[c]
    BY Numbers DEF Tree
  <2> QED BY <2>1, Numbers
<1>c. ASSUME NEW c \in Coroutines, at[c] \in Setting, Settle(c)
      PROVE  /\ at'[c] = "body" /\ job'[c] = NULL
             /\ \A d \in Coroutines \ {c} :
                   /\ job'[d] = job[d]
                   /\ at'[d] = IF d = job[c] /\ at[d] = "made" THEN "body" ELSE at[d]
  BY <1>c, Settled
<1>d. Tasks \subseteq Coroutines /\ Root \in Coroutines /\ NULL \notin Coroutines
  BY Numbers
<1>e. /\ \/ at[Root] \in {"finalReady", "finalSuspend", "end"}
         \/ finisher[Root] \in {"none", "waiting"}
      /\ at[Root] = "deferred" => finisher[Root] = "waiting"
      /\ at[Root] = "signalOwner" => finisher[Root] = "none"
      /\ at[Root] \notin {"new", "made"}
  BY <1>a, <1>d DEF Ending, EndingAt, Finished, Counts, Tree
<1>f. status \in Gone => thread = "gone"
  BY DEF StatusAt
\* Nothing of it but its place changes, within one line of StatusAt.
<1>g. ASSUME UNCHANGED root, at'[Root] = at[Root] \/ (at[Root] \in InBody /\ at'[Root] \in InBody),
             \/ finisher'[Root] = finisher[Root]
             \/ finisher[Root] = "waiting" /\ finisher'[Root] = "run"
      PROVE  StatusAt'
  <2>1. status' = status /\ thread' = thread
    BY <1>g DEF root
  <2>2. CASE at'[Root] = at[Root]
    BY <1>g, <2>1, <2>2 DEF StatusAt, Live, Gone
  <2>3. CASE at[Root] \in InBody /\ at'[Root] \in InBody
    BY <2>1, <2>3 DEF StatusAt, Live, Gone, InBody, Setting
  <2> QED BY <1>g, <2>2, <2>3
<1>h. ASSUME NEW cs, CountDown(cs)
      PROVE  \/ finisher'[Root] = finisher[Root]
             \/ finisher[Root] = "waiting" /\ finisher'[Root] = "run"
  BY <1>d, <1>h DEF CountDown
<1> USE <1>a, <1>d, <1>e DEF Go
<1>0. CASE UNCHANGED vars
  BY <1>0, <1>g DEF vars, root
<1>1. ASSUME NEW c \in Coroutines, IsZero(c) PROVE StatusAt'
  BY <1>1, <1>b, <1>c, <1>g DEF IsZero, InBody, Setting
<1>2. ASSUME NEW c \in Coroutines, CountUp(c) PROVE StatusAt'
  BY <1>2, <1>g DEF CountUp, InBody, Setting
<1>3. ASSUME NEW c \in Coroutines, Reserve(c) PROVE StatusAt'
  BY <1>3, <1>g DEF Reserve, InBody, Setting
<1>4. ASSUME NEW c \in Coroutines, ExchangeOwner(c) PROVE StatusAt'
  BY <1>4, <1>g, <1>h DEF ExchangeOwner, InBody, Setting
<1>5. ASSUME NEW c \in Coroutines, OwnerCountDown(c) PROVE StatusAt'
  BY <1>5, <1>g, <1>h DEF OwnerCountDown, InBody, Setting
<1>6. ASSUME NEW c \in Coroutines, RecheckZero(c) PROVE StatusAt'
  BY <1>6, <1>b, <1>c, <1>g DEF RecheckZero, InBody, Setting
<1>7. ASSUME NEW c \in Coroutines, SignalForTask(c) PROVE StatusAt'
  BY <1>7, <1>b, <1>c, <1>g, <1>h DEF SignalForTask, SignalOwner, InBody, Setting
<1>8. ASSUME NEW c \in Coroutines, Return(c) PROVE StatusAt'
  <2>1. CASE c = Root
    <3>1. /\ at[Root] = "body" /\ at'[Root] = "count" /\ thread' = thread
          /\ finisher' = finisher
      BY <1>8, <2>1 DEF Return
    <3> QED BY <1>8, <2>1, <3>1, <1>f, ReturnEffect DEF StatusAt, Live, Gone, InBody, Setting
  <2>2. CASE c # Root
    BY <1>8, <2>2, <1>g DEF Return, root
  <2> QED BY <2>1, <2>2
<1>9. ASSUME NEW c \in Coroutines, FinalCount(c) PROVE StatusAt'
  <2>1. CASE c = Root
    BY <1>9, <2>1, <1>f DEF FinalCount, root,
       StatusAt, Live, Gone, InBody, Setting
  <2>2. CASE c # Root
    BY <1>9, <2>2, <1>g DEF FinalCount, root
  <2> QED BY <2>1, <2>2
<1>10. ASSUME NEW c \in Coroutines, SetCompleted(c) PROVE StatusAt'
  <2>1. CASE c = Root
    <3>1. at[Root] = "complete" /\ thread' = thread /\ finisher' = finisher
      BY <1>10, <2>1 DEF SetCompleted
    <3>2. at'[Root] = "set"
      BY <1>10, <2>1, SetCompletedEffect
    <3> QED BY <1>10, <2>1, <3>1, <3>2, <1>f, SetCompletedEffect
           DEF StatusAt, Live, Gone, InBody, Setting
  <2>2. CASE c # Root
    BY <1>10, <2>2, <1>g DEF SetCompleted, root
  <2> QED BY <2>1, <2>2
<1>11. ASSUME NEW c \in Coroutines, DeferCompletion(c) PROVE StatusAt'
  <2>1. CASE c = Root
    BY <1>11, <2>1, <1>f DEF DeferCompletion, root,
       StatusAt, Live, Gone, InBody, Setting
  <2>2. CASE c # Root
    BY <1>11, <2>2, <1>g DEF DeferCompletion, root
  <2> QED BY <2>1, <2>2
<1>12. ASSUME NEW c \in Coroutines, CompletionCountDown(c) PROVE StatusAt'
  <2>1. CASE c = Root
    BY <1>12, <2>1, <1>f, <1>h DEF CompletionCountDown, root,
       StatusAt, Live, Gone, InBody, Setting
  <2>2. CASE c # Root
    BY <1>12, <2>2, <1>g, <1>h DEF CompletionCountDown, root
  <2> QED BY <2>1, <2>2
<1>13. ASSUME NEW c \in Coroutines, FinalSignalOwner(c) PROVE StatusAt'
  <2>1. CASE c = Root
    BY <1>13, <2>1, <1>f, <1>h DEF FinalSignalOwner, SignalOwner, root,
       StatusAt, Live, Gone, InBody, Setting
  <2>2. CASE c # Root
    BY <1>13, <2>2, <1>g, <1>h DEF FinalSignalOwner, root, SignalOwner
  <2> QED BY <2>1, <2>2
<1>14. ASSUME NEW c \in Coroutines, NEW t \in Tasks, Create(c, t) PROVE StatusAt'
  BY <1>14, <1>g DEF Create, InBody, Setting
<1>15. ASSUME NEW c \in Coroutines, NEW t \in Tasks, Handover(c, t) PROVE StatusAt'
  BY <1>15, <1>g DEF Handover, InBody, Setting
<1>16. ASSUME FinalSetEvent PROVE StatusAt'
  <2>1. thread' = "gone" <=> thread = "gone"
    BY <1>16 DEF FinalSetEvent, SetEvent
  <2> QED BY <1>16, <2>1, <1>f DEF FinalSetEvent, StatusAt, Live, Gone, InBody, Setting
<1>17. ASSUME FinalReady PROVE StatusAt'
  BY <1>17, <1>f DEF FinalReady, StatusAt, Live, Gone, InBody, Setting
<1>18. ASSUME FinalSuspend PROVE StatusAt'
  <2>1. thread' = thread /\ finisher' = finisher /\ at'[Root] = "end" /\ at[Root] = "finalSuspend"
    BY <1>18, FinalSuspendEffect DEF FinalSuspend
  <2>2. status' \in Gone => status \in Gone
    BY <1>18, FinalSuspendEffect DEF Gone
  <2>3. finisher[Root] \in {"none", "end", "waiting", "run", "set"}
    BY <1>a, <1>d
  <2> QED BY <1>18, <2>1, <2>2, <2>3, <1>f, FinalSuspendEffect DEF StatusAt, InBody, Setting
<1>19. ASSUME NEW c \in Tasks, FinisherSignal(c) PROVE StatusAt'
  BY <1>19, <1>g DEF FinisherSignal, Tree
<1>20. ASSUME FinisherSetEvent PROVE StatusAt'
  <2>1. thread' = "gone" <=> thread = "gone"
    BY <1>20 DEF FinisherSetEvent, SetEvent
  <2> QED BY <1>20, <2>1, <1>f DEF FinisherSetEvent, Tree, StatusAt, Live, Gone, InBody, Setting
<1>21. ASSUME FinisherSet PROVE StatusAt'
  <2>1. thread' = thread /\ at' = at /\ finisher[Root] = "set" /\ finisher'[Root] = "end"
    BY <1>21, FinisherSetEffect DEF FinisherSet
  <2>2. status' \in Gone => status \in Gone
    BY <1>21, FinisherSetEffect DEF Gone
  <2> QED BY <1>21, <2>1, <2>2, <1>f, FinisherSetEffect DEF StatusAt, InBody, Setting
<1>22. ASSUME Wait PROVE StatusAt'
  BY <1>22, <1>f DEF Wait, ThreadGo, StatusAt, Live, Gone, InBody, Setting
<1>23. ASSUME WakeUp PROVE StatusAt'
  BY <1>23, <1>f DEF WakeUp, ThreadGo, StatusAt, Live, Gone, InBody, Setting
<1>24. ASSUME Value PROVE StatusAt'
  BY <1>24, <1>f DEF Value, ThreadGo, StatusAt, Live, Gone, InBody, Setting
<1>25. ASSUME Drop PROVE StatusAt'
  BY <1>25, <1>f DEF Drop, ThreadGo, StatusAt, Live, Gone, InBody, Setting
<1>26. ASSUME Abandon PROVE StatusAt'
  <2>1. at' = at /\ finisher' = finisher
    BY <1>26 DEF Abandon
  <2>2. at[Root] \in Places \ {"new", "made"}
    BY <1>a, <1>d
  <2> QED BY <1>26, <2>1, <2>2, <1>f, AbandonEffect
         DEF StatusAt, Live, Gone, InBody, Setting, Places
<1> QED
  BY <1>0, <1>1, <1>2, <1>3, <1>4, <1>5, <1>6, <1>7, <1>8, <1>9, <1>10, <1>11, <1>12, <1>13,
     <1>14, <1>15, <1>16, <1>17, <1>18, <1>19, <1>20, <1>21, <1>22, <1>23, <1>24, <1>25,
     <1>26
     DEF Next, Own, Finish, RootFinish, FinisherStep, ThreadStep

LEMMA SignaledStep ==
    ASSUME TypeOK, Exact, Tree, Ending, StatusAt, Signaled, [Next]_vars PROVE Signaled'
<1>a. /\ at \in [Coroutines -> Places]
      /\ owner \in [Coroutines -> Coroutines \cup {Outer, NULL}]
      /\ job \in [Coroutines -> Tasks \cup {NULL}]
      /\ finisher \in [Coroutines -> {"none", "waiting", "run", "set", "end"}]
  BY DEF TypeOK
<1>b. \A c \in Coroutines : at[c] \in Setting =>
         job[c] \in Tasks /\ c # job[c] /\ job[c] \in Coroutines
  <2>1. \A c \in Coroutines : at[c] \in Setting => job[c] \in Tasks /\ c # job[c]
    BY Numbers DEF Tree
  <2> QED BY <2>1, Numbers
<1>c. ASSUME NEW c \in Coroutines, at[c] \in Setting, Settle(c)
      PROVE  /\ at'[c] = "body" /\ job'[c] = NULL
             /\ \A d \in Coroutines \ {c} :
                   /\ job'[d] = job[d]
                   /\ at'[d] = IF d = job[c] /\ at[d] = "made" THEN "body" ELSE at[d]
  BY <1>c, Settled
<1>d. Tasks \subseteq Coroutines /\ Root \in Coroutines /\ NULL \notin Coroutines
  BY Numbers
<1>e. /\ isSet => /\ at[Root] \in {"finish", "signalOwner", "finalReady", "finalSuspend", "end"}
                  /\ Childless(Root)
      /\ thread \in {"value", "drop"} => isSet
  BY DEF Signaled
<1>f. isSet => Childless(Root)'
  BY <1>d, <1>e, ChildlessStays
<1>g. ASSUME UNCHANGED <<isSet, thread>>,
             isSet => at'[Root] \in {"finish", "signalOwner", "finalReady", "finalSuspend", "end"}
      PROVE  Signaled'
  BY <1>e, <1>f, <1>g DEF Signaled
<1>h. /\ at[Root] = "set" => Childless(Root)
      /\ finisher[Root] = "run" => Childless(Root)
            /\ at[Root] \in {"signalOwner", "finalReady", "finalSuspend", "end"}
  BY <1>d DEF Ending, EndingAt, Finished, Counts
<1>i. Childless(Root) /\ at[Root] # "exchange" => Childless(Root)'
  BY <1>d, ChildlessStays
<1> USE <1>a, <1>d, <1>e DEF Go, root
<1>0. CASE UNCHANGED vars
  BY <1>0, <1>g DEF vars
<1>1. ASSUME NEW c \in Coroutines, IsZero(c) PROVE Signaled'
  BY <1>1, <1>b, <1>c, <1>g DEF IsZero, Setting
<1>2. ASSUME NEW c \in Coroutines, CountUp(c) PROVE Signaled'
  BY <1>2, <1>g DEF CountUp
<1>3. ASSUME NEW c \in Coroutines, Reserve(c) PROVE Signaled'
  BY <1>3, <1>g DEF Reserve
<1>4. ASSUME NEW c \in Coroutines, ExchangeOwner(c) PROVE Signaled'
  BY <1>4, <1>g DEF ExchangeOwner
<1>5. ASSUME NEW c \in Coroutines, OwnerCountDown(c) PROVE Signaled'
  BY <1>5, <1>g DEF OwnerCountDown
<1>6. ASSUME NEW c \in Coroutines, RecheckZero(c) PROVE Signaled'
  BY <1>6, <1>b, <1>c, <1>g DEF RecheckZero, Setting
<1>7. ASSUME NEW c \in Coroutines, SignalForTask(c) PROVE Signaled'
  BY <1>7, <1>b, <1>c, <1>g DEF SignalForTask, Setting
<1>8. ASSUME NEW c \in Coroutines, Return(c) PROVE Signaled'
  BY <1>8, <1>g DEF Return
<1>9. ASSUME NEW c \in Coroutines, FinalCount(c) PROVE Signaled'
  BY <1>9, <1>g DEF FinalCount
<1>10. ASSUME NEW c \in Coroutines, SetCompleted(c) PROVE Signaled'
  <2>1. CASE c = Root
    BY <1>10, <2>1, <1>g, SetCompletedEffect DEF SetCompleted
  <2>2. CASE c # Root
    BY <1>10, <2>2, <1>g DEF SetCompleted
  <2> QED BY <2>1, <2>2
<1>11. ASSUME NEW c \in Coroutines, DeferCompletion(c) PROVE Signaled'
  BY <1>11, <1>g DEF DeferCompletion
<1>12. ASSUME NEW c \in Coroutines, CompletionCountDown(c) PROVE Signaled'
  BY <1>12, <1>g DEF CompletionCountDown
<1>13. ASSUME NEW c \in Coroutines, FinalSignalOwner(c) PROVE Signaled'
  BY <1>13, <1>g DEF FinalSignalOwner
<1>14. ASSUME NEW c \in Coroutines, NEW t \in Tasks, Create(c, t) PROVE Signaled'
  BY <1>14, <1>g DEF Create
<1>15. ASSUME NEW c \in Coroutines, NEW t \in Tasks, Handover(c, t) PROVE Signaled'
  BY <1>15, <1>g DEF Handover
<1>16. ASSUME FinalSetEvent PROVE Signaled'
  BY <1>16, <1>h, <1>i DEF FinalSetEvent, SetEvent, Signaled
<1>17. ASSUME FinalReady PROVE Signaled'
  BY <1>17, <1>g DEF FinalReady
<1>18. ASSUME FinalSuspend PROVE Signaled'
  BY <1>18, <1>g, FinalSuspendEffect DEF FinalSuspend
<1>19. ASSUME NEW c \in Tasks, FinisherSignal(c) PROVE Signaled'
  BY <1>19, <1>g DEF FinisherSignal
<1>20. ASSUME FinisherSetEvent PROVE Signaled'
  BY <1>20, <1>h, <1>i DEF FinisherSetEvent, SetEvent, Signaled
<1>21. ASSUME FinisherSet PROVE Signaled'
  BY <1>21, <1>g DEF FinisherSet
<1>22. ASSUME Wait PROVE Signaled'
  BY <1>22, <1>f DEF Wait, ThreadGo, OrAbort, Signaled
<1>23. ASSUME WakeUp PROVE Signaled'
  BY <1>23, <1>f DEF WakeUp, ThreadGo, OrAbort, Signaled
<1>24. ASSUME Value PROVE Signaled'
  BY <1>24, <1>f DEF Value, ThreadGo, OrAbort, Signaled
<1>25. ASSUME Drop PROVE Signaled'
  BY <1>25, <1>f DEF Drop, ThreadGo, OrAbort, Signaled
<1>26. ASSUME Abandon PROVE Signaled'
  BY <1>26, <1>f DEF Abandon, ThreadGo, OrAbort, Signaled
<1> QED
  BY <1>0, <1>1, <1>2, <1>3, <1>4, <1>5, <1>6, <1>7, <1>8, <1>9, <1>10, <1>11, <1>12, <1>13,
     <1>14, <1>15, <1>16, <1>17, <1>18, <1>19, <1>20, <1>21, <1>22, <1>23, <1>24, <1>25,
     <1>26
     DEF Next, Own, Finish, RootFinish, FinisherStep, ThreadStep

LEMMA FreedStep ==
    ASSUME TypeOK, Exact, Tree, Ending, StatusAt, FreedLast, [Next]_vars PROVE FreedLast'
<1>a. /\ at \in [Coroutines -> Places]
      /\ owner \in [Coroutines -> Coroutines \cup {Outer, NULL}]
      /\ job \in [Coroutines -> Tasks \cup {NULL}]
      /\ finisher \in [Coroutines -> {"none", "waiting", "run", "set", "end"}]
  BY DEF TypeOK
<1>b. \A c \in Coroutines : at[c] \in Setting =>
         job[c] \in Tasks /\ c # job[c] /\ job[c] \in Coroutines
  <2>1. \A c \in Coroutines : at[c] \in Setting => job[c] \in Tasks /\ c # job[c]
    BY Numbers DEF Tree
  <2> QED BY <2>1, Numbers
<1>c. ASSUME NEW c \in Coroutines, at[c] \in Setting, Settle(c)
      PROVE  /\ at'[c] = "body" /\ job'[c] = NULL
             /\ \A d \in Coroutines \ {c} :
                   /\ job'[d] = job[d]
                   /\ at'[d] = IF d = job[c] /\ at[d] = "made" THEN "body" ELSE at[d]
  BY <1>c, Settled
<1>d. Tasks \subseteq Coroutines /\ Root \in Coroutines /\ NULL \notin Coroutines
  BY Numbers
<1>e. frees \in 0 .. 1
  BY DEF TypeOK
<1>f. frees > 0 => /\ frees = 1 /\ at[Root] = "end" /\ thread = "gone"
                   /\ finisher[Root] \in {"none", "end"}
  BY DEF FreedLast
<1>g. ASSUME frees' = frees, at[Root] = "end" => at'[Root] = "end",
             thread = "gone" => thread' = "gone",
             finisher[Root] \in {"none", "end"} => finisher'[Root] \in {"none", "end"}
      PROVE  FreedLast'
  BY <1>f, <1>g DEF FreedLast
<1>h. ASSUME NEW cs, CountDown(cs)
      PROVE  finisher[Root] \in {"none", "end"} => finisher'[Root] \in {"none", "end"}
  BY <1>d, <1>h DEF CountDown
\* Who sees the task abandoned and complete, or complete, is the last.
<1>i. ASSUME frees' = frees + 1, frees = 0, at'[Root] = "end", thread' = "gone",
             finisher'[Root] \in {"none", "end"}
      PROVE  FreedLast'
  BY <1>i DEF FreedLast
<1>j. /\ status \in {"Abandoned", "AbandonedCompleted", "AbandonedFinalSuspended"} =>
            thread = "gone"
      /\ status = "CompletedFinalSuspended" =>
            at[Root] = "end" /\ finisher[Root] \in {"none", "end"}
      /\ status = "AbandonedFinalSuspended" => at[Root] = "end"
      /\ at[Root] \in {"finalReady", "finalSuspend"} /\ status = "AbandonedCompleted" =>
            finisher[Root] \in {"none", "end"}
  <2>1. /\ at[Root] \in Places \ {"new", "made"}
        /\ finisher[Root] \in {"none", "waiting", "run", "set", "end"}
    BY <1>a, <1>d DEF Tree
  <2> QED BY <2>1 DEF StatusAt, Live, Gone, InBody, Setting, Places
<1> USE <1>a, <1>d DEF Go, root
<1>0. CASE UNCHANGED vars
  BY <1>0, <1>g DEF vars
<1>1. ASSUME NEW c \in Coroutines, IsZero(c) PROVE FreedLast'
  BY <1>1, <1>b, <1>c, <1>g DEF IsZero, Setting
<1>2. ASSUME NEW c \in Coroutines, CountUp(c) PROVE FreedLast'
  BY <1>2, <1>g DEF CountUp
<1>3. ASSUME NEW c \in Coroutines, Reserve(c) PROVE FreedLast'
  BY <1>3, <1>g DEF Reserve
<1>4. ASSUME NEW c \in Coroutines, ExchangeOwner(c) PROVE FreedLast'
  BY <1>4, <1>g, <1>h DEF ExchangeOwner
<1>5. ASSUME NEW c \in Coroutines, OwnerCountDown(c) PROVE FreedLast'
  BY <1>5, <1>g, <1>h DEF OwnerCountDown
<1>6. ASSUME NEW c \in Coroutines, RecheckZero(c) PROVE FreedLast'
  BY <1>6, <1>b, <1>c, <1>g DEF RecheckZero, Setting
<1>7. ASSUME NEW c \in Coroutines, SignalForTask(c) PROVE FreedLast'
  BY <1>7, <1>b, <1>c, <1>g, <1>h DEF SignalForTask, SignalOwner, Setting
<1>8. ASSUME NEW c \in Coroutines, Return(c) PROVE FreedLast'
  BY <1>8, <1>g DEF Return
<1>9. ASSUME NEW c \in Coroutines, FinalCount(c) PROVE FreedLast'
  BY <1>9, <1>g DEF FinalCount
<1>10. ASSUME NEW c \in Coroutines, SetCompleted(c) PROVE FreedLast'
  <2>1. CASE c = Root
    BY <1>10, <2>1, <1>g, SetCompletedEffect DEF SetCompleted
  <2>2. CASE c # Root
    BY <1>10, <2>2, <1>g DEF SetCompleted
  <2> QED BY <2>1, <2>2
<1>11. ASSUME NEW c \in Coroutines, DeferCompletion(c) PROVE FreedLast'
  <2>1. CASE c = Root
    BY <1>11, <2>1, <1>e, <1>f DEF DeferCompletion, FreedLast
  <2>2. CASE c # Root
    BY <1>11, <2>2, <1>g DEF DeferCompletion
  <2> QED BY <2>1, <2>2
<1>12. ASSUME NEW c \in Coroutines, CompletionCountDown(c) PROVE FreedLast'
  BY <1>12, <1>g, <1>h DEF CompletionCountDown
<1>13. ASSUME NEW c \in Coroutines, FinalSignalOwner(c) PROVE FreedLast'
  BY <1>13, <1>g, <1>h DEF FinalSignalOwner, SignalOwner
<1>14. ASSUME NEW c \in Coroutines, NEW t \in Tasks, Create(c, t) PROVE FreedLast'
  BY <1>14, <1>g DEF Create
<1>15. ASSUME NEW c \in Coroutines, NEW t \in Tasks, Handover(c, t) PROVE FreedLast'
  BY <1>15, <1>g DEF Handover
<1>16. ASSUME FinalSetEvent PROVE FreedLast'
  BY <1>16, <1>g DEF FinalSetEvent, SetEvent
<1>17. ASSUME FinalReady PROVE FreedLast'
  <2>1. CASE status = "AbandonedCompleted"
    BY <1>17, <2>1, <1>e, <1>f, <1>i, <1>j DEF FinalReady
  <2>2. CASE status # "AbandonedCompleted"
    BY <1>17, <2>2, <1>g DEF FinalReady
  <2> QED BY <2>1, <2>2
<1>18. ASSUME FinalSuspend PROVE FreedLast'
  <2>0. /\ at[Root] = "finalSuspend" /\ at'[Root] = "end" /\ thread' = thread
        /\ finisher' = finisher
        /\ frees' = IF status = "AbandonedCompleted" THEN frees + 1 ELSE frees
    BY <1>18, FinalSuspendEffect DEF FinalSuspend
  <2>1. CASE status = "AbandonedCompleted"
    BY <2>0, <2>1, <1>e, <1>f, <1>i, <1>j
  <2>2. CASE status # "AbandonedCompleted"
    BY <2>0, <2>2, <1>g
  <2> QED BY <2>1, <2>2
<1>19. ASSUME NEW c \in Tasks, FinisherSignal(c) PROVE FreedLast'
  BY <1>19, <1>g DEF FinisherSignal, Tree
<1>20. ASSUME FinisherSetEvent PROVE FreedLast'
  <2>1. finisher[Root] = "run" /\ frees' = frees
    BY <1>20 DEF FinisherSetEvent
  <2> QED BY <2>1, <1>e, <1>f DEF FreedLast
<1>21. ASSUME FinisherSet PROVE FreedLast'
  <2>0. /\ finisher[Root] = "set" /\ finisher'[Root] = "end" /\ at' = at /\ thread' = thread
        /\ frees' = IF status = "AbandonedFinalSuspended" THEN frees + 1 ELSE frees
    BY <1>21, FinisherSetEffect DEF FinisherSet
  <2>1. CASE status = "AbandonedFinalSuspended"
    BY <2>0, <2>1, <1>e, <1>f, <1>i, <1>j
  <2>2. CASE status # "AbandonedFinalSuspended"
    BY <2>0, <2>2, <1>g
  <2> QED BY <2>1, <2>2
<1>22. ASSUME Wait PROVE FreedLast'
  BY <1>22, <1>g DEF Wait, ThreadGo
<1>23. ASSUME WakeUp PROVE FreedLast'
  BY <1>23, <1>g DEF WakeUp, ThreadGo
<1>24. ASSUME Value PROVE FreedLast'
  BY <1>24, <1>g DEF Value, ThreadGo
<1>25. ASSUME Drop PROVE FreedLast'
  <2>1. CASE status = "CompletedFinalSuspended"
    BY <1>25, <2>1, <1>e, <1>f, <1>i, <1>j DEF Drop
  <2>2. CASE status # "CompletedFinalSuspended"
    BY <1>25, <2>2, <1>g DEF Drop
  <2> QED BY <2>1, <2>2
<1>26. ASSUME Abandon PROVE FreedLast'
  <2>0. /\ thread = "abandon" /\ thread' = "gone" /\ at' = at /\ finisher' = finisher
        /\ frees' = IF status = "CompletedFinalSuspended" THEN frees + 1 ELSE frees
    BY <1>26, AbandonEffect DEF Abandon
  <2>1. CASE status = "CompletedFinalSuspended"
    BY <2>0, <2>1, <1>e, <1>f, <1>i, <1>j
  <2>2. CASE status # "CompletedFinalSuspended"
    BY <2>0, <2>2, <1>g
  <2> QED BY <2>1, <2>2
<1> QED
  BY <1>0, <1>1, <1>2, <1>3, <1>4, <1>5, <1>6, <1>7, <1>8, <1>9, <1>10, <1>11, <1>12, <1>13,
     <1>14, <1>15, <1>16, <1>17, <1>18, <1>19, <1>20, <1>21, <1>22, <1>23, <1>24, <1>25,
     <1>26
     DEF Next, Own, Finish, RootFinish, FinisherStep, ThreadStep

-----------------------------------------------------------------------------
(* The invariant, and what follows from it *)

LEMMA SyncInit == ASSUME RootOutside PROVE Init => SyncInv
<1> SUFFICES ASSUME Init PROVE SyncInv
  OBVIOUS
<1>a. /\ Root \in Coroutines /\ \A c \in Coroutines : c # NULL
      /\ owner = [c \in Coroutines |-> NULL] /\ count = [c \in Coroutines |-> 1]
      /\ at = [c \in Coroutines |-> IF c = Root THEN "body" ELSE "new"]
      /\ job = [c \in Coroutines |-> NULL] /\ finisher = [c \in Coroutines |-> "none"]
  BY Numbers DEF Init, RootOutside
<1>b. status = "Running" /\ frees = 0 /\ isSet = FALSE /\ thread = "start" /\ handovers = 0
  BY DEF Init
<1>1. TypeOK
  <2>1. status \in Statuses
    BY <1>b DEF Statuses, Moves
  <2>2. at \in [Coroutines -> Places] /\ count \in [Coroutines -> Nat]
    BY <1>a DEF Places
  <2>3. /\ owner \in [Coroutines -> Coroutines \cup {Outer, NULL}]
        /\ job \in [Coroutines -> Tasks \cup {NULL}]
        /\ finisher \in [Coroutines -> {"none", "waiting", "run", "set", "end"}]
    BY <1>a
  <2>4. handovers \in 0 .. Handovers /\ frees \in 0 .. 1
    BY <1>b, TaskAssumption
  <2>5. isSet \in BOOLEAN
           /\ thread \in {"start", "asleep", "woken", "value", "drop", "abandon", "gone"}
    BY <1>b
  <2> QED BY <2>1, <2>2, <2>3, <2>4, <2>5 DEF TypeOK
<1>2. Exact
  <2>1. ASSUME NEW c \in Coroutines PROVE count[c] = Total(c)
    <3>1. Kids(c) = {} /\ Movers(c) = {}
      BY <1>a DEF Kids, Movers, Pulsing
    <3>2. Cardinality(Kids(c)) = 0 /\ Cardinality(Movers(c)) = 0
      BY <3>1, FS_EmptySet
    <3>3. count[c] = 1 /\ at[c] # "exchange" /\ Counts(c)
      BY <1>a DEF Counts
    <3> QED BY <3>2, <3>3 DEF Total, One
  <2> QED BY <2>1 DEF Exact
<1>3. Tree
  BY <1>a, Numbers DEF Tree, Setting
<1>4. Ending
  BY <1>a DEF Ending, EndingAt
<1>5. Owned
  BY <1>a, Numbers DEF Owned, OwnerKnown, OwnedTask
<1>6. StatusAt /\ Signaled /\ FreedLast
  BY <1>a, <1>b DEF StatusAt, Signaled, FreedLast, Live, Gone, InBody, Setting
<1> QED BY <1>1, <1>2, <1>3, <1>4, <1>5, <1>6 DEF SyncInv

LEMMA SyncStepInv == SyncInv /\ [Next]_vars => SyncInv'
<1> SUFFICES ASSUME SyncInv, [Next]_vars PROVE SyncInv'
  OBVIOUS
<1>0. TypeOK /\ Exact /\ Tree /\ Ending /\ Owned /\ StatusAt /\ Signaled /\ FreedLast
  BY DEF SyncInv
<1>1. Exact'
  BY <1>0, ExactStep
<1>2. TypeOK'
  BY <1>0, <1>1, TypeStep
<1>3. Tree' /\ Ending'
  BY <1>0, <1>1, TreeStep, EndingStep
<1>4. Owned'
  BY <1>0, OwnerKnownStep, OwnedTaskStep DEF Owned
<1>5. StatusAt' /\ Signaled' /\ FreedLast'
  BY <1>0, StatusAtStep, SignaledStep, FreedStep
<1> QED BY <1>1, <1>2, <1>3, <1>4, <1>5 DEF SyncInv

LEMMA SyncInvariant == ASSUME RootOutside PROVE Spec => []SyncInv
<1>1. Init => SyncInv
  BY SyncInit
<1> QED BY <1>1, SyncStepInv, PTL DEF Spec

\* The completion event of every coroutine counts exactly the coroutine, the tasks that it
\* owns and the changes of owner under way, for any number of tasks that change their owner
\* at the same time; and no place is "abort".
THEOREM SyncCountsExact == ASSUME RootOutside PROVE Spec => []CountsExact
<1>1. ASSUME SyncInv, NEW c \in Coroutines
      PROVE  count[c] = Number({d \in {c} : Counts(d)})
                        + Number({t \in Coroutines : owner[t] = c})
                        + Number({d \in {c} : at[d] = "exchange"})
                        + Number({d \in Coroutines :
                              job[d] = c /\ at[d] \in {"reserve", "exchange", "settle", "undo"}})
  <2>1. \A b \in BOOLEAN : Cardinality({d \in {c} : b}) = One(b)
    <3>1. Cardinality({c}) = 1 /\ Cardinality({}) = 0
      BY FS_Singleton, FS_EmptySet
    <3>2. {d \in {c} : TRUE} = {c} /\ {d \in {c} : FALSE} = {}
      OBVIOUS
    <3> QED BY <3>1, <3>2 DEF One
  <2>2. /\ {d \in {c} : Counts(d)} = {d \in {c} : Counts(c)}
        /\ {d \in {c} : at[d] = "exchange"} = {d \in {c} : at[c] = "exchange"}
    OBVIOUS
  <2>3. /\ Cardinality({d \in {c} : Counts(c)}) = One(Counts(c))
        /\ Cardinality({d \in {c} : at[c] = "exchange"}) = One(at[c] = "exchange")
    BY <2>1 DEF Counts
  <2>4. count[c] = One(Counts(c)) + Cardinality(Kids(c)) + One(at[c] = "exchange")
                      + Cardinality(Movers(c))
    BY <1>1 DEF SyncInv, Exact, Total
  <2> QED BY <2>2, <2>3, <2>4 DEF Number, Kids, Movers, Pulsing
<1>2. SyncInv => CountsExact
  BY <1>1 DEF SyncInv, CountsExact
<1> QED BY SyncInvariant, <1>2, PTL

LEMMA Least ==
    ASSUME NEW S \in SUBSET Nat, S # {} PROVE \E n \in S : \A m \in S : n <= m
<1> DEFINE R == OpToRel(<, Nat)
<1>1. PICK n \in S : \A m \in S : ~(<<m, n>> \in R)
  <2>1. IsWellFoundedOn(R, Nat)
    BY NatLessThanWellFounded
  <2> HIDE DEF R
  <2> QED BY <2>1, WFMin
<1>2. \A m \in S : <<m, n>> \in R <=> m < n
  BY DEF OpToRel
<1> HIDE DEF R
<1>3. \A m \in S : ~(m < n)
  BY <1>1, <1>2
<1>4. \A m, k \in Nat : ~(m < k) => k <= m
  OBVIOUS
<1>5. \A m \in S : n <= m
  BY <1>3, <1>4
<1> QED BY <1>5

\* When the event is set, a task that is not complete has one above it that is not, either:
\* its owner, or one that sets its owner.
LEMMA OneAbove ==
    ASSUME SyncInv, isSet, NEW t \in Tasks, at[t] # "new", count[t] # 0
    PROVE  \E p \in Tasks : p < t /\ at[p] # "new" /\ count[p] # 0
<1>0. /\ Tree /\ Owned /\ Exact /\ t \in Coroutines
      /\ Childless(Root) /\ at[Root] \notin Setting
  BY Numbers DEF SyncInv, Signaled, Setting
<1>1. ASSUME NEW c \in Coroutines, at[c] \in Setting, job[c] = t
      PROVE  c \in Tasks /\ c < t /\ at[c] # "new" /\ count[c] # 0
  <2>1. c \in Tasks /\ c < t /\ at[c] # "new"
    BY <1>0, <1>1, Numbers DEF Tree, Setting
  <2>2. Counts(c)
    BY <1>1 DEF Counts, Setting
  <2> QED BY <1>0, <2>1, <2>2, ZeroIsFinished DEF Finished
<1>2. CASE \E c \in Coroutines : at[c] \in Setting /\ job[c] = t
  BY <1>1, <1>2
<1>3. CASE owner[t] # NULL
  <2>1. owner[t] \in Coroutines /\ owner[t] < t /\ at[owner[t]] # "new"
    BY <1>0, <1>3 DEF Tree
  <2>2. owner[t] # Root /\ ~Childless(owner[t])
    BY <1>0 DEF Childless
  <2>3. owner[t] \in Tasks /\ count[owner[t]] # 0
    BY <1>0, <2>1, <2>2, Numbers, ZeroIsFinished DEF Finished
  <2> QED BY <2>1, <2>3
<1>4. CASE owner[t] = NULL /\ ~\E c \in Coroutines : at[c] \in Setting /\ job[c] = t
  <2>1. Finished(t)
    BY <1>0, <1>4 DEF Owned, OwnedTask
  <2>2. Cardinality(Kids(t)) = 0 /\ at[t] # "exchange" /\ ~Counts(t)
    BY <2>1, KidsFinite DEF Finished, Counts
  <2>3. Movers(t) = {}
    BY <1>4 DEF Movers, Pulsing, Setting
  <2>4. Cardinality(Movers(t)) = 0
    BY <2>3, FS_EmptySet
  <2>5. count[t] = 0
    BY <1>0, <2>2, <2>4 DEF Exact, Total, One
  <2> QED BY <2>5
<1> QED BY <1>2, <1>3, <1>4

\* The thread gets its value when every task below the SyncTask is complete, however deep
\* the tree is and however often its tasks changed their owners: if one were not, the least
\* of those would have one above it.
THEOREM SyncWaitsForAll == ASSUME RootOutside PROVE Spec => []WaitsForAll
<1>1. SyncInv => WaitsForAll
  <2> SUFFICES ASSUME SyncInv, thread \in {"value", "drop"}
               PROVE  \A t \in Tasks : at[t] = "new" \/ count[t] = 0
    BY DEF WaitsForAll
  <2> DEFINE Open == {t \in Tasks : at[t] # "new" /\ count[t] # 0}
  <2>1. isSet
    BY DEF SyncInv, Signaled
  <2>2. Open \in SUBSET Nat
    BY Numbers
  <2>3. ASSUME Open # {} PROVE FALSE
    <3>1. PICK t \in Open : \A m \in Open : t <= m
      BY <2>2, <2>3, Least
    <3>2. PICK p \in Tasks : p < t /\ at[p] # "new" /\ count[p] # 0
      BY <2>1, <3>1, OneAbove
    <3>3. p \in Open /\ p \in Nat /\ t \in Nat
      BY <2>2, <3>1, <3>2
    <3> QED BY <3>1, <3>2, <3>3
  <2> QED BY <2>3
<1> QED BY SyncInvariant, <1>1, PTL

\* The frame of the SyncTask, with the event that the thread waits for, is destroyed once,
\* when the thread, the coroutine and its finisher have all left it.
THEOREM SyncFreedLast == ASSUME RootOutside PROVE Spec => []FreedLast
<1>1. SyncInv => FreedLast
  BY DEF SyncInv
<1> QED BY SyncInvariant, <1>1, PTL
=============================================================================
