--------------------------- MODULE WhereaboutsLemmas ---------------------------
(***************************************************************************)
(* What the moves of a coroutine between its places do to InOnePlace: one  *)
(* lemma for each move that the components make.                           *)
(***************************************************************************)
EXTENDS Whereabouts, SequenceTheorems, TLAPS

Queued(queue, c) == \E i \in 1 .. Len(queue) : queue[i] = c
Held(held, c) == \E h \in held : h[2] = c

\* InOnePlace, place by place.
Placed(coroutines, live, scheduled, queue, held) ==
    /\ \A i, j \in 1 .. Len(queue) : queue[i] = queue[j] => i = j
    /\ \A g, h \in held : g[2] = h[2] => g[1] = h[1]
    /\ \A c \in coroutines :
           /\ scheduled[c] \in {0, 1}
           /\ ~(scheduled[c] = 1 /\ Queued(queue, c))
           /\ ~(scheduled[c] = 1 /\ Held(held, c))
           /\ ~(Queued(queue, c) /\ Held(held, c))
           /\ c \in live <=> scheduled[c] = 1 \/ Queued(queue, c) \/ Held(held, c)

\* The values that the lemmas are about.
Values(coroutines, holders, scheduled, queue, held) ==
    /\ scheduled \in [coroutines -> Nat]
    /\ queue \in Seq(coroutines)
    /\ held \subseteq holders \X coroutines

\* The two forms of the invariant are the same.
LEMMA PlacedIsInOnePlace ==
    ASSUME NEW coroutines, NEW holders, NEW live, NEW scheduled, NEW queue, NEW held,
           Values(coroutines, holders, scheduled, queue, held)
    PROVE  InOnePlace(coroutines, live, scheduled, queue, held)
             <=> Placed(coroutines, live, scheduled, queue, held)
<1> DEFINE P(c) == PlacesOf(c, scheduled, queue, held)
           Inv == InOnePlace(coroutines, live, scheduled, queue, held)
<1>0. /\ scheduled \in [coroutines -> Nat]
      /\ \A i \in 1 .. Len(queue) : queue[i] \in coroutines
      /\ \A h \in held : h = <<h[1], h[2]>> /\ h[1] \in holders /\ h[2] \in coroutines
  BY DEF Values
<1>1. \A c \in coroutines : \A n : <<"ready", n>> \in P(c) <=> n \in 1 .. scheduled[c]
  BY DEF PlacesOf
<1>2. \A c \in coroutines : \A n : <<"queue", n>> \in P(c) <=> n \in 1 .. Len(queue) /\ queue[n] = c
  BY DEF PlacesOf
<1>3. \A c \in coroutines : \A n : <<"hand", n>> \in P(c) <=> \E h \in held : h[2] = c /\ h[1] = n
  BY DEF PlacesOf
<1>4. \A c \in coroutines : \A p \in P(c) :
          \/ \E n : n \in 1 .. scheduled[c] /\ p = <<"ready", n>>
          \/ \E n : n \in 1 .. Len(queue) /\ queue[n] = c /\ p = <<"queue", n>>
          \/ \E h \in held : h[2] = c /\ p = <<"hand", h[1]>>
  BY DEF PlacesOf
<1>5. /\ \A m, n : <<"ready", m>> # <<"queue", n>> /\ <<"ready", m>> # <<"hand", n>>
                   /\ <<"queue", m>> # <<"hand", n>>
      /\ \A m, n : <<"ready", m>> = <<"ready", n>> => m = n
      /\ \A m, n : <<"queue", m>> = <<"queue", n>> => m = n
      /\ \A m, n : <<"hand", m>> = <<"hand", n>> => m = n
  OBVIOUS
<1>6. Inv <=> \A c \in coroutines : /\ \A p, q \in P(c) : p = q
                                    /\ c \in live <=> P(c) # {}
  <2>1. ASSUME Inv, NEW c \in coroutines
        PROVE (\A p, q \in P(c) : p = q) /\ (c \in live <=> P(c) # {})
    <3>1. IF c \in live THEN \E p \in P(c) : P(c) = {p} ELSE P(c) = {}
      BY <2>1 DEF InOnePlace
    <3> HIDE DEF P
    <3> QED BY <3>1
  <2>2. ASSUME \A c \in coroutines : (\A p, q \in P(c) : p = q) /\ (c \in live <=> P(c) # {}),
               NEW c \in coroutines
        PROVE IF c \in live THEN \E p \in P(c) : P(c) = {p} ELSE P(c) = {}
    <3> HIDE DEF P
    <3> QED BY <2>2
  <2> QED BY <2>1, <2>2 DEF InOnePlace
<1> HIDE DEF P, Inv
<1>7. ASSUME Inv PROVE Placed(coroutines, live, scheduled, queue, held)
  <2>1. \A c \in coroutines : scheduled[c] \in {0, 1}
    <3> SUFFICES ASSUME NEW c \in coroutines, scheduled[c] \notin {0, 1} PROVE FALSE
      OBVIOUS
    <3>1. 1 \in 1 .. scheduled[c] /\ 2 \in 1 .. scheduled[c]
      BY <1>0
    <3>2. <<"ready", 1>> \in P(c) /\ <<"ready", 2>> \in P(c)
      BY <3>1, <1>1
    <3>3. <<"ready", 1>> = <<"ready", 2>>
      BY <3>2, <1>6, <1>7
    <3> QED BY <3>3
  <2>2. \A c \in coroutines : scheduled[c] # 0 => <<"ready", 1>> \in P(c)
    <3> SUFFICES ASSUME NEW c \in coroutines, scheduled[c] # 0 PROVE 1 \in 1 .. scheduled[c]
      BY <1>1
    <3> QED BY <1>0
  <2>3. \A i \in 1 .. Len(queue) : <<"queue", i>> \in P(queue[i])
    BY <1>0, <1>2
  <2>4. \A h \in held : <<"hand", h[1]>> \in P(h[2])
    BY <1>0, <1>3
  <2>5. \A c \in coroutines : \A p, q \in P(c) : p = q
    BY <1>6, <1>7
  <2>6. ASSUME NEW i \in 1 .. Len(queue), NEW j \in 1 .. Len(queue), queue[i] = queue[j]
        PROVE  i = j
    <3>1. <<"queue", i>> = <<"queue", j>>
      BY <2>3, <2>5, <2>6, <1>0
    <3> QED BY <3>1
  <2>7. ASSUME NEW g \in held, NEW h \in held, g[2] = h[2]
        PROVE  g[1] = h[1]
    <3>1. <<"hand", g[1]>> = <<"hand", h[1]>>
      BY <2>4, <2>5, <2>7, <1>0
    <3> QED BY <3>1
  <2>8. ASSUME NEW c \in coroutines, scheduled[c] = 1, Queued(queue, c) PROVE FALSE
    <3>1. PICK i \in 1 .. Len(queue) : queue[i] = c
      BY <2>8 DEF Queued
    <3>2. <<"ready", 1>> \in P(c) /\ <<"queue", i>> \in P(c)
      BY <2>2, <2>3, <2>8, <3>1
    <3>3. <<"ready", 1>> = <<"queue", i>>
      BY <2>5, <3>2
    <3> QED BY <3>3
  <2>9. ASSUME NEW c \in coroutines, scheduled[c] = 1, Held(held, c) PROVE FALSE
    <3>1. PICK h \in held : h[2] = c
      BY <2>9 DEF Held
    <3>2. <<"ready", 1>> \in P(c) /\ <<"hand", h[1]>> \in P(c)
      BY <2>2, <2>4, <2>9, <3>1
    <3>3. <<"ready", 1>> = <<"hand", h[1]>>
      BY <2>5, <3>2
    <3> QED BY <3>3
  <2>10. ASSUME NEW c \in coroutines, Queued(queue, c), Held(held, c) PROVE FALSE
    <3>1. PICK i \in 1 .. Len(queue) : queue[i] = c
      BY <2>10 DEF Queued
    <3>2. PICK h \in held : h[2] = c
      BY <2>10 DEF Held
    <3>3. <<"queue", i>> \in P(c) /\ <<"hand", h[1]>> \in P(c)
      BY <2>3, <2>4, <3>1, <3>2
    <3>4. <<"queue", i>> = <<"hand", h[1]>>
      BY <2>5, <3>3
    <3> QED BY <3>4
  <2>11. ASSUME NEW c \in coroutines
         PROVE  c \in live <=> scheduled[c] = 1 \/ Queued(queue, c) \/ Held(held, c)
    <3>1. CASE c \in live
      <4>1. PICK p : p \in P(c)
        BY <3>1, <1>6, <1>7
      <4>2. ASSUME NEW n, n \in 1 .. scheduled[c] PROVE scheduled[c] = 1
        BY <4>2, <2>1
      <4> QED BY <3>1, <4>1, <4>2, <1>4 DEF Queued, Held
    <3>2. CASE c \notin live
      <4>1. P(c) = {}
        BY <3>2, <1>6, <1>7
      <4>2. scheduled[c] # 1
        BY <4>1, <2>2
      <4>3. ~Queued(queue, c)
        BY <4>1, <2>3 DEF Queued
      <4>4. ~Held(held, c)
        BY <4>1, <2>4 DEF Held
      <4> QED BY <3>2, <4>2, <4>3, <4>4
    <3> QED BY <3>1, <3>2
  <2> QED BY <2>1, <2>6, <2>7, <2>8, <2>9, <2>10, <2>11 DEF Placed
<1>8. ASSUME Placed(coroutines, live, scheduled, queue, held) PROVE Inv
  <2>1. \A c \in coroutines : \A n : n \in 1 .. scheduled[c] => n = 1 /\ scheduled[c] = 1
    BY <1>8 DEF Placed
  <2>2. ASSUME NEW c \in coroutines, NEW p \in P(c), NEW q \in P(c) PROVE p = q
    <3>1. CASE scheduled[c] = 1
      <4>1. ~Queued(queue, c) /\ ~Held(held, c)
        BY <3>1, <1>8 DEF Placed
      <4> QED BY <4>1, <2>1, <1>4 DEF Queued, Held
    <3>2. CASE Held(held, c)
      <4>1. scheduled[c] # 1 /\ ~Queued(queue, c)
        BY <3>2, <1>8 DEF Placed
      <4>2. PICK g \in held : g[2] = c /\ p = <<"hand", g[1]>>
        BY <4>1, <2>1, <1>4 DEF Queued
      <4>3. PICK h \in held : h[2] = c /\ q = <<"hand", h[1]>>
        BY <4>1, <2>1, <1>4 DEF Queued
      <4>4. g[1] = h[1]
        BY <4>2, <4>3, <1>8 DEF Placed
      <4> QED BY <4>2, <4>3, <4>4
    <3>3. CASE scheduled[c] # 1 /\ ~Held(held, c)
      <4>1. PICK m : m \in 1 .. Len(queue) /\ queue[m] = c /\ p = <<"queue", m>>
        BY <3>3, <2>1, <1>4 DEF Held
      <4>2. PICK n : n \in 1 .. Len(queue) /\ queue[n] = c /\ q = <<"queue", n>>
        BY <3>3, <2>1, <1>4 DEF Held
      <4>3. m = n
        BY <4>1, <4>2, <1>8 DEF Placed
      <4> QED BY <4>1, <4>2, <4>3
    <3> QED BY <3>1, <3>2, <3>3
  <2>3. ASSUME NEW c \in coroutines PROVE c \in live <=> P(c) # {}
    <3>1. ASSUME scheduled[c] = 1 PROVE <<"ready", 1>> \in P(c)
      BY <3>1, <1>1
    <3>2. ASSUME Queued(queue, c) PROVE P(c) # {}
      BY <3>2, <1>2 DEF Queued
    <3>3. ASSUME Held(held, c) PROVE P(c) # {}
      <4>1. PICK h \in held : h[2] = c
        BY <3>3 DEF Held
      <4>2. <<"hand", h[1]>> \in P(c)
        BY <4>1, <1>3
      <4> QED BY <4>2
    <3>4. ASSUME NEW p \in P(c) PROVE scheduled[c] = 1 \/ Queued(queue, c) \/ Held(held, c)
      BY <1>4, <2>1 DEF Queued, Held
    <3>5. c \in live <=> scheduled[c] = 1 \/ Queued(queue, c) \/ Held(held, c)
      BY <1>8 DEF Placed
    <3> QED BY <3>1, <3>2, <3>3, <3>4, <3>5
  <2> QED BY <2>2, <2>3, <1>6
<1> QED BY <1>7, <1>8 DEF Inv
-----------------------------------------------------------------------------
(* Every move takes one coroutine from where it is to another place, and     *)
(* leaves all others where they are.                                         *)

LEMMA MovesOne ==
    ASSUME NEW coroutines, NEW live, NEW scheduled, NEW queue, NEW held,
           Placed(coroutines, live, scheduled, queue, held),
           NEW liveN, NEW scheduledN, NEW queueN, NEW heldN, NEW c \in coroutines,
           \A i, j \in 1 .. Len(queueN) : queueN[i] = queueN[j] => i = j,
           \A g, h \in heldN : g[2] = h[2] => g[1] = h[1],
           \A d \in coroutines \ {c} :
               /\ scheduledN[d] = scheduled[d]
               /\ Queued(queueN, d) <=> Queued(queue, d)
               /\ Held(heldN, d) <=> Held(held, d)
               /\ d \in liveN <=> d \in live,
           \/ scheduledN[c] = 1 /\ ~Queued(queueN, c) /\ ~Held(heldN, c) /\ c \in liveN
           \/ scheduledN[c] = 0 /\ Queued(queueN, c) /\ ~Held(heldN, c) /\ c \in liveN
           \/ scheduledN[c] = 0 /\ ~Queued(queueN, c) /\ Held(heldN, c) /\ c \in liveN
           \/ scheduledN[c] = 0 /\ ~Queued(queueN, c) /\ ~Held(heldN, c) /\ c \notin liveN
    PROVE  Placed(coroutines, liveN, scheduledN, queueN, heldN)
<1>1. ASSUME NEW d \in coroutines
      PROVE  /\ scheduledN[d] \in {0, 1}
             /\ ~(scheduledN[d] = 1 /\ Queued(queueN, d))
             /\ ~(scheduledN[d] = 1 /\ Held(heldN, d))
             /\ ~(Queued(queueN, d) /\ Held(heldN, d))
             /\ d \in liveN <=> scheduledN[d] = 1 \/ Queued(queueN, d) \/ Held(heldN, d)
  <2>1. CASE d = c
    BY <2>1
  <2>2. CASE d # c
    BY <2>2 DEF Placed
  <2> QED BY <2>1, <2>2
<1> QED BY <1>1 DEF Placed

\* What joins and leaves the set of pairs.
LEMMA HeldAdds ==
    ASSUME NEW held, NEW c, NEW h, ~Held(held, c),
           \A f, g \in held : f[2] = g[2] => f[1] = g[1]
    PROVE  /\ \A f, g \in held \cup {<<h, c>>} : f[2] = g[2] => f[1] = g[1]
           /\ \A d : Held(held \cup {<<h, c>>}, d) <=> Held(held, d) \/ d = c
<1>1. \A g : g \in held \cup {<<h, c>>} <=> g \in held \/ g = <<h, c>>
  OBVIOUS
<1>2. \A g \in held : g[2] # c
  BY DEF Held
<1>3. \A g : g = <<h, c>> => g[1] = h /\ g[2] = c
  OBVIOUS
<1>4. \A d : Held(held \cup {<<h, c>>}, d) <=> Held(held, d) \/ d = c
  BY <1>1, <1>3 DEF Held
<1>5. \A f, g \in held \cup {<<h, c>>} : f[2] = g[2] => f[1] = g[1]
  BY <1>1, <1>2, <1>3
<1> QED BY <1>4, <1>5

LEMMA HeldDrops ==
    ASSUME NEW held, NEW c, NEW h, NEW holders, NEW coroutines,
           held \subseteq holders \X coroutines, <<h, c>> \in held,
           \A f, g \in held : f[2] = g[2] => f[1] = g[1]
    PROVE  /\ \A f, g \in held \ {<<h, c>>} : f[2] = g[2] => f[1] = g[1]
           /\ \A d : Held(held \ {<<h, c>>}, d) <=> Held(held, d) /\ d # c
<1>1. \A g \in held : g = <<g[1], g[2]>>
  OBVIOUS
<1>2. \A g \in held : g[2] = c => g = <<h, c>>
  BY <1>1
<1>3. \A d : Held(held \ {<<h, c>>}, d) <=> Held(held, d) /\ d # c
  BY <1>2 DEF Held
<1> QED BY <1>3

\* What joins and leaves the queue.
LEMMA QueueAdds ==
    ASSUME NEW coroutines, NEW queue \in Seq(coroutines), NEW c \in coroutines, ~Queued(queue, c),
           \A i, j \in 1 .. Len(queue) : queue[i] = queue[j] => i = j
    PROVE  /\ \A i, j \in 1 .. Len(Append(queue, c)) :
                  Append(queue, c)[i] = Append(queue, c)[j] => i = j
           /\ \A d : Queued(Append(queue, c), d) <=> Queued(queue, d) \/ d = c
<1> DEFINE q == Append(queue, c)
<1>1. Len(queue) \in Nat
  OBVIOUS
<1>2. /\ Len(q) = Len(queue) + 1
      /\ \A i \in 1 .. Len(queue) : q[i] = queue[i]
      /\ q[Len(queue) + 1] = c
  BY AppendProperties
<1> HIDE DEF q
<1>3. \A i \in 1 .. Len(queue) + 1 : i \in 1 .. Len(queue) \/ i = Len(queue) + 1
  BY <1>1
<1>4. ASSUME NEW i \in 1 .. Len(q), NEW j \in 1 .. Len(q), q[i] = q[j] PROVE i = j
  BY <1>2, <1>3, <1>4 DEF Queued
<1>5. ASSUME NEW d PROVE Queued(q, d) <=> Queued(queue, d) \/ d = c
  <2>1. \A i \in 1 .. Len(queue) : i \in 1 .. Len(queue) + 1
    BY <1>1
  <2>2. Len(queue) + 1 \in 1 .. Len(queue) + 1
    BY <1>1
  <2> QED BY <1>2, <1>3, <2>1, <2>2 DEF Queued
<1> QED BY <1>4, <1>5 DEF q

LEMMA QueueDrops ==
    ASSUME NEW coroutines, NEW queue \in Seq(coroutines), queue # <<>>,
           \A i, j \in 1 .. Len(queue) : queue[i] = queue[j] => i = j
    PROVE  /\ Head(queue) \in coroutines /\ Queued(queue, Head(queue))
           /\ Tail(queue) \in Seq(coroutines)
           /\ \A i, j \in 1 .. Len(Tail(queue)) : Tail(queue)[i] = Tail(queue)[j] => i = j
           /\ \A d : Queued(Tail(queue), d) <=> Queued(queue, d) /\ d # Head(queue)
<1> DEFINE q == Tail(queue)
           c == Head(queue)
<1>1. Len(queue) \in Nat /\ Len(queue) > 0
  BY EmptySeq, LenProperties
<1>2. /\ q \in Seq(coroutines) /\ Len(q) = Len(queue) - 1
      /\ c = queue[1] /\ c \in coroutines
      /\ \A i \in 1 .. Len(queue) - 1 : q[i] = queue[i + 1]
  BY <1>1, HeadTailProperties
<1> HIDE DEF q, c
<1>3. 1 \in 1 .. Len(queue)
  BY <1>1
<1>4. \A i \in 1 .. Len(q) : i + 1 \in 1 .. Len(queue) /\ q[i] = queue[i + 1] /\ i + 1 # 1
  BY <1>1, <1>2
<1>5. \A i \in 1 .. Len(queue) : i = 1 \/ (i - 1 \in 1 .. Len(q) /\ q[i - 1] = queue[i])
  BY <1>1, <1>2
<1>6. ASSUME NEW i \in 1 .. Len(q), NEW j \in 1 .. Len(q), q[i] = q[j] PROVE i = j
  <2>1. i + 1 = j + 1
    BY <1>4, <1>6
  <2> QED BY <2>1
<1>7. ASSUME NEW d PROVE Queued(q, d) <=> Queued(queue, d) /\ d # c
  <2>1. ASSUME Queued(q, d) PROVE Queued(queue, d) /\ d # c
    BY <2>1, <1>2, <1>3, <1>4 DEF Queued
  <2>2. ASSUME Queued(queue, d), d # c PROVE Queued(q, d)
    BY <2>2, <1>2, <1>5 DEF Queued
  <2> QED BY <2>1, <2>2
<1>8. Queued(queue, c)
  BY <1>2, <1>3 DEF Queued
<1> QED BY <1>2, <1>6, <1>7, <1>8 DEF q, c

-----------------------------------------------------------------------------
(* The moves that the components make.                                       *)

\* A worker takes a coroutine from a ready queue.
LEMMA ReadyToHand ==
    ASSUME NEW coroutines, NEW holders, NEW live, NEW scheduled, NEW queue, NEW held,
           Values(coroutines, holders, scheduled, queue, held),
           Placed(coroutines, live, scheduled, queue, held),
           NEW c \in coroutines, NEW h, scheduled[c] > 0
    PROVE  Placed(coroutines, live, [scheduled EXCEPT ![c] = @ - 1], queue, held \cup {<<h, c>>})
<1> DEFINE scheduledN == [scheduled EXCEPT ![c] = @ - 1]
           heldN == held \cup {<<h, c>>}
<1>1. scheduled[c] = 1 /\ ~Queued(queue, c) /\ ~Held(held, c) /\ c \in live
  BY DEF Placed
<1>2. \A d \in coroutines : scheduledN[d] = IF d = c THEN 0 ELSE scheduled[d]
  BY <1>1 DEF Values
<1>3. /\ \A f, g \in heldN : f[2] = g[2] => f[1] = g[1]
      /\ \A d : Held(heldN, d) <=> Held(held, d) \/ d = c
  BY <1>1, HeldAdds DEF Placed
<1>4. \A i, j \in 1 .. Len(queue) : queue[i] = queue[j] => i = j
  BY DEF Placed
<1> HIDE DEF scheduledN, heldN
<1>5. Placed(coroutines, live, scheduledN, queue, heldN)
  BY <1>1, <1>2, <1>3, <1>4, MovesOne
<1> QED BY <1>5 DEF scheduledN, heldN

\* Somebody schedules a coroutine that is in its hand.
LEMMA HandToReady ==
    ASSUME NEW coroutines, NEW holders, NEW live, NEW scheduled, NEW queue, NEW held,
           Values(coroutines, holders, scheduled, queue, held),
           Placed(coroutines, live, scheduled, queue, held),
           NEW c \in coroutines, NEW h, <<h, c>> \in held
    PROVE  Placed(coroutines, live, [scheduled EXCEPT ![c] = @ + 1], queue, held \ {<<h, c>>})
<1> DEFINE scheduledN == [scheduled EXCEPT ![c] = @ + 1]
           heldN == held \ {<<h, c>>}
<1>1. Held(held, c)
  BY DEF Held
<1>2. scheduled[c] = 0 /\ ~Queued(queue, c) /\ c \in live
  BY <1>1 DEF Placed
<1>3. \A d \in coroutines : scheduledN[d] = IF d = c THEN 1 ELSE scheduled[d]
  BY <1>2 DEF Values
<1>4. /\ \A f, g \in heldN : f[2] = g[2] => f[1] = g[1]
      /\ \A d : Held(heldN, d) <=> Held(held, d) /\ d # c
  BY HeldDrops DEF Placed, Values
<1>5. \A i, j \in 1 .. Len(queue) : queue[i] = queue[j] => i = j
  BY DEF Placed
<1> HIDE DEF scheduledN, heldN
<1>6. Placed(coroutines, live, scheduledN, queue, heldN)
  BY <1>2, <1>3, <1>4, <1>5, MovesOne
<1> QED BY <1>6 DEF scheduledN, heldN

\* Somebody enqueues a coroutine that is in its hand.
LEMMA HandToQueue ==
    ASSUME NEW coroutines, NEW holders, NEW live, NEW scheduled, NEW queue, NEW held,
           Values(coroutines, holders, scheduled, queue, held),
           Placed(coroutines, live, scheduled, queue, held),
           NEW c \in coroutines, NEW h, <<h, c>> \in held
    PROVE  Placed(coroutines, live, scheduled, Append(queue, c), held \ {<<h, c>>})
<1> DEFINE queueN == Append(queue, c)
           heldN == held \ {<<h, c>>}
<1>1. Held(held, c)
  BY DEF Held
<1>2. scheduled[c] = 0 /\ ~Queued(queue, c) /\ c \in live
  BY <1>1 DEF Placed
<1>3. /\ \A i, j \in 1 .. Len(queueN) : queueN[i] = queueN[j] => i = j
      /\ \A d : Queued(queueN, d) <=> Queued(queue, d) \/ d = c
  BY <1>2, QueueAdds DEF Placed, Values
<1>4. /\ \A f, g \in heldN : f[2] = g[2] => f[1] = g[1]
      /\ \A d : Held(heldN, d) <=> Held(held, d) /\ d # c
  BY HeldDrops DEF Placed, Values
<1> HIDE DEF queueN, heldN
<1>5. Placed(coroutines, live, scheduled, queueN, heldN)
  BY <1>2, <1>3, <1>4, MovesOne
<1> QED BY <1>5 DEF queueN, heldN

\* Somebody dequeues a coroutine.
LEMMA QueueToHand ==
    ASSUME NEW coroutines, NEW holders, NEW live, NEW scheduled, NEW queue, NEW held,
           Values(coroutines, holders, scheduled, queue, held),
           Placed(coroutines, live, scheduled, queue, held),
           NEW h, queue # <<>>
    PROVE  Placed(coroutines, live, scheduled, Tail(queue), held \cup {<<h, Head(queue)>>})
<1> DEFINE queueN == Tail(queue)
           c == Head(queue)
           heldN == held \cup {<<h, c>>}
<1>1. /\ c \in coroutines /\ Queued(queue, c)
      /\ \A i, j \in 1 .. Len(queueN) : queueN[i] = queueN[j] => i = j
      /\ \A d : Queued(queueN, d) <=> Queued(queue, d) /\ d # c
  BY QueueDrops DEF Placed, Values
<1> HIDE DEF queueN, c
<1>2. scheduled[c] = 0 /\ ~Held(held, c) /\ c \in live
  BY <1>1 DEF Placed
<1>3. /\ \A f, g \in heldN : f[2] = g[2] => f[1] = g[1]
      /\ \A d : Held(heldN, d) <=> Held(held, d) \/ d = c
  BY <1>2, HeldAdds DEF Placed
<1> HIDE DEF heldN
<1>4. Placed(coroutines, live, scheduled, queueN, heldN)
  BY <1>1, <1>2, <1>3, MovesOne
<1> QED BY <1>4 DEF queueN, heldN, c

\* Somebody dequeues and schedules a coroutine.
LEMMA QueueToReady ==
    ASSUME NEW coroutines, NEW holders, NEW live, NEW scheduled, NEW queue, NEW held,
           Values(coroutines, holders, scheduled, queue, held),
           Placed(coroutines, live, scheduled, queue, held), queue # <<>>
    PROVE  Placed(coroutines, live, [scheduled EXCEPT ![Head(queue)] = @ + 1], Tail(queue), held)
<1> DEFINE queueN == Tail(queue)
           c == Head(queue)
           scheduledN == [scheduled EXCEPT ![c] = @ + 1]
<1>1. /\ c \in coroutines /\ Queued(queue, c)
      /\ \A i, j \in 1 .. Len(queueN) : queueN[i] = queueN[j] => i = j
      /\ \A d : Queued(queueN, d) <=> Queued(queue, d) /\ d # c
  BY QueueDrops DEF Placed, Values
<1> HIDE DEF queueN, c
<1>2. scheduled[c] = 0 /\ ~Held(held, c) /\ c \in live
  BY <1>1 DEF Placed
<1>3. \A d \in coroutines : scheduledN[d] = IF d = c THEN 1 ELSE scheduled[d]
  BY <1>2 DEF Values
<1>4. \A f, g \in held : f[2] = g[2] => f[1] = g[1]
  BY DEF Placed
<1> HIDE DEF scheduledN
<1>5. Placed(coroutines, live, scheduledN, queueN, held)
  BY <1>1, <1>2, <1>3, <1>4, MovesOne
<1> QED BY <1>5 DEF queueN, scheduledN, c

\* A coroutine passes from one hand to another.
LEMMA HandToHand ==
    ASSUME NEW coroutines, NEW holders, NEW live, NEW scheduled, NEW queue, NEW held,
           Values(coroutines, holders, scheduled, queue, held),
           Placed(coroutines, live, scheduled, queue, held),
           NEW c \in coroutines, NEW g, NEW h, <<g, c>> \in held
    PROVE  Placed(coroutines, live, scheduled, queue, (held \ {<<g, c>>}) \cup {<<h, c>>})
<1> DEFINE heldM == held \ {<<g, c>>}
           heldN == heldM \cup {<<h, c>>}
<1>1. Held(held, c)
  BY DEF Held
<1>2. scheduled[c] = 0 /\ ~Queued(queue, c) /\ c \in live
  BY <1>1 DEF Placed
<1>3. /\ \A e, f \in heldM : e[2] = f[2] => e[1] = f[1]
      /\ \A d : Held(heldM, d) <=> Held(held, d) /\ d # c
  BY HeldDrops DEF Placed, Values
<1> HIDE DEF heldM
<1>4. /\ \A e, f \in heldN : e[2] = f[2] => e[1] = f[1]
      /\ \A d : Held(heldN, d) <=> Held(heldM, d) \/ d = c
  BY <1>3, HeldAdds
<1>5. \A i, j \in 1 .. Len(queue) : queue[i] = queue[j] => i = j
  BY DEF Placed
<1>6. /\ \A d \in coroutines \ {c} : Held(heldN, d) <=> Held(held, d)
      /\ Held(heldN, c)
  BY <1>3, <1>4
<1> HIDE DEF heldN
<1>7. Placed(coroutines, live, scheduled, queue, heldN)
  BY <1>2, <1>4, <1>5, <1>6, MovesOne
<1> QED BY <1>7 DEF heldN, heldM

\* A coroutine ends in the hand of the agent that runs it.
LEMMA EndInHand ==
    ASSUME NEW coroutines, NEW holders, NEW live, NEW scheduled, NEW queue, NEW held,
           Values(coroutines, holders, scheduled, queue, held),
           Placed(coroutines, live, scheduled, queue, held),
           NEW c \in coroutines, NEW h, <<h, c>> \in held
    PROVE  Placed(coroutines, live \ {c}, scheduled, queue, held \ {<<h, c>>})
<1> DEFINE heldN == held \ {<<h, c>>}
           liveN == live \ {c}
<1>1. Held(held, c)
  BY DEF Held
<1>2. scheduled[c] = 0 /\ ~Queued(queue, c)
  BY <1>1 DEF Placed
<1>3. /\ \A f, g \in heldN : f[2] = g[2] => f[1] = g[1]
      /\ \A d : Held(heldN, d) <=> Held(held, d) /\ d # c
  BY HeldDrops DEF Placed, Values
<1>4. \A i, j \in 1 .. Len(queue) : queue[i] = queue[j] => i = j
  BY DEF Placed
<1>5. \A d : d \in liveN <=> d \in live /\ d # c
  OBVIOUS
<1> HIDE DEF heldN, liveN
<1>6. Placed(coroutines, liveN, scheduled, queue, heldN)
  BY <1>2, <1>3, <1>4, <1>5, MovesOne
<1> QED BY <1>6 DEF heldN, liveN

\* A new one begins in the hand of the agent that creates it.
LEMMA BeginInHand ==
    ASSUME NEW coroutines, NEW holders, NEW live, NEW scheduled, NEW queue, NEW held,
           Values(coroutines, holders, scheduled, queue, held),
           Placed(coroutines, live, scheduled, queue, held),
           NEW c \in coroutines, NEW h, c \notin live
    PROVE  Placed(coroutines, live \cup {c}, scheduled, queue, held \cup {<<h, c>>})
<1> DEFINE heldN == held \cup {<<h, c>>}
           liveN == live \cup {c}
<1>1. scheduled[c] = 0 /\ ~Queued(queue, c) /\ ~Held(held, c)
  BY DEF Placed
<1>2. /\ \A f, g \in heldN : f[2] = g[2] => f[1] = g[1]
      /\ \A d : Held(heldN, d) <=> Held(held, d) \/ d = c
  BY <1>1, HeldAdds DEF Placed
<1>3. \A i, j \in 1 .. Len(queue) : queue[i] = queue[j] => i = j
  BY DEF Placed
<1>4. \A d : d \in liveN <=> d \in live \/ d = c
  OBVIOUS
<1> HIDE DEF heldN, liveN
<1>5. Placed(coroutines, liveN, scheduled, queue, heldN)
  BY <1>1, <1>2, <1>3, <1>4, MovesOne
<1> QED BY <1>5 DEF heldN, liveN
=============================================================================
