-------------------------- MODULE Shipyard_proofs --------------------------
(***************************************************************************)
(* Proofs about the build dock: types; that no more countdowns run than    *)
(* there are slots; that the plan is tight and in order; that it makes no  *)
(* difference who looks at it, and when; that a build takes its time and   *)
(* becomes one ship; and what drills are spent on.                         *)
(*                                                                         *)
(* The heart is the loop that plans the builds that wait.  It is a         *)
(* recursive function; that its equation has a solution, and what it does  *)
(* after n builds, is proved by looking at the least n for which it fails. *)
(* What is kept is a balance (InStep): however far the loop has come, as   *)
(* many slots are free later than a moment as builds take one at it.  So   *)
(* the plan cannot overbook, and a build starts only when a slot is free.  *)
(***************************************************************************)
EXTENDS Shipyard, FiniteSetTheorems, WellFoundedInduction, TLAPS

(* A set of numbers has a least one.                                       *)
LEMMA Least ==
  ASSUME NEW S \in SUBSET Nat, S # {}
  PROVE  Min(S) \in S /\ \A n \in S : Min(S) <= n
<1>1. PICK m \in S : \A j \in S : ~(<<j, m>> \in OpToRel(<, Nat))
  BY WFMin, NatLessThanWellFounded
<1>2. ASSUME NEW j \in S PROVE m <= j
  <2>1. m \in Nat /\ j \in Nat
    OBVIOUS
  <2>2. j < m => <<j, m>> \in OpToRel(<, Nat)
    BY <2>1, Zenon DEF OpToRel
  <2>3. ~(j < m)
    BY <1>1, <2>2, Zenon
  <2> QED BY <2>1, <2>3
<1> QED BY <1>2 DEF Min

(* What is assumed of the constants, one by one.                           *)
LEMMA ConstantsAre ==
  /\ Longest \in Nat \ {0} /\ Duration \in [Ship -> 1..Longest]
  /\ Slots \in Nat \ {0} /\ Capacity \in Nat
  /\ MaxBuilds \in Nat /\ MaxDraw \in Nat /\ MaxTime \in Nat \ {0}
  /\ MaxGold \in Nat /\ MaxDrills \in Nat
  /\ MaxExtras \in Nat /\ MaxEffort \in Nat
BY ShipyardAssumption

(* Sets of ids are finite sets of numbers.                                 *)
LEMMA IdsAre ==
  ASSUME NEW S, S \subseteq Id
  PROVE  /\ IsFiniteSet(S) /\ Cardinality(S) \in Nat
         /\ S \subseteq Nat /\ 0 \notin S
<1>1. IsFiniteSet(1..MaxBuilds)
  BY ConstantsAre, FS_Interval
<1>2. S \in SUBSET (1..MaxBuilds)
  BY DEF Id
<1>3. IsFiniteSet(S)
  BY <1>1, <1>2, FS_Subset
<1>4. Cardinality(S) \in Nat
  BY <1>3, FS_CardinalityType
<1> QED BY <1>2, <1>3, <1>4, ConstantsAre

(* What a row is like; a build takes between one hour and the longest.     *)
LEMMA RowIs ==
  ASSUME NEW rows, Rows(rows), NEW i \in DOMAIN rows
  PROVE  /\ rows[i] \in Row /\ rows[i].fin \in Nat
         /\ rows[i].started \in BOOLEAN /\ rows[i].ship \in Ship
         /\ Dur(rows[i]) \in Nat \ {0} /\ Dur(rows[i]) <= Longest
         /\ i \in Nat \ {0} /\ i <= MaxBuilds
<1>1. rows[i] \in Row
  BY DEF Rows
<1>2. i \in 1..MaxBuilds
  BY DEF Rows, Id
<1>3. /\ rows[i].fin \in Nat /\ rows[i].started \in BOOLEAN
      /\ rows[i].ship \in Ship
  BY <1>1 DEF Row
<1>4. Dur(rows[i]) \in 1..Longest
  BY <1>3, ConstantsAre DEF Dur
<1> QED BY <1>1, <1>2, <1>3, <1>4, ConstantsAre

(* The rows, those that tick and those that count are ids.                 *)
LEMMA SomeIds ==
  ASSUME NEW rows, Rows(rows)
  PROVE  /\ DOMAIN rows \subseteq Id
         /\ \A t : /\ Ticking(rows, t) \subseteq DOMAIN rows
                   /\ Ticking(rows, t) \subseteq Id
                   /\ CountingOf(rows, t) \subseteq DOMAIN rows
                   /\ CountingOf(rows, t) \subseteq Id
BY DEF Rows, Ticking, CountingOf

-----------------------------------------------------------------------------
-----------------------------------------------------------------------------

(* Among builds that tick there is one that all others are ahead of (of    *)
(* those that finish last, the one with the greatest id).                  *)
LEMMA SomeoneIsLast ==
  ASSUME NEW rows, Rows(rows), NEW t \in Nat,
         NEW K, K \subseteq Ticking(rows, t), K # {}
  PROVE  \E m \in K : K \ {m} \subseteq Ahead(rows, t, m)
<1> DEFINE before(m) == {j \in K : j \in Ahead(rows, t, m)}
           behind(m) == Cardinality(K) - Cardinality(before(m))
           S == {behind(m) : m \in K}
<1>1. K \subseteq DOMAIN rows /\ K \subseteq Id
  BY SomeIds
<1>2. IsFiniteSet(K) /\ Cardinality(K) \in Nat
  BY <1>1, IdsAre
<1>3. ASSUME NEW m \in K
      PROVE  /\ IsFiniteSet(before(m)) /\ Cardinality(before(m)) \in Nat
             /\ Cardinality(before(m)) <= Cardinality(K)
  <2>1. before(m) \in SUBSET K
    OBVIOUS
  <2> HIDE DEF before
  <2>2. IsFiniteSet(before(m)) /\ Cardinality(before(m)) <= Cardinality(K)
    BY <1>2, <2>1, FS_Subset
  <2> QED BY <2>2, FS_CardinalityType
<1>4. PICK m \in K : \A k \in K : behind(m) <= behind(k)
  <2>1. S \in SUBSET Nat /\ S # {}
    <3> HIDE DEF before
    <3> QED BY <1>2, <1>3
  <2>2. Min(S) \in S /\ \A n \in S : Min(S) <= n
    <3> HIDE DEF S
    <3> QED BY <2>1, Least
  <2>3. PICK m \in K : Min(S) = behind(m)
    BY <2>2
  <2> QED BY <2>2, <2>3
<1>5. ASSUME NEW k \in K, k # m, k \notin Ahead(rows, t, m) PROVE FALSE
  <2>1. /\ rows[k].fin \in Nat /\ rows[m].fin \in Nat /\ k \in Nat /\ m \in Nat
    BY <1>1, RowIs
  <2>2. m \in before(k)
    BY <1>5, <2>1 DEF Ahead
  <2>3. m \notin before(m)
    BY <2>1 DEF Ahead
  <2>4. before(m) \cup {m} \subseteq before(k)
    <3>1. ASSUME NEW j \in before(m) PROVE j \in before(k)
      <4>1. rows[j].fin \in Nat /\ j \in Nat
        BY <1>1, RowIs
      <4> QED BY <1>5, <2>1, <2>2, <4>1 DEF Ahead
    <3> QED BY <2>2, <3>1
  <2> HIDE DEF before
  <2>5. Cardinality(before(m) \cup {m}) = Cardinality(before(m)) + 1
    BY <1>3, <2>3, FS_AddElement
  <2>6. Cardinality(before(m) \cup {m}) <= Cardinality(before(k))
    <3>1. before(m) \cup {m} \in SUBSET before(k)
      BY <2>4
    <3> QED BY <1>3, <3>1, FS_Subset
  <2>7. behind(m) <= behind(k)
    BY <1>4
  <2> QED BY <1>2, <1>3, <2>5, <2>6, <2>7
<1> QED BY <1>5

(* Step 1 of settle_build_queue leaves no more builds ticking than there   *)
(* are slots, and changes nothing if there are no more; what it changes    *)
(* goes back to the queue without a finish.                                *)
LEMMA RequeueIs ==
  ASSUME NEW rows, Rows(rows), NEW t \in Nat
  PROVE  LET again == Requeue(rows, t) IN
         /\ Rows(again) /\ DOMAIN again = DOMAIN rows
         /\ \A i \in DOMAIN rows :
              /\ again[i].ship = rows[i].ship
              /\ \/ again[i] = rows[i]
                 \/ /\ Ticks(rows[i], t) /\ ~again[i].started
                    /\ again[i].fin = Unplanned
         /\ Cardinality(Ticking(again, t)) <= Slots
         /\ Cardinality(Ticking(rows, t)) <= Slots => again = rows
<1> DEFINE again == Requeue(rows, t)
<1>1. DOMAIN again = DOMAIN rows
  BY DEF Requeue
<1>2. ASSUME NEW i \in DOMAIN rows
      PROVE  /\ again[i] \in Row /\ again[i].ship = rows[i].ship
             /\ ~(Ticks(rows[i], t) /\ Cardinality(Ahead(rows, t, i)) >= Slots)
                  => again[i] = rows[i]
             /\ Ticks(rows[i], t) /\ Cardinality(Ahead(rows, t, i)) >= Slots
                  => /\ again[i].fin = Unplanned /\ ~again[i].started
                     /\ again[i].started = FALSE
  <2>1. rows[i] \in Row
    BY RowIs
  <2>2. again[i] = IF Ticks(rows[i], t) /\ Cardinality(Ahead(rows, t, i)) >= Slots
                   THEN Queued(rows[i].ship)
                   ELSE rows[i]
    BY DEF Requeue
  <2> HIDE DEF again
  <2>3. CASE Ticks(rows[i], t) /\ Cardinality(Ahead(rows, t, i)) >= Slots
    <3>1. again[i] = [ship |-> rows[i].ship, fin |-> 0, started |-> FALSE]
      BY <2>2, <2>3, Zenon DEF Unplanned, Queued
    <3>2. /\ again[i] \in Row /\ again[i].ship = rows[i].ship
          /\ again[i].fin = 0 /\ again[i].started = FALSE
      BY <2>1, <3>1 DEF Row
    <3> QED BY <2>3, <3>2, Zenon DEF Unplanned
  <2>4. CASE ~(Ticks(rows[i], t) /\ Cardinality(Ahead(rows, t, i)) >= Slots)
    BY <2>1, <2>2, <2>4
  <2> QED BY <2>3, <2>4
<1>3. again = [i \in DOMAIN again |-> again[i]]
  BY DEF Requeue
<1> HIDE DEF again
<1>4. Rows(again)
  BY <1>1, <1>2, <1>3 DEF Rows
<1>5. Cardinality(Ticking(again, t)) <= Slots
  <2> DEFINE K == Ticking(again, t)
  <2> SUFFICES ASSUME ~(Cardinality(K) <= Slots) PROVE FALSE
    OBVIOUS
  <2>1. /\ K \subseteq Ticking(rows, t)
        /\ \A i \in K : ~(Cardinality(Ahead(rows, t, i)) >= Slots)
    <3>1. ASSUME NEW i \in K
          PROVE  i \in Ticking(rows, t) /\ ~(Cardinality(Ahead(rows, t, i)) >= Slots)
      <4>1. i \in DOMAIN rows /\ again[i].started /\ again[i].fin > t
        BY <1>1 DEF Ticking, Ticks
      <4>2. CASE Ticks(rows[i], t) /\ Cardinality(Ahead(rows, t, i)) >= Slots
        BY <1>2, <4>1, <4>2
      <4>3. CASE ~(Ticks(rows[i], t) /\ Cardinality(Ahead(rows, t, i)) >= Slots)
        <5>1. again[i] = rows[i]
          BY <1>2, <4>1, <4>3
        <5>2. Ticks(rows[i], t)
          BY <4>1, <5>1 DEF Ticks
        <5> QED BY <4>1, <4>3, <5>2 DEF Ticking
      <4> QED BY <4>2, <4>3
    <3> QED BY <3>1
  <2>2. IsFiniteSet(K) /\ Cardinality(K) \in Nat
    BY <1>4, SomeIds, IdsAre
  <2>3. K # {}
    BY FS_EmptySet, ConstantsAre
  <2> HIDE DEF K
  <2>4. PICK m \in K : K \ {m} \subseteq Ahead(rows, t, m)
    BY <2>1, <2>3, SomeoneIsLast
  <2>5. Cardinality(K \ {m}) = Cardinality(K) - 1
    BY <2>2, FS_RemoveElement
  <2>6. /\ IsFiniteSet(Ahead(rows, t, m)) /\ Cardinality(Ahead(rows, t, m)) \in Nat
    <3>1. Ahead(rows, t, m) \subseteq Id
      BY SomeIds DEF Ahead
    <3> QED BY <3>1, IdsAre
  <2>7. Cardinality(K \ {m}) <= Cardinality(Ahead(rows, t, m))
    BY <2>4, <2>6, FS_Subset
  <2>8. Cardinality(Ahead(rows, t, m)) < Slots
    BY <2>1, <2>6, ConstantsAre
  <2> QED BY <2>2, <2>5, <2>6, <2>7, <2>8, ConstantsAre
<1>6. ASSUME Cardinality(Ticking(rows, t)) <= Slots PROVE again = rows
  <2>1. ASSUME NEW i \in DOMAIN rows PROVE again[i] = rows[i]
    <3>1. CASE Ticks(rows[i], t)
      <4>1. IsFiniteSet(Ticking(rows, t)) /\ Cardinality(Ticking(rows, t)) \in Nat
        BY SomeIds, IdsAre
      <4>2. Ahead(rows, t, i) \subseteq Ticking(rows, t) \ {i}
        <5>1. i \notin Ahead(rows, t, i)
          <6>1. rows[i].fin \in Nat /\ i \in Nat
            BY RowIs
          <6> QED BY <6>1 DEF Ahead
        <5> QED BY <5>1 DEF Ahead
      <4>3. i \in Ticking(rows, t)
        BY <3>1 DEF Ticking
      <4>4. /\ IsFiniteSet(Ticking(rows, t) \ {i})
            /\ Cardinality(Ticking(rows, t) \ {i}) = Cardinality(Ticking(rows, t)) - 1
        BY <4>1, <4>3, FS_RemoveElement
      <4>5. /\ IsFiniteSet(Ahead(rows, t, i))
            /\ Cardinality(Ahead(rows, t, i)) <= Cardinality(Ticking(rows, t) \ {i})
        BY <4>2, <4>4, FS_Subset
      <4>6. Cardinality(Ahead(rows, t, i)) \in Nat
        BY <4>5, FS_CardinalityType
      <4>7. ~(Cardinality(Ahead(rows, t, i)) >= Slots)
        BY <1>6, <4>1, <4>4, <4>5, <4>6, ConstantsAre
      <4> QED BY <1>2, <4>7
    <3>2. CASE ~Ticks(rows[i], t)
      BY <1>2, <3>2
    <3> QED BY <3>1, <3>2
  <2>2. rows = [i \in DOMAIN rows |-> rows[i]]
    BY DEF Rows
  <2> QED BY <1>1, <1>3, <2>1, <2>2
<1>7. \A i \in DOMAIN rows :
              /\ again[i].ship = rows[i].ship
              /\ \/ again[i] = rows[i]
                 \/ /\ Ticks(rows[i], t) /\ ~again[i].started
                    /\ again[i].fin = Unplanned
  BY <1>2
<1> QED BY <1>1, <1>4, <1>5, <1>6, <1>7 DEF again

-----------------------------------------------------------------------------

(* The planned start of a build has come.                                  *)
Comes(b, t) == b.fin # Unplanned /\ b.fin <= t + Dur(b)

(* Step 2 starts the builds whose planned start has come, and leaves the   *)
(* finish of every build as it is.                                         *)
LEMMA PromoteIs ==
  ASSUME NEW rows, Rows(rows), NEW t \in Nat
  PROVE  LET on == Promote(rows, t) IN
         /\ Rows(on) /\ DOMAIN on = DOMAIN rows
         /\ \A i \in DOMAIN rows :
              /\ on[i].ship = rows[i].ship /\ on[i].fin = rows[i].fin
              /\ on[i].started <=> rows[i].started \/ Comes(rows[i], t)
              /\ rows[i].started \/ ~Comes(rows[i], t) => on[i] = rows[i]
<1> DEFINE on == Promote(rows, t)
<1>1. DOMAIN on = DOMAIN rows
  BY DEF Promote
<1>2. ASSUME NEW i \in DOMAIN rows
      PROVE  /\ on[i] \in Row /\ on[i].ship = rows[i].ship /\ on[i].fin = rows[i].fin
             /\ on[i].started <=> rows[i].started \/ Comes(rows[i], t)
             /\ rows[i].started \/ ~Comes(rows[i], t) => on[i] = rows[i]
  <2> DEFINE b == rows[i].started \/ Comes(rows[i], t)
  <2>1. rows[i] \in Row /\ b \in BOOLEAN
    BY RowIs
  <2>2. on[i] = [rows[i] EXCEPT !.started = b]
    BY Zenon DEF Promote, Comes
  <2> HIDE DEF b, on
  <2>3. /\ on[i] \in Row /\ on[i].ship = rows[i].ship /\ on[i].fin = rows[i].fin
        /\ on[i].started = b
    BY <2>1, <2>2 DEF Row
  <2>4. on[i].started <=> b
    BY <2>1, <2>3, Zenon
  <2>5. on[i].started <=> rows[i].started \/ Comes(rows[i], t)
    BY <2>4, Zenon DEF b
  <2>6. ASSUME rows[i].started \/ ~Comes(rows[i], t) PROVE on[i] = rows[i]
    <3>1. b = rows[i].started
      <4>1. rows[i].started \in BOOLEAN
        BY RowIs
      <4> QED BY <2>6, <4>1, Zenon DEF b
    <3> QED BY <2>1, <2>2, <3>1 DEF Row
  <2> QED BY <2>3, <2>5, <2>6
<1>3. on = [i \in DOMAIN on |-> on[i]]
  BY DEF Promote
<1> HIDE DEF on
<1>4. Rows(on)
  BY <1>1, <1>2, <1>3 DEF Rows
<1>5. \A i \in DOMAIN rows :
              /\ on[i].ship = rows[i].ship /\ on[i].fin = rows[i].fin
              /\ on[i].started <=> rows[i].started \/ Comes(rows[i], t)
              /\ rows[i].started \/ ~Comes(rows[i], t) => on[i] = rows[i]
  BY <1>2
<1> QED BY <1>1, <1>4, <1>5 DEF on

(* The equation of SlotsAfter at n, for slots g.                           *)
NextSlots(rows, t, g, n) ==
  IF n = 0 THEN FreeTimes(rows, t)
  ELSE IF ~Waits(rows, n) THEN g[n - 1]
  ELSE TakenBy(g[n - 1], SlotFor(g[n - 1]), n, Earliest(g[n - 1]) + Dur(rows[n]))

(* g satisfies it up to m.                                                 *)
SlotsTo(rows, t, g, m) ==
  /\ g = [n \in 0..MaxBuilds |-> g[n]]
  /\ \A n \in 0..MaxBuilds : n <= m => g[n] = NextSlots(rows, t, g, n)

(* The loop of step 3 ends: its equation has a solution up to every        *)
(* build.                                                                  *)
LEMMA SlotsExist ==
  ASSUME NEW rows, NEW t, NEW m \in Nat
  PROVE  \E g : SlotsTo(rows, t, g, m)
<1> DEFINE Bad == {n \in Nat : ~\E g : SlotsTo(rows, t, g, n)}
<1> SUFFICES ASSUME Bad # {} PROVE FALSE
  OBVIOUS
<1>1. PICK n \in Nat : ~(\E g : SlotsTo(rows, t, g, n)) /\ \A j \in Bad : n <= j
  <2>1. Bad \in SUBSET Nat
    OBVIOUS
  <2>2. Min(Bad) \in Bad /\ \A j \in Bad : Min(Bad) <= j
    <3> HIDE DEF Bad
    <3> QED BY <2>1, Least
  <2> QED BY <2>2
<1>2. PICK g : \A k \in 0..MaxBuilds : k < n => g[k] = NextSlots(rows, t, g, k)
  <2>1. CASE n = 0
    <3>1. \A k \in 0..MaxBuilds : ~(k < n)
      BY <2>1
    <3> QED BY <3>1
  <2>2. CASE n # 0
    <3>1. n - 1 \in Nat /\ ~(n <= n - 1)
      BY <2>2
    <3>2. PICK g : SlotsTo(rows, t, g, n - 1)
      BY <1>1, <3>1
    <3>3. \A k \in 0..MaxBuilds : k < n => k <= n - 1
      OBVIOUS
    <3> QED BY <3>2, <3>3 DEF SlotsTo
  <2> QED BY <2>1, <2>2
<1> DEFINE h == [k \in 0..MaxBuilds |-> IF k < n THEN g[k] ELSE NextSlots(rows, t, g, k)]
<1>3. \A k \in 0..MaxBuilds : k < n => h[k] = g[k]
  OBVIOUS
<1>4. ASSUME NEW k \in 0..MaxBuilds, k <= n PROVE h[k] = NextSlots(rows, t, h, k)
  <2>1. h[k] = NextSlots(rows, t, g, k)
    BY <1>2
  <2>2. k = 0 \/ k - 1 \in 0..MaxBuilds
    BY ConstantsAre
  <2>3. k # 0 => h[k - 1] = g[k - 1]
    BY <1>3, <1>4, <2>2
  <2>4. NextSlots(rows, t, g, k) = NextSlots(rows, t, h, k)
    <3> HIDE DEF h
    <3>1. CASE k = 0
      BY <3>1, Zenon DEF NextSlots
    <3>2. CASE k # 0
      BY <2>3, <3>2, Zenon DEF NextSlots
    <3> QED BY <3>1, <3>2
  <2> QED BY <2>1, <2>4
<1>5. h = [k \in 0..MaxBuilds |-> h[k]]
  OBVIOUS
<1>6. SlotsTo(rows, t, h, n)
  <2> HIDE DEF h
  <2> QED BY <1>4, <1>5 DEF SlotsTo
<1> QED BY <1>1, <1>6

(* So SlotsAfter is what the loop has after each build.                    *)
LEMMA SlotsAre ==
  ASSUME NEW rows, NEW t
  PROVE  LET after == SlotsAfter(rows, t) IN
         /\ after[0] = FreeTimes(rows, t)
         /\ \A n \in 1..MaxBuilds :
              /\ ~Waits(rows, n) => after[n] = after[n - 1]
              /\ Waits(rows, n) =>
                   after[n] = TakenBy(after[n - 1], SlotFor(after[n - 1]), n,
                                      Earliest(after[n - 1]) + Dur(rows[n]))
<1> DEFINE after == SlotsAfter(rows, t)
<1>1. PICK g : SlotsTo(rows, t, g, MaxBuilds)
  BY SlotsExist, ConstantsAre
<1>2. \A k \in 0..MaxBuilds : g[k] = NextSlots(rows, t, g, k)
  BY <1>1, ConstantsAre DEF SlotsTo
<1>3. g = [k \in 0..MaxBuilds |-> NextSlots(rows, t, g, k)]
  <2>1. [k \in 0..MaxBuilds |-> g[k]] = [k \in 0..MaxBuilds |-> NextSlots(rows, t, g, k)]
    BY <1>2
  <2> QED BY <1>1, <2>1 DEF SlotsTo
<1>4. after = [k \in 0..MaxBuilds |-> NextSlots(rows, t, after, k)]
  BY <1>3, Zenon DEF SlotsAfter, NextSlots
<1> HIDE DEF after
<1>5. \A k \in 0..MaxBuilds : after[k] = NextSlots(rows, t, after, k)
  BY <1>4
<1>6. after[0] = FreeTimes(rows, t)
  <2>1. 0 \in 0..MaxBuilds
    BY ConstantsAre
  <2> QED BY <1>5, <2>1 DEF NextSlots
<1>7. ASSUME NEW n \in 1..MaxBuilds
      PROVE  /\ ~Waits(rows, n) => after[n] = after[n - 1]
             /\ Waits(rows, n) =>
                   after[n] = TakenBy(after[n - 1], SlotFor(after[n - 1]), n,
                                      Earliest(after[n - 1]) + Dur(rows[n]))
  <2>1. n \in 0..MaxBuilds /\ n # 0
    OBVIOUS
  <2>2. after[n] = NextSlots(rows, t, after, n)
    BY <1>5, <2>1
  <2> QED BY <2>1, <2>2, Zenon DEF NextSlots
<1> QED BY <1>6, <1>7 DEF after

-----------------------------------------------------------------------------
-----------------------------------------------------------------------------

(* Slots, each with the time at which it is free.                          *)
Slotting(f) ==
  /\ IsFiniteSet(DOMAIN f) /\ DOMAIN f # {}
  /\ \A h \in DOMAIN f : f[h] \in Nat
(* The slots that are free later than m.                                   *)
Later(f, m) == {h \in DOMAIN f : f[h] > m}

(* There is a slot that is free first.                                     *)
LEMMA FirstSlot ==
  ASSUME NEW f, Slotting(f)
  PROVE  /\ SlotFor(f) \in DOMAIN f /\ Earliest(f) \in Nat
         /\ \A h \in DOMAIN f : Earliest(f) <= f[h]
<1> DEFINE S == {f[h] : h \in DOMAIN f}
<1>1. S \in SUBSET Nat /\ S # {}
  BY DEF Slotting
<1>2. Min(S) \in S /\ \A n \in S : Min(S) <= n
  <2> HIDE DEF S
  <2> QED BY <1>1, Least
<1>3. PICK h \in DOMAIN f : f[h] = Min(S)
  BY <1>2
<1>4. \A g \in DOMAIN f : f[h] <= f[g]
  BY <1>2, <1>3
<1>5. SlotFor(f) \in DOMAIN f /\ \A g \in DOMAIN f : f[SlotFor(f)] <= f[g]
  BY <1>4 DEF SlotFor
<1> QED BY <1>5 DEF Earliest, Slotting

(* What taking the slot that is free first does to the slots: their        *)
(* number stays, and as to those free later than a moment, the build       *)
(* counts from its start to its finish, and the slot that it took counted  *)
(* before that.                                                            *)
LEMMA TakenIs ==
  ASSUME NEW f, Slotting(f), NEW n, n \notin DOMAIN f, NEW d \in Nat \ {0}
  PROVE  LET m == Earliest(f)
             taken == TakenBy(f, SlotFor(f), n, m + d) IN
         /\ Slotting(taken) /\ n \in DOMAIN taken
         /\ DOMAIN taken \subseteq DOMAIN f \cup {n}
         /\ Cardinality(DOMAIN taken) = Cardinality(DOMAIN f)
         /\ taken[n] = m + d
         /\ \A h \in DOMAIN taken : h # n => h \in DOMAIN f /\ taken[h] = f[h]
         /\ \A k \in Nat :
              /\ k < m => Later(taken, k) = DOMAIN taken /\ Later(f, k) = DOMAIN f
              /\ m <= k /\ k < m + d =>
                   Later(taken, k) = Later(f, k) \cup {n} /\ n \notin Later(f, k)
              /\ m + d <= k => Later(taken, k) = Later(f, k)
<1> DEFINE m == Earliest(f)
           s == SlotFor(f)
           D == (DOMAIN f \ {s}) \cup {n}
           taken == TakenBy(f, s, n, m + d)
<1>1. s \in DOMAIN f /\ m \in Nat /\ f[s] = m /\ \A h \in DOMAIN f : m <= f[h]
  BY FirstSlot DEF Earliest
<1> HIDE DEF m, s
<1>2. taken = [g \in D |-> IF g = n THEN m + d ELSE f[g]]
  BY DEF TakenBy
<1>3. DOMAIN taken = D
  BY <1>2
<1>4. n \in D /\ D \subseteq DOMAIN f \cup {n} /\ n # s
  BY <1>1
<1>5. taken[n] = m + d /\ \A h \in D : h # n => h \in DOMAIN f /\ taken[h] = f[h]
  BY <1>2, <1>4
<1>6. IsFiniteSet(D) /\ Cardinality(D) = Cardinality(DOMAIN f)
  <2>1. IsFiniteSet(DOMAIN f) /\ Cardinality(DOMAIN f) \in Nat
    BY FS_CardinalityType DEF Slotting
  <2>2. /\ IsFiniteSet(DOMAIN f \ {s})
        /\ Cardinality(DOMAIN f \ {s}) = Cardinality(DOMAIN f) - 1
    BY <1>1, <2>1, FS_RemoveElement
  <2>3. n \notin DOMAIN f \ {s}
    OBVIOUS
  <2>4. /\ IsFiniteSet(D) /\ Cardinality(D) = Cardinality(DOMAIN f \ {s}) + 1
    BY <2>2, <2>3, FS_AddElement
  <2> QED BY <2>1, <2>2, <2>4
<1> HIDE DEF taken
<1>7. \A h \in D : taken[h] \in Nat
  BY <1>1, <1>5 DEF Slotting
<1>8. Slotting(taken)
  BY <1>3, <1>4, <1>6, <1>7 DEF Slotting
<1>9. ASSUME NEW k \in Nat
      PROVE  /\ k < m => Later(taken, k) = DOMAIN taken /\ Later(f, k) = DOMAIN f
             /\ m <= k /\ k < m + d =>
                   Later(taken, k) = Later(f, k) \cup {n} /\ n \notin Later(f, k)
             /\ m + d <= k => Later(taken, k) = Later(f, k)
  <2>1. \A h \in DOMAIN f : f[h] \in Nat
    BY DEF Slotting
  <2>2. \A h : h \in Later(f, k) <=> h \in DOMAIN f /\ f[h] > k
    BY DEF Later
  <2>3. \A h : h \in Later(taken, k) <=> h \in D /\ taken[h] > k
    BY <1>3 DEF Later
  <2>4. CASE k < m
    <3>1. \A h \in DOMAIN f : f[h] > k
      BY <1>1, <2>1, <2>4
    <3>2. \A h \in D : taken[h] > k
      BY <1>1, <1>5, <2>4, <3>1
    <3> QED BY <1>1, <1>3, <2>2, <2>3, <2>4, <3>1, <3>2
  <2>5. CASE m <= k /\ k < m + d
    <3>1. s \notin Later(f, k) /\ n \notin Later(f, k)
      BY <1>1, <2>2, <2>5
    <3>2. ASSUME NEW h PROVE h \in Later(taken, k) <=> h \in Later(f, k) \cup {n}
      <4>1. CASE h = n
        BY <1>4, <1>5, <2>3, <2>5, <4>1
      <4>2. CASE h # n
        BY <1>5, <2>2, <2>3, <3>1, <4>2
      <4> QED BY <4>1, <4>2
    <3> QED BY <1>1, <2>5, <3>1, <3>2
  <2>6. CASE m + d <= k
    <3>1. s \notin Later(f, k) /\ n \notin Later(f, k)
      BY <1>1, <2>2, <2>6
    <3>2. ASSUME NEW h PROVE h \in Later(taken, k) <=> h \in Later(f, k)
      <4>1. CASE h = n
        BY <1>1, <1>5, <2>3, <2>6, <3>1, <4>1
      <4>2. CASE h # n
        BY <1>5, <2>2, <2>3, <3>1, <4>2
      <4> QED BY <4>1, <4>2
    <3> QED BY <1>1, <2>6, <3>2
  <2> QED BY <1>1, <2>4, <2>5, <2>6
<1> QED BY <1>3, <1>4, <1>5, <1>6, <1>8, <1>9 DEF taken, m, s

(* What the loop begins with: a slot for each build that ticks, free when  *)
(* it finishes, and the others free now.                                   *)
LEMMA FreeTimesAre ==
  ASSUME NEW rows, Rows(rows), NEW t \in Nat
  PROVE  LET f == FreeTimes(rows, t) IN
         /\ Slotting(f)
         /\ \A h \in DOMAIN f : /\ h \in Int /\ f[h] >= t
                                /\ h <= 0 \/ h \in Ticking(rows, t)
         /\ Cardinality(Ticking(rows, t)) <= Slots =>
              Cardinality(DOMAIN f) = Slots
         /\ \A k \in Nat : k >= t =>
              Later(f, k) = {i \in Ticking(rows, t) : rows[i].fin > k}
<1> DEFINE f == FreeTimes(rows, t)
           T == Ticking(rows, t)
           s == Slots - Cardinality(T)
           spare == {-k : k \in 1..s}
<1>1. IsFiniteSet(T) /\ Cardinality(T) \in Nat /\ T \subseteq DOMAIN rows /\ T \subseteq Nat \ {0}
  BY SomeIds, IdsAre
<1>2. \A i \in T : rows[i].fin \in Nat /\ rows[i].fin > t
  <2>1. \A i \in T : rows[i].fin \in Nat
    BY <1>1, RowIs
  <2> QED BY <2>1 DEF Ticking, Ticks
<1>3. f = [h \in T \cup spare |-> IF h \in DOMAIN rows THEN rows[h].fin ELSE t]
  BY DEF FreeTimes
<1> HIDE DEF T, f
<1>4. s \in Int
  BY <1>1, ConstantsAre
<1>5. spare = (-s)..(-1)
  <2> HIDE DEF s
  <2>1. ASSUME NEW x \in spare PROVE x \in (-s)..(-1)
    BY <1>4
  <2>2. ASSUME NEW x \in (-s)..(-1) PROVE x \in spare
    <3>1. x \in Int /\ -x \in 1..s /\ x = -(-x)
      BY <1>4
    <3> QED BY <3>1
  <2> QED BY <2>1, <2>2
<1>6. IsFiniteSet(spare) /\ (s >= 0 => Cardinality(spare) = s)
  <2>1. -s \in Int /\ -1 \in Int
    BY <1>4
  <2>2. /\ IsFiniteSet((-s)..(-1))
        /\ Cardinality((-s)..(-1)) = IF -s > -1 THEN 0 ELSE -1 - (-s) + 1
    BY <2>1, FS_Interval
  <2>3. s >= 0 => (IF -s > -1 THEN 0 ELSE -1 - (-s) + 1) = s
    <3> HIDE DEF s
    <3> QED BY <1>4
  <2> QED BY <1>5, <2>2, <2>3
<1> HIDE DEF s
<1>7. \A x \in spare : x \in Int /\ x < 0
  BY <1>4
<1>8. T \cap spare = {} /\ DOMAIN rows \cap spare = {}
  <2>1. \A i \in DOMAIN rows : i \in Nat
    BY RowIs
  <2> QED BY <1>1, <1>7, <2>1
<1> HIDE DEF spare
<1>9. IsFiniteSet(T \cup spare) /\ Cardinality(T \cup spare) = Cardinality(T) + Cardinality(spare)
  <2>1. /\ IsFiniteSet(T \cup spare)
        /\ Cardinality(T \cup spare) =
             Cardinality(T) + Cardinality(spare) - Cardinality(T \cap spare)
    BY <1>1, <1>6, FS_Union
  <2>2. Cardinality(T \cap spare) = 0
    BY <1>8, FS_EmptySet
  <2>3. Cardinality(spare) \in Nat
    BY <1>6, FS_CardinalityType
  <2> QED BY <1>1, <2>1, <2>2, <2>3
<1>10. T \cup spare # {}
  <2>1. CASE T = {}
    <3>1. s = Slots
      BY <2>1, FS_EmptySet, ConstantsAre DEF s
    <3>2. -1 \in spare
      BY <1>5, <3>1, ConstantsAre
    <3> QED BY <3>2
  <2> QED BY <2>1
<1>11. DOMAIN f = T \cup spare
  BY <1>3
<1>12. ASSUME NEW h \in DOMAIN f
       PROVE  /\ h \in Int /\ f[h] >= t /\ f[h] \in Nat /\ (h <= 0 \/ h \in T)
              /\ h \in T => f[h] = rows[h].fin
              /\ h \notin T => f[h] = t
  <2>1. CASE h \in T
    <3>1. f[h] = rows[h].fin
      BY <1>1, <1>3, <2>1
    <3> QED BY <1>1, <1>2, <2>1, <3>1
  <2>2. CASE h \in spare
    <3>1. f[h] = t
      BY <1>3, <1>8, <2>2
    <3> QED BY <1>7, <1>8, <2>2, <3>1
  <2> QED BY <1>11, <2>1, <2>2
<1>13. Slotting(f)
  BY <1>9, <1>10, <1>11, <1>12 DEF Slotting
<1>14. ASSUME Cardinality(T) <= Slots PROVE Cardinality(DOMAIN f) = Slots
  <2>1. s >= 0 /\ Cardinality(T) + s = Slots
    BY <1>1, <1>14, ConstantsAre DEF s
  <2> QED BY <1>6, <1>9, <1>11, <2>1
<1>15. ASSUME NEW k \in Nat, k >= t
       PROVE  Later(f, k) = {i \in T : rows[i].fin > k}
  <2>1. ASSUME NEW h PROVE h \in Later(f, k) <=> h \in T /\ rows[h].fin > k
    <3>1. h \in T => h \in DOMAIN f
      BY <1>11
    <3>2. h \in DOMAIN f /\ h \notin T => ~(f[h] > k)
      BY <1>12, <1>15
    <3> QED BY <1>12, <3>1, <3>2 DEF Later
  <2> QED BY <2>1
<1> QED BY <1>12, <1>13, <1>14, <1>15 DEF f, T

-----------------------------------------------------------------------------
(* When a build that waits starts; that it takes a slot at k; and the      *)
(* builds up to n that take one at k, with those that tick already.        *)
StartOf(rows, t, i) == Earliest(SlotsAfter(rows, t)[i - 1])
Takes(rows, t, i, k) ==
  Waits(rows, i) /\ StartOf(rows, t, i) <= k /\ k < StartOf(rows, t, i) + Dur(rows[i])
TakingTo(rows, t, n, k) ==
  {i \in DOMAIN rows : \/ Ticks(rows[i], t) /\ rows[i].fin > k
                       \/ i <= n /\ Takes(rows, t, i, k)}

(* The slots and the builds agree: once the builds up to n have their      *)
(* slots, as many slots are free later than k as there are builds that     *)
(* take one at k, for each k from t on.                                    *)
InStep(rows, t, n) ==
  LET f == SlotsAfter(rows, t)[n] IN
  /\ Slotting(f)
  /\ \A h \in DOMAIN f : /\ h \in Int /\ f[h] >= t
                         /\ h <= n \/ h \in Ticking(rows, t)
  /\ Cardinality(Ticking(rows, t)) <= Slots => Cardinality(DOMAIN f) = Slots
  /\ \A i \in 1..n : Waits(rows, i) =>
       /\ StartOf(rows, t, i) \in Nat /\ StartOf(rows, t, i) >= t
       /\ \A h \in DOMAIN f : f[h] >= StartOf(rows, t, i)
  /\ \A k \in Nat : k >= t =>
       Cardinality(Later(f, k)) = Cardinality(TakingTo(rows, t, n, k))

(* The balance holds before the loop.                                      *)
LEMMA InStepAtFirst ==
  ASSUME NEW rows, Rows(rows), NEW t \in Nat
  PROVE  InStep(rows, t, 0)
<1> DEFINE f == SlotsAfter(rows, t)[0]
<1>1. f = FreeTimes(rows, t)
  BY SlotsAre
<1>2. /\ Slotting(f)
      /\ \A h \in DOMAIN f : /\ h \in Int /\ f[h] >= t
                             /\ h <= 0 \/ h \in Ticking(rows, t)
      /\ Cardinality(Ticking(rows, t)) <= Slots => Cardinality(DOMAIN f) = Slots
  BY <1>1, FreeTimesAre
<1>3. ASSUME NEW k \in Nat, k >= t
      PROVE  Later(f, k) = TakingTo(rows, t, 0, k)
  <2>1. Later(f, k) = {i \in Ticking(rows, t) : rows[i].fin > k}
    BY <1>1, <1>3, FreeTimesAre
  <2>2. \A i \in DOMAIN rows : ~(i <= 0)
    BY RowIs
  <2> QED BY <2>1, <2>2, Zenon DEF TakingTo, Ticking
<1> HIDE DEF f
<1>4. \A i \in 1..0 : FALSE
  OBVIOUS
<1> QED BY <1>2, <1>3, <1>4 DEF InStep, f

(* Each round of the loop keeps the balance.                               *)
LEMMA InStepNext ==
  ASSUME NEW rows, Rows(rows), NEW t \in Nat, NEW n \in 1..MaxBuilds,
         InStep(rows, t, n - 1)
  PROVE  InStep(rows, t, n)
<1> DEFINE f == SlotsAfter(rows, t)[n - 1]
           g == SlotsAfter(rows, t)[n]
<1>1. /\ Slotting(f)
      /\ \A h \in DOMAIN f : /\ h \in Int /\ f[h] >= t
                             /\ h <= n - 1 \/ h \in Ticking(rows, t)
      /\ Cardinality(Ticking(rows, t)) <= Slots => Cardinality(DOMAIN f) = Slots
      /\ \A i \in 1..(n - 1) : Waits(rows, i) =>
           /\ StartOf(rows, t, i) \in Nat /\ StartOf(rows, t, i) >= t
           /\ \A h \in DOMAIN f : f[h] >= StartOf(rows, t, i)
      /\ \A k \in Nat : k >= t =>
           Cardinality(Later(f, k)) = Cardinality(TakingTo(rows, t, n - 1, k))
  BY DEF InStep
<1>2. n \in Nat /\ n - 1 \in Nat /\ n # 0
  OBVIOUS
<1>3. \A i \in DOMAIN rows : i \in Nat
  BY RowIs
<1>4. CASE ~Waits(rows, n)
  <2>1. g = f
    BY <1>4, SlotsAre
  <2>2. \A i \in 1..n : Waits(rows, i) => i \in 1..(n - 1)
    <3>1. ASSUME NEW i \in 1..n, Waits(rows, i) PROVE i \in 1..(n - 1)
      <4>1. i # n
        BY <1>4, <3>1, Zenon
      <4> QED BY <4>1
    <3> QED BY <3>1, Zenon
  <2>3. ASSUME NEW k PROVE TakingTo(rows, t, n, k) = TakingTo(rows, t, n - 1, k)
    <3>1. ASSUME NEW i \in DOMAIN rows, Takes(rows, t, i, k)
          PROVE  i <= n <=> i <= n - 1
      <4>1. i # n
        BY <1>4, <3>1, Zenon DEF Takes
      <4> QED BY <1>2, <1>3, <4>1
    <3> QED BY <3>1, Zenon DEF TakingTo
  <2> HIDE DEF f, g
  <2>4. \A h \in DOMAIN f : h <= n - 1 => h <= n
    BY <1>1, <1>2
  <2> QED BY <1>1, <2>1, <2>2, <2>3, <2>4 DEF InStep, g
<1>5. CASE Waits(rows, n)
  <2> DEFINE m == Earliest(f)
             d == Dur(rows[n])
  <2>1. n \in DOMAIN rows /\ n \notin Ticking(rows, t)
    BY <1>5 DEF Waits, Ticking, Ticks
  <2>2. d \in Nat \ {0}
    BY <2>1, RowIs
  <2>3. n \notin DOMAIN f
    <3>1. ~(n <= n - 1)
      OBVIOUS
    <3> QED BY <1>1, <2>1, <3>1, Zenon
  <2>4. g = TakenBy(f, SlotFor(f), n, m + d)
    BY <1>5, SlotsAre
  <2>5. m = StartOf(rows, t, n)
    BY DEF StartOf
  <2> HIDE DEF f, g, d
  <2>6. m \in Nat /\ m >= t /\ \A h \in DOMAIN f : m <= f[h]
    <3>1. SlotFor(f) \in DOMAIN f /\ m \in Nat /\ \A h \in DOMAIN f : m <= f[h]
      BY <1>1, FirstSlot
    <3>2. m = f[SlotFor(f)]
      BY DEF Earliest
    <3> QED BY <1>1, <3>1, <3>2
  <2>7. /\ Slotting(g) /\ n \in DOMAIN g
        /\ DOMAIN g \subseteq DOMAIN f \cup {n}
        /\ Cardinality(DOMAIN g) = Cardinality(DOMAIN f)
        /\ g[n] = m + d
        /\ \A h \in DOMAIN g : h # n => h \in DOMAIN f /\ g[h] = f[h]
        /\ \A k \in Nat :
             /\ k < m => Later(g, k) = DOMAIN g /\ Later(f, k) = DOMAIN f
             /\ m <= k /\ k < m + d =>
                  Later(g, k) = Later(f, k) \cup {n} /\ n \notin Later(f, k)
             /\ m + d <= k => Later(g, k) = Later(f, k)
    BY <1>1, <2>2, <2>3, <2>4, TakenIs
  <2> HIDE DEF m
  <2>8. ASSUME NEW h \in DOMAIN g
        PROVE  /\ h \in Int /\ g[h] >= m /\ g[h] >= t
               /\ (h <= n \/ h \in Ticking(rows, t))
    <3>1. CASE h = n
      BY <1>2, <2>2, <2>6, <2>7, <3>1
    <3>2. CASE h # n
      <4>1. h \in DOMAIN f /\ g[h] = f[h]
        BY <2>7, <3>2
      <4>2. f[h] \in Nat
        BY <1>1, <4>1 DEF Slotting
      <4> QED BY <1>1, <1>2, <2>6, <4>1, <4>2
    <3> QED BY <3>1, <3>2
  <2>9. ASSUME NEW i \in 1..n, Waits(rows, i)
        PROVE  /\ StartOf(rows, t, i) \in Nat /\ StartOf(rows, t, i) >= t
               /\ \A h \in DOMAIN g : g[h] >= StartOf(rows, t, i)
    <3>1. CASE i = n
      BY <2>5, <2>6, <2>8, <3>1
    <3>2. CASE i # n
      <4>1. i \in 1..(n - 1)
        BY <3>2
      <4>2. /\ StartOf(rows, t, i) \in Nat /\ StartOf(rows, t, i) >= t
            /\ \A h \in DOMAIN f : f[h] >= StartOf(rows, t, i)
        BY <1>1, <2>9, <4>1
      <4>3. m >= StartOf(rows, t, i)
        <5>1. SlotFor(f) \in DOMAIN f /\ m = f[SlotFor(f)]
          BY <1>1, FirstSlot DEF m, Earliest
        <5> QED BY <4>2, <5>1
      <4>4. ASSUME NEW h \in DOMAIN g PROVE g[h] >= StartOf(rows, t, i)
        <5>1. g[h] >= m /\ g[h] \in Nat
          BY <2>7, <2>8 DEF Slotting
        <5> QED BY <2>6, <4>2, <4>3, <5>1
      <4> QED BY <4>2, <4>4
    <3> QED BY <3>1, <3>2
  <2>10. ASSUME NEW k \in Nat, k >= t
         PROVE  Cardinality(Later(g, k)) = Cardinality(TakingTo(rows, t, n, k))
    <3> DEFINE A == TakingTo(rows, t, n - 1, k)
               B == TakingTo(rows, t, n, k)
    <3>1. Cardinality(Later(f, k)) = Cardinality(A)
      BY <1>1, <2>10
    <3>2. /\ ~(m <= k /\ k < m + d) => B = A
          /\ m <= k /\ k < m + d => B = A \cup {n} /\ n \notin A
      <4>1. ASSUME NEW i \in DOMAIN rows, i # n PROVE i <= n <=> i <= n - 1
        BY <1>2, <1>3, <4>1
      <4>2. Takes(rows, t, n, k) <=> m <= k /\ k < m + d
        BY <1>5, <2>5, Zenon DEF Takes, d
      <4>3. ~Ticks(rows[n], t) /\ n <= n /\ ~(n <= n - 1)
        BY <1>2, <2>1 DEF Ticking
      <4>4. \A i \in DOMAIN rows : i # n => (i \in A <=> i \in B)
        BY <4>1, Zenon DEF TakingTo
      <4>5. n \notin A /\ (n \in B <=> m <= k /\ k < m + d)
        BY <2>1, <4>2, <4>3, Zenon DEF TakingTo
      <4>6. A \subseteq DOMAIN rows /\ B \subseteq DOMAIN rows
        BY Zenon DEF TakingTo
      <4> HIDE DEF A, B
      <4> QED BY <2>1, <4>4, <4>5, <4>6
    <3>3. IsFiniteSet(A)
      <4>1. A \subseteq Id
        BY SomeIds DEF TakingTo
      <4> QED BY <4>1, IdsAre
    <3>4. IsFiniteSet(Later(f, k))
      <4>1. Later(f, k) \in SUBSET DOMAIN f
        BY DEF Later
      <4> QED BY <1>1, <4>1, FS_Subset DEF Slotting
    <3> HIDE DEF A, B
    <3>5. CASE k < m
      <4>1. Cardinality(Later(g, k)) = Cardinality(Later(f, k))
        BY <2>7, <3>5
      <4>2. B = A
        BY <2>6, <3>2, <3>5
      <4> QED BY <3>1, <4>1, <4>2 DEF B
    <3>6. CASE m <= k /\ k < m + d
      <4>1. Later(g, k) = Later(f, k) \cup {n} /\ n \notin Later(f, k)
        BY <2>7, <3>6
      <4>2. B = A \cup {n} /\ n \notin A
        BY <3>2, <3>6
      <4>3. Cardinality(Later(g, k)) = Cardinality(Later(f, k)) + 1
        BY <3>4, <4>1, FS_AddElement
      <4>4. Cardinality(B) = Cardinality(A) + 1
        BY <3>3, <4>2, FS_AddElement
      <4> QED BY <3>1, <4>3, <4>4 DEF B
    <3>7. CASE m + d <= k
      <4>1. Later(g, k) = Later(f, k)
        BY <2>7, <3>7
      <4>2. B = A
        BY <2>2, <2>6, <3>2, <3>7
      <4> QED BY <3>1, <4>1, <4>2 DEF B
    <3> QED BY <2>2, <2>6, <3>5, <3>6, <3>7
  <2>11. Cardinality(Ticking(rows, t)) <= Slots => Cardinality(DOMAIN g) = Slots
    BY <1>1, <2>7
  <2> QED BY <2>7, <2>8, <2>9, <2>10, <2>11 DEF InStep, g
<1> QED BY <1>4, <1>5

(* So the balance holds after every build.                                 *)
LEMMA AlwaysInStep ==
  ASSUME NEW rows, Rows(rows), NEW t \in Nat, NEW n \in 0..MaxBuilds
  PROVE  InStep(rows, t, n)
<1> DEFINE Bad == {k \in 0..MaxBuilds : ~InStep(rows, t, k)}
<1> SUFFICES ASSUME Bad # {} PROVE FALSE
  OBVIOUS
<1>1. PICK k \in 0..MaxBuilds : ~InStep(rows, t, k) /\ \A j \in Bad : k <= j
  <2>1. Bad \in SUBSET Nat
    BY ConstantsAre
  <2>2. Min(Bad) \in Bad /\ \A j \in Bad : Min(Bad) <= j
    <3> HIDE DEF Bad
    <3> QED BY <2>1, Least
  <2> QED BY <2>2
<1>2. CASE k = 0
  BY <1>1, <1>2, InStepAtFirst
<1>3. CASE k # 0
  <2>1. k - 1 \in 0..MaxBuilds /\ k \in 1..MaxBuilds /\ ~(k <= k - 1)
    BY <1>3, ConstantsAre
  <2>2. InStep(rows, t, k - 1)
    BY <1>1, <2>1
  <2> QED BY <1>1, <2>1, <2>2, InStepNext
<1> QED BY <1>2, <1>3

(* What a build takes depends on its ship alone.                           *)
LEMMA DurOf ==
  ASSUME NEW a, NEW b, a.ship = b.ship
  PROVE  Dur(a) = Dur(b)
BY DEF Dur

(* Builds that wait start from now on, and in the order of their ids.      *)
LEMMA StartsAre ==
  ASSUME NEW rows, Rows(rows), NEW t \in Nat, NEW i, Waits(rows, i)
  PROVE  /\ StartOf(rows, t, i) \in Nat /\ StartOf(rows, t, i) >= t
         /\ \A j : Waits(rows, j) /\ i < j => StartOf(rows, t, i) <= StartOf(rows, t, j)
<1>1. \A j \in DOMAIN rows : j \in 1..MaxBuilds
  BY RowIs, ConstantsAre
<1>2. i \in 1..MaxBuilds /\ MaxBuilds \in 0..MaxBuilds
  BY <1>1, ConstantsAre DEF Waits
<1>3. InStep(rows, t, MaxBuilds)
  BY <1>2, AlwaysInStep
<1>4. StartOf(rows, t, i) \in Nat /\ StartOf(rows, t, i) >= t
  BY <1>2, <1>3 DEF InStep
<1>5. ASSUME NEW j, Waits(rows, j), i < j
      PROVE  StartOf(rows, t, i) <= StartOf(rows, t, j)
  <2>1. j \in 1..MaxBuilds
    BY <1>1, <1>5 DEF Waits
  <2>2. j - 1 \in 0..MaxBuilds /\ i \in 1..(j - 1)
    BY <1>2, <1>5, <2>1, ConstantsAre
  <2> DEFINE f == SlotsAfter(rows, t)[j - 1]
  <2>3. InStep(rows, t, j - 1)
    BY <2>2, AlwaysInStep
  <2>4. Slotting(f) /\ \A h \in DOMAIN f : f[h] >= StartOf(rows, t, i)
    BY <1>5, <2>2, <2>3 DEF InStep
  <2>5. StartOf(rows, t, j) = Earliest(f)
    BY DEF StartOf
  <2> HIDE DEF f
  <2>6. SlotFor(f) \in DOMAIN f
    BY <2>4, FirstSlot
  <2> QED BY <1>4, <2>4, <2>5, <2>6 DEF Earliest, Slotting
<1> QED BY <1>4, <1>5

(* What step 3 makes of the rows: builds that wait get their start and     *)
(* finish, and the builds that count at a moment are those that take a     *)
(* slot at it.                                                             *)
LEMMA ScheduleIs ==
  ASSUME NEW rows, Rows(rows), NEW t \in Nat
  PROVE  LET plan == Schedule(rows, t) IN
         /\ Rows(plan) /\ DOMAIN plan = DOMAIN rows
         /\ \A i \in DOMAIN rows :
              /\ plan[i].ship = rows[i].ship
              /\ ~Waits(rows, i) => plan[i] = rows[i]
              /\ Waits(rows, i) =>
                   /\ plan[i].fin = StartOf(rows, t, i) + Dur(rows[i])
                   /\ Start(plan[i]) = StartOf(rows, t, i)
                   /\ plan[i].started <=> StartOf(rows, t, i) <= t
         /\ \A k \in Nat : k >= t =>
              CountingOf(plan, k) = TakingTo(rows, t, MaxBuilds, k)
<1> DEFINE plan == Schedule(rows, t)
<1>1. DOMAIN plan = DOMAIN rows /\ plan = [i \in DOMAIN rows |-> plan[i]]
  BY DEF Schedule
<1>2. ASSUME NEW i \in DOMAIN rows, ~Waits(rows, i) PROVE plan[i] = rows[i]
  BY <1>2, Zenon DEF Schedule
<1>3. ASSUME NEW i \in DOMAIN rows, Waits(rows, i)
      PROVE  plan[i] = [ship |-> rows[i].ship,
                        fin |-> StartOf(rows, t, i) + Dur(rows[i]),
                        started |-> StartOf(rows, t, i) <= t]
  BY <1>3, Zenon DEF Schedule, StartOf
<1> HIDE DEF plan
<1>4. ASSUME NEW i \in DOMAIN rows, Waits(rows, i)
      PROVE  /\ plan[i] \in Row /\ plan[i].ship = rows[i].ship
             /\ plan[i].fin = StartOf(rows, t, i) + Dur(rows[i])
             /\ Start(plan[i]) = StartOf(rows, t, i)
             /\ plan[i].started <=> StartOf(rows, t, i) <= t
  <2> DEFINE s == StartOf(rows, t, i)
             b == s <= t
             e == s + Dur(rows[i])
  <2>1. s \in Nat /\ rows[i].ship \in Ship /\ Dur(rows[i]) \in Nat
    BY <1>4, StartsAre, RowIs
  <2>2. e \in Nat /\ e - Dur(rows[i]) = s /\ b \in BOOLEAN
    <3> HIDE DEF s
    <3> QED BY <2>1
  <2>3. plan[i] = [ship |-> rows[i].ship, fin |-> e, started |-> b]
    BY <1>3, <1>4, Zenon
  <2> HIDE DEF b, e
  <2>4. /\ plan[i] \in Row /\ plan[i].ship = rows[i].ship /\ plan[i].fin = e
        /\ plan[i].started = b
    BY <2>1, <2>2, <2>3 DEF Row
  <2>5. Dur(plan[i]) = Dur(rows[i])
    BY <2>4, DurOf
  <2>6. Start(plan[i]) = s
    BY <2>2, <2>4, <2>5 DEF Start
  <2>7. plan[i].started <=> s <= t
    BY <2>4, Zenon DEF b
  <2> QED BY <2>4, <2>6, <2>7 DEF e
<1>5. Rows(plan)
  <2>1. \A i \in DOMAIN rows : plan[i] \in Row
    BY <1>2, <1>4, RowIs
  <2> QED BY <1>1, <2>1 DEF Rows
<1>6. ASSUME NEW k \in Nat, k >= t
      PROVE  CountingOf(plan, k) = TakingTo(rows, t, MaxBuilds, k)
  <2>1. ASSUME NEW i \in DOMAIN rows
        PROVE  i \in CountingOf(plan, k) <=> i \in TakingTo(rows, t, MaxBuilds, k)
    <3>1. /\ i \in CountingOf(plan, k)
               <=> k < plan[i].fin /\ (plan[i].started \/ Start(plan[i]) <= k)
      BY <1>1 DEF CountingOf
    <3>2. /\ i \in TakingTo(rows, t, MaxBuilds, k)
               <=> \/ Ticks(rows[i], t) /\ rows[i].fin > k
                   \/ Takes(rows, t, i, k)
      BY RowIs DEF TakingTo
    <3>3. CASE Waits(rows, i)
      <4> DEFINE s == StartOf(rows, t, i)
      <4>1. ~Ticks(rows[i], t)
        BY <3>3 DEF Waits, Ticks
      <4>2. s \in Nat /\ Dur(rows[i]) \in Nat
        BY <3>3, StartsAre, RowIs
      <4>3. Takes(rows, t, i, k) <=> s <= k /\ k < s + Dur(rows[i])
        BY <3>3 DEF Takes
      <4>4. /\ plan[i].fin = s + Dur(rows[i]) /\ Start(plan[i]) = s
            /\ plan[i].started <=> s <= t
        BY <1>4, <3>3
      <4> HIDE DEF s
      <4>5. plan[i].started \/ Start(plan[i]) <= k <=> s <= k
        BY <1>6, <4>2, <4>4
      <4> QED BY <3>1, <3>2, <4>1, <4>3, <4>4, <4>5
    <3>4. CASE ~Waits(rows, i)
      <4>1. plan[i] = rows[i] /\ rows[i].started
        BY <1>2, <3>4 DEF Waits
      <4>2. ~Takes(rows, t, i, k)
        BY <3>4 DEF Takes
      <4>3. rows[i].fin \in Nat
        BY RowIs
      <4>4. k < rows[i].fin <=> rows[i].fin > t /\ rows[i].fin > k
        BY <1>6, <4>3
      <4> QED BY <3>1, <3>2, <4>1, <4>2, <4>4 DEF Ticks
    <3> QED BY <3>3, <3>4
  <2>2. CountingOf(plan, k) \subseteq DOMAIN rows
    BY <1>1 DEF CountingOf
  <2>3. TakingTo(rows, t, MaxBuilds, k) \subseteq DOMAIN rows
    BY DEF TakingTo
  <2> QED BY <2>1, <2>2, <2>3
<1>7. \A i \in DOMAIN rows :
              /\ plan[i].ship = rows[i].ship
              /\ ~Waits(rows, i) => plan[i] = rows[i]
              /\ Waits(rows, i) =>
                   /\ plan[i].fin = StartOf(rows, t, i) + Dur(rows[i])
                   /\ Start(plan[i]) = StartOf(rows, t, i)
                   /\ plan[i].started <=> StartOf(rows, t, i) <= t
  BY <1>2, <1>4
<1> QED BY <1>1, <1>5, <1>6, <1>7 DEF plan

-----------------------------------------------------------------------------
(* By the balance no more builds take a slot than there are slots, and if  *)
(* all slots are free only later, all are taken.                           *)
LEMMA TakingIsBounded ==
  ASSUME NEW rows, Rows(rows), NEW t \in Nat, NEW n \in 0..MaxBuilds,
         NEW k \in Nat, k >= t
  PROVE  /\ IsFiniteSet(TakingTo(rows, t, n, k))
         /\ Cardinality(TakingTo(rows, t, n, k)) \in Nat
         /\ TakingTo(rows, t, n, k) \subseteq TakingTo(rows, t, MaxBuilds, k)
         /\ Cardinality(Ticking(rows, t)) <= Slots =>
              /\ Cardinality(TakingTo(rows, t, n, k)) <= Slots
              /\ (\A h \in DOMAIN SlotsAfter(rows, t)[n] :
                    SlotsAfter(rows, t)[n][h] > k)
                   => Cardinality(TakingTo(rows, t, n, k)) = Slots
              /\ (\E h \in DOMAIN SlotsAfter(rows, t)[n] :
                    ~(SlotsAfter(rows, t)[n][h] > k))
                   => Cardinality(TakingTo(rows, t, n, k)) < Slots
<1> DEFINE f == SlotsAfter(rows, t)[n]
           A == TakingTo(rows, t, n, k)
<1>1. /\ Slotting(f)
      /\ Cardinality(Ticking(rows, t)) <= Slots => Cardinality(DOMAIN f) = Slots
      /\ Cardinality(Later(f, k)) = Cardinality(A)
  BY AlwaysInStep DEF InStep
<1>2. IsFiniteSet(A) /\ Cardinality(A) \in Nat
  <2>1. A \subseteq Id
    BY SomeIds DEF TakingTo
  <2> QED BY <2>1, IdsAre
<1>3. A \subseteq TakingTo(rows, t, MaxBuilds, k)
  <2>1. \A i \in DOMAIN rows : i <= MaxBuilds
    BY RowIs
  <2> QED BY <2>1, Zenon DEF TakingTo
<1> HIDE DEF f, A
<1>4. Later(f, k) \in SUBSET DOMAIN f
  BY DEF Later
<1>5. /\ Cardinality(Later(f, k)) <= Cardinality(DOMAIN f)
      /\ Cardinality(Later(f, k)) = Cardinality(DOMAIN f) => Later(f, k) = DOMAIN f
  BY <1>1, <1>4, FS_Subset DEF Slotting
<1>6. (\A h \in DOMAIN f : f[h] > k) => Later(f, k) = DOMAIN f
  BY DEF Later
<1>7. (\E h \in DOMAIN f : ~(f[h] > k)) => Later(f, k) # DOMAIN f
  BY DEF Later
<1>8. Cardinality(Ticking(rows, t)) <= Slots =>
        /\ Cardinality(A) <= Slots
        /\ (\A h \in DOMAIN f : f[h] > k) => Cardinality(A) = Slots
        /\ (\E h \in DOMAIN f : ~(f[h] > k)) => Cardinality(A) < Slots
  BY <1>1, <1>2, <1>5, <1>6, <1>7, ConstantsAre
<1> QED BY <1>2, <1>3, <1>8 DEF f, A

(* A plan takes no more slots than there are, and before a build of it     *)
(* starts all of them.                                                     *)
LEMMA PlanFits ==
  ASSUME NEW rows, Rows(rows), NEW t \in Nat,
         Cardinality(Ticking(rows, t)) <= Slots, NEW k \in Nat, k >= t
  PROVE  /\ Cardinality(CountingOf(Schedule(rows, t), k)) <= Slots
         /\ \A i : Waits(rows, i) /\ k < StartOf(rows, t, i) =>
              Cardinality(CountingOf(Schedule(rows, t), k)) = Slots
<1> DEFINE A == CountingOf(Schedule(rows, t), k)
<1>1. A = TakingTo(rows, t, MaxBuilds, k)
  BY ScheduleIs
<1>2. MaxBuilds \in 0..MaxBuilds
  BY ConstantsAre
<1>3. IsFiniteSet(A) /\ Cardinality(A) \in Nat /\ Cardinality(A) <= Slots
  BY <1>1, <1>2, TakingIsBounded
<1> HIDE DEF A
<1>4. ASSUME NEW i, Waits(rows, i), k < StartOf(rows, t, i)
      PROVE  Cardinality(A) = Slots
  <2> DEFINE f == SlotsAfter(rows, t)[i - 1]
             B == TakingTo(rows, t, i - 1, k)
  <2>1. i \in 1..MaxBuilds
    BY <1>4, RowIs, ConstantsAre DEF Waits
  <2>2. i - 1 \in 0..MaxBuilds
    BY <2>1, ConstantsAre
  <2>3. Slotting(f)
    BY <2>2, AlwaysInStep DEF InStep
  <2>4. \A h \in DOMAIN f : f[h] > k
    <3>1. StartOf(rows, t, i) = Earliest(f)
      BY DEF StartOf
    <3> HIDE DEF f
    <3>2. Earliest(f) \in Nat /\ \A h \in DOMAIN f : Earliest(f) <= f[h]
      BY <2>3, FirstSlot
    <3> QED BY <1>4, <2>3, <3>1, <3>2 DEF Slotting
  <2>5. Cardinality(B) = Slots /\ B \subseteq A
    BY <1>1, <2>2, <2>4, TakingIsBounded
  <2>6. Cardinality(B) <= Cardinality(A)
    BY <1>3, <2>5, FS_Subset
  <2> QED BY <1>3, <2>5, <2>6, ConstantsAre
<1> QED BY <1>3, <1>4 DEF A

(* What a settling at t needs so as not to take more slots than there      *)
(* are: no more run at t, or no build is there to be promoted.             *)
Fits(rows, t) ==
  \/ Cardinality(CountingOf(rows, t)) <= Slots
  \/ \A i \in DOMAIN rows :
       ~rows[i].started => ~(Start(rows[i]) <= t /\ t < rows[i].fin)

(* The first two steps of the settling.                                    *)
Promoted(rows, t) == Promote(Requeue(rows, t), t)

(* What the first two steps make of the rows.  If the rows fit, no more    *)
(* builds tick after them than there are slots.                            *)
LEMMA PromotedIs ==
  ASSUME NEW rows, Rows(rows), NEW t \in Nat
  PROVE  LET on == Promoted(rows, t) IN
         /\ Rows(on) /\ DOMAIN on = DOMAIN rows
         /\ \A i \in DOMAIN rows :
              /\ on[i].ship = rows[i].ship /\ Dur(on[i]) = Dur(rows[i])
              /\ on[i].started => on[i].fin = rows[i].fin
              /\ on[i].started => rows[i].started \/ Comes(rows[i], t)
              /\ rows[i].fin # Unplanned /\ rows[i].fin <= t =>
                   on[i].started /\ on[i].fin = rows[i].fin
         /\ Fits(rows, t) => Cardinality(Ticking(on, t)) <= Slots
         /\ Cardinality(Ticking(rows, t)) <= Slots => on = Promote(rows, t)
<1> DEFINE again == Requeue(rows, t)
           on == Promoted(rows, t)
<1>1. /\ Rows(again) /\ DOMAIN again = DOMAIN rows
      /\ \A i \in DOMAIN rows :
           /\ again[i].ship = rows[i].ship
           /\ \/ again[i] = rows[i]
              \/ /\ Ticks(rows[i], t) /\ ~again[i].started
                 /\ again[i].fin = Unplanned
      /\ Cardinality(Ticking(again, t)) <= Slots
      /\ Cardinality(Ticking(rows, t)) <= Slots => again = rows
  BY RequeueIs
<1>2. on = Promote(again, t)
  BY DEF Promoted
<1> HIDE DEF again, on
<1>3. /\ Rows(on) /\ DOMAIN on = DOMAIN rows
      /\ \A i \in DOMAIN rows :
           /\ on[i].ship = again[i].ship /\ on[i].fin = again[i].fin
           /\ on[i].started <=> again[i].started \/ Comes(again[i], t)
  BY <1>1, <1>2, PromoteIs
<1>4. ASSUME NEW i \in DOMAIN rows
      PROVE  /\ on[i].ship = rows[i].ship /\ Dur(on[i]) = Dur(rows[i])
             /\ on[i].started => on[i].fin = rows[i].fin /\ again[i] = rows[i]
             /\ on[i].started => rows[i].started \/ Comes(rows[i], t)
             /\ rows[i].fin # Unplanned /\ rows[i].fin <= t =>
                   on[i].started /\ on[i].fin = rows[i].fin
  <2>1. on[i].ship = rows[i].ship /\ Dur(on[i]) = Dur(rows[i])
    BY <1>1, <1>3, DurOf
  <2>2. on[i].started => again[i] = rows[i]
    BY <1>1, <1>3 DEF Comes
  <2>3. on[i].started => on[i].fin = rows[i].fin /\ (rows[i].started \/ Comes(rows[i], t))
    BY <1>3, <2>2
  <2>4. ASSUME rows[i].fin # Unplanned, rows[i].fin <= t
        PROVE  on[i].started /\ on[i].fin = rows[i].fin
    <3>1. rows[i].fin \in Nat /\ Dur(rows[i]) \in Nat
      BY RowIs
    <3>2. ~Ticks(rows[i], t)
      BY <2>4, <3>1 DEF Ticks
    <3>3. again[i] = rows[i]
      BY <1>1, <3>2
    <3>4. Comes(rows[i], t)
      BY <2>4, <3>1 DEF Comes
    <3> QED BY <1>3, <3>3, <3>4
  <2> QED BY <2>1, <2>2, <2>3, <2>4
<1>5. ASSUME Fits(rows, t) PROVE Cardinality(Ticking(on, t)) <= Slots
  <2>1. CASE Cardinality(CountingOf(rows, t)) <= Slots
    <3>1. Ticking(on, t) \subseteq CountingOf(rows, t)
      <4>1. ASSUME NEW i \in Ticking(on, t) PROVE i \in CountingOf(rows, t)
        <5>1. i \in DOMAIN rows /\ on[i].started /\ on[i].fin > t
          BY <1>3 DEF Ticking, Ticks
        <5>2. rows[i].fin > t /\ (rows[i].started \/ Comes(rows[i], t))
          BY <1>4, <5>1
        <5>3. rows[i].fin \in Nat /\ Dur(rows[i]) \in Nat
          BY <5>1, RowIs
        <5>4. rows[i].started \/ Start(rows[i]) <= t
          BY <5>2, <5>3 DEF Comes, Start
        <5>5. t < rows[i].fin
          BY <5>2, <5>3
        <5> QED BY <5>1, <5>4, <5>5 DEF CountingOf
      <4> QED BY <4>1
    <3>2. IsFiniteSet(CountingOf(rows, t)) /\ Cardinality(CountingOf(rows, t)) \in Nat
      BY SomeIds, IdsAre
    <3>3. /\ IsFiniteSet(Ticking(on, t))
          /\ Cardinality(Ticking(on, t)) <= Cardinality(CountingOf(rows, t))
      BY <3>1, <3>2, FS_Subset
    <3>4. Cardinality(Ticking(on, t)) \in Nat
      BY <3>3, FS_CardinalityType
    <3> QED BY <2>1, <3>2, <3>3, <3>4, ConstantsAre
  <2>2. CASE \A i \in DOMAIN rows :
               ~rows[i].started => ~(Start(rows[i]) <= t /\ t < rows[i].fin)
    <3>1. Ticking(on, t) \subseteq Ticking(again, t)
      <4>1. ASSUME NEW i \in Ticking(on, t) PROVE i \in Ticking(again, t)
        <5>1. i \in DOMAIN rows /\ on[i].started /\ on[i].fin > t
          BY <1>3 DEF Ticking, Ticks
        <5>2. /\ rows[i].fin > t /\ (rows[i].started \/ Comes(rows[i], t))
              /\ again[i] = rows[i]
          BY <1>4, <5>1
        <5>3. rows[i].fin \in Nat /\ Dur(rows[i]) \in Nat
          BY <5>1, RowIs
        <5>4. ~rows[i].started => Start(rows[i]) <= t /\ t < rows[i].fin
          BY <5>2, <5>3 DEF Comes, Start
        <5>5. rows[i].started
          BY <2>2, <5>1, <5>4
        <5> QED BY <1>1, <5>1, <5>2, <5>5 DEF Ticking, Ticks
      <4> QED BY <4>1
    <3>2. IsFiniteSet(Ticking(again, t)) /\ Cardinality(Ticking(again, t)) \in Nat
      BY <1>1, SomeIds, IdsAre
    <3>3. /\ IsFiniteSet(Ticking(on, t))
          /\ Cardinality(Ticking(on, t)) <= Cardinality(Ticking(again, t))
      BY <3>1, <3>2, FS_Subset
    <3>4. Cardinality(Ticking(on, t)) \in Nat
      BY <3>3, FS_CardinalityType
    <3> QED BY <1>1, <3>2, <3>3, <3>4, ConstantsAre
  <2> QED BY <1>5, <2>1, <2>2 DEF Fits
<1>6. Cardinality(Ticking(rows, t)) <= Slots => on = Promote(rows, t)
  BY <1>1, <1>2
<1> QED BY <1>3, <1>4, <1>5, <1>6 DEF on

(* settle_build_queue plans every build, leaves what is finished, and      *)
(* moves a finish only to where there is still time for the whole build.   *)
LEMMA SettleIs ==
  ASSUME NEW rows, Rows(rows), NEW t \in Nat,
         \A i \in DOMAIN rows : rows[i].started => rows[i].fin # Unplanned
  PROVE  LET plan == Settle(rows, t) IN
         /\ Rows(plan) /\ DOMAIN plan = DOMAIN rows
         /\ \A i \in DOMAIN rows :
              /\ plan[i].ship = rows[i].ship /\ Dur(plan[i]) = Dur(rows[i])
              /\ plan[i].fin # Unplanned
              /\ rows[i].fin # Unplanned /\ rows[i].fin <= t =>
                   plan[i].fin = rows[i].fin
              /\ plan[i].fin = rows[i].fin \/ plan[i].fin >= t + Dur(rows[i])
              /\ rows[i].fin = Unplanned => plan[i].fin >= t + Dur(rows[i])
              /\ ~plan[i].started => Start(plan[i]) > t
<1> DEFINE on == Promoted(rows, t)
           plan == Settle(rows, t)
<1>1. /\ Rows(on) /\ DOMAIN on = DOMAIN rows
      /\ \A i \in DOMAIN rows :
           /\ on[i].ship = rows[i].ship /\ Dur(on[i]) = Dur(rows[i])
           /\ on[i].started => on[i].fin = rows[i].fin
           /\ on[i].started => rows[i].started \/ Comes(rows[i], t)
           /\ rows[i].fin # Unplanned /\ rows[i].fin <= t =>
                on[i].started /\ on[i].fin = rows[i].fin
  BY PromotedIs
<1>2. plan = Schedule(on, t)
  BY DEF Settle, Promoted
<1> HIDE DEF on, plan
<1>3. /\ Rows(plan) /\ DOMAIN plan = DOMAIN on
      /\ \A i \in DOMAIN on :
           /\ plan[i].ship = on[i].ship
           /\ ~Waits(on, i) => plan[i] = on[i]
           /\ Waits(on, i) =>
                /\ plan[i].fin = StartOf(on, t, i) + Dur(on[i])
                /\ Start(plan[i]) = StartOf(on, t, i)
                /\ plan[i].started <=> StartOf(on, t, i) <= t
  BY <1>1, <1>2, ScheduleIs
<1>4. ASSUME NEW i \in DOMAIN rows
      PROVE   /\ plan[i].ship = rows[i].ship /\ Dur(plan[i]) = Dur(rows[i])
              /\ plan[i].fin # Unplanned
              /\ rows[i].fin # Unplanned /\ rows[i].fin <= t =>
                   plan[i].fin = rows[i].fin
              /\ plan[i].fin = rows[i].fin \/ plan[i].fin >= t + Dur(rows[i])
              /\ rows[i].fin = Unplanned => plan[i].fin >= t + Dur(rows[i])
              /\ ~plan[i].started => Start(plan[i]) > t
  <2>1. plan[i].ship = rows[i].ship
    BY <1>1, <1>3
  <2>2. Dur(plan[i]) = Dur(rows[i])
    BY <2>1, DurOf
  <2>3. CASE Waits(on, i)
    <3>1. ~on[i].started
      BY <2>3 DEF Waits
    <3>2. ~(rows[i].fin # Unplanned /\ rows[i].fin <= t)
      BY <1>1, <3>1
    <3>3. StartOf(on, t, i) \in Nat /\ StartOf(on, t, i) >= t
      BY <1>1, <2>3, StartsAre
    <3>4. Dur(rows[i]) \in Nat \ {0}
      BY RowIs
    <3>5. /\ plan[i].fin = StartOf(on, t, i) + Dur(rows[i])
          /\ Start(plan[i]) = StartOf(on, t, i)
          /\ plan[i].started <=> StartOf(on, t, i) <= t
      BY <1>1, <1>3, <2>3
    <3>6. plan[i].fin # Unplanned /\ plan[i].fin >= t + Dur(rows[i])
      BY <3>3, <3>4, <3>5 DEF Unplanned
    <3>7. ~plan[i].started => Start(plan[i]) > t
      BY <3>3, <3>5
    <3> QED BY <2>1, <2>2, <3>2, <3>6, <3>7
  <2>4. CASE ~Waits(on, i)
    <3>1. plan[i] = on[i] /\ on[i].started
      BY <1>1, <1>3, <2>4 DEF Waits
    <3>2. plan[i].fin = rows[i].fin /\ (rows[i].started \/ Comes(rows[i], t))
      BY <1>1, <3>1
    <3>3. plan[i].fin # Unplanned
      BY <3>2 DEF Comes
    <3> QED BY <2>1, <2>2, <3>1, <3>2, <3>3
  <2> QED BY <2>3, <2>4
<1> QED BY <1>1, <1>3, <1>4 DEF plan

(* Rows that fit are settled into a plan that takes no more slots than     *)
(* there are, and before a queued build starts all of them.                *)
LEMMA SettleFits ==
  ASSUME NEW rows, Rows(rows), NEW t \in Nat, Fits(rows, t)
  PROVE  /\ \A k \in Nat : k >= t =>
              Cardinality(CountingOf(Settle(rows, t), k)) <= Slots
         /\ \A i \in DOMAIN rows : ~Settle(rows, t)[i].started =>
              \A k \in Nat : k >= t /\ k < Start(Settle(rows, t)[i]) =>
                Cardinality(CountingOf(Settle(rows, t), k)) = Slots
<1> DEFINE on == Promoted(rows, t)
           plan == Settle(rows, t)
<1>1. /\ Rows(on) /\ DOMAIN on = DOMAIN rows
      /\ Cardinality(Ticking(on, t)) <= Slots
  BY PromotedIs
<1>2. plan = Schedule(on, t)
  BY DEF Settle, Promoted
<1> HIDE DEF on, plan
<1>3. \A i \in DOMAIN on :
        /\ ~Waits(on, i) => plan[i] = on[i]
        /\ Waits(on, i) => Start(plan[i]) = StartOf(on, t, i)
  BY <1>1, <1>2, ScheduleIs
<1>4. \A k \in Nat : k >= t => Cardinality(CountingOf(plan, k)) <= Slots
  BY <1>1, <1>2, PlanFits
<1>5. ASSUME NEW i \in DOMAIN rows, ~plan[i].started, NEW k \in Nat, k >= t,
             k < Start(plan[i])
      PROVE  Cardinality(CountingOf(plan, k)) = Slots
  <2>1. Waits(on, i)
    BY <1>1, <1>3, <1>5 DEF Waits
  <2>2. k < StartOf(on, t, i)
    BY <1>1, <1>3, <1>5, <2>1
  <2> QED BY <1>1, <1>2, <1>5, <2>1, <2>2, PlanFits
<1> QED BY <1>4, <1>5 DEF plan

(* No build is planned before another that is ahead of it.                 *)
InOrder(rows, t) ==
  \A i, j \in DOMAIN rows : i < j /\ ~rows[i].started /\ rows[j].fin > t =>
    ~rows[j].started /\ Start(rows[j]) >= Start(rows[i])

(* The same of builds that are not finished.                               *)
StillInOrder(rows, t) ==
  \A i, j \in DOMAIN rows :
    i < j /\ ~rows[i].started /\ rows[i].fin > t /\ rows[j].fin > t =>
      ~rows[j].started /\ Start(rows[j]) >= Start(rows[i])

(* Rows in order are settled into a plan in order, when the new builds     *)
(* are at their end.                                                       *)
LEMMA SettleKeepsOrder ==
  ASSUME NEW rows, Rows(rows), NEW t \in Nat, Fits(rows, t),
         Cardinality(Ticking(rows, t)) <= Slots, StillInOrder(rows, t),
         \A i, j \in DOMAIN rows :
           i < j /\ rows[i].fin = Unplanned => rows[j].fin = Unplanned
  PROVE  InOrder(Settle(rows, t), t)
<1> DEFINE on == Promoted(rows, t)
           plan == Settle(rows, t)
<1>1. on = Promote(rows, t)
  BY PromotedIs
<1>2. plan = Schedule(on, t)
  BY DEF Settle, Promoted
<1> HIDE DEF on, plan
<1>3. /\ Rows(on) /\ DOMAIN on = DOMAIN rows
      /\ \A i \in DOMAIN rows :
           /\ on[i].fin = rows[i].fin
           /\ on[i].started <=> rows[i].started \/ Comes(rows[i], t)
  BY <1>1, PromoteIs
<1>4. /\ DOMAIN plan = DOMAIN rows
      /\ \A i \in DOMAIN rows :
           /\ ~Waits(on, i) => plan[i] = on[i]
           /\ Waits(on, i) =>
                /\ Start(plan[i]) = StartOf(on, t, i)
                /\ plan[i].started <=> StartOf(on, t, i) <= t
  BY <1>2, <1>3, ScheduleIs
<1>5. ASSUME NEW i \in DOMAIN rows, NEW j \in DOMAIN rows, i < j,
             ~plan[i].started, plan[j].fin > t
      PROVE  ~plan[j].started /\ Start(plan[j]) >= Start(plan[i])
  <2>1. Waits(on, i)
    BY <1>3, <1>4, <1>5 DEF Waits
  <2>2. ~rows[i].started /\ ~Comes(rows[i], t)
    BY <1>3, <2>1 DEF Waits
  <2>3. /\ rows[i].fin \in Nat /\ Dur(rows[i]) \in Nat
        /\ rows[j].fin \in Nat /\ Dur(rows[j]) \in Nat
    BY RowIs
  <2>4. Waits(on, j)
    <3> SUFFICES ASSUME ~Waits(on, j) PROVE FALSE
      OBVIOUS
    <3>0. rows[i].fin # Unplanned => rows[i].fin > t
      BY <2>2, <2>3 DEF Comes
    <3>1. plan[j] = on[j] /\ on[j].started
      BY <1>3, <1>4 DEF Waits
    <3>2. rows[j].fin > t /\ (rows[j].started \/ Comes(rows[j], t))
      BY <1>3, <1>5, <3>1
    <3>6. rows[i].fin = Unplanned
      <4> SUFFICES ASSUME rows[i].fin # Unplanned PROVE FALSE
        OBVIOUS
      <4>1. ~rows[j].started /\ Start(rows[j]) >= Start(rows[i])
        BY <1>5, <2>2, <3>0, <3>2 DEF StillInOrder
      <4>2. rows[j].fin <= t + Dur(rows[j])
        BY <3>2, <4>1 DEF Comes
      <4>3. rows[i].fin <= t + Dur(rows[i])
        BY <2>3, <4>1, <4>2 DEF Start
      <4> QED BY <2>2, <4>3 DEF Comes
    <3>7. rows[j].fin = Unplanned
      BY <1>5, <3>6
    <3> QED BY <3>2, <3>7 DEF Unplanned
  <2>5. /\ StartOf(on, t, i) \in Nat /\ StartOf(on, t, j) \in Nat
        /\ StartOf(on, t, i) <= StartOf(on, t, j)
    BY <1>3, <1>5, <2>1, <2>4, StartsAre
  <2>6. /\ Start(plan[i]) = StartOf(on, t, i) /\ Start(plan[j]) = StartOf(on, t, j)
        /\ plan[i].started <=> StartOf(on, t, i) <= t
        /\ plan[j].started <=> StartOf(on, t, j) <= t
    BY <1>4, <2>1, <2>4
  <2> QED BY <1>5, <2>5, <2>6
<1> QED BY <1>4, <1>5 DEF InOrder, plan

(* A row is known by its three fields.                                     *)
LEMMA SameRow ==
  ASSUME NEW a \in Row, NEW b \in Row, a.ship = b.ship, a.fin = b.fin,
         a.started <=> b.started
  PROVE  a = b
<1>1. a.started \in BOOLEAN /\ b.started \in BOOLEAN
  BY DEF Row
<1>2. a.started = b.started
  BY <1>1, Zenon
<1> QED BY <1>2 DEF Row

(* Builds that tick count.                                                 *)
LEMMA TickingCounts ==
  ASSUME NEW rows, Rows(rows), NEW t \in Nat,
         Cardinality(CountingOf(rows, t)) <= Slots
  PROVE  Cardinality(Ticking(rows, t)) <= Slots
<1>1. Ticking(rows, t) \in SUBSET CountingOf(rows, t)
  <2>1. ASSUME NEW i \in Ticking(rows, t) PROVE i \in CountingOf(rows, t)
    <3>1. i \in DOMAIN rows /\ rows[i].started /\ rows[i].fin > t
      BY DEF Ticking, Ticks
    <3>2. t < rows[i].fin
      BY <3>1, RowIs
    <3> QED BY <3>1, <3>2 DEF CountingOf
  <2> QED BY <2>1
<1>2. IsFiniteSet(CountingOf(rows, t)) /\ Cardinality(CountingOf(rows, t)) \in Nat
  BY SomeIds, IdsAre
<1>3. /\ IsFiniteSet(Ticking(rows, t))
      /\ Cardinality(Ticking(rows, t)) <= Cardinality(CountingOf(rows, t))
  BY <1>1, <1>2, FS_Subset
<1>4. Cardinality(Ticking(rows, t)) \in Nat
  BY <1>3, FS_CardinalityType
<1> QED BY <1>2, <1>3, <1>4, ConstantsAre

(* What a plan is like.                                                    *)
Planning(rows, t) ==
  /\ \A i \in DOMAIN rows : rows[i].fin # Unplanned
  /\ \A k \in Nat : k >= t => Cardinality(CountingOf(rows, k)) <= Slots
  /\ \A i \in DOMAIN rows : ~rows[i].started =>
       \A k \in Nat : k >= t /\ k < Start(rows[i]) =>
         Cardinality(CountingOf(rows, k)) = Slots
  /\ InOrder(rows, t)

(* The loop finds the start of a planned build again, if it has found      *)
(* those before it: before the start all slots are taken, at the start     *)
(* one is free.                                                            *)
LEMMA StartsAgain ==
  ASSUME NEW rows, Rows(rows), NEW t \in Nat, Planning(rows, t),
         NEW i, Waits(Promote(rows, t), i),
         \A j : Waits(Promote(rows, t), j) /\ j < i =>
           StartOf(Promote(rows, t), t, j) = Start(rows[j])
  PROVE  StartOf(Promote(rows, t), t, i) = Start(rows[i])
<1> DEFINE on == Promote(rows, t)
           f == SlotsAfter(on, t)[i - 1]
           m == StartOf(on, t, i)
           s == Start(rows[i])
           Taking(k) == TakingTo(on, t, i - 1, k)
<1>1. /\ Rows(on) /\ DOMAIN on = DOMAIN rows
      /\ \A j \in DOMAIN rows :
           /\ on[j].ship = rows[j].ship /\ on[j].fin = rows[j].fin
           /\ on[j].started <=> rows[j].started \/ Comes(rows[j], t)
  BY PromoteIs
<1> HIDE DEF on
<1>2. i \in DOMAIN rows /\ ~rows[i].started /\ ~Comes(rows[i], t)
  BY <1>1 DEF Waits, on
<1>3. \A j \in DOMAIN rows :
        /\ j \in Nat \ {0} /\ j <= MaxBuilds /\ rows[j].fin \in Nat
        /\ Dur(rows[j]) \in Nat \ {0} /\ Dur(on[j]) = Dur(rows[j])
        /\ Start(rows[j]) = rows[j].fin - Dur(rows[j])
  BY <1>1, RowIs, DurOf DEF Start
<1>4. s \in Nat /\ s > t /\ s < rows[i].fin
  <2>1. ~(rows[i].fin <= t + Dur(rows[i]))
    BY <1>2 DEF Planning, Comes
  <2> QED BY <1>2, <1>3, <2>1
<1>5. m \in Nat /\ m >= t /\ m = Earliest(f) /\ i - 1 \in 0..MaxBuilds
  <2>1. m \in Nat /\ m >= t
    BY <1>1, StartsAre DEF on
  <2>2. m = Earliest(f)
    BY DEF StartOf
  <2>3. i - 1 \in 0..MaxBuilds
    BY <1>2, <1>3, ConstantsAre
  <2> QED BY <2>1, <2>2, <2>3
<1>6. Slotting(f)
  BY <1>1, <1>5, AlwaysInStep DEF InStep
<1>7. /\ SlotFor(f) \in DOMAIN f /\ f[SlotFor(f)] = m
      /\ \A h \in DOMAIN f : m <= f[h] /\ f[h] \in Nat
  <2> HIDE DEF f, m
  <2>1. SlotFor(f) \in DOMAIN f /\ \A h \in DOMAIN f : Earliest(f) <= f[h]
    BY <1>6, FirstSlot
  <2>2. f[SlotFor(f)] = m
    BY <1>5 DEF Earliest
  <2>3. \A h \in DOMAIN f : f[h] \in Nat
    BY <1>6 DEF Slotting
  <2> QED BY <1>5, <2>1, <2>2, <2>3
<1>8. Cardinality(Ticking(on, t)) <= Slots
  <2>1. Cardinality(CountingOf(rows, t)) <= Slots
    BY DEF Planning
  <2>2. Cardinality(Ticking(rows, t)) <= Slots
    BY <2>1, TickingCounts
  <2>3. on = Promoted(rows, t)
    BY <2>2, PromotedIs DEF on
  <2>4. Fits(rows, t)
    BY <2>1 DEF Fits
  <2> QED BY <2>3, <2>4, PromotedIs
<1>9. ASSUME NEW k \in Nat, k >= t
      PROVE  /\ IsFiniteSet(Taking(k)) /\ Cardinality(Taking(k)) \in Nat
             /\ k < m => Cardinality(Taking(k)) = Slots
             /\ m <= k => Cardinality(Taking(k)) < Slots
             /\ IsFiniteSet(CountingOf(rows, k))
             /\ Cardinality(CountingOf(rows, k)) \in Nat
  <2>1. k < m => \A h \in DOMAIN f : f[h] > k
    BY <1>5, <1>7, <1>9
  <2>2. m <= k => \E h \in DOMAIN f : ~(f[h] > k)
    BY <1>5, <1>7, <1>9
  <2>3. /\ IsFiniteSet(Taking(k)) /\ Cardinality(Taking(k)) \in Nat
        /\ (\A h \in DOMAIN f : f[h] > k) => Cardinality(Taking(k)) = Slots
        /\ (\E h \in DOMAIN f : ~(f[h] > k)) => Cardinality(Taking(k)) < Slots
    BY <1>1, <1>5, <1>8, <1>9, TakingIsBounded
  <2>4. IsFiniteSet(CountingOf(rows, k)) /\ Cardinality(CountingOf(rows, k)) \in Nat
    BY SomeIds, IdsAre
  <2> QED BY <2>1, <2>2, <2>3, <2>4
<1>10. ASSUME NEW j, NEW k, Waits(on, j), j < i
       PROVE  Takes(on, t, j, k) <=> Start(rows[j]) <= k /\ k < rows[j].fin
  <2>1. StartOf(on, t, j) = Start(rows[j])
    BY <1>10 DEF on
  <2>2. j \in DOMAIN rows
    BY <1>1, <1>10 DEF Waits
  <2>3. Start(rows[j]) + Dur(on[j]) = rows[j].fin
    BY <1>3, <2>2
  <2> QED BY <1>10, <2>1, <2>3 DEF Takes
<1>11. ~(m < s)
  <2> SUFFICES ASSUME m < s PROVE FALSE
    OBVIOUS
  <2>1. Cardinality(CountingOf(rows, m)) = Slots
    BY <1>2, <1>5 DEF Planning
  <2>2. CountingOf(rows, m) \subseteq Taking(m)
    <3>1. ASSUME NEW j \in CountingOf(rows, m) PROVE j \in Taking(m)
      <4>1. /\ j \in DOMAIN rows /\ m < rows[j].fin
            /\ rows[j].started \/ Start(rows[j]) <= m
        BY DEF CountingOf
      <4>2. t < rows[j].fin /\ rows[j].fin > m
        BY <1>3, <1>5, <4>1
      <4>3. CASE on[j].started
        <5>1. on[j].fin > t /\ on[j].fin > m
          BY <1>1, <1>3, <1>5, <4>1, <4>2
        <5> QED BY <1>1, <4>1, <4>3, <5>1 DEF TakingTo, Ticks
      <4>4. CASE ~on[j].started
        <5>1. Waits(on, j) /\ ~rows[j].started
          BY <1>1, <4>1, <4>4 DEF Waits
        <5>2. Start(rows[j]) <= m
          BY <4>1, <5>1
        <5>3. ~(Start(rows[j]) >= s)
          BY <1>3, <1>4, <1>5, <4>1, <5>2
        <5>4. ~(i < j)
          <6>1. rows[j].fin > t
            BY <1>3, <4>1, <4>2
          <6> QED BY <1>2, <4>1, <5>3, <6>1 DEF Planning, InOrder
        <5>5. j # i
          BY <1>4, <5>3
        <5>6. j < i /\ j <= i - 1
          BY <1>2, <1>3, <4>1, <5>4, <5>5
        <5>7. Takes(on, t, j, m)
          BY <1>10, <4>1, <5>1, <5>2, <5>6
        <5> QED BY <1>1, <4>1, <5>6, <5>7 DEF TakingTo
      <4> QED BY <4>3, <4>4
    <3> QED BY <3>1
  <2>3. /\ IsFiniteSet(Taking(m)) /\ Cardinality(Taking(m)) \in Nat
        /\ Cardinality(Taking(m)) < Slots
    BY <1>5, <1>9
  <2> HIDE DEF Taking, m
  <2>4. Cardinality(CountingOf(rows, m)) <= Cardinality(Taking(m))
    BY <2>2, <2>3, FS_Subset
  <2> QED BY <2>1, <2>3, <2>4, ConstantsAre
<1>12. ~(s < m)
  <2> SUFFICES ASSUME s < m PROVE FALSE
    OBVIOUS
  <2>1. /\ s >= t /\ Cardinality(Taking(s)) = Slots /\ IsFiniteSet(Taking(s))
        /\ IsFiniteSet(CountingOf(rows, s)) /\ Cardinality(CountingOf(rows, s)) \in Nat
    BY <1>4, <1>9
  <2>2. Cardinality(CountingOf(rows, s)) <= Slots
    BY <1>4, <2>1 DEF Planning
  <2>3. i \notin Taking(s)
    <3>1. ~(i <= i - 1)
      BY <1>2, <1>3
    <3>2. ~Ticks(on[i], t)
      BY DEF Waits, Ticks, on
    <3> QED BY <3>1, <3>2 DEF TakingTo
  <2>4. Taking(s) \cup {i} \subseteq CountingOf(rows, s)
    <3>1. i \in CountingOf(rows, s)
      BY <1>2, <1>3, <1>4 DEF CountingOf
    <3>2. ASSUME NEW j \in Taking(s) PROVE j \in CountingOf(rows, s)
      <4>1. j \in DOMAIN rows
        BY <1>1 DEF TakingTo
      <4>2. CASE Ticks(on[j], t) /\ on[j].fin > s
        <5>1. rows[j].started \/ Comes(rows[j], t)
          BY <1>1, <4>1, <4>2 DEF Ticks
        <5>2. rows[j].started \/ Start(rows[j]) <= s
          BY <1>3, <1>4, <4>1, <5>1 DEF Comes
        <5>3. s < rows[j].fin
          BY <1>1, <1>3, <1>4, <4>1, <4>2
        <5> QED BY <4>1, <5>2, <5>3 DEF CountingOf
      <4>3. CASE j <= i - 1 /\ Takes(on, t, j, s)
        <5>1. Waits(on, j) /\ j < i
          BY <1>2, <1>3, <4>1, <4>3 DEF Takes
        <5>2. Start(rows[j]) <= s /\ s < rows[j].fin
          BY <1>10, <4>3, <5>1
        <5> QED BY <4>1, <5>2 DEF CountingOf
      <4> QED BY <4>2, <4>3 DEF TakingTo
    <3> QED BY <3>1, <3>2
  <2> HIDE DEF Taking, s
  <2>5. Cardinality(Taking(s) \cup {i}) = Cardinality(Taking(s)) + 1
    BY <2>1, <2>3, FS_AddElement
  <2>6. Cardinality(Taking(s) \cup {i}) <= Cardinality(CountingOf(rows, s))
    BY <2>1, <2>4, FS_Subset
  <2> QED BY <2>1, <2>2, <2>5, <2>6, ConstantsAre
<1>13. m = s
  BY <1>4, <1>5, <1>11, <1>12
<1> QED BY <1>13 DEF on

(* To settle a plan again only starts what is due.                         *)
LEMMA Replan ==
  ASSUME NEW rows, Rows(rows), NEW t \in Nat, Planning(rows, t)
  PROVE  Settle(rows, t) = Promote(rows, t)
<1> DEFINE on == Promote(rows, t)
           plan == Settle(rows, t)
           Bad == {i \in DOMAIN rows : Waits(on, i) /\ StartOf(on, t, i) # Start(rows[i])}
<1>1. /\ Rows(on) /\ DOMAIN on = DOMAIN rows
      /\ \A j \in DOMAIN rows :
           /\ on[j].ship = rows[j].ship /\ on[j].fin = rows[j].fin
           /\ on[j].started <=> rows[j].started \/ Comes(rows[j], t)
  BY PromoteIs
<1>2. ASSUME NEW i, Waits(on, i) PROVE StartOf(on, t, i) = Start(rows[i])
  <2> SUFFICES ASSUME Bad # {} PROVE FALSE
    BY <1>1, <1>2 DEF Waits
  <2>1. Bad \in SUBSET Nat
    BY RowIs
  <2>2. Min(Bad) \in Bad /\ \A j \in Bad : Min(Bad) <= j
    <3> HIDE DEF Bad
    <3> QED BY <2>1, Least
  <2>3. PICK b \in Bad : \A j \in Bad : b <= j
    BY <2>2
  <2>4. Waits(on, b) /\ StartOf(on, t, b) # Start(rows[b]) /\ b \in Nat
    BY <2>1, <2>3
  <2>5. ASSUME NEW j, Waits(on, j), j < b PROVE StartOf(on, t, j) = Start(rows[j])
    <3>1. j \in DOMAIN rows
      BY <1>1, <2>5 DEF Waits
    <3>2. ~(b <= j)
      BY <2>4, <2>5, <3>1, RowIs
    <3> QED BY <2>3, <2>5, <3>1, <3>2
  <2> HIDE DEF Bad
  <2> QED BY <2>4, <2>5, StartsAgain
<1>3. plan = Schedule(on, t)
  <2>1. Cardinality(CountingOf(rows, t)) <= Slots
    BY DEF Planning
  <2>2. Cardinality(Ticking(rows, t)) <= Slots
    BY <2>1, TickingCounts
  <2>3. on = Promoted(rows, t)
    BY <2>2, PromotedIs
  <2> QED BY <2>3 DEF Settle, Promoted
<1> HIDE DEF on, plan
<1>4. /\ Rows(plan) /\ DOMAIN plan = DOMAIN rows
      /\ \A i \in DOMAIN rows :
           /\ plan[i].ship = on[i].ship
           /\ ~Waits(on, i) => plan[i] = on[i]
           /\ Waits(on, i) =>
                /\ plan[i].fin = StartOf(on, t, i) + Dur(on[i])
                /\ plan[i].started <=> StartOf(on, t, i) <= t
  BY <1>1, <1>3, ScheduleIs
<1>5. ASSUME NEW i \in DOMAIN rows PROVE plan[i] = on[i]
  <2>1. CASE ~Waits(on, i)
    BY <1>4, <2>1
  <2>2. CASE Waits(on, i)
    <3>1. /\ rows[i].fin \in Nat /\ Dur(rows[i]) \in Nat /\ Dur(on[i]) = Dur(rows[i])
          /\ plan[i] \in Row /\ on[i] \in Row
      BY <1>1, <1>4, RowIs, DurOf
    <3>2. StartOf(on, t, i) = rows[i].fin - Dur(rows[i])
      BY <1>2, <2>2 DEF Start
    <3>3. plan[i].fin = on[i].fin
      BY <1>1, <1>4, <2>2, <3>1, <3>2
    <3>4. ~on[i].started /\ ~Comes(rows[i], t)
      BY <1>1, <2>2 DEF Waits
    <3>5. ~(StartOf(on, t, i) <= t)
      <4>1. ~(rows[i].fin <= t + Dur(rows[i]))
        BY <3>4 DEF Planning, Comes
      <4> QED BY <3>1, <3>2, <4>1
    <3>6. ~plan[i].started
      BY <1>4, <2>2, <3>5
    <3> QED BY <1>4, <3>1, <3>3, <3>4, <3>6, SameRow
  <2> QED BY <2>1, <2>2
<1>6. plan = on
  <2>1. plan = [i \in DOMAIN plan |-> plan[i]] /\ on = [i \in DOMAIN on |-> on[i]]
    BY <1>1, <1>4 DEF Rows
  <2> QED BY <1>1, <1>4, <1>5, <2>1
<1> QED BY <1>6 DEF plan, on

(* So it makes no difference whether a plan has been settled before.       *)
LEMMA SettlesTwice ==
  ASSUME NEW rows, Rows(rows), NEW t \in Nat, Planning(rows, t),
         NEW later \in Nat, later >= t
  PROVE  Settle(Settle(rows, t), later) = Settle(rows, later)
<1> DEFINE early == Promote(rows, t)
<1>1. Settle(rows, t) = early
  BY Replan
<1>2. /\ Rows(early) /\ DOMAIN early = DOMAIN rows
      /\ \A j \in DOMAIN rows :
           /\ early[j].ship = rows[j].ship /\ early[j].fin = rows[j].fin
           /\ early[j].started <=> rows[j].started \/ Comes(rows[j], t)
  BY PromoteIs
<1> HIDE DEF early
<1>3. \A j \in DOMAIN rows :
        /\ rows[j].fin \in Nat /\ Dur(rows[j]) \in Nat
        /\ Dur(early[j]) = Dur(rows[j])
  BY <1>2, RowIs, DurOf
<1>4. \A j \in DOMAIN rows :
        /\ Comes(rows[j], t) => Comes(rows[j], later)
        /\ Comes(early[j], later) <=> Comes(rows[j], later)
        /\ Comes(rows[j], t) => Start(rows[j]) <= later
        /\ Start(early[j]) = Start(rows[j])
  BY <1>2, <1>3 DEF Comes, Start
<1>5. Cardinality(CountingOf(rows, later)) <= Slots
  BY DEF Planning
<1>6. CountingOf(early, later) \in SUBSET CountingOf(rows, later)
  <2>1. ASSUME NEW j \in CountingOf(early, later) PROVE j \in CountingOf(rows, later)
    <3>1. /\ j \in DOMAIN rows /\ later < early[j].fin
          /\ early[j].started \/ Start(early[j]) <= later
      BY <1>2 DEF CountingOf
    <3> QED BY <1>2, <1>4, <3>1 DEF CountingOf
  <2> QED BY <2>1
<1>7. Cardinality(CountingOf(early, later)) <= Slots
  <2>1. IsFiniteSet(CountingOf(rows, later)) /\ Cardinality(CountingOf(rows, later)) \in Nat
    BY SomeIds, IdsAre
  <2>2. /\ IsFiniteSet(CountingOf(early, later))
        /\ Cardinality(CountingOf(early, later)) <= Cardinality(CountingOf(rows, later))
    BY <1>6, <2>1, FS_Subset
  <2>3. Cardinality(CountingOf(early, later)) \in Nat
    BY <2>2, FS_CardinalityType
  <2> QED BY <1>5, <2>1, <2>2, <2>3, ConstantsAre
<1>8. /\ Promoted(rows, later) = Promote(rows, later)
      /\ Promoted(early, later) = Promote(early, later)
  BY <1>2, <1>5, <1>7, TickingCounts, PromotedIs
<1>9. Promote(early, later) = Promote(rows, later)
  <2> DEFINE a == Promote(early, later)
             b == Promote(rows, later)
  <2>1. /\ Rows(a) /\ DOMAIN a = DOMAIN rows
        /\ \A i \in DOMAIN rows :
              /\ a[i].ship = early[i].ship /\ a[i].fin = early[i].fin
              /\ a[i].started <=> early[i].started \/ Comes(early[i], later)
    BY <1>2, PromoteIs
  <2>2. /\ Rows(b) /\ DOMAIN b = DOMAIN rows
        /\ \A i \in DOMAIN rows :
              /\ b[i].ship = rows[i].ship /\ b[i].fin = rows[i].fin
              /\ b[i].started <=> rows[i].started \/ Comes(rows[i], later)
    BY PromoteIs
  <2> HIDE DEF a, b
  <2>3. ASSUME NEW i \in DOMAIN rows PROVE a[i] = b[i]
    <3>1. a[i].ship = b[i].ship /\ a[i].fin = b[i].fin
      BY <1>2, <2>1, <2>2
    <3>2. a[i].started <=> b[i].started
      BY <1>2, <1>4, <2>1, <2>2
    <3>3. a[i] \in Row /\ b[i] \in Row
      BY <2>1, <2>2, RowIs
    <3> QED BY <3>1, <3>2, <3>3, SameRow
  <2>4. a = [i \in DOMAIN a |-> a[i]] /\ b = [i \in DOMAIN b |-> b[i]]
    BY <2>1, <2>2 DEF Rows
  <2> QED BY <2>1, <2>2, <2>3, <2>4 DEF a, b
<1>10. Settle(early, later) = Settle(rows, later)
  BY <1>8, <1>9 DEF Settle, Promoted
<1> QED BY <1>1, <1>10

-----------------------------------------------------------------------------
(* The quick finish works on a build.                                      *)
Pending(h) == hurry[h].at \in {"update", "pay"}

(* Then it has one, of those that were placed, and its clock has been      *)
(* read.                                                                   *)
PendingIsSane(h) ==
  /\ hurry[h].todo # {} /\ \A i \in hurry[h].todo : i < nextId
  /\ FirstHour <= hurry[h].clock /\ hurry[h].clock <= now
(* A call has loaded rows of ids given out, all with a finish; it can be   *)
(* paid, and its builds fit the bound.                                     *)
DeskIsSane ==
  /\ \A i \in DOMAIN desk.rows : i < nextId
  /\ \A i \in DOMAIN desk.rows : desk.rows[i].fin # Unplanned
  /\ FirstHour <= desk.clock /\ desk.clock <= now
  /\ Len(desk.new) <= gold /\ Placed <= MaxBuilds
(* Rows have a finish and an id that was given out, and so on.             *)
Sane ==
  /\ FirstHour <= now
  /\ \A i \in DOMAIN builds : i < nextId /\ builds[i].fin # Unplanned
  /\ \A i \in paid : i < nextId
  /\ \A h \in Hurries : Pending(h) => PendingIsSane(h)
  /\ desk # Free => DeskIsSane

(* What a quick finish may be at.                                          *)
Tasks == [at : {"idle", "list", "update", "pay"}, first : Nat, last : Nat,
         todo : SUBSET Id, clock : Nat]

(* An idle quick finish is one.                                            *)
LEMMA IdleIs == Idle \in Tasks /\ Idle.at = "idle"
BY DEF Idle, Task, Tasks

(* A step of one quick finish leaves the others alone.                     *)
LEMMA TasksAre ==
  ASSUME NEW h \in Hurries, hurry \in [Hurries -> Tasks], NEW task \in Tasks,
         hurry' = [hurry EXCEPT ![h] = task]
  PROVE  /\ hurry' \in [Hurries -> Tasks] /\ hurry'[h] = task
         /\ \A g \in Hurries : g # h => hurry'[g] = hurry[g]
OBVIOUS

(* What a call that is under way has.                                      *)
LEMMA DeskIs ==
  ASSUME TypeOK, desk # Free
  PROVE  /\ desk.who \in {"list", "order", "wish"} \cup Hurries
         /\ Rows(desk.rows) /\ desk.clock \in Nat /\ desk.new \in Seq(Ship)
<1>1. /\ desk \in [who : {"list", "order", "wish"} \cup Hurries,
                   rows : {desk.rows}, clock : Nat, new : Seq(Ship)]
      /\ Rows(desk.rows)
  BY DEF TypeOK
<1> QED BY <1>1

(* What a call loads: the rows there are; a clock of the past is           *)
(* remembered.                                                             *)
LEMMA LoadIs ==
  ASSUME NEW who \in {"list", "order", "wish"} \cup Hurries, NEW clock \in Nat,
         NEW new \in Seq(Ship), Rows(builds), Load(who, clock, new)
  PROVE  /\ desk'.who = who /\ desk'.rows = builds /\ desk'.clock = clock
         /\ desk'.new = new
         /\ desk' \in [who : {"list", "order", "wish"} \cup Hurries,
                       rows : {desk'.rows}, clock : Nat, new : Seq(Ship)]
         /\ Rows(desk'.rows)
         /\ unusual \subseteq unusual' /\ unusual' \subseteq unusual \cup {"late"}
         /\ clock < now => "late" \in unusual'
<1>1. desk' = [who |-> who, rows |-> builds, clock |-> clock, new |-> new]
  BY DEF Load
<1>2. unusual' = IF clock < now THEN unusual \cup {"late"} ELSE unusual
  BY DEF Load, Noting
<1>3. unusual \subseteq unusual' /\ unusual' \subseteq unusual \cup {"late"}
      /\ (clock < now => "late" \in unusual')
  BY <1>2
<1> QED BY <1>1, <1>3

(* No call, no new builds.                                                 *)
LEMMA FreeIs == Free.new = <<>> /\ Len(<<>>) = 0 /\ <<>> \in Seq(Ship)
BY DEF Free

(* A quick finish that goes on takes the next build, or settles the rows   *)
(* as they are with its clock.                                             *)
LEMMA GoesOnIs ==
  ASSUME TypeOK, NEW h \in Hurries, NEW todo, todo \subseteq Id, NEW clock \in Nat,
         GoesOn(h, todo, clock)
  PROVE  /\ hurry' \in [Hurries -> Tasks]
         /\ \A g \in Hurries : g # h => hurry'[g] = hurry[g]
         /\ \/ /\ hurry'[h] = Idle /\ Load(h, clock, <<>>)
               /\ desk'.who = h /\ desk'.rows = builds /\ desk'.clock = clock
               /\ desk'.new = <<>>
               /\ desk' \in [who : {"list", "order", "wish"} \cup Hurries,
                       rows : {desk'.rows}, clock : Nat, new : Seq(Ship)]
               /\ Rows(desk'.rows)
               /\ unusual \subseteq unusual' /\ unusual' \subseteq unusual \cup {"late"}
               /\ clock < now => "late" \in unusual'
            \/ /\ hurry'[h].at = "update" /\ hurry'[h].todo = todo
               /\ hurry'[h].clock = clock
               /\ todo # {} /\ drills' # 0
               /\ desk' = desk /\ unusual' = unusual
<1>1. hurry \in [Hurries -> Tasks] /\ Rows(builds)
  BY DEF TypeOK, Tasks
<1>2. CASE todo = {} \/ drills' = 0
  <2>1. hurry' = [hurry EXCEPT ![h] = Idle] /\ Load(h, clock, <<>>)
    BY <1>2 DEF GoesOn
  <2>2. /\ desk'.who = h /\ desk'.rows = builds /\ desk'.clock = clock
        /\ desk'.new = <<>>
        /\ desk' \in [who : {"list", "order", "wish"} \cup Hurries,
                       rows : {desk'.rows}, clock : Nat, new : Seq(Ship)]
        /\ Rows(desk'.rows)
        /\ unusual \subseteq unusual' /\ unusual' \subseteq unusual \cup {"late"}
        /\ clock < now => "late" \in unusual'
    <3>1. h \in {"list", "order", "wish"} \cup Hurries /\ <<>> \in Seq(Ship)
      BY FreeIs
    <3> QED BY <1>1, <2>1, <3>1, LoadIs, Zenon
  <2>3. /\ hurry' \in [Hurries -> Tasks] /\ hurry'[h] = Idle
        /\ \A g \in Hurries : g # h => hurry'[g] = hurry[g]
    BY <1>1, <2>1, TasksAre, IdleIs
  <2> QED BY <2>1, <2>2, <2>3
<1>3. CASE ~(todo = {} \/ drills' = 0)
  <2> DEFINE task == Task("update", 0, 0, todo, clock)
  <2>1. hurry' = [hurry EXCEPT ![h] = task] /\ UNCHANGED <<desk, unusual>>
    BY <1>3 DEF GoesOn
  <2>3. task \in Tasks /\ task.at = "update" /\ task.todo = todo /\ task.clock = clock
    BY DEF Task, Tasks
  <2> HIDE DEF task
  <2>4. /\ hurry' \in [Hurries -> Tasks] /\ hurry'[h] = task
        /\ \A g \in Hurries : g # h => hurry'[g] = hurry[g]
    BY <1>1, <2>1, <2>3, TasksAre
  <2> QED BY <1>3, <2>1, <2>3, <2>4
<1> QED BY <1>2, <1>3

(* What the start of a quick finish changes; a second one is remembered.   *)
LEMMA StartsIs ==
  ASSUME TypeOK, NEW h \in Hurries, HurryStarts(h)
  PROVE  /\ hurry' \in [Hurries -> Tasks] /\ hurry'[h].at = "list"
         /\ \A g \in Hurries : g # h => hurry'[g] = hurry[g]
         /\ unusual \subseteq unusual' /\ unusual' \subseteq unusual \cup {"overlap"}
         /\ (\E g \in Hurries : hurry[g].at # "idle") => "overlap" \in unusual'
<1>1. hurry \in [Hurries -> Tasks] /\ Rows(builds)
  BY DEF TypeOK, Tasks
<1>2. Cardinality(DOMAIN builds) \in Nat
  BY <1>1, SomeIds, IdsAre
<1>3. PICK first \in 1..Cardinality(DOMAIN builds), last \in 1..Cardinality(DOMAIN builds) :
        hurry' = [hurry EXCEPT ![h] =
            Task("list", first, IF last = first THEN last + 1 ELSE last,
                 {}, 0)]
  BY DEF HurryStarts
<1> DEFINE end == IF last = first THEN last + 1 ELSE last
           task == Task("list", first, end, {}, 0)
<1>4. first \in Nat /\ end \in Nat
  BY <1>2
<1> HIDE DEF end
<1>6. task \in Tasks /\ task.at = "list"
  BY <1>4 DEF Task, Tasks
<1>7. hurry' = [hurry EXCEPT ![h] = task]
  BY <1>3 DEF end
<1> HIDE DEF task
<1>8. /\ hurry' \in [Hurries -> Tasks] /\ hurry'[h].at = "list"
      /\ \A g \in Hurries : g # h => hurry'[g] = hurry[g]
  BY <1>1, <1>6, <1>7, TasksAre
<1>9. unusual' = Noting("overlap", \E g \in Hurries : hurry[g].at # "idle")
  BY DEF HurryStarts
<1>10. /\ unusual \subseteq unusual' /\ unusual' \subseteq unusual \cup {"overlap"}
       /\ (\E g \in Hurries : hurry[g].at # "idle") => "overlap" \in unusual'
  BY <1>9, Zenon DEF Noting
<1> QED BY <1>8, <1>10

(* The next build is one of those it has to do.                            *)
LEMMA TurnIs ==
  ASSUME TypeOK, NEW h \in Hurries, hurry[h].todo # {}
  PROVE  Turn(h) \in hurry[h].todo /\ Turn(h) \in Id
<1>1. hurry[h].todo \subseteq Id
  BY DEF TypeOK
<1>2. hurry[h].todo \in SUBSET Nat
  BY <1>1, IdsAre
<1>3. Turn(h) \in hurry[h].todo
  BY <1>2, Least DEF Turn
<1> QED BY <1>1, <1>3

(* What the awaited update changes: one row, which is finished then.       *)
LEMMA UpdatesIs ==
  ASSUME TypeOK, Sane, NEW h \in Hurries, HurryUpdates(h)
  PROVE  /\ hurry' \in [Hurries -> Tasks] /\ hurry'[h].at = "pay"
         /\ hurry'[h].todo = hurry[h].todo /\ hurry'[h].clock = hurry[h].clock
         /\ \A g \in Hurries : g # h => hurry'[g] = hurry[g]
         /\ Turn(h) \in Id /\ Turn(h) < nextId
         /\ Rows(builds') /\ DOMAIN builds' = DOMAIN builds
         /\ \A i \in DOMAIN builds :
              /\ i # Turn(h) => builds'[i] = builds[i]
              /\ i = Turn(h) =>
                   /\ builds'[i].fin = hurry[h].clock - 1
                   /\ builds'[i].ship = builds[i].ship
                   /\ builds'[i].started = builds[i].started
         /\ hurry[h].clock - 1 \in Nat \ {0} /\ hurry[h].clock \in Nat
         /\ hurry[h].clock - 1 < now /\ hurry[h].clock <= now
         /\ due' = [due EXCEPT ![Turn(h)] = 0]
         /\ unusual \subseteq unusual' /\ unusual' \subseteq unusual \cup {"crossed"}
         /\ desk # Free => "crossed" \in unusual'
<1>1. hurry \in [Hurries -> Tasks] /\ Rows(builds) /\ now \in Nat
  BY DEF TypeOK, Tasks
<1>2. hurry[h].at = "update" /\ hurry' = [hurry EXCEPT ![h].at = "pay"]
  BY DEF HurryUpdates
<1>3. PendingIsSane(h)
  BY <1>2 DEF Sane, Pending
<1>4. Turn(h) \in hurry[h].todo /\ Turn(h) \in Id /\ Turn(h) < nextId
  BY <1>3, TurnIs DEF PendingIsSane
<1>5. /\ hurry[h].clock - 1 \in Nat \ {0} /\ hurry[h].clock - 1 < now
      /\ hurry[h].clock <= now /\ hurry[h].clock \in Nat
  BY <1>1, <1>3 DEF PendingIsSane, FirstHour, Tasks
<1>6. /\ hurry' \in [Hurries -> Tasks] /\ hurry'[h].at = "pay"
      /\ hurry'[h].todo = hurry[h].todo /\ hurry'[h].clock = hurry[h].clock
      /\ \A g \in Hurries : g # h => hurry'[g] = hurry[g]
  BY <1>1, <1>2 DEF Task, Tasks
<1> DEFINE turn == Turn(h)
           c == hurry[h].clock - 1
<1>7. builds' = [i \in DOMAIN builds |->
       IF i = turn THEN [builds[i] EXCEPT !.fin = c]
       ELSE builds[i]]
  BY DEF HurryUpdates
<1> HIDE DEF turn, c
<1>8. DOMAIN builds' = DOMAIN builds
  BY <1>7
<1>9. ASSUME NEW i \in DOMAIN builds
      PROVE  /\ builds'[i] \in Row
             /\ i # turn => builds'[i] = builds[i]
             /\ i = turn => /\ builds'[i].fin = c
                            /\ builds'[i].ship = builds[i].ship
                            /\ builds'[i].started = builds[i].started
  <2>1. builds[i] \in Row /\ c \in Nat
    BY <1>1, <1>5, RowIs DEF c
  <2>2. CASE i # turn
    BY <1>7, <2>1, <2>2
  <2>3. CASE i = turn
    <3>1. builds'[i] = [builds[i] EXCEPT !.fin = c]
      BY <1>7, <2>3
    <3> QED BY <2>1, <2>3, <3>1 DEF Row
  <2> QED BY <2>2, <2>3
<1>10. Rows(builds')
  <2>1. builds' = [i \in DOMAIN builds' |-> builds'[i]]
    BY <1>7
  <2> QED BY <1>1, <1>8, <1>9, <2>1 DEF Rows
<1>11. due' = [due EXCEPT ![Turn(h)] = 0] /\ unusual' = Noting("crossed", ~LoopIsFree)
  BY DEF HurryUpdates
<1>12. /\ unusual \subseteq unusual' /\ unusual' \subseteq unusual \cup {"crossed"}
       /\ desk # Free => "crossed" \in unusual'
  BY <1>11, Zenon DEF Noting, LoopIsFree
<1> QED BY <1>4, <1>5, <1>6, <1>8, <1>9, <1>10, <1>11, <1>12 DEF turn, c

(* What the settling of a call is given.                                   *)
Loaded == [i \in DOMAIN desk.rows \cup Added |->
             IF i \in Added THEN NewRow(i) ELSE desk.rows[i]]

(* The builds that a call adds have new ids, behind all others, and no     *)
(* finish.                                                                 *)
LEMMA AddedAre ==
  ASSUME TypeOK, Sane, desk # Free
  PROVE  /\ Added \subseteq Id /\ Added \cap DOMAIN builds = {}
         /\ Added \cap DOMAIN desk.rows = {}
         /\ \A i \in Added : i \in Nat /\ i >= nextId /\ i < nextId + Len(desk.new)
         /\ \A i \in Added, j \in DOMAIN builds \cup DOMAIN desk.rows : j < i
         /\ \A i \in Added : NewRow(i) \in Row /\ NewRow(i).fin = Unplanned
                             /\ ~NewRow(i).started /\ NewRow(i).ship \in Ship
                             /\ Dur(NewRow(i)) \in Nat
         /\ Len(desk.new) \in Nat /\ nextId + Len(desk.new) <= MaxBuilds + 1
<1>1. /\ desk.new \in Seq(Ship) /\ nextId \in 1..(MaxBuilds + 1)
      /\ Rows(builds) /\ Rows(desk.rows)
  BY DeskIs DEF TypeOK
<1>2. Len(desk.new) \in Nat /\ nextId \in Nat /\ nextId >= 1
  BY <1>1, ConstantsAre
<1>3. nextId + Len(desk.new) <= MaxBuilds + 1
  <2>1. Placed <= MaxBuilds
    BY DEF Sane, DeskIsSane
  <2> QED BY <1>2, <2>1, ConstantsAre DEF Placed
<1>4. \A i \in Added : /\ i \in Nat /\ i >= nextId /\ i < nextId + Len(desk.new)
                       /\ i \in Id
  BY <1>2, <1>3, ConstantsAre DEF Added, Id
<1>5. \A j \in DOMAIN builds \cup DOMAIN desk.rows : j < nextId /\ j \in Nat
  BY <1>1, RowIs DEF Sane, DeskIsSane
<1>6. \A i \in Added, j \in DOMAIN builds \cup DOMAIN desk.rows : j < i /\ i # j
  BY <1>2, <1>4, <1>5
<1>7. ASSUME NEW i \in Added
      PROVE  /\ NewRow(i) \in Row /\ NewRow(i).fin = Unplanned
             /\ ~NewRow(i).started /\ NewRow(i).ship \in Ship
             /\ Dur(NewRow(i)) \in Nat
  <2>1. i + 1 - nextId \in 1..Len(desk.new)
    BY <1>2, <1>4
  <2>2. desk.new[i + 1 - nextId] \in Ship
    BY <1>1, <2>1
  <2> DEFINE ship == desk.new[i + 1 - nextId]
  <2>3. NewRow(i) = [ship |-> ship, fin |-> 0, started |-> FALSE]
    BY DEF NewRow, Queued, Unplanned
  <2> HIDE DEF ship
  <2>4. /\ NewRow(i) \in Row /\ NewRow(i).fin = 0 /\ NewRow(i).started = FALSE
        /\ NewRow(i).ship = ship
    BY <2>2, <2>3 DEF Row, ship
  <2>5. Duration[ship] \in 1..Longest
    BY <2>2, ConstantsAre DEF ship
  <2>6. Dur(NewRow(i)) \in Nat
    BY <2>4, <2>5, ConstantsAre DEF Dur
  <2> QED BY <2>2, <2>4, <2>6 DEF Unplanned, ship
<1> QED BY <1>2, <1>3, <1>4, <1>6, <1>7

(* The rows that a call settles; builds without a finish are at their      *)
(* end.                                                                    *)
LEMMA LoadedIs ==
  ASSUME TypeOK, Sane, desk # Free
  PROVE  /\ Rows(Loaded) /\ DOMAIN Loaded = DOMAIN desk.rows \cup Added
         /\ \A i \in Added : Loaded[i] = NewRow(i)
         /\ \A i \in DOMAIN desk.rows :
              /\ Loaded[i] = desk.rows[i]
              /\ desk.rows[i] \in Row /\ desk.rows[i].fin \in Nat \ {0}
         /\ \A i \in DOMAIN Loaded : Loaded[i].started => Loaded[i].fin # Unplanned
         /\ \A i, j \in DOMAIN Loaded :
              i < j /\ Loaded[i].fin = Unplanned => Loaded[j].fin = Unplanned
<1>1. DOMAIN Loaded = DOMAIN desk.rows \cup Added /\ Loaded = [i \in DOMAIN Loaded |-> Loaded[i]]
  BY DEF Loaded
<1>2. \A i \in Added : Loaded[i] = NewRow(i)
  BY DEF Loaded
<1>3. \A i \in DOMAIN desk.rows : Loaded[i] = desk.rows[i]
  BY AddedAre, Zenon DEF Loaded
<1>4. Rows(desk.rows)
  BY DeskIs
<1>5. \A i \in DOMAIN desk.rows : /\ desk.rows[i] \in Row /\ desk.rows[i].fin \in Nat \ {0}
                                  /\ desk.rows[i].fin # Unplanned
  BY <1>4, RowIs DEF Sane, DeskIsSane, Unplanned
<1>6. Rows(Loaded)
  <2>1. DOMAIN Loaded \subseteq Id
    BY <1>1, <1>4, AddedAre DEF Rows
  <2>2. \A i \in DOMAIN Loaded : Loaded[i] \in Row
    BY <1>1, <1>2, <1>3, <1>5, AddedAre
  <2> QED BY <1>1, <2>1, <2>2 DEF Rows
<1>7. \A i \in DOMAIN Loaded : Loaded[i].started => Loaded[i].fin # Unplanned
  BY <1>1, <1>2, <1>3, <1>5, AddedAre
<1>8. ASSUME NEW i \in DOMAIN Loaded, NEW j \in DOMAIN Loaded, i < j,
             Loaded[i].fin = Unplanned
      PROVE  Loaded[j].fin = Unplanned
  <2>1. i \in Added
    BY <1>1, <1>3, <1>5, <1>8
  <2>2. j \in Added
    <3>1. ASSUME j \in DOMAIN desk.rows PROVE FALSE
      <4>1. j < i
        BY <2>1, <3>1, AddedAre
      <4>2. i \in Nat /\ j \in Nat
        BY <1>6, RowIs
      <4> QED BY <1>8, <4>1, <4>2
    <3> QED BY <1>1, <3>1
  <2> QED BY <1>2, <2>2, AddedAre
<1> HIDE DEF Loaded
<1> QED BY <1>1, <1>2, <1>3, <1>5, <1>6, <1>7, <1>8

(* What the persist of a call changes: the new rows and those that the     *)
(* settling changed, and of those only what is still there.                *)
LEMMA PersistsIs ==
  ASSUME TypeOK, Sane, DeskPersists
  PROVE  /\ desk # Free /\ desk' = Free
         /\ Planned = Settle(Loaded, desk.clock) /\ Rows(Planned)
         /\ DOMAIN Planned = DOMAIN desk.rows \cup Added
         /\ \A i \in DOMAIN Planned : Planned[i].fin # Unplanned
         /\ Rows(builds') /\ DOMAIN builds' = DOMAIN builds \cup Added
         /\ \A i \in Added : builds'[i] = Planned[i]
         /\ \A i \in DOMAIN desk.rows \cap DOMAIN builds :
              /\ \/ builds'[i] = Planned[i]
                 \/ builds'[i] = builds[i] /\ Planned[i] = desk.rows[i]
              /\ builds[i] = desk.rows[i] => builds'[i] = Planned[i]
         /\ \A i \in DOMAIN builds : i \notin DOMAIN desk.rows => builds'[i] = builds[i]
         /\ unusual \subseteq unusual' /\ unusual' \subseteq unusual \cup {"fault"}
<1>1. desk # Free /\ desk' = Free /\ builds' = Persisted(Planned)
  BY DEF DeskPersists
<1>2. Planned = Settle(Loaded, desk.clock)
  BY DEF Planned, Loaded
<1>3. desk.clock \in Nat
  BY <1>1, DeskIs
<1>4. /\ Rows(Planned) /\ DOMAIN Planned = DOMAIN desk.rows \cup Added
      /\ \A i \in DOMAIN Planned : Planned[i].fin # Unplanned
  BY <1>1, <1>2, <1>3, LoadedIs, SettleIs
<1> DEFINE new == builds'
           written == Added \cup {i \in DOMAIN desk.rows : Planned[i] # desk.rows[i]}
<1>5. new = [i \in DOMAIN builds \cup Added |->
               IF i \in written THEN Planned[i] ELSE builds[i]]
  BY <1>1 DEF Persisted
<1>6. /\ Added \cap DOMAIN builds = {} /\ Added \subseteq Id
      /\ Added \cap DOMAIN desk.rows = {} /\ Rows(builds)
  BY <1>1, AddedAre DEF TypeOK
<1> HIDE DEF new
<1>7. DOMAIN new = DOMAIN builds \cup Added /\ new = [i \in DOMAIN new |-> new[i]]
  BY <1>5
<1>8. \A i \in Added : new[i] = Planned[i]
  BY <1>5
<1>9. ASSUME NEW i \in DOMAIN desk.rows \cap DOMAIN builds
      PROVE  /\ \/ new[i] = Planned[i]
                \/ new[i] = builds[i] /\ Planned[i] = desk.rows[i]
             /\ builds[i] = desk.rows[i] => new[i] = Planned[i]
  <2>1. i \notin Added /\ i \in DOMAIN builds
    BY <1>6
  <2>2. new[i] = IF i \in written THEN Planned[i] ELSE builds[i]
    BY <1>5, <2>1
  <2>3. new[i] = Planned[i] \/ (new[i] = builds[i] /\ Planned[i] = desk.rows[i])
    BY <2>1, <2>2
  <2>4. builds[i] = desk.rows[i] => new[i] = Planned[i]
    BY <2>1, <2>2
  <2> QED BY <2>3, <2>4
<1>10. ASSUME NEW i \in DOMAIN builds, i \notin DOMAIN desk.rows PROVE new[i] = builds[i]
  <2>1. i \notin written
    BY <1>6, <1>10
  <2> QED BY <1>5, <1>10, <2>1
<1> HIDE DEF written
<1>11. Rows(new)
  <2>1. \A i \in DOMAIN new : new[i] \in Row
    BY <1>4, <1>6, <1>7, <1>8, <1>9, <1>10 DEF Rows
  <2>2. DOMAIN new \subseteq Id
    BY <1>6, <1>7 DEF Rows
  <2> QED BY <1>7, <2>1, <2>2 DEF Rows
<1>12. unusual \subseteq unusual' /\ unusual' \subseteq unusual \cup {"fault"}
  <2>1. unusual' = unusual \/ unusual' = unusual \cup {"fault"}
    BY DEF DeskPersists, Fails
  <2> QED BY <2>1
<1>13. /\ Rows(builds') /\ DOMAIN builds' = DOMAIN builds \cup Added
       /\ \A i \in Added : builds'[i] = Planned[i]
       /\ \A i \in DOMAIN builds : i \notin DOMAIN desk.rows => builds'[i] = builds[i]
  BY <1>7, <1>8, <1>10, <1>11 DEF new
<1>14. \A i \in DOMAIN desk.rows \cap DOMAIN builds :
         /\ \/ builds'[i] = Planned[i]
            \/ builds'[i] = builds[i] /\ Planned[i] = desk.rows[i]
         /\ builds[i] = desk.rows[i] => builds'[i] = Planned[i]
  BY <1>9, Zenon DEF new
<1> QED BY <1>1, <1>2, <1>4, <1>12, <1>13, <1>14, Zenon

(* Rows without some ids.                                                  *)
LEMMA WithoutIs ==
  ASSUME NEW rows, NEW ids
  PROVE  /\ DOMAIN Without(rows, ids) = DOMAIN rows \ ids
         /\ \A i \in DOMAIN rows \ ids : Without(rows, ids)[i] = rows[i]
         /\ Rows(rows) => Rows(Without(rows, ids))
         /\ Brief(rows) => Brief(Without(rows, ids))
<1> DEFINE w == Without(rows, ids)
<1>1. w = [i \in DOMAIN rows \ ids |-> rows[i]]
  BY DEF Without
<1> HIDE DEF w
<1>2. DOMAIN w = DOMAIN rows \ ids /\ \A i \in DOMAIN rows \ ids : w[i] = rows[i]
  BY <1>1
<1>3. w = [i \in DOMAIN w |-> w[i]]
  BY <1>1
<1>4. Rows(rows) => Rows(w)
  BY <1>2, <1>3 DEF Rows
<1>5. Brief(rows) => Brief(w)
  BY <1>2, <1>3 DEF Brief
<1> QED BY <1>2, <1>4, <1>5 DEF w

(* A collection takes finished rows away, and grants a ship for some of    *)
(* them.                                                                   *)
LEMMA CollectsIs ==
  ASSUME TypeOK, Collects \/ CollectFails
  PROVE  /\ UNCHANGED <<now, nextId, desk, hurry, info, gold, drills, paid>>
         /\ desk = Free /\ unusual \subseteq unusual'
         /\ unusual' \subseteq unusual \cup {"fault"}
         /\ Rows(builds') /\ DOMAIN builds' \subseteq DOMAIN builds
         /\ \A i \in DOMAIN builds' : builds'[i] = builds[i]
         /\ \A i \in DOMAIN builds \ DOMAIN builds' : builds[i].fin <= now
         /\ Brief(cache')
         /\ \E ids \in SUBSET Finished : ids \cap DOMAIN builds' = {} /\ Grant(ids)
<1>1. Rows(builds) /\ Brief(cache)
  BY DEF TypeOK
<1>2. /\ UNCHANGED <<now, nextId, desk, hurry, info, gold, drills, paid>>
      /\ desk = Free
  BY DEF Collects, CollectFails, Collecting, LoopIsFree, wallet
<1>3. unusual \subseteq unusual' /\ unusual' \subseteq unusual \cup {"fault"}
  <2>1. unusual' = unusual \/ unusual' = unusual \cup {"fault"}
    BY DEF Collects, CollectFails, Fails
  <2> QED BY <2>1
<1>4. PICK ids \in SUBSET Finished, gone \in SUBSET Finished :
        /\ ids \subseteq gone /\ Grant(ids) /\ builds' = Without(builds, gone)
        /\ cache' = cache \/ cache' = Without(cache, ids)
  <2>1. CASE Collects
    <3>1. PICK ids \in SUBSET Finished : /\ Grant(ids) /\ builds' = Without(builds, ids)
                                         /\ cache' = Without(cache, ids)
      BY <2>1 DEF Collects
    <3> QED BY <3>1
  <2>2. CASE CollectFails
    <3>1. PICK ids \in SUBSET Finished, i \in Finished :
            /\ Grant(ids) /\ builds' = Without(builds, ids \cup {i})
      BY <2>2 DEF CollectFails
    <3>2. ids \cup {i} \in SUBSET Finished /\ ids \subseteq ids \cup {i} /\ cache' = cache
      BY <2>2, <3>1 DEF CollectFails
    <3> QED BY <3>1, <3>2
  <2> QED BY <2>1, <2>2
<1>5. /\ Rows(builds') /\ DOMAIN builds' = DOMAIN builds \ gone
      /\ \A i \in DOMAIN builds' : builds'[i] = builds[i]
  <2> DEFINE w == Without(builds, gone)
  <2>1. /\ Rows(w) /\ DOMAIN w = DOMAIN builds \ gone
        /\ \A i \in DOMAIN builds \ gone : w[i] = builds[i]
    BY <1>1, WithoutIs, Zenon
  <2>2. builds' = w
    BY <1>4
  <2> HIDE DEF w
  <2> QED BY <2>1, <2>2
<1>6. \A i \in DOMAIN builds \ DOMAIN builds' : builds[i].fin <= now
  BY <1>4, <1>5 DEF Finished
<1>7. Brief(cache')
  <2>1. CASE cache' = cache
    BY <1>1, <2>1
  <2>2. CASE cache' = Without(cache, ids)
    <3> DEFINE w == Without(cache, ids)
    <3>1. Brief(w)
      BY <1>1, WithoutIs
    <3>2. cache' = w
      BY <2>2
    <3> HIDE DEF w
    <3> QED BY <3>1, <3>2
  <2> QED BY <1>4, <2>1, <2>2
<1>8. ids \cap DOMAIN builds' = {}
  BY <1>4, <1>5
<1> QED BY <1>2, <1>3, <1>4, <1>5, <1>6, <1>7, <1>8

(* Exceptions are not forgotten.                                           *)
LEMMA MonotoneIs ==
  ASSUME TypeOK, Sane, [Next]_vars
  PROVE  unusual \subseteq unusual'
<1> USE DEF Noting, Fails
<1>1. CASE TimePasses \/ InfoReads \/ UNCHANGED vars
  BY <1>1 DEF TimePasses, InfoReads, vars
<1>2. CASE AdminActs
  BY <1>2 DEF AdminActs
<1>3. CASE Lists
  BY <1>3 DEF Lists, Begins, Load
<1>4. CASE Orders
  BY <1>4 DEF Orders, Begins, Load
<1>5. CASE Wishes
  BY <1>5 DEF Wishes, Begins, Load
<1>6. CASE DeskPersists
  BY <1>6 DEF DeskPersists
<1>7. ASSUME NEW h \in Hurries, Hurry(h) PROVE unusual \subseteq unusual'
  <2>1. CASE HurryStarts(h)
    BY <2>1 DEF HurryStarts
  <2>2. CASE HurryLists(h)
    BY <2>2 DEF HurryLists, GoesOn, Load
  <2>3. CASE HurryUpdates(h)
    BY <2>3 DEF HurryUpdates
  <2>4. CASE HurryPays(h)
    BY <2>4 DEF HurryPays, GoesOn, Load
  <2>5. CASE HurryFails(h)
    BY <2>5 DEF HurryFails
  <2> QED BY <1>7, <2>1, <2>2, <2>3, <2>4, <2>5 DEF Hurry
<1>8. CASE InfoIsKept
  BY <1>8 DEF InfoIsKept
<1>9. CASE Collects \/ CollectFails
  BY <1>9, CollectsIs
<1> QED BY <1>1, <1>2, <1>3, <1>4, <1>5, <1>6, <1>7, <1>8, <1>9 DEF Next

(* What a use of the REST API changes.                                     *)
LEMMA AdminIs ==
  ASSUME TypeOK, Sane, AdminActs
  PROVE  /\ UNCHANGED <<now, cache, desk, hurry, info, gold, drills, granted, paid>>
         /\ unusual' = unusual \cup {"admin"} /\ extras' \in 0..MaxExtras
         /\ Rows(builds') /\ nextId' \in 1..(MaxBuilds + 1) /\ nextId <= nextId'
         /\ \A i \in DOMAIN builds' : i < nextId' /\ builds'[i].fin # Unplanned
         /\ \A i \in DOMAIN builds' : i \notin DOMAIN builds => i >= nextId
         /\ Placed <= MaxBuilds => Placed' <= MaxBuilds
         /\ due' \in [Id -> Nat]
<1>1. /\ UNCHANGED <<now, cache, desk, hurry, info, gold, drills, granted, paid>>
      /\ unusual' = unusual \cup {"admin"}
  BY DEF AdminActs, wallet
<1>2. /\ Rows(builds) /\ now \in Nat /\ nextId \in 1..(MaxBuilds + 1)
      /\ due \in [Id -> Nat] /\ extras \in 0..MaxExtras
  BY DEF TypeOK
<1>3. extras' \in 0..MaxExtras
  BY <1>2, ConstantsAre DEF AdminActs, Counts
<1>4. PICK fin \in {now, MaxTime} :
       \/ /\ Placed < MaxBuilds
          /\ nextId' = nextId + 1 /\ UNCHANGED due
          /\ \E s \in Ship : builds' =
               [i \in DOMAIN builds \cup {nextId} |->
                  IF i = nextId
                  THEN [ship |-> s, fin |-> fin, started |-> TRUE]
                  ELSE builds[i]]
       \/ /\ \E i \in DOMAIN builds :
               /\ builds' = [builds EXCEPT ![i].fin = fin]
               /\ due' = [due EXCEPT ![i] = 0]
          /\ UNCHANGED nextId
       \/ /\ \E i \in DOMAIN builds : builds' = Without(builds, {i})
          /\ UNCHANGED <<nextId, due>>
  BY DEF AdminActs
<1>5. fin \in Nat \ {0}
  BY <1>2, <1>4, ConstantsAre DEF Sane, FirstHour
<1>6. /\ nextId \in Nat \ {0} /\ \A i \in DOMAIN builds : i < nextId /\ i \in Nat
  BY <1>2, ConstantsAre, RowIs DEF Sane
<1>7. ASSUME Placed < MaxBuilds, nextId' = nextId + 1, UNCHANGED due, NEW s \in Ship,
             builds' = [i \in DOMAIN builds \cup {nextId} |->
                  IF i = nextId
                  THEN [ship |-> s, fin |-> fin, started |-> TRUE]
                  ELSE builds[i]]
      PROVE  /\ Rows(builds') /\ nextId' \in 1..(MaxBuilds + 1) /\ nextId <= nextId'
             /\ \A i \in DOMAIN builds' : i < nextId' /\ builds'[i].fin # Unplanned
             /\ \A i \in DOMAIN builds' : i \notin DOMAIN builds => i >= nextId
             /\ Placed <= MaxBuilds => Placed' <= MaxBuilds
             /\ due' \in [Id -> Nat]
  <2> DEFINE new == builds'
             row == [ship |-> s, fin |-> fin, started |-> TRUE]
  <2>1. Len(desk.new) \in Nat
    BY DeskIs, FreeIs
  <2>2. nextId <= MaxBuilds /\ Placed' <= MaxBuilds
    BY <1>1, <1>6, <1>7, <2>1, ConstantsAre DEF Placed
  <2>3. row \in Row /\ row.fin = fin
    BY <1>5 DEF Row
  <2> HIDE DEF row
  <2>4. new = [i \in DOMAIN builds \cup {nextId} |->
                  IF i = nextId THEN row ELSE builds[i]]
    BY <1>7 DEF row
  <2> HIDE DEF new
  <2>5. DOMAIN new = DOMAIN builds \cup {nextId} /\ new = [i \in DOMAIN new |-> new[i]]
    BY <2>4
  <2>6. new[nextId] = row /\ \A i \in DOMAIN builds : new[i] = builds[i]
    BY <1>6, <2>4
  <2>7. \A i \in DOMAIN builds : builds[i] \in Row /\ builds[i].fin # Unplanned
    BY <1>2, RowIs DEF Sane
  <2>8. \A i \in DOMAIN new : i < nextId + 1 /\ new[i].fin # Unplanned /\ new[i] \in Row
    BY <1>5, <1>6, <2>3, <2>5, <2>6, <2>7 DEF Unplanned
  <2>9. Rows(new)
    BY <1>2, <1>6, <2>2, <2>5, <2>8, ConstantsAre DEF Rows, Id
  <2>10. \A i \in DOMAIN new : i \notin DOMAIN builds => i >= nextId
    BY <1>6, <2>5
  <2>11. nextId' \in 1..(MaxBuilds + 1) /\ nextId <= nextId'
    BY <1>6, <1>7, <2>2, ConstantsAre
  <2>12. \A i \in DOMAIN new : i < nextId' /\ new[i].fin # Unplanned
    BY <1>7, <2>8
  <2> QED BY <1>2, <1>7, <2>2, <2>5, <2>9, <2>10, <2>11, <2>12, Zenon DEF new
<1>8. ASSUME NEW j \in DOMAIN builds, builds' = [builds EXCEPT ![j].fin = fin],
             due' = [due EXCEPT ![j] = 0], UNCHANGED nextId
      PROVE  /\ Rows(builds') /\ nextId' \in 1..(MaxBuilds + 1) /\ nextId <= nextId'
             /\ \A i \in DOMAIN builds' : i < nextId' /\ builds'[i].fin # Unplanned
             /\ \A i \in DOMAIN builds' : i \notin DOMAIN builds => i >= nextId
             /\ Placed <= MaxBuilds => Placed' <= MaxBuilds
             /\ due' \in [Id -> Nat]
  <2> DEFINE new == builds'
             row == [builds[j] EXCEPT !.fin = fin]
  <2>1. builds[j] \in Row
    BY <1>2, RowIs
  <2>2. row \in Row /\ row.fin = fin
    BY <1>5, <2>1 DEF Row
  <2>3. new = [builds EXCEPT ![j] = row]
    BY <1>8 DEF row
  <2> HIDE DEF row, new
  <2>4. DOMAIN new = DOMAIN builds /\ new = [i \in DOMAIN new |-> new[i]]
    BY <1>2, <2>3 DEF Rows
  <2>5. \A i \in DOMAIN builds : new[i] = IF i = j THEN row ELSE builds[i]
    BY <1>2, <2>3 DEF Rows
  <2>6. \A i \in DOMAIN new : new[i] \in Row /\ new[i].fin # Unplanned
    BY <1>2, <1>5, <2>2, <2>4, <2>5, RowIs DEF Sane, Unplanned
  <2>7. Rows(new)
    BY <1>2, <2>4, <2>6 DEF Rows
  <2>8. due' \in [Id -> Nat]
    BY <1>2, <1>8
  <2>9. /\ nextId' \in 1..(MaxBuilds + 1) /\ nextId <= nextId'
        /\ Placed <= MaxBuilds => Placed' <= MaxBuilds
    BY <1>1, <1>2, <1>6, <1>8 DEF Placed
  <2>10. \A i \in DOMAIN new : i < nextId' /\ new[i].fin # Unplanned
    BY <1>6, <1>8, <2>4, <2>6
  <2> QED BY <2>4, <2>7, <2>8, <2>9, <2>10, Zenon DEF new
<1>9. ASSUME NEW j \in DOMAIN builds, builds' = Without(builds, {j}),
             UNCHANGED <<nextId, due>>
      PROVE  /\ Rows(builds') /\ nextId' \in 1..(MaxBuilds + 1) /\ nextId <= nextId'
             /\ \A i \in DOMAIN builds' : i < nextId' /\ builds'[i].fin # Unplanned
             /\ \A i \in DOMAIN builds' : i \notin DOMAIN builds => i >= nextId
             /\ Placed <= MaxBuilds => Placed' <= MaxBuilds
             /\ due' \in [Id -> Nat]
  <2> DEFINE new == builds'
  <2>1. /\ DOMAIN new = DOMAIN builds \ {j} /\ Rows(new)
        /\ \A i \in DOMAIN builds \ {j} : new[i] = builds[i]
    BY <1>2, <1>9, WithoutIs, Zenon
  <2>2. /\ nextId' \in 1..(MaxBuilds + 1) /\ nextId <= nextId'
        /\ Placed <= MaxBuilds => Placed' <= MaxBuilds
    BY <1>1, <1>2, <1>6, <1>9 DEF Placed
  <2> HIDE DEF new
  <2>3. \A i \in DOMAIN new : i < nextId' /\ new[i].fin # Unplanned
    BY <1>9, <2>1 DEF Sane
  <2>4. \A i \in DOMAIN new : i \notin DOMAIN builds => i >= nextId
    BY <2>1
  <2> QED BY <1>2, <1>9, <2>1, <2>2, <2>3, <2>4, Zenon DEF new
<1>10. /\ Rows(builds') /\ nextId' \in 1..(MaxBuilds + 1) /\ nextId <= nextId'
       /\ \A i \in DOMAIN builds' : i < nextId' /\ builds'[i].fin # Unplanned
       /\ \A i \in DOMAIN builds' : i \notin DOMAIN builds => i >= nextId
       /\ Placed <= MaxBuilds => Placed' <= MaxBuilds
       /\ due' \in [Id -> Nat]
  BY <1>4, <1>7, <1>8, <1>9, Zenon
<1> QED BY <1>1, <1>3, <1>10, Zenon

(* A call begins with the rows there are and the present clock.            *)
LEMMA BeginsIs ==
  ASSUME TypeOK, Sane, Lists \/ Orders \/ Wishes
  PROVE  /\ UNCHANGED <<now, builds, nextId, cache, hurry, info, gold, drills,
                        extras, granted, due, paid>>
         /\ unusual' = unusual /\ desk = Free /\ desk' # Free
         /\ desk' \in [who : {"list", "order", "wish"} \cup Hurries,
                       rows : {desk'.rows}, clock : Nat, new : Seq(Ship)]
         /\ desk'.rows = builds /\ desk'.clock = now /\ desk'.new \in Seq(Ship)
         /\ Len(desk'.new) <= gold /\ nextId - 1 + Len(desk'.new) <= MaxBuilds
<1>1. PICK who \in {"list", "order", "wish"}, new \in Seq(Ship) :
        /\ Begins(who, new) /\ Len(new) <= gold
        /\ desk = Free => nextId - 1 + Len(new) <= MaxBuilds
  <2>1. nextId \in 1..(MaxBuilds + 1) /\ gold \in 0..MaxGold
    BY DEF TypeOK
  <2>2. CASE Lists
    <3>1. Begins("list", <<>>) /\ <<>> \in Seq(Ship) /\ Len(<<>>) = 0
      BY <2>2, FreeIs DEF Lists
    <3>2. 0 <= gold /\ nextId - 1 + 0 <= MaxBuilds
      BY <2>1, ConstantsAre
    <3>3. Len(<<>>) <= gold /\ nextId - 1 + Len(<<>>) <= MaxBuilds
      BY <3>1, <3>2
    <3> QED BY <3>1, <3>3, Zenon
  <2>3. ASSUME NEW who \in {"order", "wish"}, NEW new \in Draws, Begins(who, new)
        PROVE  /\ new \in Seq(Ship) /\ Len(new) <= gold
               /\ desk = Free => nextId - 1 + Len(new) <= MaxBuilds
    <3>1. PICK m \in 0..MaxDraw : new \in [1..m -> Ship]
      BY <2>3 DEF Draws, BoundedSeq, SeqOf
    <3>2. new \in Seq(Ship) /\ Len(new) \in Nat
      <4>1. m \in Nat
        BY ConstantsAre
      <4>2. new \in Seq(Ship)
        BY <3>1, <4>1
      <4> QED BY <4>2
    <3>3. gold >= Len(new) /\ Placed + Len(new) <= MaxBuilds
      BY <2>3 DEF Draws
    <3>4. desk = Free => Placed = nextId - 1
      BY <2>1, FreeIs, ConstantsAre DEF Placed
    <3> QED BY <2>1, <3>2, <3>3, <3>4, ConstantsAre
  <2>4. CASE Orders
    BY <2>3, <2>4 DEF Orders
  <2>5. CASE Wishes
    BY <2>3, <2>5 DEF Wishes
  <2> QED BY <2>2, <2>4, <2>5
<1>2. /\ desk = Free /\ Load(who, now, new)
      /\ UNCHANGED <<now, builds, nextId, cache, hurry, info, gold, drills,
                     extras, granted, due, paid>>
  BY <1>1 DEF Begins, LoopIsFree, dock, wallet
<1>3. Rows(builds) /\ now \in Nat /\ now >= FirstHour
  BY DEF TypeOK, Sane
<1>4. /\ desk'.who = who /\ desk'.rows = builds /\ desk'.clock = now
      /\ desk'.new = new
      /\ desk' \in [who : {"list", "order", "wish"} \cup Hurries,
                       rows : {desk'.rows}, clock : Nat, new : Seq(Ship)]
  BY <1>1, <1>2, <1>3, LoadIs
<1>5. unusual' = unusual
  BY <1>2, <1>3 DEF Load, Noting
<1>6. desk' # Free
  BY <1>3, <1>4 DEF Free, FirstHour
<1> QED BY <1>1, <1>2, <1>4, <1>5, <1>6

(* The calls that may be under way.                                        *)
DeskTypes == [who : {"list", "order", "wish"} \cup Hurries,
              rows : {desk.rows}, clock : Nat, new : Seq(Ship)]

(* The types of the quick finishes.                                        *)
LEMMA TasksIs == TypeOK => hurry \in [Hurries -> Tasks]
BY DEF TypeOK, Tasks

(* The quick finish goes on with a build, or settles.                      *)
GoesOnWith(h, todo, clock) ==
  /\ hurry'[h].at = "update" /\ hurry'[h].todo = todo /\ hurry'[h].clock = clock
  /\ todo # {} /\ drills' # 0 /\ desk' = desk /\ unusual' = unusual
SettlesWith(h, clock) ==
  /\ hurry'[h] = Idle /\ desk' # Free
  /\ desk' \in DeskTypes' /\ Rows(desk'.rows)
  /\ desk'.who = h /\ desk'.rows = builds /\ desk'.clock = clock /\ desk'.new = <<>>
  /\ unusual \subseteq unusual' /\ unusual' \subseteq unusual \cup {"late"}
  /\ clock < now => "late" \in unusual'

(* What the list of a quick finish changes.                                *)
LEMMA ListsIs ==
  ASSUME TypeOK, Sane, NEW h \in Hurries, HurryLists(h)
  PROVE  /\ UNCHANGED <<now, builds, nextId, cache, info, gold, drills, extras,
                        granted, due, paid>>
         /\ desk = Free /\ hurry[h].at = "list" /\ hurry' \in [Hurries -> Tasks]
         /\ \A g \in Hurries : g # h => hurry'[g] = hurry[g]
         /\ \/ SettlesWith(h, now) /\ unusual' = unusual
            \/ \E todo \in SUBSET DOMAIN builds : GoesOnWith(h, todo, now)
<1>1. /\ UNCHANGED <<now, builds, nextId, cache, info, gold, drills, extras,
                     granted, due, paid>>
      /\ desk = Free /\ hurry[h].at = "list"
  BY DEF HurryLists, dock, wallet, LoopIsFree
<1>2. PICK todo \in SUBSET DOMAIN builds : GoesOn(h, todo, now)
  BY DEF HurryLists
<1>3. now \in Nat /\ FirstHour <= now /\ Rows(builds)
  BY DEF TypeOK, Sane
<1>4. todo \subseteq Id
  BY <1>3 DEF Rows
<1>5. /\ hurry' \in [Hurries -> Tasks]
      /\ \A g \in Hurries : g # h => hurry'[g] = hurry[g]
      /\ \/ /\ hurry'[h] = Idle /\ Load(h, now, <<>>)
            /\ desk'.who = h /\ desk'.rows = builds /\ desk'.clock = now
            /\ desk'.new = <<>>
            /\ desk' \in [who : {"list", "order", "wish"} \cup Hurries,
                       rows : {desk'.rows}, clock : Nat, new : Seq(Ship)]
            /\ Rows(desk'.rows)
            /\ unusual \subseteq unusual' /\ unusual' \subseteq unusual \cup {"late"}
            /\ now < now => "late" \in unusual'
         \/ /\ hurry'[h].at = "update" /\ hurry'[h].todo = todo
            /\ hurry'[h].clock = now
            /\ todo # {} /\ drills' # 0
            /\ desk' = desk /\ unusual' = unusual
  BY <1>2, <1>3, <1>4, GoesOnIs
<1>6. Load(h, now, <<>>) => unusual' = unusual
  BY <1>3 DEF Load, Noting
<1>7. desk'.clock = now => desk' # Free
  BY <1>3 DEF Free, FirstHour
<1> QED BY <1>1, <1>5, <1>6, <1>7, Zenon DEF SettlesWith, GoesOnWith, DeskTypes

(* What the payment of a quick finish changes.                             *)
LEMMA PaysIs ==
  ASSUME TypeOK, Sane, NEW h \in Hurries, HurryPays(h)
  PROVE  /\ UNCHANGED <<now, builds, nextId, cache, info, gold, extras, granted, due>>
         /\ desk = Free /\ hurry[h].at = "pay" /\ hurry' \in [Hurries -> Tasks]
         /\ Turn(h) \in Id /\ Turn(h) < nextId /\ Turn(h) \in hurry[h].todo
         /\ paid' = paid \cup {Turn(h)}
         /\ drills' = IF drills = 0 THEN 0 ELSE drills - 1
         /\ \A g \in Hurries : g # h => hurry'[g] = hurry[g]
         /\ \/ SettlesWith(h, hurry[h].clock)
            \/ GoesOnWith(h, hurry[h].todo \ {Turn(h)}, hurry[h].clock)
<1>1. /\ UNCHANGED <<now, builds, nextId, cache, info, gold, extras, granted, due>>
      /\ desk = Free /\ hurry[h].at = "pay" /\ paid' = paid \cup {Turn(h)}
      /\ drills' = IF drills = 0 THEN 0 ELSE drills - 1
      /\ GoesOn(h, hurry[h].todo \ {Turn(h)}, hurry[h].clock)
  BY DEF HurryPays, dock, LoopIsFree
<1>2. PendingIsSane(h)
  BY <1>1 DEF Sane, Pending
<1>3. Turn(h) \in hurry[h].todo /\ Turn(h) \in Id /\ Turn(h) < nextId
  BY <1>2, TurnIs DEF PendingIsSane
<1> DEFINE todo == hurry[h].todo \ {Turn(h)}
           clock == hurry[h].clock
<1>4. todo \subseteq Id /\ clock \in Nat /\ FirstHour <= clock
  BY <1>2, TasksIs DEF PendingIsSane, Tasks
<1>5. GoesOn(h, todo, clock)
  BY <1>1
<1> HIDE DEF todo, clock
<1>6. /\ hurry' \in [Hurries -> Tasks]
      /\ \A g \in Hurries : g # h => hurry'[g] = hurry[g]
      /\ \/ /\ hurry'[h] = Idle /\ Load(h, clock, <<>>)
            /\ desk'.who = h /\ desk'.rows = builds /\ desk'.clock = clock
            /\ desk'.new = <<>>
            /\ desk' \in [who : {"list", "order", "wish"} \cup Hurries,
                       rows : {desk'.rows}, clock : Nat, new : Seq(Ship)]
            /\ Rows(desk'.rows)
            /\ unusual \subseteq unusual' /\ unusual' \subseteq unusual \cup {"late"}
            /\ clock < now => "late" \in unusual'
         \/ /\ hurry'[h].at = "update" /\ hurry'[h].todo = todo
            /\ hurry'[h].clock = clock
            /\ todo # {} /\ drills' # 0
            /\ desk' = desk /\ unusual' = unusual
  BY <1>4, <1>5, GoesOnIs
<1>7. desk'.clock = clock => desk' # Free
  BY <1>4 DEF Free, FirstHour
<1>8. SettlesWith(h, clock) \/ GoesOnWith(h, todo, clock)
  BY <1>6, <1>7, Zenon DEF SettlesWith, GoesOnWith, DeskTypes
<1> QED BY <1>1, <1>3, <1>6, <1>8, Zenon DEF todo, clock

(* What the cache remembers of rows.                                       *)
LEMMA BrieflyIs ==
  ASSUME NEW rows, Rows(rows)
  PROVE  Brief(Briefly(rows))
<1> DEFINE b == Briefly(rows)
<1>1. b = [i \in DOMAIN rows |-> rows[i].fin]
  BY DEF Briefly
<1> HIDE DEF b
<1>2. DOMAIN b = DOMAIN rows /\ b = [i \in DOMAIN b |-> b[i]]
  BY <1>1
<1>3. \A i \in DOMAIN b : b[i] \in Nat
  BY <1>1, RowIs
<1> QED BY <1>2, <1>3 DEF Brief, Rows, b

(* The bound on extras is kept.                                            *)
LEMMA ExtrasAre ==
  ASSUME TypeOK
  PROVE  (Extra => extras' \in 0..MaxExtras) /\ (Fails => extras' \in 0..MaxExtras)
BY ConstantsAre DEF TypeOK, Fails, Extra, Counts

(* The types of the call under way.                                        *)
DeskIsTyped ==
  \/ desk = Free
  \/ desk \in DeskTypes /\ Rows(desk.rows)

(* The types, one by one.                                                  *)
LEMMA TypesAre ==
  TypeOK <=> /\ now \in Nat /\ nextId \in 1..(MaxBuilds + 1)
             /\ Rows(builds) /\ Brief(cache) /\ DeskIsTyped
             /\ hurry \in [Hurries -> Tasks] /\ (info = None \/ Brief(info))
             /\ gold \in 0..MaxGold /\ drills \in 0..MaxDrills
             /\ granted \in [Id -> Nat] /\ due \in [Id -> Nat] /\ paid \subseteq Id
             /\ extras \in 0..MaxExtras
BY Zenon DEF TypeOK, DeskIsTyped, DeskTypes, Tasks

(* Every step keeps the types.                                             *)
LEMMA TypeNext ==
  ASSUME TypeOK, Sane, [Next]_vars
  PROVE  TypeOK'
<1>1. /\ now \in Nat /\ nextId \in 1..(MaxBuilds + 1)
      /\ Rows(builds) /\ Brief(cache) /\ DeskIsTyped
      /\ hurry \in [Hurries -> Tasks] /\ (info = None \/ Brief(info))
      /\ gold \in 0..MaxGold /\ drills \in 0..MaxDrills
      /\ granted \in [Id -> Nat] /\ due \in [Id -> Nat] /\ paid \subseteq Id
      /\ extras \in 0..MaxExtras
  BY TypesAre, Zenon
<1> DEFINE Goal == /\ now' \in Nat /\ nextId' \in 1..(MaxBuilds + 1)
                   /\ Rows(builds') /\ Brief(cache') /\ DeskIsTyped'
                   /\ hurry' \in [Hurries -> Tasks] /\ (info' = None \/ Brief(info'))
                   /\ gold' \in 0..MaxGold /\ drills' \in 0..MaxDrills
                   /\ granted' \in [Id -> Nat] /\ due' \in [Id -> Nat] /\ paid' \subseteq Id
                   /\ extras' \in 0..MaxExtras
<1> SUFFICES Goal
  BY Zenon DEF TypeOK, DeskIsTyped, DeskTypes, Tasks
<1>2. UNCHANGED desk => DeskIsTyped'
  BY <1>1 DEF DeskIsTyped, DeskTypes
<1>3. desk' = Free => DeskIsTyped'
  BY DEF DeskIsTyped
<1>4. ASSUME NEW h \in Hurries, NEW clock, SettlesWith(h, clock) PROVE DeskIsTyped'
  BY <1>4, Zenon DEF SettlesWith, DeskIsTyped
<1>5. ASSUME NEW h \in Hurries, NEW todo, NEW clock, GoesOnWith(h, todo, clock)
      PROVE  DeskIsTyped'
  BY <1>2, <1>5 DEF GoesOnWith
<1>6. CASE UNCHANGED vars
  <2>1. UNCHANGED <<now, nextId, builds, cache, desk, hurry, info, gold, drills, granted,
                    due, paid, extras>>
    BY <1>6 DEF vars, dock, wallet
  <2> QED BY <1>1, <1>2, <2>1
<1>7. CASE TimePasses
  <2>1. /\ UNCHANGED <<nextId, builds, cache, desk, hurry, info, gold, drills, granted,
                       due, paid, extras>>
        /\ now' = now + 1
    BY <1>7 DEF TimePasses, dock, wallet
  <2>2. now' \in Nat
    BY <1>1, <2>1
  <2> QED BY <1>1, <1>2, <2>1, <2>2
<1>8. CASE AdminActs
  BY <1>1, <1>2, <1>8, AdminIs, Zenon
<1>9. CASE Lists \/ Orders \/ Wishes
  <2>1. DeskIsTyped'
    <3>1. desk' \in DeskTypes' /\ desk'.rows = builds
      BY <1>9, BeginsIs, Zenon DEF DeskTypes
    <3> QED BY <1>1, <3>1 DEF DeskIsTyped
  <2> QED BY <1>1, <1>9, <2>1, BeginsIs, Zenon
<1>10. CASE DeskPersists
  <2>1. /\ UNCHANGED <<now, hurry, info, drills, granted, paid>>
        /\ cache' = Briefly(Planned) /\ nextId' = nextId + Len(desk.new)
        /\ due' = [i \in Id |->
             IF i \in Added THEN desk.clock + Dur(NewRow(i)) ELSE due[i]]
        /\ \/ gold' = gold - Len(desk.new) /\ extras' = extras
           \/ gold' = gold /\ Fails
    BY <1>10 DEF DeskPersists
  <2>2. desk # Free /\ desk' = Free /\ Rows(builds') /\ Rows(Planned)
    BY <1>10, PersistsIs
  <2>3. /\ Len(desk.new) \in Nat /\ nextId + Len(desk.new) <= MaxBuilds + 1
        /\ \A i \in Added : Dur(NewRow(i)) \in Nat
    BY <2>2, AddedAre
  <2>4. Len(desk.new) <= gold /\ desk.clock \in Nat
    BY <2>2, DeskIs DEF Sane, DeskIsSane
  <2>5. gold' \in 0..MaxGold /\ nextId' \in 1..(MaxBuilds + 1)
    BY <1>1, <2>1, <2>3, <2>4, ConstantsAre
  <2>6. extras' \in 0..MaxExtras
    BY <1>1, <2>1, ExtrasAre
  <2>7. \A i \in Id : (IF i \in Added THEN desk.clock + Dur(NewRow(i)) ELSE due[i]) \in Nat
    <3>1. \A i \in Id : due[i] \in Nat
      BY <1>1
    <3>2. \A i \in Added : desk.clock + Dur(NewRow(i)) \in Nat
      BY <2>3, <2>4
    <3> QED BY <3>1, <3>2
  <2>8. due' \in [Id -> Nat]
    BY <2>1, <2>7
  <2>9. Brief(cache')
    <3>1. Brief(Briefly(Planned))
      BY <2>2, BrieflyIs
    <3> QED BY <2>1, <3>1
  <2> QED BY <1>1, <1>3, <2>1, <2>2, <2>5, <2>6, <2>8, <2>9
<1>11. ASSUME NEW h \in Hurries, HurryStarts(h) PROVE Goal
  <2>1. UNCHANGED <<now, nextId, builds, cache, desk, info, gold, drills, granted,
                    due, paid>>
    BY <1>11 DEF HurryStarts, dock, wallet
  <2>2. extras' \in 0..MaxExtras
    BY <1>11, ExtrasAre DEF HurryStarts
  <2>3. hurry' \in [Hurries -> Tasks]
    BY <1>11, StartsIs
  <2> QED BY <1>1, <1>2, <2>1, <2>2, <2>3
<1>12. ASSUME NEW h \in Hurries, HurryLists(h) PROVE Goal
  <2>1. /\ UNCHANGED <<now, builds, nextId, cache, info, gold, drills, extras,
                       granted, due, paid>>
        /\ hurry' \in [Hurries -> Tasks]
    BY <1>12, ListsIs
  <2>2. DeskIsTyped'
    BY <1>4, <1>5, <1>12, ListsIs
  <2> QED BY <1>1, <2>1, <2>2
<1>13. ASSUME NEW h \in Hurries, HurryUpdates(h) PROVE Goal
  <2>1. UNCHANGED <<now, nextId, cache, desk, info, gold, drills, extras, granted,
                    paid>>
    BY <1>13 DEF HurryUpdates, wallet
  <2>2. /\ hurry' \in [Hurries -> Tasks] /\ Rows(builds')
        /\ due' = [due EXCEPT ![Turn(h)] = 0]
    BY <1>13, UpdatesIs
  <2>3. due' \in [Id -> Nat]
    BY <1>1, <2>2
  <2> QED BY <1>1, <1>2, <2>1, <2>2, <2>3
<1>14. ASSUME NEW h \in Hurries, HurryPays(h) PROVE Goal
  <2>1. /\ UNCHANGED <<now, builds, nextId, cache, info, gold, extras, granted, due>>
        /\ hurry' \in [Hurries -> Tasks]
        /\ Turn(h) \in Id /\ paid' = paid \cup {Turn(h)}
        /\ drills' = IF drills = 0 THEN 0 ELSE drills - 1
    BY <1>14, PaysIs
  <2>2. DeskIsTyped'
    BY <1>4, <1>5, <1>14, PaysIs
  <2>3. drills' \in 0..MaxDrills
    BY <1>1, <2>1, ConstantsAre
  <2>4. paid' \subseteq Id
    BY <1>1, <2>1
  <2> QED BY <1>1, <2>1, <2>2, <2>3, <2>4
<1>15. ASSUME NEW h \in Hurries, HurryFails(h) PROVE Goal
  <2>1. UNCHANGED <<now, nextId, builds, cache, desk, info, gold, drills, granted,
                    due, paid>>
    BY <1>15 DEF HurryFails, dock, wallet
  <2>2. extras' \in 0..MaxExtras
    BY <1>15, ExtrasAre DEF HurryFails
  <2>3. hurry' \in [Hurries -> Tasks]
    BY <1>1, <1>15, TasksAre, IdleIs DEF HurryFails
  <2> QED BY <1>1, <1>2, <2>1, <2>2, <2>3
<1>16. CASE InfoReads
  <2>1. /\ UNCHANGED <<now, nextId, builds, cache, desk, hurry, gold, drills, granted,
                       due, paid>>
        /\ info' = Briefly(builds) /\ Extra
    BY <1>16 DEF InfoReads, dock, wallet
  <2>2. Brief(info')
    <3>1. Brief(Briefly(builds))
      BY <1>1, BrieflyIs
    <3> QED BY <2>1, <3>1
  <2>3. extras' \in 0..MaxExtras
    BY <2>1, ExtrasAre
  <2> QED BY <1>1, <1>2, <2>1, <2>2, <2>3
<1>17. CASE InfoIsKept
  <2>1. /\ UNCHANGED <<now, builds, nextId, desk, hurry, gold, drills, extras, granted, due,
                       paid>>
        /\ cache' = info /\ info # None /\ info' = None
    BY <1>17 DEF InfoIsKept, wallet
  <2>2. Brief(cache')
    BY <1>1, <2>1
  <2> QED BY <1>1, <1>2, <2>1, <2>2
<1>18. CASE Collects \/ CollectFails
  <2>1. /\ UNCHANGED <<now, nextId, desk, hurry, info, gold, drills, paid>>
        /\ Rows(builds') /\ Brief(cache')
        /\ \E ids \in SUBSET Finished : Grant(ids)
    BY <1>18, CollectsIs
  <2>2. granted' \in [Id -> Nat] /\ due' \in [Id -> Nat]
    BY <1>1, <2>1 DEF Grant
  <2>3. extras' \in 0..MaxExtras
    BY <1>1, <1>18, ExtrasAre DEF Collects, CollectFails
  <2> QED BY <1>1, <1>2, <2>1, <2>2, <2>3
<1> HIDE DEF Goal
<1>19. ASSUME NEW h \in Hurries, Hurry(h) PROVE Goal
  BY <1>11, <1>12, <1>13, <1>14, <1>15, <1>19 DEF Hurry
<1> QED BY <1>6, <1>7, <1>8, <1>9, <1>10, <1>16, <1>17, <1>18, <1>19 DEF Next

(* Two parts of Sane.                                                      *)
HurriesAreSane == \A h \in Hurries : Pending(h) => PendingIsSane(h)
BuildsAreSane == \A i \in DOMAIN builds : i < nextId /\ builds[i].fin # Unplanned

(* Every step keeps rows and calls sane.                                   *)
LEMMA SaneNext ==
  ASSUME TypeOK, TypeOK', Sane, [Next]_vars
  PROVE  Sane'
<1>1. /\ FirstHour <= now /\ BuildsAreSane /\ \A i \in paid : i < nextId
      /\ HurriesAreSane
      /\ desk # Free => DeskIsSane
  BY DEF Sane, BuildsAreSane, HurriesAreSane
<1> DEFINE Goal == /\ FirstHour <= now' /\ BuildsAreSane' /\ \A i \in paid' : i < nextId'
                   /\ HurriesAreSane'
                   /\ desk' # Free => DeskIsSane'
<1> SUFFICES Goal
  BY DEF Sane, BuildsAreSane, HurriesAreSane
<1>2. /\ now \in Nat /\ now' \in Nat /\ nextId \in Nat /\ nextId' \in Nat
      /\ paid \subseteq Nat /\ \A h \in Hurries : hurry[h].todo \subseteq Nat
      /\ \A h \in Hurries : hurry[h].clock \in Nat
      /\ gold \in Nat /\ drills \in Nat
      /\ DOMAIN builds \subseteq Nat
  <2>1. /\ now \in Nat /\ now' \in Nat /\ nextId \in Nat /\ nextId' \in Nat
        /\ gold \in Nat /\ drills \in Nat
    <3>1. /\ now \in Nat /\ nextId \in 1..(MaxBuilds + 1)
          /\ gold \in 0..MaxGold /\ drills \in 0..MaxDrills
      BY DEF TypeOK
    <3>2. now' \in Nat /\ nextId' \in 1..(MaxBuilds + 1)
      BY DEF TypeOK
    <3> QED BY <3>1, <3>2, ConstantsAre
  <2>2. paid \subseteq Nat /\ DOMAIN builds \subseteq Nat
    BY IdsAre DEF TypeOK, Rows
  <2>3. ASSUME NEW h \in Hurries
        PROVE  hurry[h].todo \subseteq Nat /\ hurry[h].clock \in Nat
    <3>1. hurry[h] \in Tasks
      BY TasksIs
    <3>2. hurry[h].todo \subseteq Id /\ hurry[h].clock \in Nat
      BY <3>1 DEF Tasks
    <3> QED BY <3>2, IdsAre
  <2> QED BY <2>1, <2>2, <2>3
<1>3. ASSUME UNCHANGED hurry, now <= now', nextId <= nextId' PROVE HurriesAreSane'
  <2>1. ASSUME NEW g \in Hurries, Pending(g)' PROVE PendingIsSane(g)'
    <3>1. PendingIsSane(g) /\ hurry'[g] = hurry[g]
      BY <1>1, <1>3, <2>1 DEF HurriesAreSane, Pending
    <3>2. \A i \in hurry[g].todo : i < nextId'
      BY <1>2, <1>3, <3>1 DEF PendingIsSane
    <3>3. hurry[g].clock <= now'
      BY <1>2, <1>3, <3>1 DEF PendingIsSane
    <3> QED BY <3>1, <3>2, <3>3 DEF PendingIsSane
  <2> QED BY <2>1 DEF HurriesAreSane
<1>4. ASSUME UNCHANGED <<builds, nextId>> PROVE BuildsAreSane'
  BY <1>1, <1>4 DEF BuildsAreSane
<1>5. ASSUME UNCHANGED <<desk, gold, nextId>>, now <= now', desk # Free
      PROVE  DeskIsSane'
  <2>1. desk.clock \in Nat
    BY <1>5, DeskIs
  <2> QED BY <1>1, <1>2, <1>5, <2>1 DEF DeskIsSane, Placed
<1>6. ASSUME NEW h \in Hurries, \A g \in Hurries : g # h => hurry'[g] = hurry[g],
             hurry'[h].at \notin {"update", "pay"}, UNCHANGED <<now, nextId>>
      PROVE  HurriesAreSane'
  <2>1. ASSUME NEW g \in Hurries, Pending(g)' PROVE PendingIsSane(g)'
    <3>1. g # h /\ hurry'[g] = hurry[g]
      BY <1>6, <2>1 DEF Pending
    <3>2. PendingIsSane(g)
      BY <1>1, <2>1, <3>1 DEF HurriesAreSane, Pending
    <3> QED BY <1>6, <3>1, <3>2 DEF PendingIsSane
  <2> QED BY <2>1 DEF HurriesAreSane
<1>7. ASSUME NEW h \in Hurries, \A g \in Hurries : g # h => hurry'[g] = hurry[g],
             hurry'[h].todo # {}, \A i \in hurry'[h].todo : i < nextId,
             FirstHour <= hurry'[h].clock, hurry'[h].clock <= now,
             UNCHANGED <<now, nextId>>
      PROVE  HurriesAreSane'
  <2>1. ASSUME NEW g \in Hurries, Pending(g)' PROVE PendingIsSane(g)'
    <3>1. CASE g = h
      BY <1>7, <3>1 DEF PendingIsSane
    <3>2. CASE g # h
      <4>1. hurry'[g] = hurry[g]
        BY <1>7, <3>2
      <4>2. PendingIsSane(g)
        BY <1>1, <2>1, <4>1 DEF HurriesAreSane, Pending
      <4> QED BY <1>7, <4>1, <4>2 DEF PendingIsSane
    <3> QED BY <3>1, <3>2
  <2> QED BY <2>1 DEF HurriesAreSane
<1>8. ASSUME desk' # Free, desk'.rows = builds, UNCHANGED <<builds, now, nextId>>,
             FirstHour <= desk'.clock, desk'.clock <= now, Len(desk'.new) <= gold',
             nextId - 1 + Len(desk'.new) <= MaxBuilds
      PROVE  DeskIsSane'
  BY <1>1, <1>2, <1>8 DEF DeskIsSane, BuildsAreSane, Placed
<1>9. ASSUME NEW h \in Hurries, NEW clock, SettlesWith(h, clock), FirstHour <= clock,
             clock <= now, UNCHANGED <<now, nextId, builds, gold>>,
             \A g \in Hurries : g # h => hurry'[g] = hurry[g]
      PROVE  DeskIsSane' /\ HurriesAreSane'
  <2>1. hurry'[h].at = "idle"
    BY <1>9, IdleIs DEF SettlesWith
  <2>2. HurriesAreSane'
    BY <1>6, <1>9, <2>1
  <2>3. nextId \in 1..(MaxBuilds + 1)
    BY DEF TypeOK
  <2>4. Len(desk'.new) = 0
    BY <1>9, FreeIs DEF SettlesWith
  <2>5. DeskIsSane'
    BY <1>2, <1>8, <1>9, <2>3, <2>4, ConstantsAre DEF SettlesWith
  <2> QED BY <2>2, <2>5
<1>10. CASE UNCHANGED vars
  <2>1. UNCHANGED <<now, nextId, builds, desk, hurry, gold, paid>>
    BY <1>10 DEF vars, dock, wallet
  <2> QED BY <1>1, <1>2, <1>3, <1>4, <1>5, <2>1
<1>11. CASE TimePasses
  <2>1. /\ UNCHANGED <<nextId, builds, desk, hurry, gold, paid>>
        /\ now' = now + 1
    BY <1>11 DEF TimePasses, dock, wallet
  <2>2. FirstHour <= now' /\ now <= now'
    BY <1>1, <1>2, <2>1 DEF FirstHour
  <2> QED BY <1>1, <1>2, <1>3, <1>4, <1>5, <2>1, <2>2
<1>12. CASE AdminActs
  <2>1. /\ UNCHANGED <<now, desk, hurry, gold, paid>>
        /\ nextId <= nextId'
        /\ \A i \in DOMAIN builds' : i < nextId' /\ builds'[i].fin # Unplanned
        /\ Placed <= MaxBuilds => Placed' <= MaxBuilds
    BY <1>12, AdminIs
  <2>2. BuildsAreSane'
    BY <2>1 DEF BuildsAreSane
  <2>3. HurriesAreSane'
    BY <1>2, <1>3, <2>1
  <2>4. \A i \in paid' : i < nextId'
    BY <1>1, <1>2, <2>1
  <2>5. ASSUME desk' # Free PROVE DeskIsSane'
    <3>1. Rows(desk.rows) /\ desk # Free /\ DeskIsSane
      BY <1>1, <2>1, <2>5, DeskIs
    <3>2. \A i \in DOMAIN desk.rows : i < nextId'
      BY <1>2, <2>1, <3>1, RowIs DEF DeskIsSane
    <3> QED BY <1>1, <2>1, <3>1, <3>2 DEF DeskIsSane
  <2> QED BY <1>1, <2>1, <2>2, <2>3, <2>4, <2>5
<1>13. CASE Lists \/ Orders \/ Wishes
  <2>1. /\ UNCHANGED <<now, builds, nextId, hurry, gold, paid>>
        /\ desk' # Free /\ desk'.rows = builds /\ desk'.clock = now
        /\ Len(desk'.new) <= gold /\ nextId - 1 + Len(desk'.new) <= MaxBuilds
    BY <1>13, BeginsIs
  <2>2. DeskIsSane'
    BY <1>1, <1>2, <1>8, <2>1
  <2> QED BY <1>1, <1>2, <1>3, <1>4, <2>1, <2>2
<1>14. CASE DeskPersists
  <2>1. /\ UNCHANGED <<now, hurry, paid>> /\ nextId' = nextId + Len(desk.new)
    BY <1>14 DEF DeskPersists
  <2>2. /\ desk # Free /\ desk' = Free
        /\ DOMAIN Planned = DOMAIN desk.rows \cup Added
        /\ \A i \in DOMAIN Planned : Planned[i].fin # Unplanned
        /\ DOMAIN builds' = DOMAIN builds \cup Added
        /\ \A i \in Added : builds'[i] = Planned[i]
        /\ \A i \in DOMAIN desk.rows \cap DOMAIN builds :
              \/ builds'[i] = Planned[i]
              \/ builds'[i] = builds[i] /\ Planned[i] = desk.rows[i]
        /\ \A i \in DOMAIN builds : i \notin DOMAIN desk.rows => builds'[i] = builds[i]
    BY <1>14, PersistsIs
  <2>3. Len(desk.new) \in Nat /\ \A i \in Added : i \in Nat /\ i < nextId + Len(desk.new)
    BY <2>2, AddedAre
  <2>4. \A i \in DOMAIN builds' : i < nextId'
    BY <1>1, <1>2, <2>1, <2>2, <2>3 DEF BuildsAreSane
  <2>5. \A i \in DOMAIN builds' : builds'[i].fin # Unplanned
    BY <1>1, <2>2 DEF BuildsAreSane
  <2>6. HurriesAreSane'
    BY <1>2, <1>3, <2>1, <2>3
  <2>7. \A i \in paid' : i < nextId'
    BY <1>1, <1>2, <2>1, <2>3
  <2> QED BY <1>1, <2>1, <2>2, <2>4, <2>5, <2>6, <2>7 DEF BuildsAreSane
<1>15. ASSUME NEW h \in Hurries, HurryStarts(h) PROVE Goal
  <2>1. UNCHANGED <<now, nextId, builds, desk, gold, paid>>
    BY <1>15 DEF HurryStarts, dock, wallet
  <2>2. HurriesAreSane'
    BY <1>6, <1>15, <2>1, StartsIs
  <2>3. ASSUME desk' # Free PROVE DeskIsSane'
    BY <1>2, <1>5, <2>1, <2>3
  <2> QED BY <1>1, <1>4, <2>1, <2>2, <2>3
<1>16. ASSUME NEW h \in Hurries, HurryLists(h) PROVE Goal
  <2>1. /\ UNCHANGED <<now, builds, nextId, gold, paid>>
        /\ \A g \in Hurries : g # h => hurry'[g] = hurry[g]
        /\ desk = Free
        /\ \/ SettlesWith(h, now)
           \/ \E todo \in SUBSET DOMAIN builds : GoesOnWith(h, todo, now)
    BY <1>16, ListsIs
  <2>2. CASE SettlesWith(h, now)
    BY <1>1, <1>2, <1>4, <1>9, <2>1, <2>2
  <2>3. ASSUME NEW todo \in SUBSET DOMAIN builds, GoesOnWith(h, todo, now)
        PROVE  Goal
    <3>1. \A i \in todo : i < nextId
      BY <1>1 DEF BuildsAreSane
    <3>2. HurriesAreSane'
      BY <1>1, <1>2, <1>7, <2>1, <2>3, <3>1 DEF GoesOnWith
    <3> QED BY <1>1, <1>4, <2>1, <2>3, <3>2 DEF GoesOnWith
  <2> QED BY <2>1, <2>2, <2>3
<1>17. ASSUME NEW h \in Hurries, HurryUpdates(h) PROVE Goal
  <2>1. UNCHANGED <<now, nextId, desk, gold, paid>>
    BY <1>17 DEF HurryUpdates, wallet
  <2>2. /\ hurry[h].at = "update"
        /\ hurry'[h].todo = hurry[h].todo /\ hurry'[h].clock = hurry[h].clock
        /\ \A g \in Hurries : g # h => hurry'[g] = hurry[g]
        /\ DOMAIN builds' = DOMAIN builds
        /\ \A i \in DOMAIN builds :
              /\ i # Turn(h) => builds'[i] = builds[i]
              /\ i = Turn(h) => builds'[i].fin = hurry[h].clock - 1
        /\ hurry[h].clock - 1 \in Nat \ {0}
    BY <1>17, UpdatesIs DEF HurryUpdates
  <2>3. PendingIsSane(h)
    BY <1>1, <2>2 DEF HurriesAreSane, Pending
  <2>4. HurriesAreSane'
    BY <1>7, <2>1, <2>2, <2>3 DEF PendingIsSane
  <2>5. BuildsAreSane'
    BY <1>1, <2>1, <2>2 DEF BuildsAreSane, Unplanned
  <2>6. ASSUME desk' # Free PROVE DeskIsSane'
    BY <1>2, <1>5, <2>1, <2>2, <2>6
  <2>7. FirstHour <= now' /\ \A i \in paid' : i < nextId'
    BY <1>1, <2>1
  <2> QED BY <2>4, <2>5, <2>6, <2>7
<1>18. ASSUME NEW h \in Hurries, HurryPays(h) PROVE Goal
  <2>1. /\ UNCHANGED <<now, builds, nextId, gold>>
        /\ desk = Free /\ hurry[h].at = "pay" /\ Turn(h) < nextId
        /\ paid' = paid \cup {Turn(h)}
        /\ \A g \in Hurries : g # h => hurry'[g] = hurry[g]
        /\ \/ SettlesWith(h, hurry[h].clock)
           \/ GoesOnWith(h, hurry[h].todo \ {Turn(h)}, hurry[h].clock)
    BY <1>18, PaysIs
  <2>2. PendingIsSane(h)
    BY <1>1, <2>1 DEF HurriesAreSane, Pending
  <2>3. \A i \in paid' : i < nextId'
    BY <1>1, <2>1
  <2>4. CASE SettlesWith(h, hurry[h].clock)
    BY <1>1, <1>4, <1>9, <2>1, <2>2, <2>3, <2>4 DEF PendingIsSane
  <2>5. CASE GoesOnWith(h, hurry[h].todo \ {Turn(h)}, hurry[h].clock)
    <3>1. /\ hurry'[h].todo # {} /\ \A i \in hurry'[h].todo : i < nextId
          /\ FirstHour <= hurry'[h].clock /\ hurry'[h].clock <= now
      <4>1. /\ hurry'[h].todo = hurry[h].todo \ {Turn(h)} /\ hurry'[h].todo # {}
            /\ hurry'[h].clock = hurry[h].clock
        BY <2>5 DEF GoesOnWith
      <4> QED BY <2>2, <4>1 DEF PendingIsSane
    <3>2. HurriesAreSane'
      BY <1>7, <2>1, <3>1
    <3> QED BY <1>1, <1>4, <2>1, <2>3, <2>5, <3>2 DEF GoesOnWith
  <2> QED BY <2>1, <2>4, <2>5
<1>19. ASSUME NEW h \in Hurries, HurryFails(h) PROVE Goal
  <2>1. UNCHANGED <<now, nextId, builds, desk, gold, paid>>
    BY <1>19 DEF HurryFails, dock, wallet
  <2>2. /\ hurry'[h].at = "idle"
        /\ \A g \in Hurries : g # h => hurry'[g] = hurry[g]
    BY <1>19, TasksIs, TasksAre, IdleIs DEF HurryFails
  <2>3. HurriesAreSane'
    BY <1>6, <2>1, <2>2
  <2>4. ASSUME desk' # Free PROVE DeskIsSane'
    BY <1>2, <1>5, <2>1, <2>4
  <2> QED BY <1>1, <1>4, <2>1, <2>3, <2>4
<1>20. CASE InfoReads \/ InfoIsKept
  <2>1. UNCHANGED <<now, nextId, builds, desk, hurry, gold, paid>>
    BY <1>20 DEF InfoReads, InfoIsKept, dock, wallet
  <2> QED BY <1>1, <1>2, <1>3, <1>4, <1>5, <2>1
<1>21. CASE Collects \/ CollectFails
  <2>1. /\ UNCHANGED <<now, nextId, desk, hurry, gold, paid>>
        /\ desk = Free /\ DOMAIN builds' \subseteq DOMAIN builds
        /\ \A i \in DOMAIN builds' : builds'[i] = builds[i]
    BY <1>21, CollectsIs
  <2>2. BuildsAreSane'
    BY <1>1, <2>1 DEF BuildsAreSane
  <2>3. HurriesAreSane'
    BY <1>2, <1>3, <2>1
  <2> QED BY <1>1, <2>1, <2>2, <2>3
<1> HIDE DEF Goal
<1>22. ASSUME NEW h \in Hurries, Hurry(h) PROVE Goal
  BY <1>15, <1>16, <1>17, <1>18, <1>19, <1>22 DEF Hurry
<1> QED BY <1>10, <1>11, <1>12, <1>13, <1>14, <1>20, <1>21, <1>22 DEF Next

(* Steps that leave the dock, the clock and the call alone, and put no     *)
(* quick finish to work.                                                   *)
Rests ==
  /\ UNCHANGED <<now, builds, nextId, desk, drills, granted, due, paid>>
  /\ \A h \in Hurries : hurry'[h] = hurry[h] \/ hurry'[h].at \notin {"update", "pay"}
  /\ \A h \in Hurries : Pending(h) => Pending(h)' \/ "fault" \in unusual'

(* Those of a quick finish.                                                *)
HurryRests(h) == HurryStarts(h) \/ HurryFails(h)

(* Which steps leave the dock alone.                                       *)
LEMMA RestsIs ==
  ASSUME TypeOK, UNCHANGED vars \/ InfoReads \/ InfoIsKept
                   \/ \E h \in Hurries : HurryRests(h)
  PROVE  Rests
<1>1. CASE UNCHANGED vars \/ InfoReads \/ InfoIsKept
  <2>1. UNCHANGED <<now, builds, nextId, desk, hurry, drills, granted, due, paid>>
    BY <1>1 DEF vars, InfoReads, InfoIsKept, dock, wallet
  <2> QED BY <2>1 DEF Rests, Pending
<1>2. ASSUME NEW h \in Hurries, HurryStarts(h) PROVE Rests
  <2>1. UNCHANGED <<now, builds, nextId, desk, drills, granted, due, paid>>
    BY <1>2 DEF HurryStarts, dock, wallet
  <2>2. /\ hurry[h].at = "idle" /\ hurry'[h].at = "list"
        /\ \A g \in Hurries : g # h => hurry'[g] = hurry[g]
    BY <1>2, StartsIs DEF HurryStarts
  <2> QED BY <2>1, <2>2 DEF Rests, Pending
<1>3. ASSUME NEW h \in Hurries, HurryFails(h) PROVE Rests
  <2>1. /\ UNCHANGED <<now, builds, nextId, desk, drills, granted, due, paid>>
        /\ "fault" \in unusual'
    BY <1>3 DEF HurryFails, Fails, dock, wallet
  <2>2. /\ hurry'[h].at = "idle"
        /\ \A g \in Hurries : g # h => hurry'[g] = hurry[g]
    BY <1>3, TasksIs, TasksAre, IdleIs DEF HurryFails
  <2> QED BY <2>1, <2>2 DEF Rests, Pending
<1> QED BY <1>1, <1>2, <1>3 DEF HurryRests

(* The steps, in the groups that the proofs below treat.                   *)
LEMMA StepIs ==
  ASSUME TypeOK, [Next]_vars
  PROVE  \/ Rests \/ TimePasses \/ AdminActs \/ (Lists \/ Orders \/ Wishes)
         \/ DeskPersists
         \/ \E h \in Hurries : HurryLists(h) \/ HurryUpdates(h) \/ HurryPays(h)
         \/ (Collects \/ CollectFails)
BY RestsIs DEF Next, Hurry, HurryRests

(* What an hour changes.                                                   *)
LEMMA TimeIs ==
  ASSUME TypeOK, TimePasses
  PROVE  /\ UNCHANGED <<builds, nextId, desk, hurry, drills, granted, due, paid, unusual>>
         /\ desk = Free /\ now' = now + 1 /\ now \in Nat
BY DEF TypeOK, TimePasses, LoopIsFree, dock, wallet

(* At most one quick finish, unless it is remembered.                      *)
Alone ==
  Quiet({"overlap"}) =>
    \A g, h \in Hurries : hurry[g].at # "idle" /\ hurry[h].at # "idle" => g = h

(* What is quiet after a step was quiet before it.                         *)
LEMMA QuietIs ==
  ASSUME NEW E, unusual \subseteq unusual', Quiet(E)'
  PROVE  Quiet(E)
BY DEF Quiet

(* What is quiet of more is quiet of less.                                 *)
LEMMA QuietFor ==
  ASSUME NEW E, NEW F, F \subseteq E, Quiet(E)
  PROVE  Quiet(F)
BY DEF Quiet

(* Every step keeps quick finishes alone, or remembers the overlap.        *)
LEMMA AloneNext ==
  ASSUME TypeOK, Sane, [Next]_vars, Alone
  PROVE  Alone'
<1>1. unusual \subseteq unusual'
  BY MonotoneIs
<1>2. ASSUME \A h \in Hurries : hurry'[h].at # "idle" => hurry[h].at # "idle"
      PROVE  Alone'
  BY <1>1, <1>2, QuietIs DEF Alone
<1>3. ASSUME NEW h \in Hurries, hurry[h].at # "idle",
             \A g \in Hurries : g # h => hurry'[g] = hurry[g]
      PROVE  Alone'
  BY <1>2, <1>3
<1>4. ASSUME UNCHANGED hurry PROVE Alone'
  BY <1>2, <1>4
<1>5. ASSUME NEW h \in Hurries, HurryStarts(h) PROVE Alone'
  <2>1. /\ \A g \in Hurries : g # h => hurry'[g] = hurry[g]
        /\ (\E g \in Hurries : hurry[g].at # "idle") => "overlap" \in unusual'
    BY <1>5, StartsIs
  <2>2. CASE \E g \in Hurries : hurry[g].at # "idle"
    BY <2>1, <2>2 DEF Alone, Quiet
  <2>3. CASE ~(\E g \in Hurries : hurry[g].at # "idle")
    BY <2>1, <2>3 DEF Alone
  <2> QED BY <2>2, <2>3
<1>6. ASSUME NEW h \in Hurries, HurryFails(h) PROVE Alone'
  <2>1. hurry[h].at # "idle" /\ hurry' = [hurry EXCEPT ![h] = Idle]
    BY <1>6 DEF HurryFails
  <2>2. \A g \in Hurries : g # h => hurry'[g] = hurry[g]
    BY <2>1, TasksIs, TasksAre, IdleIs
  <2> QED BY <1>3, <2>1, <2>2
<1>7. ASSUME NEW h \in Hurries, HurryLists(h) PROVE Alone'
  BY <1>3, <1>7, ListsIs
<1>8. ASSUME NEW h \in Hurries, HurryUpdates(h) PROVE Alone'
  BY <1>3, <1>8, UpdatesIs DEF HurryUpdates
<1>9. ASSUME NEW h \in Hurries, HurryPays(h) PROVE Alone'
  BY <1>3, <1>9, PaysIs
<1>10. CASE TimePasses \/ DeskPersists \/ InfoReads \/ InfoIsKept \/ UNCHANGED vars
  BY <1>4, <1>10 DEF TimePasses, DeskPersists, InfoReads, InfoIsKept, vars
<1>11. CASE AdminActs
  BY <1>4, <1>11, AdminIs
<1>12. CASE Lists \/ Orders \/ Wishes
  BY <1>4, <1>12, BeginsIs
<1>13. CASE Collects \/ CollectFails
  BY <1>4, <1>13, CollectsIs
<1> QED BY <1>5, <1>6, <1>7, <1>8, <1>9, <1>10, <1>11, <1>12, <1>13 DEF Next, Hurry

(* Each drill pays for a build, and no quick finish goes on without one.   *)
Spends ==
  Quiet({"overlap"}) =>
    /\ Cardinality(paid) <= MaxDrills - drills
    /\ \A h \in Hurries : Pending(h) => drills > 0

(* Every step keeps the account of drills: a build is on it only when it   *)
(* is paid for, in the same step.                                          *)
LEMMA SpendsNext ==
  ASSUME TypeOK, Sane, [Next]_vars, Alone, Alone', Spends
  PROVE  Spends'
<1>1. unusual \subseteq unusual'
  BY MonotoneIs
<1>2. SUFFICES ASSUME Quiet({"overlap"})'
               PROVE  /\ Cardinality(paid') <= MaxDrills - drills'
                      /\ \A h \in Hurries : Pending(h)' => drills' > 0
  BY DEF Spends
<1>3. /\ Cardinality(paid) <= MaxDrills - drills
      /\ \A h \in Hurries : Pending(h) => drills > 0
      /\ \A g, h \in Hurries : hurry[g].at # "idle" /\ hurry[h].at # "idle" => g = h
  BY <1>1, <1>2, QuietIs DEF Spends, Alone
<1>4. drills \in 0..MaxDrills /\ paid \subseteq Id
  BY DEF TypeOK
<1>5. ASSUME UNCHANGED <<drills, paid>>,
             \A h \in Hurries : Pending(h)' => Pending(h)
      PROVE  /\ Cardinality(paid') <= MaxDrills - drills'
             /\ \A h \in Hurries : Pending(h)' => drills' > 0
  BY <1>3, <1>5
<1>6. UNCHANGED hurry => \A h \in Hurries : Pending(h)' => Pending(h)
  BY DEF Pending
<1>7. CASE Rests
  BY <1>5, <1>7 DEF Rests, Pending
<1>8. CASE TimePasses
  BY <1>5, <1>6, <1>8, TimeIs
<1>9. CASE AdminActs
  BY <1>5, <1>6, <1>9, AdminIs
<1>10. CASE Lists \/ Orders \/ Wishes
  BY <1>5, <1>6, <1>10, BeginsIs
<1>11. CASE DeskPersists
  BY <1>5, <1>6, <1>11 DEF DeskPersists
<1>12. ASSUME NEW h \in Hurries, HurryLists(h)
       PROVE  /\ Cardinality(paid') <= MaxDrills - drills'
              /\ \A g \in Hurries : Pending(g)' => drills' > 0
  <2>1. /\ UNCHANGED <<drills, paid>>
        /\ hurry[h].at = "list" /\ \A g \in Hurries : g # h => hurry'[g] = hurry[g]
        /\ \/ SettlesWith(h, now)
           \/ \E todo \in SUBSET DOMAIN builds : GoesOnWith(h, todo, now)
    BY <1>12, ListsIs
  <2>2. CASE SettlesWith(h, now)
    <3>1. hurry'[h].at = "idle"
      BY <2>2, IdleIs DEF SettlesWith
    <3> QED BY <1>5, <2>1, <3>1 DEF Pending
  <2>3. ASSUME NEW todo \in SUBSET DOMAIN builds, GoesOnWith(h, todo, now)
        PROVE  /\ Cardinality(paid') <= MaxDrills - drills'
               /\ \A g \in Hurries : Pending(g)' => drills' > 0
    <3>1. drills' # 0
      BY <2>3 DEF GoesOnWith
    <3> QED BY <1>3, <1>4, <2>1, <3>1, ConstantsAre
  <2> QED BY <2>1, <2>2, <2>3
<1>13. ASSUME NEW h \in Hurries, HurryUpdates(h)
       PROVE  /\ Cardinality(paid') <= MaxDrills - drills'
              /\ \A g \in Hurries : Pending(g)' => drills' > 0
  <2>1. UNCHANGED <<drills, paid>> /\ hurry[h].at = "update"
    BY <1>13 DEF HurryUpdates, wallet
  <2>2. \A g \in Hurries : g # h => hurry'[g] = hurry[g]
    BY <1>13, UpdatesIs
  <2> QED BY <1>5, <2>1, <2>2 DEF Pending
<1>14. ASSUME NEW h \in Hurries, HurryPays(h)
       PROVE  /\ Cardinality(paid') <= MaxDrills - drills'
              /\ \A g \in Hurries : Pending(g)' => drills' > 0
  <2>1. /\ hurry[h].at = "pay" /\ Turn(h) \in Id /\ paid' = paid \cup {Turn(h)}
        /\ drills' = IF drills = 0 THEN 0 ELSE drills - 1
        /\ \A g \in Hurries : g # h => hurry'[g] = hurry[g]
        /\ \/ SettlesWith(h, hurry[h].clock)
           \/ GoesOnWith(h, hurry[h].todo \ {Turn(h)}, hurry[h].clock)
    BY <1>14, PaysIs
  <2>2. drills > 0
    BY <1>3, <2>1 DEF Pending
  <2>3. drills' = drills - 1
    BY <1>4, <2>1, <2>2, ConstantsAre
  <2>4. Cardinality(paid') <= Cardinality(paid) + 1
    <3>1. IsFiniteSet(paid) /\ Cardinality(paid) \in Nat
      BY <1>4, IdsAre
    <3>2. CASE Turn(h) \in paid
      <4>1. paid' = paid
        BY <2>1, <3>2
      <4> QED BY <3>1, <4>1
    <3>3. CASE Turn(h) \notin paid
      <4>1. Cardinality(paid \cup {Turn(h)}) = Cardinality(paid) + 1
        BY <3>1, <3>3, FS_AddElement
      <4> QED BY <2>1, <3>1, <4>1
    <3> QED BY <3>2, <3>3
  <2>5. Cardinality(paid') \in Nat /\ Cardinality(paid) \in Nat
    <3>1. paid' \subseteq Id
      BY <1>4, <2>1
    <3> QED BY <1>4, <3>1, IdsAre
  <2>6. Cardinality(paid') <= MaxDrills - drills'
    BY <1>3, <1>4, <2>3, <2>4, <2>5, ConstantsAre
  <2>7. ASSUME NEW g \in Hurries, Pending(g)' PROVE drills' > 0
    <3>1. g = h
      <4>1. g # h => hurry[g].at # "idle" /\ hurry[h].at # "idle"
        BY <2>1, <2>7 DEF Pending
      <4> QED BY <1>3, <4>1
    <3>2. hurry'[h].at # "idle"
      BY <2>7, <3>1 DEF Pending
    <3>3. drills' # 0
      BY <2>1, <3>2, IdleIs DEF SettlesWith, GoesOnWith
    <3> QED BY <1>4, <2>2, <2>3, <3>3, ConstantsAre
  <2> QED BY <2>6, <2>7
<1>15. CASE Collects \/ CollectFails
  BY <1>5, <1>6, <1>15, CollectsIs
<1> QED BY <1>7, <1>8, <1>9, <1>10, <1>11, <1>12, <1>13, <1>14, <1>15, StepIs

(* What has a row, or none yet, has not been granted.                      *)
Once ==
  \A i \in Id : i \in DOMAIN builds \/ i >= nextId => granted[i] = 0

(* Every step keeps it that what may be granted has not been.              *)
LEMMA OnceNext ==
  ASSUME TypeOK, Sane, [Next]_vars, Once
  PROVE  Once'
<1>1. nextId \in Nat /\ \A i \in Id : i \in Nat
  <2>1. nextId \in 1..(MaxBuilds + 1)
    BY DEF TypeOK
  <2>2. Id \subseteq Nat
    BY IdsAre
  <2> QED BY <2>1, <2>2, ConstantsAre
<1>2. ASSUME UNCHANGED granted, nextId' \in Nat, nextId <= nextId',
             \A i \in DOMAIN builds' : i \in DOMAIN builds \/ i >= nextId
      PROVE  Once'
  <2>1. ASSUME NEW i \in Id, i \in DOMAIN builds' \/ i >= nextId' PROVE granted[i] = 0
    <3>1. i \in DOMAIN builds \/ i >= nextId
      BY <1>1, <1>2, <2>1
    <3> QED BY <3>1 DEF Once
  <2> QED BY <1>2, <2>1 DEF Once
<1>3. ASSUME UNCHANGED <<granted, nextId, builds>> PROVE Once'
  BY <1>3 DEF Once
<1>4. CASE Rests
  BY <1>3, <1>4 DEF Rests
<1>5. CASE TimePasses
  BY <1>3, <1>5, TimeIs
<1>6. CASE AdminActs
  <2>1. /\ UNCHANGED granted /\ nextId' \in 1..(MaxBuilds + 1) /\ nextId <= nextId'
        /\ \A i \in DOMAIN builds' : i \notin DOMAIN builds => i >= nextId
    BY <1>6, AdminIs
  <2>2. nextId' \in Nat
    BY <2>1, ConstantsAre
  <2> QED BY <1>2, <2>1, <2>2
<1>7. CASE Lists \/ Orders \/ Wishes
  BY <1>3, <1>7, BeginsIs
<1>8. CASE DeskPersists
  <2>1. UNCHANGED granted /\ nextId' = nextId + Len(desk.new)
    BY <1>8 DEF DeskPersists
  <2>2. desk # Free /\ DOMAIN builds' = DOMAIN builds \cup Added
    BY <1>8, PersistsIs
  <2>3. Len(desk.new) \in Nat /\ \A i \in Added : i >= nextId
    BY <2>2, AddedAre
  <2>4. nextId' \in Nat /\ nextId <= nextId'
    BY <1>1, <2>1, <2>3
  <2> QED BY <1>2, <2>1, <2>2, <2>3, <2>4
<1>9. ASSUME NEW h \in Hurries, HurryLists(h) \/ HurryUpdates(h) \/ HurryPays(h)
      PROVE  Once'
  <2>1. UNCHANGED <<granted, nextId>>
    BY <1>9 DEF HurryLists, HurryUpdates, HurryPays, dock
  <2>2. DOMAIN builds' = DOMAIN builds
    BY <1>9, UpdatesIs DEF HurryLists, HurryPays, dock
  <2> QED BY <1>1, <1>2, <2>1, <2>2
<1>10. CASE Collects \/ CollectFails
  <2>1. /\ UNCHANGED nextId /\ DOMAIN builds' \subseteq DOMAIN builds
        /\ \E ids \in SUBSET Finished : ids \cap DOMAIN builds' = {} /\ Grant(ids)
    BY <1>10, CollectsIs
  <2>2. PICK ids \in SUBSET Finished : ids \cap DOMAIN builds' = {} /\ Grant(ids)
    BY <2>1
  <2>3. granted' = [i \in Id |-> granted[i] + IF i \in ids THEN 1 ELSE 0]
    BY <2>2 DEF Grant
  <2>4. \A i \in ids : i < nextId
    BY <2>2 DEF Finished, Sane
  <2>5. ASSUME NEW i \in Id, i \in DOMAIN builds' \/ i >= nextId PROVE granted'[i] = 0
    <3>1. i \notin ids
      BY <1>1, <2>2, <2>4, <2>5
    <3>2. granted[i] = 0
      BY <2>1, <2>5 DEF Once
    <3> QED BY <2>3, <3>1, <3>2
  <2> QED BY <2>1, <2>5 DEF Once
<1> QED BY <1>4, <1>5, <1>6, <1>7, <1>8, <1>9, <1>10, StepIs

(* A call is over before the clock moves.                                  *)
DeskIsCurrent == Quiet({"late"}) /\ desk # Free => desk.clock = now

(* Every step keeps the clock of a call current: time waits for it, and a  *)
(* clock of the past is remembered.                                        *)
LEMMA DeskIsCurrentNext ==
  ASSUME TypeOK, Sane, [Next]_vars, DeskIsCurrent
  PROVE  DeskIsCurrent'
<1>1. unusual \subseteq unusual'
  BY MonotoneIs
<1>2. Quiet({"late"})' => Quiet({"late"})
  BY <1>1, QuietIs
<1>3. UNCHANGED <<desk, now>> => DeskIsCurrent'
  BY <1>2 DEF DeskIsCurrent
<1>4. CASE Rests
  BY <1>3, <1>4 DEF Rests
<1>5. CASE TimePasses
  BY <1>5, TimeIs DEF DeskIsCurrent
<1>6. CASE AdminActs
  BY <1>3, <1>6, AdminIs
<1>7. CASE Lists \/ Orders \/ Wishes
  BY <1>7, BeginsIs DEF DeskIsCurrent
<1>8. CASE DeskPersists
  BY <1>8 DEF DeskPersists, DeskIsCurrent
<1>9. ASSUME NEW h \in Hurries, NEW clock \in Nat, SettlesWith(h, clock), clock <= now,
             UNCHANGED now
      PROVE  DeskIsCurrent'
  <2>1. now \in Nat
    BY DEF TypeOK
  <2>2. desk'.clock = clock /\ (clock < now => "late" \in unusual')
    BY <1>9 DEF SettlesWith
  <2>3. clock < now => ~Quiet({"late"})'
    BY <2>2 DEF Quiet
  <2> QED BY <1>9, <2>1, <2>2, <2>3 DEF DeskIsCurrent
<1>10. ASSUME NEW h \in Hurries, NEW todo, NEW clock, GoesOnWith(h, todo, clock), UNCHANGED now
       PROVE  DeskIsCurrent'
  BY <1>3, <1>10 DEF GoesOnWith
<1>11. ASSUME NEW h \in Hurries, HurryLists(h) PROVE DeskIsCurrent'
  <2>1. UNCHANGED now /\ (SettlesWith(h, now) \/ \E todo : GoesOnWith(h, todo, now))
    BY <1>11, ListsIs
  <2>2. now \in Nat /\ now <= now
    BY DEF TypeOK
  <2> QED BY <1>9, <1>10, <2>1, <2>2
<1>12. ASSUME NEW h \in Hurries, HurryUpdates(h) PROVE DeskIsCurrent'
  BY <1>3, <1>12 DEF HurryUpdates
<1>13. ASSUME NEW h \in Hurries, HurryPays(h) PROVE DeskIsCurrent'
  <2>1. /\ UNCHANGED now /\ hurry[h].at = "pay"
        /\ SettlesWith(h, hurry[h].clock) \/ \E todo : GoesOnWith(h, todo, hurry[h].clock)
    BY <1>13, PaysIs
  <2>2. hurry[h].clock \in Nat
    BY TasksIs DEF Tasks
  <2>3. hurry[h].clock <= now
    BY <2>1 DEF Sane, Pending, PendingIsSane
  <2> QED BY <1>9, <1>10, <2>1, <2>2, <2>3
<1>14. CASE Collects \/ CollectFails
  BY <1>3, <1>14, CollectsIs
<1> QED BY <1>4, <1>5, <1>6, <1>7, <1>8, <1>11, <1>12, <1>13, <1>14, StepIs

(* The rows that a call has loaded are the rows there are, but for what a  *)
(* quick finish has ended since.                                           *)
DeskHasTheRows ==
  Quiet({"admin"}) /\ desk # Free =>
    /\ DOMAIN desk.rows = DOMAIN builds
    /\ \A i \in DOMAIN builds :
         \/ builds[i] = desk.rows[i]
         \/ /\ builds[i].fin < now /\ "crossed" \in unusual
            /\ builds[i].ship = desk.rows[i].ship

(* Every step keeps the rows that a call has loaded those there are: only  *)
(* the update of a quick finish comes between.                             *)
LEMMA DeskHasTheRowsNext ==
  ASSUME TypeOK, Sane, [Next]_vars, DeskHasTheRows
  PROVE  DeskHasTheRows'
<1>1. unusual \subseteq unusual'
  BY MonotoneIs
<1>2. Quiet({"admin"})' => Quiet({"admin"})
  BY <1>1, QuietIs
<1>3. UNCHANGED <<desk, builds, now>> => DeskHasTheRows'
  BY <1>1, <1>2 DEF DeskHasTheRows
<1>4. desk'.rows = builds /\ UNCHANGED builds => DeskHasTheRows'
  BY DEF DeskHasTheRows
<1>5. desk' = Free => DeskHasTheRows'
  BY DEF DeskHasTheRows
<1>6. CASE Rests
  BY <1>3, <1>6 DEF Rests
<1>7. CASE TimePasses
  BY <1>5, <1>7, TimeIs
<1>8. CASE AdminActs
  BY <1>8, AdminIs DEF DeskHasTheRows, Quiet
<1>9. CASE Lists \/ Orders \/ Wishes
  BY <1>4, <1>9, BeginsIs
<1>10. CASE DeskPersists
  BY <1>5, <1>10 DEF DeskPersists
<1>11. ASSUME NEW h \in Hurries, HurryLists(h) \/ HurryPays(h) PROVE DeskHasTheRows'
  <2>1. /\ UNCHANGED <<builds, now>> /\ \E clock : \/ SettlesWith(h, clock)
                                     \/ \E todo : GoesOnWith(h, todo, clock)
    BY <1>11, ListsIs, PaysIs
  <2> QED BY <1>3, <1>4, <2>1 DEF SettlesWith, GoesOnWith
<1>12. ASSUME NEW h \in Hurries, HurryUpdates(h) PROVE DeskHasTheRows'
  <2>1. /\ DOMAIN builds' = DOMAIN builds
        /\ \A i \in DOMAIN builds :
              /\ i # Turn(h) => builds'[i] = builds[i]
              /\ i = Turn(h) =>
                   /\ builds'[i].fin = hurry[h].clock - 1
                   /\ builds'[i].ship = builds[i].ship
        /\ hurry[h].clock - 1 < now
        /\ desk # Free => "crossed" \in unusual'
        /\ UNCHANGED <<desk, now>>
    BY <1>12, UpdatesIs DEF HurryUpdates
  <2>2. SUFFICES ASSUME Quiet({"admin"}), desk # Free
                 PROVE  DOMAIN desk.rows = DOMAIN builds' /\
                        \A i \in DOMAIN builds' :
                          \/ builds'[i] = desk.rows[i]
                          \/ /\ builds'[i].fin < now /\ "crossed" \in unusual'
                             /\ builds'[i].ship = desk.rows[i].ship
    BY <1>2, <2>1 DEF DeskHasTheRows
  <2>3. /\ DOMAIN desk.rows = DOMAIN builds
        /\ \A i \in DOMAIN builds :
             \/ builds[i] = desk.rows[i]
             \/ /\ builds[i].fin < now /\ "crossed" \in unusual
                /\ builds[i].ship = desk.rows[i].ship
    BY <2>2 DEF DeskHasTheRows
  <2> QED BY <1>1, <2>1, <2>2, <2>3
<1>13. CASE Collects \/ CollectFails
  BY <1>5, <1>13, CollectsIs
<1> QED BY <1>6, <1>7, <1>8, <1>9, <1>10, <1>11, <1>12, <1>13, StepIs

(* What is due of the rows that a settling at t may be given.              *)
DueBy(rows, t) ==
  \A i \in DOMAIN rows : due[i] <= rows[i].fin /\ due[i] <= t + Dur(rows[i])

(* No finish is before the time that is due, of the rows and of those      *)
(* that a call has loaded.                                                 *)
TimeIsDue ==
  Quiet({"admin", "late"}) =>
    /\ DueBy(builds, now) /\ (desk # Free => DueBy(desk.rows, desk.clock))

(* The types of what is due.                                               *)
LEMMA DueIs ==
  ASSUME TypeOK
  PROVE  /\ due \in [Id -> Nat] /\ \A i \in Id : due[i] \in Nat
         /\ \A i \in DOMAIN builds : due[i] \in Nat
BY DEF TypeOK, Rows

(* Every step keeps finishes behind what is due: the settling moves a      *)
(* finish only to where there is time for the whole build.                 *)
LEMMA TimeIsDueNext ==
  ASSUME TypeOK, TypeOK', Sane, [Next]_vars, DeskIsCurrent, TimeIsDue
  PROVE  TimeIsDue'
<1>1. unusual \subseteq unusual'
  BY MonotoneIs
<1>2. SUFFICES ASSUME Quiet({"admin", "late"})'
               PROVE  /\ DueBy(builds, now)'
                      /\ desk' # Free => DueBy(desk.rows, desk.clock)'
  BY DEF TimeIsDue
<1>3. /\ Quiet({"admin", "late"}) /\ DueBy(builds, now)
      /\ desk # Free => DueBy(desk.rows, desk.clock) /\ desk.clock = now
  <2>1. Quiet({"admin", "late"})
    BY <1>1, <1>2, QuietIs
  <2>2. Quiet({"late"})
    BY <2>1, QuietFor
  <2> QED BY <2>1, <2>2 DEF TimeIsDue, DeskIsCurrent
<1>4. /\ now \in Nat /\ due \in [Id -> Nat] /\ Rows(builds)
      /\ DOMAIN builds \subseteq Id
  BY DueIs DEF TypeOK, Rows
<1> DEFINE Goal == /\ DueBy(builds, now)'
                   /\ desk' # Free => DueBy(desk.rows, desk.clock)'
<1>5. UNCHANGED <<builds, now, due>> => DueBy(builds, now)'
  BY <1>3 DEF DueBy
<1>6. UNCHANGED <<desk, due>> => (desk' # Free => DueBy(desk.rows, desk.clock)')
  BY <1>3 DEF DueBy
<1>7. desk'.rows = builds /\ desk'.clock = now /\ UNCHANGED due
        => DueBy(desk.rows, desk.clock)'
  BY <1>3 DEF DueBy
<1>8. CASE Rests
  BY <1>5, <1>6, <1>8 DEF Rests
<1>9. CASE TimePasses
  <2>1. /\ UNCHANGED <<builds, desk, due>> /\ now' = now + 1
    BY <1>9, TimeIs
  <2>2. ASSUME NEW i \in DOMAIN builds
        PROVE  due[i] <= builds[i].fin /\ due[i] <= (now + 1) + Dur(builds[i])
    <3>1. due[i] \in Nat /\ Dur(builds[i]) \in Nat
      BY <1>4, RowIs
    <3> QED BY <1>3, <1>4, <3>1 DEF DueBy
  <2>3. DueBy(builds, now)'
    BY <2>1, <2>2 DEF DueBy
  <2> QED BY <1>6, <2>1, <2>3
<1>10. CASE AdminActs
  BY <1>2, <1>10, AdminIs DEF Quiet
<1>11. CASE Lists \/ Orders \/ Wishes
  BY <1>5, <1>7, <1>11, BeginsIs
<1>12. CASE DeskPersists
  <2>1. /\ UNCHANGED now /\ desk' = Free
        /\ due' = [i \in Id |->
             IF i \in Added THEN desk.clock + Dur(NewRow(i)) ELSE due[i]]
    BY <1>12 DEF DeskPersists
  <2>2. /\ desk # Free
        /\ Planned = Settle(Loaded, desk.clock) /\ Rows(Planned)
        /\ DOMAIN Planned = DOMAIN desk.rows \cup Added
        /\ Rows(builds') /\ DOMAIN builds' = DOMAIN builds \cup Added
        /\ \A i \in Added : builds'[i] = Planned[i]
        /\ \A i \in DOMAIN desk.rows \cap DOMAIN builds :
              \/ builds'[i] = Planned[i]
              \/ builds'[i] = builds[i] /\ Planned[i] = desk.rows[i]
        /\ \A i \in DOMAIN builds : i \notin DOMAIN desk.rows => builds'[i] = builds[i]
    BY <1>12, PersistsIs
  <2>3. desk.clock = now /\ DueBy(desk.rows, now)
    BY <1>3, <2>2
  <2>4. /\ Added \subseteq Id /\ Added \cap DOMAIN builds = {}
        /\ Added \cap DOMAIN desk.rows = {}
    BY <2>2, AddedAre
  <2>5. /\ Rows(Loaded) /\ DOMAIN Loaded = DOMAIN desk.rows \cup Added
        /\ \A i \in Added : Loaded[i] = NewRow(i) /\ Loaded[i].fin = Unplanned
        /\ \A i \in DOMAIN desk.rows : Loaded[i] = desk.rows[i]
        /\ \A i \in DOMAIN Loaded : Loaded[i].started => Loaded[i].fin # Unplanned
    BY <2>2, LoadedIs, AddedAre
  <2>6. \A i \in DOMAIN Loaded :
          /\ Planned[i].ship = Loaded[i].ship /\ Dur(Planned[i]) = Dur(Loaded[i])
          /\ Planned[i].fin = Loaded[i].fin \/ Planned[i].fin >= now + Dur(Loaded[i])
          /\ Loaded[i].fin = Unplanned => Planned[i].fin >= now + Dur(Loaded[i])
    BY <1>4, <2>2, <2>3, <2>5, SettleIs
  <2>7. ASSUME NEW i \in Added
        PROVE  due'[i] <= builds'[i].fin /\ due'[i] <= now + Dur(builds'[i])
    <3>1. due'[i] = now + Dur(NewRow(i))
      BY <2>1, <2>3, <2>4
    <3>2. /\ builds'[i] = Planned[i] /\ Dur(Planned[i]) = Dur(NewRow(i))
          /\ Planned[i].fin >= now + Dur(NewRow(i))
      BY <2>2, <2>5, <2>6
    <3>3. Planned[i].fin \in Nat /\ Dur(Planned[i]) \in Nat
      BY <2>2, RowIs
    <3> QED BY <1>4, <3>1, <3>2, <3>3
  <2>8. ASSUME NEW i \in DOMAIN builds
        PROVE  due'[i] <= builds'[i].fin /\ due'[i] <= now + Dur(builds'[i])
    <3>1. due'[i] = due[i]
      BY <1>4, <2>1, <2>4
    <3>2. CASE builds'[i] = builds[i]
      BY <1>3, <3>1, <3>2 DEF DueBy
    <3>3. CASE i \in DOMAIN desk.rows /\ builds'[i] = Planned[i]
      <4>1. /\ Loaded[i] = desk.rows[i] /\ i \in DOMAIN Loaded
            /\ due[i] <= desk.rows[i].fin /\ due[i] <= now + Dur(desk.rows[i])
        BY <2>3, <2>5, <3>3 DEF DueBy
      <4>2. /\ Dur(Planned[i]) = Dur(desk.rows[i])
            /\ \/ Planned[i].fin = desk.rows[i].fin
               \/ Planned[i].fin >= now + Dur(desk.rows[i])
        BY <2>6, <4>1
      <4>3. Planned[i].fin \in Nat /\ Dur(Planned[i]) \in Nat /\ due[i] \in Nat
        BY <1>4, <2>2, <3>3, RowIs
      <4> QED BY <1>4, <3>1, <3>3, <4>1, <4>2, <4>3
    <3> QED BY <2>2, <3>2, <3>3
  <2>9. DueBy(builds, now)'
    BY <2>1, <2>2, <2>7, <2>8 DEF DueBy
  <2> QED BY <2>1, <2>9
<1>13. ASSUME NEW h \in Hurries, NEW clock \in Nat, SettlesWith(h, clock), clock <= now,
              UNCHANGED <<builds, now, due>>
       PROVE  Goal
  <2>1. desk'.rows = builds /\ desk'.clock = clock /\ (clock < now => "late" \in unusual')
    BY <1>13 DEF SettlesWith
  <2>2. clock = now
    BY <1>2, <1>4, <1>13, <2>1 DEF Quiet
  <2> QED BY <1>5, <1>7, <1>13, <2>1, <2>2
<1>14. ASSUME NEW h \in Hurries, NEW todo, NEW clock, GoesOnWith(h, todo, clock),
              UNCHANGED <<builds, now, due>>
       PROVE  Goal
  BY <1>5, <1>6, <1>14 DEF GoesOnWith
<1>15. ASSUME NEW h \in Hurries, HurryLists(h) PROVE Goal
  <2>1. /\ UNCHANGED <<builds, now, due>>
        /\ SettlesWith(h, now) \/ \E todo : GoesOnWith(h, todo, now)
    BY <1>15, ListsIs
  <2>2. now <= now
    BY <1>4
  <2> QED BY <1>4, <1>13, <1>14, <2>1, <2>2
<1>16. ASSUME NEW h \in Hurries, HurryPays(h) PROVE Goal
  <2>1. /\ UNCHANGED <<builds, now, due>> /\ hurry[h].at = "pay"
        /\ SettlesWith(h, hurry[h].clock) \/ \E todo : GoesOnWith(h, todo, hurry[h].clock)
    BY <1>16, PaysIs
  <2>2. hurry[h].clock \in Nat
    BY TasksIs DEF Tasks
  <2>3. hurry[h].clock <= now
    BY <2>1 DEF Sane, Pending, PendingIsSane
  <2> QED BY <1>13, <1>14, <2>1, <2>2, <2>3
<1>17. ASSUME NEW h \in Hurries, HurryUpdates(h) PROVE Goal
  <2>1. /\ UNCHANGED <<now, desk>>
        /\ DOMAIN builds' = DOMAIN builds /\ Rows(builds')
        /\ \A i \in DOMAIN builds :
              /\ i # Turn(h) => builds'[i] = builds[i]
              /\ i = Turn(h) => builds'[i].ship = builds[i].ship
        /\ Turn(h) \in Id
        /\ due' = [due EXCEPT ![Turn(h)] = 0]
    BY <1>17, UpdatesIs DEF HurryUpdates
  <2>2. \A i \in Id : due'[i] = IF i = Turn(h) THEN 0 ELSE due[i]
    BY <1>4, <2>1
  <2>3. ASSUME NEW i \in DOMAIN builds
        PROVE  due'[i] <= builds'[i].fin /\ due'[i] <= now + Dur(builds'[i])
    <3>1. builds'[i].fin \in Nat /\ Dur(builds'[i]) \in Nat
      BY <2>1, RowIs
    <3>2. CASE i = Turn(h)
      BY <1>4, <2>1, <2>2, <3>1, <3>2
    <3>3. CASE i # Turn(h)
      BY <1>3, <1>4, <2>1, <2>2, <3>3 DEF DueBy
    <3> QED BY <3>2, <3>3
  <2>4. DueBy(builds, now)'
    BY <2>1, <2>3 DEF DueBy
  <2>5. ASSUME desk # Free, NEW i \in DOMAIN desk.rows
        PROVE  due'[i] <= desk.rows[i].fin /\ due'[i] <= desk.clock + Dur(desk.rows[i])
    <3>1. desk.rows[i].fin \in Nat /\ Dur(desk.rows[i]) \in Nat /\ i \in Id
      BY <2>5, DeskIs, RowIs DEF Rows
    <3>2. due[i] <= desk.rows[i].fin /\ due[i] <= desk.clock + Dur(desk.rows[i])
      BY <1>3, <2>5 DEF DueBy
    <3>3. desk.clock \in Nat
      BY <2>5, DeskIs
    <3>4. due'[i] = 0 \/ due'[i] = due[i]
      BY <2>2, <3>1
    <3> QED BY <3>1, <3>2, <3>3, <3>4
  <2>6. desk' # Free => DueBy(desk.rows, desk.clock)'
    BY <2>1, <2>5 DEF DueBy
  <2> QED BY <2>4, <2>6
<1>18. CASE Collects \/ CollectFails
  <2>1. /\ UNCHANGED <<now, desk>> /\ desk = Free
        /\ DOMAIN builds' \subseteq DOMAIN builds
        /\ \A i \in DOMAIN builds' : builds'[i] = builds[i]
        /\ \E ids \in SUBSET Finished : ids \cap DOMAIN builds' = {} /\ Grant(ids)
    BY <1>18, CollectsIs
  <2>2. PICK ids \in SUBSET Finished : ids \cap DOMAIN builds' = {} /\ Grant(ids)
    BY <2>1
  <2>3. due' = [i \in Id |-> IF i \in ids THEN 0 ELSE due[i]]
    BY <2>2 DEF Grant
  <2>4. \A i \in DOMAIN builds' : due'[i] = due[i]
    BY <1>4, <2>1, <2>2, <2>3
  <2>5. DueBy(builds, now)'
    BY <1>3, <2>1, <2>4 DEF DueBy
  <2> QED BY <2>1, <2>5
<1> HIDE DEF Goal
<1>19. Goal
  BY <1>8, <1>9, <1>10, <1>11, <1>12, <1>15, <1>16, <1>17, <1>18, StepIs, Zenon DEF Goal
<1> QED BY <1>19 DEF Goal

(* Builds that a drill is spent on: they are finished for every call that  *)
(* is under way.                                                           *)
Hurried(i) == i \in paid \/ \E h \in Hurries : hurry[h].at = "pay" /\ i = Turn(h)
StaysFinished ==
  Quiet({"admin", "crossed", "overlap"}) =>
    \A i \in DOMAIN builds : Hurried(i) =>
      /\ builds[i].fin <= now
      /\ \A h \in Hurries : Pending(h) => builds[i].fin <= hurry[h].clock
      /\ desk # Free => builds[i].fin <= desk.clock

(* Builds that a drill is spent on were placed.                            *)
LEMMA HurriedIs ==
  ASSUME TypeOK, Sane, NEW i, Hurried(i)
  PROVE  i \in Nat /\ i < nextId
<1>1. CASE i \in paid
  BY <1>1, IdsAre DEF TypeOK, Sane
<1>2. ASSUME NEW h \in Hurries, hurry[h].at = "pay", i = Turn(h)
      PROVE  i \in Nat /\ i < nextId
  <2>1. PendingIsSane(h)
    BY <1>2 DEF Sane, Pending
  <2>2. i \in hurry[h].todo /\ i \in Id
    BY <1>2, <2>1, TurnIs DEF PendingIsSane
  <2>3. i \in Nat
    BY <2>2, IdsAre
  <2> QED BY <2>1, <2>2, <2>3 DEF PendingIsSane
<1> QED BY <1>1, <1>2 DEF Hurried

(* Every step keeps such builds finished: whoever settles has a clock      *)
(* that they are finished by, and a settling leaves what is finished.      *)
LEMMA StaysFinishedNext ==
  ASSUME TypeOK, TypeOK', Sane, [Next]_vars, DeskHasTheRows, Alone, Alone', StaysFinished
  PROVE  StaysFinished'
<1>1. unusual \subseteq unusual'
  BY MonotoneIs
<1>2. SUFFICES ASSUME Quiet({"admin", "crossed", "overlap"})',
                      NEW i \in DOMAIN builds', Hurried(i)'
               PROVE  /\ builds'[i].fin <= now'
                      /\ \A h \in Hurries : Pending(h)' => builds'[i].fin <= hurry'[h].clock
                      /\ desk' # Free => builds'[i].fin <= desk'.clock
  BY DEF StaysFinished
<1>3. /\ Quiet({"admin", "crossed", "overlap"}) /\ Quiet({"admin"}) /\ Quiet({"overlap"})
      /\ Quiet({"crossed"})' /\ Quiet({"overlap"})' /\ Quiet({"crossed"})
  <2>1. Quiet({"admin", "crossed", "overlap"})
    BY <1>1, <1>2, QuietIs
  <2>2. Quiet({"crossed"})' /\ Quiet({"overlap"})'
    BY <1>2 DEF Quiet
  <2> QED BY <2>1, <2>2, QuietFor
<1>4. \A j \in DOMAIN builds : Hurried(j) =>
        /\ builds[j].fin <= now
        /\ \A h \in Hurries : Pending(h) => builds[j].fin <= hurry[h].clock
        /\ desk # Free => builds[j].fin <= desk.clock
  BY <1>3 DEF StaysFinished
<1>5. \A g, h \in Hurries : hurry[g].at # "idle" /\ hurry[h].at # "idle" => g = h
  BY <1>3 DEF Alone
<1>6. now \in Nat /\ Rows(builds) /\ Rows(builds')
  BY DEF TypeOK
<1> DEFINE Goal == /\ builds'[i].fin <= now'
                   /\ \A h \in Hurries : Pending(h)' => builds'[i].fin <= hurry'[h].clock
                   /\ desk' # Free => builds'[i].fin <= desk'.clock
<1>7. ASSUME UNCHANGED <<builds, paid, now, desk>>,
             \A h \in Hurries : hurry'[h] = hurry[h] \/ hurry'[h].at \notin {"update", "pay"}
      PROVE  Goal
  <2>1. Hurried(i)
    BY <1>2, <1>7 DEF Hurried, Turn
  <2> QED BY <1>2, <1>4, <1>7, <2>1 DEF Pending
<1>8. CASE Rests
  BY <1>7, <1>8 DEF Rests
<1>9. CASE TimePasses
  <2>1. UNCHANGED <<builds, desk, hurry, paid>> /\ desk = Free /\ now' = now + 1
    BY <1>9, TimeIs
  <2>2. Hurried(i)
    BY <1>2, <2>1 DEF Hurried, Turn
  <2>3. builds[i].fin \in Nat
    BY <1>2, <1>6, <2>1, RowIs
  <2> QED BY <1>2, <1>4, <1>6, <2>1, <2>2, <2>3 DEF Pending
<1>10. CASE AdminActs
  BY <1>2, <1>10, AdminIs DEF Quiet
<1>11. CASE Lists \/ Orders \/ Wishes
  <2>1. UNCHANGED <<builds, now, hurry, paid>> /\ desk'.clock = now
    BY <1>11, BeginsIs
  <2>2. Hurried(i)
    BY <1>2, <2>1 DEF Hurried, Turn
  <2> QED BY <1>2, <1>4, <2>1, <2>2 DEF Pending
<1>12. CASE DeskPersists
  <2>1. UNCHANGED <<now, hurry, paid>> /\ desk' = Free
    BY <1>12 DEF DeskPersists
  <2>2. Hurried(i)
    BY <1>2, <2>1 DEF Hurried, Turn
  <2>3. i \in Nat /\ i < nextId
    BY <2>2, HurriedIs
  <2>4. /\ desk # Free
        /\ Planned = Settle(Loaded, desk.clock)
        /\ DOMAIN builds' = DOMAIN builds \cup Added
        /\ \A j \in DOMAIN desk.rows \cap DOMAIN builds :
             builds[j] = desk.rows[j] => builds'[j] = Planned[j]
    BY <1>12, PersistsIs
  <2>5. i \notin Added
    <3>1. nextId \in Nat
      <4>1. nextId \in 1..(MaxBuilds + 1)
        BY DEF TypeOK
      <4> QED BY <4>1, ConstantsAre
    <3> QED BY <2>3, <2>4, <3>1, AddedAre
  <2>6. i \in DOMAIN builds /\ i \in DOMAIN desk.rows /\ builds[i] = desk.rows[i]
    BY <1>2, <1>3, <2>4, <2>5 DEF DeskHasTheRows, Quiet
  <2>7. builds'[i] = Planned[i]
    BY <2>4, <2>6
  <2>8. /\ Rows(Loaded) /\ i \in DOMAIN Loaded /\ Loaded[i] = builds[i]
        /\ builds[i].fin # Unplanned
        /\ \A j \in DOMAIN Loaded : Loaded[j].started => Loaded[j].fin # Unplanned
    BY <2>4, <2>6, LoadedIs DEF Sane
  <2>9. builds[i].fin <= desk.clock /\ desk.clock \in Nat
    BY <1>4, <2>2, <2>4, <2>6, DeskIs
  <2>10. Planned[i].fin = builds[i].fin
    BY <2>4, <2>8, <2>9, SettleIs
  <2> QED BY <1>4, <2>1, <2>2, <2>6, <2>7, <2>10 DEF Pending
<1>13. ASSUME NEW h \in Hurries, NEW clock, SettlesWith(h, clock),
              UNCHANGED <<builds, now>>, i \in DOMAIN builds, Hurried(i),
              builds[i].fin <= clock,
              \A g \in Hurries : g # h => hurry'[g] = hurry[g]
       PROVE  Goal
  <2>1. hurry'[h].at = "idle" /\ desk'.clock = clock
    BY <1>13, IdleIs DEF SettlesWith
  <2> QED BY <1>4, <1>13, <2>1 DEF Pending
<1>14. ASSUME NEW h \in Hurries, NEW todo, NEW clock, GoesOnWith(h, todo, clock),
              UNCHANGED <<builds, now>>, i \in DOMAIN builds, Hurried(i),
              builds[i].fin <= clock,
              \A g \in Hurries : g # h => hurry'[g] = hurry[g]
       PROVE  Goal
  <2>1. hurry'[h].clock = clock /\ desk' = desk
    BY <1>14 DEF GoesOnWith
  <2> QED BY <1>4, <1>14, <2>1 DEF Pending
<1>15. ASSUME NEW h \in Hurries, HurryLists(h) PROVE Goal
  <2>1. /\ UNCHANGED <<builds, now, paid>> /\ hurry[h].at = "list"
        /\ \A g \in Hurries : g # h => hurry'[g] = hurry[g]
        /\ SettlesWith(h, now) \/ \E todo : GoesOnWith(h, todo, now)
    BY <1>15, ListsIs
  <2>2. hurry'[h].at # "pay"
    BY <2>1, IdleIs DEF SettlesWith, GoesOnWith
  <2>3. i \in DOMAIN builds /\ Hurried(i)
    BY <1>2, <2>1, <2>2 DEF Hurried, Turn
  <2>4. builds[i].fin <= now
    BY <1>4, <2>3
  <2> QED BY <1>13, <1>14, <2>1, <2>3, <2>4
<1>16. ASSUME NEW h \in Hurries, HurryPays(h) PROVE Goal
  <2>1. /\ UNCHANGED <<builds, now>> /\ hurry[h].at = "pay"
        /\ paid' = paid \cup {Turn(h)}
        /\ \A g \in Hurries : g # h => hurry'[g] = hurry[g]
        /\ \/ SettlesWith(h, hurry[h].clock)
           \/ \E todo : GoesOnWith(h, todo, hurry[h].clock)
    BY <1>16, PaysIs
  <2>2. hurry'[h].at # "pay"
    BY <2>1, IdleIs DEF SettlesWith, GoesOnWith
  <2>3. i \in DOMAIN builds /\ Hurried(i)
    BY <1>2, <2>1, <2>2 DEF Hurried, Turn
  <2>4. builds[i].fin <= hurry[h].clock
    BY <1>4, <2>1, <2>3 DEF Pending
  <2> QED BY <1>13, <1>14, <2>1, <2>3, <2>4
<1>17. ASSUME NEW h \in Hurries, HurryUpdates(h) PROVE Goal
  <2>1. /\ UNCHANGED <<now, desk, paid>>
        /\ hurry[h].at = "update" /\ hurry'[h].at = "pay"
        /\ hurry'[h].todo = hurry[h].todo /\ hurry'[h].clock = hurry[h].clock
        /\ \A g \in Hurries : g # h => hurry'[g] = hurry[g]
        /\ DOMAIN builds' = DOMAIN builds
        /\ \A j \in DOMAIN builds :
              /\ j # Turn(h) => builds'[j] = builds[j]
              /\ j = Turn(h) => builds'[j].fin = hurry[h].clock - 1
        /\ hurry[h].clock - 1 \in Nat \ {0} /\ hurry[h].clock \in Nat
        /\ hurry[h].clock - 1 < now /\ hurry[h].clock <= now
        /\ desk # Free => "crossed" \in unusual'
    <3>1. /\ UNCHANGED <<now, desk, paid>>
          /\ hurry[h].at = "update"
      BY <1>17 DEF HurryUpdates
    <3> QED BY <1>17, <3>1, UpdatesIs, Zenon
  <2>2. desk' = Free
    <3>1. {"crossed"} \cap unusual' = {}
      BY <1>3, Zenon DEF Quiet
    <3>2. "crossed" \notin unusual'
      BY <3>1
    <3>3. desk' = desk /\ (desk # Free => "crossed" \in unusual')
      BY <1>17, UpdatesIs, Zenon DEF HurryUpdates
    <3> QED BY <3>2, <3>3
  <2>3. \A g \in Hurries : Pending(g)' => g = h
    BY <1>5, <2>1 DEF Pending
  <2>4. CASE i = Turn(h)
    <3>1. builds'[i].fin = hurry[h].clock - 1
      BY <1>2, <2>1, <2>4
    <3>2. hurry[h].clock - 1 <= now /\ hurry[h].clock - 1 <= hurry[h].clock
      BY <1>6, <2>1
    <3> QED BY <2>1, <2>2, <2>3, <3>1, <3>2
  <2>5. CASE i # Turn(h)
    <3>1. i \in DOMAIN builds /\ builds'[i] = builds[i]
      BY <1>2, <2>1, <2>5
    <3>2. Hurried(i)
      BY <1>2, <2>1, <2>5 DEF Hurried, Turn
    <3> QED BY <1>4, <2>1, <2>2, <2>3, <3>1, <3>2 DEF Pending
  <2> QED BY <2>4, <2>5
<1>18. CASE Collects \/ CollectFails
  <2>1. /\ UNCHANGED <<now, desk, hurry, paid>> /\ desk = Free
        /\ DOMAIN builds' \subseteq DOMAIN builds
        /\ \A j \in DOMAIN builds' : builds'[j] = builds[j]
    BY <1>18, CollectsIs
  <2>2. i \in DOMAIN builds /\ Hurried(i) /\ builds'[i] = builds[i]
    BY <1>2, <2>1 DEF Hurried, Turn
  <2> QED BY <1>4, <2>1, <2>2 DEF Pending
<1> HIDE DEF Goal
<1>19. Goal
  BY <1>8, <1>9, <1>10, <1>11, <1>12, <1>15, <1>16, <1>17, <1>18, StepIs, Zenon DEF Goal
<1> QED BY <1>19 DEF Goal

(* Of rows that are the same but for some that are finished, no more count.*)
Fewer(s, r, t) == \A i \in DOMAIN s : (i \in DOMAIN r /\ s[i] = r[i]) \/ s[i].fin <= t

(* If rows differ only in some that are finished, no more of them count.   *)
LEMMA FewerCount ==
  ASSUME NEW r, Rows(r), NEW s, Rows(s), NEW t \in Nat, Fewer(s, r, t)
  PROVE  /\ CountingOf(s, t) \subseteq CountingOf(r, t)
         /\ Cardinality(CountingOf(s, t)) <= Cardinality(CountingOf(r, t))
         /\ Cardinality(CountingOf(s, t)) \in Nat /\ Cardinality(CountingOf(r, t)) \in Nat
         /\ Cardinality(CountingOf(r, t)) <= Slots =>
              Cardinality(CountingOf(s, t)) <= Slots
<1>1. ASSUME NEW i \in CountingOf(s, t) PROVE i \in CountingOf(r, t)
  <2>1. i \in DOMAIN s /\ t < s[i].fin /\ (s[i].started \/ Start(s[i]) <= t)
    BY DEF CountingOf
  <2>2. s[i].fin \in Nat
    BY <2>1, RowIs
  <2>3. i \in DOMAIN r /\ s[i] = r[i]
    BY <2>1, <2>2 DEF Fewer
  <2>4. t < r[i].fin /\ (r[i].started \/ Start(r[i]) <= t)
    BY <2>1, <2>3, Zenon
  <2> QED BY <2>3, <2>4 DEF CountingOf
<1>2. CountingOf(s, t) \in SUBSET CountingOf(r, t)
  BY <1>1
<1>3. IsFiniteSet(CountingOf(r, t)) /\ Cardinality(CountingOf(r, t)) \in Nat
  BY SomeIds, IdsAre
<1>4. /\ IsFiniteSet(CountingOf(s, t))
      /\ Cardinality(CountingOf(s, t)) <= Cardinality(CountingOf(r, t))
  BY <1>2, <1>3, FS_Subset
<1>5. Cardinality(CountingOf(s, t)) \in Nat
  BY <1>4, FS_CardinalityType
<1> QED BY <1>2, <1>3, <1>4, <1>5, ConstantsAre

(* And they fit if the others did.                                         *)
LEMMA FewerFit ==
  ASSUME NEW r, Rows(r), NEW s, Rows(s), NEW t \in Nat, Fewer(s, r, t), Fits(r, t)
  PROVE  Fits(s, t)
<1>1. CASE Cardinality(CountingOf(r, t)) <= Slots
  <2>1. Cardinality(CountingOf(s, t)) <= Slots
    BY <1>1, FewerCount
  <2> QED BY <2>1 DEF Fits
<1>2. CASE \A i \in DOMAIN r : ~r[i].started => ~(Start(r[i]) <= t /\ t < r[i].fin)
  <2>1. ASSUME NEW i \in DOMAIN s, ~s[i].started, Start(s[i]) <= t, t < s[i].fin
        PROVE  FALSE
    <3>1. s[i].fin \in Nat
      BY RowIs
    <3>2. i \in DOMAIN r /\ s[i] = r[i]
      BY <2>1, <3>1 DEF Fewer
    <3>3. ~r[i].started /\ Start(r[i]) <= t /\ t < r[i].fin
      BY <2>1, <3>2, Zenon
    <3> QED BY <1>2, <3>2, <3>3
  <2> QED BY <2>1 DEF Fits
<1> QED BY <1>1, <1>2 DEF Fits

(* The rows that a call settles fit if those that it has loaded do: what   *)
(* it adds has no finish.                                                  *)
LEMMA LoadedFits ==
  ASSUME TypeOK, Sane, desk # Free, NEW t \in Nat
  PROVE  /\ Fewer(Loaded, desk.rows, t)
         /\ Fits(desk.rows, t) => Fits(Loaded, t)
<1>1. /\ Rows(Loaded) /\ Rows(desk.rows) /\ DOMAIN Loaded = DOMAIN desk.rows \cup Added
      /\ \A i \in Added : Loaded[i].fin = Unplanned
      /\ \A i \in DOMAIN desk.rows : Loaded[i] = desk.rows[i]
  BY LoadedIs, AddedAre, DeskIs
<1>2. Fewer(Loaded, desk.rows, t)
  BY <1>1 DEF Fewer, Unplanned
<1> QED BY <1>1, <1>2, FewerFit

(* The exceptions under which more may run than there are slots.           *)
Tame == Quiet({"admin"}) /\ ~({"late", "overlap"} \subseteq unusual)

(* The exceptions do not go away.                                          *)
LEMMA TameIs ==
  ASSUME unusual \subseteq unusual', Tame'
  PROVE  Tame
BY DEF Tame, Quiet

(* At no moment do builds that run, or will, need more slots than there    *)
(* are; and the calls and the quick finishes under way settle with rows    *)
(* and clocks that keep it so.                                             *)
Booked ==
  Tame => \A t \in Nat : t >= now => Cardinality(Counting(t)) <= Slots
DeskFits == Tame /\ desk # Free => Fits(desk.rows, desk.clock)
HurriesFit ==
  Tame /\ Quiet({"overlap"}) =>
    \A h \in Hurries : Pending(h) =>
      /\ Fits(builds, hurry[h].clock)
      /\ desk # Free =>
           /\ hurry[h].clock <= desk.clock
           /\ \A i \in DOMAIN builds :
                builds[i] = desk.rows[i] \/ builds[i].fin < hurry[h].clock

(* Every step keeps it that no more slots are taken than there are: the    *)
(* plan of a call takes no more, and the rows differ from it only in what  *)
(* a quick finish has ended.                                               *)
LEMMA BookedNext ==
  ASSUME TypeOK, TypeOK', Sane, [Next]_vars, DeskHasTheRows, DeskFits, Booked
  PROVE  Booked'
<1>1. unusual \subseteq unusual'
  BY MonotoneIs
<1>2. SUFFICES ASSUME Tame', NEW t \in Nat, t >= now'
               PROVE  Cardinality(CountingOf(builds', t)) <= Slots
  BY DEF Booked, Counting
<1>3. Tame /\ Quiet({"admin"})
  BY <1>1, <1>2, TameIs DEF Tame
<1>4. Rows(builds) /\ Rows(builds') /\ now \in Nat
  BY DEF TypeOK
<1>5. now <= now' => Cardinality(CountingOf(builds, t)) <= Slots
  <2>1. now' \in Nat
    BY DEF TypeOK
  <2> QED BY <1>2, <1>3, <1>4, <2>1 DEF Booked, Counting
<1> DEFINE Goal == Cardinality(CountingOf(builds', t)) <= Slots
<1>6. UNCHANGED <<builds, now>> => Goal
  BY <1>4, <1>5
<1>7. CASE Rests
  BY <1>6, <1>7 DEF Rests
<1>8. CASE TimePasses
  <2>1. UNCHANGED builds /\ now <= now'
    BY <1>8, TimeIs
  <2> QED BY <1>5, <2>1
<1>9. CASE AdminActs
  BY <1>2, <1>9, AdminIs DEF Tame, Quiet
<1>10. CASE Lists \/ Orders \/ Wishes
  BY <1>6, <1>10, BeginsIs
<1>11. CASE DeskPersists
  <2>1. UNCHANGED now
    BY <1>11 DEF DeskPersists
  <2>2. /\ desk # Free /\ Rows(Planned)
        /\ Planned = Settle(Loaded, desk.clock)
        /\ DOMAIN Planned = DOMAIN desk.rows \cup Added
        /\ DOMAIN builds' = DOMAIN builds \cup Added
        /\ \A i \in Added : builds'[i] = Planned[i]
        /\ \A i \in DOMAIN desk.rows \cap DOMAIN builds :
             /\ \/ builds'[i] = Planned[i]
                \/ builds'[i] = builds[i] /\ Planned[i] = desk.rows[i]
             /\ builds[i] = desk.rows[i] => builds'[i] = Planned[i]
    BY <1>11, PersistsIs
  <2>3. /\ DOMAIN desk.rows = DOMAIN builds
        /\ \A i \in DOMAIN builds : builds[i] = desk.rows[i] \/ builds[i].fin < now
    BY <1>3, <2>2 DEF DeskHasTheRows
  <2>4. desk.clock \in Nat /\ desk.clock <= now
    BY <2>2, DeskIs DEF Sane, DeskIsSane
  <2>5. Fits(Loaded, desk.clock) /\ Rows(Loaded)
    BY <1>3, <2>2, <2>4, LoadedFits, LoadedIs DEF DeskFits
  <2>6. \A k \in Nat : k >= desk.clock => Cardinality(CountingOf(Planned, k)) <= Slots
    BY <2>2, <2>4, <2>5, SettleFits
  <2>7. Cardinality(CountingOf(Planned, t)) <= Slots
    BY <1>2, <1>4, <2>1, <2>4, <2>6
  <2>8. Fewer(builds', Planned, t)
    <3>1. ASSUME NEW i \in DOMAIN builds'
          PROVE  (i \in DOMAIN Planned /\ builds'[i] = Planned[i]) \/ builds'[i].fin <= t
      <4>1. CASE i \in Added
        BY <2>2, <4>1
      <4>2. CASE i \in DOMAIN builds /\ builds[i] = desk.rows[i]
        BY <2>2, <2>3, <4>2
      <4>3. CASE i \in DOMAIN builds /\ builds[i].fin < now
        <5>1. builds[i].fin \in Nat
          BY <1>4, <4>3, RowIs
        <5>2. builds[i].fin <= t
          BY <1>2, <1>4, <2>1, <4>3, <5>1
        <5> QED BY <2>2, <2>3, <4>3, <5>2
      <4> QED BY <2>2, <2>3, <4>1, <4>2, <4>3
    <3> QED BY <3>1 DEF Fewer
  <2> QED BY <1>4, <2>2, <2>7, <2>8, FewerCount
<1>12. ASSUME NEW h \in Hurries, HurryLists(h) \/ HurryPays(h) PROVE Goal
  BY <1>6, <1>12, ListsIs, PaysIs
<1>13. ASSUME UNCHANGED now, Fewer(builds', builds, t) PROVE Goal
  BY <1>4, <1>5, <1>13, FewerCount
<1>14. ASSUME NEW h \in Hurries, HurryUpdates(h) PROVE Goal
  <2>1. /\ UNCHANGED now
        /\ DOMAIN builds' = DOMAIN builds
        /\ \A i \in DOMAIN builds :
              /\ i # Turn(h) => builds'[i] = builds[i]
              /\ i = Turn(h) => builds'[i].fin = hurry[h].clock - 1
        /\ hurry[h].clock - 1 \in Nat \ {0} /\ hurry[h].clock - 1 < now
    <3>1. UNCHANGED now
      BY <1>14 DEF HurryUpdates
    <3> QED BY <1>14, <3>1, UpdatesIs, Zenon
  <2>2. hurry[h].clock - 1 <= t
    BY <1>2, <1>4, <2>1
  <2>3. Fewer(builds', builds, t)
    BY <2>1, <2>2 DEF Fewer
  <2> QED BY <1>13, <2>1, <2>3
<1>15. CASE Collects \/ CollectFails
  <2>1. /\ UNCHANGED now /\ DOMAIN builds' \subseteq DOMAIN builds
        /\ \A i \in DOMAIN builds' : builds'[i] = builds[i]
    BY <1>15, CollectsIs
  <2>2. Fewer(builds', builds, t)
    BY <2>1 DEF Fewer
  <2> QED BY <1>13, <2>1, <2>2
<1> HIDE DEF Goal
<1>16. Goal
  BY <1>7, <1>8, <1>9, <1>10, <1>11, <1>12, <1>14, <1>15, StepIs, Zenon DEF Goal
<1> QED BY <1>16 DEF Goal

(* Then the rows fit the present clock.                                    *)
LEMMA BookedFits ==
  ASSUME TypeOK, Tame, Booked
  PROVE  Fits(builds, now)
<1>1. now \in Nat
  BY DEF TypeOK
<1> QED BY <1>1 DEF Booked, Fits, Counting

(* Every step keeps it that the rows that a call has loaded fit its        *)
(* clock.                                                                  *)
LEMMA DeskFitsNext ==
  ASSUME TypeOK, Sane, [Next]_vars, Booked, HurriesFit, DeskFits
  PROVE  DeskFits'
<1>1. unusual \subseteq unusual'
  BY MonotoneIs
<1>2. SUFFICES ASSUME Tame', desk' # Free PROVE Fits(desk'.rows, desk'.clock)
  BY DEF DeskFits
<1>3. Tame /\ Fits(builds, now)
  BY <1>1, <1>2, TameIs, BookedFits
<1> DEFINE Goal == Fits(desk'.rows, desk'.clock)
<1>4. UNCHANGED desk => Goal
  BY <1>2, <1>3 DEF DeskFits
<1>5. desk'.rows = builds /\ desk'.clock = now => Goal
  BY <1>3
<1>6. CASE Rests
  BY <1>4, <1>6 DEF Rests
<1>7. CASE TimePasses
  BY <1>4, <1>7, TimeIs
<1>8. CASE AdminActs
  BY <1>4, <1>8, AdminIs
<1>9. CASE Lists \/ Orders \/ Wishes
  BY <1>5, <1>9, BeginsIs
<1>10. CASE DeskPersists
  BY <1>2, <1>10 DEF DeskPersists
<1>11. ASSUME NEW h \in Hurries, HurryLists(h) PROVE Goal
  <2>1. SettlesWith(h, now) \/ \E todo : GoesOnWith(h, todo, now)
    BY <1>11, ListsIs
  <2> QED BY <1>4, <1>5, <2>1 DEF SettlesWith, GoesOnWith
<1>12. ASSUME NEW h \in Hurries, HurryUpdates(h) PROVE Goal
  BY <1>4, <1>12 DEF HurryUpdates
<1>13. ASSUME NEW h \in Hurries, HurryPays(h) PROVE Goal
  <2>1. /\ hurry[h].at = "pay"
        /\ \/ SettlesWith(h, hurry[h].clock)
           \/ \E todo : GoesOnWith(h, todo, hurry[h].clock)
    BY <1>13, PaysIs
  <2>2. ASSUME SettlesWith(h, hurry[h].clock) PROVE Goal
    <3>1. /\ desk'.rows = builds /\ desk'.clock = hurry[h].clock
          /\ hurry[h].clock < now => "late" \in unusual'
      BY <2>2 DEF SettlesWith
    <3>2. CASE "overlap" \in unusual
      <4>1. ~(hurry[h].clock < now)
        BY <1>1, <1>2, <3>1, <3>2 DEF Tame
      <4>2. hurry[h].clock \in Nat /\ now \in Nat
        BY TasksIs DEF Tasks, TypeOK
      <4>3. hurry[h].clock <= now
        BY <2>1 DEF Sane, Pending, PendingIsSane
      <4>4. hurry[h].clock = now
        BY <4>1, <4>2, <4>3
      <4> QED BY <1>5, <3>1, <4>4
    <3>3. CASE "overlap" \notin unusual
      <4>1. Fits(builds, hurry[h].clock)
        BY <1>3, <2>1, <3>3 DEF HurriesFit, Quiet, Pending
      <4> QED BY <3>1, <4>1
    <3> QED BY <3>2, <3>3
  <2>3. ASSUME NEW todo, GoesOnWith(h, todo, hurry[h].clock) PROVE Goal
    BY <1>4, <2>3 DEF GoesOnWith
  <2> QED BY <2>1, <2>2, <2>3
<1>14. CASE Collects \/ CollectFails
  BY <1>4, <1>14, CollectsIs
<1>15. Goal
  BY <1>6, <1>7, <1>8, <1>9, <1>10, <1>11, <1>12, <1>13, <1>14, StepIs, Zenon
<1> QED BY <1>15

(* Every step keeps it that the rows fit the clock of the quick finish     *)
(* that is under way: nothing is promoted by a clock of the past that the  *)
(* present clock has not promoted.                                         *)
LEMMA HurriesFitNext ==
  ASSUME TypeOK, TypeOK', Sane, [Next]_vars, Alone, Alone', Booked, DeskHasTheRows,
         HurriesFit
  PROVE  HurriesFit'
<1>1. unusual \subseteq unusual'
  BY MonotoneIs
<1>2. SUFFICES ASSUME Tame', Quiet({"overlap"})', NEW h \in Hurries, Pending(h)'
               PROVE  /\ Fits(builds', hurry'[h].clock)
                      /\ desk' # Free =>
                           /\ hurry'[h].clock <= desk'.clock
                           /\ \A i \in DOMAIN builds' :
                                \/ builds'[i] = desk'.rows[i]
                                \/ builds'[i].fin < hurry'[h].clock
  BY DEF HurriesFit
<1>3. /\ Tame /\ Quiet({"admin"}) /\ Quiet({"overlap"}) /\ Fits(builds, now)
      /\ \A g \in Hurries : hurry'[g].at # "idle" => g = h
      /\ \A g, k \in Hurries : hurry[g].at # "idle" /\ hurry[k].at # "idle" => g = k
  <2>1. Tame /\ Quiet({"overlap"})
    BY <1>1, <1>2, TameIs, QuietIs
  <2>2. hurry'[h].at # "idle"
    BY <1>2 DEF Pending
  <2> QED BY <1>2, <2>1, <2>2, BookedFits DEF Alone, Tame
<1>4. Pending(h) => /\ Fits(builds, hurry[h].clock)
                    /\ desk # Free =>
                         /\ hurry[h].clock <= desk.clock
                         /\ \A i \in DOMAIN builds :
                              builds[i] = desk.rows[i] \/ builds[i].fin < hurry[h].clock
  BY <1>3 DEF HurriesFit
<1>5. /\ now \in Nat /\ Rows(builds) /\ Rows(builds')
      /\ hurry[h].clock \in Nat /\ hurry'[h].clock \in Nat
  BY TasksIs DEF TypeOK, Tasks
<1>6. Pending(h) => hurry[h].clock <= now
  BY DEF Sane, PendingIsSane
<1> DEFINE Goal == /\ Fits(builds', hurry'[h].clock)
                   /\ desk' # Free =>
                        /\ hurry'[h].clock <= desk'.clock
                        /\ \A i \in DOMAIN builds' :
                             \/ builds'[i] = desk'.rows[i]
                             \/ builds'[i].fin < hurry'[h].clock
<1>7. ASSUME UNCHANGED <<builds, desk>>, hurry'[h] = hurry[h] PROVE Goal
  BY <1>2, <1>4, <1>7 DEF Pending
<1>8. CASE Rests
  <2>1. hurry'[h] = hurry[h]
    BY <1>2, <1>8 DEF Rests, Pending
  <2> QED BY <1>7, <1>8, <2>1 DEF Rests
<1>9. CASE TimePasses
  BY <1>7, <1>9, TimeIs
<1>10. CASE AdminActs
  BY <1>2, <1>10, AdminIs DEF Tame, Quiet
<1>11. CASE Lists \/ Orders \/ Wishes
  <2>1. UNCHANGED <<builds, hurry>> /\ desk'.rows = builds /\ desk'.clock = now
    BY <1>11, BeginsIs
  <2> QED BY <1>2, <1>4, <1>6, <2>1 DEF Pending
<1>12. CASE DeskPersists
  <2>1. UNCHANGED hurry /\ desk' = Free
    BY <1>12 DEF DeskPersists
  <2> DEFINE c == hurry[h].clock
  <2>2. /\ desk # Free
        /\ Planned = Settle(Loaded, desk.clock)
        /\ DOMAIN Planned = DOMAIN desk.rows \cup Added
        /\ DOMAIN builds' = DOMAIN builds \cup Added
        /\ \A i \in Added : builds'[i] = Planned[i]
        /\ \A i \in DOMAIN desk.rows \cap DOMAIN builds :
             builds[i] = desk.rows[i] => builds'[i] = Planned[i]
        /\ \A i \in DOMAIN desk.rows \cap DOMAIN builds :
             builds'[i] = Planned[i] \/ builds'[i] = builds[i]
    BY <1>12, PersistsIs
  <2>3. DOMAIN desk.rows = DOMAIN builds
    BY <1>3, <2>2 DEF DeskHasTheRows
  <2>4. /\ c <= desk.clock /\ c \in Nat /\ desk.clock \in Nat
        /\ \A i \in DOMAIN builds : builds[i] = desk.rows[i] \/ builds[i].fin < c
    BY <1>2, <1>4, <1>5, <2>1, <2>2, DeskIs DEF Pending
  <2>5. \A i \in DOMAIN Planned : ~Planned[i].started => Start(Planned[i]) > desk.clock
    <3>1. /\ Rows(Loaded) /\ DOMAIN Loaded = DOMAIN desk.rows \cup Added
          /\ \A i \in DOMAIN Loaded : Loaded[i].started => Loaded[i].fin # Unplanned
      BY <2>2, LoadedIs
    <3> QED BY <2>2, <2>4, <3>1, SettleIs
  <2> HIDE DEF c
  <2>6. ASSUME NEW i \in DOMAIN builds', ~builds'[i].started, Start(builds'[i]) <= c,
               c < builds'[i].fin
        PROVE  FALSE
    <3>1. builds'[i].fin \in Nat /\ Dur(builds'[i]) \in Nat
      BY <1>5, RowIs
    <3>2. CASE i \in DOMAIN Planned /\ builds'[i] = Planned[i]
      <4>1. Start(builds'[i]) > desk.clock
        BY <2>5, <2>6, <3>2
      <4> QED BY <2>4, <2>6, <3>1, <4>1 DEF Start
    <3>3. CASE i \in DOMAIN builds /\ builds'[i] = builds[i] /\ builds[i].fin < c
      BY <2>4, <2>6, <3>1, <3>3
    <3> QED BY <2>2, <2>3, <2>4, <3>2, <3>3
  <2>7. Fits(builds', c)
    BY <2>6 DEF Fits
  <2> QED BY <2>1, <2>7 DEF c
<1>13. ASSUME NEW g \in Hurries, HurryLists(g) PROVE Goal
  <2>1. /\ UNCHANGED builds /\ desk = Free /\ hurry[g].at = "list"
        /\ \A k \in Hurries : k # g => hurry'[k] = hurry[k]
        /\ SettlesWith(g, now) \/ \E todo : GoesOnWith(g, todo, now)
    BY <1>13, ListsIs
  <2>2. g = h
    <3>1. g # h => hurry[h].at # "idle"
      BY <1>2, <2>1 DEF Pending
    <3> QED BY <1>3, <2>1, <3>1
  <2>3. ~SettlesWith(h, now)
    BY <1>2, IdleIs DEF SettlesWith, Pending
  <2>4. hurry'[h].clock = now /\ desk' = Free
    BY <2>1, <2>2, <2>3 DEF GoesOnWith
  <2> QED BY <1>3, <2>1, <2>4
<1>14. ASSUME NEW g \in Hurries, HurryPays(g) PROVE Goal
  <2>1. /\ UNCHANGED builds /\ desk = Free /\ hurry[g].at = "pay"
        /\ \A k \in Hurries : k # g => hurry'[k] = hurry[k]
        /\ \/ SettlesWith(g, hurry[g].clock)
           \/ \E todo : GoesOnWith(g, todo, hurry[g].clock)
    BY <1>14, PaysIs
  <2>2. g = h
    <3>1. g # h => hurry[h].at # "idle"
      BY <1>2, <2>1 DEF Pending
    <3> QED BY <1>3, <2>1, <3>1
  <2>3. ~SettlesWith(h, hurry[h].clock)
    BY <1>2, IdleIs DEF SettlesWith, Pending
  <2>4. hurry'[h].clock = hurry[h].clock /\ desk' = Free
    BY <2>1, <2>2, <2>3 DEF GoesOnWith
  <2> QED BY <1>4, <2>1, <2>2, <2>4 DEF Pending
<1>15. ASSUME NEW g \in Hurries, HurryUpdates(g) PROVE Goal
  <2>1. /\ UNCHANGED desk /\ hurry[g].at = "update"
        /\ hurry'[g].at = "pay" /\ hurry'[g].clock = hurry[g].clock
        /\ DOMAIN builds' = DOMAIN builds
        /\ \A i \in DOMAIN builds :
              /\ i # Turn(g) => builds'[i] = builds[i]
              /\ i = Turn(g) => builds'[i].fin = hurry[g].clock - 1
    <3>1. UNCHANGED desk /\ hurry[g].at = "update"
      BY <1>15 DEF HurryUpdates
    <3> QED BY <1>15, <3>1, UpdatesIs, Zenon
  <2>2. g = h /\ Pending(h)
    BY <1>3, <2>1 DEF Pending
  <2>3. Fewer(builds', builds, hurry[h].clock)
    <3>1. hurry[h].clock - 1 <= hurry[h].clock
      BY <1>5
    <3> QED BY <2>1, <2>2, <3>1 DEF Fewer
  <2>4. Fits(builds', hurry[h].clock)
    BY <1>4, <1>5, <2>2, <2>3, FewerFit
  <2>5. ASSUME desk' # Free
        PROVE  /\ hurry'[h].clock <= desk'.clock
               /\ \A i \in DOMAIN builds' :
                    \/ builds'[i] = desk'.rows[i]
                    \/ builds'[i].fin < hurry'[h].clock
    <3>1. hurry[h].clock - 1 < hurry[h].clock
      BY <1>5
    <3> QED BY <1>4, <2>1, <2>2, <2>5, <3>1
  <2> QED BY <2>1, <2>2, <2>4, <2>5
<1>16. CASE Collects \/ CollectFails
  <2>1. /\ UNCHANGED <<desk, hurry>> /\ desk = Free
        /\ DOMAIN builds' \subseteq DOMAIN builds
        /\ \A i \in DOMAIN builds' : builds'[i] = builds[i]
    BY <1>16, CollectsIs
  <2>2. Fewer(builds', builds, hurry[h].clock)
    BY <2>1 DEF Fewer
  <2>3. Pending(h)
    BY <1>2, <2>1 DEF Pending
  <2>4. Fits(builds', hurry[h].clock)
    BY <1>4, <1>5, <2>2, <2>3, FewerFit
  <2> QED BY <2>1, <2>4
<1> HIDE DEF Goal
<1>17. Goal
  BY <1>8, <1>9, <1>10, <1>11, <1>12, <1>13, <1>14, <1>15, <1>16, StepIs, Zenon DEF Goal
<1> QED BY <1>17 DEF Goal

(* Before a build starts that is queued, all slots are taken.              *)
Tight(rows, t) ==
  \A i \in DOMAIN rows : ~rows[i].started =>
    \A k \in Nat : k >= t /\ k < Start(rows[i]) =>
      Cardinality(CountingOf(rows, k)) = Slots

(* Builds that are not finished stay in order also while a quick finish    *)
(* is under way.                                                           *)
Orderly == Quiet({"admin", "late", "crossed"}) => StillInOrder(builds, now)

(* Order is order also of what is not finished.                            *)
LEMMA InOrderIs ==
  ASSUME NEW rows, NEW t, InOrder(rows, t)
  PROVE  StillInOrder(rows, t)
BY DEF InOrder, StillInOrder

(* A call that nothing has crossed leaves a plan that is tight and in      *)
(* order.                                                                  *)
LEMMA PlanIsKept ==
  ASSUME TypeOK, Sane, DeskPersists, DeskIsCurrent, DeskHasTheRows, Booked, Orderly,
         Quiet({"admin", "late", "crossed"})
  PROVE  Tight(builds', now) /\ InOrder(builds', now)
<1>1. /\ desk # Free /\ Rows(Planned) /\ Rows(builds')
      /\ Planned = Settle(Loaded, desk.clock)
      /\ DOMAIN Planned = DOMAIN desk.rows \cup Added
      /\ DOMAIN builds' = DOMAIN builds \cup Added
      /\ \A i \in Added : builds'[i] = Planned[i]
      /\ \A i \in DOMAIN desk.rows \cap DOMAIN builds :
           builds[i] = desk.rows[i] => builds'[i] = Planned[i]
  BY PersistsIs
<1>2. Tame /\ Quiet({"admin"}) /\ Quiet({"late"}) /\ "crossed" \notin unusual
  BY DEF Tame, Quiet
<1>3. /\ desk.clock = now /\ DOMAIN desk.rows = DOMAIN builds
      /\ \A i \in DOMAIN builds : builds[i] = desk.rows[i]
  BY <1>1, <1>2 DEF DeskIsCurrent, DeskHasTheRows
<1>4. builds' = Planned
  <2> DEFINE a == builds'
             b == Planned
  <2>1. DOMAIN a = DOMAIN b /\ \A i \in DOMAIN a : a[i] = b[i]
    BY <1>1, <1>3
  <2>2. a = [i \in DOMAIN a |-> a[i]] /\ b = [i \in DOMAIN b |-> b[i]]
    BY <1>1 DEF Rows
  <2> HIDE DEF a, b
  <2>3. a = b
    BY <2>1, <2>2
  <2> QED BY <2>3 DEF a, b
<1>5. /\ now \in Nat /\ Rows(Loaded) /\ Rows(builds) /\ Rows(desk.rows)
      /\ DOMAIN Loaded = DOMAIN desk.rows \cup Added
      /\ \A i \in Added : Loaded[i].fin = Unplanned
      /\ \A i \in DOMAIN desk.rows : Loaded[i] = desk.rows[i]
      /\ \A i, j \in DOMAIN Loaded :
           i < j /\ Loaded[i].fin = Unplanned => Loaded[j].fin = Unplanned
  BY <1>1, LoadedIs, AddedAre, DeskIs DEF TypeOK
<1>6. desk.rows = builds
  <2> DEFINE b == desk.rows
  <2>1. builds = [i \in DOMAIN builds |-> builds[i]] /\ b = [i \in DOMAIN b |-> b[i]]
    BY <1>5 DEF Rows
  <2>2. DOMAIN b = DOMAIN builds /\ \A i \in DOMAIN builds : builds[i] = b[i]
    BY <1>3
  <2> HIDE DEF b
  <2>3. b = builds
    BY <2>1, <2>2
  <2> QED BY <2>3 DEF b
<1>7. Cardinality(CountingOf(builds, now)) <= Slots
  BY <1>2, <1>5 DEF Booked, Counting
<1>8. Fewer(Loaded, builds, now)
  BY <1>1, <1>5, <1>6, LoadedFits
<1>9. Cardinality(CountingOf(Loaded, now)) <= Slots
  BY <1>5, <1>7, <1>8, FewerCount
<1>10. Fits(Loaded, now) /\ Cardinality(Ticking(Loaded, now)) <= Slots
  BY <1>5, <1>9, TickingCounts DEF Fits
<1>11. StillInOrder(Loaded, now)
  <2>1. StillInOrder(builds, now)
    BY DEF Orderly
  <2>2. ASSUME NEW i \in DOMAIN Loaded, Loaded[i].fin > now
        PROVE  i \in DOMAIN builds /\ Loaded[i] = builds[i]
    <3>1. i \notin Added
      BY <1>5, <2>2 DEF Unplanned
    <3> QED BY <1>5, <1>6, <3>1
  <2> QED BY <2>1, <2>2, Zenon DEF StillInOrder
<1>12. InOrder(Planned, now)
  BY <1>1, <1>3, <1>5, <1>10, <1>11, SettleKeepsOrder
<1>13. Tight(Planned, now)
  <2>1. DOMAIN Planned = DOMAIN Loaded
    BY <1>1, <1>5
  <2>2. \A i \in DOMAIN Loaded : ~Planned[i].started =>
          \A k \in Nat : k >= now /\ k < Start(Planned[i]) =>
            Cardinality(CountingOf(Planned, k)) = Slots
    BY <1>1, <1>3, <1>5, <1>10, SettleFits
  <2> QED BY <2>1, <2>2 DEF Tight
<1> QED BY <1>4, <1>12, <1>13

(* Every step keeps builds that are not finished in order.                 *)
LEMMA OrderlyNext ==
  ASSUME TypeOK, TypeOK', Sane, [Next]_vars, DeskIsCurrent, DeskHasTheRows, Booked, Orderly
  PROVE  Orderly'
<1>1. unusual \subseteq unusual'
  BY MonotoneIs
<1>2. SUFFICES ASSUME Quiet({"admin", "late", "crossed"})'
               PROVE  StillInOrder(builds', now')
  BY DEF Orderly
<1>3. Quiet({"admin", "late", "crossed"}) /\ StillInOrder(builds, now)
  <2>1. Quiet({"admin", "late", "crossed"})
    BY <1>1, <1>2, QuietIs
  <2> QED BY <2>1 DEF Orderly
<1>4. Rows(builds) /\ Rows(builds') /\ now \in Nat
  BY DEF TypeOK
<1> DEFINE Goal == StillInOrder(builds', now')
<1>5. UNCHANGED <<builds, now>> => Goal
  BY <1>3
<1>6. ASSUME UNCHANGED now,
             \A i \in DOMAIN builds' :
               (i \in DOMAIN builds /\ builds'[i] = builds[i]) \/ ~(builds'[i].fin > now)
      PROVE  Goal
  BY <1>3, <1>6, Zenon DEF StillInOrder
<1>7. CASE Rests
  BY <1>5, <1>7 DEF Rests
<1>8. CASE TimePasses
  <2>1. UNCHANGED builds /\ now' = now + 1
    BY <1>8, TimeIs
  <2>2. \A i \in DOMAIN builds : builds[i].fin > now + 1 => builds[i].fin > now
    BY <1>4, RowIs
  <2>3. StillInOrder(builds, now + 1)
    BY <1>3, <2>2, Zenon DEF StillInOrder
  <2> QED BY <2>1, <2>3
<1>9. CASE AdminActs
  BY <1>2, <1>9, AdminIs DEF Quiet
<1>10. CASE Lists \/ Orders \/ Wishes
  BY <1>5, <1>10, BeginsIs
<1>11. CASE DeskPersists
  <2>1. UNCHANGED now
    BY <1>11 DEF DeskPersists
  <2>2. StillInOrder(builds', now)
    BY <1>3, <1>11, PlanIsKept, InOrderIs
  <2> QED BY <2>1, <2>2
<1>12. ASSUME NEW h \in Hurries, HurryLists(h) \/ HurryPays(h) PROVE Goal
  BY <1>5, <1>12, ListsIs, PaysIs
<1>13. ASSUME NEW h \in Hurries, HurryUpdates(h) PROVE Goal
  <2>1. /\ UNCHANGED now
        /\ DOMAIN builds' = DOMAIN builds
        /\ \A i \in DOMAIN builds :
              /\ i # Turn(h) => builds'[i] = builds[i]
              /\ i = Turn(h) => builds'[i].fin = hurry[h].clock - 1
        /\ hurry[h].clock - 1 \in Nat \ {0} /\ hurry[h].clock - 1 < now
    <3>1. UNCHANGED now
      BY <1>13 DEF HurryUpdates
    <3> QED BY <1>13, <3>1, UpdatesIs, Zenon
  <2>2. ~(hurry[h].clock - 1 > now)
    BY <1>4, <2>1
  <2> QED BY <1>6, <2>1, <2>2
<1>14. CASE Collects \/ CollectFails
  <2>1. /\ UNCHANGED now /\ DOMAIN builds' \subseteq DOMAIN builds
        /\ \A i \in DOMAIN builds' : builds'[i] = builds[i]
    BY <1>14, CollectsIs
  <2> QED BY <1>6, <2>1
<1>15. Goal
  BY <1>7, <1>8, <1>9, <1>10, <1>11, <1>12, <1>13, <1>14, StepIs, Zenon
<1> QED BY <1>15

(* While no quick finish is under way and nothing else has come between.   *)
Calm ==
  /\ Quiet({"admin", "fault", "crossed", "late"})
  /\ \A h \in Hurries : ~Pending(h)
  /\ desk # Free => desk.who \notin Hurries
CalmIsTight == Calm => Tight(builds, now) /\ InOrder(builds, now)

(* Every step keeps the plan tight and in order as long as no quick        *)
(* finish is under way and nothing has gone wrong: such a finish settles   *)
(* when it ends.                                                           *)
LEMMA CalmIsTightNext ==
  ASSUME TypeOK, TypeOK', Sane, [Next]_vars, DeskIsCurrent, DeskHasTheRows, Booked,
         Orderly, CalmIsTight
  PROVE  CalmIsTight'
<1>1. unusual \subseteq unusual'
  BY MonotoneIs
<1>2. SUFFICES ASSUME Calm' PROVE Tight(builds', now') /\ InOrder(builds', now')
  BY DEF CalmIsTight, Tight, InOrder, CountingOf
<1>3. /\ Quiet({"admin", "fault", "crossed", "late"})
      /\ Quiet({"admin", "late", "crossed"})
      /\ "fault" \notin unusual' /\ "admin" \notin unusual'
      /\ \A h \in Hurries : ~Pending(h)'
  <2>1. Quiet({"admin", "fault", "crossed", "late"})
    BY <1>1, <1>2, QuietIs DEF Calm
  <2> QED BY <1>2, <2>1, QuietFor DEF Calm, Quiet
<1>4. Rows(builds) /\ Rows(builds') /\ now \in Nat
  BY DEF TypeOK
<1> DEFINE Goal == Tight(builds', now') /\ InOrder(builds', now')
<1>5. ASSUME \A h \in Hurries : ~Pending(h), desk = Free \/ UNCHANGED desk
      PROVE  Tight(builds, now) /\ InOrder(builds, now)
  BY <1>2, <1>3, <1>5 DEF CalmIsTight, Calm
<1>6. UNCHANGED hurry => \A h \in Hurries : ~Pending(h)
  BY <1>3 DEF Pending
<1>7. CASE Rests
  <2>1. UNCHANGED <<builds, now, desk>> /\ \A h \in Hurries : ~Pending(h)
    BY <1>3, <1>7 DEF Rests
  <2> QED BY <1>5, <2>1
<1>8. CASE TimePasses
  <2>1. UNCHANGED <<builds, hurry, desk>> /\ now' = now + 1
    BY <1>8, TimeIs
  <2>2. Tight(builds, now) /\ InOrder(builds, now)
    BY <1>5, <1>6, <2>1
  <2>3. Tight(builds, now + 1)
    <3>1. \A k \in Nat : k >= now + 1 => k >= now
      BY <1>4
    <3> QED BY <2>2, <3>1, Zenon DEF Tight
  <2>4. InOrder(builds, now + 1)
    <3>1. \A i \in DOMAIN builds : builds[i].fin > now + 1 => builds[i].fin > now
      BY <1>4, RowIs
    <3> QED BY <2>2, <3>1, Zenon DEF InOrder
  <2> QED BY <2>1, <2>3, <2>4
<1>9. CASE AdminActs
  BY <1>3, <1>9, AdminIs
<1>10. CASE Lists \/ Orders \/ Wishes
  <2>1. UNCHANGED <<builds, now, hurry>> /\ desk = Free
    BY <1>10, BeginsIs
  <2> QED BY <1>5, <1>6, <2>1
<1>11. CASE DeskPersists
  <2>1. UNCHANGED now
    BY <1>11 DEF DeskPersists
  <2>2. Tight(builds', now) /\ InOrder(builds', now)
    BY <1>3, <1>11, PlanIsKept
  <2> QED BY <2>1, <2>2
<1>12. ASSUME NEW h \in Hurries, NEW clock, SettlesWith(h, clock) PROVE Goal
  BY <1>2, <1>12 DEF SettlesWith, Calm
<1>13. ASSUME NEW h \in Hurries, NEW todo, NEW clock, GoesOnWith(h, todo, clock) PROVE Goal
  BY <1>3, <1>13 DEF GoesOnWith, Pending
<1>14. ASSUME NEW h \in Hurries, HurryLists(h) \/ HurryPays(h) PROVE Goal
  <2>1. \E clock : SettlesWith(h, clock) \/ \E todo : GoesOnWith(h, todo, clock)
    BY <1>14, ListsIs, PaysIs
  <2> QED BY <1>12, <1>13, <2>1
<1>15. ASSUME NEW h \in Hurries, HurryUpdates(h) PROVE Goal
  <2>1. hurry'[h].at = "pay"
    BY <1>15, UpdatesIs
  <2> QED BY <1>3, <2>1 DEF Pending
<1>16. CASE Collects \/ CollectFails
  <2>1. /\ UNCHANGED <<now, desk, hurry>> /\ DOMAIN builds' \subseteq DOMAIN builds
        /\ \A i \in DOMAIN builds' : builds'[i] = builds[i]
        /\ \A i \in DOMAIN builds \ DOMAIN builds' : builds[i].fin <= now
    BY <1>16, CollectsIs
  <2>2. Tight(builds, now) /\ InOrder(builds, now)
    BY <1>5, <1>6, <2>1
  <2>3. ASSUME NEW k \in Nat, k >= now PROVE CountingOf(builds', k) = CountingOf(builds, k)
    <3>1. ASSUME NEW i \in CountingOf(builds, k) PROVE i \in CountingOf(builds', k)
      <4>1. i \in DOMAIN builds /\ k < builds[i].fin
        BY DEF CountingOf
      <4>2. builds[i].fin \in Nat
        BY <1>4, <4>1, RowIs
      <4>3. i \in DOMAIN builds'
        BY <1>4, <2>1, <2>3, <4>1, <4>2
      <4> QED BY <2>1, <4>3 DEF CountingOf
    <3>2. ASSUME NEW i \in CountingOf(builds', k) PROVE i \in CountingOf(builds, k)
      BY <2>1 DEF CountingOf
    <3> QED BY <3>1, <3>2
  <2>4. Tight(builds', now)
    <3>1. ASSUME NEW i \in DOMAIN builds', ~builds'[i].started, NEW k \in Nat, k >= now,
                 k < Start(builds'[i])
          PROVE  Cardinality(CountingOf(builds', k)) = Slots
      <4>1. i \in DOMAIN builds /\ builds'[i] = builds[i]
        BY <2>1
      <4>2. Cardinality(CountingOf(builds, k)) = Slots
        BY <2>2, <3>1, <4>1 DEF Tight
      <4>3. CountingOf(builds', k) = CountingOf(builds, k)
        BY <2>3, <3>1
      <4> QED BY <4>2, <4>3
    <3> QED BY <3>1, Zenon DEF Tight
  <2>5. InOrder(builds', now)
    BY <2>1, <2>2 DEF InOrder
  <2> QED BY <2>1, <2>4, <2>5
<1> HIDE DEF Goal
<1>17. Goal
  BY <1>7, <1>8, <1>9, <1>10, <1>11, <1>14, <1>15, <1>16, StepIs, Zenon DEF Goal
<1> QED BY <1>17 DEF Goal

(* The inductive invariant: the plan of the dock; the accounts of drills,  *)
(* ships and time; and both with what the rows and the calls are like.     *)
Planner ==
  /\ Booked /\ DeskFits /\ HurriesFit /\ Orderly /\ CalmIsTight
Ledger ==
  /\ Alone /\ Spends /\ Once /\ TimeIsDue /\ StaysFinished
IInv ==
  /\ TypeOK /\ Sane /\ DeskIsCurrent /\ DeskHasTheRows /\ Planner /\ Ledger

(* The invariant holds at first.                                           *)
LEMMA InitHolds == Init => IInv
<1> SUFFICES ASSUME Init PROVE IInv
  OBVIOUS
<1>1. /\ now = FirstHour /\ builds = <<>> /\ nextId = 1 /\ cache = <<>>
      /\ desk = Free /\ hurry = [h \in Hurries |-> Idle] /\ info = None
      /\ gold = MaxGold /\ drills = MaxDrills
      /\ granted = [i \in Id |-> 0] /\ due = [i \in Id |-> 0] /\ paid = {}
      /\ extras = 0 /\ unusual = {}
  BY DEF Init
<1>2. DOMAIN builds = {} /\ DOMAIN cache = {} /\ Rows(builds) /\ Brief(cache)
  <2>1. DOMAIN builds = {} /\ DOMAIN cache = {}
    BY <1>1
  <2>2. builds = [i \in DOMAIN builds |-> builds[i]] /\ cache = [i \in DOMAIN cache |-> cache[i]]
    BY <1>1
  <2> QED BY <2>1, <2>2 DEF Rows, Brief
<1>3. \A h \in Hurries : hurry[h] = Idle /\ hurry[h].at = "idle" /\ ~Pending(h)
  BY <1>1, IdleIs DEF Pending
<1>4. TypeOK
  <2>1. now \in Nat /\ nextId \in 1..(MaxBuilds + 1) /\ gold \in 0..MaxGold
        /\ drills \in 0..MaxDrills /\ extras \in 0..MaxExtras
    BY <1>1, ConstantsAre DEF FirstHour
  <2>2. hurry \in [Hurries -> Tasks]
    BY <1>1, IdleIs
  <2>3. DeskIsTyped
    BY <1>1 DEF DeskIsTyped
  <2>4. granted \in [Id -> Nat] /\ due \in [Id -> Nat] /\ paid \subseteq Id
    BY <1>1
  <2>5. info = None \/ Brief(info)
    BY <1>1
  <2> QED BY <1>2, <2>1, <2>2, <2>3, <2>4, <2>5, TypesAre
<1>5. Sane
  BY <1>1, <1>2, <1>3 DEF Sane, FirstHour
<1>6. DeskIsCurrent /\ DeskHasTheRows
  BY <1>1 DEF DeskIsCurrent, DeskHasTheRows
<1>7. \A t \in Nat : Cardinality(CountingOf(builds, t)) = 0
  <2>1. ASSUME NEW t \in Nat PROVE CountingOf(builds, t) = {}
    BY <1>2 DEF CountingOf
  <2> QED BY <2>1, FS_EmptySet
<1>8. Planner
  <2>1. Booked
    BY <1>7, ConstantsAre DEF Booked, Counting
  <2>2. DeskFits /\ HurriesFit
    BY <1>1, <1>3 DEF DeskFits, HurriesFit
  <2>3. Orderly /\ CalmIsTight
    BY <1>2 DEF Orderly, StillInOrder, CalmIsTight, Tight, InOrder
  <2> QED BY <2>1, <2>2, <2>3 DEF Planner
<1>9. Ledger
  <2>1. Alone
    BY <1>3 DEF Alone
  <2>2. Spends
    BY <1>1, <1>3, FS_EmptySet, ConstantsAre DEF Spends
  <2>3. Once
    BY <1>1 DEF Once
  <2>4. TimeIsDue /\ StaysFinished
    BY <1>1, <1>2 DEF TimeIsDue, DueBy, StaysFinished
  <2> QED BY <2>1, <2>2, <2>3, <2>4 DEF Ledger
<1> QED BY <1>4, <1>5, <1>6, <1>8, <1>9 DEF IInv

(* Every step keeps it.                                                    *)
LEMMA NextHolds == IInv /\ [Next]_vars => IInv'
<1> SUFFICES ASSUME IInv, [Next]_vars PROVE IInv'
  OBVIOUS
<1>1. /\ TypeOK /\ Sane /\ DeskIsCurrent /\ DeskHasTheRows
      /\ Booked /\ DeskFits /\ HurriesFit /\ Orderly /\ CalmIsTight
      /\ Alone /\ Spends /\ Once /\ TimeIsDue /\ StaysFinished
  BY DEF IInv, Planner, Ledger
<1>2. TypeOK'
  BY <1>1, TypeNext
<1>3. Sane'
  BY <1>1, <1>2, SaneNext
<1>4. Alone'
  BY <1>1, AloneNext
<1>5. DeskIsCurrent' /\ DeskHasTheRows'
  BY <1>1, DeskIsCurrentNext, DeskHasTheRowsNext
<1>6. Booked' /\ DeskFits' /\ HurriesFit'
  BY <1>1, <1>2, <1>4, BookedNext, DeskFitsNext, HurriesFitNext
<1>7. Orderly' /\ CalmIsTight'
  BY <1>1, <1>2, OrderlyNext, CalmIsTightNext
<1>8. Spends' /\ Once' /\ TimeIsDue' /\ StaysFinished'
  BY <1>1, <1>2, <1>4, SpendsNext, OnceNext, TimeIsDueNext, StaysFinishedNext
<1> QED BY <1>2, <1>3, <1>4, <1>5, <1>6, <1>7, <1>8 DEF IInv, Planner, Ledger

(* The inductive invariant holds: whatever the handlers of the dock do,    *)
(* in whatever order.                                                      *)
THEOREM Inductive == Spec => []IInv
BY InitHolds, NextHolds, PTL DEF Spec

(* Types are kept.                                                         *)
THEOREM TypeCorrect == Spec => []TypeOK
<1>1. IInv => TypeOK
  BY DEF IInv
<1> QED BY <1>1, Inductive, PTL

(* "at most BUILD_DOCK_SLOTS constructions tick at once" (helpers.py): at  *)
(* no moment from now on do builds that run, or are planned to, need more  *)
(* slots than there are, unless the API was used, or two quick finishes    *)
(* were under way together and one settled with a clock of the past.       *)
THEOREM SlotsAreNotOverbooked == Spec => []NoOverbooking
<1>1. IInv => NoOverbooking
  <2> SUFFICES ASSUME IInv, Tame, NEW t \in now..Horizon
               PROVE  Cardinality(Counting(t)) <= Slots
    BY DEF NoOverbooking, Tame
  <2>1. TypeOK /\ Booked
    BY DEF IInv, Planner
  <2>2. now \in Nat
    BY <2>1 DEF TypeOK
  <2>3. t \in Nat /\ t >= now
    BY <2>2
  <2> QED BY <2>1, <2>3 DEF Booked
<1> QED BY <1>1, Inductive, PTL

(* What the properties call undisturbed is calm.                           *)
LEMMA UndisturbedIsCalm ==
  ASSUME Undisturbed
  PROVE  Calm
BY DEF Undisturbed, Hurrying, Calm, Pending

(* The plan of settle_build_queue wastes no slot and passes nobody.        *)
THEOREM TheQueueIsTight == Spec => []QueueIsTight
<1>1. IInv => QueueIsTight
  <2> SUFFICES ASSUME IInv, Undisturbed, NEW i \in DOMAIN builds, ~builds[i].started
               PROVE  /\ \A t \in now..(Start(builds[i]) - 1) :
                           Cardinality(Counting(t)) = Slots
                      /\ \A j \in DOMAIN builds :
                           j > i /\ builds[j].fin > now =>
                             ~builds[j].started /\ Start(builds[j]) >= Start(builds[i])
    BY DEF QueueIsTight
  <2>1. TypeOK /\ Tight(builds, now) /\ InOrder(builds, now)
    BY UndisturbedIsCalm DEF IInv, Planner, CalmIsTight
  <2>2. now \in Nat /\ Rows(builds)
    BY <2>1 DEF TypeOK
  <2>3. builds[i].fin \in Nat /\ Dur(builds[i]) \in Nat
    BY <2>2, RowIs
  <2>4. Start(builds[i]) \in Int
    BY <2>3 DEF Start
  <2>5. ASSUME NEW t \in now..(Start(builds[i]) - 1) PROVE Cardinality(Counting(t)) = Slots
    <3>1. t \in Nat /\ t >= now /\ t < Start(builds[i])
      BY <2>2, <2>4
    <3> QED BY <2>1, <3>1 DEF Tight, Counting
  <2>6. ASSUME NEW j \in DOMAIN builds, j > i, builds[j].fin > now
        PROVE  ~builds[j].started /\ Start(builds[j]) >= Start(builds[i])
    <3>1. i \in Nat /\ j \in Nat
      BY <2>2, RowIs
    <3>2. i < j
      BY <2>6, <3>1
    <3> QED BY <2>1, <2>6, <3>2 DEF InOrder
  <2> QED BY <2>5, <2>6
<1> QED BY <1>1, Inductive, PTL

(* "State is persistent so re-settles are stable" (helpers.py): it makes   *)
(* no difference to any build whether somebody settles the queue before.   *)
THEOREM PollingMakesNoDifference == Spec => []PollingDoesNotMatter
<1>1. IInv => PollingDoesNotMatter
  <2> SUFFICES ASSUME IInv, Undisturbed, NEW t \in now..(MaxTime + Longest)
               PROVE  Settle(Settle(builds, now), t) = Settle(builds, t)
    BY DEF PollingDoesNotMatter
  <2>1. /\ TypeOK /\ Sane /\ Booked /\ Tight(builds, now) /\ InOrder(builds, now)
    BY UndisturbedIsCalm DEF IInv, Planner, CalmIsTight
  <2>2. now \in Nat /\ Rows(builds)
    BY <2>1 DEF TypeOK
  <2>3. Tame
    BY DEF Undisturbed, Quiet, Tame
  <2>4. Planning(builds, now)
    BY <2>1, <2>3 DEF Planning, Sane, Booked, Counting, Tight
  <2>5. t \in Nat /\ t >= now
    BY <2>2
  <2> QED BY <2>2, <2>4, <2>5, SettlesTwice
<1> QED BY <1>1, Inductive, PTL

(* A build becomes a ship once, whatever fails, and not before its time    *)
(* has passed since it was ordered (handle_get_ship).                      *)
THEOREM BuildsTakeTheirTime == Spec => TakesItsTime
<1> DEFINE Fairly ==
      \A i \in Id : granted'[i] > granted[i] =>
        granted[i] = 0 /\ (Quiet({"admin", "late"}) => now >= due[i])
<1>1. IInv /\ [Next]_vars => [Fairly]_vars
  <2> SUFFICES ASSUME IInv, [Next]_vars, NEW i \in Id, granted'[i] > granted[i]
               PROVE  granted[i] = 0 /\ (Quiet({"admin", "late"}) => now >= due[i])
    OBVIOUS
  <2>1. TypeOK /\ Sane /\ Once /\ TimeIsDue
    BY DEF IInv, Ledger
  <2>2. granted[i] \in Nat /\ due[i] \in Nat /\ now \in Nat /\ Rows(builds)
    BY <2>1 DEF TypeOK
  <2>3. UNCHANGED granted => FALSE
    BY <2>2
  <2>4. CASE Collects \/ CollectFails
    <3>1. PICK ids \in SUBSET Finished : Grant(ids)
      BY <2>1, <2>4, CollectsIs
    <3>2. granted'[i] = granted[i] + IF i \in ids THEN 1 ELSE 0
      BY <3>1 DEF Grant
    <3>3. i \in ids
      BY <2>2, <3>2
    <3>4. i \in DOMAIN builds /\ builds[i].fin <= now
      BY <3>1, <3>3 DEF Finished
    <3>5. granted[i] = 0
      BY <2>1, <3>4 DEF Once
    <3>6. ASSUME Quiet({"admin", "late"}) PROVE now >= due[i]
      <4>1. due[i] <= builds[i].fin
        BY <2>1, <3>4, <3>6 DEF TimeIsDue, DueBy
      <4>2. builds[i].fin \in Nat
        BY <2>2, <3>4, RowIs
      <4> QED BY <2>2, <3>4, <4>1, <4>2
    <3> QED BY <3>5, <3>6
  <2>5. CASE Rests
    BY <2>3, <2>5 DEF Rests
  <2>6. CASE TimePasses
    BY <2>1, <2>3, <2>6, TimeIs
  <2>7. CASE AdminActs
    BY <2>1, <2>3, <2>7, AdminIs
  <2>8. CASE Lists \/ Orders \/ Wishes
    BY <2>1, <2>3, <2>8, BeginsIs
  <2>9. CASE DeskPersists
    BY <2>3, <2>9 DEF DeskPersists
  <2>10. ASSUME NEW h \in Hurries, HurryLists(h) \/ HurryUpdates(h) \/ HurryPays(h)
         PROVE  FALSE
    BY <2>3, <2>10 DEF HurryLists, HurryUpdates, HurryPays
  <2> QED BY <2>1, <2>4, <2>5, <2>6, <2>7, <2>8, <2>9, <2>10, StepIs
<1> QED BY <1>1, Inductive, PTL DEF Spec, TakesItsTime

(* What a drill was spent on stays finished, and each build that a drill   *)
(* finished cost one (handle_build_quick_finish).                          *)
THEOREM DrillsBuyBuilds == Spec => []DrillsAreWellSpent
<1>1. IInv => DrillsAreWellSpent
  BY DEF IInv, Ledger, StaysFinished, Hurried, Spends, DrillsAreWellSpent
<1> QED BY <1>1, Inductive, PTL

=============================================================================
