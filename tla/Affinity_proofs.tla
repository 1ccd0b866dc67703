-------------------------- MODULE Affinity_proofs --------------------------
(***************************************************************************)
(* Proofs about the intimacy of the secretary: types; that no minute is    *)
(* granted twice and no debt builds up, as long as no two ticks of the     *)
(* commander have been under way at once; and that the anchor never goes   *)
(* back.  The loop of compute_secretary_tick is a recursive function; that *)
(* its equation has a solution, and what the loop may end with, is proved  *)
(* by induction on the minutes left.                                       *)
(***************************************************************************)
EXTENDS Affinity, WellFoundedInduction, TLAPS

(* The shortest interval there is.                                         *)
Fastest == Min(Intervals \cup {Default})

(* A set of numbers has a least one.                                       *)
LEMMA Least ==
  ASSUME NEW S \in SUBSET Nat, S # {}
  PROVE  Min(S) \in S /\ \A n \in S : Min(S) <= n
<1>1. PICK m \in S : \A j \in S : ~(<<j, m>> \in OpToRel(<, Nat))
  BY WFMin, NatLessThanWellFounded
<1>2. ASSUME NEW j \in S PROVE m <= j
  <2>1. m \in Nat /\ j \in Nat
    OBVIOUS
  <2>2. j < m => <<j, m>> \in OpToRel(<, Nat)
    BY <2>1, Zenon DEF OpToRel
  <2>3. ~(j < m)
    BY <1>1, <2>2, Zenon
  <2> QED BY <2>1, <2>3
<1> QED BY <1>2 DEF Min

(* The greatest and the least of two numbers.                              *)
LEMMA OfTwo ==
  ASSUME NEW a \in Int, NEW b \in Int
  PROVE  /\ Max({a, b}) \in {a, b} /\ Max({a, b}) >= a /\ Max({a, b}) >= b
         /\ Min({a, b}) \in {a, b} /\ Min({a, b}) <= a /\ Min({a, b}) <= b
<1>1. PICK m \in {a, b} : m >= a /\ m >= b
  OBVIOUS
<1>2. PICK n \in {a, b} : n <= a /\ n <= b
  OBVIOUS
<1>3. Max({a, b}) \in {a, b} /\ \A y \in {a, b} : Max({a, b}) >= y
  BY <1>1 DEF Max
<1>4. Min({a, b}) \in {a, b} /\ \A y \in {a, b} : Min({a, b}) <= y
  BY <1>2 DEF Min
<1> QED BY <1>3, <1>4

(* What is assumed of the constants, one by one.                           *)
LEMMA ConstantsAre ==
  /\ Intervals \subseteq Nat \ {0} /\ Intervals # {} /\ Default \in Nat \ {0}
  /\ Point \in Nat \ {0} /\ Cap \in Nat /\ Initial \in Nat
  /\ Deltas \subseteq Int /\ MaxTime \in Nat /\ MaxBack \in Nat
  /\ MaxBattles \in Nat /\ MaxFaults \in Nat /\ MaxEvents \in Nat /\ MaxSessions \in Nat \ {0}
  /\ NoAnchor \notin Int
BY ConstantsAssumption

(* No interval is shorter than the shortest.                               *)
LEMMA FastestIs ==
  Fastest \in Nat \ {0} /\ \A i \in Interval : i \in Nat \ {0} /\ Fastest <= i
<1>1. Interval \in SUBSET Nat /\ Interval # {} /\ 0 \notin Interval
  BY ConstantsAre DEF Interval
<1>2. Fastest = Min(Interval)
  BY Zenon DEF Fastest, Interval
<1> QED BY <1>1, <1>2, Least

-----------------------------------------------------------------------------
(* The loop.                                                               *)

(* An iteration leaves fewer minutes.                                      *)
LEMMA IteratedIs ==
  ASSUME NEW l \in Loop, ~Stops(l), NEW roll \in Intervals
  PROVE  /\ Iterated(l, roll) \in Loop
         /\ Iterated(l, roll).left = l.left - l.span
         /\ Iterated(l, roll).steps = l.steps + 1
         /\ Iterated(l, roll).left < l.left
         /\ l.units < Iterated(l, roll).units /\ Iterated(l, roll).units <= Cap
<1> DEFINE u == Min({l.units + Point, Cap})
<1>1. /\ l.left \in 0..MaxTime /\ l.span \in Interval /\ l.span \in Nat \ {0}
      /\ l.units \in Nat /\ l.steps \in Nat
  BY FastestIs DEF Loop, Moment
<1>2. l.span <= l.left /\ l.units < Cap
  BY <1>1, ConstantsAre DEF Stops
<1>3. u \in Nat /\ l.units < u /\ u <= Cap
  <2>1. l.units + Point \in Int /\ Cap \in Int
    BY <1>1, ConstantsAre
  <2>2. u \in {l.units + Point, Cap} /\ u <= Cap
    BY <2>1, OfTwo
  <2> QED BY <1>1, <1>2, <2>2, ConstantsAre
<1> HIDE DEF u
<1>4. Iterated(l, roll) = [left |-> l.left - l.span, span |-> roll, units |-> u,
                           steps |-> l.steps + 1]
  BY DEF Iterated, u
<1>5. l.left - l.span \in Moment /\ l.left - l.span < l.left
  BY <1>1, <1>2, ConstantsAre DEF Moment
<1>6. roll \in Interval
  BY DEF Interval
<1> QED BY <1>1, <1>3, <1>4, <1>5, <1>6 DEF Loop

(* The recursion has a solution, since the minutes left bound it: by       *)
(* induction on them there is a function that satisfies the equation       *)
(* wherever there are no more.                                             *)
Continues(g, l) ==
  IF Stops(l) THEN {l} ELSE UNION {g[Iterated(l, roll)] : roll \in Intervals}

(* What the loop may end with depends on what fewer minutes may end with.  *)
LEMMA SameFurther ==
  ASSUME NEW g, NEW h, NEW l \in Loop,
         \A k \in Loop : k.left < l.left => g[k] = h[k]
  PROVE  Continues(g, l) = Continues(h, l)
<1>1. CASE Stops(l)
  BY <1>1 DEF Continues
<1>2. CASE ~Stops(l)
  <2>1. \A roll \in Intervals : g[Iterated(l, roll)] = h[Iterated(l, roll)]
    BY <1>2, IteratedIs
  <2>2. {g[Iterated(l, roll)] : roll \in Intervals}
          = {h[Iterated(l, roll)] : roll \in Intervals}
    BY <2>1
  <2> QED BY <1>2, <2>2 DEF Continues
<1> QED BY <1>1, <1>2

SolvedTo(g, m) == /\ g = [l \in Loop |-> g[l]]
                  /\ \A l \in Loop : l.left <= m => g[l] = Continues(g, l)

(* There is a solution for all but so many minutes, by induction on them.  *)
LEMMA Solvable ==
  ASSUME NEW m \in Nat
  PROVE  \E g : SolvedTo(g, m)
<1> DEFINE Bad == {n \in Nat : ~\E g : SolvedTo(g, n)}
<1> SUFFICES ASSUME Bad # {} PROVE FALSE
  OBVIOUS
<1>1. PICK n \in Nat : ~(\E g : SolvedTo(g, n)) /\ \A j \in Bad : n <= j
  <2>1. Bad \in SUBSET Nat
    OBVIOUS
  <2>2. Min(Bad) \in Bad /\ \A j \in Bad : Min(Bad) <= j
    <3> HIDE DEF Bad
    <3> QED BY <2>1, Least
  <2> QED BY <2>2
<1>2. PICK g : \A l \in Loop : l.left < n => g[l] = Continues(g, l)
  <2>1. CASE n = 0
    <3>1. \A l \in Loop : ~(l.left < n)
      BY <2>1 DEF Loop, Moment
    <3> QED BY <3>1
  <2>2. CASE n # 0
    <3>1. n - 1 \in Nat /\ ~(n <= n - 1)
      BY <2>2
    <3>2. PICK g : SolvedTo(g, n - 1)
      BY <1>1, <3>1
    <3>3. ASSUME NEW l \in Loop, l.left < n PROVE l.left <= n - 1
      <4>1. l.left \in Nat
        BY DEF Loop, Moment
      <4> QED BY <3>3, <4>1
    <3> QED BY <3>2, <3>3 DEF SolvedTo
  <2> QED BY <2>1, <2>2
<1> DEFINE h == [l \in Loop |-> IF l.left < n THEN g[l] ELSE Continues(g, l)]
<1>3. \A l \in Loop : l.left < n => h[l] = g[l]
  OBVIOUS
<1>4. ASSUME NEW l \in Loop, l.left <= n PROVE h[l] = Continues(h, l)
  <2>1. l.left \in Nat /\ \A k \in Loop : k.left \in Nat
    BY DEF Loop, Moment
  <2>2. \A k \in Loop : k.left < l.left => k.left < n
    BY <1>4, <2>1
  <2>3. \A k \in Loop : k.left < l.left => g[k] = h[k]
    BY <1>3, <2>2
  <2>4. Continues(g, l) = Continues(h, l)
    <3> HIDE DEF h
    <3> QED BY <2>3, SameFurther
  <2>5. h[l] = Continues(g, l)
    BY <1>2
  <2> QED BY <2>4, <2>5
<1>5. h = [l \in Loop |-> h[l]]
  OBVIOUS
<1>6. SolvedTo(h, n)
  <2> HIDE DEF h
  <2> QED BY <1>4, <1>5 DEF SolvedTo
<1> QED BY <1>1, <1>6

(* So the recursive function satisfies its equation.                       *)
LEMMA GrantingIs ==
  ASSUME NEW l \in Loop
  PROVE  Granting[l] = Continues(Granting, l)
<1>1. PICK g : SolvedTo(g, MaxTime)
  BY Solvable, ConstantsAre
<1>2. \A k \in Loop : g[k] = Continues(g, k)
  BY <1>1 DEF SolvedTo, Loop, Moment
<1>3. g = [k \in Loop |-> Continues(g, k)]
  <2>1. [k \in Loop |-> g[k]] = [k \in Loop |-> Continues(g, k)]
    BY <1>2
  <2> QED BY <1>1, <2>1 DEF SolvedTo
<1>4. Granting = [k \in Loop |-> Continues(Granting, k)]
  BY <1>3, Zenon DEF Granting, Continues
<1> QED BY <1>4

(* What the loop has done from l on when it ends with o: every point took  *)
(* the shortest interval at least, and the first of them the one of l.     *)
Follows(l, o) ==
  /\ o \in Loop /\ Stops(o)
  /\ o.left <= l.left /\ l.steps <= o.steps
  /\ (o.steps - l.steps) * Fastest <= l.left - o.left
  /\ o.steps - l.steps <= o.units - l.units
  /\ \/ o = l
     \/ l.steps < o.steps /\ o.units <= Cap /\ l.span <= l.left - o.left

(* The types of the loop's variables.                                      *)
LEMMA LoopIs ==
  ASSUME NEW l \in Loop
  PROVE  /\ l.left \in Nat /\ l.left \in Moment /\ l.units \in Nat /\ l.steps \in Nat
         /\ l.span \in Interval /\ l.span \in Nat \ {0} /\ Fastest <= l.span
BY FastestIs, ConstantsAre DEF Loop, Moment

(* A product with one more.                                                *)
LEMMA OneMore ==
  ASSUME NEW a \in Nat, NEW f \in Nat
  PROVE  (a + 1) * f = a * f + f
OBVIOUS

(* What follows from the next iteration follows from this one.             *)
LEMMA FollowsFurther ==
  ASSUME NEW l \in Loop, ~Stops(l), NEW roll \in Intervals, NEW o,
         Follows(Iterated(l, roll), o)
  PROVE  Follows(l, o)
<1> DEFINE k == Iterated(l, roll)
<1>1. /\ k \in Loop /\ k.left = l.left - l.span /\ k.steps = l.steps + 1
      /\ l.units < k.units /\ k.units <= Cap
  BY IteratedIs
<1>2. Follows(k, o)
  OBVIOUS
<1> HIDE DEF k
<1>3. o \in Loop /\ Stops(o) /\ o.left <= k.left /\ k.steps <= o.steps
  BY <1>2 DEF Follows
<1>4. /\ (o.steps - k.steps) * Fastest <= k.left - o.left
      /\ o.steps - k.steps <= o.units - k.units
  BY <1>2 DEF Follows
<1>5. o.units <= Cap
  BY <1>1, <1>2 DEF Follows
<1>6. /\ l.left \in Nat /\ l.units \in Nat /\ l.steps \in Nat
      /\ l.span \in Nat \ {0} /\ Fastest <= l.span
      /\ k.left \in Nat /\ k.units \in Nat /\ k.steps \in Nat
      /\ o.left \in Nat /\ o.units \in Nat /\ o.steps \in Nat
      /\ Fastest \in Nat
  BY <1>1, <1>3, LoopIs, FastestIs
<1>7. o.left <= l.left /\ l.steps < o.steps /\ l.span <= l.left - o.left
  BY <1>1, <1>3, <1>6
<1>8. o.steps - l.steps <= o.units - l.units
  BY <1>1, <1>4, <1>6
<1>9. (o.steps - l.steps) * Fastest <= l.left - o.left
  <2> DEFINE a == o.steps - k.steps
  <2>1. a \in Nat /\ o.steps - l.steps = a + 1
    BY <1>1, <1>3, <1>6
  <2>2. a * Fastest <= k.left - o.left
    BY <1>4
  <2> HIDE DEF a
  <2>3. (a + 1) * Fastest = a * Fastest + Fastest
    BY <2>1, <1>6, OneMore
  <2> DEFINE p == a * Fastest
  <2>4. p \in Int
    BY <2>1, <1>6
  <2>5. p <= k.left - o.left /\ (a + 1) * Fastest = p + Fastest
    BY <2>2, <2>3
  <2> HIDE DEF p
  <2>6. p + Fastest <= l.left - o.left
    BY <2>4, <2>5, <1>1, <1>6
  <2> QED BY <2>1, <2>5, <2>6
<1>10. l.steps <= o.steps
  BY <1>6, <1>7
<1> QED BY <1>3, <1>5, <1>7, <1>8, <1>9, <1>10, Zenon DEF Follows

(* A loop that stops at once has done nothing.                             *)
LEMMA FollowsItself ==
  ASSUME NEW l \in Loop, Stops(l)
  PROVE  Follows(l, l)
<1>1. 0 * Fastest = 0
  BY FastestIs
<1>2. l.left - l.left = 0 /\ l.steps - l.steps = 0 /\ l.units - l.units = 0
  BY LoopIs
<1>3. l.left <= l.left /\ l.steps <= l.steps
  BY LoopIs
<1>4. (l.steps - l.steps) * Fastest <= l.left - l.left
  BY <1>1, <1>2
<1>5. l.steps - l.steps <= l.units - l.units
  BY <1>2
<1> QED BY <1>3, <1>4, <1>5 DEF Follows

(* Whatever the loop may end with follows: by induction on the minutes     *)
(* left.                                                                   *)
LEMMA GrantingFollows ==
  ASSUME NEW l \in Loop, NEW o \in Granting[l]
  PROVE  Follows(l, o)
<1> DEFINE Wrong(k) == \E e \in Granting[k] : ~Follows(k, e)
           Bad == {n \in Nat : \E k \in Loop : k.left = n /\ Wrong(k)}
<1> SUFFICES ASSUME Bad # {} PROVE FALSE
  <2>1. Wrong(l) => l.left \in Bad
    BY LoopIs
  <2> QED BY <2>1
<1>1. PICK n \in Bad : \A j \in Bad : n <= j
  <2>1. Bad \in SUBSET Nat
    OBVIOUS
  <2> HIDE DEF Bad
  <2> QED BY <2>1, Least
<1>2. PICK k \in Loop : k.left = n /\ Wrong(k)
  OBVIOUS
<1>3. PICK e \in Granting[k] : ~Follows(k, e)
  BY <1>2
<1>4. Granting[k] = Continues(Granting, k)
  BY GrantingIs
<1>5. CASE Stops(k)
  <2>1. e = k
    BY <1>3, <1>4, <1>5 DEF Continues
  <2> QED BY <2>1, <1>3, <1>5, FollowsItself
<1>6. CASE ~Stops(k)
  <2>1. PICK roll \in Intervals : e \in Granting[Iterated(k, roll)]
    BY <1>3, <1>4, <1>6 DEF Continues
  <2> DEFINE m == Iterated(k, roll)
  <2>2. m \in Loop /\ m.left < k.left
    BY <1>6, IteratedIs
  <2>3. m.left \in Nat /\ n \in Nat
    BY <2>2, LoopIs
  <2>4. ~(n <= m.left)
    BY <2>2, <2>3, <1>2
  <2>5. m.left \notin Bad
    <3> HIDE DEF m, Bad
    <3> QED BY <2>4, <1>1
  <2>6. ~Wrong(m)
    BY <2>2, <2>3, <2>5
  <2>7. Follows(m, e)
    BY <2>1, <2>6
  <2> QED BY <2>7, <1>3, <1>6, FollowsFurther
<1> QED BY <1>5, <1>6

-----------------------------------------------------------------------------
(* What compute_secretary_tick returns.                                    *)
Earned(c, since, span, now) ==
  /\ c.granted \in 0..Cap /\ c.steps \in 0..Cap
  /\ c.span \in Interval /\ c.last \in Moment
  /\ since <= c.last /\ now - c.last < c.span
  /\ c.steps * Fastest <= c.last - since
  /\ \/ c.span = span
     \/ span <= c.last - since

(* The new anchor is not before the old one, less than the new interval    *)
(* is left behind it, and every point has taken the shortest interval,     *)
(* between the two anchors, at least.                                      *)
LEMMA ComputedIsEarned ==
  ASSUME NEW since \in Moment, NEW now \in Moment, NEW span \in Interval,
         NEW units \in Nat, NEW c \in Computations(since, span, units, now)
  PROVE  Earned(c, since, span, now)
<1> DEFINE m == Minutes(since, now)
           b == [left |-> m, span |-> span, units |-> units, steps |-> 0]
<1>1. PICK l \in Granting[b] : c = Computed(since, units, now, l)
  BY DEF Computations
<1>2. since \in Nat /\ since <= MaxTime /\ now \in Nat /\ now <= MaxTime
      /\ MaxTime \in Nat
  BY ConstantsAre DEF Moment
<1>3. m \in Nat /\ m <= MaxTime /\ m >= now - since
      /\ since + m <= MaxTime /\ (m = now - since \/ m = 0)
  <2>1. now - since \in Int /\ 0 \in Int
    BY <1>2
  <2>2. m \in {now - since, 0} /\ m >= now - since /\ m >= 0
    BY <2>1, OfTwo DEF Minutes
  <2> HIDE DEF m
  <2> QED BY <1>2, <2>1, <2>2
<1>4. m \in Moment
  BY <1>2, <1>3 DEF Moment
<1> HIDE DEF m
<1>5. b \in Loop /\ b.left = m /\ b.span = span /\ b.units = units /\ b.steps = 0
  BY <1>4 DEF Loop
<1> HIDE DEF b
<1>6. Follows(b, l)
  BY <1>1, <1>5, GrantingFollows
<1>7. /\ l \in Loop /\ Stops(l) /\ l.left <= m /\ 0 <= l.steps
      /\ (l.steps - 0) * Fastest <= m - l.left
      /\ l.steps - 0 <= l.units - units
      /\ (l = b \/ (0 < l.steps /\ l.units <= Cap /\ span <= m - l.left))
  BY <1>5, <1>6 DEF Follows
<1>8. /\ l.left \in Nat /\ l.units \in Nat /\ l.steps \in Nat
      /\ l.span \in Interval /\ l.span \in Nat \ {0} /\ Cap \in Nat
  BY <1>7, LoopIs, ConstantsAre
<1> DEFINE g == l.units - units
           a == since + m - l.left
           pin == l.units >= Cap /\ (g > 0 \/ l.left >= l.span)
<1>9. /\ c.granted = g /\ c.steps = l.steps /\ c.span = l.span
      /\ c.last = PinnedLast(now, a, g, l)
  BY <1>1 DEF Computed, m
<1>10. c.last = IF pin THEN now ELSE a
  BY <1>9 DEF PinnedLast
<1>11. l.steps - 0 = l.steps
  BY <1>8
<1>12. g \in 0..Cap /\ l.steps \in 0..Cap
  <2>1. CASE l = b
    BY <2>1, <1>5, <1>8
  <2>2. CASE l.units <= Cap
    BY <2>2, <1>7, <1>8
  <2> QED BY <2>1, <2>2, <1>7
<1>13. pin => m = now - since /\ now - since >= m - l.left
  <2>1. pin => m # 0
    <3>1. CASE l = b
      BY <3>1, <1>5, <1>8
    <3>2. CASE span <= m - l.left
      <4>1. span \in Nat \ {0}
        BY FastestIs
      <4> QED BY <3>2, <4>1, <1>3, <1>8
    <3> QED BY <3>1, <3>2, <1>7
  <2> HIDE DEF pin
  <2> QED BY <2>1, <1>2, <1>3, <1>7, <1>8
<1>14. ~pin => l.left < l.span
  <2>1. l.left < l.span \/ l.units >= Cap
    BY <1>7 DEF Stops
  <2> QED BY <2>1, <1>8
<1>15. now - a <= l.left /\ a \in Nat /\ a <= MaxTime /\ m - l.left = a - since
  BY <1>2, <1>3, <1>7, <1>8
<1> HIDE DEF pin, a, g
<1>16. c.last \in Nat /\ c.last <= MaxTime /\ c.last - since >= m - l.left
  BY <1>10, <1>13, <1>15, <1>2, <1>3, <1>7, <1>8
<1>17. c.last \in Moment /\ since <= c.last
  BY <1>16, <1>2, <1>3, <1>7, <1>8 DEF Moment
<1>18. now - c.last < c.span
  BY <1>9, <1>10, <1>13, <1>14, <1>15, <1>2, <1>8
<1>19. c.steps * Fastest <= c.last - since
  <2> DEFINE p == l.steps * Fastest
  <2>1. p <= m - l.left /\ p \in Int
    BY <1>7, <1>8, <1>11, FastestIs
  <2>2. c.steps * Fastest = p
    BY <1>9
  <2> HIDE DEF p
  <2> QED BY <2>1, <2>2, <1>16, <1>2, <1>3, <1>8
<1>20. c.span = span \/ span <= c.last - since
  <2>1. CASE l = b
    BY <2>1, <1>5, <1>9
  <2>2. CASE span <= m - l.left
    <3>1. span \in Nat
      BY FastestIs
    <3> QED BY <3>1, <2>2, <1>16, <1>2, <1>3, <1>8
  <2> QED BY <2>1, <2>2, <1>7
<1> QED BY <1>8, <1>9, <1>12, <1>17, <1>18, <1>19, <1>20 DEF Earned

-----------------------------------------------------------------------------
(* The local variables of a tick after each of its statements.             *)

(* The types of a tick's variables.                                        *)
LEMMA TickerIs ==
  ASSUME NEW tk \in [Ticker -> Locals], NEW t \in Ticker
  PROVE  /\ tk[t].now \in Moment /\ tk[t].session \in 0..MaxSessions
         /\ tk[t].last \in Moment /\ tk[t].granted \in 0..Cap
         /\ tk[t].steps \in 0..Cap /\ tk[t].newLast \in Moment
         /\ tk[t].newInterval \in Interval
BY DEF Locals

(* What a tick starts and ends with.                                       *)
LEMMA IdleIs ==
  /\ Idle \in Locals /\ Idle.at = "idle"
  /\ \A a \in Resting, s \in 0..MaxSessions :
       LET r == [Idle EXCEPT !.at = a, !.session = s]
       IN  r \in Locals /\ r.at = a
  /\ \A a \in Resting : [Idle EXCEPT !.at = a] \in Locals
                         /\ [Idle EXCEPT !.at = a].at = a
  /\ \A n \in Moment, s \in 0..MaxSessions :
       LET r == [Idle EXCEPT !.at = "row", !.now = n, !.session = s]
       IN  r \in Locals /\ r.at = "row"
<1>1. 0 \in Moment /\ 0 \in 0..MaxSessions /\ 0 \in 0..Cap /\ Default \in Interval
  BY ConstantsAre DEF Moment, Interval
<1>2. "idle" \in Resting /\ "row" \in Working
  BY DEF Resting, Working
<1> QED BY <1>1, <1>2 DEF Idle, Locals

(* Putting a record at one place of a function.                            *)
LEMMA PutIs ==
  ASSUME NEW tk \in [Ticker -> Locals], NEW t \in Ticker, NEW r \in Locals
  PROVE  LET n == [tk EXCEPT ![t] = r]
         IN  /\ n \in [Ticker -> Locals] /\ n[t] = r
             /\ \A u \in Ticker : u # t => n[u] = tk[u]
OBVIOUS

-----------------------------------------------------------------------------
(* Types.                                                                  *)

(* Types hold at first.                                                    *)
LEMMA TypeInit ==
  ASSUME Init
  PROVE  TypeOK
<1>1. clock = 0 /\ backs = 0 /\ battles = 0 /\ faults = 0
      /\ steps = 0 /\ unmoved = 0 /\ overlap = FALSE /\ active = 1
      /\ last = NoAnchor /\ first = NoAnchor /\ ticked = NoAnchor
      /\ interval = Default /\ intimacy = Initial /\ sessions = 1 /\ open = {1}
  BY DEF Init
<1>2. 0 \in Moment /\ Default \in Interval /\ 1 \in Session /\ {1} \subseteq 1..1
  BY ConstantsAre DEF Moment, Interval, Session
<1>3. tick \in [Ticker -> Locals]
  BY IdleIs DEF Init
<1>4. live \in [Session -> Nat]
  BY ConstantsAre DEF Init
<1>5. 0 \in 0..MaxBack /\ 0 \in 0..MaxBattles /\ 0 \in 0..MaxFaults /\ Initial \in Nat
  BY ConstantsAre
<1>6. /\ sessions \in Session /\ open \subseteq 1..sessions /\ active \in {0, sessions}
      /\ overlap \in BOOLEAN /\ interval \in Interval /\ intimacy \in Nat
  BY <1>1, <1>2, <1>5
<1>7. /\ {steps, unmoved} \subseteq Nat /\ last \in Moment \cup {NoAnchor}
      /\ {first, ticked} \subseteq Moment \cup {NoAnchor}
  BY <1>1
<1>8. clock \in Moment /\ backs \in 0..MaxBack /\ battles \in 0..MaxBattles
      /\ faults \in 0..MaxFaults
  BY <1>1, <1>2, <1>5
<1> QED BY <1>3, <1>4, <1>6, <1>7, <1>8 DEF TypeOK

(* The sessions, and those that are open, are sessions.                    *)
LEMMA SessionsAre ==
  ASSUME TypeOK
  PROVE  /\ sessions \in Session /\ open \subseteq Session
         /\ sessions \in Nat /\ sessions <= MaxSessions
         /\ active \in 0..MaxSessions
<1>1. sessions \in Nat /\ sessions <= MaxSessions /\ open \subseteq 1..sessions
  BY ConstantsAre DEF TypeOK, Session
<1>2. 1..sessions \subseteq Session
  BY <1>1, ConstantsAre DEF Session
<1>3. active = 0 \/ active = sessions
  BY DEF TypeOK
<1> QED BY <1>1, <1>2, <1>3, ConstantsAre DEF TypeOK

(* A tick that starts reads the row next.                                  *)
LEMMA StartsType ==
  ASSUME TypeOK, NEW t \in Ticker, NEW s \in 0..MaxSessions, Starts(t, s)
  PROVE  /\ tick' \in [Ticker -> Locals] /\ overlap' \in BOOLEAN
         /\ UNCHANGED <<first, steps, unmoved, ticked>>
         /\ At(t, "row")' /\ \A u \in Ticker : u # t => tick'[u] = tick[u]
<1>1. clock \in Moment /\ tick \in [Ticker -> Locals] /\ overlap \in BOOLEAN
  BY DEF TypeOK
<1> DEFINE r == [Idle EXCEPT !.at = "row", !.now = clock, !.session = s]
<1>2. r \in Locals /\ r.at = "row"
  BY <1>1, IdleIs
<1>3. tick' = [tick EXCEPT ![t] = r] /\ UNCHANGED <<first, steps, unmoved,
                                                    ticked>>
  BY DEF Starts
<1> HIDE DEF r
<1>4. /\ tick' \in [Ticker -> Locals] /\ tick'[t] = r
      /\ \A u \in Ticker : u # t => tick'[u] = tick[u]
  BY <1>1, <1>2, <1>3, PutIs
<1>5. overlap' \in BOOLEAN
  <2>1. overlap' = (overlap \/ \E u \in Ticker : ~Rests(u))
    BY DEF Starts
  <2> QED BY <2>1, Zenon
<1> QED BY <1>2, <1>3, <1>4, <1>5 DEF At

(* A tick that ends rests.                                                 *)
LEMMA EndsType ==
  ASSUME TypeOK, NEW t \in Ticker, Ends(t)
  PROVE  /\ tick' \in [Ticker -> Locals]
         /\ Rests(t)' /\ \A u \in Ticker : u # t => tick'[u] = tick[u]
<1>1. tick \in [Ticker -> Locals]
  BY DEF TypeOK
<1>2. PICK a \in Resting : tick' = [tick EXCEPT ![t] = [Idle EXCEPT !.at = a]]
  BY DEF Ends, Resting
<1> DEFINE r == [Idle EXCEPT !.at = a]
<1>3. r \in Locals /\ r.at = a /\ tick' = [tick EXCEPT ![t] = r]
  BY <1>2, IdleIs
<1> HIDE DEF r
<1>4. /\ tick' \in [Ticker -> Locals] /\ tick'[t] = r
      /\ \A u \in Ticker : u # t => tick'[u] = tick[u]
  BY <1>1, <1>3, PutIs
<1> QED BY <1>2, <1>3, <1>4 DEF Rests

(* So does one that has finished.                                          *)
LEMMA FinishType ==
  ASSUME TypeOK, NEW t \in Ticker, Finish(t)
  PROVE  /\ tick' \in [Ticker -> Locals] /\ ticked' \in Moment \cup {NoAnchor}
         /\ Rests(t)' /\ \A u \in Ticker : u # t => tick'[u] = tick[u]
<1>1. tick \in [Ticker -> Locals] /\ ticked \in Moment \cup {NoAnchor}
  BY DEF TypeOK
<1>2. Ends(t)
  BY DEF Finish
<1>3. ticked' \in Moment \cup {NoAnchor}
  BY <1>1, TickerIs DEF Finish
<1> QED BY <1>2, <1>3, EndsType

(* One that breaks off counts what it has granted, if it has not moved the *)
(* anchor yet.                                                             *)
LEMMA BreaksOffType ==
  ASSUME TypeOK, NEW t \in Ticker, BreaksOff(t)
  PROVE  /\ tick' \in [Ticker -> Locals] /\ unmoved' \in Nat
         /\ Rests(t)' /\ \A u \in Ticker : u # t => tick'[u] = tick[u]
         /\ At(t, "move") => unmoved' = unmoved + tick[t].steps
         /\ ~At(t, "move") => unmoved' = unmoved
         /\ UNCHANGED <<first, steps, ticked, overlap>>
<1>1. unmoved \in Nat /\ tick[t].steps \in Nat
  BY TickerIs, ConstantsAre DEF TypeOK
<1>2. Ends(t) /\ UNCHANGED <<first, steps, ticked, overlap>>
  BY DEF BreaksOff
<1>3. /\ At(t, "move") => unmoved' = unmoved + tick[t].steps
      /\ ~At(t, "move") => unmoved' = unmoved
  <2>1. unmoved' = unmoved + IF At(t, "move") THEN tick[t].steps ELSE 0
    BY DEF BreaksOff
  <2> QED BY <1>1, <2>1
<1>4. unmoved' \in Nat
  BY <1>1, <1>3
<1> QED BY <1>2, <1>3, <1>4, EndsType

(* The loop that goes to another resting place has nothing in its          *)
(* variables but a session.                                                *)
LEMMA LoopType ==
  ASSUME TypeOK, LoopLists \/ LoopSleeps
  PROVE  /\ tick' \in [Ticker -> Locals]
         /\ Rests("loop") /\ Rests("loop")'
         /\ \A u \in Ticker : u # "loop" => tick'[u] = tick[u]
         /\ UNCHANGED <<row, play, ghosts>> /\ Others
<1>1. tick \in [Ticker -> Locals] /\ "loop" \in Ticker
  BY DEF TypeOK, Ticker
<1>2. \E r \in Locals : r.at \in Resting /\ tick' = [tick EXCEPT !["loop"] = r]
  <2>1. CASE LoopLists
    <3>1. tick' = [tick EXCEPT !["loop"] = [Idle EXCEPT !.at = "listed",
                                                        !.session = active]]
      BY <2>1 DEF LoopLists
    <3>2. "listed" \in Resting
      BY DEF Resting
    <3> QED BY <3>1, <3>2, IdleIs, SessionsAre
  <2>2. CASE LoopSleeps
    <3>1. tick' = [tick EXCEPT !["loop"] = Idle] /\ "idle" \in Resting
      BY <2>2 DEF LoopSleeps, Resting
    <3> QED BY <3>1, IdleIs
  <2> QED BY <2>1, <2>2
<1>3. PICK r \in Locals : r.at \in Resting /\ tick' = [tick EXCEPT !["loop"] = r]
  BY <1>2
<1>4. /\ tick' \in [Ticker -> Locals] /\ tick'["loop"] = r
      /\ \A u \in Ticker : u # "loop" => tick'[u] = tick[u]
  BY <1>1, <1>3, PutIs
<1>5. UNCHANGED <<row, play, ghosts>> /\ Others
  BY DEF LoopLists, LoopSleeps
<1>6. Rests("loop")
  BY DEF LoopLists, LoopSleeps, At, Rests, Resting
<1> QED BY <1>3, <1>4, <1>5, <1>6 DEF Rests

(* A tick that reads the row goes on to one of two stages.                 *)
LEMMA ReadsAnchorType ==
  ASSUME TypeOK, NEW t \in Ticker, ReadsAnchor(t)
  PROVE  /\ tick' \in [Ticker -> Locals]
         /\ last = NoAnchor => At(t, "anchor")'
         /\ last # NoAnchor => At(t, "ship")' /\ tick'[t].last = last
         /\ tick'[t].newInterval = interval
         /\ \A u \in Ticker : u # t => tick'[u] = tick[u]
<1> DEFINE a == IF last = NoAnchor THEN "anchor" ELSE "ship"
           m == IF last = NoAnchor THEN 0 ELSE last
<1>1. tick' = [tick EXCEPT ![t].at = a, ![t].last = m, ![t].newInterval = interval]
  BY DEF ReadsAnchor
<1>2. /\ tick \in [Ticker -> Locals] /\ interval \in Interval
      /\ a \in {"anchor", "ship"} /\ m \in Moment
  BY ConstantsAre DEF TypeOK, Moment
<1>3. last = NoAnchor => a = "anchor"
  OBVIOUS
<1>4. last # NoAnchor => a = "ship" /\ m = last
  OBVIOUS
<1> HIDE DEF a, m
<1>5. /\ tick' \in [Ticker -> Locals]
      /\ tick'[t].at = a /\ tick'[t].last = m /\ tick'[t].newInterval = interval
      /\ \A u \in Ticker : u # t => tick'[u] = tick[u]
  BY <1>1, <1>2 DEF Locals, Working
<1> QED BY <1>3, <1>4, <1>5 DEF At

(* One that reads the ship either ends or has something to grant.          *)
LEMMA ReadsShipType ==
  ASSUME TypeOK, NEW t \in Ticker, ReadsShip(t)
  PROVE  \E c \in Computations(tick[t].last, tick[t].newInterval, intimacy,
                               tick[t].now) :
           /\ Earned(c, tick[t].last, tick[t].newInterval, tick[t].now)
           /\ \/ /\ Nothing(c, tick[t].last, tick[t].newInterval)
                 /\ Finish(t)
              \/ /\ tick' \in [Ticker -> Locals] /\ ticked' = ticked
                 /\ At(t, "grant")' /\ tick'[t].now = tick[t].now
                 /\ tick'[t].steps = c.steps /\ tick'[t].newLast = c.last
                 /\ tick'[t].newInterval = c.span
                 /\ \A u \in Ticker : u # t => tick'[u] = tick[u]
<1> DEFINE x == tick[t]
<1>1. /\ x \in Locals /\ tick \in [Ticker -> Locals] /\ intimacy \in Nat
      /\ x.last \in Moment /\ x.newInterval \in Interval /\ x.now \in Moment
  BY TickerIs DEF TypeOK
<1>2. PICK c \in Computations(x.last, x.newInterval, intimacy, x.now) :
        \/ Nothing(c, x.last, x.newInterval) /\ Finish(t)
        \/ /\ tick' = [tick EXCEPT ![t] =
                         [x EXCEPT !.at = "grant", !.granted = c.granted,
                                   !.steps = c.steps, !.newLast = c.last,
                                   !.newInterval = c.span]]
           /\ UNCHANGED ticked
  BY <1>1 DEF ReadsShip
<1>3. Earned(c, x.last, x.newInterval, x.now)
  BY <1>1, ComputedIsEarned
<1>4. CASE Nothing(c, x.last, x.newInterval) /\ Finish(t)
  BY <1>3, <1>4
<1>5. CASE /\ tick' = [tick EXCEPT ![t] =
                         [x EXCEPT !.at = "grant", !.granted = c.granted,
                                   !.steps = c.steps, !.newLast = c.last,
                                   !.newInterval = c.span]]
           /\ UNCHANGED ticked
  <2> DEFINE r == [x EXCEPT !.at = "grant", !.granted = c.granted,
                            !.steps = c.steps, !.newLast = c.last,
                            !.newInterval = c.span]
  <2>1. /\ c.granted \in 0..Cap /\ c.steps \in 0..Cap /\ c.last \in Moment
        /\ c.span \in Interval
    BY <1>3 DEF Earned
  <2>2. /\ r \in Locals /\ r.at = "grant" /\ r.now = x.now /\ r.steps = c.steps
        /\ r.newLast = c.last /\ r.newInterval = c.span
    <3> HIDE DEF x
    <3> QED BY <1>1, <2>1 DEF Locals, Working
  <2>3. tick' = [tick EXCEPT ![t] = r] /\ ticked' = ticked
    BY <1>5
  <2> HIDE DEF r
  <2>4. /\ tick' \in [Ticker -> Locals] /\ tick'[t] = r
        /\ \A u \in Ticker : u # t => tick'[u] = tick[u]
    BY <1>1, <2>2, <2>3, PutIs
  <2> QED BY <1>3, <2>2, <2>3, <2>4 DEF At
<1> QED BY <1>2, <1>4, <1>5

(* A tick that goes on to its next stage keeps the rest.                   *)
LEMMA MoveType ==
  ASSUME TypeOK, NEW t \in Ticker, NEW a \in {"move", "reread"},
         tick' = [tick EXCEPT ![t].at = a]
  PROVE  /\ tick' \in [Ticker -> Locals] /\ At(t, a)'
         /\ tick'[t].steps = tick[t].steps
         /\ tick'[t].now = tick[t].now /\ tick'[t].newLast = tick[t].newLast
         /\ tick'[t].newInterval = tick[t].newInterval
         /\ \A u \in Ticker : u # t => tick'[u] = tick[u]
<1>1. tick \in [Ticker -> Locals]
  BY DEF TypeOK
<1>2. /\ tick' \in [Ticker -> Locals] /\ tick'[t].at = a
      /\ tick'[t].steps = tick[t].steps
      /\ tick'[t].now = tick[t].now /\ tick'[t].newLast = tick[t].newLast
      /\ tick'[t].newInterval = tick[t].newInterval
      /\ \A u \in Ticker : u # t => tick'[u] = tick[u]
  BY <1>1 DEF Locals, Working
<1> QED BY <1>2 DEF At

(* Intimacy is never negative.                                             *)
LEMMA UnitsAre ==
  /\ \A u, g \in Nat : Min({u + g, Cap}) \in Nat /\ Bumped(u, g) \in Nat
  /\ \A u \in Nat, d \in Deltas : Clamped(u + d) \in Nat
<1>1. ASSUME NEW u \in Nat, NEW g \in Nat
      PROVE  Min({u + g, Cap}) \in Nat /\ Bumped(u, g) \in Nat
  <2>1. u + g \in Nat /\ Cap \in Nat /\ u + g \in Int /\ Cap \in Int
    BY ConstantsAre
  <2>2. Min({u + g, Cap}) \in {u + g, Cap} /\ Min({Cap, u + g}) \in {Cap, u + g}
    BY <2>1, OfTwo
  <2> QED BY <2>1, <2>2 DEF Bumped
<1>2. ASSUME NEW u \in Nat, NEW d \in Deltas
      PROVE  Clamped(u + d) \in Nat
  <2>1. u + d \in Int /\ 0 \in Int
    BY ConstantsAre
  <2>2. Max({u + d, 0}) \in {u + d, 0} /\ Max({u + d, 0}) >= 0
    BY <2>1, OfTwo
  <2> QED BY <2>1, <2>2 DEF Clamped
<1> QED BY <1>1, <1>2

(* Types hold after a step of the loop between two ticks,                  *)
LEMMA LoopStepType ==
  ASSUME TypeOK, LoopLists \/ LoopVisits \/ LoopSleeps
  PROVE  TypeOK'
<1>1. CASE LoopVisits
  <2>1. Starts("loop", tick["loop"].session) /\ UNCHANGED <<row,
                                                            play>> /\ Others
    BY <1>1 DEF LoopVisits
  <2>2. "loop" \in Ticker
    BY DEF Ticker
  <2>3. tick["loop"].session \in 0..MaxSessions
    BY <2>2, TickerIs DEF TypeOK
  <2>4. /\ tick' \in [Ticker -> Locals] /\ overlap' \in BOOLEAN
        /\ UNCHANGED <<first, steps, unmoved, ticked>>
    <3> DEFINE s == tick["loop"].session
    <3>1. s \in 0..MaxSessions /\ Starts("loop", s)
      BY <2>1, <2>3
    <3> HIDE DEF s
    <3> QED BY <2>2, <3>1, StartsType
  <2> QED BY <2>1, <2>4 DEF TypeOK, Others, row, play
<1>2. CASE LoopLists \/ LoopSleeps
  <2>1. tick' \in [Ticker -> Locals] /\ UNCHANGED <<row, play,
                                                    ghosts>> /\ Others
    BY <1>2, LoopType
  <2> QED BY <2>1 DEF TypeOK, Others, row, play, ghosts
<1> QED BY <1>1, <1>2

(* after a login,                                                          *)
LEMMA LogsInType ==
  ASSUME TypeOK, NEW t \in Login, LogsIn(t)
  PROVE  TypeOK'
<1>1. /\ Starts(t, sessions') /\ UNCHANGED row /\ Others
      /\ sessions < MaxSessions /\ sessions' = sessions + 1
      /\ open' = open \cup {sessions'} /\ active' = sessions'
      /\ live' = [live EXCEPT ![sessions'] = intimacy]
  BY DEF LogsIn
<1>2. t \in Ticker
  BY DEF Ticker
<1>3. /\ sessions' \in Session /\ open' \subseteq 1..sessions'
      /\ sessions' \in 0..MaxSessions /\ active' \in {0, sessions'}
  <2>1. /\ sessions \in Nat /\ sessions + 1 <= MaxSessions /\ MaxSessions \in Nat
        /\ open \subseteq 1..sessions
    BY <1>1, SessionsAre, ConstantsAre DEF TypeOK
  <2> QED BY <1>1, <2>1 DEF Session
<1>4. /\ tick' \in [Ticker -> Locals] /\ overlap' \in BOOLEAN
      /\ UNCHANGED <<first, steps, unmoved, ticked>>
  <2> DEFINE s == sessions'
  <2>1. s \in 0..MaxSessions /\ Starts(t, s)
    BY <1>1, <1>3
  <2> HIDE DEF s
  <2> QED BY <1>2, <2>1, StartsType
<1>5. live' \in [Session -> Nat]
  BY <1>1 DEF TypeOK
<1> QED BY <1>1, <1>3, <1>4, <1>5 DEF TypeOK, Others, row

(* after each statement of a tick,                                         *)
LEMMA TickType ==
  ASSUME TypeOK, NEW t \in Ticker, Tick(t)
  PROVE  TypeOK'
<1>1. CASE ReadsAnchor(t)
  <2>1. tick' \in [Ticker -> Locals]
    BY <1>1, ReadsAnchorType
  <2>2. UNCHANGED <<row, play, ghosts>> /\ Others
    BY <1>1 DEF ReadsAnchor
  <2> QED BY <2>1, <2>2 DEF TypeOK, row, play, ghosts, Others
<1>2. CASE Anchors(t)
  <2>1. /\ last' = tick[t].now /\ interval' \in Intervals /\ first' = tick[t].now
        /\ Finish(t) /\ UNCHANGED <<intimacy, play, steps, unmoved,
                                    overlap>> /\ Others
    BY <1>2 DEF Anchors
  <2>2. tick[t].now \in Moment
    BY TickerIs DEF TypeOK
  <2>3. tick' \in [Ticker -> Locals] /\ ticked' \in Moment \cup {NoAnchor}
    BY <2>1, FinishType
  <2>4. interval' \in Interval
    BY <2>1 DEF Interval
  <2> QED BY <2>1, <2>2, <2>3, <2>4 DEF TypeOK, play, Others
<1>3. CASE ReadsShip(t)
  <2>1. UNCHANGED <<row, play, first, steps, unmoved, overlap>> /\ Others
    BY <1>3 DEF ReadsShip
  <2>2. tick' \in [Ticker -> Locals] /\ ticked' \in Moment \cup {NoAnchor}
    <3>1. \/ Finish(t)
          \/ tick' \in [Ticker -> Locals] /\ ticked' = ticked
      BY <1>3, ReadsShipType
    <3>2. ticked \in Moment \cup {NoAnchor}
      BY DEF TypeOK
    <3> QED BY <3>1, <3>2, FinishType
  <2> QED BY <2>1, <2>2 DEF TypeOK, row, play, Others
<1>4. CASE Grants(t)
  <2>1. /\ intimacy' = Min({intimacy + tick[t].granted, Cap})
        /\ steps' = steps + tick[t].steps
        /\ tick' = [tick EXCEPT ![t].at = "move"]
        /\ UNCHANGED <<last, interval, play, first, unmoved, ticked, overlap>>
        /\ Others
    BY <1>4 DEF Grants
  <2>2. tick' \in [Ticker -> Locals]
    BY <2>1, MoveType
  <2>3. tick[t].granted \in Nat /\ tick[t].steps \in Nat /\ intimacy \in Nat /\ steps \in Nat
    BY TickerIs, ConstantsAre DEF TypeOK
  <2>4. intimacy' \in Nat /\ steps' \in Nat
    <3> DEFINE g == tick[t].granted
    <3>1. g \in Nat /\ intimacy' = Min({intimacy + g, Cap})
      BY <2>1, <2>3
    <3> HIDE DEF g
    <3> QED BY <2>1, <2>3, <3>1, UnitsAre
  <2> QED BY <2>1, <2>2, <2>4 DEF TypeOK, play, Others
<1>5. CASE MovesAnchor(t)
  <2>1. /\ last' = tick[t].newLast /\ interval' = tick[t].newInterval
        /\ tick' = [tick EXCEPT ![t].at = "reread"]
        /\ UNCHANGED <<intimacy, play, ghosts>> /\ Others
    BY <1>5 DEF MovesAnchor
  <2>2. tick' \in [Ticker -> Locals]
    BY <2>1, MoveType
  <2>3. last' \in Moment /\ interval' \in Interval
    BY <2>1, TickerIs DEF TypeOK
  <2> QED BY <2>1, <2>2, <2>3 DEF TypeOK, play, ghosts, Others
<1>6. CASE Rereads(t)
  <2>1. /\ live' = IF tick[t].session \in open
                   THEN [live EXCEPT ![tick[t].session] = Bumped(@, tick[t].granted)]
                   ELSE live
        /\ Finish(t) /\ UNCHANGED <<row, sessions, open, active, first, steps>>
        /\ UNCHANGED <<unmoved, overlap>> /\ Others
    BY <1>6 DEF Rereads
  <2>2. tick' \in [Ticker -> Locals] /\ ticked' \in Moment \cup {NoAnchor}
    BY <2>1, FinishType
  <2>3. live' \in [Session -> Nat]
    <3>1. live \in [Session -> Nat] /\ open \subseteq Session
      BY SessionsAre DEF TypeOK
    <3> DEFINE s == tick[t].session
               g == tick[t].granted
    <3>2. g \in Nat
      BY TickerIs, ConstantsAre DEF TypeOK
    <3>3. live' = IF s \in open THEN [live EXCEPT ![s] = Bumped(live[s], g)] ELSE live
      BY <2>1
    <3> HIDE DEF s, g
    <3>4. s \in open => Bumped(live[s], g) \in Nat
      BY <3>1, <3>2, UnitsAre
    <3> QED BY <3>1, <3>3, <3>4
  <2> QED BY <2>1, <2>2, <2>3 DEF TypeOK, row, Others
<1> QED BY <1>1, <1>2, <1>3, <1>4, <1>5, <1>6 DEF Tick

(* after one that fails,                                                   *)
LEMMA FailsType ==
  ASSUME TypeOK, NEW t \in Ticker, TickFails(t)
  PROVE  TypeOK'
<1>1. /\ BreaksOff(t) /\ faults < MaxFaults /\ faults' = faults + 1
      /\ UNCHANGED <<row, play, clock, backs, battles>>
  BY DEF TickFails
<1>2. /\ tick' \in [Ticker -> Locals] /\ unmoved' \in Nat
      /\ UNCHANGED <<first, steps, ticked, overlap>>
  BY <1>1, BreaksOffType
<1>3. faults' \in 0..MaxFaults
  BY <1>1, ConstantsAre DEF TypeOK
<1> QED BY <1>1, <1>2, <1>3 DEF TypeOK, row, play

(* after a battle, a reload and a departure,                               *)
LEMMA PlayType ==
  ASSUME TypeOK, NEW s \in Session,
         (\E d \in Deltas : Battle(s, d)) \/ Reload(s) \/ Leaves(s)
  PROVE  TypeOK'
<1>1. live \in [Session -> Nat] /\ intimacy \in Nat /\ Initial \in Nat
  BY ConstantsAre DEF TypeOK
<1>2. CASE \E d \in Deltas : Battle(s, d)
  <2>1. PICK d \in Deltas : Battle(s, d)
    BY <1>2
  <2>2. /\ live' = [live EXCEPT ![s] = Clamped(live[s] + d)] /\ intimacy' = live'[s]
        /\ battles < MaxBattles /\ battles' = battles + 1
        /\ UNCHANGED <<clock, last, interval, sessions, open, active, tick>>
        /\ UNCHANGED <<backs, faults, ghosts>>
    BY <2>1 DEF Battle
  <2>3. Clamped(live[s] + d) \in Nat
    BY <1>1, UnitsAre
  <2>4. live' \in [Session -> Nat] /\ intimacy' \in Nat
    BY <1>1, <2>2, <2>3
  <2>5. battles' \in 0..MaxBattles
    BY <2>2, ConstantsAre DEF TypeOK
  <2> QED BY <2>2, <2>4, <2>5 DEF TypeOK, ghosts
<1>3. CASE Reload(s)
  <2>1. live' \in [Session -> Nat]
    BY <1>1, <1>3 DEF Reload
  <2> QED BY <2>1, <1>3 DEF Reload, TypeOK, row, ghosts
<1>4. CASE Leaves(s)
  <2>1. /\ live' \in [Session -> Nat] /\ open' = open \ {s} /\ active' = 0
        /\ UNCHANGED <<row, sessions>> /\ Others
    BY <1>1, <1>4 DEF Leaves
  <2>2. /\ tick' \in [Ticker -> Locals] /\ unmoved' \in Nat
        /\ UNCHANGED <<first, steps, ticked, overlap>>
    <3>1. CASE UNCHANGED <<tick, ghosts>>
      BY <3>1 DEF TypeOK, ghosts
    <3>2. CASE \E t \in Login : BreaksOff(t)
      BY <3>2, BreaksOffType DEF Ticker
    <3> QED BY <1>4, <3>1, <3>2 DEF Leaves
  <2> QED BY <2>1, <2>2 DEF TypeOK, row, Others
<1> QED BY <1>2, <1>3, <1>4

(* and after the clock has moved.                                          *)
LEMMA ClockType ==
  ASSUME TypeOK, TimePasses \/ ClockGoesBack
  PROVE  TypeOK'
<1>1. clock \in Nat /\ clock <= MaxTime /\ MaxTime \in Nat /\ MaxBack \in Nat
  BY ConstantsAre DEF TypeOK, Moment
<1>2. CASE TimePasses
  <2>1. clock' \in Moment
    BY <1>1, <1>2 DEF TimePasses, Moment
  <2> QED BY <2>1, <1>2 DEF TimePasses, TypeOK, row, play, ghosts
<1>3. CASE ClockGoesBack
  <2>1. clock' \in Moment /\ backs' \in 0..MaxBack
    BY <1>1, <1>3 DEF ClockGoesBack, Moment, TypeOK
  <2> QED BY <2>1, <1>3 DEF ClockGoesBack, TypeOK, row, play, ghosts
<1> QED BY <1>2, <1>3

(* Types are kept by every step.                                           *)
LEMMA TypeStep ==
  ASSUME TypeOK, [Next]_vars
  PROVE  TypeOK'
<1>1. CASE UNCHANGED vars
  BY <1>1 DEF TypeOK, vars, row, play, ghosts
<1>2. CASE Next
  BY <1>2, LoopStepType, LogsInType, TickType, FailsType, PlayType, ClockType
     DEF Next
<1> QED BY <1>1, <1>2

(* The variables keep their types: the anchor, the interval and the local  *)
(* variables of each tick (tick_secretary_affinity) stay what they may     *)
(* be, and no battle or tick makes the intimacy negative.                  *)
THEOREM TypeCorrect == Spec => []TypeOK
<1>1. Init => TypeOK
  BY TypeInit
<1>2. TypeOK /\ [Next]_vars => TypeOK'
  BY TypeStep
<1> QED BY <1>1, <1>2, PTL DEF Spec

-----------------------------------------------------------------------------
(* The inductive invariant: as long as no two ticks have been under way at *)
(* once, the one that is goes from stage to stage with what the row says.  *)

Busy(t) == ~Rests(t)
OneAtATime == \A t, u \in Ticker : Busy(t) /\ Busy(u) => t = u

(* Before the first anchor nothing is granted.                             *)
BeforeFirst == last = NoAnchor =>
  /\ steps = 0 /\ unmoved = 0 /\ ticked = NoAnchor
  /\ \A t \in Ticker : tick[t].at \in Resting \cup {"row", "anchor"}
AfterFirst == last # NoAnchor =>
  /\ first \in Moment
  /\ \A t \in Ticker : ~At(t, "anchor")

(* The anchor a tick is going to persist: either the interval that is due  *)
(* has gone by or the interval stays.                                      *)
Ahead(t) ==
  /\ last <= tick[t].newLast
  /\ tick[t].now - tick[t].newLast < tick[t].newInterval
  /\ \/ tick[t].newInterval = interval
     \/ interval <= tick[t].newLast - last

Holds(t) ==
  /\ At(t, "ship") => tick[t].last = last /\ tick[t].newInterval = interval
  /\ At(t, "grant") =>
       Ahead(t) /\ tick[t].steps * Fastest <= tick[t].newLast - last
  /\ At(t, "move") =>
       /\ Ahead(t)
       /\ (steps - unmoved) * Fastest <= tick[t].newLast - first
       /\ (steps - unmoved - tick[t].steps) * Fastest <= last - first
  /\ At(t, "reread") => tick[t].now - last < interval
LocalsHold == \A t \in Ticker : Holds(t)

(* Points are granted before the anchor moves.                             *)
Paid == last # NoAnchor =>
  \/ \E t \in Ticker : At(t, "move")
  \/ (steps - unmoved) * Fastest <= last - first
NoDebt == ticked # NoAnchor => ticked - last < interval

Sound ==
  OneAtATime /\ BeforeFirst /\ AfterFirst /\ LocalsHold /\ Paid /\ NoDebt
AInv == TypeOK /\ (~overlap => Sound)

-----------------------------------------------------------------------------

(* The times and the counts are numbers.                                   *)
LEMMA NumbersAre ==
  ASSUME TypeOK
  PROVE  /\ clock \in Nat /\ steps \in Nat /\ unmoved \in Nat
         /\ interval \in Nat \ {0}
         /\ last \in Nat \/ last = NoAnchor
         /\ first \in Nat \/ first = NoAnchor
         /\ ticked \in Nat \/ ticked = NoAnchor
         /\ \A t \in Ticker :
              /\ tick[t].now \in Nat /\ tick[t].now \in Moment
              /\ tick[t].last \in Nat /\ tick[t].newLast \in Nat
              /\ tick[t].newLast \in Moment
              /\ tick[t].steps \in Nat /\ tick[t].newInterval \in Nat \ {0}
         /\ NoAnchor \notin Nat /\ NoAnchor \notin Moment /\ Fastest \in Nat \ {0}
<1>1. \A m \in Moment : m \in Nat
  BY ConstantsAre DEF Moment
<1>2. NoAnchor \notin Nat /\ \A n \in 0..Cap : n \in Nat
  BY ConstantsAre
<1>3. \A t \in Ticker :
         /\ tick[t].now \in Moment /\ tick[t].last \in Moment
         /\ tick[t].newLast \in Moment
         /\ tick[t].steps \in 0..Cap /\ tick[t].newInterval \in Interval
  BY TickerIs DEF TypeOK
<1>4. /\ clock \in Moment /\ steps \in Nat /\ unmoved \in Nat /\ interval \in Interval
      /\ last \in Moment \cup {NoAnchor} /\ first \in Moment \cup {NoAnchor}
      /\ ticked \in Moment \cup {NoAnchor}
  BY DEF TypeOK
<1> QED BY <1>1, <1>2, <1>3, <1>4, FastestIs

(* A ticker that rests is at no stage of a tick.                           *)
LEMMA RestsIs ==
  ASSUME NEW t \in Ticker
  PROVE  /\ Rests(t) => /\ ~At(t, "row") /\ ~At(t, "anchor") /\ ~At(t, "ship")
                        /\ ~At(t, "grant") /\ ~At(t, "move") /\ ~At(t, "reread")
         /\ Rests(t)' => /\ ~At(t, "row")' /\ ~At(t, "anchor")' /\ ~At(t, "ship")'
                         /\ ~At(t, "grant")' /\ ~At(t, "move")' /\ ~At(t, "reread")'
BY DEF Rests, Resting, At

(* When t alone is under way, nobody else is at any stage.                 *)
LEMMA OnlyOne ==
  ASSUME NEW t \in Ticker, Busy(t), OneAtATime
  PROVE  \A u \in Ticker : u # t => Rests(u)
BY Zenon DEF OneAtATime, Busy

(* A tick that no longer runs leaves nobody under way.                     *)
LEMMA NobodyElse ==
  ASSUME NEW t \in Ticker, \A u \in Ticker : u # t => Rests(u),
         \A u \in Ticker : u # t => tick'[u] = tick[u]
  PROVE  /\ OneAtATime'
         /\ \A u \in Ticker : u # t => Rests(u)'
         /\ \A u \in Ticker : u # t => Holds(u)'
<1>1. \A u \in Ticker : u # t => Rests(u)'
  BY DEF Rests
<1>2. \A u \in Ticker : u # t => Holds(u)'
  BY <1>1, RestsIs, Zenon DEF Holds
<1> QED BY <1>1, <1>2 DEF OneAtATime, Busy

(* Such a state is sound when nothing but its tick has to be looked at.    *)
LEMMA SoundWhen ==
  ASSUME NEW t \in Ticker, \A u \in Ticker : u # t => Rests(u),
         \A u \in Ticker : u # t => tick'[u] = tick[u],
         BeforeFirst', AfterFirst', Holds(t)', Paid', NoDebt'
  PROVE  Sound'
<1>1. OneAtATime' /\ \A u \in Ticker : u # t => Holds(u)'
  BY NobodyElse
<1>2. LocalsHold'
  BY <1>1, Zenon DEF LocalsHold
<1> QED BY <1>1, <1>2, Zenon DEF Sound

(* The invariant holds at first.                                           *)
LEMMA SoundInit ==
  ASSUME Init
  PROVE  AInv
<1>1. \A t \in Ticker : tick[t] = Idle
  BY DEF Init
<1>2. \A t \in Ticker : tick[t].at = "idle" /\ Rests(t)
  BY <1>1, IdleIs DEF Rests, Resting
<1>3. OneAtATime /\ LocalsHold
  BY <1>2 DEF OneAtATime, LocalsHold, Holds, Busy, At
<1>4. BeforeFirst /\ AfterFirst /\ Paid /\ NoDebt
  BY <1>2 DEF Init, BeforeFirst, AfterFirst, Paid, NoDebt, Resting
<1> QED BY <1>3, <1>4, TypeInit DEF AInv, Sound

(* What leaves the anchor, the ticks and the counts alone.                 *)
LEMMA SoundFrame ==
  ASSUME Sound, UNCHANGED <<last, interval, tick, first, steps, unmoved,
                            ticked>>
  PROVE  Sound'
<1>1. last' = last /\ interval' = interval /\ tick' = tick /\ first' = first
      /\ steps' = steps /\ unmoved' = unmoved /\ ticked' = ticked
  OBVIOUS
<1>2. OneAtATime' /\ BeforeFirst' /\ AfterFirst'
  BY <1>1 DEF Sound, OneAtATime, BeforeFirst, AfterFirst, Busy, Rests, At
<1>3. \A t \in Ticker : Holds(t) => Holds(t)'
  BY <1>1 DEF Holds, Ahead, At
<1>4. LocalsHold' /\ Paid' /\ NoDebt'
  BY <1>1, <1>3 DEF Sound, LocalsHold, Paid, NoDebt, At
<1> QED BY <1>2, <1>4 DEF Sound

(* A tick that starts alone keeps it,                                      *)
LEMMA StartsSound ==
  ASSUME TypeOK, Sound, NEW t \in Ticker, NEW s \in 0..MaxSessions, Starts(t, s),
         ~overlap', UNCHANGED row
  PROVE  Sound'
<1>1. \A u \in Ticker : Rests(u)
  <2>1. overlap' = (overlap \/ \E u \in Ticker : ~Rests(u))
    BY DEF Starts
  <2> QED BY <2>1, Zenon
<1>2. /\ At(t, "row")' /\ \A u \in Ticker : u # t => tick'[u] = tick[u]
      /\ first' = first /\ steps' = steps /\ unmoved' = unmoved
      /\ ticked' = ticked /\ last' = last /\ interval' = interval
  BY StartsType DEF row
<1>3. tick'[t].at = "row"
  BY <1>2 DEF At
<1>4. Holds(t)'
  BY <1>3 DEF Holds, At
<1>5. \A u \in Ticker : tick'[u].at \in Resting \cup {"row"}
  BY <1>1, <1>2, <1>3 DEF Rests
<1>6. BeforeFirst' /\ AfterFirst'
  BY <1>2, <1>5 DEF Sound, BeforeFirst, AfterFirst, At, Resting
<1>7. ~\E u \in Ticker : At(u, "move")
  BY <1>1, RestsIs
<1>8. Paid' /\ NoDebt'
  BY <1>2, <1>7 DEF Sound, Paid, NoDebt
<1> QED BY <1>1, <1>2, <1>4, <1>6, <1>8, SoundWhen

(* as do the read of the anchor,                                           *)
LEMMA ReadsAnchorSound ==
  ASSUME TypeOK, Sound, NEW t \in Ticker, ReadsAnchor(t)
  PROVE  Sound'
<1>1. tick[t].at = "row" /\ Busy(t)
  BY DEF ReadsAnchor, At, Busy, Rests, Resting
<1>2. \A u \in Ticker : u # t => Rests(u)
  BY <1>1, OnlyOne DEF Sound
<1>3. /\ last = NoAnchor => At(t, "anchor")'
      /\ last # NoAnchor => At(t, "ship")' /\ tick'[t].last = last
      /\ tick'[t].newInterval = interval
      /\ \A u \in Ticker : u # t => tick'[u] = tick[u]
  BY ReadsAnchorType
<1>4. /\ first' = first /\ steps' = steps /\ unmoved' = unmoved
      /\ ticked' = ticked /\ last' = last /\ interval' = interval
  BY DEF ReadsAnchor, row, ghosts
<1>5. Holds(t)'
  BY <1>3, <1>4 DEF Holds, At
<1>6. \A u \in Ticker : u # t => Rests(u)'
  BY <1>2, <1>3 DEF Rests
<1>7. BeforeFirst' /\ AfterFirst'
  BY <1>3, <1>4, <1>6, RestsIs DEF Sound, BeforeFirst, AfterFirst, At, Rests
<1>8. ~\E u \in Ticker : At(u, "move")
  BY <1>1, <1>2, RestsIs DEF At
<1>9. Paid' /\ NoDebt'
  BY <1>4, <1>8 DEF Sound, Paid, NoDebt
<1> QED BY <1>2, <1>3, <1>5, <1>7, <1>9, SoundWhen

(* the first anchor,                                                       *)
LEMMA AnchorsSound ==
  ASSUME TypeOK, Sound, NEW t \in Ticker, Anchors(t)
  PROVE  Sound'
<1>1. /\ tick[t].at = "anchor" /\ Busy(t) /\ At(t, "anchor")
      /\ last' = tick[t].now /\ interval' \in Intervals /\ first' = tick[t].now
      /\ Finish(t) /\ steps' = steps /\ unmoved' = unmoved
  BY DEF Anchors, At, Busy, Rests, Resting
<1>2. \A u \in Ticker : u # t => Rests(u)
  BY <1>1, OnlyOne DEF Sound
<1>3. Rests(t)' /\ \A u \in Ticker : u # t => tick'[u] = tick[u]
  BY <1>1, FinishType
<1>4. \A u \in Ticker : Rests(u)'
  BY <1>2, <1>3 DEF Rests
<1>5. steps = 0 /\ unmoved = 0 /\ ticked = NoAnchor
  BY <1>1 DEF Sound, AfterFirst, BeforeFirst
<1>6. /\ last' \in Moment /\ last' \in Nat /\ last' # NoAnchor /\ first' = last'
      /\ interval' \in Nat \ {0}
  BY <1>1, NumbersAre, ConstantsAre
<1>7. Holds(t)' /\ BeforeFirst' /\ AfterFirst'
  BY <1>4, <1>6, RestsIs DEF Holds, BeforeFirst, AfterFirst
<1>8. Paid'
  <2>1. 0 * Fastest = 0
    BY FastestIs
  <2>2. (steps' - unmoved') * Fastest <= last' - first'
    BY <1>1, <1>5, <1>6, <2>1
  <2> QED BY <2>2 DEF Paid
<1>9. NoDebt'
  <2>1. ticked' = tick[t].now \/ ticked' = NoAnchor
    BY <1>1, <1>5 DEF Finish
  <2> QED BY <2>1, <1>1, <1>6 DEF NoDebt
<1> QED BY <1>2, <1>3, <1>7, <1>8, <1>9, SoundWhen

(* the computation,                                                        *)
LEMMA ReadsShipSound ==
  ASSUME TypeOK, Sound, NEW t \in Ticker, ReadsShip(t)
  PROVE  Sound'
<1>1. tick[t].at = "ship" /\ Busy(t) /\ At(t, "ship")
  BY DEF ReadsShip, At, Busy, Rests, Resting
<1>2. \A u \in Ticker : u # t => Rests(u)
  BY <1>1, OnlyOne DEF Sound
<1>3. /\ first' = first /\ steps' = steps /\ unmoved' = unmoved
      /\ last' = last /\ interval' = interval
  BY DEF ReadsShip, row
<1>4. last # NoAnchor /\ first \in Moment
  BY <1>1 DEF Sound, BeforeFirst, AfterFirst, Resting
<1>5. tick[t].last = last /\ tick[t].newInterval = interval
  BY <1>1, Zenon DEF Sound, LocalsHold, Holds
<1>6. PICK c : /\ Earned(c, last, interval, tick[t].now)
               /\ \/ Nothing(c, last, interval) /\ Finish(t)
                  \/ /\ ticked' = ticked
                     /\ At(t, "grant")' /\ tick'[t].now = tick[t].now
                     /\ tick'[t].steps = c.steps /\ tick'[t].newLast = c.last
                     /\ tick'[t].newInterval = c.span
                     /\ \A u \in Ticker : u # t => tick'[u] = tick[u]
  BY <1>5, ReadsShipType
<1>7. ~\E u \in Ticker : At(u, "move")
  BY <1>1, <1>2, RestsIs DEF At
<1>8. Paid'
  BY <1>3, <1>7 DEF Sound, Paid
<1>9. CASE Nothing(c, last, interval) /\ Finish(t)
  <2>1. Rests(t)' /\ \A u \in Ticker : u # t => tick'[u] = tick[u]
    BY <1>9, FinishType
  <2>2. \A u \in Ticker : Rests(u)'
    BY <1>2, <2>1 DEF Rests
  <2>3. Holds(t)' /\ BeforeFirst' /\ AfterFirst'
    BY <1>3, <1>4, <2>2, RestsIs DEF Holds, BeforeFirst, AfterFirst
  <2>4. tick[t].now - last < interval
    BY <1>6, <1>9 DEF Nothing, Earned
  <2>5. NoDebt'
    <3>1. ticked' = tick[t].now \/ ticked' = ticked
      BY <1>9 DEF Finish
    <3> QED BY <3>1, <1>3, <2>4 DEF Sound, NoDebt
  <2> QED BY <1>2, <1>8, <2>1, <2>3, <2>5, SoundWhen
<1>10. CASE /\ ticked' = ticked
            /\ At(t, "grant")' /\ tick'[t].now = tick[t].now
            /\ tick'[t].steps = c.steps /\ tick'[t].newLast = c.last
            /\ tick'[t].newInterval = c.span
            /\ \A u \in Ticker : u # t => tick'[u] = tick[u]
  <2>1. tick'[t].at = "grant" /\ \A u \in Ticker : u # t => Rests(u)'
    BY <1>2, <1>10 DEF At, Rests
  <2>2. BeforeFirst' /\ AfterFirst' /\ NoDebt'
    BY <1>3, <1>4, <1>10, <2>1, RestsIs DEF Sound, BeforeFirst, AfterFirst, NoDebt, At
  <2>3. Ahead(t)'
    BY <1>3, <1>6, <1>10 DEF Ahead, Earned
  <2>4. tick'[t].steps * Fastest <= tick'[t].newLast - last'
    BY <1>3, <1>6, <1>10 DEF Earned
  <2>5. Holds(t)'
    BY <2>1, <2>3, <2>4 DEF Holds, At
  <2> QED BY <1>2, <1>8, <1>10, <2>2, <2>5, SoundWhen
<1> QED BY <1>6, <1>9, <1>10

(* the grant,                                                              *)
LEMMA GrantsSound ==
  ASSUME TypeOK, Sound, NEW t \in Ticker, Grants(t)
  PROVE  Sound'
<1>1. /\ tick[t].at = "grant" /\ Busy(t) /\ At(t, "grant")
      /\ steps' = steps + tick[t].steps /\ unmoved' = unmoved
      /\ first' = first /\ ticked' = ticked /\ last' = last /\ interval' = interval
  BY DEF Grants, At, Busy, Rests, Resting
<1>2. \A u \in Ticker : u # t => Rests(u)
  BY <1>1, OnlyOne DEF Sound
<1>3. /\ tick'[t].at = "move" /\ tick'[t].steps = tick[t].steps
      /\ tick'[t].now = tick[t].now /\ tick'[t].newLast = tick[t].newLast
      /\ tick'[t].newInterval = tick[t].newInterval
      /\ \A u \in Ticker : u # t => tick'[u] = tick[u]
  BY MoveType DEF Grants, At
<1>4. Ahead(t) /\ tick[t].steps * Fastest <= tick[t].newLast - last
  BY <1>1, Zenon DEF Sound, LocalsHold, Holds
<1>5. last # NoAnchor /\ first \in Moment
  BY <1>1 DEF Sound, BeforeFirst, AfterFirst, Resting
<1>6. ~\E u \in Ticker : At(u, "move")
  BY <1>1, <1>2, RestsIs DEF At
<1>7. (steps - unmoved) * Fastest <= last - first
  BY <1>5, <1>6 DEF Sound, Paid
<1>8. \A u \in Ticker : u # t => Rests(u)'
  BY <1>2, <1>3 DEF Rests
<1>9. BeforeFirst' /\ AfterFirst' /\ NoDebt' /\ Paid'
  BY <1>1, <1>3, <1>5, <1>8, RestsIs
     DEF Sound, BeforeFirst, AfterFirst, NoDebt, Paid, At
<1>10. Ahead(t)'
  BY <1>1, <1>3, <1>4 DEF Ahead
<1>11. /\ (steps' - unmoved') * Fastest <= tick'[t].newLast - first'
       /\ (steps' - unmoved' - tick'[t].steps) * Fastest <= last' - first'
  <2> DEFINE k == tick[t].steps
             d == steps - unmoved
             p == d * Fastest
             q == k * Fastest
             n == tick[t].newLast
  <2>1. /\ k \in Nat /\ d \in Int /\ Fastest \in Nat /\ n \in Nat
        /\ last \in Nat /\ first \in Nat
    BY <1>5, NumbersAre, ConstantsAre DEF Moment
  <2>2. p \in Int /\ q \in Nat
    BY <2>1
  <2>3. (d + k) * Fastest = p + q
    BY <2>1
  <2>4. p <= last - first /\ q <= n - last
    BY <1>4, <1>7
  <2>5. /\ steps' - unmoved' = d + k /\ steps' - unmoved' - tick'[t].steps = d
        /\ tick'[t].newLast = n /\ first' = first /\ last' = last
    BY <1>1, <1>3, NumbersAre
  <2>6. d * Fastest = p
    OBVIOUS
  <2> HIDE DEF d, k, p, q, n
  <2>7. p + q <= n - first
    BY <2>1, <2>2, <2>4
  <2> QED BY <2>3, <2>4, <2>5, <2>6, <2>7
<1>12. Holds(t)'
  BY <1>3, <1>10, <1>11 DEF Holds, At
<1> QED BY <1>2, <1>3, <1>9, <1>12, SoundWhen

(* the move of the anchor                                                  *)
LEMMA MovesAnchorSound ==
  ASSUME TypeOK, Sound, NEW t \in Ticker, MovesAnchor(t)
  PROVE  Sound'
<1>1. /\ tick[t].at = "move" /\ Busy(t) /\ At(t, "move")
      /\ last' = tick[t].newLast /\ interval' = tick[t].newInterval
      /\ first' = first /\ ticked' = ticked /\ steps' = steps /\ unmoved' = unmoved
  BY DEF MovesAnchor, At, Busy, Rests, Resting, ghosts
<1>2. \A u \in Ticker : u # t => Rests(u)
  BY <1>1, OnlyOne DEF Sound
<1>3. /\ tick'[t].at = "reread" /\ tick'[t].now = tick[t].now
      /\ \A u \in Ticker : u # t => tick'[u] = tick[u]
  BY MoveType DEF MovesAnchor, At
<1>4. Ahead(t) /\ (steps - unmoved) * Fastest <= tick[t].newLast - first
  BY <1>1, Zenon DEF Sound, LocalsHold, Holds
<1>5. last # NoAnchor /\ first \in Moment
  BY <1>1 DEF Sound, BeforeFirst, AfterFirst, Resting
<1>6. \A u \in Ticker : u # t => Rests(u)'
  BY <1>2, <1>3 DEF Rests
<1>7. last' # NoAnchor
  BY <1>1, NumbersAre
<1>8. BeforeFirst' /\ AfterFirst'
  BY <1>1, <1>3, <1>5, <1>6, <1>7, RestsIs DEF BeforeFirst, AfterFirst, At
<1>9. Paid'
  BY <1>1, <1>4 DEF Paid
<1>10. Holds(t)'
  BY <1>1, <1>3, <1>4 DEF Holds, Ahead, At
<1>11. NoDebt'
  <2> DEFINE n == tick[t].newLast
             i == tick[t].newInterval
  <2>1. ticked # NoAnchor => ticked - last < interval
    BY DEF Sound, NoDebt
  <2>2. last <= n /\ (i = interval \/ interval <= n - last)
    BY <1>4 DEF Ahead
  <2>3. /\ n \in Nat /\ i \in Nat \ {0} /\ last \in Nat /\ interval \in Nat
        /\ ticked \in Nat \/ ticked = NoAnchor
    BY <1>5, NumbersAre
  <2> HIDE DEF n, i
  <2>4. ticked # NoAnchor => ticked - n < i
    BY <2>1, <2>2, <2>3
  <2> QED BY <1>1, <2>4 DEF NoDebt, n, i
<1> QED BY <1>2, <1>3, <1>8, <1>9, <1>10, <1>11, SoundWhen

(* and the read of the row for the push.                                   *)
LEMMA RereadsSound ==
  ASSUME TypeOK, Sound, NEW t \in Ticker, Rereads(t)
  PROVE  Sound'
<1>1. /\ tick[t].at = "reread" /\ Busy(t) /\ At(t, "reread") /\ Finish(t)
      /\ first' = first /\ steps' = steps /\ unmoved' = unmoved
      /\ last' = last /\ interval' = interval
  BY DEF Rereads, At, Busy, Rests, Resting, row
<1>2. \A u \in Ticker : u # t => Rests(u)
  BY <1>1, OnlyOne DEF Sound
<1>3. Rests(t)' /\ \A u \in Ticker : u # t => tick'[u] = tick[u]
  BY <1>1, FinishType
<1>4. \A u \in Ticker : Rests(u)'
  BY <1>2, <1>3 DEF Rests
<1>5. last # NoAnchor /\ first \in Moment
  BY <1>1 DEF Sound, BeforeFirst, AfterFirst, Resting
<1>6. tick[t].now - last < interval
  BY <1>1, Zenon DEF Sound, LocalsHold, Holds
<1>7. Holds(t)' /\ BeforeFirst' /\ AfterFirst'
  BY <1>1, <1>4, <1>5, RestsIs DEF Holds, BeforeFirst, AfterFirst
<1>8. ~\E u \in Ticker : At(u, "move")
  BY <1>1, <1>2, RestsIs DEF At
<1>9. Paid'
  BY <1>1, <1>8 DEF Sound, Paid
<1>10. NoDebt'
  <2>1. ticked' = tick[t].now \/ ticked' = ticked
    BY <1>1 DEF Finish
  <2> QED BY <2>1, <1>1, <1>6 DEF Sound, NoDebt
<1> QED BY <1>2, <1>3, <1>7, <1>9, <1>10, SoundWhen

(* A tick that breaks off keeps it too: what it has granted ahead of its   *)
(* anchor is counted.                                                      *)
LEMMA BreaksOffSound ==
  ASSUME TypeOK, Sound, NEW t \in Ticker, BreaksOff(t), ~Rests(t), UNCHANGED row
  PROVE  Sound'
<1>1. /\ Rests(t)' /\ \A u \in Ticker : u # t => tick'[u] = tick[u]
      /\ At(t, "move") => unmoved' = unmoved + tick[t].steps
      /\ ~At(t, "move") => unmoved' = unmoved
      /\ first' = first /\ steps' = steps /\ ticked' = ticked
      /\ last' = last /\ interval' = interval
  BY BreaksOffType DEF row
<1>2. \A u \in Ticker : u # t => Rests(u)
  BY OnlyOne DEF Sound, Busy
<1>3. \A u \in Ticker : Rests(u)'
  BY <1>1, <1>2 DEF Rests
<1>4. Holds(t)' /\ AfterFirst' /\ NoDebt'
  BY <1>1, <1>3, RestsIs DEF Sound, Holds, AfterFirst, NoDebt
<1>5. BeforeFirst'
  <2>1. last = NoAnchor => ~At(t, "move")
    BY DEF Sound, BeforeFirst, Resting, At
  <2> QED BY <1>1, <1>3, <2>1 DEF Sound, BeforeFirst, Rests
<1>6. Paid'
  <2>1. CASE At(t, "move")
    <3> DEFINE d == steps - unmoved - tick[t].steps
    <3>1. d * Fastest <= last - first
      BY <2>1, Zenon DEF Sound, LocalsHold, Holds
    <3>2. steps' - unmoved' = d
      BY <1>1, <2>1, NumbersAre
    <3> HIDE DEF d
    <3>3. (steps' - unmoved') * Fastest <= last' - first'
      BY <1>1, <3>1, <3>2
    <3> QED BY <3>3 DEF Paid
  <2>2. CASE ~At(t, "move")
    <3>1. ~\E u \in Ticker : At(u, "move")
      BY <1>2, <2>2, RestsIs
    <3> QED BY <1>1, <2>2, <3>1 DEF Sound, Paid
  <2> QED BY <2>1, <2>2
<1> QED BY <1>1, <1>2, <1>4, <1>5, <1>6, SoundWhen

(* So does a ticker that rests and goes on resting.                        *)
LEMMA RestSound ==
  ASSUME Sound, NEW t \in Ticker, Rests(t), Rests(t)',
         \A u \in Ticker : u # t => tick'[u] = tick[u],
         UNCHANGED <<last, interval, first, steps, unmoved, ticked>>
  PROVE  Sound'
<1>1. /\ first' = first /\ steps' = steps /\ unmoved' = unmoved
      /\ ticked' = ticked /\ last' = last /\ interval' = interval
  OBVIOUS
<1>2. \A u \in Ticker : Rests(u)' <=> Rests(u)
  BY DEF Rests
<1>3. \A u \in Ticker : Holds(u)'
  <2>1. ASSUME NEW u \in Ticker, u # t PROVE Holds(u) => Holds(u)'
    BY <1>1, <2>1 DEF Holds, Ahead, At
  <2>2. Holds(t)'
    BY RestsIs, Zenon DEF Holds
  <2> QED BY <2>1, <2>2, Zenon DEF Sound, LocalsHold
<1>4. OneAtATime' /\ LocalsHold'
  BY <1>2, <1>3 DEF Sound, OneAtATime, Busy, LocalsHold
<1>5. \A u \in Ticker : At(u, "move")' <=> At(u, "move")
  <2>1. ~At(t, "move") /\ ~At(t, "move")'
    BY RestsIs
  <2> QED BY <2>1 DEF At
<1>6. Paid' /\ NoDebt'
  BY <1>1, <1>5 DEF Sound, Paid, NoDebt
<1>7. BeforeFirst' /\ AfterFirst'
  <2>1. \A u \in Ticker : u = t \/ tick'[u].at = tick[u].at
    OBVIOUS
  <2>2. tick'[t].at \in Resting /\ ~At(t, "anchor")'
    BY RestsIs DEF Rests
  <2> QED BY <1>1, <2>1, <2>2 DEF Sound, BeforeFirst, AfterFirst, At
<1> QED BY <1>4, <1>6, <1>7 DEF Sound

(* The loop does so between two ticks.                                     *)
LEMMA LoopSound ==
  ASSUME TypeOK, Sound, LoopLists \/ LoopSleeps
  PROVE  Sound'
<1>1. /\ Rests("loop") /\ Rests("loop")' /\ "loop" \in Ticker
      /\ \A u \in Ticker : u # "loop" => tick'[u] = tick[u]
      /\ UNCHANGED <<last, interval, first, steps, unmoved, ticked>>
  BY LoopType DEF row, ghosts, Ticker
<1> QED BY <1>1, RestSound

(* A session that leaves takes its tick along, or no tick.                 *)
LEMMA LeavesSound ==
  ASSUME TypeOK, Sound, NEW s \in Session, Leaves(s)
  PROVE  Sound'
<1>1. UNCHANGED row
  BY DEF Leaves
<1>2. CASE UNCHANGED <<tick, ghosts>>
  <2>1. UNCHANGED <<last, interval, tick, first, steps, unmoved, ticked>>
    BY <1>1, <1>2 DEF row, ghosts
  <2> QED BY <2>1, SoundFrame
<1>3. ASSUME NEW t \in Login, BreaksOff(t), tick[t].session = s PROVE Sound'
  <2>1. t \in Ticker
    BY DEF Ticker
  <2>2. CASE Rests(t)
    <3>1. /\ Rests(t)' /\ \A u \in Ticker : u # t => tick'[u] = tick[u]
          /\ ~At(t, "move") /\ unmoved' = unmoved
          /\ first' = first /\ steps' = steps /\ ticked' = ticked
          /\ last' = last /\ interval' = interval
      BY <1>1, <1>3, <2>1, <2>2, BreaksOffType, RestsIs DEF row
    <3> QED BY <2>1, <2>2, <3>1, RestSound
  <2>3. CASE ~Rests(t)
    BY <1>1, <1>3, <2>1, <2>3, BreaksOffSound
  <2> QED BY <2>2, <2>3
<1> QED BY <1>2, <1>3 DEF Leaves

(* Two ticks at once are not forgotten.                                    *)
LEMMA OverlapStays ==
  ASSUME TypeOK, [Next]_vars
  PROVE  overlap => overlap'
<1>1. \A t \in Ticker : \A s : Starts(t, s) => (overlap => overlap')
  BY Zenon DEF Starts
<1>2. CASE LoopVisits
  BY <1>1, <1>2 DEF LoopVisits, Ticker
<1>3. ASSUME NEW t \in Login, LogsIn(t) PROVE overlap => overlap'
  <2>1. Starts(t, sessions')
    BY <1>3 DEF LogsIn
  <2> QED BY <2>1, Zenon DEF Starts
<1>4. CASE UNCHANGED overlap
  BY <1>4
<1>5. ASSUME NEW t \in Ticker, Tick(t) PROVE UNCHANGED overlap
  BY <1>5 DEF Tick, ReadsAnchor, Anchors, ReadsShip, Grants, MovesAnchor, Rereads, ghosts
<1>6. (\E s \in Session : (\E d \in Deltas : Battle(s, d)) \/ Reload(s) \/ Leaves(s))
        \/ TimePasses \/ ClockGoesBack \/ LoopLists \/ LoopSleeps \/ UNCHANGED vars
        => UNCHANGED overlap
  BY DEF Battle, Reload, Leaves, BreaksOff, TimePasses, ClockGoesBack, LoopLists,
         LoopSleeps, ghosts, vars
<1>7. ASSUME NEW t \in Ticker, TickFails(t) PROVE UNCHANGED overlap
  BY <1>7 DEF TickFails, BreaksOff
<1> QED BY <1>2, <1>3, <1>4, <1>5, <1>6, <1>7 DEF Next

(* The invariant is kept by every step.                                    *)
LEMMA SoundStep ==
  ASSUME AInv, [Next]_vars
  PROVE  AInv'
<1>1. TypeOK /\ TypeOK'
  BY TypeStep DEF AInv
<1> SUFFICES ASSUME ~overlap' PROVE Sound'
  BY <1>1 DEF AInv
<1>2. Sound
  BY <1>1, OverlapStays DEF AInv
<1>3. CASE LoopVisits
  <2> DEFINE s == tick["loop"].session
  <2>1. Starts("loop", s) /\ UNCHANGED row /\ "loop" \in Ticker
    BY <1>3 DEF LoopVisits, Ticker
  <2>2. s \in 0..MaxSessions
    BY <1>1, <2>1, TickerIs DEF TypeOK
  <2> HIDE DEF s
  <2> QED BY <2>1, <2>2, <1>1, <1>2, StartsSound
<1>4. ASSUME NEW t \in Login, LogsIn(t) PROVE Sound'
  <2> DEFINE s == sessions'
  <2>1. Starts(t, s) /\ UNCHANGED row /\ t \in Ticker
    BY <1>4 DEF LogsIn, Ticker
  <2>2. s \in 0..MaxSessions
    BY <1>1, ConstantsAre DEF TypeOK, Session
  <2> HIDE DEF s
  <2> QED BY <2>1, <2>2, <1>1, <1>2, StartsSound
<1>5. ASSUME NEW t \in Ticker, Tick(t) PROVE Sound'
  BY <1>1, <1>2, <1>5, ReadsAnchorSound, AnchorsSound, ReadsShipSound, GrantsSound,
     MovesAnchorSound, RereadsSound DEF Tick
<1>6. (\E s \in Session : (\E d \in Deltas : Battle(s, d)) \/ Reload(s))
        \/ TimePasses \/ ClockGoesBack \/ UNCHANGED vars
        => UNCHANGED <<last, interval, tick, first, steps, unmoved, ticked>>
  BY DEF Battle, Reload, TimePasses, ClockGoesBack, row, ghosts, vars
<1>7. CASE UNCHANGED <<last, interval, tick, first, steps, unmoved, ticked>>
  BY <1>2, <1>7, SoundFrame
<1>8. ASSUME NEW t \in Ticker, TickFails(t) PROVE Sound'
  BY <1>1, <1>2, <1>8, BreaksOffSound DEF TickFails, row
<1>9. ASSUME NEW s \in Session, Leaves(s) PROVE Sound'
  BY <1>1, <1>2, <1>9, LeavesSound
<1>10. CASE LoopLists \/ LoopSleeps
  BY <1>1, <1>2, <1>10, LoopSound
<1> QED BY <1>3, <1>4, <1>5, <1>6, <1>7, <1>8, <1>9, <1>10 DEF Next

(* The invariant holds always.                                             *)
LEMMA SoundAlways == Spec => []AInv
<1>1. Init => AInv
  BY SoundInit
<1>2. AInv /\ [Next]_vars => AInv'
  BY SoundStep
<1> QED BY <1>1, <1>2, PTL DEF Spec

(* With one tick at the most the anchor that counts is the one it is about *)
(* to persist, or the row's.                                               *)
LEMMA OneGrantHolds ==
  ASSUME AInv
  PROVE  OneGrantPerInterval
<1> DEFINE moves == {tick[t].newLast : t \in {u \in Ticker : At(u, "move")}}
<1> SUFFICES ASSUME last # NoAnchor, ~overlap
             PROVE  (steps - unmoved) * Fastest <= Max(moves \cup {last}) - first
  BY DEF OneGrantPerInterval, Fastest
<1>1. TypeOK /\ Sound
  BY DEF AInv
<1>2. last \in Nat /\ last \in Int
  BY <1>1, NumbersAre
<1>3. CASE \E t \in Ticker : At(t, "move")
  <2>1. PICK t \in Ticker : At(t, "move")
    BY <1>3
  <2> DEFINE n == tick[t].newLast
  <2>2. \A u \in Ticker : At(u, "move") => u = t
    <3>1. \A u \in Ticker : At(u, "move") => Busy(u)
      BY DEF At, Busy, Rests, Resting
    <3> QED BY <1>1, <2>1, <3>1, Zenon DEF Sound, OneAtATime
  <2>3. Ahead(t) /\ (steps - unmoved) * Fastest <= n - first
    BY <1>1, <2>1, Zenon DEF Sound, LocalsHold, Holds
  <2>4. n \in Int /\ last <= n
    BY <1>1, <2>3, NumbersAre DEF Ahead
  <2>5. moves \cup {last} = {n, last}
    BY <2>1, <2>2
  <2>6. Max({n, last}) \in {n, last} /\ Max({n, last}) >= n
    <3> HIDE DEF n
    <3> QED BY <1>2, <2>4, OfTwo
  <2>7. Max({n, last}) = n
    <3> HIDE DEF n
    <3> QED BY <1>2, <2>4, <2>6
  <2> QED BY <2>3, <2>5, <2>7
<1>4. CASE ~\E t \in Ticker : At(t, "move")
  <2>1. moves \cup {last} = {last, last}
    BY <1>4
  <2>2. Max({last, last}) = last
    BY <1>2, OfTwo
  <2>3. (steps - unmoved) * Fastest <= last - first
    BY <1>1, <1>4, Zenon DEF Sound, Paid
  <2> QED BY <2>1, <2>2, <2>3
<1> QED BY <1>3, <1>4

(* One point for every interval: as long as the loop's tick and a login's  *)
(* have never been under way at once, a commander is granted no more       *)
(* points than shortest intervals have passed between the first anchor and *)
(* the present one, but for those that ticks granted which then failed or  *)
(* were cancelled before they moved the anchor; whatever the clock, the    *)
(* rolls, the cap, the battles and the other sessions do                   *)
(* (tick_secretary_affinity).                                              *)
THEOREM NoMinuteGrantedTwice == Spec => []OneGrantPerInterval
<1>1. AInv => OneGrantPerInterval
  BY OneGrantHolds
<1> QED BY <1>1, SoundAlways, PTL

(* A complete tick of the loop leaves less than an interval between the    *)
(* anchor and the time it has seen, at the cap as well, so that a cap      *)
(* raised later pays out nothing at once (compute_secretary_tick).         *)
THEOREM NoDebtBuildsUp == Spec => []NothingDueIsLeft
<1>1. AInv => NothingDueIsLeft
  BY DEF AInv, Sound, NoDebt, NothingDueIsLeft
<1> QED BY <1>1, SoundAlways, PTL

(* Once there is an anchor, no step sets it to an earlier time, as long as *)
(* no two ticks have been under way at once.                               *)
AnchorMovesForward == [][last # NoAnchor /\ ~overlap => last' >= last]_vars

(* A step never moves the anchor back.                                     *)
LEMMA MovesForward ==
  ASSUME AInv, [Next]_vars, last # NoAnchor, ~overlap
  PROVE  last' >= last
<1>1. TypeOK /\ Sound /\ last \in Nat
  BY NumbersAre DEF AInv
<1>2. ASSUME NEW t \in Ticker, Anchors(t) PROVE FALSE
  BY <1>1, <1>2 DEF Anchors, Sound, AfterFirst
<1>3. ASSUME NEW t \in Ticker, MovesAnchor(t) PROVE last' >= last
  <2>1. At(t, "move") /\ last' = tick[t].newLast
    BY <1>3 DEF MovesAnchor
  <2>2. Ahead(t)
    BY <1>1, <2>1, Zenon DEF Sound, LocalsHold, Holds
  <2>3. last <= last' /\ last' \in Nat
    BY <1>1, <2>1, <2>2, NumbersAre DEF Ahead
  <2> QED BY <1>1, <2>3
<1>4. ASSUME NEW t \in Ticker, ReadsAnchor(t) \/ ReadsShip(t) \/ Grants(t) \/ Rereads(t)
      PROVE  UNCHANGED last
  BY <1>4 DEF ReadsAnchor, ReadsShip, Grants, Rereads, row
<1>5. LoopLists \/ LoopVisits \/ LoopSleeps \/ (\E t \in Login : LogsIn(t))
        \/ (\E t \in Ticker : TickFails(t)) => UNCHANGED last
  BY DEF LoopLists, LoopVisits, LoopSleeps, LogsIn, TickFails, row
<1>6. (\E s \in Session : (\E d \in Deltas : Battle(s, d)) \/ Reload(s) \/ Leaves(s))
        \/ TimePasses \/ ClockGoesBack \/ UNCHANGED vars
        => UNCHANGED last
  BY DEF Battle, Reload, Leaves, TimePasses, ClockGoesBack, row, ghosts, vars
<1>7. UNCHANGED last => last' >= last
  BY <1>1
<1> QED BY <1>2, <1>3, <1>4, <1>5, <1>6, <1>7 DEF Next, Tick

(* The anchor never goes back, though the clock may                        *)
(* (compute_secretary_tick counts no minutes then).                        *)
THEOREM TheAnchorMovesForward == Spec => AnchorMovesForward
<1>1. AInv /\ [Next]_vars => [last # NoAnchor /\ ~overlap => last' >= last]_vars
  BY MovesForward
<1> QED BY <1>1, SoundAlways, PTL DEF Spec, AnchorMovesForward

=============================================================================
