--------------------------- MODULE Sorties_proofs ---------------------------
(***************************************************************************)
(* Proofs about Sorties, for every chapter, table of waves, number of      *)
(* groups and bounds: what a settlement that may stop between any two      *)
(* statements leaves in the books, and what a map has of enemies, boxes    *)
(* and bosses.                                                             *)
(*                                                                         *)
(* The first part has the lemmas about maps: what a new map and the next   *)
(* wave look like, what an ambush, a box and a beaten enemy change, and    *)
(* that somebody is there to fight until a boss is beaten.                 *)
(***************************************************************************)
EXTENDS Sorties, SequenceTheorems, FiniteSetTheorems, TLAPS

-----------------------------------------------------------------------------
(* Numbers.                                                                *)

(* A set of numbers has a least one: the sets 0..n of its numbers, ordered *)
(* by inclusion, are well founded.                                         *)
LEMMA Least ==
  ASSUME NEW S \in SUBSET Nat, S # {}
  PROVE  Min(S) \in S /\ \A n \in S : Min(S) <= n
<1> DEFINE T == {0..n : n \in S}
           R == StrictSubsetOrdering(Nat)
<1>1. T \subseteq FiniteSubsetsOf(Nat) /\ T # {}
  <2>1. ASSUME NEW n \in S PROVE 0..n \in FiniteSubsetsOf(Nat)
    <3>1. IsFiniteSet(0..n) /\ 0..n \subseteq Nat
      BY FS_Interval
    <3> QED BY <3>1 DEF FiniteSubsetsOf
  <2> QED BY <2>1
<1>2. IsWellFoundedOn(R, FiniteSubsetsOf(Nat))
  BY FS_StrictSubsetOrderingWellFounded
<1>3. PICK x \in T : \A y \in T : ~(<<y, x>> \in R)
  <2> HIDE DEF T, R
  <2> QED BY <1>1, <1>2, WFMin, Zenon
<1>4. PICK n \in S : x = 0..n
  OBVIOUS
<1>5. \A m \in S : n <= m
  <2> SUFFICES ASSUME NEW m \in S, m < n PROVE FALSE
    OBVIOUS
  <2>1. 0..m \in T /\ 0..m \subseteq 0..n /\ n \in 0..n /\ n \notin 0..m
    OBVIOUS
  <2>2. <<0..m, 0..n>> \in R
    BY <2>1 DEF StrictSubsetOrdering
  <2> QED BY <1>3, <1>4, <2>1, <2>2
<1>6. \E k \in S : \A m \in S : k <= m
  BY <1>5
<1> QED BY <1>6 DEF Min

(* The greatest and the least of two numbers.                              *)
LEMMA OfTwo ==
  ASSUME NEW a \in Int, NEW b \in Int
  PROVE  /\ Max({a, b}) \in {a, b} /\ Max({a, b}) >= a /\ Max({a, b}) >= b
         /\ Min({a, b}) \in {a, b} /\ Min({a, b}) <= a /\ Min({a, b}) <= b
<1>1. PICK m \in {a, b} : m >= a /\ m >= b
  OBVIOUS
<1>2. PICK n \in {a, b} : n <= a /\ n <= b
  OBVIOUS
<1>3. Max({a, b}) \in {a, b} /\ \A y \in {a, b} : Max({a, b}) >= y
  BY <1>1 DEF Max
<1>4. Min({a, b}) \in {a, b} /\ \A y \in {a, b} : Min({a, b}) <= y
  BY <1>2 DEF Min
<1> QED BY <1>3, <1>4

(* What the chapter's data is assumed to be.                               *)
LEMMA ConstantsAre ==
  /\ Waves \in Seq(Nat) /\ Waves # <<>> /\ BossRefresh \in Nat
  /\ \A k \in 0..(BossRefresh - 1) : Due(k) > k
  /\ \A k \in 1..Len(Waves) : Waves[k] <= Cardinality(EnemyPos)
  /\ ProgressBoss \in 1..100 /\ BossPos # {} /\ BossPos \cap EnemyPos = {}
  /\ BossExp \cap (EnemyExp \cup AmbushExp) = {}
  /\ IsFiniteSet(EnemyPos) /\ IsFiniteSet(BoxPos)
  /\ \A i \in DOMAIN Stars : Stars[i][2] \in Nat
  /\ MaxSorties \in Nat /\ MaxBattles \in Nat /\ MaxFaults \in Nat
  /\ Cardinality(EnemyPos) \in Nat /\ Cardinality(BoxPos) \in Nat
<1>1. SortiesAssumption
  BY SortiesAssumption
<1>2. IsFiniteSet(EnemyPos) /\ IsFiniteSet(BoxPos)
  BY <1>1 DEF SortiesAssumption
<1>3. Cardinality(EnemyPos) \in Nat /\ Cardinality(BoxPos) \in Nat
  BY <1>2, FS_CardinalityType
<1> QED BY <1>1, <1>2, <1>3 DEF SortiesAssumption

(* The enemies that there shall have been are a number that the map holds. *)
LEMMA DueIs ==
  ASSUME NEW k \in Nat
  PROVE  Due(k) \in Nat /\ Due(k) <= Cardinality(EnemyPos)
<1>1. /\ Waves \in Seq(Nat) /\ Waves # <<>> /\ Len(Waves) \in Nat \ {0}
      /\ \A i \in 1..Len(Waves) : Waves[i] \in Nat /\ Waves[i] <= Cardinality(EnemyPos)
  BY ConstantsAre, EmptySeq, LenProperties
<1>2. CASE k < Len(Waves)
  <2>1. k + 1 \in 1..Len(Waves) /\ Due(k) = Waves[k + 1]
    BY <1>1, <1>2 DEF Due
  <2> QED BY <1>1, <2>1
<1>3. CASE ~(k < Len(Waves))
  <2>1. Len(Waves) \in 1..Len(Waves) /\ Due(k) = Waves[Len(Waves)]
    BY <1>1, <1>3 DEF Due
  <2> QED BY <1>1, <2>1
<1> QED BY <1>2, <1>3

(* SetToSeq lists a finite set, each member once.                          *)
LEMMA Listed ==
  ASSUME NEW S, IsFiniteSet(S)
  PROVE  /\ Cardinality(S) \in Nat
         /\ SetToSeq(S) \in [1..Cardinality(S) -> S]
         /\ \A i, j \in 1..Cardinality(S) : SetToSeq(S)[i] = SetToSeq(S)[j] => i = j
<1>1. Cardinality(S) \in Nat /\ ExistsBijection(1..Cardinality(S), S)
  BY FS_CardinalityType
<1>2. \E f \in [1..Cardinality(S) -> S] : IsInjective(f)
  BY <1>1 DEF ExistsBijection, Bijection, Injection
<1>3. SetToSeq(S) \in [1..Cardinality(S) -> S] /\ IsInjective(SetToSeq(S))
  BY <1>2, Zenon DEF SetToSeq
<1> QED BY <1>1, <1>3 DEF IsInjective

-----------------------------------------------------------------------------
(* Sequences of cells.                                                     *)

Where(c, X) == {i \in DOMAIN c : c[i] \in X}

(* Where are the cells of a kind: indices, finitely many.                  *)
LEMMA WhereIs ==
  ASSUME NEW c \in Seq(Cell), NEW X
  PROVE  /\ IsFiniteSet(Where(c, X)) /\ Cardinality(Where(c, X)) \in Nat
         /\ Where(c, X) \subseteq 1..Len(c) /\ Len(c) \in Nat
         /\ DOMAIN c = 1..Len(c) /\ \A i \in 1..Len(c) : c[i] \in Cell
<1>1. Len(c) \in Nat /\ DOMAIN c = 1..Len(c) /\ \A i \in 1..Len(c) : c[i] \in Cell
  BY LenProperties, ElementOfSeq
<1>2. Where(c, X) \subseteq 1..Len(c) /\ IsFiniteSet(1..Len(c))
  BY <1>1, FS_Interval DEF Where
<1>3. IsFiniteSet(Where(c, X))
  BY <1>2, FS_Subset
<1> QED BY <1>1, <1>2, <1>3, FS_CardinalityType

(* One cell more: it counts, or it does not.                               *)
LEMMA AppendWhere ==
  ASSUME NEW c \in Seq(Cell), NEW x \in Cell, NEW X, x \notin X
  PROVE  Where(Append(c, x), X) = Where(c, X)
<1>1. /\ Append(c, x) \in Seq(Cell) /\ Len(Append(c, x)) = Len(c) + 1
      /\ \A i \in 1..Len(c) : Append(c, x)[i] = c[i]
      /\ Append(c, x)[Len(c) + 1] = x
  BY AppendProperties
<1>2. DOMAIN c = 1..Len(c) /\ DOMAIN Append(c, x) = 1..(Len(c) + 1) /\ Len(c) \in Nat
  BY <1>1, LenProperties
<1> QED BY <1>1, <1>2 DEF Where

(* One cell replaced, without a difference to the kind.                    *)
LEMMA ReplaceWhere ==
  ASSUME NEW c \in Seq(Cell), NEW i \in DOMAIN c, NEW x \in Cell, NEW X,
         x \in X <=> c[i] \in X
  PROVE  Where([c EXCEPT ![i] = x], X) = Where(c, X)
<1>1. DOMAIN c = 1..Len(c) /\ c \in [1..Len(c) -> Cell]
  BY LenProperties
<1> QED BY <1>1 DEF Where

(* ... or by one that is not of it.                                        *)
LEMMA ReplaceLess ==
  ASSUME NEW c \in Seq(Cell), NEW i \in DOMAIN c, NEW x \in Cell, NEW X,
         x \notin X
  PROVE  Cardinality(Where([c EXCEPT ![i] = x], X)) <= Cardinality(Where(c, X))
<1>1. DOMAIN c = 1..Len(c) /\ c \in [1..Len(c) -> Cell]
  BY LenProperties
<1>2. Where([c EXCEPT ![i] = x], X) \subseteq Where(c, X)
  BY <1>1 DEF Where
<1> QED BY <1>2, WhereIs, FS_Subset

(* ... or with one.                                                        *)
LEMMA ReplaceAdds ==
  ASSUME NEW c \in Seq(Cell), NEW i \in DOMAIN c, NEW x \in Cell, NEW X,
         x \in X, c[i] \notin X
  PROVE  Cardinality(Where([c EXCEPT ![i] = x], X)) = Cardinality(Where(c, X)) + 1
<1>1. DOMAIN c = 1..Len(c) /\ c \in [1..Len(c) -> Cell]
  BY LenProperties
<1>2. Where([c EXCEPT ![i] = x], X) = Where(c, X) \cup {i} /\ i \notin Where(c, X)
  BY <1>1 DEF Where
<1> QED BY <1>2, WhereIs, FS_AddElement

(* One cell removed: those behind it move up.                              *)
LEMMA RemoveAtIs ==
  ASSUME NEW c \in Seq(Cell), NEW k \in DOMAIN c
  PROVE  /\ RemoveAt(c, k) \in Seq(Cell) /\ Len(RemoveAt(c, k)) = Len(c) - 1
         /\ \A i \in 1..(Len(c) - 1) :
              RemoveAt(c, k)[i] = IF i < k THEN c[i] ELSE c[i + 1]
<1>1. Len(c) \in Nat /\ k \in 1..Len(c) /\ \A i \in 1..Len(c) : c[i] \in Cell
  BY LenProperties, ElementOfSeq
<1> DEFINE m == k - 1
           n == k + 1
           l == Len(c)
           a == SubSeq(c, 1, m)
           b == SubSeq(c, n, l)
<1>2. m \in Int /\ n \in Int /\ l \in Int /\ 1 \in Int
  BY <1>1
<1>3. /\ a \in Seq(Cell) /\ Len(a) = k - 1 /\ \A i \in 1..(k - 1) : a[i] = c[i]
  <2>1. \A i \in 1..m : c[i] \in Cell
    BY <1>1
  <2>2. /\ SubSeq(c, 1, m) \in Seq(Cell)
        /\ Len(SubSeq(c, 1, m)) = IF 1 <= m THEN m - 1 + 1 ELSE 0
        /\ \A i \in 1..(m - 1 + 1) : SubSeq(c, 1, m)[i] = c[1 + i - 1]
    <3> HIDE DEF m
    <3> QED BY <1>2, <2>1, SubSeqProperties
  <2> QED BY <1>1, <2>2
<1>4. /\ b \in Seq(Cell) /\ Len(b) = Len(c) - k
      /\ \A i \in 1..(Len(c) - k) : b[i] = c[k + i]
  <2>1. \A i \in n..l : c[i] \in Cell
    BY <1>1
  <2>2. /\ SubSeq(c, n, l) \in Seq(Cell)
        /\ Len(SubSeq(c, n, l)) = IF n <= l THEN l - n + 1 ELSE 0
        /\ \A i \in 1..(l - n + 1) : SubSeq(c, n, l)[i] = c[n + i - 1]
    <3> HIDE DEF n, l
    <3> QED BY <1>2, <2>1, SubSeqProperties
  <2> QED BY <1>1, <2>2
<1>5. RemoveAt(c, k) = a \o b
  BY DEF RemoveAt
<1> HIDE DEF a, b
<1>6. /\ a \o b \in Seq(Cell) /\ Len(a \o b) = Len(a) + Len(b)
      /\ \A i \in 1..(Len(a) + Len(b)) :
           (a \o b)[i] = IF i <= Len(a) THEN a[i] ELSE b[i - Len(a)]
  BY <1>3, <1>4, ConcatProperties
<1>7. Len(a) + Len(b) = Len(c) - 1
  BY <1>1, <1>3, <1>4
<1>8. ASSUME NEW i \in 1..(Len(c) - 1)
      PROVE  (a \o b)[i] = IF i < k THEN c[i] ELSE c[i + 1]
  <2>1. CASE i < k
    BY <1>1, <1>3, <1>6, <1>7, <2>1
  <2>2. CASE ~(i < k)
    <3>1. i - Len(a) \in 1..(Len(c) - k) /\ k + (i - Len(a)) = i + 1 /\ ~(i <= Len(a))
      BY <1>1, <1>3, <2>2
    <3>2. (a \o b)[i] = b[i - Len(a)] /\ b[i - Len(a)] = c[k + (i - Len(a))]
      BY <1>4, <1>6, <1>7, <3>1
    <3> QED BY <2>2, <3>1, <3>2
  <2> QED BY <2>1, <2>2
<1> QED BY <1>5, <1>6, <1>7, <1>8

(* ... and as many are left of a kind that it was not of.                  *)
LEMMA RemoveWhere ==
  ASSUME NEW c \in Seq(Cell), NEW k \in DOMAIN c, NEW X
  PROVE  /\ Cardinality(Where(RemoveAt(c, k), X)) <= Cardinality(Where(c, X))
         /\ c[k] \notin X =>
              /\ Cardinality(Where(RemoveAt(c, k), X)) = Cardinality(Where(c, X))
              /\ Where(RemoveAt(c, k), X) = {} <=> Where(c, X) = {}
<1> DEFINE d == RemoveAt(c, k)
           S == Where(d, X)
           T == Where(c, X)
           f == [i \in S |-> IF i < k THEN i ELSE i + 1]
<1>1. /\ d \in Seq(Cell) /\ Len(d) = Len(c) - 1
      /\ \A i \in 1..(Len(c) - 1) : d[i] = IF i < k THEN c[i] ELSE c[i + 1]
      /\ Len(c) \in Nat /\ k \in 1..Len(c)
  BY RemoveAtIs, LenProperties
<1> HIDE DEF d
<1>2. /\ IsFiniteSet(S) /\ IsFiniteSet(T)
      /\ S = {i \in 1..(Len(c) - 1) : d[i] \in X}
      /\ T = {i \in 1..Len(c) : c[i] \in X}
  <2>1. DOMAIN d = 1..(Len(c) - 1) /\ DOMAIN c = 1..Len(c)
    BY <1>1, LenProperties
  <2> QED BY <1>1, <2>1, WhereIs DEF Where
<1>3. f \in [S -> T]
  BY <1>1, <1>2
<1>4. f \in Injection(S, T)
  <2>1. \A i, j \in S : f[i] = f[j] => i = j
    BY <1>1, <1>2
  <2> QED BY <1>3, <2>1 DEF Injection, IsInjective
<1>5. ASSUME c[k] \notin X, NEW t \in T PROVE \E i \in S : f[i] = t
  <2>1. CASE t < k
    <3>1. t \in S /\ f[t] = t
      BY <1>1, <1>2, <2>1
    <3> QED BY <3>1
  <2>2. CASE ~(t < k)
    <3>1. t - 1 \in S /\ f[t - 1] = t
      BY <1>1, <1>2, <1>3, <1>5, <2>2
    <3> QED BY <3>1
  <2> QED BY <2>1, <2>2
<1>6. ASSUME c[k] \notin X PROVE ExistsBijection(S, T)
  <2>1. f \in Surjection(S, T)
    BY <1>3, <1>5, <1>6 DEF Surjection
  <2>2. f \in Bijection(S, T)
    BY <1>4, <2>1 DEF Bijection
  <2> HIDE DEF f
  <2> QED BY <2>2 DEF ExistsBijection
<1>7. Cardinality(S) <= Cardinality(T)
  <2> HIDE DEF S, T, f
  <2> QED BY <1>2, <1>4, FS_Injection
<1>8. ASSUME c[k] \notin X
      PROVE  Cardinality(S) = Cardinality(T) /\ (S = {} <=> T = {})
  <2> HIDE DEF S, T, f
  <2>1. Cardinality(S) = Cardinality(T)
    BY <1>2, <1>6, <1>8, FS_Bijection
  <2> QED BY <1>2, <2>1, FS_EmptySet
<1> HIDE DEF S, T, f
<1> QED BY <1>7, <1>8 DEF S, T, d

(* Cells added at the end: all of a kind ...                               *)
LEMMA ConcatAdds ==
  ASSUME NEW c \in Seq(Cell), NEW n \in Seq(Cell), NEW X,
         \A i \in DOMAIN n : n[i] \in X
  PROVE  /\ Cardinality(Where(c \o n, X)) = Cardinality(Where(c, X)) + Len(n)
         /\ Where(c, X) \subseteq Where(c \o n, X)
         /\ n # <<>> => Where(c \o n, X) # {}
<1> DEFINE l == Len(c)
           m == Len(c) + Len(n)
           a == Len(c) + 1
<1>1. /\ c \o n \in Seq(Cell) /\ Len(c \o n) = m
      /\ \A i \in 1..m : (c \o n)[i] = IF i <= Len(c) THEN c[i] ELSE n[i - Len(c)]
      /\ DOMAIN c = 1..Len(c) /\ DOMAIN n = 1..Len(n) /\ DOMAIN (c \o n) = 1..m
      /\ l \in Nat /\ Len(n) \in Nat /\ m \in Nat
  BY ConcatProperties, LenProperties
<1>2. Where(c \o n, X) = Where(c, X) \cup (a..m) /\ Where(c, X) \cap (a..m) = {}
  BY <1>1 DEF Where
<1>3. IsFiniteSet(a..m) /\ Cardinality(a..m) = Len(n)
  <2>1. a \in Int /\ m \in Int /\ (IF a > m THEN 0 ELSE m - a + 1) = Len(n)
    BY <1>1
  <2> HIDE DEF a, m
  <2> QED BY <2>1, FS_Interval
<1>4. IsFiniteSet(Where(c, X)) /\ Cardinality(Where(c, X)) \in Nat
  BY WhereIs
<1>5. Cardinality(Where(c \o n, X)) = Cardinality(Where(c, X)) + Len(n)
  <2> HIDE DEF a, m
  <2>1. Cardinality(Where(c, X) \cup (a..m))
          = Cardinality(Where(c, X)) + Cardinality(a..m) - Cardinality({})
    BY <1>2, <1>3, <1>4, FS_Union
  <2> QED BY <1>1, <1>2, <1>3, <1>4, <2>1, FS_EmptySet
<1>6. n # <<>> => m \in a..m
  BY <1>1, EmptySeq
<1> QED BY <1>2, <1>5, <1>6

(* ... or none.                                                            *)
LEMMA ConcatKeeps ==
  ASSUME NEW c \in Seq(Cell), NEW n \in Seq(Cell), NEW X,
         \A i \in DOMAIN n : n[i] \notin X
  PROVE  Where(c \o n, X) = Where(c, X)
<1>1. /\ c \o n \in Seq(Cell) /\ Len(c \o n) = Len(c) + Len(n)
      /\ \A i \in 1..(Len(c) + Len(n)) :
           (c \o n)[i] = IF i <= Len(c) THEN c[i] ELSE n[i - Len(c)]
      /\ DOMAIN c = 1..Len(c) /\ DOMAIN n = 1..Len(n)
      /\ DOMAIN (c \o n) = 1..(Len(c) + Len(n))
      /\ Len(c) \in Nat /\ Len(n) \in Nat
  BY ConcatProperties, LenProperties
<1> QED BY <1>1 DEF Where

-----------------------------------------------------------------------------
(* The map.                                                                *)

EnemyCells == {x \in Cell : x.kind = "enemy"}
BossCells == {x \in Cell : x.kind = "boss"}
BeatenCells == {x \in Cell : x.kind \in Enemy /\ Beaten(x)}
BeatenBosses == {x \in Cell : x.kind = "boss" /\ Beaten(x)}

(* Who stands where.                                                       *)
InPlace(x) ==
  /\ x.kind \in Enemy => x.exp \in Exp
  /\ x.kind = "enemy" => x.at \in EnemyPos
  /\ x.kind = "boss" => x.at \in BossPos /\ x.exp \in BossExp
  /\ x.kind = "box" => x.at \in BoxPos

IsBox(c, i) == i \in DOMAIN c /\ c[i].kind = "box"

(* A map after k kills: no two boxes in a place, and every beaten enemy is *)
(* one of the kills.                                                       *)
CellsBase(c, k) ==
  /\ c \in Seq(Cell) /\ \A i \in DOMAIN c : InPlace(c[i])
  /\ \A i, j : IsBox(c, i) /\ IsBox(c, j) /\ c[i].at = c[j].at => i = j
  /\ Cardinality(Where(c, BeatenCells)) <= k

(* ... and every wave is there that is due, the boss too.                  *)
WavesCame(c, k) ==
  /\ Cardinality(Where(c, EnemyCells)) >= Due(k)
  /\ k >= BossRefresh => Where(c, BossCells) # {}

CellsOK(c, k) == CellsBase(c, k) /\ WavesCame(c, k)

(* Places whose box is not open yet.                                       *)
OpenBoxes(c) ==
  {p \in BoxPos : \E i : IsBox(c, i) /\ c[i].at = p /\ ~Beaten(c[i])}

(* Boxes that are not open are finitely many, one in a place.              *)
LEMMA OpenBoxesIs ==
  ASSUME NEW c
  PROVE  /\ IsFiniteSet(OpenBoxes(c)) /\ Cardinality(OpenBoxes(c)) \in Nat
         /\ Cardinality(OpenBoxes(c)) <= Cardinality(BoxPos)
<1>1. IsFiniteSet(BoxPos) /\ OpenBoxes(c) \subseteq BoxPos
  BY ConstantsAre DEF OpenBoxes
<1>2. IsFiniteSet(OpenBoxes(c)) /\ Cardinality(OpenBoxes(c)) <= Cardinality(BoxPos)
  BY <1>1, FS_Subset
<1> QED BY <1>2, FS_CardinalityType

(* An ambush is set.                                                       *)
LEMMA AppendKeeps ==
  ASSUME NEW c, NEW k, CellsOK(c, k), NEW x \in Cell, x.kind = "ambush",
         x.exp \in Exp, ~Beaten(x)
  PROVE  /\ CellsOK(Append(c, x), k) /\ OpenBoxes(Append(c, x)) = OpenBoxes(c)
         /\ Where(Append(c, x), BeatenBosses) = Where(c, BeatenBosses)
<1> DEFINE d == Append(c, x)
<1>1. /\ c \in Seq(Cell) /\ \A i \in DOMAIN c : InPlace(c[i])
      /\ \A i, j : IsBox(c, i) /\ IsBox(c, j) /\ c[i].at = c[j].at => i = j
      /\ Cardinality(Where(c, BeatenCells)) <= k /\ WavesCame(c, k)
  BY DEF CellsOK, CellsBase
<1>2. /\ d \in Seq(Cell) /\ Len(d) = Len(c) + 1
      /\ \A i \in 1..Len(c) : d[i] = c[i]
      /\ d[Len(c) + 1] = x
  BY <1>1, AppendProperties
<1>3. DOMAIN c = 1..Len(c) /\ DOMAIN d = 1..(Len(c) + 1) /\ Len(c) \in Nat
  BY <1>1, <1>2, LenProperties
<1>4. /\ Where(d, BeatenCells) = Where(c, BeatenCells)
      /\ Where(d, EnemyCells) = Where(c, EnemyCells)
      /\ Where(d, BossCells) = Where(c, BossCells)
      /\ Where(d, BeatenBosses) = Where(c, BeatenBosses)
  <2>1. x \notin BeatenCells /\ x \notin EnemyCells /\ x \notin BossCells
        /\ x \notin BeatenBosses
    BY DEF BeatenCells, EnemyCells, BossCells, BeatenBosses
  <2> QED BY <1>1, <2>1, AppendWhere
<1> HIDE DEF d
<1>5. \A i \in DOMAIN d : InPlace(d[i])
  BY <1>1, <1>2, <1>3 DEF InPlace
<1>6. \A i : /\ IsBox(d, i) <=> IsBox(c, i)
             /\ IsBox(c, i) => d[i] = c[i]
  BY <1>2, <1>3 DEF IsBox
<1>7. \A i, j : IsBox(d, i) /\ IsBox(d, j) /\ d[i].at = d[j].at => i = j
  BY <1>1, <1>6
<1>8. OpenBoxes(d) = OpenBoxes(c)
  BY <1>6 DEF OpenBoxes
<1>9. WavesCame(d, k)
  BY <1>1, <1>4, Zenon DEF WavesCame
<1> QED BY <1>1, <1>2, <1>4, <1>5, <1>7, <1>8, <1>9 DEF CellsOK, CellsBase, d

(* An ambush is gone.                                                      *)
LEMMA RemoveKeeps ==
  ASSUME NEW c, NEW k \in Nat, CellsOK(c, k), NEW m \in DOMAIN c,
         c[m].kind = "ambush"
  PROVE  /\ CellsOK(RemoveAt(c, m), k) /\ OpenBoxes(RemoveAt(c, m)) = OpenBoxes(c)
         /\ Where(RemoveAt(c, m), BeatenBosses) = {}
              <=> Where(c, BeatenBosses) = {}
<1> DEFINE d == RemoveAt(c, m)
<1>1. /\ c \in Seq(Cell) /\ \A i \in DOMAIN c : InPlace(c[i])
      /\ \A i, j : IsBox(c, i) /\ IsBox(c, j) /\ c[i].at = c[j].at => i = j
      /\ Cardinality(Where(c, BeatenCells)) <= k /\ WavesCame(c, k)
  BY DEF CellsOK, CellsBase
<1>2. /\ d \in Seq(Cell) /\ Len(d) = Len(c) - 1
      /\ \A i \in 1..(Len(c) - 1) : d[i] = IF i < m THEN c[i] ELSE c[i + 1]
  BY <1>1, RemoveAtIs
<1>3. /\ DOMAIN c = 1..Len(c) /\ DOMAIN d = 1..(Len(c) - 1) /\ Len(c) \in Nat
      /\ m \in 1..Len(c)
  BY <1>1, <1>2, LenProperties
<1>4. /\ Cardinality(Where(d, BeatenCells)) <= Cardinality(Where(c, BeatenCells))
      /\ Cardinality(Where(d, EnemyCells)) = Cardinality(Where(c, EnemyCells))
      /\ Where(d, BossCells) = {} <=> Where(c, BossCells) = {}
      /\ Where(d, BeatenBosses) = {} <=> Where(c, BeatenBosses) = {}
  <2>1. /\ c[m] \notin EnemyCells /\ c[m] \notin BossCells
        /\ c[m] \notin BeatenBosses
    BY DEF EnemyCells, BossCells, BeatenBosses
  <2> QED BY <1>1, <2>1, RemoveWhere
<1> HIDE DEF d
<1>5. \A i \in DOMAIN d : InPlace(d[i])
  <2> SUFFICES ASSUME NEW i \in DOMAIN d PROVE InPlace(d[i])
    OBVIOUS
  <2>1. \/ i \in DOMAIN c /\ d[i] = c[i]
        \/ i + 1 \in DOMAIN c /\ d[i] = c[i + 1]
    BY <1>2, <1>3
  <2> QED BY <1>1, <2>1
<1>6. ASSUME NEW i, IsBox(d, i)
      PROVE  \/ i < m /\ i \in Nat /\ IsBox(c, i) /\ d[i] = c[i]
             \/ i >= m /\ i \in Nat /\ IsBox(c, i + 1) /\ d[i] = c[i + 1]
  BY <1>2, <1>3, <1>6 DEF IsBox
<1>7. ASSUME NEW i, IsBox(c, i)
      PROVE  \E j : IsBox(d, j) /\ d[j] = c[i]
  <2>1. i \in 1..Len(c) /\ i # m /\ c[i].kind = "box"
    BY <1>3, <1>7 DEF IsBox
  <2>2. CASE i < m
    <3>1. i \in DOMAIN d /\ d[i] = c[i]
      BY <1>2, <1>3, <2>1, <2>2
    <3> QED BY <2>1, <3>1 DEF IsBox
  <2>3. CASE ~(i < m)
    <3>1. i - 1 \in DOMAIN d /\ d[i - 1] = c[i]
      BY <1>2, <1>3, <2>1, <2>3
    <3> QED BY <2>1, <3>1 DEF IsBox
  <2> QED BY <2>2, <2>3
<1>8. ASSUME NEW i, NEW j, IsBox(d, i), IsBox(d, j), d[i].at = d[j].at
      PROVE  i = j
  <2>1. \/ i < m /\ i \in Nat /\ IsBox(c, i) /\ d[i] = c[i]
        \/ i >= m /\ i \in Nat /\ IsBox(c, i + 1) /\ d[i] = c[i + 1]
    BY <1>6, <1>8
  <2>2. \/ j < m /\ j \in Nat /\ IsBox(c, j) /\ d[j] = c[j]
        \/ j >= m /\ j \in Nat /\ IsBox(c, j + 1) /\ d[j] = c[j + 1]
    BY <1>6, <1>8
  <2>3. CASE i < m /\ j < m
    <3>1. IsBox(c, i) /\ IsBox(c, j) /\ c[i].at = c[j].at
      BY <1>3, <1>8, <2>1, <2>2, <2>3
    <3> QED BY <1>1, <3>1
  <2>4. CASE i >= m /\ j >= m
    <3>1. IsBox(c, i + 1) /\ IsBox(c, j + 1) /\ c[i + 1].at = c[j + 1].at
      BY <1>3, <1>8, <2>1, <2>2, <2>4
    <3>2. i + 1 = j + 1
      BY <1>1, <3>1
    <3> QED BY <2>1, <2>2, <3>2
  <2>5. CASE i < m /\ j >= m
    <3>1. IsBox(c, i) /\ IsBox(c, j + 1) /\ c[i].at = c[j + 1].at
      BY <1>3, <1>8, <2>1, <2>2, <2>5
    <3>2. i = j + 1
      BY <1>1, <3>1
    <3> QED BY <1>3, <2>2, <2>5, <3>2
  <2>6. CASE i >= m /\ j < m
    <3>1. IsBox(c, i + 1) /\ IsBox(c, j) /\ c[i + 1].at = c[j].at
      BY <1>3, <1>8, <2>1, <2>2, <2>6
    <3>2. i + 1 = j
      BY <1>1, <3>1
    <3> QED BY <1>3, <2>1, <2>6, <3>2
  <2> QED BY <1>3, <2>1, <2>2, <2>3, <2>4, <2>5, <2>6
<1>9. OpenBoxes(d) = OpenBoxes(c)
  BY <1>6, <1>7, Zenon DEF OpenBoxes
<1>10. WavesCame(d, k)
  BY <1>1, <1>4, Zenon DEF WavesCame
<1>11. Cardinality(Where(d, BeatenCells)) <= k
  <2>1. /\ Cardinality(Where(d, BeatenCells)) \in Nat
        /\ Cardinality(Where(c, BeatenCells)) \in Nat
    BY <1>1, <1>2, WhereIs
  <2> QED BY <1>1, <1>4, <2>1
<1> QED BY <1>2, <1>4, <1>5, <1>8, <1>9, <1>10, <1>11 DEF CellsOK, CellsBase, d

(* A cell is replaced where it stands, by one that is a box only if it was *)
(* one.                                                                    *)
LEMMA ReplaceKeeps ==
  ASSUME NEW c, NEW k, CellsBase(c, k), NEW m \in DOMAIN c, NEW x \in Cell,
         InPlace(x), x.kind = "box" => c[m].kind = "box" /\ x.at = c[m].at,
         NEW l, Cardinality(Where([c EXCEPT ![m] = x], BeatenCells)) <= l
  PROVE  /\ CellsBase([c EXCEPT ![m] = x], l)
         /\ x.kind # "box" /\ c[m].kind # "box" =>
              OpenBoxes([c EXCEPT ![m] = x]) = OpenBoxes(c)
         /\ c[m].kind = "box" /\ ~Beaten(c[m]) /\ (x.kind = "box" => Beaten(x)) =>
              Cardinality(OpenBoxes([c EXCEPT ![m] = x]))
                = Cardinality(OpenBoxes(c)) - 1
<1> DEFINE d == [c EXCEPT ![m] = x]
<1>1. /\ c \in Seq(Cell) /\ \A i \in DOMAIN c : InPlace(c[i])
      /\ \A i, j : IsBox(c, i) /\ IsBox(c, j) /\ c[i].at = c[j].at => i = j
  BY DEF CellsBase
<1>2. /\ DOMAIN c = 1..Len(c) /\ d \in Seq(Cell) /\ DOMAIN d = DOMAIN c
      /\ d[m] = x /\ \A i \in DOMAIN c : i # m => d[i] = c[i]
  <2>1. DOMAIN c = 1..Len(c) /\ c \in [1..Len(c) -> Cell]
    BY <1>1, LenProperties
  <2>2. d \in Seq(Cell)
    BY <1>1, <2>1, ExceptSeq
  <2> QED BY <2>1, <2>2
<1> HIDE DEF d
<1>3. \A i \in DOMAIN d : InPlace(d[i])
  BY <1>1, <1>2
<1>4. \A i : i # m => (IsBox(d, i) <=> IsBox(c, i)) /\ (IsBox(c, i) => d[i] = c[i])
  BY <1>2 DEF IsBox
<1>5. IsBox(d, m) => IsBox(c, m) /\ d[m].at = c[m].at
  BY <1>2 DEF IsBox
<1>6. \A i, j : IsBox(d, i) /\ IsBox(d, j) /\ d[i].at = d[j].at => i = j
  BY <1>1, <1>4, <1>5
<1>7. CellsBase(d, l)
  BY <1>2, <1>3, <1>6 DEF CellsBase, d
<1>8. ASSUME x.kind # "box", c[m].kind # "box"
      PROVE  OpenBoxes(d) = OpenBoxes(c)
  <2>1. ~IsBox(c, m) /\ ~IsBox(d, m)
    BY <1>2, <1>8 DEF IsBox
  <2> QED BY <1>4, <2>1 DEF OpenBoxes
<1>9. ASSUME c[m].kind = "box", ~Beaten(c[m]), x.kind = "box" => Beaten(x)
      PROVE  Cardinality(OpenBoxes(d)) = Cardinality(OpenBoxes(c)) - 1
  <2> DEFINE p == c[m].at
  <2>1. IsBox(c, m) /\ p \in BoxPos /\ (IsBox(d, m) => Beaten(d[m]))
    BY <1>1, <1>2, <1>9 DEF IsBox, InPlace
  <2>2. p \in OpenBoxes(c)
    BY <1>9, <2>1 DEF OpenBoxes
  <2>3. OpenBoxes(d) = OpenBoxes(c) \ {p}
    <3>1. ASSUME NEW q \in OpenBoxes(d) PROVE q \in OpenBoxes(c) /\ q # p
      <4>1. PICK i : IsBox(d, i) /\ d[i].at = q /\ ~Beaten(d[i])
        BY DEF OpenBoxes
      <4>2. i # m
        BY <2>1, <4>1
      <4>3. IsBox(c, i) /\ d[i] = c[i]
        BY <1>4, <4>1, <4>2
      <4> QED BY <1>1, <2>1, <4>1, <4>2, <4>3 DEF OpenBoxes
    <3>2. ASSUME NEW q \in OpenBoxes(c), q # p PROVE q \in OpenBoxes(d)
      <4>1. PICK i : IsBox(c, i) /\ c[i].at = q /\ ~Beaten(c[i])
        BY DEF OpenBoxes
      <4>2. i # m
        BY <3>2, <4>1
      <4>3. IsBox(d, i) /\ d[i] = c[i]
        BY <1>4, <4>1, <4>2
      <4> QED BY <4>1, <4>3 DEF OpenBoxes
    <3> QED BY <3>1, <3>2
  <2> HIDE DEF p
  <2> QED BY <2>2, <2>3, OpenBoxesIs, FS_RemoveElement
<1> QED BY <1>7, <1>8, <1>9 DEF d

(* What is found at a position is a cell there, if there is any.           *)
LEMMA AtIs ==
  ASSUME NEW s, s.cells \in Seq(Cell), NEW p
  PROVE  At(s, p) = 0 \/ (At(s, p) \in DOMAIN s.cells /\ s.cells[At(s, p)].at = p)
<1> DEFINE I == {i \in 1..Len(s.cells) : s.cells[i].at = p}
<1>1. At(s, p) = IF I # {} THEN Min(I) ELSE 0
  BY DEF At, SelectInSeq
<1>2. Len(s.cells) \in Nat /\ DOMAIN s.cells = 1..Len(s.cells)
  BY LenProperties
<1>3. I \in SUBSET Nat
  BY <1>2
<1>4. I # {} => Min(I) \in I
  <2> HIDE DEF I
  <2> QED BY <1>3, Least
<1> QED BY <1>1, <1>2, <1>4

(* Squads are enemies, in place, as many as asked for.                     *)
LEMMA SquadIs ==
  ASSUME NEW C \in SUBSET EnemyPos, NEW k \in Nat, NEW n \in Squads(C, k)
  PROVE  /\ n \in Seq(Cell) /\ Len(n) = k
         /\ \A i \in DOMAIN n : /\ n[i].kind = "enemy" /\ ~Beaten(n[i])
                                /\ n[i] \in Cell /\ InPlace(n[i])
<1>0. PICK P \in SUBSET C :
        /\ Cardinality(P) = k
        /\ n \in {[i \in 1..Cardinality(P) |->
                    NewCell(SetToSeq(P)[i], "enemy", e[i])] :
                  e \in [1..Cardinality(P) -> EnemyExp]}
  BY DEF Squads
<1>1. PICK e \in [1..Cardinality(P) -> EnemyExp] :
        /\ Cardinality(P) = k
        /\ n = [i \in 1..Cardinality(P) |->
                  NewCell(SetToSeq(P)[i], "enemy", e[i])]
  BY <1>0
<1>2. IsFiniteSet(P) /\ P \subseteq EnemyPos
  BY ConstantsAre, FS_Subset
<1>3. SetToSeq(P) \in [1..k -> P]
  BY <1>1, <1>2, Listed
<1> DEFINE q == SetToSeq(P)
<1> HIDE DEF q
<1>4. DOMAIN n = 1..k /\ \A i \in 1..k : n[i] = NewCell(q[i], "enemy", e[i])
  BY <1>1 DEF q
<1>5. ASSUME NEW i \in 1..k
      PROVE  /\ n[i].kind = "enemy" /\ ~Beaten(n[i])
             /\ n[i] \in Cell /\ InPlace(n[i])
  <2>1. q[i] \in EnemyPos /\ e[i] \in EnemyExp
    BY <1>1, <1>2, <1>3 DEF q
  <2>2. /\ n[i] = [at |-> q[i], kind |-> "enemy", exp |-> e[i], flag |-> "active"]
    BY <1>4 DEF NewCell
  <2> QED BY <2>1, <2>2 DEF Cell, InPlace, Beaten, Pos, Exp, Enemy
<1>6. n \in [1..k -> Cell]
  BY <1>1, <1>4, <1>5
<1>7. n \in Seq(Cell) /\ Len(n) = k
  BY <1>4, <1>6, SeqDef, LenProperties
<1> QED BY <1>4, <1>5, <1>7

(* A boss is one cell.                                                     *)
LEMMA BossIs ==
  ASSUME NEW C \in SUBSET BossPos, NEW b \in Bosses(C)
  PROVE  /\ b \in Seq(Cell) /\ b # <<>> /\ Len(b) = 1
         /\ \A i \in DOMAIN b : /\ b[i].kind = "boss" /\ ~Beaten(b[i])
                                /\ b[i] \in Cell /\ InPlace(b[i])
<1>1. PICK p \in C, e \in BossExp : b = <<NewCell(p, "boss", e)>>
  BY DEF Bosses
<1> DEFINE x == NewCell(p, "boss", e)
<1>2. x \in Cell /\ x.kind = "boss" /\ ~Beaten(x) /\ InPlace(x)
  BY DEF NewCell, Cell, InPlace, Beaten, Pos, Exp, Enemy
<1> HIDE DEF x
<1>3. b = <<x>>
  BY <1>1 DEF x
<1> QED BY <1>2, <1>3

(* Enemies that come change nothing else.                                  *)
LEMMA ConcatFresh ==
  ASSUME NEW c, NEW k, CellsBase(c, k), NEW n \in Seq(Cell),
         \A i \in DOMAIN n : n[i].kind # "box" /\ ~Beaten(n[i]) /\ InPlace(n[i])
  PROVE  /\ CellsBase(c \o n, k) /\ OpenBoxes(c \o n) = OpenBoxes(c)
         /\ Where(c \o n, BeatenBosses) = Where(c, BeatenBosses)
<1> DEFINE d == c \o n
<1>1. /\ c \in Seq(Cell) /\ \A i \in DOMAIN c : InPlace(c[i])
      /\ \A i, j : IsBox(c, i) /\ IsBox(c, j) /\ c[i].at = c[j].at => i = j
      /\ Cardinality(Where(c, BeatenCells)) <= k
  BY DEF CellsBase
<1>2. /\ d \in Seq(Cell) /\ Len(d) = Len(c) + Len(n)
      /\ \A i \in 1..(Len(c) + Len(n)) :
           d[i] = IF i <= Len(c) THEN c[i] ELSE n[i - Len(c)]
      /\ DOMAIN c = 1..Len(c) /\ DOMAIN n = 1..Len(n)
      /\ DOMAIN d = 1..(Len(c) + Len(n))
      /\ Len(c) \in Nat /\ Len(n) \in Nat
  BY <1>1, ConcatProperties, LenProperties
<1>3. /\ Where(d, BeatenCells) = Where(c, BeatenCells)
      /\ Where(d, BeatenBosses) = Where(c, BeatenBosses)
  <2>1. \A i \in DOMAIN n : n[i] \notin BeatenCells /\ n[i] \notin BeatenBosses
    BY DEF BeatenCells, BeatenBosses
  <2> QED BY <1>1, <2>1, ConcatKeeps
<1> HIDE DEF d
<1>4. \A i \in DOMAIN d : \/ i \in DOMAIN c /\ d[i] = c[i]
                          \/ i \notin DOMAIN c /\ i - Len(c) \in DOMAIN n /\ d[i] = n[i - Len(c)]
  BY <1>2
<1>5. \A i \in DOMAIN d : InPlace(d[i])
  BY <1>1, <1>4
<1>6. \A i : /\ IsBox(d, i) <=> IsBox(c, i)
             /\ IsBox(c, i) => d[i] = c[i]
  <2>1. ASSUME NEW i, IsBox(c, i) PROVE IsBox(d, i) /\ d[i] = c[i]
    BY <1>2, <2>1 DEF IsBox
  <2>2. ASSUME NEW i, IsBox(d, i) PROVE IsBox(c, i)
    BY <1>4, <2>2 DEF IsBox
  <2> QED BY <2>1, <2>2
<1>7. \A i, j : IsBox(d, i) /\ IsBox(d, j) /\ d[i].at = d[j].at => i = j
  BY <1>1, <1>6
<1>8. OpenBoxes(d) = OpenBoxes(c)
  BY <1>6 DEF OpenBoxes
<1> QED BY <1>1, <1>2, <1>3, <1>5, <1>7, <1>8 DEF CellsBase, d

(* Squads and boss: the count of each.                                     *)
LEMMA WaveCounts ==
  ASSUME NEW c \in Seq(Cell), NEW n \in Seq(Cell), NEW b \in Seq(Cell),
         \A i \in DOMAIN n : n[i] \in EnemyCells,
         \A i \in DOMAIN b : b[i] \in BossCells
  PROVE  /\ Cardinality(Where(c \o n \o b, EnemyCells))
              = Cardinality(Where(c, EnemyCells)) + Len(n)
         /\ Where(c, BossCells) # {} \/ b # <<>> =>
              Where(c \o n \o b, BossCells) # {}
<1> DEFINE d == c \o n
<1>1. d \in Seq(Cell)
  BY ConcatProperties
<1>2. Cardinality(Where(d, EnemyCells)) = Cardinality(Where(c, EnemyCells)) + Len(n)
  BY ConcatAdds
<1>3. Where(d, BossCells) = Where(c, BossCells)
  <2>1. \A i \in DOMAIN n : n[i] \notin BossCells
    BY DEF EnemyCells, BossCells
  <2> QED BY <2>1, ConcatKeeps
<1> HIDE DEF d
<1>4. Where(d \o b, EnemyCells) = Where(d, EnemyCells)
  <2>1. \A i \in DOMAIN b : b[i] \notin EnemyCells
    BY DEF EnemyCells, BossCells
  <2> QED BY <1>1, <2>1, ConcatKeeps
<1>5. /\ Where(d, BossCells) \subseteq Where(d \o b, BossCells)
      /\ b # <<>> => Where(d \o b, BossCells) # {}
  BY <1>1, ConcatAdds
<1> QED BY <1>2, <1>3, <1>4, <1>5 DEF d

(* The cells of a kind, for the code (OfKind) and for the invariant.       *)
LEMMA KindsAre ==
  ASSUME NEW s, s.cells \in Seq(Cell)
  PROVE  /\ OfKind(s, {"enemy"}) = Where(s.cells, EnemyCells)
         /\ OfKind(s, {"boss"}) = Where(s.cells, BossCells)
         /\ \A i \in DOMAIN s.cells : s.cells[i] \in Cell
<1>1. \A i \in DOMAIN s.cells : s.cells[i] \in Cell
  BY WhereIs
<1> QED BY <1>1 DEF OfKind, Where, EnemyCells, BossCells

(* The positions that are left for enemies: enemies stand on the others.   *)
LEMMA RoomIs ==
  ASSUME NEW s, s.cells \in Seq(Cell), \A i \in DOMAIN s.cells : InPlace(s.cells[i]),
         NEW room, room = EnemyPos \ Positions(s, {"enemy", "boss"})
  PROVE  /\ IsFiniteSet(room) /\ Cardinality(room) \in Nat
         /\ Cardinality(room) + Cardinality(Where(s.cells, EnemyCells))
              >= Cardinality(EnemyPos)
<1> DEFINE E == Where(s.cells, EnemyCells)
           T == {s.cells[i].at : i \in E}
<1>1. IsFiniteSet(E) /\ Cardinality(E) \in Nat /\ \A i \in DOMAIN s.cells : s.cells[i] \in Cell
  BY WhereIs
<1>2. IsFiniteSet(T) /\ Cardinality(T) <= Cardinality(E)
  <2> DEFINE f == [i \in E |-> s.cells[i].at]
  <2> HIDE DEF E
  <2>1. f \in Surjection(E, T)
    BY DEF Surjection
  <2> HIDE DEF T, f
  <2> QED BY <1>1, <2>1, FS_Surjection
<1>3. EnemyPos \ T \subseteq room
  <2> SUFFICES ASSUME NEW p \in EnemyPos, p \notin room PROVE p \in T
    OBVIOUS
  <2>1. PICK i \in DOMAIN s.cells : s.cells[i].kind \in {"enemy", "boss"} /\ s.cells[i].at = p
    BY DEF Positions, OfKind
  <2>2. s.cells[i].kind = "enemy"
    BY <2>1, ConstantsAre DEF InPlace
  <2>3. i \in E
    BY <1>1, <2>1, <2>2 DEF Where, EnemyCells
  <2> QED BY <2>1, <2>3
<1>4. IsFiniteSet(EnemyPos) /\ IsFiniteSet(room) /\ Cardinality(EnemyPos) \in Nat
  <2>1. room \subseteq EnemyPos
    OBVIOUS
  <2> QED BY <2>1, ConstantsAre, FS_Subset
<1>5. Cardinality(room) \in Nat /\ Cardinality(T) \in Nat
  BY <1>2, <1>4, FS_CardinalityType
<1>6. Cardinality(EnemyPos) <= Cardinality(room \cup T) 
  <2>1. EnemyPos \subseteq room \cup T /\ IsFiniteSet(room \cup T)
    BY <1>2, <1>3, <1>4, FS_Union
  <2> QED BY <2>1, FS_Subset
<1>7. Cardinality(room \cup T) = Cardinality(room) + Cardinality(T) - Cardinality(room \cap T)
  BY <1>2, <1>4, FS_Union
<1>8. Cardinality(room \cap T) \in Nat /\ Cardinality(room \cup T) \in Nat
  <2>1. IsFiniteSet(room \cup T) /\ IsFiniteSet(room \cap T)
    BY <1>2, <1>4, FS_Union, FS_Subset
  <2> QED BY <2>1, FS_CardinalityType
<1> HIDE DEF T, E
<1>9. Cardinality(room) + Cardinality(E) >= Cardinality(EnemyPos)
  BY <1>1, <1>2, <1>4, <1>5, <1>6, <1>7, <1>8
<1> QED BY <1>4, <1>5, <1>9 DEF E

WithCells(s, c) == [s EXCEPT !.cells = c]

(* A sortie with other cells.                                              *)
LEMMA WithCellsIs ==
  ASSUME NEW s \in Sortie, NEW c \in Seq(Cell)
  PROVE  /\ WithCells(s, c) \in Sortie /\ WithCells(s, c).cells = c
         /\ WithCells(s, c).kills = s.kills /\ WithCells(s, c).fleets = s.fleets
BY DEF WithCells, Sortie

(* The parts of a sortie.                                                  *)
LEMMA SortieIs ==
  ASSUME NEW s \in Sortie
  PROVE  /\ s.cells \in Seq(Cell) /\ s.kills \in 0..MaxKills /\ s.kills \in Nat
         /\ s.fleets \in Placing /\ MaxKills \in Nat
<1>1. MaxKills \in Nat
  BY ConstantsAre DEF MaxKills
<1> QED BY <1>1 DEF Sortie

(* spawn_wave_cells                                                        *)
LEMMA AfterWaveIs ==
  ASSUME NEW s \in Sortie, CellsBase(s.cells, s.kills),
         BossRefresh = 0 => Where(s.cells, BossCells) # {},
         NEW t \in AfterWave(s)
  PROVE  /\ t \in Sortie /\ t.kills = s.kills /\ CellsOK(t.cells, t.kills)
         /\ OpenBoxes(t.cells) = OpenBoxes(s.cells)
         /\ Where(t.cells, BeatenBosses) = Where(s.cells, BeatenBosses)
<1> DEFINE taken == Positions(s, {"enemy", "boss"})
           room == Free(s, EnemyPos)
           r == Cardinality(room)
           m == Missing(s)
           k == Coming(s)
           comes == BossComes(s)
<1>1. PICK new \in Squads(room, k),
           b \in IF comes THEN Bosses(Free(s, BossPos)) ELSE {<<>>} :
        t = Reinforced(s, new, b)
  BY DEF AfterWave
<1>2. /\ s.cells \in Seq(Cell) /\ \A i \in DOMAIN s.cells : InPlace(s.cells[i])
      /\ s.kills \in Nat
  BY SortieIs DEF CellsBase
<1> DEFINE e == Cardinality(Where(s.cells, EnemyCells))
<1>3. r \in Nat /\ r + e >= Cardinality(EnemyPos)
  <2> HIDE DEF taken
  <2> QED BY <1>2, RoomIs DEF Free
<1>4. /\ e \in Nat /\ m = Due(s.kills) - e /\ Due(s.kills) \in Nat
      /\ Due(s.kills) <= Cardinality(EnemyPos) /\ Cardinality(EnemyPos) \in Nat
  BY <1>2, WhereIs, KindsAre, DueIs, ConstantsAre DEF Missing
<1> HIDE DEF room
<1>5. k \in Nat /\ e + k >= Due(s.kills)
  <2> HIDE DEF r, m, e
  <2> DEFINE x == Min({m, r})
  <2>1. m \in Int /\ r \in Int
    BY <1>3, <1>4
  <2>2. x \in {m, r} /\ x <= m /\ x <= r
    BY <2>1, OfTwo
  <2> HIDE DEF x
  <2>3. x \in Int /\ 0 \in Int
    BY <2>1, <2>2
  <2>4. Max({0, x}) \in {0, x} /\ Max({0, x}) >= 0 /\ Max({0, x}) >= x
    BY <2>3, OfTwo
  <2>5. Max({0, x}) \in Nat /\ e + Max({0, x}) >= Due(s.kills)
    BY <1>3, <1>4, <2>1, <2>2, <2>3, <2>4
  <2> QED BY <2>5 DEF x, Coming, room, r, m
<1> HIDE DEF r, m, e, k
<1>6. /\ new \in Seq(Cell) /\ Len(new) = k
      /\ \A i \in DOMAIN new : /\ new[i].kind = "enemy" /\ ~Beaten(new[i])
                               /\ new[i] \in Cell /\ InPlace(new[i])
  <2>1. room \in SUBSET EnemyPos
    BY DEF room, Free
  <2> QED BY <1>1, <1>5, <2>1, SquadIs
<1>7. /\ b \in Seq(Cell) /\ (comes => b # <<>>)
      /\ \A i \in DOMAIN b : /\ b[i].kind = "boss" /\ ~Beaten(b[i])
                             /\ b[i] \in Cell /\ InPlace(b[i])
  <2>1. CASE comes
    <3>1. b \in Bosses(Free(s, BossPos))
      BY <1>1, <2>1
    <3>2. Free(s, BossPos) \in SUBSET BossPos
      BY DEF Free
    <3> QED BY <2>1, <3>1, <3>2, BossIs
  <2>2. CASE ~comes
    <3>1. b = <<>>
      BY <1>1, <2>2
    <3> QED BY <2>2, <3>1
  <2> QED BY <2>1, <2>2
<1> DEFINE d == s.cells \o new \o b
<1>8. /\ CellsBase(d, s.kills) /\ OpenBoxes(d) = OpenBoxes(s.cells)
      /\ Where(d, BeatenBosses) = Where(s.cells, BeatenBosses)
  <2> DEFINE a == s.cells \o new
  <2>1. /\ CellsBase(a, s.kills) /\ OpenBoxes(a) = OpenBoxes(s.cells)
        /\ Where(a, BeatenBosses) = Where(s.cells, BeatenBosses)
    <3>1. \A i \in DOMAIN new : new[i].kind # "box" /\ ~Beaten(new[i]) /\ InPlace(new[i])
      BY <1>6
    <3> QED BY <1>6, <3>1, ConcatFresh
  <2> HIDE DEF a
  <2>2. \A i \in DOMAIN b : b[i].kind # "box" /\ ~Beaten(b[i]) /\ InPlace(b[i])
    BY <1>7
  <2>3. /\ CellsBase(a \o b, s.kills) /\ OpenBoxes(a \o b) = OpenBoxes(a)
        /\ Where(a \o b, BeatenBosses) = Where(a, BeatenBosses)
    BY <1>7, <2>1, <2>2, ConcatFresh
  <2> QED BY <2>1, <2>3 DEF a
<1>9. /\ Cardinality(Where(d, EnemyCells)) = e + k
      /\ Where(s.cells, BossCells) # {} \/ b # <<>> => Where(d, BossCells) # {}
  <2>1. \A i \in DOMAIN new : new[i] \in EnemyCells
    BY <1>6 DEF EnemyCells
  <2>2. \A i \in DOMAIN b : b[i] \in BossCells
    BY <1>7 DEF BossCells
  <2> QED BY <1>2, <1>6, <1>7, <2>1, <2>2, WaveCounts DEF e
<1>10. ASSUME s.kills >= BossRefresh, Where(s.cells, BossCells) = {}
       PROVE  comes
  <2>1. BossRefresh > 0
    BY <1>10, ConstantsAre
  <2>2. OfKind(s, {"boss"}) = {}
    BY <1>2, <1>10, KindsAre
  <2>3. BossPos \cap taken = {}
    <3> SUFFICES ASSUME NEW p \in BossPos, p \in taken PROVE FALSE
      OBVIOUS
    <3>1. PICK i \in DOMAIN s.cells : s.cells[i].kind \in {"enemy", "boss"} /\ s.cells[i].at = p
      BY DEF Positions, OfKind
    <3>2. s.cells[i].kind # "boss"
      BY <2>2, <3>1 DEF OfKind
    <3> QED BY <1>2, <3>1, <3>2, ConstantsAre DEF InPlace
  <2>4. BossPos \ taken # {}
    <3> HIDE DEF taken
    <3> QED BY <2>3, ConstantsAre
  <2> QED BY <1>10, <2>1, <2>2, <2>4 DEF BossComes, Free
<1>11. WavesCame(d, s.kills)
  BY <1>5, <1>7, <1>9, <1>10 DEF WavesCame
<1>12. d \in Seq(Cell)
  BY <1>8 DEF CellsBase
<1>13. t = WithCells(s, d)
  BY <1>1 DEF Reinforced, WithCells
<1>14. t \in Sortie /\ t.cells = d /\ t.kills = s.kills
  <2> HIDE DEF d
  <2> QED BY <1>12, <1>13, WithCellsIs
<1> HIDE DEF d
<1> QED BY <1>8, <1>11, <1>14 DEF CellsOK

BoxCells == {NewCell(p, "box", NoRow) : p \in BoxPos}

(* The boxes of a chapter, one in each place.                              *)
LEMMA BoxesAre ==
  /\ CellsBase(SetToSeq(BoxCells), 0)
  /\ Where(SetToSeq(BoxCells), BeatenBosses) = {}
<1> DEFINE n == Cardinality(BoxCells)
           c == SetToSeq(BoxCells)
           f == [p \in BoxPos |-> NewCell(p, "box", NoRow)]
<1>1. IsFiniteSet(BoxCells)
  <2>1. f \in Surjection(BoxPos, BoxCells)
    BY DEF Surjection, BoxCells
  <2> HIDE DEF f
  <2> QED BY <2>1, ConstantsAre, FS_Surjection
<1>2. /\ n \in Nat /\ c \in [1..n -> BoxCells]
      /\ \A i, j \in 1..n : c[i] = c[j] => i = j
  BY <1>1, Listed
<1>3. ASSUME NEW x \in BoxCells
      PROVE  /\ x \in Cell /\ x.kind = "box" /\ InPlace(x)
             /\ x = NewCell(x.at, "box", NoRow)
  BY DEF BoxCells, NewCell, Cell, Pos, InPlace, Enemy
<1> HIDE DEF n, c
<1>4. DOMAIN c = 1..n /\ c \in Seq(Cell)
  <2>1. c \in [1..n -> Cell]
    BY <1>2, <1>3
  <2> QED BY <1>2, <2>1, SeqDef
<1>5. \A i \in DOMAIN c : c[i] \in BoxCells /\ InPlace(c[i])
  BY <1>2, <1>3, <1>4
<1>6. ASSUME NEW i, NEW j, IsBox(c, i), IsBox(c, j), c[i].at = c[j].at
      PROVE  i = j
  <2>1. i \in 1..n /\ j \in 1..n
    BY <1>4, <1>6 DEF IsBox
  <2>2. c[i] = NewCell(c[i].at, "box", NoRow) /\ c[j] = NewCell(c[j].at, "box", NoRow)
    BY <1>3, <1>4, <1>5, <2>1
  <2> QED BY <1>2, <1>6, <2>1, <2>2
<1>7. Where(c, BeatenCells) = {} /\ Where(c, BeatenBosses) = {}
  <2>1. \A x \in BoxCells : x \notin BeatenCells /\ x \notin BeatenBosses
    BY <1>3 DEF BeatenCells, BeatenBosses, Enemy
  <2> QED BY <1>5, <2>1 DEF Where
<1>8. Cardinality(Where(c, BeatenCells)) <= 0
  BY <1>7, FS_EmptySet
<1> QED BY <1>4, <1>5, <1>6, <1>7, <1>8 DEF CellsBase, c

(* build_current_chapter_info                                              *)
LEMMA NewSortiesAre ==
  ASSUME NEW t \in NewSorties
  PROVE  /\ t \in Sortie /\ t.kills = 0 /\ CellsOK(t.cells, t.kills)
         /\ Where(t.cells, BeatenBosses) = {}
<1> DEFINE c == SetToSeq(BoxCells)
<1>1. PICK new \in Squads(EnemyPos, Waves[1]),
           b \in IF BossRefresh = 0 THEN Bosses(BossPos) ELSE {<<>>},
           start \in [Fleets -> FreePos] :
        t = Drawn(new, b, start)
  BY DEF NewSorties
<1> HIDE DEF c
<1>2. /\ CellsBase(c, 0) /\ Where(c, BeatenBosses) = {} /\ c \in Seq(Cell)
  BY BoxesAre DEF c, CellsBase
<1>3. /\ Due(0) = Waves[1] /\ Due(0) \in Nat
  <2>1. Len(Waves) > 0
    BY ConstantsAre, EmptySeq, LenProperties
  <2> QED BY <2>1, DueIs DEF Due
<1>4. /\ new \in Seq(Cell) /\ Len(new) = Due(0)
      /\ \A i \in DOMAIN new : /\ new[i].kind = "enemy" /\ ~Beaten(new[i])
                               /\ new[i] \in Cell /\ InPlace(new[i])
  <2> DEFINE k == Waves[1]
  <2>1. k \in Nat /\ EnemyPos \in SUBSET EnemyPos
    BY <1>3
  <2> HIDE DEF k
  <2>2. new \in Squads(EnemyPos, k)
    BY <1>1 DEF k
  <2> QED BY <1>3, <2>1, <2>2, SquadIs DEF k
<1>5. /\ b \in Seq(Cell) /\ (BossRefresh = 0 => b # <<>>)
      /\ \A i \in DOMAIN b : /\ b[i].kind = "boss" /\ ~Beaten(b[i])
                             /\ b[i] \in Cell /\ InPlace(b[i])
  <2>1. CASE BossRefresh = 0
    <3>1. b \in Bosses(BossPos) /\ BossPos \in SUBSET BossPos
      BY <1>1, <2>1
    <3> QED BY <2>1, <3>1, BossIs
  <2>2. CASE BossRefresh # 0
    <3>1. b = <<>>
      BY <1>1, <2>2
    <3> QED BY <2>2, <3>1
  <2> QED BY <2>1, <2>2
<1> DEFINE a == c \o new
           d == a \o b
<1>6. CellsBase(d, 0) /\ Where(d, BeatenBosses) = {}
  <2>1. CellsBase(a, 0) /\ Where(a, BeatenBosses) = {}
    <3>1. \A i \in DOMAIN new : new[i].kind # "box" /\ ~Beaten(new[i]) /\ InPlace(new[i])
      BY <1>4
    <3> QED BY <1>2, <1>4, <3>1, ConcatFresh
  <2> HIDE DEF a
  <2>2. \A i \in DOMAIN b : b[i].kind # "box" /\ ~Beaten(b[i]) /\ InPlace(b[i])
    BY <1>5
  <2> QED BY <1>5, <2>1, <2>2, ConcatFresh
<1>7. WavesCame(d, 0)
  <2>1. \A i \in DOMAIN new : new[i] \in EnemyCells
    BY <1>4 DEF EnemyCells
  <2>2. \A i \in DOMAIN b : b[i] \in BossCells
    BY <1>5 DEF BossCells
  <2>3. /\ Cardinality(Where(d, EnemyCells))
             = Cardinality(Where(c, EnemyCells)) + Len(new)
        /\ Where(c, BossCells) # {} \/ b # <<>> => Where(d, BossCells) # {}
    BY <1>2, <1>4, <1>5, <2>1, <2>2, WaveCounts
  <2>4. Cardinality(Where(c, EnemyCells)) \in Nat
    BY <1>2, WhereIs
  <2> QED BY <1>3, <1>4, <1>5, <2>3, <2>4, ConstantsAre DEF WavesCame
<1>8. d \in Seq(Cell) /\ t = [cells |-> d, fleets |-> start, kills |-> 0]
  BY <1>1, <1>6 DEF CellsBase, Drawn, BoxCells, c
<1> HIDE DEF d
<1>9. start \in Placing
  BY ConstantsAre, SortiesAssumption DEF SortiesAssumption, Placing, Pos
<1>10. 0 \in 0..MaxKills
  BY ConstantsAre DEF MaxKills
<1>11. t \in Sortie /\ t.cells = d /\ t.kills = 0
  BY <1>8, <1>9, <1>10 DEF Sortie
<1> QED BY <1>6, <1>7, <1>11 DEF CellsOK

(* Until a boss is beaten somebody is there to fight: before the boss has  *)
(* come, more enemies have than were beaten.                               *)
LEMMA SomebodyIsThere ==
  ASSUME NEW s \in Sortie, CellsOK(s.cells, s.kills),
         Where(s.cells, BeatenBosses) = {}
  PROVE  Unbeaten(s, {"enemy", "boss"}) # {}
<1>1. /\ s.cells \in Seq(Cell) /\ s.kills \in Nat
      /\ Cardinality(Where(s.cells, BeatenCells)) <= s.kills
      /\ WavesCame(s.cells, s.kills)
      /\ \A i \in DOMAIN s.cells : s.cells[i] \in Cell
  BY SortieIs, WhereIs DEF CellsOK, CellsBase
<1>2. CASE Where(s.cells, BossCells) # {}
  <2>1. PICK i \in DOMAIN s.cells : s.cells[i] \in BossCells
    BY <1>2 DEF Where
  <2>2. ~Beaten(s.cells[i])
    BY <2>1 DEF Where, BossCells, BeatenBosses
  <2> QED BY <2>1, <2>2 DEF Unbeaten, OfKind, BossCells
<1>3. CASE Where(s.cells, BossCells) = {}
  <2> DEFINE E == Where(s.cells, EnemyCells)
             B == Where(s.cells, BeatenCells)
  <2>1. s.kills \in 0..(BossRefresh - 1)
    BY <1>1, <1>3, ConstantsAre DEF WavesCame
  <2>2. Due(s.kills) > s.kills
    BY <2>1, ConstantsAre
  <2>3. /\ IsFiniteSet(E) /\ Cardinality(E) \in Nat
        /\ IsFiniteSet(B) /\ Cardinality(B) \in Nat
    BY <1>1, WhereIs
  <2>4. Cardinality(E) >= Due(s.kills) /\ Due(s.kills) \in Nat
    BY <1>1, DueIs DEF WavesCame
  <2>5. ~(E \subseteq B)
    <3> SUFFICES ASSUME E \subseteq B PROVE FALSE
      OBVIOUS
    <3> HIDE DEF E, B
    <3>1. Cardinality(E) <= Cardinality(B)
      BY <2>3, FS_Subset
    <3> QED BY <1>1, <2>2, <2>3, <2>4, <3>1 DEF B
  <2>6. PICK i \in E : i \notin B
    BY <2>5
  <2>7. i \in DOMAIN s.cells /\ s.cells[i].kind = "enemy" /\ ~Beaten(s.cells[i])
    BY <2>6 DEF Where, EnemyCells, BeatenCells, Enemy
  <2> QED BY <2>7 DEF Unbeaten, OfKind
<1> QED BY <1>2, <1>3

Flagged(x, flag) == [x EXCEPT !.flag = flag]
Put(c, i, x) == [c EXCEPT ![i] = x]

(* A cell whose flag is set.                                               *)
LEMMA FlaggedIs ==
  ASSUME NEW x \in Cell, NEW flag \in {"active", "disabled", "ambush"}
  PROVE  /\ Flagged(x, flag) \in Cell /\ Flagged(x, flag).at = x.at
         /\ Flagged(x, flag).kind = x.kind /\ Flagged(x, flag).exp = x.exp
         /\ Flagged(x, flag).flag = flag
         /\ InPlace(x) => InPlace(Flagged(x, flag))
BY DEF Flagged, Cell, InPlace

(* A cell put in the place of another.                                     *)
LEMMA PutIs ==
  ASSUME NEW c \in Seq(Cell), NEW i \in DOMAIN c, NEW x \in Cell
  PROVE  Put(c, i, x) \in Seq(Cell)
BY ExceptSeq, LenProperties DEF Put

WithKill(s, c, k) == [s EXCEPT !.cells = c, !.kills = k]

(* A sortie with other cells and another number of kills.                  *)
LEMMA WithKillIs ==
  ASSUME NEW s \in Sortie, NEW c \in Seq(Cell), NEW k \in 0..MaxKills
  PROVE  /\ WithKill(s, c, k) \in Sortie
         /\ WithKill(s, c, k).cells = c /\ WithKill(s, c, k).kills = k
BY DEF WithKill, Sortie

(* A beaten enemy is one kill more.                                        *)
LEMMA BeatIs ==
  ASSUME sortie \in Sortie, CellsOK(sortie.cells, sortie.kills),
         NEW i \in Unbeaten(sortie, Enemy), sortie.kills + 1 <= MaxKills,
         NEW s, s = Beat(i)
  PROVE  /\ s \in Sortie /\ s.kills = sortie.kills + 1
         /\ CellsBase(s.cells, s.kills)
         /\ OpenBoxes(s.cells) = OpenBoxes(sortie.cells)
         /\ BossRefresh = 0 => Where(s.cells, BossCells) # {}
         /\ sortie.cells[i].kind # "boss" =>
              Where(s.cells, BeatenBosses) = Where(sortie.cells, BeatenBosses)
         /\ sortie.cells[i].kind = "boss" => sortie.cells[i].exp \in BossExp
<1> DEFINE c == sortie.cells
           x == Flagged(c[i], "disabled")
           d == Put(c, i, x)
<1>1. /\ c \in Seq(Cell) /\ i \in DOMAIN c /\ c[i] \in Cell /\ InPlace(c[i])
      /\ c[i].kind \in Enemy /\ ~Beaten(c[i]) /\ sortie.kills \in Nat
      /\ CellsBase(c, sortie.kills) /\ WavesCame(c, sortie.kills)
  BY SortieIs, WhereIs DEF CellsOK, CellsBase, Unbeaten, OfKind
<1>2. /\ x \in Cell /\ x.kind = c[i].kind /\ Beaten(x) /\ InPlace(x)
      /\ x.kind # "box" /\ c[i].kind # "box"
  <2> HIDE DEF c
  <2> QED BY <1>1, FlaggedIs DEF Beaten, Enemy
<1>3. /\ s \in Sortie /\ s.kills = sortie.kills + 1 /\ s.cells = d
  <2>1. s = WithKill(sortie, d, sortie.kills + 1)
    BY Zenon DEF Beat, WithKill, Put, Flagged
  <2>2. d \in Seq(Cell)
    BY <1>1, <1>2, PutIs
  <2>3. sortie.kills + 1 \in 0..MaxKills
    BY <1>1, SortieIs
  <2> HIDE DEF d
  <2> QED BY <2>1, <2>2, <2>3, WithKillIs
<1> HIDE DEF c, x
<1>4. Cardinality(Where(d, BeatenCells)) <= sortie.kills + 1
  <2>1. x \in BeatenCells /\ c[i] \notin BeatenCells
    BY <1>1, <1>2 DEF BeatenCells
  <2>2. /\ Cardinality(Where(d, BeatenCells))
             = Cardinality(Where(c, BeatenCells)) + 1
        /\ Cardinality(Where(c, BeatenCells)) \in Nat
        /\ Cardinality(Where(c, BeatenCells)) <= sortie.kills
    BY <1>1, <1>2, <2>1, ReplaceAdds, WhereIs DEF CellsBase, Put
  <2> QED BY <1>1, <2>2
<1>5. CellsBase(d, sortie.kills + 1) /\ OpenBoxes(d) = OpenBoxes(c)
  BY <1>1, <1>2, <1>4, ReplaceKeeps DEF Put
<1>6. Where(d, BossCells) = Where(c, BossCells)
  <2>1. x \in BossCells <=> c[i] \in BossCells
    BY <1>1, <1>2 DEF BossCells
  <2> QED BY <1>1, <1>2, <2>1, ReplaceWhere DEF Put
<1>7. c[i].kind # "boss" => Where(d, BeatenBosses) = Where(c, BeatenBosses)
  <2> SUFFICES ASSUME c[i].kind # "boss"
               PROVE  Where(d, BeatenBosses) = Where(c, BeatenBosses)
    OBVIOUS
  <2>1. x \notin BeatenBosses /\ c[i] \notin BeatenBosses
    BY <1>2 DEF BeatenBosses
  <2> QED BY <1>1, <1>2, <2>1, ReplaceWhere DEF Put
<1>8. BossRefresh = 0 => Where(c, BossCells) # {}
  BY <1>1, ConstantsAre DEF WavesCame
<1> HIDE DEF d
<1> QED BY <1>1, <1>3, <1>5, <1>6, <1>7, <1>8 DEF c, InPlace

(* Who is beaten is an enemy that was not.                                 *)
LEMMA TargetsAre ==
  ASSUME sortie \in Sortie, NEW i \in Targets, i # 0
  PROVE  i \in Unbeaten(sortie, Enemy)
<1> DEFINE matches == {j \in Unbeaten(sortie, Enemy) :
                         sortie.cells[j].exp = battle.exp}
<1>1. matches # {}
  BY DEF Targets
<1>2. matches \in SUBSET Nat
  BY SortieIs, WhereIs DEF Unbeaten, OfKind
<1>3. Min(matches) \in matches
  <2> HIDE DEF matches
  <2> QED BY <1>1, <1>2, Least
<1>4. \E p : i = IF At(sortie, p) \in matches THEN At(sortie, p)
                 ELSE Min(matches)
  BY <1>1 DEF Targets, Min
<1> HIDE DEF matches
<1>5. i \in matches
  BY <1>3, <1>4
<1> QED BY <1>5 DEF matches

-----------------------------------------------------------------------------
(* The books: what was granted, counted and announced.                     *)

Numbers ==
  /\ battles \in Nat /\ faults \in Nat /\ kills \in Nat /\ bosses \in Nat
  /\ loot \in Nat /\ progress.defeats \in Nat /\ progress.passes \in Nat
  /\ progress.cleared \in BOOLEAN /\ progress.starred \in BOOLEAN
  /\ announced.clear \in Nat /\ announced.star \in Nat

(* The battle that is going on may still beat an enemy.                    *)
OneKillLeft == kills + Count(battle # NoRow) <= battles + faults

(* An announcement follows its cause, and without failures at once.        *)
AnnouncedAfter ==
  /\ announced.clear <= Count(progress.cleared)
  /\ announced.star <= Count(progress.starred)
  /\ faults = 0 => /\ announced.clear = Count(progress.cleared)
                   /\ announced.star = Count(progress.starred)

Books ==
  /\ Numbers /\ OneKillLeft /\ LootIsForKills /\ ProgressIsForBosses
  /\ AnnouncedAfter

-----------------------------------------------------------------------------
(* Steps outside a battle.                                                 *)

(* Tracking, moves, ambushes, boxes and retreats touch no book.            *)
Peaceful ==
  UNCHANGED fights /\ faults' \in {faults, faults + 1}

(* They leave the battle, the progress and every count alone.              *)
LEMMA PeacefulSteps ==
  ASSUME \/ Tracks
         \/ \E f \in Fleets : \/ \E p \in Pos : Moves(f, p)
                              \/ Ambushed(f) \/ OpensBox(f)
         \/ \E G \in SUBSET Fleets : Retreats(G)
         \/ UNCHANGED vars
  PROVE  Peaceful
<1>1. CASE Tracks
  BY <1>1, Zenon DEF Tracks, Peaceful, fights
<1>2. ASSUME NEW f \in Fleets, NEW p \in Pos, Moves(f, p)
      PROVE  Peaceful
  BY <1>2, Zenon DEF Moves, Peaceful, counts
<1>3. ASSUME NEW f \in Fleets, Ambushed(f)
      PROVE  Peaceful
  BY <1>3, Zenon DEF Ambushed, Peaceful, counts
<1>4. ASSUME NEW f \in Fleets, OpensBox(f)
      PROVE  Peaceful
  <2>1. UNCHANGED fights
    BY <1>4, Zenon DEF OpensBox
  <2>2. faults' = faults \/ faults' = faults + 1
    BY <1>4, Zenon DEF OpensBox
  <2> QED BY <2>1, <2>2, Zenon DEF Peaceful
<1>5. ASSUME NEW G \in SUBSET Fleets, Retreats(G)
      PROVE  Peaceful
  BY <1>5, Zenon DEF Retreats, Peaceful, counts
<1>6. CASE UNCHANGED vars
  BY <1>6, Zenon DEF vars, Peaceful, counts, fights
<1> QED BY <1>1, <1>2, <1>3, <1>4, <1>5, <1>6, Zenon

(* ... and what agreed before agrees after, though a fault may be          *)
(* counted.                                                                *)
LEMMA PeacefulKeepsBooks ==
  ASSUME Books, Peaceful
  PROVE  Books'
<1>1. /\ UNCHANGED <<battle, progress, battles, kills, bosses, loot, announced>>
      /\ faults \in Nat /\ (faults' = faults \/ faults' = faults + 1)
  BY DEF Peaceful, fights, Books, Numbers
<1>2. faults' \in Nat /\ faults' >= faults /\ (faults' = 0 => faults = 0)
  BY <1>1
<1>3. Numbers'
  BY <1>1, <1>2 DEF Books, Numbers
<1>4. OneKillLeft'
  <2>1. Count(battle # NoRow)' = Count(battle # NoRow)
    BY <1>1 DEF Count
  <2>2. Count(battle # NoRow) \in Nat
    BY DEF Count
  <2> QED BY <1>1, <1>2, <2>1, <2>2 DEF Books, Numbers, OneKillLeft
<1>5. LootIsForKills'
  BY <1>1, <1>2, Zenon DEF Books, LootIsForKills
<1>6. ProgressIsForBosses'
  BY <1>1, <1>2, Zenon DEF Books, ProgressIsForBosses
<1>7. AnnouncedAfter'
  BY <1>1, <1>2, Zenon DEF Books, AnnouncedAfter, Count
<1> QED BY <1>3, <1>4, <1>5, <1>6, <1>7 DEF Books

-----------------------------------------------------------------------------
(* Battles.                                                                *)

(* A new battle takes the row of the one before.                           *)
LEMMA BeginsKeepsBooks ==
  ASSUME Books, NEW f \in Fleets, Begins(f)
  PROVE  Books'
<1>1. /\ battles' = battles + 1
      /\ UNCHANGED <<faults, progress, kills, bosses, loot, announced>>
  BY DEF Begins
<1>2. Numbers'
  BY <1>1 DEF Books, Numbers
<1>3. OneKillLeft'
  <2>1. Count(battle # NoRow) \in 0..1 /\ Count(battle # NoRow)' \in 0..1
    BY DEF Count
  <2> QED BY <1>1, <2>1 DEF Books, Numbers, OneKillLeft
<1>4. LootIsForKills' /\ ProgressIsForBosses'
  BY <1>1, Zenon DEF Books, LootIsForKills, ProgressIsForBosses
<1>5. AnnouncedAfter'
  BY <1>1, Zenon DEF Books, AnnouncedAfter, Count
<1> QED BY <1>2, <1>3, <1>4, <1>5 DEF Books

(* A battle that is left, lost or without an enemy costs its row at most.  *)
LEMMA LeftKeepsBooks ==
  ASSUME Books, UNCHANGED <<progress, battles, kills, bosses, loot, announced>>,
         \/ battle' = NoRow /\ UNCHANGED faults
         \/ faults' = faults + 1 /\ UNCHANGED battle
  PROVE  Books'
<1>1. faults \in Nat
  BY DEF Books, Numbers
<1>2. faults' \in Nat /\ faults' >= faults /\ (faults' = 0 => faults = 0)
  BY <1>1
<1>3. Numbers'
  BY <1>2 DEF Books, Numbers
<1>4. OneKillLeft'
  <2>1. /\ Count(battle # NoRow) \in 0..1 /\ Count(battle # NoRow)' \in 0..1
        /\ Count(battle # NoRow)' <= Count(battle # NoRow)
    BY DEF Count
  <2> QED BY <1>2, <2>1 DEF Books, Numbers, OneKillLeft
<1>5. LootIsForKills'
  BY <1>2, Zenon DEF Books, LootIsForKills
<1>6. ProgressIsForBosses'
  BY <1>2, Zenon DEF Books, ProgressIsForBosses
<1>7. AnnouncedAfter'
  BY <1>2, Zenon DEF Books, AnnouncedAfter, Count
<1> QED BY <1>3, <1>4, <1>5, <1>6, <1>7 DEF Books

(* What a won battle makes of the progress.                                *)
LEMMA ProgressIs ==
  ASSUME NEW p, NEW s, NEW cell, p.defeats \in Nat, p.passes \in Nat,
         p.cleared \in BOOLEAN, p.starred \in BOOLEAN,
         NEW q, q = Progressed(p, s, cell)
  PROVE  /\ q.defeats = p.defeats + Count(cell.exp \in BossExp)
         /\ \E pass \in BOOLEAN : /\ pass => cell.exp \in BossExp
                                  /\ q.passes = p.passes + Count(pass)
         /\ q.cleared \in BOOLEAN /\ (p.cleared => q.cleared)
         /\ q.starred \in BOOLEAN /\ (p.starred => q.starred)
BY DEF Progressed

(* What is announced of it.                                                *)
LEMMA AnnouncedIs ==
  ASSUME NEW q,
         announced' = [what \in {"clear", "star"} |->
                         announced[what] + Firsts(q)[what]]
  PROVE  /\ announced'.clear
              = announced.clear + Count(q.cleared /\ ~progress.cleared)
         /\ announced'.star
              = announced.star + Count(q.starred /\ ~progress.starred)
BY DEF Firsts

(* A settlement: the map, the progress, the loot, the announcements, the   *)
(* row, and a failure after any of them.                                   *)
LEMMA SettlesKeepsBooks ==
  ASSUME Books, SortiesAssumption, NEW i, NEW s, NEW done \in Done,
         Settles(i, s, done), battle # NoRow, UNCHANGED battles
  PROVE  Books'
<1> DEFINE cell == sortie.cells[i]
           later == Progressed(progress, s, cell)
           boss == Count(cell.exp \in BossExp)
<1>1. PICK q : q = later
  OBVIOUS
<1>2. /\ q.defeats = progress.defeats + boss
      /\ \E pass \in BOOLEAN : /\ pass => cell.exp \in BossExp
                               /\ q.passes = progress.passes + Count(pass)
      /\ q.cleared \in BOOLEAN /\ (progress.cleared => q.cleared)
      /\ q.starred \in BOOLEAN /\ (progress.starred => q.starred)
  BY <1>1, ProgressIs DEF Books, Numbers
<1>3. boss \in 0..1
  BY DEF Count
<1>4. q.passes \in Nat /\ q.passes <= progress.passes + boss
  BY <1>2 DEF Count, Books, Numbers
<1>5. /\ IF done = "ended" THEN UNCHANGED faults ELSE faults' = faults + 1
      /\ IF done = "unsaved" THEN UNCHANGED <<kills, bosses>>
         ELSE kills' = kills + 1 /\ bosses' = bosses + boss
      /\ progress' = IF CountsProgress(done) THEN q ELSE progress
      /\ \E n \in Granted(done) : loot' = loot + n
      /\ announced' = IF done \in {"announced", "ended"}
                      THEN [what \in {"clear", "star"} |->
                              announced[what] + Firsts(q)[what]]
                      ELSE announced
      /\ battle' = IF EndsBattle(done) THEN NoRow ELSE battle
  BY <1>1, Zenon DEF Settles
<1> HIDE DEF cell, later, boss
<1>6. /\ faults \in Nat /\ faults' \in Nat
      /\ done # "ended" => faults' = faults + 1
      /\ done = "ended" => faults' = faults
  BY <1>5 DEF Books, Numbers
<1>7. /\ kills' \in Nat /\ bosses' \in Nat
      /\ done = "unsaved" => kills' = kills /\ bosses' = bosses
      /\ done # "unsaved" => kills' = kills + 1 /\ bosses' = bosses + boss
  BY <1>3, <1>5 DEF Books, Numbers
<1>8. /\ done \in {"unsaved", "saved"} => progress' = progress
      /\ done \notin {"unsaved", "saved"} => progress' = q
  BY <1>5 DEF CountsProgress
<1>9. DropsPerKill \in Nat
  BY DEF SortiesAssumption
<1>10. /\ loot' \in Nat
       /\ done \in {"unsaved", "saved"} => loot' = loot
       /\ loot' <= loot + DropsPerKill
       /\ done = "ended" => loot' = loot + DropsPerKill
  <2>1. PICK n \in Granted(done) : loot' = loot + n
    BY <1>5
  <2>2. /\ n \in 0..DropsPerKill
        /\ done \in {"unsaved", "saved"} => n = 0
        /\ done = "ended" => n = DropsPerKill
    BY <1>9 DEF Granted, CountsProgress
  <2> QED BY <1>9, <2>1, <2>2 DEF Books, Numbers
<1>11. /\ done \notin {"announced", "ended"} => announced' = announced
       /\ done \in {"announced", "ended"} =>
            /\ announced'.clear
                 = announced.clear + Count(q.cleared /\ ~progress.cleared)
            /\ announced'.star
                 = announced.star + Count(q.starred /\ ~progress.starred)
  <2>1. CASE done \in {"announced", "ended"}
    <3>1. announced' = [what \in {"clear", "star"} |->
                          announced[what] + Firsts(q)[what]]
      BY <1>5, <2>1
    <3> QED BY <2>1, <3>1, AnnouncedIs
  <2>2. CASE done \notin {"announced", "ended"}
    BY <1>5, <2>2
  <2> QED BY <2>1, <2>2
<1>12. Numbers'
  <2>1. /\ progress'.defeats \in Nat /\ progress'.passes \in Nat
        /\ progress'.cleared \in BOOLEAN /\ progress'.starred \in BOOLEAN
    BY <1>2, <1>3, <1>4, <1>8 DEF Books, Numbers
  <2>2. announced'.clear \in Nat /\ announced'.star \in Nat
    BY <1>11 DEF Count, Books, Numbers
  <2>3. battles' \in Nat
    BY DEF Books, Numbers
  <2> QED BY <1>6, <1>7, <1>10, <2>1, <2>2, <2>3 DEF Numbers
<1>13. OneKillLeft'
  <2>1. Count(battle # NoRow) = 1
    BY DEF Count
  <2>2. Count(battle # NoRow)' \in 0..1
    BY DEF Count
  <2>3. done \in {"unsaved", "ended"} => Count(battle # NoRow)' = 0
    BY <1>5 DEF Count, EndsBattle
  <2> QED BY <1>6, <1>7, <2>1, <2>2, <2>3 DEF Books, Numbers, OneKillLeft
<1>14. LootIsForKills'
  <2>1. PICK owed : owed = DropsPerKill * kills
    OBVIOUS
  <2>2. /\ owed \in Nat /\ DropsPerKill * (kills + 1) = owed + DropsPerKill
    BY <1>9, <2>1 DEF Books, Numbers
  <2>3. loot <= owed /\ (faults = 0 => loot = owed) /\ loot \in Nat
    BY <2>1 DEF Books, LootIsForKills, Numbers
  <2>4. CASE done = "unsaved"
    BY <1>6, <1>7, <1>10, <2>1, <2>3, <2>4 DEF LootIsForKills
  <2>5. CASE done # "unsaved"
    <3>1. DropsPerKill * kills' = owed + DropsPerKill
      BY <1>7, <2>2, <2>5
    <3>2. loot' <= owed + DropsPerKill
      BY <1>9, <1>10, <2>2, <2>3
    <3>3. faults' = 0 => loot' = owed + DropsPerKill
      BY <1>6, <1>10, <2>3
    <3> QED BY <3>1, <3>2, <3>3 DEF LootIsForKills
  <2> QED BY <2>4, <2>5
<1>15. ProgressIsForBosses'
  BY <1>2, <1>3, <1>4, <1>6, <1>7, <1>8 DEF Books, Numbers, ProgressIsForBosses
<1>16. AnnouncedAfter'
  <2>1. /\ announced.clear \in Nat /\ announced.star \in Nat
        /\ announced.clear <= Count(progress.cleared)
        /\ announced.star <= Count(progress.starred)
        /\ faults = 0 => /\ announced.clear = Count(progress.cleared)
                         /\ announced.star = Count(progress.starred)
    BY DEF Books, Numbers, AnnouncedAfter
  <2>2. /\ Count(q.cleared)
             = Count(progress.cleared) + Count(q.cleared /\ ~progress.cleared)
        /\ Count(q.starred)
             = Count(progress.starred) + Count(q.starred /\ ~progress.starred)
    BY <1>2 DEF Count, Books, Numbers
  <2>3. /\ Count(q.cleared) \in Nat /\ Count(q.starred) \in Nat
        /\ Count(progress.cleared) \in Nat /\ Count(progress.starred) \in Nat
        /\ Count(q.cleared /\ ~progress.cleared) \in Nat
        /\ Count(q.starred /\ ~progress.starred) \in Nat
    BY DEF Count
  <2>4. CASE done \in {"unsaved", "saved"}
    <3>1. progress' = progress /\ announced' = announced /\ faults' # 0
      BY <1>6, <1>8, <1>11, <2>4
    <3> QED BY <2>1, <3>1, Zenon DEF AnnouncedAfter, Count
  <2>5. CASE done \notin {"unsaved", "saved"}
    <3>1. progress' = q
      BY <1>8, <2>5
    <3>2. Count(progress.cleared)' = Count(q.cleared)
          /\ Count(progress.starred)' = Count(q.starred)
      BY <3>1, Zenon DEF Count
    <3>3. /\ announced'.clear <= Count(q.cleared)
          /\ announced'.star <= Count(q.starred)
          /\ faults' = 0 => /\ announced'.clear = Count(q.cleared)
                            /\ announced'.star = Count(q.starred)
      BY <1>6, <1>11, <2>1, <2>2, <2>3
    <3> QED BY <3>2, <3>3 DEF AnnouncedAfter
  <2> QED BY <2>4, <2>5
<1> QED BY <1>12, <1>13, <1>14, <1>15, <1>16 DEF Books

(* A finished battle settles, or ends as it was.                           *)
LEMMA FinishesKeepsBooks ==
  ASSUME Books, NEW won \in BOOLEAN, Finishes(won)
  PROVE  Books'
<1>1. battle # NoRow /\ UNCHANGED battles
  BY DEF Finishes
<1>2. CASE EndsAsItWas
  BY <1>1, <1>2, LeftKeepsBooks, Zenon DEF EndsAsItWas
<1>3. ASSUME NEW i, NEW s, NEW done \in Done, Settles(i, s, done)
      PROVE  Books'
  BY <1>1, <1>3, SettlesKeepsBooks, SortiesAssumption
<1> QED BY <1>2, <1>3, Zenon DEF Finishes

(* Nothing is won or fought at the start.                                  *)
LEMMA BooksInit ==
  ASSUME Init
  PROVE  Books
<1>1. /\ battle = NoRow /\ battles = 0 /\ faults = 0 /\ kills = 0
      /\ bosses = 0 /\ loot = 0 /\ progress.defeats = 0 /\ progress.passes = 0
      /\ progress.cleared = FALSE /\ progress.starred = FALSE
      /\ announced.clear = 0 /\ announced.star = 0
  BY DEF Init
<1>2. DropsPerKill \in Nat
  BY SortiesAssumption DEF SortiesAssumption
<1>3. Numbers
  <2>1. progress.cleared \in BOOLEAN /\ progress.starred \in BOOLEAN
    BY <1>1, Zenon
  <2> QED BY <1>1, <2>1 DEF Numbers
<1>4. OneKillLeft
  BY <1>1 DEF OneKillLeft, Count
<1>5. LootIsForKills
  <2>1. DropsPerKill * kills = 0
    BY <1>1, <1>2
  <2> QED BY <1>1, <2>1 DEF LootIsForKills
<1>6. ProgressIsForBosses
  BY <1>1 DEF ProgressIsForBosses
<1>7. AnnouncedAfter
  BY <1>1 DEF AnnouncedAfter, Count
<1> QED BY <1>3, <1>4, <1>5, <1>6, <1>7 DEF Books

(* Every step keeps the books.                                             *)
LEMMA NextKeepsBooks ==
  ASSUME Books, [Next]_vars
  PROVE  Books'
<1>1. CASE Quits
  BY <1>1, LeftKeepsBooks, Zenon DEF Quits, counts
<1>2. ASSUME NEW won \in BOOLEAN, Finishes(won)
      PROVE  Books'
  BY <1>2, FinishesKeepsBooks
<1>3. ASSUME NEW f \in Fleets, Begins(f)
      PROVE  Books'
  BY <1>3, BeginsKeepsBooks
<1>4. CASE \/ Tracks
           \/ \E f \in Fleets : \/ \E p \in Pos : Moves(f, p)
                                \/ Ambushed(f) \/ OpensBox(f)
           \/ \E G \in SUBSET Fleets : Retreats(G)
           \/ UNCHANGED vars
  BY <1>4, PeacefulSteps, PeacefulKeepsBooks
<1> QED BY <1>1, <1>2, <1>3, <1>4, Zenon DEF Next

-----------------------------------------------------------------------------
(* The map.                                                                *)

(* The boxes of the sortie that are left to open.                          *)
BoxesLeft == IF sortie = NoRow THEN {} ELSE OpenBoxes(sortie.cells)

(* The bounds of the model.                                                *)
Bounded == faults <= MaxFaults /\ battles <= MaxBattles

(* The map of the sortie is one, and no beaten boss goes uncounted.        *)
MapOK ==
  sortie # NoRow =>
    /\ CellsOK(sortie.cells, sortie.kills) /\ sortie.kills <= kills
    /\ Where(sortie.cells, BeatenBosses) # {} => bosses > 0

(* Every sortie has the boxes it has opened and those that are left.       *)
BoxesOK ==
  /\ sorties \in Nat /\ found \in Nat
  /\ found + Cardinality(BoxesLeft) <= sorties * Cardinality(BoxPos) + faults

(* What is inductive: the books, and the map they are about.               *)
IInv ==
  Books /\ TypeOK /\ Bounded /\ MapOK /\ BoxesOK /\ ClearStarNeedsBoss

(* What the invariant says of the types.                                   *)
LEMMA Known ==
  ASSUME IInv
  PROVE  /\ battles \in Nat /\ faults \in Nat /\ kills \in Nat /\ bosses \in Nat
         /\ faults <= MaxFaults /\ battles <= MaxBattles
         /\ sortie \in Sortie \cup {NoRow}
         /\ battle \in [exp : Exp, by : Fleets] \cup {NoRow}
         /\ progress \in Progress
BY DEF IInv, Books, Numbers, Bounded, TypeOK

(* A step that leaves the progress and the kills alone.                    *)
LEMMA MapStep ==
  ASSUME IInv, Books', UNCHANGED <<progress, kills, bosses>>,
         battle' \in [exp : Exp, by : Fleets] \cup {NoRow}, Bounded',
         sortie' \in Sortie \cup {NoRow}, MapOK', BoxesOK'
  PROVE  IInv'
<1>1. TypeOK'
  BY DEF IInv, TypeOK
<1>2. ClearStarNeedsBoss'
  BY DEF IInv, ClearStarNeedsBoss
<1> QED BY <1>1, <1>2 DEF IInv

(* No box is opened, unless the commander gives the sortie up.             *)
LEMMA BoxesKept ==
  ASSUME IInv, UNCHANGED <<sorties, found>>, faults' \in {faults, faults + 1},
         sortie' # NoRow => /\ sortie # NoRow
                            /\ OpenBoxes(sortie'.cells) = OpenBoxes(sortie.cells)
  PROVE  BoxesOK'
<1>1. Cardinality(BoxesLeft) \in Nat
  BY OpenBoxesIs, FS_EmptySet DEF BoxesLeft
<1>2. PICK n \in Nat : n = Cardinality(BoxesLeft)
  BY <1>1
<1>3. PICK owed \in Nat : owed = sorties * Cardinality(BoxPos)
  BY ConstantsAre DEF IInv, BoxesOK
<1>4. sorties \in Nat /\ found \in Nat /\ faults \in Nat
  BY Known DEF IInv, BoxesOK
<1>5. found + n <= owed + faults
  BY <1>2, <1>3 DEF IInv, BoxesOK
<1>6. \E m \in Nat : m = Cardinality(BoxesLeft') /\ m <= n
  <2>1. CASE sortie' = NoRow
    <3>1. BoxesLeft' = {}
      BY <2>1 DEF BoxesLeft
    <3>2. Cardinality(BoxesLeft') = 0
      BY <3>1, FS_EmptySet
    <3> QED BY <1>2, <3>2
  <2>2. CASE sortie' # NoRow
    <3>1. BoxesLeft' = BoxesLeft
      BY <2>2 DEF BoxesLeft
    <3> QED BY <1>2, <3>1
  <2> QED BY <2>1, <2>2
<1>7. PICK m \in Nat : m = Cardinality(BoxesLeft') /\ m <= n
  BY <1>6
<1>8. found + m <= owed + faults'
  BY <1>4, <1>5, <1>7
<1> QED BY <1>3, <1>4, <1>7, <1>8 DEF BoxesOK

(* The books are kept by every step.                                       *)
LEMMA BooksKept ==
  ASSUME IInv, Next
  PROVE  Books'
BY NextKeepsBooks DEF IInv

(* A new sortie has its first wave, no beaten boss, and one box in a       *)
(* place; the boxes of the one that it replaces are lost                   *)
(* (handle_chapter_tracking).                                              *)
LEMMA TracksKeeps ==
  ASSUME IInv, Tracks
  PROVE  IInv'
<1>1. Books'
  BY BooksKept DEF Next
<1>2. /\ sorties' = sorties + 1 /\ sortie' \in NewSorties
      /\ UNCHANGED <<battles, faults, found, battle, progress, kills, bosses>>
  BY DEF Tracks
<1>3. /\ sortie' \in Sortie /\ sortie'.kills = 0
      /\ CellsOK(sortie'.cells, sortie'.kills)
      /\ Where(sortie'.cells, BeatenBosses) = {}
  BY <1>2, NewSortiesAre
<1>4. Bounded' /\ battle' \in [exp : Exp, by : Fleets] \cup {NoRow}
  BY <1>2, Known DEF Bounded
<1>5. MapOK'
  <2>1. 0 <= kills'
    BY <1>2, Known
  <2> QED BY <1>3, <2>1 DEF MapOK
<1>6. BoxesOK'
  <2>1. Cardinality(BoxesLeft) \in Nat
    BY OpenBoxesIs, FS_EmptySet DEF BoxesLeft
  <2>2. /\ Cardinality(BoxesLeft') \in Nat
        /\ Cardinality(BoxesLeft') <= Cardinality(BoxPos)
    <3>1. CASE sortie' = NoRow
      <4>1. BoxesLeft' = {}
        BY <3>1 DEF BoxesLeft
      <4>2. Cardinality(BoxesLeft') = 0
        BY <4>1, FS_EmptySet
      <4> QED BY <4>2, ConstantsAre
    <3>2. CASE sortie' # NoRow
      <4>1. BoxesLeft' = OpenBoxes(sortie'.cells)
        BY <3>2 DEF BoxesLeft
      <4> QED BY <4>1, OpenBoxesIs
    <3> QED BY <3>1, <3>2
  <2>3. PICK n \in Nat, m \in Nat, B \in Nat :
          /\ n = Cardinality(BoxesLeft) /\ m = Cardinality(BoxesLeft')
          /\ B = Cardinality(BoxPos)
    BY <2>1, <2>2, ConstantsAre
  <2>4. sorties \in Nat /\ found \in Nat /\ faults \in Nat
    BY Known DEF IInv, BoxesOK
  <2>5. PICK owed \in Nat : owed = sorties * B
    BY <2>3, <2>4
  <2>6. m <= B /\ found + n <= owed + faults
    BY <2>2, <2>3, <2>5 DEF IInv, BoxesOK
  <2>7. (sorties + 1) * B = owed + B
    BY <2>4, <2>5
  <2>8. found + m <= (owed + B) + faults
    BY <2>4, <2>6
  <2> QED BY <1>2, <2>3, <2>4, <2>7, <2>8 DEF BoxesOK
<1> QED BY <1>1, <1>2, <1>3, <1>4, <1>5, <1>6, MapStep

WithFleets(s, F) == [s EXCEPT !.fleets = F]

(* A sortie with its groups elsewhere.                                     *)
LEMMA WithFleetsIs ==
  ASSUME NEW s \in Sortie, NEW F \in Placing
  PROVE  /\ WithFleets(s, F) \in Sortie /\ WithFleets(s, F).fleets = F
         /\ WithFleets(s, F).cells = s.cells /\ WithFleets(s, F).kills = s.kills
BY DEF WithFleets, Sortie

Relocated(F, f, p) == [F EXCEPT ![f] = p]

(* The places of the groups.                                               *)
LEMMA FleetsAre ==
  ASSUME NEW F \in Placing
  PROVE  /\ DOMAIN F \subseteq Fleets /\ DOMAIN F # {}
         /\ \A f \in DOMAIN F : F[f] \in Pos
         /\ \A f \in DOMAIN F, p \in Pos : Relocated(F, f, p) \in Placing
<1>1. PICK G \in (SUBSET Fleets) \ {{}} : F \in [G -> Pos]
  BY DEF Placing
<1>2. ASSUME NEW f \in DOMAIN F, NEW p \in Pos PROVE Relocated(F, f, p) \in [G -> Pos]
  BY <1>1 DEF Relocated
<1> QED BY <1>1, <1>2 DEF Placing

(* The map of the sortie that is going on.                                 *)
LEMMA MapIs ==
  ASSUME IInv, sortie # NoRow
  PROVE  /\ sortie \in Sortie /\ sortie.kills \in Nat /\ sortie.kills <= kills
         /\ CellsOK(sortie.cells, sortie.kills) /\ sortie.cells \in Seq(Cell)
         /\ CellsBase(sortie.cells, sortie.kills)
         /\ WavesCame(sortie.cells, sortie.kills)
         /\ Where(sortie.cells, BeatenBosses) # {} => bosses > 0
         /\ sortie.fleets \in Placing
         /\ \A i \in DOMAIN sortie.cells :
              sortie.cells[i] \in Cell /\ InPlace(sortie.cells[i])
BY Known, SortieIs, WhereIs DEF IInv, MapOK, CellsOK, CellsBase

(* A step on the map: the same waves and beaten bosses.                    *)
LEMMA MapKept ==
  ASSUME IInv, Next, sortie # NoRow,
         UNCHANGED <<counts, found, fights>>, sortie' \in Sortie,
         sortie'.kills = sortie.kills, CellsOK(sortie'.cells, sortie.kills),
         OpenBoxes(sortie'.cells) = OpenBoxes(sortie.cells),
         Where(sortie'.cells, BeatenBosses) = {}
           <=> Where(sortie.cells, BeatenBosses) = {}
  PROVE  IInv'
<1>1. UNCHANGED <<battle, progress, battles, kills, bosses, sorties, faults, found>>
  BY Zenon DEF counts, fights
<1>2. Books'
  BY BooksKept
<1>3. MapOK'
  BY <1>1, MapIs DEF MapOK
<1>4. BoxesOK'
  BY <1>1, BoxesKept
<1>5. Bounded' /\ battle' \in [exp : Exp, by : Fleets] \cup {NoRow}
  BY <1>1, Known DEF Bounded
<1> QED BY <1>1, <1>2, <1>3, <1>4, <1>5, MapStep

(* An ambush is an enemy that is not beaten.                               *)
LEMMA AmbushIs ==
  ASSUME NEW p \in Pos, NEW e \in AmbushExp
  PROVE  /\ Ambush(p, e) \in Cell /\ Ambush(p, e).kind = "ambush"
         /\ Ambush(p, e).exp \in Exp /\ ~Beaten(Ambush(p, e))
         /\ InPlace(Ambush(p, e))
BY DEF Ambush, Cell, Exp, Enemy, Beaten, InPlace

(* A move, with or without an ambush on the way.                           *)
LEMMA MovesKeeps ==
  ASSUME IInv, NEW f \in Fleets, NEW to \in Pos, Moves(f, to)
  PROVE  IInv'
<1> DEFINE m == WithFleets(sortie, Relocated(sortie.fleets, f, to))
<1>1. /\ sortie # NoRow /\ f \in DOMAIN sortie.fleets
      /\ UNCHANGED <<counts, found, fights>>
      /\ \/ sortie' = m
         \/ \E e \in AmbushExp :
              sortie' = WithCells(m, Append(m.cells, Ambush(to, e)))
  BY Zenon DEF Moves, WithFleets, WithCells, Relocated
<1>2. Next
  BY DEF Next
<1>3. /\ m \in Sortie /\ m.cells = sortie.cells /\ m.kills = sortie.kills
  BY <1>1, MapIs, FleetsAre, WithFleetsIs
<1> HIDE DEF m
<1>4. CASE sortie' = m
  BY <1>1, <1>2, <1>3, <1>4, MapIs, MapKept
<1>5. ASSUME NEW e \in AmbushExp,
             sortie' = WithCells(m, Append(m.cells, Ambush(to, e)))
      PROVE  IInv'
  <2> DEFINE x == Ambush(to, e)
             d == Append(sortie.cells, x)
  <2>1. x \in Cell /\ x.kind = "ambush" /\ x.exp \in Exp /\ ~Beaten(x)
    BY AmbushIs
  <2> HIDE DEF x
  <2>2. /\ CellsOK(d, sortie.kills) /\ OpenBoxes(d) = OpenBoxes(sortie.cells)
        /\ Where(d, BeatenBosses) = Where(sortie.cells, BeatenBosses)
    BY <1>1, <2>1, MapIs, AppendKeeps
  <2>3. d \in Seq(Cell) /\ sortie' = WithCells(m, d)
    BY <1>3, <1>5, <2>2 DEF CellsOK, CellsBase, x
  <2> HIDE DEF d
  <2>4. sortie' \in Sortie /\ sortie'.cells = d /\ sortie'.kills = sortie.kills
    BY <1>3, <2>3, WithCellsIs
  <2> QED BY <1>1, <1>2, <2>2, <2>4, MapKept
<1> QED BY <1>1, <1>4, <1>5

(* An ambush is escaped, and goes, or has to be fought.                    *)
LEMMA AmbushedKeeps ==
  ASSUME IInv, NEW f \in Fleets, Ambushed(f)
  PROVE  IInv'
<1> DEFINE c == sortie.cells
<1>1. PICK i : /\ i = At(sortie, sortie.fleets[f])
               /\ i # 0 /\ c[i].kind = "ambush"
               /\ \/ sortie' = WithCells(sortie, RemoveAt(c, i))
                  \/ sortie' = WithCells(sortie, Put(c, i, Flagged(c[i], "active")))
  BY Zenon DEF Ambushed, WithCells, Put, Flagged
<1>2. sortie # NoRow /\ UNCHANGED <<counts, found, fights>> /\ Next
  BY Zenon DEF Ambushed, Next
<1>3. /\ i \in DOMAIN c /\ c[i] \in Cell /\ InPlace(c[i]) /\ c \in Seq(Cell)
      /\ CellsOK(c, sortie.kills) /\ CellsBase(c, sortie.kills)
      /\ WavesCame(c, sortie.kills) /\ sortie \in Sortie /\ sortie.kills \in Nat
  BY <1>1, <1>2, MapIs, AtIs
<1>4. \E d \in Seq(Cell) :
        /\ sortie' = WithCells(sortie, d) /\ CellsOK(d, sortie.kills)
        /\ OpenBoxes(d) = OpenBoxes(c)
        /\ Where(d, BeatenBosses) = {} <=> Where(c, BeatenBosses) = {}
  <2> HIDE DEF c
  <2>1. CASE sortie' = WithCells(sortie, RemoveAt(c, i))
    <3>1. /\ CellsOK(RemoveAt(c, i), sortie.kills)
          /\ OpenBoxes(RemoveAt(c, i)) = OpenBoxes(c)
          /\ Where(RemoveAt(c, i), BeatenBosses) = {}
               <=> Where(c, BeatenBosses) = {}
      BY <1>1, <1>3, RemoveKeeps
    <3>2. RemoveAt(c, i) \in Seq(Cell)
      BY <3>1 DEF CellsOK, CellsBase
    <3> QED BY <2>1, <3>1, <3>2
  <2>2. CASE sortie' = WithCells(sortie, Put(c, i, Flagged(c[i], "active")))
    <3> DEFINE x == Flagged(c[i], "active")
               d == Put(c, i, x)
    <3>1. /\ x \in Cell /\ x.kind = "ambush" /\ ~Beaten(x) /\ InPlace(x)
      BY <1>1, <1>3, FlaggedIs DEF Beaten
    <3> HIDE DEF x
    <3>2. /\ Where(d, EnemyCells) = Where(c, EnemyCells)
          /\ Where(d, BossCells) = Where(c, BossCells)
          /\ Where(d, BeatenBosses) = Where(c, BeatenBosses)
      <4>1. /\ x \notin EnemyCells /\ c[i] \notin EnemyCells
            /\ x \notin BossCells /\ c[i] \notin BossCells
            /\ x \notin BeatenBosses /\ c[i] \notin BeatenBosses
        BY <1>1, <3>1 DEF EnemyCells, BossCells, BeatenBosses
      <4> QED BY <1>3, <3>1, <4>1, ReplaceWhere DEF Put
    <3>3. Cardinality(Where(d, BeatenCells)) <= sortie.kills
      <4>1. x \notin BeatenCells
        BY <3>1 DEF BeatenCells
      <4>2. Cardinality(Where(d, BeatenCells)) <= Cardinality(Where(c, BeatenCells))
        BY <1>3, <3>1, <4>1, ReplaceLess DEF Put
      <4>3. /\ Cardinality(Where(d, BeatenCells)) \in Nat
            /\ Cardinality(Where(c, BeatenCells)) \in Nat
        BY <1>3, <3>1, PutIs, WhereIs
      <4>4. Cardinality(Where(c, BeatenCells)) <= sortie.kills
        BY <1>3 DEF CellsBase
      <4> QED BY <1>3, <4>2, <4>3, <4>4
    <3>4. CellsBase(d, sortie.kills) /\ OpenBoxes(d) = OpenBoxes(c)
      BY <1>1, <1>3, <3>1, <3>3, ReplaceKeeps DEF Put
    <3>5. d \in Seq(Cell) /\ sortie' = WithCells(sortie, d)
      BY <2>2, <3>4 DEF CellsBase, x
    <3> HIDE DEF d
    <3>6. WavesCame(d, sortie.kills)
      BY <1>3, <3>2, Zenon DEF WavesCame
    <3>7. CellsOK(d, sortie.kills)
      BY <3>4, <3>6 DEF CellsOK
    <3> QED BY <3>2, <3>4, <3>5, <3>7
  <2> QED BY <1>1, <2>1, <2>2
<1>5. PICK d \in Seq(Cell) :
        /\ sortie' = WithCells(sortie, d) /\ CellsOK(d, sortie.kills)
        /\ OpenBoxes(d) = OpenBoxes(c)
        /\ Where(d, BeatenBosses) = {} <=> Where(c, BeatenBosses) = {}
  BY <1>4
<1>6. sortie' \in Sortie /\ sortie'.cells = d /\ sortie'.kills = sortie.kills
  BY <1>3, <1>5, WithCellsIs
<1> QED BY <1>2, <1>5, <1>6, MapKept

(* A box that has gone from the map, open or an ambush now.                *)
LEMMA BoxGone ==
  ASSUME IInv, sortie # NoRow, NEW i \in DOMAIN sortie.cells, NEW x \in Cell,
         sortie.cells[i].kind = "box", ~Beaten(sortie.cells[i]), InPlace(x),
         x.kind = "box" => Beaten(x) /\ x.at = sortie.cells[i].at,
         x.kind \in {"box", "ambush"}, x.kind = "ambush" => ~Beaten(x),
         NEW t, t = WithCells(sortie, Put(sortie.cells, i, x))
  PROVE  /\ t \in Sortie /\ t.kills = sortie.kills
         /\ CellsOK(t.cells, sortie.kills)
         /\ Cardinality(OpenBoxes(t.cells))
              = Cardinality(OpenBoxes(sortie.cells)) - 1
         /\ Where(t.cells, BeatenBosses) = Where(sortie.cells, BeatenBosses)
<1> DEFINE c == sortie.cells
           d == Put(c, i, x)
<1>1. /\ c \in Seq(Cell) /\ c[i] \in Cell /\ InPlace(c[i])
      /\ CellsBase(c, sortie.kills) /\ WavesCame(c, sortie.kills)
      /\ sortie \in Sortie /\ i \in DOMAIN c /\ c[i].kind = "box" /\ ~Beaten(c[i])
  BY MapIs
<1>2. d \in Seq(Cell) /\ t = WithCells(sortie, d)
  BY <1>1, PutIs
<1> HIDE DEF c
<1>3. /\ x \notin EnemyCells /\ c[i] \notin EnemyCells
      /\ x \notin BossCells /\ c[i] \notin BossCells
      /\ x \notin BeatenBosses /\ c[i] \notin BeatenBosses
      /\ x \notin BeatenCells /\ c[i] \notin BeatenCells
  BY <1>1 DEF EnemyCells, BossCells, BeatenBosses, BeatenCells, Enemy
<1>4. /\ Where(d, EnemyCells) = Where(c, EnemyCells)
      /\ Where(d, BossCells) = Where(c, BossCells)
      /\ Where(d, BeatenBosses) = Where(c, BeatenBosses)
      /\ Where(d, BeatenCells) = Where(c, BeatenCells)
  BY <1>1, <1>3, ReplaceWhere DEF Put
<1>5. /\ CellsBase(d, sortie.kills)
      /\ Cardinality(OpenBoxes(d)) = Cardinality(OpenBoxes(c)) - 1
  <2>1. Cardinality(Where(d, BeatenCells)) <= sortie.kills
    BY <1>1, <1>4 DEF CellsBase
  <2>2. x.kind = "box" => c[i].kind = "box" /\ x.at = c[i].at
    BY <1>1 DEF c
  <2> QED BY <1>1, <2>1, <2>2, ReplaceKeeps DEF Put
<1> HIDE DEF d
<1>6. WavesCame(d, sortie.kills)
  BY <1>1, <1>4, Zenon DEF WavesCame
<1>7. t \in Sortie /\ t.cells = d /\ t.kills = sortie.kills
  BY <1>1, <1>2, WithCellsIs
<1> QED BY <1>4, <1>5, <1>6, <1>7 DEF CellsOK, c

(* A box: its effect, and then the map, which may not be saved; then the   *)
(* box is there once more, and one failure too.                            *)
LEMMA OpensBoxKeeps ==
  ASSUME IInv, NEW f \in Fleets, OpensBox(f)
  PROVE  IInv'
<1> DEFINE c == sortie.cells
<1>1. PICK i : i = At(sortie, sortie.fleets[f])
  OBVIOUS
<1>2. PICK open : open = WithCells(sortie, Put(c, i, Flagged(c[i], "disabled")))
  OBVIOUS
<1>3. /\ i # 0 /\ c[i].kind = "box" /\ ~Beaten(c[i])
      /\ \E effect \in BoxEffects, saved \in BOOLEAN :
            /\ found' = IF effect = "drop" THEN found + 1 ELSE found
            /\ IF saved
               THEN /\ UNCHANGED faults
                    /\ IF effect = "enemy"
                       THEN \E e \in AmbushExp :
                              sortie' = WithCells(sortie, Put(c, i, Ambush(c[i].at, e)))
                       ELSE sortie' = open
               ELSE /\ faults < MaxFaults /\ faults' = faults + 1
                    /\ UNCHANGED sortie
  BY <1>1, <1>2, Zenon DEF OpensBox, WithCells, Put, Flagged
<1>4. PICK effect \in BoxEffects, saved \in BOOLEAN :
        /\ i = At(sortie, sortie.fleets[f])
        /\ i # 0 /\ c[i].kind = "box" /\ ~Beaten(c[i])
        /\ found' = IF effect = "drop" THEN found + 1 ELSE found
        /\ IF saved
           THEN /\ UNCHANGED faults
                /\ IF effect = "enemy"
                   THEN \E e \in AmbushExp :
                          sortie' = WithCells(sortie, Put(c, i, Ambush(c[i].at, e)))
                   ELSE sortie' = WithCells(sortie, Put(c, i, Flagged(c[i], "disabled")))
           ELSE /\ faults < MaxFaults /\ faults' = faults + 1
                /\ UNCHANGED sortie
  BY <1>1, <1>2, <1>3, Zenon
<1>5. /\ sortie # NoRow /\ f \in DOMAIN sortie.fleets
      /\ UNCHANGED <<sorties, battle, progress, battles, kills, bosses>> /\ Next
  BY Zenon DEF OpensBox, Next, fights
<1>6. /\ i \in DOMAIN c /\ c[i] \in Cell /\ InPlace(c[i])
      /\ sortie \in Sortie /\ CellsOK(c, sortie.kills)
  BY <1>4, <1>5, MapIs, AtIs
<1>7. saved =>
        /\ sortie' \in Sortie /\ sortie'.kills = sortie.kills
        /\ CellsOK(sortie'.cells, sortie.kills)
        /\ Cardinality(OpenBoxes(sortie'.cells)) = Cardinality(OpenBoxes(c)) - 1
        /\ Where(sortie'.cells, BeatenBosses) = Where(c, BeatenBosses)
  <2> SUFFICES ASSUME saved
               PROVE  \E x \in Cell :
                        /\ sortie' = WithCells(sortie, Put(c, i, x))
                        /\ InPlace(x) /\ x.kind \in {"box", "ambush"}
                        /\ x.kind = "box" => Beaten(x) /\ x.at = c[i].at
                        /\ x.kind = "ambush" => ~Beaten(x)
    BY <1>4, <1>5, <1>6, BoxGone
  <2>1. CASE effect = "enemy"
    <3>1. PICK e \in AmbushExp :
            sortie' = WithCells(sortie, Put(c, i, Ambush(c[i].at, e)))
      BY <1>4, <2>1
    <3>2. c[i].at \in Pos
      BY <1>6 DEF Cell
    <3>3. PICK x : x = Ambush(c[i].at, e)
      OBVIOUS
    <3>4. /\ x \in Cell /\ x.kind = "ambush" /\ ~Beaten(x) /\ InPlace(x)
      BY <3>2, <3>3, AmbushIs
    <3> QED BY <3>1, <3>3, <3>4
  <2>2. CASE effect # "enemy"
    <3>1. PICK x : x = Flagged(c[i], "disabled")
      OBVIOUS
    <3>2. sortie' = WithCells(sortie, Put(c, i, x))
      BY <1>4, <2>2, <3>1
    <3>3. /\ x \in Cell /\ x.kind = "box" /\ Beaten(x) /\ InPlace(x)
          /\ x.at = c[i].at
      BY <1>4, <1>6, <3>1, FlaggedIs DEF Beaten
    <3> QED BY <3>2, <3>3
  <2> QED BY <2>1, <2>2
<1>8. /\ faults \in Nat /\ faults' \in {faults, faults + 1} /\ faults' <= MaxFaults
      /\ saved => faults' = faults
      /\ ~saved => faults' = faults + 1
  BY <1>4, Known, ConstantsAre
<1>9. Books'
  BY <1>5, BooksKept
<1>10. sortie' \in Sortie /\ MapOK'
  <2>1. CASE saved
    <3>1. sortie' \in Sortie
      BY <1>7, <2>1
    <3>2. MapOK'
      BY <1>5, <1>7, <2>1, MapIs DEF MapOK
    <3> QED BY <3>1, <3>2
  <2>2. CASE ~saved
    <3>1. sortie' = sortie
      BY <1>4, <2>2
    <3> QED BY <1>5, <1>6, <3>1, MapIs DEF MapOK
  <2> QED BY <2>1, <2>2
<1>11. BoxesOK'
  <2>1. /\ Cardinality(OpenBoxes(c)) \in Nat
        /\ Cardinality(OpenBoxes(sortie'.cells)) \in Nat
        /\ Cardinality(BoxesLeft') \in {0, Cardinality(OpenBoxes(sortie'.cells))}
        /\ BoxesLeft = OpenBoxes(c)
    <3>1. Cardinality({}) = 0
      BY FS_EmptySet
    <3> QED BY <1>5, <3>1, OpenBoxesIs DEF BoxesLeft
  <2>2. PICK n \in Nat, m \in Nat, l \in Nat :
          /\ n = Cardinality(OpenBoxes(c))
          /\ l = Cardinality(OpenBoxes(sortie'.cells))
          /\ m = Cardinality(BoxesLeft') /\ m \in {0, l}
    BY <2>1
  <2>3. sorties \in Nat /\ found \in Nat
    BY DEF IInv, BoxesOK
  <2>4. PICK owed \in Nat : owed = sorties * Cardinality(BoxPos)
    BY <2>3, ConstantsAre
  <2>5. found + n <= owed + faults
    BY <2>1, <2>2, <2>4 DEF IInv, BoxesOK
  <2>6. found' \in Nat /\ found' <= found + 1
    BY <1>4, <2>3
  <2>7. CASE saved
    <3>1. l = n - 1
      BY <1>7, <2>2, <2>7
    <3>2. found' + m <= owed + faults'
      BY <1>8, <2>2, <2>3, <2>5, <2>6, <2>7, <3>1
    <3> QED BY <1>5, <2>2, <2>3, <2>4, <2>6, <3>2 DEF BoxesOK
  <2>8. CASE ~saved
    <3>1. l = n
      BY <1>4, <2>2, <2>8
    <3>2. found' + m <= owed + faults'
      BY <1>8, <2>2, <2>3, <2>5, <2>6, <2>8, <3>1
    <3> QED BY <1>5, <2>2, <2>3, <2>4, <2>6, <3>2 DEF BoxesOK
  <2> QED BY <2>7, <2>8
<1>12. Bounded' /\ battle' \in [exp : Exp, by : Fleets] \cup {NoRow}
  BY <1>5, <1>8, Known DEF Bounded
<1> QED BY <1>5, <1>9, <1>10, <1>11, <1>12, MapStep

(* Groups retreat; with the last one the sortie is over.                   *)
LEMMA RetreatsKeeps ==
  ASSUME IInv, NEW G \in SUBSET Fleets, Retreats(G)
  PROVE  IInv'
<1> DEFINE rest == DOMAIN sortie.fleets \ G
           F == [g \in rest |-> sortie.fleets[g]]
<1>1. /\ sortie # NoRow /\ UNCHANGED <<counts, found, fights>> /\ Next
      /\ sortie' = IF rest = {} THEN NoRow ELSE WithFleets(sortie, F)
  BY Zenon DEF Retreats, WithFleets, Next
<1>2. CASE rest = {}
  <2>1. sortie' = NoRow
    BY <1>1, <1>2
  <2>2. UNCHANGED <<battle, progress, battles, kills, bosses, sorties, faults, found>>
    BY <1>1, Zenon DEF counts, fights
  <2>3. Books' /\ BoxesOK' /\ MapOK'
    BY <1>1, <2>1, <2>2, BooksKept, BoxesKept DEF MapOK
  <2>4. Bounded' /\ battle' \in [exp : Exp, by : Fleets] \cup {NoRow}
    BY <2>2, Known DEF Bounded
  <2> QED BY <2>1, <2>2, <2>3, <2>4, MapStep
<1>3. CASE rest # {}
  <2>1. sortie' = WithFleets(sortie, F)
    BY <1>1, <1>3
  <2>2. F \in Placing
    <3>1. rest \subseteq Fleets /\ \A g \in rest : sortie.fleets[g] \in Pos
      BY <1>1, MapIs, FleetsAre
    <3>2. F \in [rest -> Pos]
      <4> HIDE DEF rest
      <4> QED BY <3>1
    <3> HIDE DEF rest, F
    <3> QED BY <1>3, <3>1, <3>2 DEF Placing
  <2> HIDE DEF rest, F
  <2>3. /\ sortie' \in Sortie /\ sortie'.cells = sortie.cells
        /\ sortie'.kills = sortie.kills
    BY <1>1, <2>1, <2>2, MapIs, WithFleetsIs
  <2> QED BY <1>1, <2>3, MapIs, MapKept
<1> QED BY <1>2, <1>3

(* A step that leaves the map and its boxes alone.                         *)
LEMMA SameMapKept ==
  ASSUME IInv, Next,
         UNCHANGED <<sortie, progress, kills, bosses, sorties, found>>,
         battle' \in [exp : Exp, by : Fleets] \cup {NoRow}, Bounded',
         faults' \in {faults, faults + 1}
  PROVE  IInv'
<1>1. Books'
  BY BooksKept
<1>2. MapOK'
  BY DEF IInv, MapOK
<1>3. BoxesOK'
  BY BoxesKept
<1>4. sortie' \in Sortie \cup {NoRow}
  BY Known
<1> QED BY <1>1, <1>2, <1>3, <1>4, MapStep

(* A battle begins.                                                        *)
LEMMA BeginsKeeps ==
  ASSUME IInv, NEW f \in Fleets, Begins(f)
  PROVE  IInv'
<1>1. /\ Next /\ battles < MaxBattles /\ battles' = battles + 1
      /\ battle' \in [exp : Exp, by : {f}]
      /\ UNCHANGED <<sortie, progress, kills, bosses, sorties, faults, found>>
  BY DEF Begins, Next
<1>2. battle' \in [exp : Exp, by : Fleets]
  BY <1>1
<1>3. Bounded'
  BY <1>1, Known, ConstantsAre DEF Bounded
<1> QED BY <1>1, <1>2, <1>3, SameMapKept

(* A battle is left.                                                       *)
LEMMA QuitsKeeps ==
  ASSUME IInv, Quits
  PROVE  IInv'
<1>1. /\ Next /\ battle' = NoRow
      /\ UNCHANGED <<sortie, progress, battles, kills, bosses, sorties, faults, found>>
  BY Zenon DEF Quits, Next, counts
<1>2. Bounded'
  BY <1>1, Known DEF Bounded
<1> QED BY <1>1, <1>2, SameMapKept

(* A star comes when it is asked for, and the one for a chapter without    *)
(* enemies when there are none.                                            *)
LEMMA StarsAre ==
  ASSUME NEW p \in Progress, \A i \in DOMAIN Stars : p.star[i] <= Stars[i][2],
         NEW s, NEW cell, NEW q, q = Progressed(p, s, cell)
  PROVE  /\ q.star \in [DOMAIN Stars -> Nat]
         /\ \A i \in DOMAIN Stars :
              /\ q.star[i] <= Stars[i][2]
              /\ Stars[i][1] = "clear" /\ q.star[i] > 0 =>
                   p.star[i] > 0 \/ Unbeaten(s, Enemy) = {}
<1> DEFINE Lit(what) == CASE what = "boss" -> cell.exp \in BossExp
                          [] what = "enemy" -> cell.kind = "enemy"
                          [] what = "clear" -> IsCleared(s)
           star(i) == IF Lit(Stars[i][1]) THEN Starred(p.star[i], Stars[i][2])
                      ELSE p.star[i]
<1>1. q.star = [i \in DOMAIN Stars |-> star(i)]
  BY DEF Progressed
<1>2. Lit("clear") => Unbeaten(s, Enemy) = {}
  BY DEF IsCleared
<1>3. p.star \in [DOMAIN Stars -> Nat]
  BY DEF Progress
<1>4. ASSUME NEW i \in DOMAIN Stars
      PROVE  /\ star(i) \in Nat /\ star(i) <= Stars[i][2]
             /\ Stars[i][1] = "clear" /\ star(i) > 0 =>
                  p.star[i] > 0 \/ Unbeaten(s, Enemy) = {}
  <2>1. /\ p.star[i] \in Nat /\ Stars[i][2] \in Nat
        /\ p.star[i] <= Stars[i][2]
    BY <1>3, ConstantsAre
  <2> HIDE DEF Lit
  <2>2. CASE Lit(Stars[i][1])
    <3>1. star(i) = Starred(p.star[i], Stars[i][2])
      BY <2>2
    <3>2. Stars[i][1] = "clear" => Unbeaten(s, Enemy) = {}
      BY <1>2, <2>2
    <3> HIDE DEF star
    <3> QED BY <2>1, <3>1, <3>2 DEF Starred
  <2>3. CASE ~Lit(Stars[i][1])
    <3>1. star(i) = p.star[i]
      BY <2>3
    <3> HIDE DEF star
    <3> QED BY <2>1, <3>1
  <2> QED BY <2>2, <2>3
<1> HIDE DEF star
<1> QED BY <1>1, <1>4

(* The progress after a battle is one.                                     *)
LEMMA ProgressTyped ==
  ASSUME NEW p \in Progress, \A i \in DOMAIN Stars : p.star[i] <= Stars[i][2],
         NEW s, NEW cell, NEW q, q = Progressed(p, s, cell)
  PROVE  q \in Progress
<1> DEFINE boss == cell.exp \in BossExp
           bar == IF boss THEN Min({p.bar + ProgressBoss, 100}) ELSE p.bar
           pass == boss /\ bar = 100
           starred == p.starred \/ \A i \in DOMAIN Stars : q.star[i] >= Stars[i][2]
           cleared == p.cleared \/ (pass /\ p.passes = 0)
<1>1. q = [bar |-> bar, star |-> q.star,
           passes |-> p.passes + Count(pass), defeats |-> p.defeats + Count(boss),
           starred |-> starred, cleared |-> cleared]
  BY DEF Progressed
<1>2. q.star \in [DOMAIN Stars -> Nat]
  BY StarsAre
<1>3. /\ p.bar \in 0..100 /\ p.passes \in Nat /\ p.defeats \in Nat
      /\ p.starred \in BOOLEAN /\ p.cleared \in BOOLEAN
  BY DEF Progress
<1>4. bar \in 0..100
  <2>1. ProgressBoss \in 1..100
    BY ConstantsAre
  <2>2. PICK a \in Nat : a = p.bar + ProgressBoss
    BY <1>3, <2>1
  <2>3. a \in Int /\ 100 \in Int
    OBVIOUS
  <2>4. Min({a, 100}) \in {a, 100} /\ Min({a, 100}) <= 100
    BY <2>3, OfTwo
  <2>5. bar = IF boss THEN Min({a, 100}) ELSE p.bar
    BY <2>2
  <2> HIDE DEF bar
  <2> QED BY <1>3, <2>4, <2>5
<1>5. starred \in BOOLEAN /\ cleared \in BOOLEAN
  BY <1>3, Zenon
<1>6. p.passes + Count(pass) \in Nat /\ p.defeats + Count(boss) \in Nat
  BY <1>3 DEF Count
<1> HIDE DEF boss, bar, pass, starred, cleared
<1> QED BY <1>1, <1>2, <1>3, <1>4, <1>5, <1>6 DEF Progress

(* Nobody left to fight on a map with all its waves: its boss is beaten.   *)
LEMMA ClearMeansBoss ==
  ASSUME NEW s \in Sortie, CellsOK(s.cells, s.kills), Unbeaten(s, Enemy) = {}
  PROVE  Where(s.cells, BeatenBosses) # {}
<1>1. Unbeaten(s, {"enemy", "boss"}) \subseteq Unbeaten(s, Enemy)
  BY DEF Unbeaten, OfKind, Enemy
<1> QED BY <1>1, SomebodyIsThere

(* A settlement, whichever statement fails: the map after it has its       *)
(* waves and counts its bosses, and a star for a chapter without enemies   *)
(* comes with a beaten boss.                                               *)
LEMMA SettlesKeeps ==
  ASSUME IInv, Next, sortie # NoRow, battle # NoRow,
         NEW i \in Unbeaten(sortie, Enemy), NEW s \in AfterWave(Beat(i)),
         NEW done \in Done, Settles(i, s, done),
         UNCHANGED <<sorties, battles, found>>
  PROVE  IInv'
<1> DEFINE cell == sortie.cells[i]
<1>1. PICK boss : boss = Count(cell.exp \in BossExp)
  OBVIOUS
<1>2. PICK q : q = Progressed(progress, s, cell)
  OBVIOUS
<1>3. /\ IF done = "ended" THEN UNCHANGED faults
         ELSE faults < MaxFaults /\ faults' = faults + 1
      /\ IF done = "unsaved" THEN UNCHANGED <<sortie, kills, bosses>>
         ELSE sortie' = s /\ kills' = kills + 1 /\ bosses' = bosses + boss
      /\ progress' = IF CountsProgress(done) THEN q ELSE progress
      /\ battle' = IF EndsBattle(done) THEN NoRow ELSE battle
  BY <1>1, <1>2, Zenon DEF Settles
<1>4. /\ boss \in 0..1 /\ (cell.exp \in BossExp => boss = 1)
  BY <1>1 DEF Count
<1>5. /\ sortie \in Sortie /\ CellsOK(sortie.cells, sortie.kills)
      /\ sortie.kills \in Nat /\ sortie.kills <= kills
      /\ Where(sortie.cells, BeatenBosses) # {} => bosses > 0
      /\ kills \in Nat /\ bosses \in Nat /\ faults \in Nat /\ battles \in Nat
  BY MapIs, Known
<1>6. sortie.kills + 1 <= MaxKills
  <2>1. kills + 1 <= battles + faults
    BY DEF IInv, Books, OneKillLeft, Count
  <2>2. faults <= MaxFaults /\ battles <= MaxBattles
    BY Known
  <2> QED BY <1>5, <2>1, <2>2, ConstantsAre DEF MaxKills
<1>7. /\ s \in Sortie /\ s.kills = sortie.kills + 1 /\ CellsOK(s.cells, s.kills)
      /\ OpenBoxes(s.cells) = OpenBoxes(sortie.cells)
      /\ cell.kind # "boss" =>
           Where(s.cells, BeatenBosses) = Where(sortie.cells, BeatenBosses)
      /\ cell.kind = "boss" => cell.exp \in BossExp
  <2>1. PICK b : b = Beat(i)
    OBVIOUS
  <2>2. /\ b \in Sortie /\ b.kills = sortie.kills + 1
        /\ CellsBase(b.cells, b.kills)
        /\ OpenBoxes(b.cells) = OpenBoxes(sortie.cells)
        /\ BossRefresh = 0 => Where(b.cells, BossCells) # {}
        /\ sortie.cells[i].kind # "boss" =>
             Where(b.cells, BeatenBosses) = Where(sortie.cells, BeatenBosses)
        /\ sortie.cells[i].kind = "boss" => sortie.cells[i].exp \in BossExp
    BY <1>5, <1>6, <2>1, BeatIs
  <2>3. s \in AfterWave(b)
    BY <2>1
  <2>4. /\ s \in Sortie /\ s.kills = b.kills /\ CellsOK(s.cells, s.kills)
        /\ OpenBoxes(s.cells) = OpenBoxes(b.cells)
        /\ Where(s.cells, BeatenBosses) = Where(b.cells, BeatenBosses)
    BY <2>2, <2>3, AfterWaveIs
  <2> QED BY <2>2, <2>4
<1> HIDE DEF cell
<1>8. Where(s.cells, BeatenBosses) # {} => bosses + boss > 0
  BY <1>4, <1>5, <1>7
<1>9. bosses' \in Nat /\ bosses' >= bosses
      /\ (done # "unsaved" => bosses' = bosses + boss)
  BY <1>3, <1>4, <1>5
<1>10. sortie' \in Sortie /\ MapOK'
  <2>1. CASE done = "unsaved"
    <3>1. UNCHANGED <<sortie, kills, bosses>>
      BY <1>3, <2>1
    <3> QED BY <1>5, <3>1 DEF MapOK
  <2>2. CASE done # "unsaved"
    <3>1. sortie' = s /\ kills' = kills + 1 /\ bosses' = bosses + boss
      BY <1>3, <2>2
    <3>2. s.kills <= kills + 1
      BY <1>5, <1>7
    <3> QED BY <1>7, <1>8, <3>1, <3>2 DEF MapOK
  <2> QED BY <2>1, <2>2
<1>11. faults' \in {faults, faults + 1} /\ Bounded'
  BY <1>3, <1>5, Known, ConstantsAre DEF Bounded
<1>12. BoxesOK'
  <2>1. OpenBoxes(sortie'.cells) = OpenBoxes(sortie.cells)
    BY <1>3, <1>7
  <2> QED BY <1>11, <2>1, BoxesKept
<1>13. battle' \in [exp : Exp, by : Fleets] \cup {NoRow}
  BY <1>3, Known
<1>14. /\ progress \in Progress
       /\ \A j \in DOMAIN Stars : progress.star[j] <= Stars[j][2]
       /\ ClearStarNeedsBoss
  BY DEF IInv, TypeOK
<1>15. /\ q \in Progress /\ q.star \in [DOMAIN Stars -> Nat]
       /\ \A j \in DOMAIN Stars :
            /\ q.star[j] <= Stars[j][2]
            /\ Stars[j][1] = "clear" /\ q.star[j] > 0 =>
                 progress.star[j] > 0 \/ Unbeaten(s, Enemy) = {}
  BY <1>2, <1>14, StarsAre, ProgressTyped
<1>16. TypeOK'
  <2>1. /\ progress' \in Progress
        /\ \A j \in DOMAIN Stars : progress'.star[j] <= Stars[j][2]
    BY <1>3, <1>14, <1>15
  <2> QED BY <1>10, <1>13, <2>1 DEF TypeOK
<1>17. ClearStarNeedsBoss'
  <2> SUFFICES ASSUME NEW j \in DOMAIN Stars, Stars[j][1] = "clear",
                      progress'.star[j] > 0
               PROVE  bosses' > 0
    BY DEF ClearStarNeedsBoss
  <2>1. CASE progress.star[j] > 0
    BY <1>5, <1>9, <1>14, <2>1 DEF ClearStarNeedsBoss
  <2>2. CASE ~(progress.star[j] > 0)
    <3>1. progress' = q /\ done # "unsaved"
      BY <1>3, <2>2 DEF CountsProgress
    <3>2. Unbeaten(s, Enemy) = {}
      BY <1>15, <2>2, <3>1
    <3> QED BY <1>7, <1>8, <1>9, <3>1, <3>2, ClearMeansBoss
  <2> QED BY <2>1, <2>2
<1>18. Books'
  BY BooksKept
<1> QED BY <1>10, <1>11, <1>12, <1>16, <1>17, <1>18 DEF IInv

(* A finished battle settles, or ends as it was.                           *)
LEMMA FinishesKeeps ==
  ASSUME IInv, NEW won \in BOOLEAN, Finishes(won)
  PROVE  IInv'
<1>1. battle # NoRow /\ UNCHANGED <<sorties, battles, found>> /\ Next
  BY DEF Finishes, Next
<1>2. CASE EndsAsItWas
  <2>1. /\ UNCHANGED <<sortie, progress, kills, bosses>>
        /\ \/ battle' = NoRow /\ UNCHANGED faults
           \/ faults < MaxFaults /\ faults' = faults + 1 /\ UNCHANGED battle
    BY <1>2, Zenon DEF EndsAsItWas
  <2>2. Bounded' /\ faults' \in {faults, faults + 1}
    BY <1>1, <2>1, Known, ConstantsAre DEF Bounded
  <2>3. battle' \in [exp : Exp, by : Fleets] \cup {NoRow}
    BY <2>1, Known
  <2> QED BY <1>1, <2>1, <2>2, <2>3, SameMapKept
<1>3. ASSUME sortie # NoRow, NEW i \in Targets, i # 0,
             NEW s \in AfterWave(Beat(i)), NEW done \in Done,
             Settles(i, s, done)
      PROVE  IInv'
  <2>1. i \in Unbeaten(sortie, Enemy)
    BY <1>3, MapIs, TargetsAre
  <2> QED BY <1>1, <1>3, <2>1, SettlesKeeps
<1>4. PICK i \in IF won /\ sortie # NoRow THEN Targets ELSE {0} :
        IF i = 0 THEN EndsAsItWas
        ELSE \E s \in AfterWave(Beat(i)), done \in Done : Settles(i, s, done)
  BY Zenon DEF Finishes
<1>5. CASE i = 0
  BY <1>2, <1>4, <1>5
<1>6. CASE i # 0
  <2>1. sortie # NoRow /\ i \in Targets
    BY <1>4, <1>6
  <2>2. PICK s \in AfterWave(Beat(i)), done \in Done : Settles(i, s, done)
    BY <1>4, <1>6
  <2> QED BY <1>3, <1>6, <2>1, <2>2
<1> QED BY <1>5, <1>6

(* No sortie, nothing found, no stars at the start.                        *)
LEMMA InitHolds ==
  ASSUME Init
  PROVE  IInv
<1>1. /\ sortie = NoRow /\ battle = NoRow /\ sorties = 0 /\ battles = 0
      /\ faults = 0 /\ found = 0
      /\ progress = [bar |-> 0, passes |-> 0, defeats |-> 0,
                     star |-> [i \in DOMAIN Stars |-> 0],
                     starred |-> FALSE, cleared |-> FALSE]
  BY DEF Init
<1>2. progress \in Progress /\ \A i \in DOMAIN Stars : progress.star[i] = 0
  BY <1>1 DEF Progress
<1>3. TypeOK
  BY <1>1, <1>2, ConstantsAre DEF TypeOK
<1>4. Bounded
  BY <1>1, ConstantsAre DEF Bounded
<1>5. MapOK
  BY <1>1 DEF MapOK
<1>6. BoxesOK
  <2>1. Cardinality(BoxesLeft) = 0
    BY <1>1, FS_EmptySet DEF BoxesLeft
  <2>2. 0 * Cardinality(BoxPos) = 0
    BY ConstantsAre
  <2> QED BY <1>1, <2>1, <2>2 DEF BoxesOK
<1>7. ClearStarNeedsBoss
  BY <1>2 DEF ClearStarNeedsBoss
<1> QED BY <1>3, <1>4, <1>5, <1>6, <1>7, BooksInit DEF IInv

(* Every step keeps the invariant.                                         *)
LEMMA NextKeeps ==
  ASSUME IInv, [Next]_vars
  PROVE  IInv'
<1>1. CASE Tracks
  BY <1>1, TracksKeeps
<1>2. CASE Quits
  BY <1>2, QuitsKeeps
<1>3. ASSUME NEW won \in BOOLEAN, Finishes(won)
      PROVE  IInv'
  BY <1>3, FinishesKeeps
<1>4. ASSUME NEW f \in Fleets, NEW p \in Pos, Moves(f, p)
      PROVE  IInv'
  BY <1>4, MovesKeeps
<1>5. ASSUME NEW f \in Fleets, Ambushed(f) \/ OpensBox(f) \/ Begins(f)
      PROVE  IInv'
  BY <1>5, AmbushedKeeps, OpensBoxKeeps, BeginsKeeps
<1>6. ASSUME NEW G \in SUBSET Fleets, Retreats(G)
      PROVE  IInv'
  BY <1>6, RetreatsKeeps
<1>7. CASE UNCHANGED vars
  <2>1. UNCHANGED <<sortie, battle, progress, sorties, battles, faults, kills,
                    bosses, found>>
    BY <1>7, Zenon DEF vars, counts
  <2>2. Books'
    BY <1>7, NextKeepsBooks DEF IInv
  <2>3. TypeOK' /\ Bounded' /\ MapOK'
    BY <2>1 DEF IInv, TypeOK, Bounded, MapOK
  <2>4. BoxesOK'
    BY <2>1, BoxesKept
  <2>5. ClearStarNeedsBoss'
    BY <2>1 DEF IInv, ClearStarNeedsBoss
  <2> QED BY <2>2, <2>3, <2>4, <2>5 DEF IInv
<1> QED BY <1>1, <1>2, <1>3, <1>4, <1>5, <1>6, <1>7, Zenon DEF Next

-----------------------------------------------------------------------------
(* Theorems.                                                               *)

(* The books agree in every state of every behaviour.                      *)
THEOREM BooksInvariance == Spec => []Books
BY BooksInit, NextKeepsBooks, PTL DEF Spec

(* One battle beats one enemy, and one more for each failure: whatever the *)
(* map, the waves, the targets and the statement that fails.               *)
THEOREM OneKillPerBattle == Spec => []OneEnemyPerBattle
<1>1. Books => OneEnemyPerBattle
  BY DEF Books, Numbers, OneKillLeft, OneEnemyPerBattle, Count
<1> QED BY <1>1, BooksInvariance, PTL

(* Loot is for enemies that were beaten, the progress for bosses, and both *)
(* announcements come once: exactly so while no statement has failed.      *)
THEOREM BooksAgree ==
  Spec => [](LootIsForKills /\ ProgressIsForBosses /\ AnnouncedOnce)
<1>1. Books => AnnouncedOnce
  BY DEF Books, Numbers, AnnouncedAfter, AnnouncedOnce, Count
<1>2. Books => LootIsForKills /\ ProgressIsForBosses
  BY DEF Books
<1> QED BY <1>1, <1>2, BooksInvariance, PTL

(* The invariant holds in every state of every behaviour.                  *)
THEOREM Invariance == Spec => []IInv
BY InitHolds, NextKeeps, PTL DEF Spec

(* The variables have their types: every cell of a map, every battle and   *)
(* the progress, with no star beyond what it asks for.                     *)
THEOREM TypeCorrect == Spec => []TypeOK
<1>1. IInv => TypeOK
  BY DEF IInv
<1> QED BY <1>1, Invariance, PTL

(* The star for a chapter without enemies is never lit before a boss is    *)
(* beaten, although the waves to come are not on the map                   *)
(* (_is_chapter_cleared).                                                  *)
THEOREM ClearStar == Spec => []ClearStarNeedsBoss
<1>1. IInv => ClearStarNeedsBoss
  BY DEF IInv
<1> QED BY <1>1, Invariance, PTL

(* What the commander has of a chapter was fought for, whichever           *)
(* statement of a settlement or of a box fails: loot, progress,            *)
(* announcements and boxes.                                                *)
THEOREM SpoilsFoughtFor == Spec => []SpoilsAreFoughtFor
<1>1. IInv => BoxesOpenOnce
  <2> SUFFICES ASSUME IInv PROVE BoxesOpenOnce
    OBVIOUS
  <2>1. Cardinality(BoxesLeft) \in Nat
    BY OpenBoxesIs, FS_EmptySet DEF BoxesLeft
  <2>2. /\ sorties \in Nat /\ found \in Nat /\ faults \in Nat
        /\ found + Cardinality(BoxesLeft)
             <= sorties * Cardinality(BoxPos) + faults
    BY Known DEF IInv, BoxesOK
  <2>3. PICK owed \in Nat : owed = sorties * Cardinality(BoxPos)
    BY <2>2, ConstantsAre
  <2> QED BY <2>1, <2>2, <2>3 DEF BoxesOpenOnce
<1> QED BY <1>1, Invariance, BooksAgree, PTL DEF SpoilsAreFoughtFor

(* A sortie can always be brought to its end: until its boss is beaten     *)
(* there is somebody to fight, for every map and table of waves that       *)
(* brings more enemies than were beaten (spawn_wave_cells).                *)
THEOREM SortieEnds == Spec => []SortieCanEnd
<1>1. IInv => SortieCanEnd
  <2> SUFFICES ASSUME IInv, sortie # NoRow,
                      ~ \E i \in OfKind(sortie, {"boss"}) : Beaten(sortie.cells[i])
               PROVE  Unbeaten(sortie, {"enemy", "boss"}) # {}
    BY DEF SortieCanEnd
  <2>1. sortie \in Sortie /\ CellsOK(sortie.cells, sortie.kills)
    BY MapIs
  <2>2. Where(sortie.cells, BeatenBosses) = {}
    BY DEF Where, BeatenBosses, OfKind
  <2> QED BY <2>1, <2>2, SomebodyIsThere
<1> QED BY <1>1, Invariance, PTL

=============================================================================
