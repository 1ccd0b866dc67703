------------------------------- MODULE Sorties -------------------------------
(***************************************************************************)
(* The sortie of one commander into a chapter (chapter/handlers.py and     *)
(* helpers.py, battle_session.py): one row with the map as it stands, one  *)
(* with the battle that is being fought, and one with the progress in the  *)
(* chapter.  The handlers are synchronous, so no packet of the commander   *)
(* comes between the statements of another; but every statement commits on *)
(* its own, and one that fails, or a process that stops, leaves what was   *)
(* written before it.                                                      *)
(*                                                                         *)
(* A position of the map is a model value, one step away from any other.   *)
(* Fuel, ammunition, damage, repairs, strategies, submarine strikes and    *)
(* the clock of a sortie are left out.                                     *)
(***************************************************************************)
EXTENDS Integers, Sequences, FiniteSets, FiniteSetsExt, SequencesExt

CONSTANTS
  Fleets,       \* the groups of the commander
  EnemyPos, BossPos, BoxPos, FreePos,   \* the grids of the chapter
  EnemyExp, AmbushExp, BossExp,         \* expeditions: who fights there
  BoxEffects,   \* subset of {"drop", "enemy", "other"}
  Waves,        \* Waves[k + 1]: enemies there shall have been after k kills
  BossRefresh,  \* kills after which the boss comes; 0: from the start
  ProgressBoss, \* progress per boss, in percent
  Stars,        \* the three objectives: <<what, how often>>
  DropsPerKill, \* loot of one enemy fleet
  NoRow,
  MaxSorties, MaxBattles, MaxAmbushes, MaxFaults   \* bounds of the model

Pos == EnemyPos \cup BossPos \cup BoxPos \cup FreePos
Exp == EnemyExp \cup AmbushExp \cup BossExp
Enemy == {"enemy", "boss", "ambush"}
Due(k) == IF k < Len(Waves) THEN Waves[k + 1] ELSE Waves[Len(Waves)]

(* What the chapters' data must give, for a sortie to have an end: before  *)
(* the boss is there, more enemies have come than have been beaten.        *)
SortiesAssumption ==
  /\ Waves \in Seq(Nat) /\ Waves # <<>> /\ BossRefresh \in Nat
  /\ \A k \in 1..(Len(Waves) - 1) : Waves[k] <= Waves[k + 1]
  /\ \A k \in 0..(BossRefresh - 1) : Due(k) > k
  /\ \A k \in 1..Len(Waves) : Waves[k] <= Cardinality(EnemyPos)
  /\ ProgressBoss \in 1..100 /\ BossPos # {} /\ BossPos \cap EnemyPos = {}
  /\ Fleets # {} /\ FreePos # {} /\ EnemyExp # {}
  /\ BossExp \cap (EnemyExp \cup AmbushExp) = {}
  /\ DropsPerKill \in Nat \ {0}
  /\ IsFiniteSet(EnemyPos) /\ IsFiniteSet(BoxPos)
  /\ \A i \in DOMAIN Stars : Stars[i][2] \in Nat
  /\ {MaxSorties, MaxBattles, MaxAmbushes, MaxFaults} \subseteq Nat
ASSUME SortiesAssumption

VARIABLES
  sortie,    \* chapter_states: the map, the groups and the kills, or NoRow
  battle,    \* battle_sessions: the stage and who fights, or NoRow
  progress,  \* chapter_progress
  (* ghosts *)
  sorties, battles, faults,
  kills, bosses,     \* enemy cells, and bosses, disabled for good
  loot,              \* drops granted for enemies
  found,             \* drops granted for boxes
  announced          \* emits of "chapter cleared" and of "all stars"

counts == <<sorties, battles, faults>>
fights == <<battle, progress, battles, kills, bosses, loot, announced>>
vars == <<sortie, battle, progress, counts, kills, bosses, loot, found,
          announced>>

Cell == [at : Pos, kind : Enemy \cup {"box"}, exp : Exp \cup {NoRow},
         flag : {"active", "disabled", "ambush"}]
NewCell(p, kind, exp) == [at |-> p, kind |-> kind, exp |-> exp, flag |-> "active"]
Ambush(p, exp) == [at |-> p, kind |-> "ambush", exp |-> exp, flag |-> "ambush"]
MaxKills == MaxBattles + MaxFaults
Count(happened) == IF happened THEN 1 ELSE 0

Placing == UNION {[F -> Pos] : F \in (SUBSET Fleets) \ {{}}}
Sortie == [cells : Seq(Cell), fleets : Placing, kills : 0..MaxKills]
Progress == [bar : 0..100, passes : Nat, defeats : Nat,
             star : [DOMAIN Stars -> Nat], starred : BOOLEAN, cleared : BOOLEAN]

TypeOK ==
  /\ sortie \in Sortie \cup {NoRow}
  /\ battle \in [exp : Exp, by : Fleets] \cup {NoRow}
  /\ progress \in Progress
  /\ \A i \in DOMAIN Stars : progress.star[i] <= Stars[i][2]

Init ==
  /\ sortie = NoRow /\ battle = NoRow
  /\ progress = [bar |-> 0, passes |-> 0, defeats |-> 0,
                 star |-> [i \in DOMAIN Stars |-> 0],
                 starred |-> FALSE, cleared |-> FALSE]
  /\ sorties = 0 /\ battles = 0 /\ faults = 0
  /\ kills = 0 /\ bosses = 0 /\ loot = 0 /\ found = 0
  /\ announced = [clear |-> 0, star |-> 0]

-----------------------------------------------------------------------------
(* The map.                                                                *)

At(s, p) == SelectInSeq(s.cells, LAMBDA c : c.at = p)
Beaten(c) == c.flag = "disabled"
OfKind(s, K) == {i \in DOMAIN s.cells : s.cells[i].kind \in K}
Positions(s, K) == {s.cells[i].at : i \in OfKind(s, K)}
Unbeaten(s, K) == {i \in OfKind(s, K) : ~Beaten(s.cells[i])}

(* k of the positions get an enemy of some expedition each.                *)
Squads(candidates, k) ==
  UNION {{[i \in 1..Cardinality(P) |-> NewCell(SetToSeq(P)[i], "enemy", e[i])] :
            e \in [1..Cardinality(P) -> EnemyExp]} :
         P \in {Q \in SUBSET candidates : Cardinality(Q) = k}}
Bosses(candidates) ==
  {<<NewCell(p, "boss", e)>> : p \in candidates, e \in BossExp}

(* Mutant: the kill that has just been made is not counted.                *)
Missing_Lags(s) == Due(s.kills - 1) - Cardinality(OfKind(s, {"enemy"}))

Missing(s) == Due(s.kills) - Cardinality(OfKind(s, {"enemy"}))

(* Where neither an enemy nor the boss stands or has stood.                *)
Free(s, grids) == grids \ Positions(s, {"enemy", "boss"})
Coming(s) == Max({0, Min({Missing(s), Cardinality(Free(s, EnemyPos))})})
BossComes(s) ==
  /\ BossRefresh > 0 /\ s.kills >= BossRefresh
  /\ OfKind(s, {"boss"}) = {} /\ Free(s, BossPos) # {}
Reinforced(s, enemies, boss) == [s EXCEPT !.cells = @ \o enemies \o boss]

(* spawn_wave_cells: up to the number due, and the boss; where they come   *)
(* an ambush may be.                                                       *)
AfterWave(s) ==
  {Reinforced(s, new, b) :
     new \in Squads(Free(s, EnemyPos), Coming(s)),
     b \in IF BossComes(s) THEN Bosses(Free(s, BossPos)) ELSE {<<>>}}

(* build_current_chapter_info and build_initial_chapter_cells.             *)
Drawn(enemies, boss, start) ==
  [cells |-> SetToSeq({NewCell(p, "box", NoRow) : p \in BoxPos})
               \o enemies \o boss,
   fleets |-> start, kills |-> 0]
NewSorties ==
  {Drawn(new, b, start) :
     new \in Squads(EnemyPos, Waves[1]),
     b \in IF BossRefresh = 0 THEN Bosses(BossPos) ELSE {<<>>},
     start \in [Fleets -> FreePos]}

(* handle_chapter_tracking: one row per commander, so that a sortie that   *)
(* was going on is replaced.                                               *)
Tracks ==
  /\ sorties < MaxSorties /\ sorties' = sorties + 1
  /\ sortie' \in NewSorties
  /\ UNCHANGED <<battles, faults, found, battle, progress, kills, bosses, loot,
                 announced>>

(* CHAPTER_OP_MOVE, with maybe_trigger_chapter_ambush on a cell that has   *)
(* nothing on it, and CHAPTER_OP_SUB_TELEPORT.  A fleet may come to stand  *)
(* where another is: a submarine, any group that is teleported, or one     *)
(* that an ambush stops on its way.                                        *)
Moves(f, to) ==
  /\ sortie # NoRow /\ f \in DOMAIN sortie.fleets
  /\ LET s == [sortie EXCEPT !.fleets[f] = to] IN
       \/ sortie' = s
       \/ /\ At(s, to) = 0 /\ Cardinality(OfKind(s, {"ambush"})) < MaxAmbushes
          /\ \E e \in AmbushExp : sortie' =
               [s EXCEPT !.cells = Append(@, Ambush(to, e))]
  /\ UNCHANGED <<counts, found, fights>>

(* CHAPTER_OP_AMBUSH: the fleet gets away, or has to fight.                *)
Ambushed(f) ==
  /\ sortie # NoRow /\ f \in DOMAIN sortie.fleets
  /\ LET i == At(sortie, sortie.fleets[f]) IN
       /\ i # 0 /\ sortie.cells[i].kind = "ambush"
       /\ \/ sortie' = [sortie EXCEPT !.cells = RemoveAt(@, i)]
          \/ sortie' = [sortie EXCEPT !.cells[i].flag = "active"]
  /\ UNCHANGED <<counts, found, fights>>

(* Act 2: the box takes effect, and then the map is saved, or is not.      *)
OpensBox(f) ==
  /\ sortie # NoRow /\ f \in DOMAIN sortie.fleets
  /\ LET i == At(sortie, sortie.fleets[f])
         open == [sortie EXCEPT !.cells[i].flag = "disabled"] IN
       /\ i # 0 /\ sortie.cells[i].kind = "box" /\ ~Beaten(sortie.cells[i])
       /\ \E effect \in BoxEffects, saved \in BOOLEAN :
            /\ found' = IF effect = "drop" THEN found + 1 ELSE found
            /\ IF saved
               THEN /\ UNCHANGED faults
                    /\ IF effect = "enemy"
                       THEN \E e \in AmbushExp : sortie' =
                              [sortie EXCEPT !.cells[i] =
                                 Ambush(sortie.cells[i].at, e)]
                       ELSE sortie' = open
               ELSE /\ faults < MaxFaults /\ faults' = faults + 1
                    /\ UNCHANGED sortie
  /\ UNCHANGED <<sorties, fights>>

(* CHAPTER_OP_RETREAT, of one group or of all (group 0).                   *)
Retreats(G) ==
  /\ sortie # NoRow /\ G \subseteq DOMAIN sortie.fleets /\ G # {}
  /\ Cardinality(G) = 1 \/ G = DOMAIN sortie.fleets
  /\ LET rest == DOMAIN sortie.fleets \ G IN
       sortie' = IF rest = {} THEN NoRow
                 ELSE [sortie EXCEPT !.fleets = [g \in rest |-> @[g]]]
  /\ UNCHANGED <<counts, found, fights>>

-----------------------------------------------------------------------------
(* Battles.                                                                *)

(* handle_begin_stage: one row per commander, for the stage and the ships  *)
(* that the packet names, wherever they are, with a sortie or without.     *)
Begins(f) ==
  /\ battles < MaxBattles /\ battles' = battles + 1
  /\ battle' \in [exp : Exp, by : {f}]
  /\ UNCHANGED <<sorties, faults, found, sortie, progress, kills, bosses, loot,
                 announced>>

(* handle_quit_battle.                                                     *)
Quits ==
  /\ battle # NoRow /\ battle' = NoRow
  /\ UNCHANGED <<counts, found, sortie, progress, kills, bosses, loot,
                 announced>>

(* _disable_chapter_cell_by_expedition_proto: the enemy under the fleet    *)
(* that fought (or under the first one, when it is gone), else the first   *)
(* one of that expedition anywhere.                                        *)
Targets ==
  LET matches == {i \in Unbeaten(sortie, Enemy) :
                    sortie.cells[i].exp = battle.exp}
      places == IF battle.by \in DOMAIN sortie.fleets
                THEN {sortie.fleets[battle.by]} ELSE Range(sortie.fleets)
      Target(p) == IF At(sortie, p) \in matches THEN At(sortie, p)
                   ELSE CHOOSE i \in matches : \A j \in matches : i <= j
  IN IF matches = {} THEN {0} ELSE {Target(p) : p \in places}

Beat(i) == [sortie EXCEPT !.cells[i].flag = "disabled", !.kills = @ + 1]

(* _apply_star_slot                                                        *)
Starred(count, asked) == IF count < asked THEN count + 1 ELSE count

(* _is_chapter_cleared                                                     *)
(* Mutant: the boss is not looked for.                                     *)
IsCleared_ByEnemies(s) == Unbeaten(s, {"enemy"}) = {}
IsCleared(s) == Unbeaten(s, Enemy) = {}

(* _update_chapter_progress_after_battle, with s the map after the next    *)
(* wave; _all_star_objectives_complete.                                    *)
Progressed(p, s, cell) ==
  LET boss == cell.exp \in BossExp
      bar == IF boss THEN Min({p.bar + ProgressBoss, 100}) ELSE p.bar
      pass == boss /\ bar = 100
      Lit(what) == CASE what = "boss" -> boss
                     [] what = "enemy" -> cell.kind = "enemy"
                     [] what = "clear" -> IsCleared(s)
      star == [i \in DOMAIN Stars |->
                 IF Lit(Stars[i][1]) THEN Starred(p.star[i], Stars[i][2])
                 ELSE p.star[i]]
  IN [bar |-> bar, star |-> star,
      passes |-> p.passes + Count(pass), defeats |-> p.defeats + Count(boss),
      starred |-> p.starred \/ \A i \in DOMAIN Stars : star[i] >= Stars[i][2],
      cleared |-> p.cleared \/ (pass /\ p.passes = 0)]

(* A battle that changes nothing: lost, or without an enemy to disable.    *)
(* The deletion of its row may fail.                                       *)
EndsAsItWas ==
  /\ \/ battle' = NoRow /\ UNCHANGED faults
     \/ faults < MaxFaults /\ faults' = faults + 1 /\ UNCHANGED battle
  /\ UNCHANGED <<sortie, progress, kills, bosses, loot, announced>>

(* What a won battle does, in this order, until a statement fails (done):  *)
(* it saves the map, with the enemy beaten and the next wave on it, and    *)
(* the progress, grants the loot, emits a first clear and a first set of   *)
(* stars, and deletes its row.  Only when the map cannot be saved, the row *)
(* is deleted all the same: the battle ends for nothing.                   *)
Done == {"unsaved", "saved", "counted", "announced", "ended"}

(* Mutants: the loot comes first; the row stays.                           *)
Granted_First(done) == {DropsPerKill}
EndsBattle_Not(done) == FALSE

CountsProgress(done) == done \notin {"unsaved", "saved"}
Granted(done) == CASE ~CountsProgress(done) -> {0}
                   [] done = "counted" -> 0..DropsPerKill
                   [] OTHER -> {DropsPerKill}
EndsBattle(done) == done \in {"unsaved", "ended"}
Firsts(p) == [clear |-> Count(p.cleared /\ ~progress.cleared),
              star |-> Count(p.starred /\ ~progress.starred)]

Settles(i, s, done) ==
  LET cell == sortie.cells[i]
      later == Progressed(progress, s, cell) IN
  /\ IF done = "ended" THEN UNCHANGED faults
     ELSE faults < MaxFaults /\ faults' = faults + 1
  /\ IF done = "unsaved" THEN UNCHANGED <<sortie, kills, bosses>>
     ELSE /\ sortie' = s /\ kills' = kills + 1
          /\ bosses' = bosses + Count(cell.exp \in BossExp)
  /\ progress' = IF CountsProgress(done) THEN later ELSE progress
  /\ \E n \in Granted(done) : loot' = loot + n
  /\ announced' = IF done \in {"announced", "ended"}
                  THEN [what \in {"clear", "star"} |->
                          announced[what] + Firsts(later)[what]]
                  ELSE announced
  /\ battle' = IF EndsBattle(done) THEN NoRow ELSE battle

(* handle_finish_stage, with the battle's row (without one, no map changes)*)
Finishes(won) ==
  /\ battle # NoRow
  /\ \E i \in IF won /\ sortie # NoRow THEN Targets ELSE {0} :
       IF i = 0 THEN EndsAsItWas
       ELSE \E s \in AfterWave(Beat(i)),
               done \in Done : Settles(i, s, done)
  /\ UNCHANGED <<sorties, battles, found>>

Next ==
  \/ Tracks \/ Quits \/ \E won \in BOOLEAN : Finishes(won)
  \/ \E f \in Fleets : \/ \E p \in Pos : Moves(f, p)
                       \/ Ambushed(f) \/ OpensBox(f) \/ Begins(f)
  \/ \E G \in SUBSET Fleets : Retreats(G)

Spec == Init /\ [][Next]_vars

-----------------------------------------------------------------------------
(* Properties.                                                             *)

(* Loot is for enemies that are off the map: never more than theirs,       *)
(* whatever fails, and all of it when nothing does (the map is saved       *)
(* before the drops; battle_session.py:1836 and :333).                     *)
LootIsForKills ==
  /\ loot <= DropsPerKill * kills
  /\ faults = 0 => loot = DropsPerKill * kills

(* One battle beats one enemy.  A settlement that fails keeps the battle's *)
(* row, so that the same battle can be settled again and beat another      *)
(* enemy of the expedition: once per failure, and no more.                 *)
OneEnemyPerBattle == kills <= battles + faults

(* A sortie can be brought to its end: until its boss is beaten there is   *)
(* an enemy to fight, or the boss, with every wave that is drawn, ambushes *)
(* on the way and failures (spawn_wave_cells).                             *)
SortieCanEnd ==
  sortie # NoRow =>
    \/ \E i \in OfKind(sortie, {"boss"}) : Beaten(sortie.cells[i])
    \/ Unbeaten(sortie, {"enemy", "boss"}) # {}

(* The star for a chapter without enemies needs its boss: the waves to     *)
(* come are not on the map yet, and "no enemy left" must not hold before   *)
(* they are (_is_chapter_cleared).                                         *)
ClearStarNeedsBoss ==
  \A i \in DOMAIN Stars :
    Stars[i][1] = "clear" /\ progress.star[i] > 0 => bosses > 0

(* What the chapter's progress says was fought: no more bosses than were   *)
(* beaten, and without failures all of them; a first clear and a set of    *)
(* stars are announced at most once, and without failures when they are    *)
(* (battle_session.py:1970).                                               *)
ProgressIsForBosses ==
  /\ progress.defeats <= bosses /\ progress.passes <= progress.defeats
  /\ faults = 0 => progress.defeats = bosses

AnnouncedOnce ==
  /\ announced.clear <= 1 /\ announced.star <= 1
  /\ faults = 0 => /\ progress.cleared = (announced.clear = 1)
                   /\ progress.starred = (announced.star = 1)

(* A box is a drop, once in a sortie: the effect comes before the map is   *)
(* saved, so a failure in between gives it once more, but no move, ambush  *)
(* or battle does.                                                         *)
BoxesOpenOnce == found <= sorties * Cardinality(BoxPos) + faults

(* What the commander has of a chapter was fought for, whichever statement *)
(* of a settlement fails: the loot, the progress, the clear and its stars, *)
(* and the boxes.                                                          *)
SpoilsAreFoughtFor ==
  LootIsForKills /\ ProgressIsForBosses /\ AnnouncedOnce /\ BoxesOpenOnce

=============================================================================
