------------------------------ MODULE Shipyard ------------------------------
(***************************************************************************)
(* The build dock of one commander (answer/shipbuild, and the collection   *)
(* of answer/shipinfo).  Each build is a row; Slots of them count down at  *)
(* the same time and the others queue for the slots with a planned finish. *)
(* Nothing runs when a countdown ends: whoever asks later "settles" the    *)
(* queue against the clock (settle_build_queue), in a synchronous call     *)
(* that loads the rows, plans, and persists what changed.                  *)
(*                                                                         *)
(* Quick finishes and the list of ships are detached tasks.  What they     *)
(* await takes effect outside the event loop, also while a synchronous     *)
(* call is between its load and its persist.                               *)
(*                                                                         *)
(* Time is in units of the shortest build.  The build time multiplier is   *)
(* 1, its default.  Which ship a draw yields is left open.                 *)
(*                                                                         *)
(* Rows are a function of their ids, and the order of rows is that of ids. *)
(***************************************************************************)
EXTENDS Integers, FiniteSets, FiniteSetsExt, SequencesExt

CONSTANTS
  Ship,         \* templates that a draw yields
  Duration,     \* build_time of each
  Longest,      \* the longest of them
  Slots,        \* build_dock_slots
  Capacity,     \* MAX_BUILD_WORK_COUNT
  Hurries,      \* quick finishes that may be under way at the same time
  MaxBuilds,    \* bound: builds ever placed
  MaxDraw,      \* bound: builds of one order
  MaxTime,      \* bound: the clock
  MaxGold, MaxDrills,  \* bounds: what the commander has at first
  MaxExtras,    \* bound: quick finishes, lists of ships, faults, and uses of
                \* the REST API, which count twice
  MaxEffort,    \* bound: builds and extras together
  None

ASSUME ShipyardAssumption ==
  /\ Longest \in Nat \ {0} /\ Duration \in [Ship -> 1..Longest]
  /\ Slots \in Nat \ {0} /\ Capacity \in Nat
  /\ MaxBuilds \in Nat /\ MaxDraw \in Nat /\ MaxTime \in Nat \ {0}
  /\ MaxGold \in Nat /\ MaxDrills \in Nat
  /\ MaxExtras \in Nat /\ MaxEffort \in Nat

VARIABLES
  now,      \* the clock
  builds,   \* the rows
  nextId,   \* the sequence of builds.id
  cache,    \* client.commander.builds: the finish of each
  desk,     \* the synchronous call between its load and its persist
  hurry,    \* each quick finish
  info,     \* what handle_build_finish has read, or None
  gold, drills,
  \* What the bound and the properties count:
  extras,
  granted,  \* times that each build has been granted as a ship
  due,      \* when each build has had its time since it was ordered
  paid,     \* builds that a drill has been spent on
  unusual   \* which of the exceptions that the properties name has happened

wallet == <<gold, drills>>
dock == <<builds, nextId, cache>>
vars == <<now, dock, desk, hurry, info, wallet, extras, granted, due, paid,
          unusual>>

Id == 1..MaxBuilds
Unplanned == 0          \* finishes_at is None
FirstHour == 2          \* so that no time is Unplanned
Horizon == MaxTime + MaxBuilds * Longest
Row == [ship : Ship, fin : Nat, started : BOOLEAN]
Rows(f) == DOMAIN f \subseteq Id /\ f \in [DOMAIN f -> Row]
Brief(f) == DOMAIN f \subseteq Id /\ f \in [DOMAIN f -> Nat]
Free == [who |-> None, rows |-> <<>>, clock |-> 0, new |-> <<>>]
Task(at, first, last, todo, clock) ==
  [at |-> at, first |-> first, last |-> last, todo |-> todo, clock |-> clock]
Idle == Task("idle", 0, 0, {}, 0)

TypeOK ==
  /\ now \in Nat /\ nextId \in 1..(MaxBuilds + 1)
  /\ Rows(builds) /\ Brief(cache)
  /\ \/ desk = Free
     \/ /\ desk \in [who : {"list", "order", "wish"} \cup Hurries,
                     rows : {desk.rows}, clock : Nat, new : Seq(Ship)]
        /\ Rows(desk.rows)
  /\ hurry \in [Hurries -> [at : {"idle", "list", "update", "pay"},
                  first : Nat, last : Nat, todo : SUBSET Id, clock : Nat]]
  /\ info = None \/ Brief(info)
  /\ gold \in 0..MaxGold /\ drills \in 0..MaxDrills
  /\ granted \in [Id -> Nat] /\ due \in [Id -> Nat] /\ paid \subseteq Id
  /\ extras \in 0..MaxExtras

Init ==
  /\ now = FirstHour /\ builds = <<>> /\ nextId = 1 /\ cache = <<>>
  /\ desk = Free /\ hurry = [h \in Hurries |-> Idle] /\ info = None
  /\ gold = MaxGold /\ drills = MaxDrills
  /\ granted = [i \in Id |-> 0] /\ due = [i \in Id |-> 0] /\ paid = {}
  /\ extras = 0 /\ unusual = {}

-----------------------------------------------------------------------------
(* settle_build_queue, for rows and a clock t.                             *)

Dur(b) == Duration[b.ship]
Ticks(b, t) == b.started /\ b.fin > t

Queued(ship) == [ship |-> ship, fin |-> Unplanned, started |-> FALSE]

(* Step 1: of more than Slots, those that finish first keep their slots.   *)
Ticking(rows, t) == {i \in DOMAIN rows : Ticks(rows[i], t)}
Ahead(rows, t, i) ==
  {j \in Ticking(rows, t) : \/ rows[j].fin < rows[i].fin
                            \/ rows[j].fin = rows[i].fin /\ j < i}
Requeue(rows, t) ==
  [i \in DOMAIN rows |->
     IF Ticks(rows[i], t) /\ Cardinality(Ahead(rows, t, i)) >= Slots
     THEN Queued(rows[i].ship)
     ELSE rows[i]]

(* Mutants: the queue does not advance while nobody looks; a queued build  *)
(* that was finished by hand stays in the queue.                           *)
Promote_Never(rows, t) == rows
Promote_NotHurried(rows, t) ==
  [i \in DOMAIN rows |->
     [rows[i] EXCEPT !.started =
        @ \/ (rows[i].fin >= t /\ rows[i].fin <= t + Dur(rows[i]))]]

(* Step 2: queued builds whose planned start has come have started then.   *)
Promote(rows, t) ==
  [i \in DOMAIN rows |->
     [rows[i] EXCEPT !.started = @ \/
        (rows[i].fin # Unplanned /\ rows[i].fin <= t + Dur(rows[i]))]]

(* Step 3: each build that waits takes the slot that is free first.  A     *)
(* slot is known by the build that holds it, or by a number if none does.  *)
FreeTimes(rows, t) ==
  LET spare == {-k : k \in 1..(Slots - Cardinality(Ticking(rows, t)))}
  IN [h \in Ticking(rows, t) \cup spare |->
        IF h \in DOMAIN rows THEN rows[h].fin ELSE t]

(* Mutants: the slot that is free last; the slot is not taken.             *)
SlotFor_Last(free) == CHOOSE h \in DOMAIN free :
                        \A g \in DOMAIN free : free[h] >= free[g]
TakenBy_Nobody(free, h, i, fin) == free

SlotFor(free) == CHOOSE h \in DOMAIN free :
                   \A g \in DOMAIN free : free[h] <= free[g]
TakenBy(free, h, i, fin) ==
  [g \in (DOMAIN free \ {h}) \cup {i} |-> IF g = i THEN fin ELSE free[g]]

(* When a build starts that has these slots to choose from.                *)
Earliest(free) == free[SlotFor(free)]
Waits(rows, i) == i \in DOMAIN rows /\ ~rows[i].started

(* The slots once every build up to n that waits has its own.              *)
SlotsAfter(rows, t) ==
  LET after[n \in 0..MaxBuilds] ==
        IF n = 0 THEN FreeTimes(rows, t)
        ELSE IF ~Waits(rows, n) THEN after[n - 1]
        ELSE LET free == after[n - 1]
             IN TakenBy(free, SlotFor(free), n,
                        Earliest(free) + Dur(rows[n]))
  IN after

Schedule(rows, t) ==
  LET after == SlotsAfter(rows, t)
      planned(b, start) ==
        [ship |-> b.ship, fin |-> start + Dur(b), started |-> start <= t]
  IN [i \in DOMAIN rows |->
        IF ~Waits(rows, i) THEN rows[i]
        ELSE planned(rows[i], Earliest(after[i - 1]))]

Settle(rows, t) ==
  LET promoted == Promote(Requeue(rows, t), t) IN Schedule(promoted, t)

-----------------------------------------------------------------------------
(* The synchronous calls.                                                  *)

Briefly(rows) == [i \in DOMAIN rows |-> rows[i].fin]
InProgress == {i \in DOMAIN cache : cache[i] > now}
LoopIsFree == desk = Free
Noting(what, when) == IF when THEN unusual \cup {what} ELSE unusual
Placed == nextId - 1 + Len(desk.new)
Counts(n) == /\ extras + n <= MaxExtras /\ extras' = extras + n
             /\ Placed + extras + n <= MaxEffort
Extra == Counts(1)

(* A call loads the rows, for a clock that was read before.                *)
Load(who, clock, new) ==
  /\ desk' = [who |-> who, rows |-> builds, clock |-> clock, new |-> new]
  /\ unusual' = Noting("late", clock < now)

Begins(who, new) ==
  /\ LoopIsFree /\ Load(who, now, new)
  /\ UNCHANGED <<now, dock, hurry, info, wallet, extras, granted, due, paid>>

(* handle_ongoing_builds.                                                  *)
Lists == Begins("list", <<>>)

Draws == {new \in BoundedSeq(Ship, MaxDraw) :
            /\ new # <<>> /\ gold >= Len(new)
            /\ Placed + Len(new) <= MaxBuilds
            /\ Placed + Len(new) + extras <= MaxEffort}

(* handle_ship_build, once it can be paid: one gold each.                  *)
Orders == \E new \in Draws : Begins("order", new)

(* _do_pray_build: as many as the dock still holds, by the cache.          *)
Wishes ==
  \E new \in Draws :
    /\ Cardinality(InProgress) + Len(new) <= Capacity
    /\ Begins("wish", new)

(* plan_builds_sync adds the new builds to the end of the queue.           *)
Added == nextId..(nextId + Len(desk.new) - 1)
NewRow(i) == Queued(desk.new[i + 1 - nextId])
Planned ==
  LET rows == [i \in DOMAIN desk.rows \cup Added |->
                 IF i \in Added THEN NewRow(i) ELSE desk.rows[i]]
  IN Settle(rows, desk.clock)

(* What is written: the rows that the settling changed, where they are     *)
(* still there, and the new ones.                                          *)
Persisted(plan) ==
  LET written == Added \cup {i \in DOMAIN desk.rows : plan[i] # desk.rows[i]}
  IN [i \in DOMAIN builds \cup Added |->
        IF i \in written THEN plan[i] ELSE builds[i]]

Fails == Extra /\ unusual' = unusual \cup {"fault"}

(* It persists them, remembers them, and only then takes the gold.         *)
DeskPersists ==
  /\ desk # Free /\ desk' = Free
  /\ LET plan == Planned IN
       builds' = Persisted(plan) /\ cache' = Briefly(plan)
  /\ nextId' = nextId + Len(desk.new)
  /\ due' = [i \in Id |->
       IF i \in Added THEN desk.clock + Dur(NewRow(i)) ELSE due[i]]
  /\ \/ gold' = gold - Len(desk.new) /\ UNCHANGED <<unusual, extras>>
     \/ desk.new # <<>> /\ Fails /\ UNCHANGED gold
  /\ UNCHANGED <<now, hurry, info, drills, granted, paid>>

-----------------------------------------------------------------------------
(* handle_build_quick_finish.                                              *)

(* From the first to the last of the given positions; a single position    *)
(* counts as two.                                                          *)
Position(i) == Cardinality({j \in DOMAIN builds : j <= i})
HurryStarts(h) ==
  /\ LoopIsFree /\ hurry[h].at = "idle" /\ Extra
  /\ \E first, last \in 1..Cardinality(DOMAIN builds) :
       /\ first <= last
       /\ hurry' = [hurry EXCEPT ![h] =
            Task("list", first, IF last = first THEN last + 1 ELSE last,
                 {}, 0)]
  /\ unusual' = Noting("overlap", \E g \in Hurries : hurry[g].at # "idle")
  /\ UNCHANGED <<now, dock, desk, info, wallet, granted, due, paid>>

(* The next build, while there is a drill; after the last it settles.      *)
GoesOn(h, todo, clock) ==
  IF todo = {} \/ drills' = 0
  THEN hurry' = [hurry EXCEPT ![h] = Idle] /\ Load(h, clock, <<>>)
  ELSE /\ hurry' = [hurry EXCEPT ![h] = Task("update", 0, 0, todo, clock)]
       /\ UNCHANGED <<desk, unusual>>

HurryLists(h) ==
  /\ LoopIsFree /\ hurry[h].at = "list"
  /\ UNCHANGED <<now, dock, info, wallet, extras, granted, due, paid>>
  /\ LET range == hurry[h].first..hurry[h].last
     IN GoesOn(h, {i \in DOMAIN builds : Position(i) \in range}, now)

(* The awaited update: the build was finished an instant ago.              *)
Turn(h) == Min(hurry[h].todo)
HurryUpdates(h) ==
  /\ hurry[h].at = "update" /\ hurry' = [hurry EXCEPT ![h].at = "pay"]
  /\ builds' = [i \in DOMAIN builds |->
       IF i = Turn(h) THEN [builds[i] EXCEPT !.fin = hurry[h].clock - 1]
       ELSE builds[i]]
  /\ due' = [due EXCEPT ![Turn(h)] = 0]
  /\ unusual' = Noting("crossed", ~LoopIsFree)
  /\ UNCHANGED <<now, nextId, cache, desk, info, wallet, extras, granted,
                 paid>>

(* consume_item takes none where there is none.                            *)
HurryPays(h) ==
  /\ LoopIsFree /\ hurry[h].at = "pay"
  /\ drills' = IF drills = 0 THEN 0 ELSE drills - 1
  /\ paid' = paid \cup {Turn(h)}
  /\ GoesOn(h, hurry[h].todo \ {Turn(h)}, hurry[h].clock)
  /\ UNCHANGED <<now, dock, info, gold, extras, granted, due>>

(* A statement of it fails, and with it the task.                          *)
HurryFails(h) ==
  /\ LoopIsFree /\ hurry[h].at # "idle" /\ Fails
  /\ hurry' = [hurry EXCEPT ![h] = Idle]
  /\ UNCHANGED <<now, dock, desk, info, wallet, granted, due, paid>>

-----------------------------------------------------------------------------
(* handle_build_finish: the rows as they were read replace the cache.      *)

InfoReads ==
  /\ info = None /\ info' = Briefly(builds) /\ Extra
  /\ UNCHANGED <<now, dock, desk, hurry, wallet, granted, due, paid, unusual>>

InfoIsKept ==
  /\ LoopIsFree /\ info # None
  /\ cache' = info /\ info' = None
  /\ unusual' = Noting("outdated", info # Briefly(builds))
  /\ UNCHANGED <<now, builds, nextId, desk, hurry, wallet, extras, granted, due,
                 paid>>

-----------------------------------------------------------------------------
(* handle_get_ship: finished builds of the given positions become ships.   *)

(* Mutant: no build is too early.                                          *)
Finished_All == DOMAIN builds

Finished == {i \in DOMAIN builds : builds[i].fin <= now}
Without(rows, ids) == [i \in DOMAIN rows \ ids |-> rows[i]]
Collecting == /\ LoopIsFree
              /\ UNCHANGED <<now, nextId, desk, hurry, info, wallet, paid>>
Grant(ids) ==
  /\ granted' = [i \in Id |-> granted[i] + IF i \in ids THEN 1 ELSE 0]
  /\ due' = [i \in Id |-> IF i \in ids THEN 0 ELSE due[i]]

Collects ==
  /\ Collecting
  /\ \E ids \in SUBSET Finished \ {{}} :
       Grant(ids) /\ builds' = Without(builds, ids)
         /\ cache' = Without(cache, ids)
  /\ UNCHANGED <<extras, unusual>>

(* A fault between the deletion of a build and its ship, after others.     *)
CollectFails ==
  /\ Collecting /\ Fails
  /\ \E ids \in SUBSET Finished : \E i \in Finished :
       /\ \A j \in ids : j < i
       /\ Grant(ids) /\ builds' = Without(builds, ids \cup {i})
  /\ UNCHANGED cache

-----------------------------------------------------------------------------
(* The REST API places a build that has started, moves a finish, to now or *)
(* to the end, or deletes a build.                                         *)
AdminActs ==
  /\ Counts(2) /\ unusual' = unusual \cup {"admin"}
  /\ \E fin \in {now, MaxTime} :
       \/ /\ Placed < MaxBuilds /\ Placed + extras + 2 < MaxEffort
          /\ nextId' = nextId + 1 /\ UNCHANGED due
          /\ \E s \in Ship : builds' =
               [i \in DOMAIN builds \cup {nextId} |->
                  IF i = nextId
                  THEN [ship |-> s, fin |-> fin, started |-> TRUE]
                  ELSE builds[i]]
       \/ /\ \E i \in DOMAIN builds :
               /\ builds' = [builds EXCEPT ![i].fin = fin]
               /\ due' = [due EXCEPT ![i] = 0]
          /\ UNCHANGED nextId
       \/ /\ \E i \in DOMAIN builds : builds' = Without(builds, {i})
          /\ UNCHANGED <<nextId, due>>
  /\ UNCHANGED <<now, cache, desk, hurry, info, wallet, granted, paid>>

(* A synchronous call is over before its hour is.                          *)
TimePasses ==
  /\ now < MaxTime /\ LoopIsFree /\ now' = now + 1
  /\ UNCHANGED <<dock, desk, hurry, info, wallet, extras, granted, due, paid,
                 unusual>>

Hurry(h) == HurryStarts(h) \/ HurryLists(h) \/ HurryUpdates(h)
              \/ HurryPays(h) \/ HurryFails(h)

Next ==
  \/ TimePasses \/ AdminActs
  \/ Lists \/ Orders \/ Wishes \/ DeskPersists
  \/ \E h \in Hurries : Hurry(h)
  \/ InfoReads \/ InfoIsKept
  \/ Collects \/ CollectFails

Spec == Init /\ [][Next]_vars

-----------------------------------------------------------------------------
(* Properties.                                                             *)

Quiet(exceptions) == unusual \cap exceptions = {}
Start(b) == b.fin - Dur(b)
CountingOf(rows, t) ==
  {i \in DOMAIN rows : /\ t < rows[i].fin
                       /\ rows[i].started \/ Start(rows[i]) <= t}
Counting(t) == CountingOf(builds, t)

(* "at most BUILD_DOCK_SLOTS constructions tick at once" (helpers.py): at  *)
(* no moment from now on do the countdowns that run and those that are     *)
(* planned need more than the slots there are, unless the API was used.    *)
(* Two quick finishes under way together break that once one of them has   *)
(* settled with its clock of the past: it starts the countdown of a build  *)
(* that the other has finished since.                                      *)
NoOverbooking ==
  Quiet({"admin"}) /\ ~({"late", "overlap"} \subseteq unusual) =>
    \A t \in now..Horizon : Cardinality(Counting(t)) <= Slots

(* The plan wastes no slot and passes nobody: before a queued build starts *)
(* all slots are taken, and no build behind it starts earlier, if it is not *)
(* finished already.  A quick finish leaves a gap until it settles.        *)
Hurrying ==
  \E h \in Hurries : hurry[h].at \in {"update", "pay"} \/ desk.who = h
Undisturbed == Quiet({"admin", "fault", "crossed", "late"}) /\ ~Hurrying
QueueIsTight ==
  Undisturbed =>
    \A i \in DOMAIN builds : ~builds[i].started =>
      /\ \A t \in now..(Start(builds[i]) - 1) :
           Cardinality(Counting(t)) = Slots
      /\ \A j \in DOMAIN builds :
           j > i /\ builds[j].fin > now =>
             ~builds[j].started /\ Start(builds[j]) >= Start(builds[i])

(* "State is persistent so re-settles are stable" (helpers.py): it makes   *)
(* no difference to any build whether somebody settles the queue now.      *)
PollingDoesNotMatter ==
  Undisturbed =>
    LET early == Settle(builds, now) IN
      \A t \in now..(MaxTime + Longest) : Settle(early, t) = Settle(builds, t)

(* "never consume an in-progress build (would skip its timer)"             *)
(* (shipinfo/handlers.py): a ship is granted once, whatever fails, and     *)
(* only when the time of its build has passed since it was ordered, unless *)
(* a quick finish or the API ended it, or a quick finish settled with a    *)
(* clock of the past.                                                      *)
TakesItsTime ==
  [][\A i \in Id : granted'[i] > granted[i] =>
       granted[i] = 0 /\ (Quiet({"admin", "late"}) => now >= due[i])]_vars

(* What a drill was spent on stays finished, unless another settling had   *)
(* the rows in hand or two quick finishes were under way together; and     *)
(* each build that a drill finished cost one, unless two were.             *)
DrillsAreWellSpent ==
  /\ Quiet({"admin", "crossed", "overlap"}) =>
       \A i \in DOMAIN builds : i \in paid => builds[i].fin <= now
  /\ Quiet({"overlap"}) => Cardinality(paid) <= MaxDrills - drills

=============================================================================
