------------------------------ MODULE Missions ------------------------------
(***************************************************************************)
(* The missions of one commander (answer/task_handlers.py).  The row of a  *)
(* mission in commander_tasks holds its progress and whether it has been   *)
(* submitted; the weekly missions are one row of weekly_task_progress that *)
(* every writer loads, changes and saves as a whole.                       *)
(*                                                                         *)
(* Events of the game advance both in detached tasks (emit_task_progress), *)
(* with awaits between their statements; submissions are synchronous, in   *)
(* the dispatcher, which also rolls the day and the week over before the   *)
(* first packet of a new one.  A statement that a task awaits runs outside *)
(* the event loop: it may take effect while a synchronous handler is       *)
(* between two of its own.  The clock counts Mondays: each begins a day    *)
(* and a week.                                                             *)
(***************************************************************************)
EXTENDS Naturals, FiniteSets, FiniteSetsExt, SequencesExt

CONSTANTS
  Mission,    \* the missions there are
  Emits,      \* emit tasks that may be under way at the same time
  Stages,     \* targets of the weekly chain: a sequence of numbers
  Tiers,      \* points that each weekly reward needs: a sequence of numbers
  Target,     \* target_num of a mission
  MaxEvents,  \* bound: events
  MaxWeek,    \* bound: the clock
  MaxFaults,  \* bound: crashes and failed statements, those that the code
              \* swallows (weekly_task_progress.py) among them
  MaxItems,   \* what the commander owns of the goods to hand in at first
  NoRow, NoState


VARIABLES
  now,      \* the clock
  row,      \* commander_tasks
  items,    \* goods of the "give" mission
  weekly,   \* weekly_task_progress
  lock,     \* _WEEKLY_LOCKS: the emit that holds it, or NoRow
  emit,     \* each emit task
  disp,     \* the dispatcher: where it is in a roll-over, a page or a weekly
            \* handler, the weeks they were begun in, the row as it was loaded
  seen,     \* client._reset_week_bucket
  \* What the bounds and the properties count:
  events, faults,
  paid,     \* rewards of each mission
  tierPaid, \* weekly rewards since the last Monday, by tier
  spent,    \* times the goods were taken
  tally,    \* events saved since the last Monday
  stale,    \* a weekly row was written back over one that had changed since
            \* it was loaded, or in a later week than its own, or a row with
            \* no mission left was emptied
  beaten    \* a handler did so, or a page or an emit that saw no row of this
            \* week replaced one

weeklyVars == <<weekly, lock, tierPaid, tally, stale, beaten>>
rowVars == <<row, items, paid, spent>>
counters == <<events, faults>>
vars == <<now, weeklyVars, rowVars, emit, disp, seen, counters>>

Week == 0..MaxWeek
Fresh(week) == [week |-> week, count |-> 0, stage |-> 1, progress |-> 0,
                pt |-> 0, tier |-> 0]
Weekly == [week : Week, count : Nat, stage : Nat \ {0}, progress : Nat,
           pt : Nat, tier : Nat]
NewRow(progress, week) ==
  [progress |-> progress, accepted |-> week, submitted |-> FALSE]
Row == [progress : 0..Target, accepted : Week, submitted : BOOLEAN]
(* Rewards are counted, but not beyond one more than there should be.      *)
OneMore(count) == Min({count + 1, MaxWeek + 2})
Free == [at |-> "free", day |-> 0, page |-> 0, state |-> NoState]
Idle == [at |-> "idle", state |-> NoState, week |-> 0]

(* A daily mission, one that the client triggers, and one that hands goods *)
(* in (the sub types that _submit_task_and_get_drops tells apart).         *)
ASSUME MissionAssumption ==
  /\ "daily" \in Mission /\ Mission \subseteq {"daily", "trigger", "give"}
  /\ Stages \in Seq(Nat) /\ Tiers \in Seq(Nat) /\ Target \in Nat \ {0}
  /\ {MaxEvents, MaxWeek, MaxFaults, MaxItems} \subseteq Nat
  /\ NoRow \notin Row \cup Emits \cup Week /\ NoState \notin Weekly

Emission == [at : {"idle", "row", "lock", "init", "again", "save"},
             state : Weekly \cup {NoState}, week : Week]
Dispatch == [at : {"free", "open", "load", "save", "packet", "handler"},
             day : Week \cup {NoRow}, page : Week,
             state : Weekly \cup {NoState}]

WeeklyTypes ==
  /\ now \in Week
  /\ weekly \in Weekly \cup {NoState} /\ lock \in Emits \cup {NoRow}
  /\ emit \in [Emits -> Emission] /\ disp \in Dispatch
  /\ tierPaid \in [DOMAIN Tiers -> 0..(MaxWeek + 2)] /\ tally \in Nat
  /\ stale \in BOOLEAN /\ beaten \in BOOLEAN /\ faults \in 0..MaxFaults
RowTypes ==
  /\ row \in [Mission -> Row \cup {NoRow}]
  /\ items \in 0..MaxItems /\ spent \in Nat
  /\ paid \in [Mission -> 0..(MaxWeek + 2)]
TypeOK ==
  /\ WeeklyTypes /\ RowTypes
  /\ seen \in Week \cup {NoRow} /\ events \in 0..MaxEvents

Init ==
  /\ now = 0 /\ seen = NoRow
  /\ row = [m \in Mission |-> NoRow] /\ items = MaxItems
  /\ weekly = NoState /\ lock = NoRow
  /\ emit = [e \in Emits |-> Idle]
  /\ disp = Free
  /\ events = 0 /\ faults = 0
  /\ paid = [m \in Mission |-> 0] /\ tierPaid = [k \in DOMAIN Tiers |-> 0]
  /\ spent = 0 /\ tally = 0 /\ stale = FALSE /\ beaten = FALSE

-----------------------------------------------------------------------------
(* Events.                                                                 *)

At(e, place) == emit[e].at = place
Goes(e, place) == emit' = [emit EXCEPT ![e].at = place]
LoopIsFree == disp.at # "handler"
Fault == faults < MaxFaults /\ faults' = faults + 1

EventHappens(e) ==
  /\ LoopIsFree /\ At(e, "idle") /\ events < MaxEvents
  /\ events' = events + 1
  /\ emit' = [emit EXCEPT ![e] = [Idle EXCEPT !.at = "row", !.week = now]]
  /\ UNCHANGED <<now, weeklyVars, rowVars, disp, seen, faults>>

(* Mutant: a submitted mission goes on.                                    *)
EventAdvances_Always(e) ==
  /\ At(e, "row") /\ Goes(e, "lock")
  /\ row' = [row EXCEPT !["daily"] =
       IF @ = NoRow THEN NewRow(Min({1, Target}), emit[e].week)
       ELSE [@ EXCEPT !.progress = Min({@ + 1, Target}), !.submitted = FALSE]]
  /\ UNCHANGED <<now, weeklyVars, items, paid, spent, disp, seen, counters>>

(* upsert_task_progress_least.                                             *)
EventAdvances(e) ==
  /\ At(e, "row") /\ Goes(e, "lock")
  /\ row' = [row EXCEPT !["daily"] =
       IF @ = NoRow THEN NewRow(Min({1, Target}), emit[e].week)
       ELSE IF @.submitted THEN @
       ELSE [@ EXCEPT !.progress = Min({row["daily"].progress + 1, Target})]]
  /\ UNCHANGED <<now, weeklyVars, items, paid, spent, disp, seen, counters>>

(* The chain of a row has an active mission; at its end it has none, and   *)
(* the code takes such a row for an empty one (not state["tasks"]).        *)
Active(s) == s # NoState /\ s.stage <= Len(Stages)

(* An emit that has loaded s writes it in this week or, when it is slow, in *)
(* a later one.                                                            *)
Loads(e, s, without) ==
  emit' = [emit EXCEPT ![e] =
    [at |-> IF Active(s) THEN "save" ELSE without, state |-> s, week |-> now]]
Ends(e) ==
  /\ emit' = [emit EXCEPT ![e] = Idle]
  /\ lock' = IF lock = e THEN NoRow ELSE lock

(* Mutant: no lock.                                                        *)
EventLoads_Unlocked(e) ==
  /\ LoopIsFree /\ At(e, "lock") /\ Loads(e, weekly, "init")
  /\ UNCHANGED <<now, rowVars, weeklyVars, disp, seen, counters>>

(* _emit_weekly_progress: under the commander's lock it loads the row; a   *)
(* load that fails counts as no row.                                       *)
EventLoads(e) ==
  /\ LoopIsFree /\ At(e, "lock") /\ lock = NoRow /\ lock' = e
  /\ \/ Loads(e, weekly, "init") /\ UNCHANGED faults
     \/ Loads(e, NoState, "init") /\ Fault
  /\ UNCHANGED <<now, rowVars, weekly, tierPaid, tally, stale, beaten, disp,
                 seen, events>>

OfThisWeek == weekly # NoState /\ weekly.week = now

(* Without a row, or with every mission of the week submitted, it saves an *)
(* empty one over what there is, unless the save fails, silently,          *)
EventInitialises(e) ==
  /\ At(e, "init") /\ Goes(e, "again")
  /\ \/ /\ \E week \in emit[e].week..now : weekly' = Fresh(week)
        /\ stale' = (stale \/ weekly # NoState)
        /\ beaten' = (beaten \/ OfThisWeek)
        /\ UNCHANGED faults
     \/ Fault /\ UNCHANGED <<weekly, stale, beaten>>
  /\ UNCHANGED <<now, rowVars, lock, tierPaid, tally, disp, seen, events>>

(* ... and loads again.                                                    *)
EventLoadsAgain(e) ==
  /\ LoopIsFree /\ At(e, "again")
  /\ IF Active(weekly) THEN Loads(e, weekly, "again") /\ UNCHANGED lock
     ELSE Ends(e)
  /\ UNCHANGED <<now, rowVars, weekly, tierPaid, tally, stale, beaten, disp,
                 seen, counters>>

(* The active mission of the chain advances.                               *)
EventSaves(e) ==
  /\ At(e, "save") /\ Ends(e)
  /\ LET s == emit[e].state IN
       \E week \in emit[e].week..now :
         /\ weekly' = [s EXCEPT !.week = week, !.count = @ + 1,
                         !.progress = Min({s.count + 1, Stages[s.stage]})]
         /\ tally' = IF week = now THEN tally + 1 ELSE tally
         /\ stale' = (stale \/ weekly # s \/ s.week # week)
  /\ UNCHANGED <<now, rowVars, tierPaid, beaten, disp, seen, counters>>

(* A statement fails: without the daily mission it goes on, a failed save  *)
(* or second load of the weekly row, or of the configuration, ends it.     *)
EventFails(e) ==
  /\ Fault
  /\ \/ At(e, "row") /\ Goes(e, "lock") /\ UNCHANGED lock
     \/ ~At(e, "row") /\ ~At(e, "idle") /\ Ends(e)
  /\ UNCHANGED <<now, rowVars, weekly, tierPaid, tally, stale, beaten, disp,
                 seen, events>>

-----------------------------------------------------------------------------
(* The dispatcher: roll-over, and the weekly page (handle_weekly_missions).*)

(* maybe_reset_daily_weekly: _ensure_daily_tasks, then the weekly page.    *)
RollsOver ==
  /\ disp = Free /\ seen # now
  /\ row' = [row EXCEPT !["daily"] =
               IF @ = NoRow \/ @.accepted < now THEN NewRow(0, now) ELSE @]
  /\ disp' = [Free EXCEPT !.at = "open", !.day = now]
  /\ UNCHANGED <<now, weeklyVars, items, paid, spent, emit, seen, counters>>

(* The player opens the page.                                              *)
OpensPage ==
  /\ disp = Free /\ seen = now
  /\ disp' = [Free EXCEPT !.at = "open", !.day = NoRow]
  /\ UNCHANGED <<now, weeklyVars, rowVars, emit, seen, counters>>

(* The page is done; after a roll-over, the packet that came with it is    *)
(* next, even when another Monday has come.                                *)
PageEnds ==
  IF disp.day = NoRow THEN disp' = Free /\ UNCHANGED seen
  ELSE disp' = [Free EXCEPT !.at = "packet"] /\ seen' = disp.day

(* The page awaits its configuration and reads the clock, or fails and is  *)
(* given up;                                                               *)
PageBegins ==
  /\ disp.at = "open"
  /\ \/ disp' = [disp EXCEPT !.at = "load", !.page = now]
        /\ UNCHANGED <<seen, faults>>
     \/ Fault /\ PageEnds
  /\ UNCHANGED <<now, weeklyVars, rowVars, emit, events>>

(* ... then it awaits the row.  One of another week than the clock was in, *)
(* or none, or one that could not be loaded, will be replaced,             *)
PageLoads ==
  /\ disp.at = "load"
  /\ LET replaces == disp' = [disp EXCEPT !.at = "save"] /\ UNCHANGED seen IN
       \/ /\ IF weekly # NoState /\ weekly.week = disp.page
             THEN PageEnds ELSE replaces
          /\ UNCHANGED faults
       \/ replaces /\ Fault
  /\ UNCHANGED <<now, weeklyVars, rowVars, emit, events>>

(* ... without the lock, unless the save fails, silently.                  *)
PageSaves ==
  /\ disp.at = "save" /\ PageEnds
  /\ \/ /\ weekly' = Fresh(disp.page) /\ UNCHANGED faults
        /\ beaten' = (beaten \/ OfThisWeek)
     \/ Fault /\ UNCHANGED <<weekly, beaten>>
  /\ UNCHANGED <<now, rowVars, lock, tierPaid, tally, stale, emit, events>>

(* Another session of the player begins.                                   *)
LogsIn ==
  /\ disp = Free /\ seen' = NoRow
  /\ UNCHANGED <<now, weeklyVars, rowVars, emit, disp, counters>>

(* A packet is handled once the roll-over is done.                         *)
Handles ==
  /\ disp.at = "packet" \/ (disp = Free /\ seen = now)
  /\ disp' = Free /\ UNCHANGED <<now, emit, seen, events>>

(* What a fault leaves of a synchronous handler: how many of its commits.  *)
Commits(k) == {[done |-> k, faults |-> faults]} \cup
              {[done |-> i, faults |-> faults + 1] :
                 i \in IF faults < MaxFaults THEN 0..(k - 1) ELSE {}}

-----------------------------------------------------------------------------
(* Submission of missions (_submit_task_and_get_drops).                    *)

Progress(m) == IF row[m] = NoRow THEN 0 ELSE row[m].progress

Accepts(m) ==
  /\ Handles /\ row[m] = NoRow
  /\ row' = [row EXCEPT ![m] = NewRow(0, now)]
  /\ UNCHANGED <<weeklyVars, items, paid, spent, faults>>

Submitted(m) == row[m] # NoRow /\ row[m].submitted

(* The gate: goods in hand, trust in the client, or the progress.          *)
MaySubmit(m) ==
  /\ ~Submitted(m)
  /\ CASE m = "give" -> items > 0
       [] m = "trigger" -> TRUE
       [] OTHER -> Progress(m) >= Target

(* Commits: the mark, the goods, the reward; a fault in between answers    *)
(* with a failure.  Where there is no row the mark changes nothing.        *)
Submits(m) ==
  /\ Handles /\ MaySubmit(m)
  /\ \E c \in Commits(3) :
       /\ row' = IF c.done >= 1 /\ row[m] # NoRow
                 THEN [row EXCEPT ![m].submitted = TRUE] ELSE row
       /\ LET goods == IF m = "give" /\ c.done >= 2 THEN 1 ELSE 0 IN
            items' = items - goods /\ spent' = spent + goods
       /\ paid' = [paid EXCEPT ![m] = IF c.done >= 3 THEN OneMore(@) ELSE @]
       /\ faults' = c.faults
  /\ UNCHANGED weeklyVars

-----------------------------------------------------------------------------
(* Weekly submissions and rewards.                                         *)

(* A weekly handler loads the row ...                                      *)
BeginsWeekly ==
  /\ weekly # NoState
  /\ disp.at = "packet" \/ (disp = Free /\ seen = now)
  /\ disp' = [Free EXCEPT !.at = "handler", !.state = weekly]
  /\ UNCHANGED <<now, weeklyVars, rowVars, emit, seen, counters>>

Loaded == disp.state

(* ... and ends without a change, *)
EndsWeekly ==
  /\ disp.at = "handler" /\ disp' = Free
  /\ UNCHANGED <<now, weeklyVars, rowVars, emit, seen, counters>>

Ending ==
  /\ disp.at = "handler" /\ disp' = Free
  /\ UNCHANGED <<now, rowVars, emit, seen, events>>

(* ... or with a save, which fails silently, or the process stops.         *)
SaveWeekly(state) ==
  /\ \/ weekly' = [state EXCEPT !.week = now] /\ UNCHANGED faults
        /\ stale' = (stale \/ weekly # Loaded \/ Loaded.week # now)
        /\ beaten' = (beaten \/ weekly # Loaded)
     \/ Fault /\ UNCHANGED <<weekly, stale, beaten>>
  /\ UNCHANGED <<lock, tally>>

(* handle_submit_weekly_task: one stage.                                   *)
SubmitsStage ==
  /\ Ending /\ Active(Loaded)
  /\ Loaded.progress >= Stages[Loaded.stage]
  /\ LET next == Loaded.stage + 1 IN
     SaveWeekly([Loaded EXCEPT !.pt = @ + 1, !.stage = next,
       !.progress = IF next \in DOMAIN Stages
                    THEN Min({Loaded.count, Stages[next]}) ELSE 0])
  /\ UNCHANGED tierPaid

(* Collect all: every consecutive stage that the count has reached.        *)
SubmitsAll ==
  /\ Ending /\ Active(Loaded)
  /\ LET count == Max({Loaded.count, Loaded.progress})
         stages == Loaded.stage..Len(Stages)
         reached == {k \in stages : \A j \in Loaded.stage..k :
                                      count >= Stages[j]}
         next == Loaded.stage + Cardinality(reached) IN
     /\ reached # {}
     /\ SaveWeekly([Loaded EXCEPT !.count = count,
          !.pt = @ + Cardinality(reached), !.stage = next,
          !.progress = IF next \in DOMAIN Stages THEN Min({count, Stages[next]})
                       ELSE 0])
  /\ UNCHANGED tierPaid

(* The next tier, when there are points enough, and what it pays.          *)
Claimable(k) == k \in DOMAIN Tiers /\ Loaded.pt >= Tiers[k]
PayTier(k) == tierPaid' = [tierPaid EXCEPT ![k] = OneMore(@)]

(* Mutant: the tier is not recorded.                                       *)
ClaimsTier_Forgets ==
  /\ Ending
  /\ LET k == Loaded.tier + 1 IN
     Claimable(k) /\ PayTier(k) /\ SaveWeekly(Loaded)

(* handle_submit_weekly_progress: the reward, then the tier.               *)
ClaimsTier ==
  /\ Ending
  /\ LET k == Loaded.tier + 1 IN
     Claimable(k) /\ PayTier(k) /\ SaveWeekly([Loaded EXCEPT !.tier = k])

MondayComes ==
  /\ now < MaxWeek /\ now' = now + 1
  /\ tierPaid' = [k \in DOMAIN Tiers |-> 0] /\ tally' = 0
  /\ UNCHANGED <<weekly, lock, stale, beaten, rowVars, emit, disp, seen,
                 counters>>

Emit(e) == EventAdvances(e) \/ EventLoads(e) \/ EventInitialises(e)
             \/ EventLoadsAgain(e) \/ EventSaves(e) \/ EventFails(e)
Page == RollsOver \/ PageBegins \/ PageLoads \/ PageSaves

Next ==
  \/ Page \/ OpensPage \/ LogsIn \/ MondayComes
  \/ BeginsWeekly \/ SubmitsStage \/ SubmitsAll \/ ClaimsTier \/ EndsWeekly
  \/ \E e \in Emits : EventHappens(e) \/ Emit(e)
  \/ \E m \in Mission : Accepts(m) \/ Submits(m)

Spec == Init /\ [][Next]_vars

-----------------------------------------------------------------------------
(* Properties.                                                             *)

(* "can't load-modify-save the same row and lose updates" (the comment at  *)
(* the lock): no event that was saved this week is missing from this       *)
(* week's row, whatever other emits do and however late their saves come.  *)
(* This is so among emits only.  Whoever writes without the lock is        *)
(* excepted (beaten): a handler that writes over an emit's save, a page    *)
(* that replaces a row of this week because its clock was read before      *)
(* Monday, its load failed or an emit saved in between, and an emit that   *)
(* does so after a failed load, or when the week's missions are all done.  *)
EventsAreCounted ==
  tally > 0 /\ ~beaten => OfThisWeek /\ weekly.count >= tally

(* A weekly reward is paid once a week, unless there was a fault (between  *)
(* the reward and its record, or in a load, after which the row with the   *)
(* record is replaced), or an emit wrote back what it had loaded before,   *)
(* or began a week anew in which all was submitted.                        *)
(* And a tier is on record in its own week only when it was paid, even     *)
(* with a fault.                                                           *)
TierPaidOnce ==
  stale \/ /\ faults > 0 \/ \A k \in DOMAIN Tiers : tierPaid[k] <= 1
           /\ OfThisWeek => \A k \in 1..weekly.tier : tierPaid[k] >= 1

(* Whatever faults and events there were, a daily mission has been paid at *)
(* most once for each day that has begun, and no reward was given for      *)
(* goods that were not taken.                                              *)
RewardsAreEarned ==
  /\ paid["daily"] <= now + 1
  /\ "give" \in Mission => paid["give"] <= spent

=============================================================================
