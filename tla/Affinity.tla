------------------------------ MODULE Affinity ------------------------------
(***************************************************************************)
(* The intimacy of a commander's main secretary (orm/secretary.py): every  *)
(* 300-320 minutes it gains a point.  One loop ticks every commander that  *)
(* is online, and a login ticks its own; each tick is a chain of database  *)
(* statements with awaits between them, and may break off at any of them.  *)
(* Battle settlements (answer/battle_session.py) and reloads write the     *)
(* same ship: its row, and the map of each session that the handlers read. *)
(*                                                                         *)
(* Time is counted in minutes.                                             *)
(***************************************************************************)
EXTENDS Integers, FiniteSets, FiniteSetsExt

CONSTANTS
  Login,       \* logins that may be under way at the same time
  Intervals,   \* what _roll_interval may return
  Default,     \* the column's default interval
  Point,       \* INTIMACY_PER_AFFINITY_POINT
  Cap,         \* _romance_cap_units
  Initial,     \* the ship's intimacy at first
  Deltas,      \* what a battle may add to it
  MaxTime,     \* bound: the clock
  MaxBack,     \* bound: how often the clock is set back
  MaxBattles,  \* bound: battles
  MaxSessions, \* bound: sessions of the commander
  MaxFaults,   \* bound: statements of ticks that fail
  MaxEvents,   \* bound: all of these together
  NoAnchor     \* NULL

ASSUME ConstantsAssumption ==
  /\ IsFiniteSet(Intervals) /\ Intervals \subseteq Nat \ {0} /\ Intervals # {}
  /\ Default \in Nat \ {0}
  /\ Point \in Nat \ {0} /\ Cap \in Nat /\ Initial \in Nat
  /\ Deltas \subseteq Int
  /\ {MaxTime, MaxBack, MaxBattles, MaxFaults, MaxEvents} \subseteq Nat
  /\ MaxSessions \in Nat \ {0}
  /\ NoAnchor \notin Int

VARIABLES
  clock,
  last,       \* commanders.secretary_affinity_last_ts
  interval,   \* commanders.secretary_affinity_interval_min
  intimacy,   \* owned_ships.intimacy
  sessions,   \* how many sessions there have been; the last is the newest
  open,       \* those whose connection is open
  active,     \* the one that is registered in _ACTIVE_CLIENTS, or 0
  live,       \* owned_ships_map of each session: the ship's intimacy
  tick,       \* what each ticker has in its local variables
  \* What the bounds and the properties count:
  backs, battles, faults,
  first,      \* the first anchor
  steps,      \* points granted, the partial ones included
  unmoved,    \* those of ticks that broke off before they moved the anchor
  ticked,     \* the time the last complete tick of the loop has seen
  overlap     \* two ticks of the commander have been under way at once

row == <<last, interval, intimacy>>
play == <<sessions, open, active, live>>
ghosts == <<first, steps, unmoved, ticked, overlap>>
vars == <<clock, row, play, tick, backs, battles, faults, ghosts>>

Ticker == {"loop"} \cup Login
Session == 1..MaxSessions
Moment == 0..MaxTime
Interval == Intervals \cup {Default}

Idle == [at |-> "idle", now |-> 0, session |-> 0, last |-> 0, granted |-> 0,
         steps |-> 0, newLast |-> 0, newInterval |-> Default]

(* The stages of a tick, and where the loop is between two ticks: asleep,  *)
(* with other commanders of its round before or after this one.            *)
Working == {"row", "anchor", "ship", "grant", "move", "reread"}
Resting == {"idle", "listed", "left"}

Locals == [at : Working \cup Resting,
           now : Moment, session : 0..MaxSessions, last : Moment,
           granted : 0..Cap, steps : 0..Cap, newLast : Moment,
           newInterval : Interval]

TypeOK ==
  /\ clock \in Moment
  /\ last \in Moment \cup {NoAnchor} /\ interval \in Interval
  /\ intimacy \in Nat
  /\ sessions \in Session /\ open \subseteq 1..sessions
  /\ active \in {0, sessions}
  /\ live \in [Session -> Nat]
  /\ tick \in [Ticker -> Locals]
  /\ backs \in 0..MaxBack /\ battles \in 0..MaxBattles
  /\ faults \in 0..MaxFaults
  /\ {first, ticked} \subseteq Moment \cup {NoAnchor}
  /\ {steps, unmoved} \subseteq Nat /\ overlap \in BOOLEAN

Init ==
  /\ clock = 0
  /\ last = NoAnchor /\ interval = Default /\ intimacy = Initial
  /\ sessions = 1 /\ open = {1} /\ active = 1
  /\ live = [s \in Session |-> Initial]
  /\ tick = [t \in Ticker |-> Idle]
  /\ backs = 0 /\ battles = 0 /\ faults = 0
  /\ first = NoAnchor /\ steps = 0 /\ unmoved = 0
  /\ ticked = NoAnchor /\ overlap = FALSE

-----------------------------------------------------------------------------
(* compute_secretary_tick.                                                 *)

(* The local variables of the loop: minutes left, interval, intimacy, and  *)
(* the points granted so far.                                              *)
Loop == [left : Moment, span : Interval, units : Nat, steps : Nat]

(* Mutants: a tick that is due to the minute waits; the anchor is not      *)
(* pinned at the cap.                                                      *)
Stops_Late(l) == l.left <= l.span \/ l.units >= Cap
PinnedLast_Never(now, anchor, granted, l) == anchor

Stops(l) == l.left < l.span \/ l.units >= Cap
Iterated(l, roll) ==
  [left |-> l.left - l.span, span |-> roll,
   units |-> Min({l.units + Point, Cap}), steps |-> l.steps + 1]

(* How the loop may end, from l on, with every roll.                       *)
Granting[l \in Loop] ==
  IF Stops(l) THEN {l}
  ELSE UNION {Granting[Iterated(l, roll)] : roll \in Intervals}

(* At the cap the anchor is pinned to now, at most once per interval.      *)
PinnedLast(now, anchor, granted, l) ==
  IF l.units >= Cap /\ (granted > 0 \/ l.left >= l.span) THEN now ELSE anchor

(* A clock that went back leaves no minutes.  When nothing changes there   *)
(* is nothing to persist.                                                  *)
Minutes(since, now) == Max({now - since, 0})
Computed(since, units, now, l) ==
  [granted |-> l.units - units, steps |-> l.steps, span |-> l.span,
   last |-> PinnedLast(now, since + Minutes(since, now) - l.left,
                       l.units - units, l)]
Computations(since, span, units, now) ==
  {Computed(since, units, now, l) :
     l \in Granting[[left |-> Minutes(since, now), span |-> span,
                     units |-> units, steps |-> 0]]}

Nothing(c, since, span) == c.granted = 0 /\ c.last = since /\ c.span = span

-----------------------------------------------------------------------------
(* tick_secretary_affinity.                                                *)

At(t, stage) == tick[t].at = stage
Budget == backs + battles + sessions + faults <= MaxEvents
Others == UNCHANGED <<clock, backs, battles, faults>>
Rests(t) == tick[t].at \in Resting

Starts(t, s) ==
  /\ tick' = [tick EXCEPT ![t] = [Idle EXCEPT !.at = "row", !.now = clock,
                                              !.session = s]]
  /\ overlap' = (overlap \/ \E u \in Ticker : ~Rests(u))
  /\ UNCHANGED <<first, steps, unmoved, ticked>>

(* The loop goes on to the other commanders of its round, and pushes what  *)
(* it has granted (send_message drains each connection).                   *)
Ends(t) ==
  \E rest \in IF t = "loop" THEN {"idle", "left"} ELSE {"idle"} :
    tick' = [tick EXCEPT ![t] = [Idle EXCEPT !.at = rest]]

Finish(t) ==
  /\ Ends(t)
  /\ ticked' = IF t = "loop" THEN tick[t].now ELSE ticked

(* The loop takes a snapshot of the registered clients,                    *)
LoopLists ==
  /\ At("loop", "idle") /\ active # 0
  /\ tick' = [tick EXCEPT !["loop"] = [Idle EXCEPT !.at = "listed",
                                                   !.session = active]]
  /\ UNCHANGED <<row, play, ghosts>> /\ Others

(* comes to the commander, who may have left by then,                      *)
LoopVisits ==
  /\ At("loop", "listed")
  /\ Starts("loop", tick["loop"].session)
  /\ UNCHANGED <<row, play>> /\ Others

(* and has pushed to the last peer of its round.                           *)
LoopSleeps ==
  /\ At("loop", "left")
  /\ tick' = [tick EXCEPT !["loop"] = Idle]
  /\ UNCHANGED <<row, play, ghosts>> /\ Others

(* A login loads the commander, registers the client and starts its tick   *)
(* without an await in between.                                            *)
LogsIn(t) ==
  /\ At(t, "idle") /\ sessions < MaxSessions /\ Budget
  /\ sessions' = sessions + 1 /\ open' = open \cup {sessions'}
  /\ active' = sessions'
  /\ live' = [live EXCEPT ![sessions'] = intimacy]
  /\ Starts(t, sessions')
  /\ UNCHANGED row /\ Others

ReadsAnchor(t) ==
  /\ At(t, "row")
  /\ tick' = [tick EXCEPT
       ![t].at = IF last = NoAnchor THEN "anchor" ELSE "ship",
       ![t].last = IF last = NoAnchor THEN 0 ELSE last,
       ![t].newInterval = interval]
  /\ UNCHANGED <<row, play, ghosts>> /\ Others

(* The first run anchors the clock and grants nothing.                     *)
Anchors(t) ==
  /\ At(t, "anchor")
  /\ last' = tick[t].now /\ interval' \in Intervals
  /\ first' = tick[t].now
  /\ Finish(t)
  /\ UNCHANGED <<intimacy, play, steps, unmoved, overlap>> /\ Others

ReadsShip(t) ==
  /\ At(t, "ship")
  /\ \E c \in Computations(tick[t].last, tick[t].newInterval, intimacy,
                           tick[t].now) :
       IF Nothing(c, tick[t].last, tick[t].newInterval) THEN Finish(t)
       ELSE /\ tick' = [tick EXCEPT ![t] =
                          [@ EXCEPT !.at = "grant", !.granted = c.granted,
                                    !.steps = c.steps, !.newLast = c.last,
                                    !.newInterval = c.span]]
            /\ UNCHANGED ticked
  /\ UNCHANGED <<row, play, first, steps, unmoved, overlap>> /\ Others

(* UPDATE owned_ships SET intimacy = LEAST(intimacy + granted, cap).       *)
Grants(t) ==
  /\ At(t, "grant")
  /\ intimacy' = Min({intimacy + tick[t].granted, Cap})
  /\ steps' = steps + tick[t].steps
  /\ tick' = [tick EXCEPT ![t].at = "move"]
  /\ UNCHANGED <<last, interval, play, first, unmoved, ticked, overlap>>
  /\ Others

(* Mutant: the new anchor is not persisted.                                *)
MovesAnchor_Forgets(t) ==
  /\ At(t, "move")
  /\ interval' = tick[t].newInterval
  /\ tick' = [tick EXCEPT ![t].at = "reread"]
  /\ UNCHANGED <<last, intimacy, play, ghosts>> /\ Others

MovesAnchor(t) ==
  /\ At(t, "move")
  /\ last' = tick[t].newLast /\ interval' = tick[t].newInterval
  /\ tick' = [tick EXCEPT ![t].at = "reread"]
  /\ UNCHANGED <<intimacy, play, ghosts>> /\ Others

Bumped(units, granted) == Min({Cap, units + granted})

(* Once the row has been read again, for the push, the map of the session  *)
(* that the tick was started for is brought up to date, if it still plays. *)
Rereads(t) ==
  /\ At(t, "reread")
  /\ live' = IF tick[t].session \in open
             THEN [live EXCEPT ![tick[t].session] = Bumped(@, tick[t].granted)]
             ELSE live
  /\ Finish(t)
  /\ UNCHANGED <<row, sessions, open, active, first, steps, unmoved, overlap>>
  /\ Others

Tick(t) ==
  ReadsAnchor(t) \/ Anchors(t) \/ ReadsShip(t) \/ Grants(t) \/ MovesAnchor(t)
    \/ Rereads(t)

(* A tick that breaks off after the grant leaves the anchor where it was.  *)
BreaksOff(t) ==
  /\ Ends(t)
  /\ unmoved' = unmoved + IF At(t, "move") THEN tick[t].steps ELSE 0
  /\ UNCHANGED <<first, steps, ticked, overlap>>

(* A statement fails: whoever called the tick logs it and goes on.         *)
TickFails(t) ==
  /\ ~Rests(t) /\ faults < MaxFaults /\ Budget
  /\ faults' = faults + 1
  /\ BreaksOff(t)
  /\ UNCHANGED <<row, play, clock, backs, battles>>

-----------------------------------------------------------------------------
(* What else changes the ship and the sessions.                            *)

(* _clamp_uint32; the upper limit, 2^32 - 1, is out of the bounds' reach.  *)
Clamped(units) == Max({units, 0})

(* A settlement computes the intimacy from the session's map and writes it *)
(* to the map and to the row.  It awaits nothing.                          *)
Battle(s, d) ==
  /\ s \in open /\ battles < MaxBattles /\ Budget
  /\ live' = [live EXCEPT ![s] = Clamped(@ + d)]
  /\ intimacy' = live'[s]
  /\ battles' = battles + 1
  /\ UNCHANGED <<clock, last, interval, sessions, open, active, tick, backs,
                 faults, ghosts>>

(* Commander.load() of a session that goes on, as after CS_26004.          *)
Reload(s) ==
  /\ s \in open
  /\ live' = [live EXCEPT ![s] = intimacy]
  /\ UNCHANGED <<clock, row, sessions, open, active, tick, backs, battles,
                 faults, ghosts>>

(* close(), since the player leaves or is kicked by a later login: the map *)
(* is forgotten, the commander's registered client, whichever it is, is    *)
(* removed, and the tick of the session's login is cancelled.              *)
Leaves(s) ==
  /\ s \in open
  /\ open' = open \ {s} /\ live' = [live EXCEPT ![s] = Initial]
  /\ active' = 0
  /\ \/ \E t \in Login : tick[t].session = s /\ BreaksOff(t)
     \/ (\A t \in Login : tick[t].session # s) /\ UNCHANGED <<tick, ghosts>>
  /\ UNCHANGED <<row, sessions>> /\ Others

TimePasses ==
  /\ clock < MaxTime
  /\ clock' = clock + 1
  /\ UNCHANGED <<row, play, tick, backs, battles, faults, ghosts>>

(* The wall clock is corrected.                                            *)
ClockGoesBack ==
  /\ backs < MaxBack /\ clock > 0 /\ Budget
  /\ clock' = clock - 1
  /\ backs' = backs + 1
  /\ UNCHANGED <<row, play, tick, battles, faults, ghosts>>

Next ==
  \/ LoopLists \/ LoopVisits \/ LoopSleeps
  \/ TimePasses \/ ClockGoesBack
  \/ \E t \in Login : LogsIn(t)
  \/ \E t \in Ticker : Tick(t) \/ TickFails(t)
  \/ \E s \in Session : \/ \E d \in Deltas : Battle(s, d)
                        \/ Reload(s) \/ Leaves(s)

(* The loop wakes up every minute, and statements return.  How long it is  *)
(* with the other players of its round is up to their connections.         *)
Fairness ==
  /\ WF_vars(LoopLists)
  /\ \A t \in Ticker : WF_vars(Tick(t))

Spec == Init /\ [][Next]_vars /\ Fairness

-----------------------------------------------------------------------------
(* Properties.                                                             *)

(* The code "Grants 1 affinity point (100 DB units) per elapsed 300-320    *)
(* minute interval" (secretary.py:155-156): no more than one point for     *)
(* every interval between the first anchor and the present one.  Neither   *)
(* the clock going back, a roll nor a partial point at the cap grants a    *)
(* minute twice.  Only two ticks at once may, and a tick that fails or is  *)
(* cancelled between its grant and its anchor: its points, and no more,    *)
(* are granted a second time.                                              *)
OneGrantPerInterval ==
  LET moves == {tick[t].newLast : t \in {u \in Ticker : At(u, "move")}} IN
  last # NoAnchor /\ ~overlap =>
    (steps - unmoved) * Min(Intervals \cup {Default})
      <= Max(moves \cup {last}) - first

(* The loop leaves less than an interval behind, at the cap as well: no    *)
(* debt builds up that a higher cap would pay out at once.                 *)
NothingDueIsLeft ==
  Rests("loop") /\ ticked # NoAnchor /\ ~overlap
    => ticked - last < interval

(* A point that is due to a registered player is granted in the end, as    *)
(* long as no peer of the loop's round keeps it waiting for ever: it       *)
(* awaits each push, and one connection that stays open and is never read  *)
(* from stops the ticks of all players.                                    *)
Due == last # NoAnchor /\ clock - last >= interval /\ intimacy < Cap
WithOthers == tick["loop"].at \in {"listed", "left"}
DueIsGranted ==
  []<>~WithOthers => ((Due /\ active # 0) ~> (~Due \/ active = 0))

=============================================================================
