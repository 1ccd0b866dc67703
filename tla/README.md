# PrivateDock: TLA+ models and proofs

PrivateDock is an asyncio game server in Python: one process that speaks a
framed protobuf protocol over TCP with game clients, keeps everything in
SQLite or PostgreSQL, and serves a REST API for administration. This directory
holds TLA+ models of its core logic, translated from the source, the TLC runs
that check them, and TLAPS proofs. Paths below are relative to `src/src/`.

## How to run

    tlc -workers 2 -config ClientInbound.cfg MCClientInbound.tla
    tlapm Client_proofs.tla
    tlapm Sessions_proofs.tla

`PROJECT.json` lists the runs, for each property a mutation of the model that
the property detects, the source lines of every definition, the findings, the
hazards and the theorems.

## Inventory

One event loop runs everything, so *between two awaits a coroutine is atomic*,
and every `await` is a place where any other task may run. Database access has
two forms, with different atomicity. The async store (`db/store.py`) commits
each statement by itself and awaits between; the sync sessions
(`get_sync_session`) block the loop, so a handler that uses only those is one
step. Handlers of one client run one after the other in its dispatcher task,
except for what they detach with `asyncio.create_task`.

| Component | State | Operations | Interacts with | What is hard | What must hold |
|---|---|---|---|---|---|
| Registry and sessions (`connection/`, `orm/active_commander.py`, `answer/join_server.py`) | clients by hash, rooms, maintenance flag; commander and client of each online commander id | accept, remove, close, login with kick, maintenance sweep, API kick, room changes, reloads | every handler reads the registry; the ticker iterates over it | logins kicking each other across awaits; tasks that outlive their connection; close() called by several actors | open connections are reachable; closed door leaves nobody inside; an entry leaves with its owner |
| Inbound path (`connection/client.py`, `packets/handler.py`) | stream, queue of 512, closed flag | read, put, get, dispatch, close | reader and dispatcher tasks; kicks | a full queue; close in the middle of a handler | order, no loss, nothing after close |
| Outbound path (same files) | buffer; nothing keeps flushes apart | send, flush, drain | every handler, broadcasts, sweeps, worker threads | a slow peer stalls whoever drains; flushes overlap | nothing is lost but what is said during a flush; order; kicks end |
| Account creation and login identity (`answer/onboarding/`, `orm/commander.py`) | `yostarus_maps`, `commanders`, `owned_ships`, `device_auth_maps` and more | CS_10020 (ticket), CS_10024, CS_10022 | database constraints | twenty-odd transactions per account; retries; faults; two users on one device | an acknowledged account is complete; one user per account |
| Secretary affinity (`orm/secretary.py`) | anchor, interval, intimacy, live map | loop tick, login catch-up | battle, reload, dorm | the same ship is ticked twice; map and row | one point per interval; the anchor moves forward |
| Wallet (`orm/resource.py`, `orm/item.py`) | rows and in-memory maps | consume, add, upsert | nearly every handler, the API | check-then-act; maps that miss a write; partial consumption | no negative balance; map equals row |
| Mail and compensation (`orm/mail.py`) | mails, attachments, read/claimed flags | send, claim, delete, archive | wallet, API | claim repeated; claim half done | attachments are granted once |
| Build dock (`answer/shipbuild`, `orm/build.py`) | queue slots, finish times | build, quick finish, collect | wallet, ship ids | collect repeated; ids | one ship per build |
| Commissions (`answer/event_*`) | events, fleets, end times | start, finish, give up, flush | ships, wallet | ship in two fleets | a ship serves once at a time |
| Tasks, awards, activities | progress rows, claimed lists | progress, submit | wallet, many systems | claim twice | one award each |
| Shops and `shopreset/` | stock, windows | refresh, buy | wallet | a window ends in the middle of a purchase | limits per window |
| Chapters and battles (`answer/chapter`, `answer/battle_session.py`) | chapter state, battle session | enter, move, fight, settle | ships, wallet, tasks | replayed settlement, abandoned battles | a battle settles once |
| Dorm, tactics, technology, exercise, guild, friends | per-player rows, guild rows | start, finish, claim, join | wallet, ships | timers, joint rows | awards once; offices unique |
| REST API, `auth/`, `authz/` | sessions, challenges, rate limits | log in, authorise, administer | all tables | challenges used twice, windows | a challenge serves once |
| Store, migrator, backups (`db/`) | schema version, files | migrate, back up, prune | start-up, login | crash between steps | a backup is whole |

The complete list of parts, with those left out and why, is `components` in
`PROJECT.json`. Generated protobuf code, data import, configuration, logging and
documentation keep no state that play depends on. `set_accepting_connections`
and `disconnect_connection` are left out of `Sessions`: their API handlers
(`api/handlers/server.py`) are not mounted by `api/routes/server.py`.

## Modules

`MC*.tla` extend a module with the values of its constants for TLC. Operators
named `X_Something` before an `X` are mutations of `X` that a plausible bug
would make; no specification uses them.

### Sessions
One connection is a reader coroutine and a dispatcher task (`reader`, `pc`).
`slot` and `order` are the dict `Server._clients` and its insertion order,
`activeCommander` and `activeClient` the two registries. `JoinServer`,
`JoinFetched`, `JoinVerified`, `JoinScan`, `CloseVictim`, `RemoveVictim`,
`JoinReply` are the stretches of the login handler between its awaits.
`SweepStarts` and `SweepNext` are `disconnect_all`, `ApiKick` the request of
the API, `Spawn`, `CreateAccount`, `CreatedLoads`, `UnlockLoads` and `Quit` the
detached tasks. Python objects have identity, since `unregister_active_commander`
compares objects: an object is its connection and a serial number.
`Sessions_proofs` holds the proofs.

### ClientInbound, PacketOrder
`PacketOrder` is the promise: packets are accepted, and handled in order until
the connection stops. `ClientInbound` is the code: frames in the stream, the
bounded queue, a reader that may be suspended in `put`, a dispatcher that
`close()` cancels. Packets are numbered, so the order is visible in the queue.
The refinement maps accepted packets to those read, begun ones to those
taken by the dispatcher, `stopped` to `closed`. `Client_proofs` is about both
directions of a connection; names that the other direction has too therefore
begin with `Inbound` here.

### Onboarding
One action per database statement of `_do_create_player` and `create_commander`
(grants that no other statement reads are one statement each: attires, purse,
secretary), and per awaited statement of the identity decision in
`_do_join_server`. A statement may fail (`StatementFails`) and the process may
stop (`Crash`) anywhere: committed rows remain, tasks are gone. Two failures are
swallowed where they happen: that of a starter ship's equipment (`Equip`) and
that of a login's ownership check (`CheckFails`, after which the login goes on);
the ghosts `bare` and `unchecked` remember them. A login names an account or
none (`JoinServer`), and any account may be claimed. `OtherShip`
stands for the other handlers that add ships. Unique columns are those of the
migrations: both of `yostarus_maps` and the ship id; the name is not unique.
`Sequences` selects PostgreSQL (ids from a sequence) or SQLite (maximum plus
one). The branch `create_player.skip_onboarding` is off by default and left out.

### Affinity
One ship, its row and the map of each session; the loop's tick and login ticks,
one action per statement. A tick may fail at each of them (`TickFails`), and
`close()` cancels that of its own login (`Leaves`); a COMMIT that lands while
the cancellation is on its way is the statement, then the departure. The loop
takes its snapshot of the registered clients (`LoopLists`), and is with other
players of its round before and after it comes to this one (`listed`, `left`),
where it awaits each push. `active` is the entry in that registry, which any
close of the commander's sessions deletes. The loop of `compute_secretary_tick` is the recursive
function `Granting` over its local variables, which yields every outcome the
random intervals allow. Battles are
one step, as `_apply_battle_ship_updates` awaits nothing. `Reload` is
`Commander.load()` of a session that goes on. A change of secretary and dorm
claims are left out.

### ClientOutbound
Messages are numbered as they are appended to `Client._buffer`. A task is where
its flush is: it owes one, waits in `drain()`, has been woken, or is at the
`finally` that clears the buffer; `clear` is a `drain()` that returned without
suspending, when the loop runs nothing else but threads (`ThreadSays`) do.
`BreaksOff` is a task that fails between what it said and its flush. `Closes` is
`close()`, which cancels the dispatcher, whose `finally` then clears the buffer
as well; `Cancelled` is the same that happens to another client's dispatcher
(`Foreign`) while it waits for this client's peer.

### Wallet
One balance: its row (`amount`), the live map (`live`), the slot of the guild
shop it is spent on, and SQLite's write lock. A handler is at a statement and in
a phase of it: asked of the driver's thread, holding the lock (`held`), asked to
commit, done, failed. `loop` is the synchronous statement that blocks the event
loop. What a thread does (`ThreadReads`, `ThreadLocks`, `ThreadCommits`) goes on
while the loop is blocked; what the loop does (`LoopCommits`, `LoopResumes`)
does not, and that is how the two wait for each other. `Cancels` is the close of
a handler's connection: what its thread has been asked for is still done, and
`LoopUnwinds` rolls back what was not committed.

### Missions
Two rows that every writer loads, changes and saves: a mission of
`commander_tasks` and the weekly state as a whole. Emits are detached tasks, one
action per statement; the dispatcher rolls the day and the week over, opens the
page, submits. A synchronous weekly handler is two actions, its load and its
save, since an emit's statement may land between them; a page is four (roll-over
or request, clock, load, save), since it awaits between them. Loads and saves of
the weekly row may fail without anyone noticing: to an emit and to a page a
failed load is no row, and both then replace the week's. `now` counts Mondays.
The weekly row has one chain of missions; at its end the row has none, and the
next emit begins the week again.

### Shipyard
`settle_build_queue` is `Settle`, in its three steps `Requeue`, `Promote`,
`Schedule`. Rows are a function of their ids, whose order is the order of rows.
The heap of the third step is a function of who holds a slot to the time at
which it is free, and the recursive function `SlotsAfter` is the heap after each
build; the build that waits takes the slot `SlotFor`. A synchronous call (`desk`)
loads the rows and persists the plan in two actions, since an awaited statement
of a quick finish, or the REST API (`AdminActs`: it places, moves or deletes a
build), may land between; an UPDATE of a row that is gone does nothing;
orders and wishes add rows, `Hurry*` are the statements of the detached quick
finish, `InfoReads` and `InfoIsKept` those of `handle_build_finish`, `Collects`
and `CollectFails` is `handle_get_ship`. `unusual` remembers which exceptions
have happened; each property names those it needs: an order is not excused by
a quick finish, but the moment at which a quick finish has ended a build and has
not settled yet is (`Hurrying`).

### Sorties
The three rows of a sortie: map, battle, progress. One action per packet, since
the handlers are synchronous; inside `Settles` and `OpensBox` a failure is
chosen between any two commits (`done`, `saved`). Positions are model values,
and a wave is any set of free positions with any expeditions on them, so every
outcome of the random draws is explored. `handle_begin_stage` asks neither for a
sortie nor where the fleet is, so a battle may begin for any expedition at any
time (`Begins`), and settling one whose expedition is not on the map beats
nobody. `Moves` is also the teleport of a submarine; nobody checks who is on the
cell (only main groups are kept apart, in their search for a path).

## Runs

Bounds are constants of the modules, all named in their cfg.

| Run | Bounds | Shows |
|---|---|---|
| login | 3 connections, 1 commander, detached unlocks and quits, loads that fail | two logins in the dict never kick each other; registered clients are open; the entry of a commander goes with its owner only. Three connections are enough for a login, the one it kicks, and one that interferes |
| play | 2 connections, 1 commander, 1 room, detached creations, loads that fail, 1 sweep, no two hashes alike | types (no room counts a client a negative number of times); every open connection is reachable; with the sweep over a closed door has emptied the server, though one connection arrives, logs in, kicks or hangs up while the sweep waits for the other |
| inactive_client | 2 connections | finding, see below |
| inbound | queue of 2, 5 packets | types, order, nothing handled after a close, the way down of a connection, the refinement with its liveness. The queue fills, and the reader is suspended in `put` |
| outbound | dispatcher, 2 other tasks, 2 kicks, one of each by another client's dispatcher, 4 messages | a message is dropped from an open connection only if it was said during a flush; nothing first appears after something said later; whatever is in the buffer has a task that will flush it, unless it was a thread's or its task has failed; without overlap each message comes once; a kick ends, unless its own connection goes. Two flushes and a close overlap in every way |
| create | 3 clients, 2 users, 2 devices (one device shared by two users, one user with two clients), 2 requests, 1 fault, 1 other ship, 2 starter ships, 2 attempts, SQLite's ids | acknowledged accounts are complete (but for equipment whose statement failed); an account has one user and a user keeps its account; the device row agrees with the account map (unless the check of its last login failed); every request ends. Two requests make every race of two creations, of a creation and a login, and of two logins |
| affinity | 2 sessions, the loop and one login tick, intervals of 2 and 3, points of 2 up to 5; one event among a second login, a battle, a failing statement and a clock set back | one point per interval (unless two ticks overlap; what a tick granted that broke off before its anchor is granted once more) and no debt; what is due to a registered player is granted in the end, if no peer keeps the loop for ever. The cap is odd, so the last point is partial; two intervals and a debt fit |
| missions | 2 missions (a daily one, one that takes goods), 2 emits of 3 in all at once, a chain of 2 stages, 2 tiers, 1 Monday, 1 fault | an event that an emit saved this week is in this week's row, unless a page, a handler, a failed load or an emit that found all missions done put another in its place; a tier is on record only when it was paid and is paid once; a daily mission pays once a day; goods before rewards |
| shipyard | 2 slots, 4 builds of lengths 1 and 2, capacity 2, 2 quick finishes, 2 extra events | never more countdowns than slots, at no present or planned time (unless two quick finishes overlap and one settles with a past clock); no slot wasted and nobody passed; whether somebody polls makes no difference; a ship after its time and once; drills are paid and what they finish stays finished |
| sorties | 1 group, 2 enemy grids, a boss, a box, waves, 2 sorties, 4 battles, 1 ambush, 1 failure | a sortie always has its boss beaten or somebody left to fight; one enemy per battle; loot, progress, announcements and boxes for what was fought |
| wallet | 2 asynchronous handlers at once of 3, cancelled at any await, 2 synchronous operations, price 2, balance 3, stock 2 | goods go out for nothing only when another transaction overtook the check; the slot is not oversold unless its count was raced; the live map follows the row; every handler ends, by the busy timeout if need be |
| locked | the same | finding |

`CHECK_DEADLOCK FALSE` is set throughout: connections open once, requests and
time are bounded, and a server without clients rests.

### Fairness
* `ClientInbound`: weak fairness of the reader, the dispatcher and the close
  task, because the event loop runs every task that can go on and handlers wait
  for the database at most. Nothing is asked of the peer: it may stop sending
  and never hang up.
* `Onboarding`: weak fairness of the statements of a request; not of new
  requests, failures or crashes.
* `Affinity`: weak fairness of the loop's awakening (it sleeps 60 seconds, and
  a failing tick is logged and skipped) and of the statements of a tick; not of
  players, battles or the clock, and not of the rest of the loop's round:
  `send_message` drains, and a peer that stays connected and never reads stops
  the loop for all players. `DueIsGranted` has that as its hypothesis.
* `ClientOutbound`: weak fairness of each task's next step and of the peer's
  reading: a peer that never reads is given up by the network, which wakes the
  writers as well.
* `Wallet`: weak fairness of the driver's threads, of the resumption of each
  handler (the loop runs what is ready in turn), and of the statement that
  blocks the loop, which ends by itself or by the busy timeout.
* `Sessions`, `Missions`, `Shipyard` and `Sorties` check safety only and state
  no fairness: nothing in the last two happens unless a player asks for it.

## Findings
What comments say, and the code does not do:

* `inactive_client`: `unregister_active_client` deletes by commander id; the old
  session's close removes the new session's entry, and the ticker forgets an
  online player (`orm/secretary.py:256-257`: "to every connected commander").
* `locked`: `db/session.py:112-113` says that the busy timeout "makes the writer
  wait instead of raising 'database is locked'". The writer on the loop waits
  for a transaction whose COMMIT is asked for by a coroutine that the loop
  cannot resume; the whole server stands still for 30 seconds, and then the
  error is raised. On PostgreSQL (a row lock, psycopg2 on the loop against
  asyncpg) no timeout is set at all, and the two would wait for ever: the
  mutant `GivesUp_Never` of `HandlersEnd`.

Also met while modelling, without a run of their own.

Sessions and accounts:
* a detached creation finishes after its connection has closed and registers the
  closed session for good (`answer/onboarding/handlers.py:122`; the registry is
  "cleared on disconnect", `orm/active_commander.py:10-11`);
* a creation that breaks off after its first row leaves a user who can neither
  log in nor create (`orm/commander.py:122`); a starter ship's id can be taken
  between its `SELECT MAX(id)` and its `INSERT` (`:155-170`), with the same end;
* a starter ship may lack its equipment: what its INSERTs raise is only logged
  (`orm/commander.py:78-80`), and the player is told that all went well;
* when the ownership check of a login raises, the login goes on with whatever
  account the client has named (`answer/join_server.py:104-105`) and binds the
  device to it (`:182-187`): whoever of that device has no account yet is then
  answered "new player" at login and "exists" by CS_10024;
* a reload restores the column `room_id` over the attribute, so CS_50102
  broadcasts to a room its sender has left (`answer/chat/handlers.py`).

Affinity:
* login catch-up and loop may grant the same interval (`orm/secretary.py:169`);
* so may two ticks one after the other: the points and the anchor are two
  commits (`:210-218`), and a failure (`:275-278`) or, at login, `close()` may
  come between them;
* a session that an older one's close has removed from the registry (finding
  `inactive_client`) is not visited at all, so `DueIsGranted` is about
  registered players; and one push to a peer that never reads (`:282`) stops the
  loop for everybody;
* a tick lowers a ship over the cap to the cap (`:211`);
* a battle between a tick's UPDATE and its bump of the map writes the old
  intimacy over the granted point, and the map differs from the row afterwards.

Outbound:
* what is appended between a flush's write and its clear is lost
  (`connection/client.py:71-79`), and a second flush during a drain writes the
  first one's bytes again;
* an emit that has pushed SC_20002 and fails in its weekly part skips its flush
  (`answer/task_handlers.py:2043-2047`): the message waits for whoever flushes
  next;
* a login that kicks waits for its victim's peer. If its own connection is
  closed meanwhile, its dispatcher is cancelled there (`connection/client.py:111`)
  and the victim is never closed (`answer/join_server.py:151`).

Missions:
* the branch that would record a submitted mission without a row can never run
  (`answer/task_handlers.py:350`: `task` was replaced by a stand-in at `:278`),
  so that its comment's "the submit cannot repeat" fails;
* an emit that loaded before Monday carries last week's points into the new
  week; pages and submissions take no lock and may lose an emit's save;
* a load that fails is taken for "no row", and the week's progress, points and
  tiers are replaced by an empty row (`orm/weekly_task_progress.py:78-79`,
  `answer/task_handlers.py:1722`, `answer/weekly_task_cluster.py:138`): a paid
  tier can then be claimed again;
* a page reads its clock before it awaits the row
  (`answer/weekly_task_cluster.py:128-137`): over midnight of Monday it replaces
  the new week's row by one of the old week;
* when every chain is finished, the next event begins the week anew, points and
  tiers included (`answer/task_handlers.py:1722`, `not state["tasks"]`).

Build dock:
* a quick finish of one position finishes two builds; two at once spend one
  drill for two; a settling that loaded before a quick finish's update takes it
  back; `handle_build_finish` puts rows it read earlier over the cache;
* "at most `BUILD_DOCK_SLOTS` constructions tick at once"
  (`answer/shipbuild/helpers.py:76-77`) fails when two quick finishes overlap and
  one of them settles with a clock it read before: by that clock a queued build
  that the other has finished since is promoted on top of those that run, and
  the heap has one slot too many for the builds that follow. `NoOverbooking`
  excepts that, and nothing else but the API. It was met when the invariant was
  to be proved; TLC shows it with one slot, four builds and `MaxEffort = 6` once
  that exception is taken out, while the run's two slots need a fifth build;
* orders ignore `MAX_BUILD_WORK_COUNT` (wishes respect it); gold is taken after
  the builds are committed.

Sorties:
* a failed settlement can be repeated and beats another enemy of the
  expedition; when the drops fail, a first clear is recorded and never emitted
  (`answer/battle_session.py:1971`: "emit the completion event exactly once");
  when the map cannot be saved, the battle ends for nothing;
* a box whose map cannot be saved opens again; a wave may stand on an ambush; a
  move to one's own cell raises `UnboundLocalError` (`chapter/handlers.py:360`).

Wallet:
* a charge that finds the balance short is not reported to its caller, and the
  goods go out; a refresh fills the slots before it is charged;
* the row stops at zero, the map does not; `load()` over an unreported charge
  counts it twice; coloring awards replace the balance
  (`answer/coloring_helpers.py:231`); the API, the dorm and coloring leave the
  map; when the grant raises, the coins are gone and the goods not there;
* a handler that `close()` cancels while its COMMIT runs in the driver's thread
  (`client.py:111`, `resource.py:98`) has charged the row and never bumps the
  map: that of a second session of the same commander stays ahead by the price
  until it is loaded again. `LiveFollowsRow` excepts such a charge.

## Proofs
`Client_proofs` proves of `ClientInbound`, for every capacity of the queue and
every number of packets, from `CapacityAssumption` and `MaxPacketsAssumption`:

* `InboundTypeCorrect`: `InboundSpec => []InboundTypeOK`, the bound of the queue
  included;
* `PacketsKept`: `InboundSpec => []PacketsInOrder`;
* `CloseIsFinal`: `InboundSpec => NothingHandledAfterClose`;
* `Refinement`: `InboundSpec => Order!SafeSpec`.

`PacketsInOrder` is not inductive in the form that reads well, because it speaks
of the queue with the packet in the reader's hand appended. The inductive
invariant `InboundInv` splits it into `Accounted` (packets taken, queued and in hand
add up to those read) and `Consecutive` (the queue is a run of numbers after
the last one taken), with the types; and adds `ClosedIsDead`, closing cancels
the dispatcher, without which an action after close() could not be excluded.
`Counting` and `Flags` are proved separately, since one needs arithmetic and
the other only propositional reasoning.

`Sessions_proofs` proves, for every set of connections, commanders, rooms and
`disconnect_all` tasks, every hash function and every set of admitted addresses,
from `ConstantsAssumption` and `NoObjAssumption`:

* `TypeCorrect`: `Spec => []TypeOK`;
* `EntriesStay`: `Spec => EntryLeavesWithItsOwner`;
* `LiveConnectionsKept`: `Spec => []OpenIsReachable`;
* `MaintenanceEmptiesServer`: `Spec => []ClosedDoorEmptiesServer`;
* `LoginsKickOneWay`: `Spec => []NoMutualKick`;
* `ActiveClientsAreOpen`: `Spec => []ActiveClientIsOpen`, if nothing creates
  accounts on the side (`"create" \notin Detached`) and a connection fetches one
  object (`MaxObjects = 1`).

The invariant `IInv` adds to the types what keeps close(), a kick or a handler
from touching a connection that never entered: the dict, the closing list and
the snapshots hold accepted connections only (`KnownEntered`), so does whoever
is being disconnected, and no login disconnects itself (`VictimsEntered`);
nothing runs for others (`ActiveEntered`); a session is an object that its own
connection fetched (`OwnSession`); a finished creation knows its id
(`JobHasId`). `TypeOK` needs it (a kick without a victim would close nobody),
and `EntriesStay` follows from `OwnSession`: what close() removes is the
client's own object. `OpenIsReachable` is inductive on top of `IInv`, because a
slot changes hands only between connections whose hashes collide, and accepted
connections stay accepted (`StateStep`). For the closed door, `DoorInv` says
who will still disconnect an open connection (`Doomed`): a task that has not
yet taken its snapshot, or that has the connection in its snapshot or at hand.
The snapshot is complete because `OpenIsReachable` holds when it is taken.

For `NoMutualKick`, `KInv` has the dict in order: each key once, with the client
of that hash (`DictIsSound`), and a login kicks only a client that stands before
it (`VictimIsOlder`): whoever enters does so at the end, a removal keeps the
order of the others, and the scan takes the first entry of the commander, which
is nobody to kick if it is the login's own. Two logins cannot each be before the
other.

For `ActiveClientIsOpen`, `LInv` says for each connection that its dispatcher
runs only while it is open (`Alive`), that it closes others only while its login
waits for it (`Waits`), and that whoever is registered is open and still has the
commander it is registered for (`Registered`), so that its `close()` takes the
entry along. Both hypotheses are needed: a detached creation registers a session
that may be closed, and a second login replaces the session that the entry would
leave with. The run `login` has them.

`DInv` and `IInv` were also checked by TLC on the `play` instance. No hashes
collide there, so the case of collisions rests on the proof.

`Wallet_proofs` (from `WalletAssumption`), for every number of handlers, prices
and pieces of a slot: `SlotKept`, `FreeGoods` and `MapFollows`. Its
`IInv` says who holds what: the write lock is with exactly the handler that is
in a transaction (`LockIsHeld`), the loop waits only for a handler that waits
(`LoopServes`), and what a handler has read still holds unless somebody overtook
it (`HandlersSee`). `LiveFollowsRow` counts charges that are not in the map yet;
it is inductive on top of `IInv`, with the library's facts on cardinalities. A
handler that is cancelled leaves that count when it has committed, and the ghost
`off` says so.

`Client_proofs` proves of `ClientOutbound` (from `TasksAssumption`), for every
number of tasks, threads and messages, all four invariants of the run `outbound`. Steps
fall into five kinds (they append, write, drop, shut the connection, or stay),
and each part of `IInv` is shown once per kind. `InOrder` is the part that is
not a property: buffer, drains and wire are runs of what was said, in order.

`Onboarding_proofs` (from `ConstantsAssumption`), for every set of clients,
users, devices and names, both ways of drawing ids, any account a client claims,
and any faults and crashes: the three invariants of the run `create`, and
`AccountIsKept`. `Sound` says for
each client what its local variables still mean after others have run: the user
it looked up is in the database (`KnowsUser`), and all that its creation has
inserted by its stage belongs to its user's account (`Inserted`). It holds
because every step's database only grows (`Grows`) and because
`SELECT MAX(id) + 1` is no row's id (`NextIsFree`).

`Sorties_proofs` (from `SortiesAssumption`), for every map, table of waves,
stars and number of groups: all four invariants of the run `sorties`, and
`TypeOK`. `Books` is about what was granted: its heart is `OneKillLeft`, a
battle that is going on may still beat one enemy, which a failed settlement pays
for. `IInv` adds the map: every beaten enemy is one of the kills, and the wave
that is due after them has come (`CellsOK`). So before the boss is there, more
enemies have come than were beaten, and "no enemy left" needs a beaten boss
(`SomebodyIsThere`, `ClearMeansBoss`). Boxes found and boxes left together are
those of the sorties and of the failures (`BoxesOK`). It begins with the
lemmas about maps: what a new one, the next wave, a replaced or a removed cell
do to the number of cells of a kind. A least number of a set, which `At` and
`Targets` need, comes from the well-founded order of finite sets (`Least`).

`Missions_proofs` (from `MissionAssumption`), for every number of emits, weeks,
stages and tiers: all three invariants of the run `missions`. What an emit has
loaded counts every event of this week so far, and only the holder of the lock
writes it (`Counted`, `Holders`); this says what emits do to each other, and no
more: `beaten` excepts the writers without the lock, the failed loads and a week
begun anew. A tier
that was paid this week is on record in a row that no page is about to replace,
because the clock of one that is to load it is right (`PaidIsOnRecord`), and
only such a tier is (`RecordIsPaid`); a day's reward shows as a mark on that day's row
(`DailyIsEarned`).

`Affinity_proofs` (from `ConstantsAssumption`), for every set of intervals and
battle results, cap, point and number of sessions and logins: both invariants of
the run `affinity`, `TypeOK`, and `AnchorMovesForward` (`last` never goes back,
though the clock may). What the loop of `compute_secretary_tick` ends with is a
lemma about `Granting`: each point has cost at least a shortest interval, and
less than an interval is left unless the cap is reached. The
invariant `AInv` speaks of ticks that have never overlapped: what the one that
is under way has in its local variables is what the row says (`Holds`); the
points granted so far, without those of ticks that broke off before their anchor
(`unmoved`), were paid for by minutes between the first anchor and the
present one, or the one about to be persisted (`Paid`); after a complete tick
less than an interval is left (`NoDebt`).

`Shipyard_proofs` (from `ShipyardAssumption`), for every number of slots,
builds, quick finishes, any build times and any orders: the four invariants of
the run `shipyard`, its action property `TakesItsTime`, and `TypeOK`. It is
built in three layers.
* The planner, for any rows and clock. The loop of the third step keeps a
  balance (`InStep`): for every moment from the clock on, as many slots are free
  later than it as there are builds that tick at it or were given a slot at it.
  From the balance, a plan needs no more slots than there are, and before a
  build starts all of them are taken (`PlanFits`). Starts do not decrease, so
  the order of rows is kept (`SettleKeepsOrder`). If rows are a plan already
  (`Planning`: it fits, it is tight, it is in order), the loop finds each start
  again (`StartsAgain`), so settling twice is settling once (`SettlesTwice`).
* The rows a settling may be given. A call settles the rows it has loaded, with
  the clock it read, and a quick finish may have ended builds since. `Fits` is
  what a settling needs: no more run than there are slots, or nothing is there
  to be promoted. `Booked`, `DeskFits` and `HurriesFit` say so of the rows, of
  those that a call has in hand, and of the rows and clock with which each quick
  finish under way will settle; `DeskIsCurrent` and `DeskHasTheRows` relate
  what a call has in hand to what there is.
* The order and the accounts. `InOrder` is not inductive: a build that has ended
  unseen, and is ended again by hand, seems to start later than a longer build
  behind it, until the quick finish settles. What stays is the order of builds that are not
  finished (`Orderly`), and from it the settling makes a tight plan in order
  again, which holds as long as nothing is under way (`CalmIsTight`). `Spends`,
  `StaysFinished`, `Once` and `TimeIsDue` keep the accounts of drills, of ships,
  and of the time of each build.
`PollingDoesNotMatter` is stated up to a horizon for TLC; the lemma
`SettlesTwice` has none.

A recursive function is a `CHOOSE`, so that its equation has a solution must be
proved as well. `SlotsExist` and its counterpart in `Affinity_proofs` do it
without an induction theorem: a number for which it fails would have a least
one (`Least`, from the well-founded order of numbers), and that one does not
fail. `InStep` is proved for every build in the same way.

So every invariant and every action property that a passing run checks is a
theorem, with `TypeOK` of every module. Model-checked only: all liveness
(`ConnectionGoesDown`, `KickEnds`, `RequestEnds`, `DueIsGranted`,
`HandlersEnd`, and the liveness part of `ImplementsPacketOrder`), since fairness
and ENABLED are outside the prover's reach.

## Not modelled
* Mail, compensation, commissions, dorm simulation, tactics, technology,
  exercise, world and most other handlers: each is one synchronous handler that
  reads and writes rows of its own commander. What could go wrong between its
  commits is the same everywhere, and `Submits`, `Settles`, `CollectFails` show
  it where most depends on it. Of the resources and items they use, `Wallet` is
  the model.
* Guild offices and joint rows, the REST API's sessions and challenges, the
  migrator, backups: worth a module each, see the plan.
* Generated protobuf code, data import, configuration, logging, drawing of
  random numbers, documentation: no state that play depends on.
* Inside the modelled parts: `create_player.skip_onboarding`, the REST handlers
  that no route mounts, other sub types of missions, blueprint research and
  exchange draws, fuel, ammunition, damage, strategies, quick battles and
  submarines of a sortie, shops other than the guild's.

## Plan
Done: `ClientInbound`, `ClientOutbound`, `Sessions`, `Onboarding`, `Affinity`,
`Wallet`, `Missions`, `Shipyard`, `Sorties`.

1. `Commissions` (start, finish, give up; a ship serves once), `MailClaim`:
   against an abstract "granted at most once" that `Shipyard` implements too.
2. `Guild`: join requests and offices, where two players write joint rows.
3. `ApiAuth`, `Migrator`, `Backups`.

Bounds stay at two or three actors and two units of each resource. No module to
be proved about declares a RECURSIVE operator.
