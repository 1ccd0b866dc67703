------------------------------ MODULE Sessions ------------------------------
(***************************************************************************)
(* The session layer of the game server: Server._clients and the chat      *)
(* rooms (connection/server.py), the life of a Client (connection/         *)
(* client.py), the registries of live commanders (orm/active_commander.py) *)
(* and the login handler that kicks the previous session of a commander    *)
(* (answer/join_server.py).                                                *)
(*                                                                         *)
(* Everything runs on one asyncio event loop, so a step of the model is    *)
(* the code between two awaits.  The actors are, per connection, the       *)
(* reader coroutine and the dispatcher task; the close() tasks that        *)
(* remove_client spawns; the disconnect_all tasks; a request of the admin  *)
(* API; and handler tasks that outlive the handler that spawned them.      *)
(***************************************************************************)
EXTENDS Naturals, Sequences, FiniteSets

CONSTANTS
  Conn,        \* TCP connections, each opened at most once
  Commander,   \* commander ids
  Room,        \* chat rooms
  DefaultRoom, \* commanders.room_id of every commander
  HashVal,     \* values of Client.hash
  Hash,        \* Client.hash: the sum of the characters of "ip:port"
  Allowed,     \* connections whose address _allow_client_ip accepts
  Detached,    \* kinds of detached handler task the clients trigger
  MaxObjects,  \* bound: Commander objects created by one connection
  MaxJoins,    \* bound: times a connection is in the list of one room
  Sweep,       \* bound: the disconnect_all tasks that may be spawned
  API,         \* the admin API's kick
  LoadMayFail, \* whether Commander.load() may raise
  NoConn, NoObj

Actor == Conn \cup Sweep \cup {API}

ASSUME ConstantsAssumption ==
  /\ Hash \in [Conn -> HashVal]
  /\ Allowed \subseteq Conn
  /\ Detached \subseteq {"create", "unlock", "quit"}
  /\ MaxObjects \in Nat /\ MaxJoins \in Nat /\ LoadMayFail \in BOOLEAN
  /\ NoConn \notin Conn
  /\ Conn \cap (Sweep \cup {API}) = {} /\ API \notin Sweep

(* A Commander object: the identity of a Python object is the connection   *)
(* that fetched it and a serial number.                                    *)
Object == [owner : Conn, serial : 1..MaxObjects, id : Commander]

ASSUME NoObjAssumption == NoObj \notin Object

VARIABLES
  maintenance,      \* Server._maintenance
  slot,             \* Server._clients: hash -> client
  order,            \* the keys of that dict, in insertion order
  rooms,            \* Server._rooms: how often each client is in each list
  state,            \* "new", "rejected", "open", "closed" (Client._closed)
  reader,           \* the reader coroutine: "off", "reading", "done"
  closing,          \* clients with a close() task that has not run
  session,          \* Client.commander
  roomId,           \* its attribute room_id
  made,             \* Commander objects the connection has fetched
  pc,               \* where the connection's dispatcher task is suspended
  acct,             \* account_id of the login in progress
  kick,             \* actor -> the disconnect it is carrying out
  sweep,            \* disconnect_all tasks
  job,              \* detached handler task of a connection
  exists,           \* rows of table commanders
  activeCommander,  \* _ACTIVE_COMMANDERS
  activeClient      \* _ACTIVE_CLIENTS

dict     == <<slot, order, rooms, closing>>
life     == <<state, reader>>
player   == <<session, roomId, made, exists>>
handler  == <<pc, acct>>
tasks    == <<kick, sweep, job>>
registry == <<activeCommander, activeClient>>
vars     == <<maintenance, dict, life, player, handler, tasks, registry>>

Idle == [stage |-> "idle", victim |-> NoConn]
NoJob == [kind |-> "none", id |-> NoConn]

Listed(c) == slot[Hash[c]] = c
LoggedIn(c, id) == session[c] # NoObj /\ session[c].id = id

Kick == [stage : {"idle", "notice", "closed"}, victim : Conn \cup {NoConn}]
SweepTask == [stage : {"unused", "ready", "running", "done"},
              rest : SUBSET Conn]

TypeOK ==
  /\ maintenance \in BOOLEAN
  /\ slot \in [HashVal -> Conn \cup {NoConn}]
  /\ order \in Seq(HashVal)
  /\ rooms \in [Room -> [Conn -> Nat]]
  /\ state \in [Conn -> {"new", "rejected", "open", "closed"}]
  /\ reader \in [Conn -> {"off", "reading", "done"}]
  /\ closing \subseteq Conn
  /\ session \in [Conn -> Object \cup {NoObj}]
  /\ roomId \in [Conn -> Room \cup {DefaultRoom}]
  /\ made \in [Conn -> 0..MaxObjects]
  /\ pc \in [Conn -> {"off", "idle", "fetch", "verify", "tick", "kick",
                      "reply", "dead"}]
  /\ acct \in [Conn -> Commander \cup {NoConn}]
  /\ kick \in [Actor -> Kick]
  /\ sweep \in [Sweep -> SweepTask]
  /\ job \in [Conn -> [kind : {"none", "create", "created", "unlock", "quit"},
                       id : Commander \cup {NoConn}]]
  /\ exists \subseteq Commander
  /\ activeCommander \in [Commander -> Object \cup {NoObj}]
  /\ activeClient \in [Commander -> Conn \cup {NoConn}]

Init ==
  /\ maintenance \in BOOLEAN
  /\ slot = [h \in HashVal |-> NoConn] /\ order = <<>>
  /\ rooms = [r \in Room |-> [c \in Conn |-> 0]]
  /\ closing = {}
  /\ state = [c \in Conn |-> "new"] /\ reader = [c \in Conn |-> "off"]
  /\ session = [c \in Conn |-> NoObj]
  /\ roomId = [c \in Conn |-> DefaultRoom] /\ made = [c \in Conn |-> 0]
  /\ pc = [c \in Conn |-> "off"] /\ acct = [c \in Conn |-> NoConn]
  /\ kick = [k \in Actor |-> Idle]
  /\ sweep = [s \in Sweep |-> [stage |-> "unused", rest |-> {}]]
  /\ job = [c \in Conn |-> NoJob]
  /\ exists \in SUBSET Commander
  /\ activeCommander = [i \in Commander |-> NoObj]
  /\ activeClient = [i \in Commander |-> NoConn]

-----------------------------------------------------------------------------
(* Pieces of code that several actors run.                                 *)

(* The key h leaves the dict, which holds it once at most.                 *)
Without(keys, h) ==
  IF h \notin {keys[i] : i \in DOMAIN keys} THEN keys
  ELSE LET i == CHOOSE j \in DOMAIN keys : keys[j] = h IN
       SubSeq(keys, 1, i - 1) \o SubSeq(keys, i + 1, Len(keys))

(* Mutant: list.remove without the membership test.                        *)
RemoveClient_NoTest(c) ==
  /\ rooms' = [r \in Room |-> [rooms[r] EXCEPT ![c] = @ - 1]]
  /\ closing' = closing \cup {c}
  /\ slot' = [slot EXCEPT ![Hash[c]] = NoConn]
  /\ order' = Without(order, Hash[c])

(* Mutant: the client leaves the dict, but nothing closes it.              *)
RemoveClient_NoClose(c) ==
  /\ slot' = [slot EXCEPT ![Hash[c]] = NoConn]
  /\ order' = Without(order, Hash[c])
  /\ UNCHANGED <<rooms, closing>>

(* Server.remove_client: one occurrence leaves each room, close() is       *)
(* scheduled, and the slot of the client's hash goes, whoever holds it.    *)
RemoveClient(c) ==
  /\ rooms' = [r \in Room |->
                [rooms[r] EXCEPT ![c] = IF @ > 0 THEN @ - 1 ELSE 0]]
  /\ closing' = closing \cup {c}
  /\ slot' = [slot EXCEPT ![Hash[c]] = NoConn]
  /\ order' = Without(order, Hash[c])

(* Mutants: the registry is cleared by id, or not at all.                  *)
UnregisterCommander_ById(c) ==
  activeCommander' = [activeCommander EXCEPT ![session[c].id] = NoObj]
UnregisterClient_Forgotten(c) == UNCHANGED activeClient

(* unregister_active_commander removes the entry only if it is this very   *)
(* object; unregister_active_client removes it by commander id alone.      *)
UnregisterCommander(c) ==
  activeCommander' = [i \in Commander |->
    IF activeCommander[i] = session[c] THEN NoObj ELSE activeCommander[i]]

UnregisterClient(c) ==
  activeClient' = [i \in Commander |->
    IF session[c].id = i THEN NoConn ELSE activeClient[i]]

(* Client.close up to its await: a no-op on a closed client; otherwise the *)
(* registries are cleared and the dispatcher task is cancelled.            *)
Close(c) ==
  /\ state' = [state EXCEPT ![c] = "closed"]
  /\ pc' = [pc EXCEPT ![c] = "dead"]
  /\ IF state[c] = "closed" \/ session[c] = NoObj
     THEN UNCHANGED registry
     ELSE UnregisterCommander(c) /\ UnregisterClient(c)

(* Commander.load copies every column of the row into the object, room_id  *)
(* with the others, and ends with register_active_commander.               *)
Load(c, o) ==
  /\ activeCommander' = [activeCommander EXCEPT ![o.id] = o]
  /\ roomId' = [roomId EXCEPT ![c] = DefaultRoom]

(* load() raises on the way: the columns may have been copied by then.     *)
LoadFails(c) ==
  /\ LoadMayFail
  /\ roomId' \in {roomId, [roomId EXCEPT ![c] = DefaultRoom]}
  /\ UNCHANGED activeCommander

(* disconnect_commander's scan: the first client of the dict, in insertion *)
(* order, whose commander has this id.                                     *)
Matching(id) == {i \in DOMAIN order : LoggedIn(slot[order[i]], id)}
FirstMatch(id) ==
  IF Matching(id) = {} THEN NoConn
  ELSE slot[order[CHOOSE i \in Matching(id) : \A j \in Matching(id) : i <= j]]

NewObject(c, id) == [owner |-> c, serial |-> made[c] + 1, id |-> id]
CanCreate(c) == made[c] < MaxObjects

Ready(c) == state[c] = "open" /\ pc[c] = "idle"

-----------------------------------------------------------------------------
(* Connections come and go.                                                *)

MayEnter(c) == ~maintenance /\ c \in Allowed

Reject(c) ==
  /\ state[c] = "new" /\ ~MayEnter(c)
  /\ state' = [state EXCEPT ![c] = "rejected"]
  /\ UNCHANGED <<dict, player, handler, tasks, registry, maintenance, reader>>

(* _add_client and start_dispatcher; a colliding hash overwrites the slot, *)
(* which keeps its place in the dict.                                      *)
Accept(c) ==
  /\ state[c] = "new" /\ MayEnter(c)
  /\ state' = [state EXCEPT ![c] = "open"]
  /\ reader' = [reader EXCEPT ![c] = "reading"]
  /\ pc' = [pc EXCEPT ![c] = "idle"]
  /\ slot' = [slot EXCEPT ![Hash[c]] = c]
  /\ order' = IF slot[Hash[c]] = NoConn THEN Append(order, Hash[c]) ELSE order
  /\ UNCHANGED <<player, tasks, registry, maintenance, rooms, closing, acct>>

(* The reader coroutine ends: EOF, a bad frame, an error, or a closed      *)
(* client; its finally clause removes the client.                          *)
ReaderEnds(c) ==
  /\ reader[c] = "reading"
  /\ reader' = [reader EXCEPT ![c] = "done"]
  /\ RemoveClient(c)
  /\ UNCHANGED <<player, handler, tasks, registry, maintenance, state>>

(* The close() task remove_client spawned.                                 *)
CloseTask(c) ==
  /\ c \in closing
  /\ closing' = closing \ {c}
  /\ Close(c)
  /\ kick' = [kick EXCEPT ![c] = Idle]
  /\ UNCHANGED <<player, maintenance, slot, order, rooms, reader, acct, sweep,
                 job>>

(* A handler raised or returned an error: close_with_error.                *)
HandlerFails(c) ==
  /\ Ready(c)
  /\ Close(c)
  /\ UNCHANGED <<dict, player, tasks, maintenance, reader, acct>>

-----------------------------------------------------------------------------
(* CS_10022: the login handler, one action per stretch between awaits.     *)

JoinServer(c, id) ==
  /\ Ready(c) /\ CanCreate(c)
  /\ acct' = [acct EXCEPT ![c] = id]
  /\ pc' = [pc EXCEPT ![c] = "fetch"]
  /\ UNCHANGED <<dict, life, player, tasks, registry, maintenance>>

(* client.commander = await get_commander_core_by_id(account_id).  The     *)
(* object is visible to disconnect_commander before it is verified.        *)
JoinFetched(c) ==
  /\ pc[c] = "fetch"
  /\ IF acct[c] \in exists
     THEN /\ CanCreate(c)
          /\ session' = [session EXCEPT ![c] = NewObject(c, acct[c])]
          /\ roomId' = [roomId EXCEPT ![c] = DefaultRoom]
          /\ made' = [made EXCEPT ![c] = @ + 1]
          /\ pc' = [pc EXCEPT ![c] = "verify"]
     ELSE /\ session' = [session EXCEPT ![c] = NoObj]
          /\ pc' = [pc EXCEPT ![c] = "idle"]
          /\ UNCHANGED <<roomId, made>>
  /\ UNCHANGED <<dict, life, tasks, registry, maintenance, acct, exists>>

(* A database error before the fetch: the handler returns without a reply. *)
JoinFailed(c) ==
  /\ pc[c] = "fetch"
  /\ pc' = [pc EXCEPT ![c] = "idle"]
  /\ UNCHANGED <<dict, life, player, tasks, registry, maintenance, acct>>

(* The commander belongs to another user: it is dropped again.             *)
JoinRefused(c) ==
  /\ pc[c] = "verify"
  /\ session' = [session EXCEPT ![c] = NoObj]
  /\ pc' = [pc EXCEPT ![c] = "idle"]
  /\ UNCHANGED <<dict, life, tasks, registry, maintenance, roomId, made, acct,
                 exists>>

(* commander.load() raises: the commander stays set, nothing is registered *)
(* and the handler returns without a reply.                                *)
JoinBreaks(c) ==
  /\ pc[c] = "verify" /\ session[c] # NoObj
  /\ LoadFails(c)
  /\ pc' = [pc EXCEPT ![c] = "idle"]
  /\ UNCHANGED <<dict, life, tasks, maintenance, session, made, acct, exists,
                 activeClient>>

(* commander.load() and register_active_client.                            *)
JoinVerified(c) ==
  /\ pc[c] = "verify" /\ session[c] # NoObj
  /\ Load(c, session[c])
  /\ activeClient' = [activeClient EXCEPT ![session[c].id] = c]
  /\ pc' = [pc EXCEPT ![c] = "tick"]
  /\ UNCHANGED <<dict, life, tasks, maintenance, session, made, acct, exists>>

(* Mutant: the scan skips the newcomer and goes on.                        *)
JoinScan_SkipsItself(c) ==
  /\ pc[c] = "tick" /\ session[c] # NoObj
  /\ LET others == {i \in Matching(session[c].id) : slot[order[i]] # c} IN
     IF others = {}
     THEN pc' = [pc EXCEPT ![c] = "reply"] /\ UNCHANGED kick
     ELSE \E i \in others :
          /\ pc' = [pc EXCEPT ![c] = "kick"]
          /\ kick' = [kick EXCEPT ![c] = [stage |-> "notice",
                                         victim |-> slot[order[i]]]]
  /\ UNCHANGED <<dict, life, player, registry, maintenance, acct, sweep, job>>

(* After the secretary catch-up: disconnect_commander(..., exclude=c).  A  *)
(* scan that meets the newcomer first gives up.                            *)
JoinScan(c) ==
  /\ pc[c] = "tick" /\ session[c] # NoObj
  /\ LET t == FirstMatch(session[c].id) IN
     IF t \in {NoConn, c}
     THEN pc' = [pc EXCEPT ![c] = "reply"] /\ UNCHANGED kick
     ELSE /\ pc' = [pc EXCEPT ![c] = "kick"]
          /\ kick' = [kick EXCEPT ![c] = [stage |-> "notice", victim |-> t]]
  /\ UNCHANGED <<dict, life, player, registry, maintenance, acct, sweep, job>>

(* Punishments, device map, SC_10023.                                      *)
JoinReply(c) ==
  /\ pc[c] = "reply"
  /\ pc' = [pc EXCEPT ![c] = "idle"]
  /\ UNCHANGED <<dict, life, player, tasks, registry, maintenance, acct>>

-----------------------------------------------------------------------------
(* Disconnecting a client: SC_10999 has been written; then close(); then   *)
(* remove_client.  The actor is a login, a disconnect_all task or the API. *)

CloseVictim(k) ==
  /\ kick[k].stage = "notice"
  /\ LET v == kick[k].victim IN
     /\ Close(v)
     /\ kick' = [kick EXCEPT ![v] = Idle, ![k].stage = "closed"]
  /\ UNCHANGED <<dict, player, maintenance, reader, acct, sweep, job>>

RemoveVictim(k) ==
  /\ kick[k].stage = "closed"
  /\ RemoveClient(kick[k].victim)
  /\ kick' = [kick EXCEPT ![k] = Idle]
  /\ pc' = [c \in Conn |-> IF c = k THEN "reply" ELSE pc[c]]
  /\ UNCHANGED <<life, player, registry, maintenance, acct, sweep, job>>

(* POST .../kick: disconnect_commander without an excluded client.         *)
ApiKick(id) ==
  /\ kick[API] = Idle /\ FirstMatch(id) # NoConn
  /\ kick' = [kick EXCEPT ![API] = [stage |-> "notice",
                                    victim |-> FirstMatch(id)]]
  /\ UNCHANGED <<dict, life, player, handler, registry, maintenance, sweep,
                 job>>

(* set_maintenance, by PUT .../server/maintenance: closing the door spawns *)
(* a disconnect_all task.                                                  *)
SpawnSweep == \E s \in Sweep :
  /\ sweep[s].stage = "unused"
  /\ sweep' = [sweep EXCEPT ![s].stage = "ready"]

SetMaintenance(on) ==
  /\ maintenance' = on
  /\ IF on THEN SpawnSweep ELSE UNCHANGED sweep
  /\ UNCHANGED <<dict, life, player, handler, registry, kick, job>>

(* Mutant: the snapshot holds the logged-in clients only.                  *)
SweepStarts_LoggedIn(s) ==
  /\ sweep[s].stage = "ready"
  /\ sweep' = [sweep EXCEPT ![s] =
       [stage |-> "running",
        rest |-> {c \in Conn : Listed(c) /\ session[c] # NoObj}]]
  /\ UNCHANGED <<dict, life, player, handler, registry, maintenance, kick, job>>

(* disconnect_all takes its snapshot when the task first runs.  The order  *)
(* in which it goes through the snapshot is left open.                     *)
SweepStarts(s) ==
  /\ sweep[s].stage = "ready"
  /\ sweep' = [sweep EXCEPT ![s] = [stage |-> "running",
                                    rest |-> {c \in Conn : Listed(c)}]]
  /\ UNCHANGED <<dict, life, player, handler, registry, maintenance, kick, job>>

SweepNext(s) ==
  /\ sweep[s].stage = "running" /\ kick[s] = Idle
  /\ IF sweep[s].rest = {}
     THEN sweep' = [sweep EXCEPT ![s].stage = "done"] /\ UNCHANGED kick
     ELSE \E v \in sweep[s].rest :
            /\ sweep' = [sweep EXCEPT ![s].rest = @ \ {v}]
            /\ kick' = [kick EXCEPT ![s] = [stage |-> "notice", victim |-> v]]
  /\ UNCHANGED <<dict, life, player, handler, registry, maintenance, job>>

-----------------------------------------------------------------------------
(* Handlers of a logged-in client.                                         *)

(* A synchronous handler that reloads the commander, as CS_26004 does.     *)
Reload(c) ==
  /\ Ready(c) /\ session[c] # NoObj
  /\ Load(c, session[c])
  /\ UNCHANGED <<dict, life, handler, tasks, maintenance, session, made, exists,
                 activeClient>>

(* CS_11001 joins the commander's room, every time it is received.         *)
JoinRoom(c) ==
  /\ Ready(c) /\ session[c] # NoObj
  /\ roomId[c] \in Room /\ rooms[roomId[c]][c] < MaxJoins
  /\ rooms' = [rooms EXCEPT ![roomId[c]][c] = @ + 1]
  /\ UNCHANGED <<life, player, handler, tasks, registry, maintenance, slot,
                 order, closing>>

(* CS_11401: leave_room drops every occurrence from the room the attribute *)
(* names, join_room appends to the new one.                                *)
ChangeRoom(c, new) ==
  /\ Ready(c) /\ session[c] # NoObj
  /\ LET left == [r \in Room |->
                   [rooms[r] EXCEPT ![c] = IF r = roomId[c] THEN 0 ELSE @]] IN
     /\ left[new][c] < MaxJoins
     /\ rooms' = [left EXCEPT ![new][c] = @ + 1]
  /\ roomId' = [roomId EXCEPT ![c] = new]
  /\ UNCHANGED <<life, handler, tasks, registry, maintenance, slot, order,
                 closing, session, made, exists>>

(* A handler answers at once and leaves the work to a detached task.       *)
Spawn(c, kind) ==
  /\ Ready(c) /\ job[c] = NoJob /\ kind \in Detached
  /\ kind = "unlock" => session[c] # NoObj
  /\ job' = [job EXCEPT ![c] = [kind |-> kind, id |-> NoConn]]
  /\ UNCHANGED <<dict, life, player, handler, registry, maintenance, kick,
                 sweep>>

(* CS_10024: create_commander inserts a new account ...                    *)
CreateAccount(c, id) ==
  /\ job[c].kind = "create" /\ id \notin exists
  /\ exists' = exists \cup {id}
  /\ job' = [job EXCEPT ![c] = [kind |-> "created", id |-> id]]
  /\ UNCHANGED <<dict, life, handler, registry, maintenance, session, roomId,
                 made, kick, sweep>>

(* ... and then the commander is fetched, loaded and registered, whatever  *)
(* has become of the connection in the meantime; a failing load is logged. *)
CreatedLoads(c) ==
  /\ job[c].kind = "created" /\ CanCreate(c)
  /\ LET o == NewObject(c, job[c].id) IN
     /\ session' = [session EXCEPT ![c] = o]
     /\ \/ Load(c, o) /\ activeClient' = [activeClient EXCEPT ![o.id] = c]
        \/ LoadFails(c) /\ UNCHANGED activeClient
  /\ made' = [made EXCEPT ![c] = @ + 1]
  /\ job' = [job EXCEPT ![c] = NoJob]
  /\ UNCHANGED <<dict, life, handler, maintenance, kick, sweep, exists>>

(* A detached unlock reloads the commander.                                *)
UnlockLoads(c) ==
  /\ job[c].kind = "unlock"
  /\ IF session[c] = NoObj THEN UNCHANGED <<activeCommander, roomId>>
     ELSE Load(c, session[c]) \/ LoadFails(c)
  /\ job' = [job EXCEPT ![c] = NoJob]
  /\ UNCHANGED <<dict, life, handler, maintenance, session, made, kick, sweep,
                 exists, activeClient>>

(* The console command "kick": a detached task disconnects its own client. *)
Quit(c) ==
  /\ job[c].kind = "quit"
  /\ Close(c)
  /\ kick' = [kick EXCEPT ![c] = Idle]
  /\ job' = [job EXCEPT ![c] = NoJob]
  /\ UNCHANGED <<dict, player, maintenance, reader, acct, sweep>>

-----------------------------------------------------------------------------
Connection(c) ==
  \/ Reject(c) \/ Accept(c) \/ ReaderEnds(c) \/ CloseTask(c) \/ HandlerFails(c)
Login(c) ==
  \/ \E id \in Commander : JoinServer(c, id)
  \/ JoinFetched(c) \/ JoinFailed(c) \/ JoinRefused(c) \/ JoinBreaks(c)
  \/ JoinVerified(c) \/ JoinScan(c) \/ JoinReply(c)
Play(c) ==
  \/ Reload(c) \/ JoinRoom(c)
  \/ \E new \in Room : ChangeRoom(c, new)
  \/ \E kind \in {"create", "unlock", "quit"} : Spawn(c, kind)
  \/ \E id \in Commander : CreateAccount(c, id)
  \/ CreatedLoads(c) \/ UnlockLoads(c) \/ Quit(c)
Disconnect(k) == CloseVictim(k) \/ RemoveVictim(k)
Admin ==
  \/ \E id \in Commander : ApiKick(id)
  \/ \E on \in BOOLEAN : SetMaintenance(on)
  \/ \E s \in Sweep : SweepStarts(s) \/ SweepNext(s)

Next ==
  \/ \E c \in Conn : Connection(c) \/ Login(c) \/ Play(c)
  \/ \E k \in Actor : Disconnect(k)
  \/ Admin

Spec == Init /\ [][Next]_vars


-----------------------------------------------------------------------------
(* Safety.                                                                 *)

Collides(c) ==
  \E d \in Conn :
    d # c /\ Hash[d] = Hash[c] /\ state[d] \notin {"new", "rejected"}

(* The server never forgets a live connection: one that remove_client has  *)
(* taken out of _clients has its close() scheduled.  Only the collision of *)
(* two Client.hash values, which lets one connection overwrite or delete   *)
(* the slot of the other, makes an exception.                              *)
OpenIsReachable ==
  \A c \in Conn :
    state[c] = "open" => Listed(c) \/ c \in closing \/ Collides(c)

SweepsOver == \A s \in Sweep : sweep[s].stage \in {"unused", "done"}

(* Once the server is in maintenance and every disconnect_all task has     *)
(* ended, nobody is left inside: the snapshot a task iterates over misses  *)
(* no connection, although connections arrive, leave and are kicked while  *)
(* it is suspended in disconnect().                                        *)
ClosedDoorEmptiesServer ==
  maintenance /\ SweepsOver =>
    \A c \in Conn : state[c] = "open" => c \in closing \/ Collides(c)

(* Two logins of one commander that overlap never kick each other:         *)
(* disconnect_commander stops at the first match, and the order of the     *)
(* dict gives both logins the same one.  A login whose peer has already    *)
(* hung up has left the dict, and may still kick in the moment before its  *)
(* close() runs.                                                           *)
NoMutualKick ==
  \A c, d \in Conn :
    Listed(c) /\ Listed(d) => ~(kick[c].victim = d /\ kick[d].victim = c)

(* _ACTIVE_COMMANDERS loses an entry only when the connection that owns    *)
(* the registered object closes: closing a session that has been replaced  *)
(* does not take the newer session's object out.                           *)
EntryLeavesWithItsOwner ==
  [][\A i \in Commander :
       activeCommander[i] # NoObj /\ activeCommander'[i] = NoObj =>
         LET c == activeCommander[i].owner IN
         state[c] = "open" /\ state'[c] = "closed"]_vars

(* A client in the registry of active clients is connected.  It is checked *)
(* without the two exceptions that the code has: a client that creates its *)
(* account and closes meanwhile, and one that logs in twice.               *)
ActiveClientIsOpen ==
  \A i \in Commander :
    activeClient[i] # NoConn => state[activeClient[i]] = "open"

-----------------------------------------------------------------------------
(* What the comments of the repository say, and the code does not do.      *)

(* secretary.py:256-257: the ticker reaches "every connected commander"    *)
(* (it goes through _ACTIVE_CLIENTS).                                      *)
ConnectedCommanderIsActive ==
  \A c \in Conn :
    Ready(c) /\ session[c] # NoObj => activeClient[session[c].id] # NoConn

=============================================================================
