----------------------------- MODULE Onboarding -----------------------------
(***************************************************************************)
(* How a user gets an account: CS_10024 (answer/onboarding/handlers.py)    *)
(* spawns a detached task that runs create_commander (orm/commander.py)    *)
(* statement by statement, each in a transaction of its own; CS_10022      *)
(* (answer/join_server.py) decides between "known" and "new player".  The  *)
(* process may stop between any two statements and start again on the      *)
(* database it left behind.                                                *)
(*                                                                         *)
(* The configuration is the default one, create_player.skip_onboarding off.*)
(***************************************************************************)
EXTENDS Naturals, FiniteSets, FiniteSetsExt

CONSTANTS
  Client,      \* clients; each sends one request at a time
  User,        \* auth_arg2 of the users; NoUser is 0
  Device,      \* device ids
  Name,        \* nicknames the clients ask for
  Ticket,      \* client -> the user its server ticket names, or NoUser
  DeviceOf,    \* client -> its device
  Sequences,   \* dialect.supports_sequences: PostgreSQL, or else SQLite
  Starters,    \* ships a new commander gets: the chosen one and the default
  Attempts,    \* the attempts to allocate an account id: 20 in the code
  MaxRequests, \* bound: requests served
  MaxFaults,   \* bound: statements that fail, and crashes
  MaxOthers,   \* bound: ships that other handlers add meanwhile
  NoUser, NoName

ASSUME ConstantsAssumption ==
  /\ NoUser \notin User /\ NoName \notin Name /\ IsFiniteSet(User)
  /\ Ticket \in [Client -> User \cup {NoUser}]
  /\ DeviceOf \in [Client -> Device]
  /\ Sequences \in BOOLEAN
  /\ Starters \in Nat \ {0} /\ Attempts \in Nat \ {0}
  /\ {MaxRequests, MaxFaults, MaxOthers} \subseteq Nat

(* These bounds stand in the guards and are never met: a request allocates *)
(* an account at most Attempts times, and a user is given starter ships    *)
(* once.                                                                   *)
MaxAccount == MaxRequests * Attempts
MaxShip == Starters * Cardinality(User) + MaxOthers

Account == 1..MaxAccount
Ship == 1..MaxShip

(* What create_commander gives beside the ships: the default attires, the  *)
(* items and resources, the secretary, and the fleets 1 and 11.            *)
Piece == {"attires", "purse", "secretary", "fleet1", "fleet11"}

VARIABLES
  accountOf,  \* yostarus_maps: user -> account, 0 if there is no row
  name,       \* commanders: account -> name, NoName if there is no row
  ships,      \* owned_ships: ship -> owner, 0 if there is no row
  equipped,   \* owned_ship_equipments: the starter ships with all their rows
  fleet,      \* ship_list of each account's fleet 1
  pieces,     \* what else create_commander has given each account
  device,     \* device_auth_maps: device -> the row
  sequence,   \* yostarus_account_id_seq
  auth,       \* Client.auth_arg2
  task,       \* the request a client is waiting for
  answer,     \* the last answer to each client
  requests, faults, others, \* what the bounds count
  bare,       \* ghost: starter ships whose equipment met a failing statement
  unchecked   \* ghost: devices bound last by a login whose check failed

database == <<accountOf, name, ships, equipped, fleet, pieces, device,
              sequence>>
bounds == <<requests, faults, others>>
excuses == <<bare, unchecked>>
vars == <<database, auth, task, answer, bounds, excuses>>

NoRow == [user |-> NoUser, account |-> 0]
NoTask == [at |-> "none", nick |-> NoName, account |-> 0, tries |-> 0,
           next |-> 0, mine |-> {}]

Stage == {"device", "user", "name", "id", "map", "row", "attires", "max",
          "ship", "purse", "secretary", "fleet1", "fleet11", "save",
          "l-device", "l-user", "l-new", "l-fetch", "l-check", "l-save",
          "l-unchecked"}

DeviceRow == [user : User \cup {NoUser}, account : 0..MaxAccount]
Request == [at : Stage \cup {"none"}, nick : Name \cup {NoName},
            account : 0..MaxAccount, tries : 0..(Attempts - 1),
            next : 0..MaxShip, mine : SUBSET Ship]

DatabaseTypes ==
  /\ accountOf \in [User -> 0..MaxAccount]
  /\ name \in [Account -> Name \cup {NoName}]
  /\ ships \in [Ship -> 0..MaxAccount]
  /\ equipped \subseteq Ship
  /\ fleet \in [Account -> SUBSET Ship]
  /\ pieces \in [Account -> SUBSET Piece]
  /\ device \in [Device -> DeviceRow]
  /\ sequence \in 0..MaxAccount
ClientTypes ==
  /\ auth \in [Client -> User \cup {NoUser}]
  /\ task \in [Client -> Request]
  /\ answer \in [Client -> {"none", "created", "exists", "name taken",
                            "no identity", "error", "new player", "refused",
                            "in"}]
BoundTypes ==
  /\ requests \in 0..MaxRequests /\ faults \in 0..MaxFaults
  /\ others \in 0..MaxOthers
ExcuseTypes == bare \subseteq Ship /\ unchecked \subseteq Device
TypeOK == DatabaseTypes /\ ClientTypes /\ BoundTypes /\ ExcuseTypes

Init ==
  /\ accountOf = [u \in User |-> 0] /\ name = [a \in Account |-> NoName]
  /\ ships = [s \in Ship |-> 0] /\ equipped = {}
  /\ fleet = [a \in Account |-> {}]
  /\ pieces = [a \in Account |-> {}]
  /\ device = [d \in Device |-> NoRow]
  /\ sequence = 0
  /\ auth = Ticket
  /\ task = [c \in Client |-> NoTask]
  /\ answer = [c \in Client |-> "none"]
  /\ requests = 0 /\ faults = 0 /\ others = 0
  /\ bare = {} /\ unchecked = {}

-----------------------------------------------------------------------------
At(c, stage) == task[c].at = stage
GoTo(c, stage) == task' = [task EXCEPT ![c].at = stage]
Reply(c, what) ==
  /\ task' = [task EXCEPT ![c] = NoTask]
  /\ answer' = [answer EXCEPT ![c] = what]

Stay == UNCHANGED <<auth, answer, bounds, excuses>>

(* INSERT ... ON CONFLICT DO UPDATE.                                       *)
SaveDevice(c, account) ==
  device' = [device EXCEPT ![DeviceOf[c]] = [user |-> auth[c],
                                             account |-> account]]

(* Both handlers adopt the user a known device belongs to.                 *)
AdoptDevice(c) ==
  auth' = [auth EXCEPT ![c] = IF @ = NoUser THEN device[DeviceOf[c]].user
                                            ELSE @]

-----------------------------------------------------------------------------
(* CS_10024 and its task, _do_create_player.                               *)

CreateNewPlayer(c, n) ==
  /\ At(c, "none") /\ requests < MaxRequests
  /\ task' = [task EXCEPT ![c] = [NoTask EXCEPT !.at = "device", !.nick = n]]
  /\ requests' = requests + 1
  /\ UNCHANGED <<database, auth, answer, faults, others, excuses>>

CheckDevice(c) ==
  /\ At(c, "device")
  /\ IF device[DeviceOf[c]].account # 0
     THEN Reply(c, "exists") /\ UNCHANGED auth
     ELSE /\ AdoptDevice(c)
          /\ IF auth'[c] = NoUser THEN Reply(c, "no identity")
             ELSE GoTo(c, "user") /\ UNCHANGED answer
  /\ UNCHANGED <<database, bounds, excuses>>

CheckUser(c) ==
  /\ At(c, "user")
  /\ IF accountOf[auth[c]] # 0 THEN Reply(c, "exists")
                               ELSE GoTo(c, "name") /\ UNCHANGED answer
  /\ UNCHANGED <<database, auth, bounds, excuses>>

CheckName(c) ==
  /\ At(c, "name")
  /\ IF \E a \in Account : name[a] = task[c].nick
     THEN Reply(c, "name taken") ELSE GoTo(c, "id") /\ UNCHANGED answer
  /\ UNCHANGED <<database, auth, bounds, excuses>>

-----------------------------------------------------------------------------
(* create_commander.                                                       *)

Known == {accountOf[u] : u \in User} \cup {a \in Account : name[a] # NoName}

(* _next_account_id: the sequence, or the maximum of both tables.          *)
NextAccountId(c) ==
  /\ At(c, "id")
  /\ LET id == IF Sequences THEN sequence + 1 ELSE Max(Known \cup {0}) + 1 IN
     /\ id \in Account
     /\ task' = [task EXCEPT ![c] = [@ EXCEPT !.account = id, !.at = "map"]]
     /\ sequence' = IF Sequences THEN id ELSE sequence
  /\ UNCHANGED <<accountOf, name, ships, equipped, fleet, pieces,
                 device>> /\ Stay

(* Mutants: the account id is not looked at; the loop never gives up.      *)
Taken_ByUserOnly(c) == accountOf[auth[c]] # 0
Retry_Forever(c) == GoTo(c, "id") /\ UNCHANGED answer

Taken(c) ==
  accountOf[auth[c]] # 0 \/ \E u \in User : accountOf[u] = task[c].account

Retry(c) ==
  IF task[c].tries + 1 < Attempts
  THEN /\ task' = [task EXCEPT ![c] =
            [task[c] EXCEPT !.tries = @ + 1, !.at = "id"]]
       /\ UNCHANGED answer
  ELSE Reply(c, "error")

(* Mutant: ON CONFLICT DO UPDATE.                                          *)
InsertMap_Upsert(c) ==
  /\ At(c, "map")
  /\ accountOf' = [accountOf EXCEPT ![auth[c]] = task[c].account]
  /\ GoTo(c, "row")
  /\ UNCHANGED <<name, ships, equipped, fleet, pieces, device,
                 sequence>> /\ Stay

(* Both columns of yostarus_maps are unique: a conflict is tried again     *)
(* with another id, and after the last attempt the creation fails.         *)
InsertMap(c) ==
  /\ At(c, "map")
  /\ IF Taken(c) THEN Retry(c) /\ UNCHANGED accountOf
     ELSE /\ accountOf' = [accountOf EXCEPT ![auth[c]] = task[c].account]
          /\ GoTo(c, "row") /\ UNCHANGED answer
  /\ UNCHANGED <<name, ships, equipped, fleet, pieces, device, sequence, auth,
                 bounds, excuses>>

InsertCommander(c) ==
  /\ At(c, "row")
  /\ name' = [name EXCEPT ![task[c].account] = task[c].nick]
  /\ GoTo(c, "attires")
  /\ UNCHANGED <<accountOf, ships, equipped, fleet, pieces, device,
                 sequence>> /\ Stay

Give(c, piece) ==
  pieces' = [pieces EXCEPT ![task[c].account] = @ \cup {piece}]

GrantAttires(c) ==
  /\ At(c, "attires") /\ Give(c, "attires") /\ GoTo(c, "max")
  /\ UNCHANGED <<accountOf, name, ships, equipped, fleet, device,
                 sequence>> /\ Stay

Rows == {s \in Ship : ships[s] # 0}

MaxShipId(c) ==
  /\ At(c, "max")
  /\ LET id == Max(Rows \cup {0}) + 1 IN
     /\ id \in Ship
     /\ task' = [task EXCEPT ![c] = [@ EXCEPT !.next = id, !.at = "ship"]]
  /\ UNCHANGED database /\ Stay

(* create_default_ship_equipments, in the same step of the loop: one INSERT *)
(* for each slot, and whatever one of them raises is only logged.          *)
Equip(s) ==
  \/ equipped' = equipped \cup {s} /\ UNCHANGED <<bare, faults>>
  \/ /\ faults < MaxFaults /\ faults' = faults + 1
     /\ bare' = bare \cup {s} /\ UNCHANGED equipped

(* Mutant: INSERT OR IGNORE.                                               *)
InsertShip_Ignore(c) ==
  /\ At(c, "ship")
  /\ ships' = [ships EXCEPT ![task[c].next] = IF @ = 0 THEN task[c].account
                                                      ELSE @]
  /\ LET mine == task[c].mine \cup {task[c].next} IN
     task' = [task EXCEPT ![c] = [@ EXCEPT !.mine = mine, !.next = 0,
       !.at = IF Cardinality(mine) = Starters THEN "purse" ELSE "max"]]
  /\ Equip(task[c].next)
  /\ UNCHANGED <<accountOf, name, fleet, pieces, device, sequence, auth, answer,
                 requests, others, unchecked>>

(* The id is the primary key of the table: it may be gone by now, and then *)
(* the creation fails where it is.                                         *)
InsertShip(c) ==
  /\ At(c, "ship")
  /\ IF task[c].next \in Rows
     THEN Reply(c, "error") /\ UNCHANGED <<ships, equipped, bare, faults>>
     ELSE /\ ships' = [ships EXCEPT ![task[c].next] = task[c].account]
          /\ Equip(task[c].next)
          /\ LET mine == task[c].mine \cup {task[c].next} IN
             task' = [task EXCEPT ![c] = [@ EXCEPT !.mine = mine, !.next = 0,
               !.at = IF Cardinality(mine) = Starters THEN "purse" ELSE "max"]]
          /\ UNCHANGED answer
  /\ UNCHANGED <<accountOf, name, fleet, pieces, device, sequence, auth,
                 requests, others, unchecked>>

(* add_item and add_resource.                                              *)
FillPurse(c) ==
  /\ At(c, "purse") /\ Give(c, "purse") /\ GoTo(c, "secretary")
  /\ UNCHANGED <<accountOf, name, ships, equipped, fleet, device,
                 sequence>> /\ Stay

SetSecretary(c) ==
  /\ At(c, "secretary") /\ Give(c, "secretary") /\ GoTo(c, "fleet1")
  /\ UNCHANGED <<accountOf, name, ships, equipped, fleet, device,
                 sequence>> /\ Stay

InsertFleet(c) ==
  /\ At(c, "fleet1") /\ Give(c, "fleet1") /\ GoTo(c, "fleet11")
  /\ fleet' = [fleet EXCEPT ![task[c].account] = task[c].mine]
  /\ UNCHANGED <<accountOf, name, ships, equipped, device, sequence>> /\ Stay

InsertFleet11(c) ==
  /\ At(c, "fleet11") /\ Give(c, "fleet11") /\ GoTo(c, "save")
  /\ UNCHANGED <<accountOf, name, ships, equipped, fleet, device,
                 sequence>> /\ Stay

(* Back in _do_create_player: the device is bound to the account, the      *)
(* commander is loaded (see Sessions) and the client told.                 *)
BindDevice(c) ==
  /\ At(c, "save")
  /\ SaveDevice(c, task[c].account)
  /\ unchecked' = unchecked \ {DeviceOf[c]}
  /\ Reply(c, "created")
  /\ UNCHANGED <<accountOf, name, ships, equipped, fleet, pieces, sequence,
                 auth, bounds, bare>>

-----------------------------------------------------------------------------
(* CS_10022, as far as it decides who the client is.                       *)

(* The client sends the account id it believes to be its own, or 0.        *)
JoinServer(c, a) ==
  /\ At(c, "none") /\ requests < MaxRequests
  /\ task' = [task EXCEPT ![c] = [NoTask EXCEPT !.at = "l-device",
                                               !.account = a]]
  /\ requests' = requests + 1
  /\ UNCHANGED <<database, auth, answer, faults, others, excuses>>

(* The device's account counts only where the client has sent none.        *)
JoinReadsDevice(c) ==
  /\ At(c, "l-device")
  /\ AdoptDevice(c)
  /\ LET a == IF task[c].account = 0 THEN device[DeviceOf[c]].account
                                     ELSE task[c].account IN
     task' = [task EXCEPT ![c] = [@ EXCEPT !.account = a, !.at = "l-user"]]
  /\ UNCHANGED <<database, answer, bounds, excuses>>

(* The account of the user comes before either.                            *)
JoinReadsUser(c) ==
  /\ At(c, "l-user")
  /\ LET u == auth[c]
         a == IF u # NoUser /\ accountOf[u] # 0 THEN accountOf[u]
                                                ELSE task[c].account IN
     \/ /\ a = 0 /\ u = NoUser
        /\ Reply(c, "new player")
     \/ /\ a = 0 /\ u # NoUser
        /\ GoTo(c, "l-new") /\ UNCHANGED answer
     \/ /\ a # 0
        /\ task' = [task EXCEPT ![c] = [@ EXCEPT !.account = a, !.at = "l-fetch"]]
        /\ UNCHANGED answer
  /\ UNCHANGED <<database, auth, bounds, excuses>>

(* The device is bound to the user, without an account yet.                *)
JoinSavesNew(c) ==
  /\ At(c, "l-new")
  /\ SaveDevice(c, 0)
  /\ unchecked' = unchecked \ {DeviceOf[c]}
  /\ Reply(c, "new player")
  /\ UNCHANGED <<accountOf, name, ships, equipped, fleet, pieces, sequence,
                 auth, bounds, bare>>

NotIn(c) == Reply(c, IF auth[c] = NoUser THEN "refused" ELSE "new player")

(* The commander is fetched.  A client without a user is in with whatever  *)
(* account that was.                                                       *)
JoinFetches(c) ==
  /\ At(c, "l-fetch")
  /\ IF name[task[c].account] = NoName THEN NotIn(c)
     ELSE /\ GoTo(c, IF auth[c] = NoUser THEN "l-save" ELSE "l-check")
          /\ UNCHANGED answer
  /\ UNCHANGED <<database, auth, bounds, excuses>>

(* Mutant: the owner of the commander is not verified.                     *)
IsOwner_Anyone(c) == TRUE

(* The commander must belong to the user, if the client has shown one.     *)
IsOwner(c) == accountOf[auth[c]] = task[c].account

JoinChecks(c) ==
  /\ At(c, "l-check")
  /\ IF IsOwner(c) THEN GoTo(c, "l-save") /\ UNCHANGED answer ELSE NotIn(c)
  /\ UNCHANGED <<database, auth, bounds, excuses>>

(* A check that fails is only logged, and the login goes on.               *)
CheckFails(c) ==
  /\ At(c, "l-check") /\ faults < MaxFaults
  /\ faults' = faults + 1
  /\ GoTo(c, "l-unchecked")
  /\ UNCHANGED <<database, auth, answer, requests, others, excuses>>

JoinSaves(c) ==
  /\ At(c, "l-save") \/ At(c, "l-unchecked")
  /\ IF auth[c] = NoUser THEN UNCHANGED <<device, unchecked>>
     ELSE /\ SaveDevice(c, task[c].account)
          /\ unchecked' = IF At(c, "l-save") THEN unchecked \ {DeviceOf[c]}
                                             ELSE unchecked \cup {DeviceOf[c]}
  /\ Reply(c, "in")
  /\ UNCHANGED <<accountOf, name, ships, equipped, fleet, pieces, sequence,
                 auth, bounds, bare>>

-----------------------------------------------------------------------------
(* Other handlers, and failures.                                           *)

(* _sync_add_ship, for a commander in play: one synchronous statement pair.*)
OtherShip(a) ==
  /\ name[a] # NoName /\ others < MaxOthers
  /\ LET id == Max(Rows \cup {0}) + 1 IN
       id \in Ship /\ ships' = [ships EXCEPT ![id] = a]
  /\ others' = others + 1
  /\ UNCHANGED <<accountOf, name, equipped, fleet, pieces, device, sequence,
                 task, auth, answer, requests, faults, excuses>>

InCreate == {"id", "map", "row", "attires", "max", "ship", "purse",
             "secretary", "fleet1", "fleet11"}

(* A statement raises.  Inside create_commander the client is told; a      *)
(* login's last one, which binds the device, is not missed; anything else  *)
(* ends without an answer.                                                 *)
StatementFails(c) ==
  /\ ~At(c, "none") /\ ~At(c, "l-check") /\ faults < MaxFaults
  /\ faults' = faults + 1
  /\ \/ task[c].at \in InCreate /\ Reply(c, "error")
     \/ At(c, "l-new") /\ Reply(c, "new player")
     \/ task[c].at \in {"l-save", "l-unchecked"} /\ Reply(c, "in")
     \/ /\ task[c].at \notin InCreate \cup {"l-new", "l-save", "l-unchecked"}
        /\ Reply(c, "none")
  /\ UNCHANGED <<database, auth, requests, others, excuses>>

(* The process stops; every task is gone, the committed rows stay.         *)
Crash ==
  /\ faults < MaxFaults
  /\ faults' = faults + 1
  /\ task' = [c \in Client |-> NoTask]
  /\ answer' = [c \in Client |-> "none"]
  /\ auth' = Ticket
  /\ UNCHANGED <<database, requests, others, excuses>>

-----------------------------------------------------------------------------
Creation(c) ==
  \/ CheckDevice(c) \/ CheckUser(c) \/ CheckName(c) \/ NextAccountId(c)
  \/ InsertMap(c) \/ InsertCommander(c) \/ GrantAttires(c) \/ MaxShipId(c)
  \/ InsertShip(c) \/ FillPurse(c) \/ SetSecretary(c) \/ InsertFleet(c)
  \/ InsertFleet11(c) \/ BindDevice(c)
Login(c) ==
  \/ JoinReadsDevice(c) \/ JoinReadsUser(c) \/ JoinSavesNew(c)
  \/ JoinFetches(c) \/ JoinChecks(c) \/ CheckFails(c) \/ JoinSaves(c)

Next ==
  \/ \E c \in Client : \/ \E n \in Name : CreateNewPlayer(c, n)
                       \/ \E a \in 0..MaxAccount : JoinServer(c, a)
                       \/ Creation(c) \/ Login(c) \/ StatementFails(c)
  \/ \E a \in Account : OtherShip(a)
  \/ Crash

(* The event loop goes on with every request whose statement has returned. *)
Fairness == \A c \in Client : WF_vars(Creation(c)) /\ WF_vars(Login(c))

Spec == Init /\ [][Next]_vars /\ Fairness

-----------------------------------------------------------------------------
(* Properties.                                                             *)

Owned(a) == {s \in Ship : ships[s] = a}

(* Whatever runs at the same time, fails or crashes, an account that its   *)
(* player was told of has everything create_commander gives.  One thing    *)
(* only may be missing: the equipment of a starter ship for which one of   *)
(* the equipment statements has failed.                                    *)
Complete(a) ==
  /\ name[a] # NoName /\ pieces[a] = Piece
  /\ Cardinality(fleet[a]) = Starters
  /\ fleet[a] \subseteq Owned(a) \cap (equipped \cup bare)

AcknowledgedIsComplete ==
  \A c \in Client : answer[c] = "created" =>
    auth[c] # NoUser /\ accountOf[auth[c]] # 0 /\ Complete(accountOf[auth[c]])

(* An account has one user, and a commander belongs to one: two creations  *)
(* that were given the same id do not both keep it.                        *)
OneUserPerAccount ==
  /\ \A u, v \in User : u # v => accountOf[u] = 0 \/ accountOf[u] # accountOf[v]
  /\ \A a \in Account : name[a] # NoName => \E u \in User : accountOf[u] = a

(* A user keeps its account, however often it asks for another one.        *)
AccountIsKept ==
  [][\A u \in User : accountOf[u] # 0 => accountOf'[u] = accountOf[u]]_vars

(* A device that is bound to an account is bound to its user as well,      *)
(* whatever account the clients claim and in whatever order the logins and *)
(* creations that write its row finish; except a device whose last login   *)
(* went on after its ownership check had failed.                           *)
DeviceAgreesWithUser ==
  \A d \in Device \ unchecked :
    device[d].account # 0 => device[d].user # NoUser
      /\ accountOf[device[d].user] = device[d].account

(* Every request ends; in particular the allocation gives up in the end.   *)
RequestEnds ==
  \A c \in Client : ~At(c, "none") ~> At(c, "none")

=============================================================================
