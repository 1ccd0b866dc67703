-------------------------- MODULE Sessions_proofs --------------------------
(***************************************************************************)
(* Proofs about Sessions for every set of connections, every hash function *)
(* and every number of disconnect_all tasks: the state keeps its types,    *)
(* the server never forgets a live connection, an entry of the registry of *)
(* commanders leaves with its owner only, and of two logins that are in    *)
(* the dict one at most kicks the other.                                   *)
(***************************************************************************)
EXTENDS Sessions, SequenceTheorems, WellFoundedInduction, TLAPS

(* A connection that was accepted.                                         *)
Entered(c) == state[c] \in {"open", "closed"}

(* Only connections that were accepted are in the dict, wait for their     *)
(* close() or are in the snapshot of a disconnect_all task.                *)
KnownEntered ==
  /\ \A h \in HashVal : slot[h] # NoConn => Entered(slot[h])
  /\ \A c \in closing : Entered(c)
  /\ \A s \in Sweep : \A c \in sweep[s].rest : Entered(c)

(* Whoever is being disconnected is an accepted connection, and no login   *)
(* disconnects itself.                                                     *)
VictimsEntered ==
  \A k \in Actor : kick[k].stage # "idle" =>
    /\ kick[k].victim \in Conn /\ kick[k].victim # k
    /\ Entered(kick[k].victim)

(* Nothing runs for a connection that was not accepted.                    *)
Active(c) ==
  \/ reader[c] = "reading" \/ pc[c] # "off" \/ session[c] # NoObj
  \/ job[c].kind # "none" \/ kick[c].stage # "idle"
ActiveEntered == \A c \in Conn : Active(c) => Entered(c)

(* A connection's session is an object it fetched itself.                  *)
OwnSession == \A c \in Conn : session[c] # NoObj => session[c].owner = c

(* What a login or a creation goes on with.                                *)
JobHasId == \A c \in Conn : job[c].kind = "created" => job[c].id \in Commander

Sound == KnownEntered /\ VictimsEntered /\ ActiveEntered /\ OwnSession /\ JobHasId
IInv == TypeOK /\ Sound

-----------------------------------------------------------------------------
(* Removing a key leaves a sequence of keys.                               *)
LEMMA WithoutType ==
  ASSUME NEW S, NEW s \in Seq(S), NEW h
  PROVE  Without(s, h) \in Seq(S)
<1>1. CASE h \notin {s[i] : i \in DOMAIN s}
  BY <1>1 DEF Without
<1>2. CASE h \in {s[i] : i \in DOMAIN s}
  <2> DEFINE i == CHOOSE j \in DOMAIN s : s[j] = h
  <2>1. i \in 1..Len(s)
    BY <1>2
  <2> HIDE DEF i
  <2>2. SubSeq(s, 1, i - 1) \in Seq(S)
    BY <2>1
  <2>3. SubSeq(s, i + 1, Len(s)) \in Seq(S)
    BY <2>1
  <2>4. Without(s, h) = SubSeq(s, 1, i - 1) \o SubSeq(s, i + 1, Len(s))
    BY <1>2 DEF Without, i
  <2> QED
    BY <2>2, <2>3, <2>4
<1> QED
  BY <1>1, <1>2

(* The scan of disconnect_commander ends on nobody or on a client of the   *)
(* dict.                                                                   *)
LEMMA FirstMatchIsListed ==
  ASSUME TypeOK, NEW id, FirstMatch(id) # NoConn
  PROVE  \E h \in HashVal : slot[h] = FirstMatch(id)
<1>1. Matching(id) # {} /\ Matching(id) \subseteq Nat
  BY DEF FirstMatch, Matching, TypeOK
<1>2. PICK m \in Matching(id) :
        \A j \in Matching(id) : ~(<<j, m>> \in OpToRel(<, Nat))
  BY <1>1, WFMin, NatLessThanWellFounded
<1>3. \A j \in Matching(id) : ~(j < m)
  <2> SUFFICES ASSUME NEW j \in Matching(id), j < m
               PROVE  <<j, m>> \in OpToRel(<, Nat)
    BY <1>2
  <2>1. j \in Nat /\ m \in Nat
    BY <1>1
  <2> QED
    BY <2>1, Zenon DEF OpToRel
<1>4. \A j \in Matching(id) : m <= j
  BY <1>1, <1>3
<1> DEFINE first == CHOOSE i \in Matching(id) :
                      \A j \in Matching(id) : i <= j
<1>5. first \in Matching(id)
  BY <1>4
<1>6. FirstMatch(id) = slot[order[first]]
  BY <1>1 DEF FirstMatch
<1>7. order[first] \in HashVal
  BY <1>5 DEF Matching, TypeOK
<1> QED
  BY <1>6, <1>7

(* The connection that a scan of the dict finds, if any.                   *)
LEMMA FirstMatchType ==
  ASSUME TypeOK, NEW id
  PROVE  FirstMatch(id) \in Conn \cup {NoConn}
<1>1. CASE FirstMatch(id) = NoConn
  BY <1>1
<1>2. CASE FirstMatch(id) # NoConn
  BY <1>2, FirstMatchIsListed DEF TypeOK
<1> QED
  BY <1>1, <1>2

(* The records of a disconnect and of a disconnect_all task.               *)
LEMMA KickRecords ==
  /\ Idle \in Kick
  /\ \A v \in Conn \cup {NoConn} : [stage |-> "notice", victim |-> v] \in Kick
  /\ \A k \in Kick : [k EXCEPT !.stage = "closed"] \in Kick
BY DEF Kick, Idle

(* A kick that begins is a kick.                                           *)
LEMMA NoticeType ==
  ASSUME kick \in [Actor -> Kick], NEW k \in Actor,
         NEW v \in Conn \cup {NoConn}
  PROVE  [kick EXCEPT ![k] = [stage |-> "notice", victim |-> v]]
           \in [Actor -> Kick]
<1>1. [stage |-> "notice", victim |-> v] \in Kick
  BY DEF Kick
<1> QED
  BY <1>1

(* The steps of a sweep lead from sweep to sweep.                          *)
LEMMA SweepRecords ==
  ASSUME NEW t \in SweepTask
  PROVE  /\ [t EXCEPT !.stage = "ready"] \in SweepTask
         /\ [t EXCEPT !.stage = "done"] \in SweepTask
         /\ \A v : [t EXCEPT !.rest = @ \ {v}] \in SweepTask
BY DEF SweepTask

(* So do those of one sweep among several.                                 *)
LEMMA SweepType ==
  ASSUME sweep \in [Sweep -> SweepTask], NEW s \in Sweep
  PROVE  /\ [sweep EXCEPT ![s].stage = "ready"] \in [Sweep -> SweepTask]
         /\ [sweep EXCEPT ![s].stage = "done"] \in [Sweep -> SweepTask]
         /\ \A v : [sweep EXCEPT ![s].rest = @ \ {v}] \in [Sweep -> SweepTask]
BY SweepRecords

(* A sweep takes no connection on that it has not listed.                  *)
LEMMA SweepShrinks ==
  ASSUME sweep \in [Sweep -> SweepTask], NEW s \in Sweep, NEW x \in Sweep,
         NEW stage, NEW v,
         \/ sweep' = [sweep EXCEPT ![s].stage = stage]
         \/ sweep' = [sweep EXCEPT ![s].rest = @ \ {v}]
  PROVE  sweep'[x].rest \subseteq sweep[x].rest
<1>1. sweep[x] \in SweepTask
  OBVIOUS
<1>2. CASE x # s
  BY <1>2
<1>3. CASE x = s
  <2>1. CASE sweep' = [sweep EXCEPT ![s].stage = stage]
    BY <1>1, <1>3, <2>1 DEF SweepTask
  <2>2. CASE sweep' = [sweep EXCEPT ![s].rest = @ \ {v}]
    BY <1>1, <1>3, <2>2 DEF SweepTask
  <2> QED
    BY <2>1, <2>2
<1> QED
  BY <1>2, <1>3

(* What the actions with such records do to them.                          *)
LEMMA JoinScanKick ==
  ASSUME TypeOK, NEW c \in Conn, JoinScan(c)
  PROVE  kick' \in [Actor -> Kick]
<1>1. \/ kick' = kick
      \/ kick' = [kick EXCEPT ![c] = [stage |-> "notice",
                                     victim |-> FirstMatch(session[c].id)]]
  BY Zenon DEF JoinScan
<1>2. kick \in [Actor -> Kick] /\ c \in Actor
  BY DEF TypeOK, Actor
<1> QED
  BY <1>1, <1>2, FirstMatchType, NoticeType

(* Closing the door makes a sweep ready.                                   *)
LEMMA SetMaintenanceSweep ==
  ASSUME TypeOK, NEW on, SetMaintenance(on)
  PROVE  sweep' \in [Sweep -> SweepTask]
<1>1. \/ sweep' = sweep
      \/ \E s \in Sweep : sweep' = [sweep EXCEPT ![s].stage = "ready"]
  BY Zenon DEF SetMaintenance, SpawnSweep
<1>2. sweep \in [Sweep -> SweepTask]
  BY DEF TypeOK
<1> QED
  BY <1>1, <1>2, SweepType

(* A sweep goes on with its list and its kick.                             *)
LEMMA SweepNextTasks ==
  ASSUME TypeOK, NEW s \in Sweep, SweepNext(s)
  PROVE  sweep' \in [Sweep -> SweepTask] /\ kick' \in [Actor -> Kick]
<1>1. sweep \in [Sweep -> SweepTask] /\ kick \in [Actor -> Kick] /\ s \in Actor
  BY DEF TypeOK, Actor
<1>2. CASE /\ sweep' = [sweep EXCEPT ![s].stage = "done"]
           /\ kick' = kick
  BY <1>1, <1>2, SweepType
<1>3. ASSUME NEW v \in sweep[s].rest,
             sweep' = [sweep EXCEPT ![s].rest = @ \ {v}],
             kick' = [kick EXCEPT ![s] = [stage |-> "notice", victim |-> v]]
      PROVE  sweep' \in [Sweep -> SweepTask] /\ kick' \in [Actor -> Kick]
  <2>1. v \in Conn
    BY <1>1 DEF SweepTask
  <2>2. sweep' \in [Sweep -> SweepTask]
    BY <1>1, <1>3, SweepType
  <2>3. kick' \in [Actor -> Kick]
    BY <1>1, <1>3, <2>1, NoticeType
  <2> QED
    BY <2>2, <2>3
<1> QED
  BY <1>2, <1>3, Zenon DEF SweepNext

-----------------------------------------------------------------------------
(* The types.  One lemma per group of actions; TypeOK needs no more of the *)
(* past than Sound says.                                                   *)
LEMMA ConnectionType ==
  ASSUME IInv, NEW c \in Conn, Connection(c)
  PROVE  TypeOK'
<1> USE ConstantsAssumption
    DEF IInv, TypeOK, Actor, dict, life, player, handler, tasks, registry
<1>1. CASE Reject(c)
  BY <1>1 DEF Reject
<1>2. CASE Accept(c)
  BY <1>2 DEF Accept
<1>3. CASE ReaderEnds(c)
  BY <1>3, WithoutType DEF ReaderEnds, RemoveClient
<1>4. CASE CloseTask(c)
  BY <1>4, KickRecords DEF CloseTask, Close, UnregisterCommander, UnregisterClient
<1>5. CASE HandlerFails(c)
  BY <1>5 DEF HandlerFails, Close, UnregisterCommander, UnregisterClient
<1> QED
  BY <1>1, <1>2, <1>3, <1>4, <1>5 DEF Connection

(* The statements of a login keep the types.                               *)
LEMMA LoginType ==
  ASSUME IInv, NEW c \in Conn, Login(c)
  PROVE  TypeOK'
<1> USE ConstantsAssumption
    DEF IInv, TypeOK, Actor, dict, life, player, handler, tasks, registry
<1>1. CASE \E id \in Commander : JoinServer(c, id)
  BY <1>1 DEF JoinServer
<1>2. CASE JoinFetched(c)
  <2>1. CASE acct[c] \notin exists
    BY <1>2, <2>1 DEF JoinFetched
  <2>2. CASE acct[c] \in exists
    <3>1. NewObject(c, acct[c]) \in Object /\ made[c] + 1 \in 0..MaxObjects
      BY <1>2, <2>2 DEF JoinFetched, NewObject, CanCreate, Object
    <3>5. /\ session' = [session EXCEPT ![c] = NewObject(c, acct[c])]
          /\ made' = [made EXCEPT ![c] = made[c] + 1]
      BY <1>2, <2>2, Zenon DEF JoinFetched
    <3>2. session' \in [Conn -> Object \cup {NoObj}]
      BY <3>1, <3>5
    <3>3. made' \in [Conn -> 0..MaxObjects]
      BY <3>1, <3>5
    <3>4. roomId' \in [Conn -> Room \cup {DefaultRoom}]
      BY <1>2, <2>2 DEF JoinFetched
    <3> QED
      BY <1>2, <2>2, <3>2, <3>3, <3>4 DEF JoinFetched
  <2> QED
    BY <2>1, <2>2
<1>3. CASE JoinFailed(c) \/ JoinRefused(c) \/ JoinBreaks(c) \/ JoinReply(c)
  BY <1>3 DEF JoinFailed, JoinRefused, JoinBreaks, LoadFails, JoinReply
<1>4. CASE JoinVerified(c)
  BY <1>4 DEF JoinVerified, Load, Object
<1>5. CASE JoinScan(c)
  <2>2. kick' \in [Actor -> Kick]
    BY <1>5, JoinScanKick
  <2>3. pc' \in [Conn -> {"off", "idle", "fetch", "verify", "tick", "kick",
                          "reply", "dead"}]
    BY <1>5 DEF JoinScan
  <2> QED
    BY <1>5, <2>2, <2>3 DEF JoinScan
<1> QED
  BY <1>1, <1>2, <1>3, <1>4, <1>5 DEF Login

(* What a player does keeps the types.                                     *)
LEMMA PlayType ==
  ASSUME IInv, NEW c \in Conn, Play(c)
  PROVE  TypeOK'
<1> USE ConstantsAssumption
    DEF IInv, TypeOK, Actor, NoJob, dict, life, player, handler, tasks,
        registry
<1>1. CASE Reload(c)
  BY <1>1 DEF Reload, Load, Object
<1>2. CASE JoinRoom(c)
  BY <1>2 DEF JoinRoom
<1>3. CASE \E new \in Room : ChangeRoom(c, new)
  BY <1>3 DEF ChangeRoom
<1>4. CASE \E kind \in {"create", "unlock", "quit"} : Spawn(c, kind)
  BY <1>4 DEF Spawn
<1>5. CASE \E id \in Commander : CreateAccount(c, id)
  BY <1>5 DEF CreateAccount
<1>6. CASE CreatedLoads(c)
  <2> DEFINE o == NewObject(c, job[c].id)
  <2>1. o \in Object /\ o.id \in Commander
    BY <1>6 DEF CreatedLoads, NewObject, CanCreate, Object, Sound, JobHasId
  <2>2. /\ session' = [session EXCEPT ![c] = o] /\ made[c] < MaxObjects
        /\ made' = [made EXCEPT ![c] = @ + 1]
        /\ job' = [job EXCEPT ![c] = NoJob]
        /\ UNCHANGED <<dict, life, handler, maintenance, kick, sweep, exists>>
        /\ \/ Load(c, o) /\ activeClient' = [activeClient EXCEPT ![o.id] = c]
           \/ LoadFails(c) /\ UNCHANGED activeClient
    BY <1>6, Zenon DEF CreatedLoads, CanCreate
  <2> HIDE DEF o
  <2>3. CASE Load(c, o) /\ activeClient' = [activeClient EXCEPT ![o.id] = c]
    BY <2>1, <2>2, <2>3 DEF Load
  <2>4. CASE LoadFails(c) /\ UNCHANGED activeClient
    <3>1. /\ roomId' \in [Conn -> Room \cup {DefaultRoom}]
          /\ UNCHANGED registry
      BY <2>4 DEF LoadFails
    <3>2. /\ session' \in [Conn -> Object \cup {NoObj}]
          /\ made' \in [Conn -> 0..MaxObjects]
      BY <2>1, <2>2
    <3>3. job' \in [Conn -> [kind : {"none", "create", "created", "unlock", "quit"},
                            id : Commander \cup {NoConn}]]
      BY <2>2
    <3> QED BY <2>2, <3>1, <3>2, <3>3
  <2> QED BY <2>2, <2>3, <2>4
<1>7. CASE UnlockLoads(c)
  BY <1>7 DEF UnlockLoads, Load, LoadFails, Object
<1>8. CASE Quit(c)
  BY <1>8, KickRecords DEF Quit, Close, UnregisterCommander, UnregisterClient
<1> QED
  BY <1>1, <1>2, <1>3, <1>4, <1>5, <1>6, <1>7, <1>8 DEF Play

(* The two halves of a disconnect keep the types.                          *)
LEMMA DisconnectType ==
  ASSUME IInv, NEW k \in Actor, Disconnect(k)
  PROVE  TypeOK'
<1> USE ConstantsAssumption
    DEF IInv, TypeOK, Actor, dict, life, player, handler, tasks, registry
<1>1. CASE CloseVictim(k)
  <2> DEFINE v == kick[k].victim
  <2>1. v \in Conn
    BY <1>1 DEF CloseVictim, Sound, VictimsEntered
  <2>2. kick' \in [Actor -> Kick]
    BY <1>1, <2>1, KickRecords DEF CloseVictim
  <2> HIDE DEF v
  <2>3. Close(v) /\ UNCHANGED <<dict, player, maintenance, reader, acct, sweep,
                                job>>
    BY <1>1 DEF CloseVictim, v
  <2> QED
    BY <2>1, <2>2, <2>3 DEF Close, UnregisterCommander, UnregisterClient
<1>2. CASE RemoveVictim(k)
  BY <1>2, WithoutType, KickRecords DEF RemoveVictim, RemoveClient, Sound, VictimsEntered
<1> QED
  BY <1>1, <1>2 DEF Disconnect

(* What the API and the sweep do keeps the types.                          *)
LEMMA AdminType ==
  ASSUME IInv, Admin
  PROVE  TypeOK'
<1> USE ConstantsAssumption
    DEF IInv, TypeOK, Actor, dict, life, player, handler, tasks, registry
<1>1. CASE \E id \in Commander : ApiKick(id)
  BY <1>1, FirstMatchType, KickRecords DEF ApiKick
<1>2. CASE \E on \in BOOLEAN : SetMaintenance(on)
  <2>1. PICK on \in BOOLEAN : SetMaintenance(on)
    BY <1>2
  <2>2. sweep' \in [Sweep -> SweepTask]
    BY <2>1, SetMaintenanceSweep
  <2>3. maintenance' \in BOOLEAN
    BY <2>1, Zenon DEF SetMaintenance
  <2>4. UNCHANGED <<dict, life, player, handler, registry, kick, job>>
    BY <2>1, Zenon DEF SetMaintenance
  <2> QED
    BY <2>2, <2>3, <2>4
<1>3. CASE \E s \in Sweep : SweepStarts(s)
  BY <1>3 DEF SweepStarts, SweepTask
<1>4. CASE \E s \in Sweep : SweepNext(s)
  <2>1. PICK s \in Sweep : SweepNext(s)
    BY <1>4
  <2>2. sweep' \in [Sweep -> SweepTask] /\ kick' \in [Actor -> Kick]
    BY <2>1, SweepNextTasks
  <2>4. UNCHANGED <<dict, life, player, handler, registry, maintenance, job>>
    BY <2>1, Zenon DEF SweepNext
  <2> QED
    BY <2>2, <2>4
<1> QED
  BY <1>1, <1>2, <1>3, <1>4 DEF Admin

-----------------------------------------------------------------------------
(* A connection's state goes from new to open or rejected, and to closed.  *)
LEMMA StateStep ==
  ASSUME IInv, Next, NEW d \in Conn
  PROVE  state'[d] = state[d] \/ state[d] = "new" \/ state'[d] = "closed"
<1> DEFINE Goal == state'[d] = state[d] \/ state[d] = "new" \/ state'[d] = "closed"
<1> SUFFICES Goal
  OBVIOUS
<1>1. CASE UNCHANGED state
  BY <1>1
<1>2. ASSUME NEW c, Close(c) PROVE Goal
  BY <1>2 DEF Close, IInv, TypeOK
<1>3. ASSUME NEW c \in Conn, Reject(c) \/ Accept(c) PROVE Goal
  BY <1>3 DEF Reject, Accept, IInv, TypeOK
<1> HIDE DEF Goal
<1>4. ASSUME NEW c \in Conn, Connection(c) PROVE Goal
  BY <1>1, <1>2, <1>3, <1>4
     DEF Connection, ReaderEnds, CloseTask, HandlerFails
<1>5. ASSUME NEW c \in Conn, Login(c) PROVE UNCHANGED state
  BY <1>5, Zenon
     DEF Login, JoinServer, JoinFetched, JoinFailed, JoinRefused, JoinBreaks, LoadFails,
         JoinVerified, JoinScan, JoinReply, life
<1>6. ASSUME NEW c \in Conn, Play(c) PROVE Goal
  <2>1. CASE Quit(c)
    BY <2>1, <1>2 DEF Quit
  <2>2. CASE ~Quit(c)
    BY <1>6, <2>2, <1>1, Zenon
       DEF Play, Reload, JoinRoom, ChangeRoom, Spawn, CreateAccount,
           CreatedLoads, UnlockLoads, life
  <2> QED
    BY <2>1, <2>2
<1>7. ASSUME NEW k \in Actor, Disconnect(k) PROVE Goal
  BY <1>7, <1>1, <1>2, Zenon DEF Disconnect, CloseVictim, RemoveVictim, life
<1>8. ASSUME Admin PROVE UNCHANGED state
  BY <1>8, Zenon
     DEF Admin, ApiKick, SetMaintenance, SweepStarts, SweepNext, life
<1> QED
  BY <1>1, <1>4, <1>5, <1>6, <1>7, <1>8, Zenon DEF Next

(* Who has come stays come, and who is closed stays closed.                *)
LEMMA EnteredStays ==
  ASSUME IInv, Next, NEW d \in Conn, Entered(d)
  PROVE  Entered(d)' /\ (state[d] = "closed" => state'[d] = "closed")
BY StateStep DEF Entered

(* A session object belongs to the connection that holds it.               *)
LEMMA OwnSessionPreserved ==
  ASSUME IInv, Next
  PROVE  OwnSession'
<1>1. CASE UNCHANGED session
  BY <1>1 DEF IInv, Sound, OwnSession
<1>2. ASSUME NEW c \in Conn, NEW id, session' = [session EXCEPT ![c] = NewObject(c, id)]
      PROVE  OwnSession'
  BY <1>2 DEF IInv, TypeOK, Sound, OwnSession, NewObject
<1>3. ASSUME NEW c \in Conn, session' = [session EXCEPT ![c] = NoObj]
      PROVE  OwnSession'
  BY <1>3 DEF IInv, TypeOK, Sound, OwnSession
<1>4. ASSUME NEW c \in Conn, Connection(c) PROVE UNCHANGED session
  BY <1>4, Zenon
     DEF Connection, Reject, Accept, ReaderEnds, CloseTask, HandlerFails, player
<1>5. ASSUME NEW c \in Conn, Login(c) PROVE OwnSession'
  BY <1>1, <1>2, <1>3, <1>5, Zenon
     DEF Login, JoinServer, JoinFetched, JoinFailed, JoinRefused, JoinBreaks, LoadFails,
         JoinVerified, JoinScan, JoinReply, player
<1>6. ASSUME NEW c \in Conn, Play(c) PROVE OwnSession'
  BY <1>1, <1>2, <1>6, Zenon
     DEF Play, Reload, JoinRoom, ChangeRoom, Spawn, CreateAccount,
         CreatedLoads, UnlockLoads, Quit, player
<1>7. ASSUME NEW k \in Actor, Disconnect(k) PROVE UNCHANGED session
  BY <1>7, Zenon DEF Disconnect, CloseVictim, RemoveVictim, player
<1>8. ASSUME Admin PROVE UNCHANGED session
  BY <1>8, Zenon
     DEF Admin, ApiKick, SetMaintenance, SweepStarts, SweepNext, player
<1> QED
  BY <1>1, <1>4, <1>5, <1>6, <1>7, <1>8, Zenon DEF Next

(* A detached creation is for some commander.                              *)
LEMMA JobHasIdPreserved ==
  ASSUME IInv, Next
  PROVE  JobHasId'
<1>1. CASE UNCHANGED job
  BY <1>1 DEF IInv, Sound, JobHasId
<1>2. ASSUME NEW c \in Conn, job' = [job EXCEPT ![c] = NoJob]
      PROVE  JobHasId'
  BY <1>2 DEF IInv, TypeOK, Sound, JobHasId, NoJob
<1>3. ASSUME NEW c \in Conn, NEW kind \in {"create", "unlock", "quit"},
             Spawn(c, kind)
      PROVE  JobHasId'
  BY <1>3 DEF IInv, TypeOK, Sound, JobHasId, Spawn
<1>9. ASSUME NEW c \in Conn, NEW id \in Commander, CreateAccount(c, id)
      PROVE  JobHasId'
  BY <1>9 DEF IInv, TypeOK, Sound, JobHasId, CreateAccount
<1>4. ASSUME NEW c \in Conn, Connection(c) PROVE UNCHANGED job
  BY <1>4, Zenon
     DEF Connection, Reject, Accept, ReaderEnds, CloseTask, HandlerFails, tasks
<1>5. ASSUME NEW c \in Conn, Login(c) PROVE UNCHANGED job
  BY <1>5, Zenon
     DEF Login, JoinServer, JoinFetched, JoinFailed, JoinRefused, JoinBreaks, LoadFails,
         JoinVerified, JoinScan, JoinReply, tasks
<1>6. ASSUME NEW c \in Conn, Play(c) PROVE JobHasId'
  BY <1>1, <1>2, <1>3, <1>9, <1>6, Zenon
     DEF Play, Reload, JoinRoom, ChangeRoom, CreatedLoads, UnlockLoads, Quit,
         tasks
<1>7. ASSUME NEW k \in Actor, Disconnect(k) PROVE UNCHANGED job
  BY <1>7, Zenon DEF Disconnect, CloseVictim, RemoveVictim, tasks
<1>8. ASSUME Admin PROVE UNCHANGED job
  BY <1>8, Zenon
     DEF Admin, ApiKick, SetMaintenance, SweepStarts, SweepNext, tasks
<1> QED
  BY <1>1, <1>4, <1>5, <1>6, <1>7, <1>8, Zenon DEF Next

(* A step wakes up nobody but the connection that takes it, and that one   *)
(* was awake or has just been accepted.                                    *)
LEMMA ConnectionActive ==
  ASSUME IInv, NEW c \in Conn, Connection(c), NEW d \in Conn, Active(d)'
  PROVE  Active(d) \/ Entered(d)'
<1> USE DEF IInv, TypeOK, Actor, Active, dict, life, player, handler, tasks
<1>1. CASE Reject(c)
  BY <1>1 DEF Reject
<1>2. CASE Accept(c)
  BY <1>2 DEF Accept, Entered
<1>3. CASE ReaderEnds(c)
  BY <1>3 DEF ReaderEnds
<1>4. CASE CloseTask(c)
  BY <1>4 DEF CloseTask, Close, Idle, Sound, KnownEntered, Entered
<1>5. CASE HandlerFails(c)
  BY <1>5 DEF HandlerFails, Close, Ready
<1> QED
  BY <1>1, <1>2, <1>3, <1>4, <1>5 DEF Connection

(* A login puts nobody else to work.                                       *)
LEMMA LoginActive ==
  ASSUME IInv, NEW c \in Conn, Login(c), NEW d \in Conn, Active(d)'
  PROVE  Active(d)
<1> USE DEF IInv, TypeOK, Actor, Active, dict, life, player, handler, tasks
<1>1. CASE \E id \in Commander : JoinServer(c, id)
  BY <1>1 DEF JoinServer, Ready
<1>2. CASE JoinFetched(c)
  BY <1>2 DEF JoinFetched
<1>3. CASE JoinFailed(c) \/ JoinRefused(c) \/ JoinBreaks(c) \/ JoinReply(c)
  BY <1>3 DEF JoinFailed, JoinRefused, JoinBreaks, LoadFails, JoinReply
<1>4. CASE JoinVerified(c)
  BY <1>4 DEF JoinVerified
<1>5. CASE JoinScan(c)
  BY <1>5 DEF JoinScan
<1> QED
  BY <1>1, <1>2, <1>3, <1>4, <1>5 DEF Login

(* A player puts nobody else to work.                                      *)
LEMMA PlayActive ==
  ASSUME IInv, NEW c \in Conn, Play(c), NEW d \in Conn, Active(d)'
  PROVE  Active(d)
<1> USE DEF IInv, TypeOK, Actor, Active, dict, life, player, handler, tasks
<1>1. CASE \/ Reload(c) \/ JoinRoom(c) \/ \E new \in Room : ChangeRoom(c, new)
  BY <1>1 DEF Reload, JoinRoom, ChangeRoom
<1>2. CASE \E kind \in {"create", "unlock", "quit"} : Spawn(c, kind)
  BY <1>2 DEF Spawn, Ready
<1>3. CASE \E id \in Commander : CreateAccount(c, id)
  BY <1>3 DEF CreateAccount
<1>4. CASE CreatedLoads(c)
  BY <1>4 DEF CreatedLoads, NoJob
<1>5. CASE UnlockLoads(c)
  BY <1>5 DEF UnlockLoads, NoJob
<1>6. CASE Quit(c)
  BY <1>6 DEF Quit, Close, NoJob, Idle
<1> QED
  BY <1>1, <1>2, <1>3, <1>4, <1>5, <1>6 DEF Play

(* A disconnect puts nobody to work who has not come.                      *)
LEMMA DisconnectActive ==
  ASSUME IInv, NEW k \in Actor, Disconnect(k), NEW d \in Conn, Active(d)'
  PROVE  Active(d) \/ Entered(d)
<1> USE DEF IInv, TypeOK, Actor, Active, dict, life, player, handler, tasks
<1>1. CASE CloseVictim(k)
  BY <1>1 DEF CloseVictim, Close, Idle, Sound, VictimsEntered
<1>2. CASE RemoveVictim(k)
  BY <1>2 DEF RemoveVictim, Idle
<1> QED
  BY <1>1, <1>2 DEF Disconnect

(* The API puts nobody to work.                                            *)
LEMMA AdminActive ==
  ASSUME IInv, Admin, NEW d \in Conn, Active(d)'
  PROVE  Active(d)
<1> USE ConstantsAssumption
    DEF IInv, TypeOK, Actor, Active, dict, life, player, handler, tasks
<1>1. CASE \E id \in Commander : ApiKick(id)
  BY <1>1 DEF ApiKick
<1>2. CASE \E on \in BOOLEAN : SetMaintenance(on)
  BY <1>2 DEF SetMaintenance
<1>3. CASE \E s \in Sweep : SweepStarts(s)
  BY <1>3 DEF SweepStarts
<1>4. CASE \E s \in Sweep : SweepNext(s)
  <2>1. PICK s \in Sweep : SweepNext(s)
    BY <1>4
  <2>2. \/ kick' = kick
        \/ \E v : kick' = [kick EXCEPT ![s] = [stage |-> "notice", victim |-> v]]
    BY <2>1, Zenon DEF SweepNext
  <2>3. kick'[d] = kick[d]
    BY <2>2
  <2>4. UNCHANGED <<reader, pc, session, job>>
    BY <2>1, Zenon DEF SweepNext
  <2> QED
    BY <2>3, <2>4
<1> QED
  BY <1>1, <1>2, <1>3, <1>4 DEF Admin

(* Only who has come is at work.                                           *)
LEMMA ActiveEnteredPreserved ==
  ASSUME IInv, Next
  PROVE  ActiveEntered'
<1> SUFFICES ASSUME NEW d \in Conn, Active(d)' PROVE Entered(d)'
  BY DEF ActiveEntered
<1>1. Active(d) \/ Entered(d) \/ Entered(d)'
  BY ConnectionActive, LoginActive, PlayActive, DisconnectActive, AdminActive
     DEF Next
<1>2. Active(d) => Entered(d)
  BY DEF IInv, Sound, ActiveEntered
<1> QED
  BY <1>1, <1>2, EnteredStays

(* Only who has come is in the dict, closing, or listed by a sweep.        *)
LEMMA KnownEnteredPreserved ==
  ASSUME IInv, Next
  PROVE  KnownEntered'
<1>0. KnownEntered /\ TypeOK
  BY DEF IInv, Sound
<1>1. ASSUME UNCHANGED <<slot, closing, sweep>> PROVE KnownEntered'
  BY <1>0, <1>1, EnteredStays DEF KnownEntered, TypeOK, SweepTask
<1>2. ASSUME NEW c \in Conn, Entered(c), RemoveClient(c), UNCHANGED sweep
      PROVE  KnownEntered'
  BY <1>0, <1>2, EnteredStays DEF KnownEntered, TypeOK, SweepTask, RemoveClient
<1>3. ASSUME NEW c \in Conn, Accept(c) PROVE KnownEntered'
  <2>1. Entered(c)'
    BY <1>3 DEF Accept, Entered, IInv, TypeOK
  <2> QED
    BY <1>0, <1>3, <2>1, EnteredStays
       DEF KnownEntered, TypeOK, SweepTask, Accept, tasks
<1>4. ASSUME NEW c \in Conn, Connection(c) PROVE KnownEntered'
  <2>1. CASE ReaderEnds(c)
    <3>1. Entered(c)
      BY <2>1 DEF ReaderEnds, IInv, Sound, ActiveEntered, Active
    <3> QED
      BY <2>1, <3>1, <1>2 DEF ReaderEnds, tasks
  <2>2. CASE CloseTask(c)
    BY <1>0, <2>2, EnteredStays
       DEF KnownEntered, TypeOK, SweepTask, CloseTask
  <2> QED
    BY <1>1, <1>3, <1>4, <2>1, <2>2, Zenon
       DEF Connection, Reject, HandlerFails, dict, tasks
<1>5. ASSUME NEW c \in Conn, Login(c) PROVE KnownEntered'
  BY <1>1, <1>5, Zenon
     DEF Login, JoinServer, JoinFetched, JoinFailed, JoinRefused, JoinBreaks, LoadFails,
         JoinVerified, JoinScan, JoinReply, dict, tasks
<1>6. ASSUME NEW c \in Conn, Play(c) PROVE KnownEntered'
  BY <1>1, <1>6, Zenon
     DEF Play, Reload, JoinRoom, ChangeRoom, Spawn, CreateAccount,
         CreatedLoads, UnlockLoads, Quit, dict, tasks
<1>7. ASSUME NEW k \in Actor, Disconnect(k) PROVE KnownEntered'
  <2>1. CASE RemoveVictim(k)
    <3>1. kick[k].victim \in Conn /\ Entered(kick[k].victim)
      BY <2>1 DEF RemoveVictim, IInv, Sound, VictimsEntered
    <3> QED
      BY <2>1, <3>1, <1>2 DEF RemoveVictim
  <2> QED
    BY <1>1, <1>7, <2>1, Zenon DEF Disconnect, CloseVictim, dict
<1>8. ASSUME Admin PROVE KnownEntered'
  <2>1. ASSUME UNCHANGED dict,
               \A s \in Sweep : sweep'[s].rest \subseteq sweep[s].rest
        PROVE  KnownEntered'
    BY <1>0, <2>1, EnteredStays DEF KnownEntered, TypeOK, SweepTask, dict
  <2>2. CASE \E on \in BOOLEAN : SetMaintenance(on)
    <3>1. \/ sweep' = sweep
          \/ \E s \in Sweep : sweep' = [sweep EXCEPT ![s].stage = "ready"]
      BY <2>2, Zenon DEF SetMaintenance, SpawnSweep
    <3>2. \A s \in Sweep : sweep'[s].rest \subseteq sweep[s].rest
      BY <1>0, <3>1, SweepShrinks DEF TypeOK
    <3> QED
      BY <2>1, <2>2, <3>2, Zenon DEF SetMaintenance
  <2>3. CASE \E s \in Sweep : SweepStarts(s)
    BY <1>0, <2>3, EnteredStays, ConstantsAssumption
       DEF SweepStarts, KnownEntered, TypeOK, SweepTask, Listed, dict
  <2>4. CASE \E s \in Sweep : SweepNext(s)
    <3>1. \E s \in Sweep :
            \/ sweep' = [sweep EXCEPT ![s].stage = "done"]
            \/ \E v : sweep' = [sweep EXCEPT ![s].rest = @ \ {v}]
      BY <2>4, Zenon DEF SweepNext
    <3>2. \A s \in Sweep : sweep'[s].rest \subseteq sweep[s].rest
      BY <1>0, <3>1, SweepShrinks DEF TypeOK
    <3> QED
      BY <2>1, <2>4, <3>2, Zenon DEF SweepNext
  <2> QED
    BY <1>1, <1>8, <2>2, <2>3, <2>4, Zenon DEF Admin, ApiKick, dict
<1> QED
  BY <1>4, <1>5, <1>6, <1>7, <1>8, Zenon DEF Next

(* The victims: a scan finds them in the dict, a disconnect_all task in    *)
(* its snapshot, and a login never picks itself.                           *)
LEMMA VictimsEnteredPreserved ==
  ASSUME IInv, Next
  PROVE  VictimsEntered'
<1>0. VictimsEntered /\ KnownEntered /\ TypeOK
  BY DEF IInv, Sound
<1>1. ASSUME UNCHANGED kick PROVE VictimsEntered'
  BY <1>0, <1>1, EnteredStays DEF VictimsEntered
<1>2. ASSUME NEW k, kick' = [kick EXCEPT ![k] = Idle] PROVE VictimsEntered'
  BY <1>0, <1>2, EnteredStays DEF VictimsEntered, TypeOK, Idle
<1>3. ASSUME NEW k \in Actor, NEW v \in Conn, v # k, Entered(v),
             kick' = [kick EXCEPT ![k] = [stage |-> "notice", victim |-> v]]
      PROVE  VictimsEntered'
  BY <1>0, <1>3, EnteredStays DEF VictimsEntered, TypeOK
<1>4. ASSUME NEW id, FirstMatch(id) # NoConn
      PROVE  FirstMatch(id) \in Conn /\ Entered(FirstMatch(id))
  <2>1. FirstMatch(id) \in Conn
    BY <1>0, <1>4, FirstMatchType
  <2>2. PICK h \in HashVal : slot[h] = FirstMatch(id)
    BY <1>0, <1>4, FirstMatchIsListed
  <2> QED
    BY <1>0, <1>4, <2>1, <2>2 DEF KnownEntered
<1>5. ASSUME NEW c \in Conn, Connection(c) PROVE VictimsEntered'
  BY <1>1, <1>2, <1>5, Zenon
     DEF Connection, Reject, Accept, ReaderEnds, CloseTask, HandlerFails, tasks
<1>6. ASSUME NEW c \in Conn, Login(c) PROVE VictimsEntered'
  <2>1. CASE JoinScan(c)
    <3> DEFINE t == FirstMatch(session[c].id)
    <3>1. CASE t \in {NoConn, c}
      BY <1>1, <2>1, <3>1 DEF JoinScan
    <3>2. CASE t \notin {NoConn, c}
      <4>1. t \in Conn /\ Entered(t) /\ t # c /\ c \in Actor
        BY <1>4, <3>2 DEF Actor
      <4>2. kick' = [kick EXCEPT ![c] = [stage |-> "notice", victim |-> t]]
        BY <2>1, <3>2, Zenon DEF JoinScan
      <4> QED
        BY <1>3, <4>1, <4>2
    <3> QED
      BY <3>1, <3>2
  <2> QED
    BY <1>1, <1>6, <2>1, Zenon
       DEF Login, JoinServer, JoinFetched, JoinFailed, JoinRefused,
           JoinBreaks, LoadFails, JoinVerified, JoinReply, tasks
<1>7. ASSUME NEW c \in Conn, Play(c) PROVE VictimsEntered'
  BY <1>1, <1>2, <1>7, Zenon
     DEF Play, Reload, JoinRoom, ChangeRoom, Spawn, CreateAccount,
         CreatedLoads, UnlockLoads, Quit, tasks
<1>8. ASSUME NEW k \in Actor, Disconnect(k) PROVE VictimsEntered'
  <2>1. CASE CloseVictim(k)
    BY <1>0, <2>1, EnteredStays
       DEF CloseVictim, VictimsEntered, TypeOK, Idle
  <2>2. CASE RemoveVictim(k)
    BY <1>2, <2>2 DEF RemoveVictim
  <2> QED
    BY <1>8, <2>1, <2>2 DEF Disconnect
<1>9. ASSUME Admin PROVE VictimsEntered'
  <2>1. ASSUME NEW id \in Commander, ApiKick(id) PROVE VictimsEntered'
    <3>1. FirstMatch(id) \in Conn /\ Entered(FirstMatch(id))
      BY <1>4, <2>1 DEF ApiKick
    <3>2. API \in Actor /\ API \notin Conn
      BY ConstantsAssumption DEF Actor
    <3> QED
      BY <1>3, <2>1, <3>1, <3>2 DEF ApiKick
  <2>2. ASSUME NEW s \in Sweep, SweepNext(s) PROVE VictimsEntered'
    <3>1. ASSUME NEW v \in sweep[s].rest
          PROVE  v \in Conn /\ v # s /\ Entered(v) /\ s \in Actor
      BY <1>0, <3>1, ConstantsAssumption
         DEF TypeOK, SweepTask, KnownEntered, Actor
    <3>2. \/ kick' = kick
          \/ \E v \in sweep[s].rest :
               kick' = [kick EXCEPT ![s] = [stage |-> "notice", victim |-> v]]
      BY <2>2, Zenon DEF SweepNext
    <3> QED
      BY <1>1, <1>3, <3>1, <3>2, Zenon
  <2> QED
    BY <1>1, <1>9, <2>1, <2>2, Zenon DEF Admin, SetMaintenance, SweepStarts
<1> QED
  BY <1>5, <1>6, <1>7, <1>8, <1>9, Zenon DEF Next

-----------------------------------------------------------------------------
(* The invariant, and the theorems.                                        *)
LEMMA InitIInv == Init => IInv
<1> SUFFICES ASSUME Init PROVE IInv
  OBVIOUS
<1> USE ConstantsAssumption, NoObjAssumption
<1>1. TypeOK
  <2>1. order \in Seq(HashVal)
    BY EmptySeq DEF Init
  <2> QED
    BY <2>1 DEF Init, TypeOK, Kick, SweepTask, Idle, NoJob
<1>2. Sound
  BY DEF Init, Sound, KnownEntered, VictimsEntered, ActiveEntered, Active,
         OwnSession, JobHasId, Idle, NoJob, Actor
<1> QED
  BY <1>1, <1>2 DEF IInv

(* Every step keeps the invariant.                                         *)
LEMMA NextIInv == IInv /\ [Next]_vars => IInv'
<1> SUFFICES ASSUME IInv, [Next]_vars PROVE IInv'
  OBVIOUS
<1>1. CASE Next
  <2>1. TypeOK'
    BY <1>1, ConnectionType, LoginType, PlayType, DisconnectType, AdminType,
       Zenon DEF Next
  <2>2. Sound'
    BY <1>1, KnownEnteredPreserved, VictimsEnteredPreserved,
       ActiveEnteredPreserved, OwnSessionPreserved, JobHasIdPreserved DEF Sound
  <2> QED
    BY <2>1, <2>2 DEF IInv
<1>2. CASE UNCHANGED vars
  <2>1. TypeOK'
    BY <1>2 DEF IInv, TypeOK, vars, dict, life, player, handler, tasks, registry
  <2>2. Sound'
    BY <1>2 DEF IInv, Sound, KnownEntered, VictimsEntered, ActiveEntered,
                Active, Entered, OwnSession, JobHasId, vars, dict, life, player,
                handler, tasks
  <2> QED
    BY <2>1, <2>2 DEF IInv
<1> QED
  BY <1>1, <1>2

(* The invariant holds always.                                             *)
LEMMA Invariance == Spec => []IInv
BY InitIInv, NextIInv, PTL DEF Spec

(* Every variable of the session layer keeps its type; in particular no    *)
(* room ever holds a negative number of occurrences of a client.           *)
THEOREM TypeCorrect == Spec => []TypeOK
<1>1. IInv => TypeOK
  BY DEF IInv
<1> QED
  BY <1>1, Invariance, PTL

(* A step that takes an entry out of the registry of commanders is a       *)
(* close() of an open connection, whose session the entry is.              *)
LEMMA CloseTakesOwnEntry ==
  ASSUME IInv, NEW c \in Conn, Entered(c), Close(c), NEW i \in Commander,
         activeCommander[i] # NoObj, activeCommander'[i] = NoObj
  PROVE  LET o == activeCommander[i].owner IN
         state[o] = "open" /\ state'[o] = "closed"
<1>1. state[c] # "closed" /\ session[c] # NoObj /\ UnregisterCommander(c)
  BY DEF Close, registry
<1>2. activeCommander[i] = session[c]
  BY <1>1 DEF UnregisterCommander
<1>3. activeCommander[i].owner = c
  BY <1>1, <1>2 DEF IInv, Sound, OwnSession
<1> QED
  BY <1>1, <1>3 DEF Close, Entered, IInv, TypeOK

(* A load puts an object in, and takes nothing out.                        *)
LEMMA LoadKeepsEntries ==
  ASSUME TypeOK, NEW c, NEW o \in Object, Load(c, o), NEW i \in Commander,
         activeCommander[i] # NoObj
  PROVE  activeCommander'[i] # NoObj
BY NoObjAssumption DEF Load, TypeOK, Object

(* An entry of the registry goes only when its owner closes.               *)
LEMMA EntryStep ==
  ASSUME IInv, Next, NEW i \in Commander,
         activeCommander[i] # NoObj, activeCommander'[i] = NoObj
  PROVE  LET o == activeCommander[i].owner IN
         state[o] = "open" /\ state'[o] = "closed"
<1> DEFINE Goal == LET o == activeCommander[i].owner IN
                   state[o] = "open" /\ state'[o] = "closed"
<1> SUFFICES Goal
  OBVIOUS
<1>0. activeCommander' # activeCommander
  OBVIOUS
<1>1. ASSUME NEW c \in Conn, Entered(c), Close(c) PROVE Goal
  BY <1>1, CloseTakesOwnEntry
<1>2. ASSUME NEW c, NEW o \in Object PROVE ~Load(c, o)
  BY LoadKeepsEntries DEF IInv
<1> HIDE DEF Goal
<1>3. \A c \in Conn : Active(c) => Entered(c)
  BY DEF IInv, Sound, ActiveEntered
<1>4. \A c \in Conn : session[c] # NoObj => session[c] \in Object
  BY DEF IInv, TypeOK
<1>5. ASSUME NEW c \in Conn, Connection(c) PROVE Goal
  <2>1. CASE CloseTask(c)
    BY <1>1, <2>1 DEF CloseTask, IInv, Sound, KnownEntered
  <2>2. CASE HandlerFails(c)
    BY <1>1, <2>2 DEF HandlerFails, Ready, Entered
  <2> QED
    BY <1>0, <1>5, <2>1, <2>2, Zenon
       DEF Connection, Reject, Accept, ReaderEnds, registry
<1>6. ASSUME NEW c \in Conn, Login(c) PROVE Goal
  BY <1>0, <1>2, <1>4, <1>6, Zenon
     DEF Login, JoinServer, JoinFetched, JoinFailed, JoinRefused, JoinBreaks, LoadFails,
         JoinVerified, JoinScan, JoinReply, registry
<1>7. ASSUME NEW c \in Conn, Play(c) PROVE Goal
  <2>1. CASE Quit(c)
    <3>1. Entered(c)
      BY <1>3, <2>1 DEF Quit, Active
    <3> QED
      BY <1>1, <2>1, <3>1 DEF Quit
  <2>2. CASE CreatedLoads(c)
    <3>1. NewObject(c, job[c].id) \in Object
      BY <2>2, ConstantsAssumption
         DEF CreatedLoads, CanCreate, NewObject, Object, IInv, TypeOK, Sound,
             JobHasId
    <3> QED
      BY <1>0, <1>2, <2>2, <3>1, Zenon DEF CreatedLoads, LoadFails
  <2> QED
    BY <1>0, <1>2, <1>4, <1>7, <2>1, <2>2, Zenon
       DEF Play, Reload, JoinRoom, ChangeRoom, Spawn, CreateAccount,
           UnlockLoads, LoadFails, registry
<1>8. ASSUME NEW k \in Actor, Disconnect(k) PROVE Goal
  <2>1. CASE CloseVictim(k)
    BY <1>1, <2>1 DEF CloseVictim, IInv, Sound, VictimsEntered
  <2> QED
    BY <1>0, <1>8, <2>1, Zenon DEF Disconnect, RemoveVictim, registry
<1>9. ASSUME Admin PROVE Goal
  BY <1>0, <1>9, Zenon
     DEF Admin, ApiKick, SetMaintenance, SweepStarts, SweepNext, registry
<1> QED
  BY <1>5, <1>6, <1>7, <1>8, <1>9, Zenon DEF Next

(* Whatever logs in, reloads, is kicked or hangs up: an entry leaves the   *)
(* registry of commanders only in the close() of the connection that       *)
(* fetched it, so a replaced session never takes out the one that          *)
(* replaced it.                                                            *)
THEOREM EntriesStay == Spec => EntryLeavesWithItsOwner
<1> DEFINE Step == \A i \in Commander :
       activeCommander[i] # NoObj /\ activeCommander'[i] = NoObj =>
         LET c == activeCommander[i].owner IN
         state[c] = "open" /\ state'[c] = "closed"
<1>1. IInv /\ [Next]_vars => [Step]_vars
  BY EntryStep
<1> HIDE DEF Step
<1>2. Spec => [][Step]_vars
  BY <1>1, Invariance, PTL DEF Spec
<1> QED
  BY <1>2 DEF EntryLeavesWithItsOwner, Step

-----------------------------------------------------------------------------
(* The server never forgets a live connection.                             *)
Kept(d) == state[d] = "open" => Listed(d) \/ d \in closing \/ Collides(d)

(* Connections with the same hash keep it.                                 *)
LEMMA CollidesStays ==
  ASSUME IInv, Next, NEW d \in Conn, Collides(d)
  PROVE  Collides(d)'
<1>1. PICK e \in Conn : e # d /\ Hash[e] = Hash[d] /\ Entered(e)
  BY DEF Collides, Entered, IInv, TypeOK
<1>2. Entered(e)'
  BY <1>1, EnteredStays
<1> QED
  BY <1>1, <1>2 DEF Collides, Entered

(* Every step keeps a live connection known.                               *)
LEMMA KeptPreserved ==
  ASSUME IInv, Next, NEW d \in Conn, Kept(d)
  PROVE  Kept(d)'
<1>0. TypeOK
  BY DEF IInv
<1>1. ASSUME state'[d] = "open" => state[d] = "open", UNCHANGED <<slot, closing>>
      PROVE  Kept(d)'
  BY <1>1, CollidesStays DEF Kept, Listed
<1>2. ASSUME NEW c PROVE Close(c) => (state'[d] = "open" => state[d] = "open")
  BY <1>0 DEF Close, TypeOK
<1>3. ASSUME NEW c \in Conn, Entered(c), RemoveClient(c), UNCHANGED state
      PROVE  Kept(d)'
  <2>1. CASE d = c
    BY <1>3, <2>1 DEF RemoveClient, Kept
  <2>2. CASE Hash[d] # Hash[c]
    BY <1>0, <1>3, <2>2, CollidesStays, ConstantsAssumption
       DEF RemoveClient, Kept, Listed, TypeOK
  <2>3. CASE d # c /\ Hash[d] = Hash[c]
    <3>1. Collides(d)
      BY <1>3, <2>3 DEF Collides, Entered
    <3> QED
      BY <3>1, CollidesStays DEF Kept
  <2> QED
    BY <2>1, <2>2, <2>3
<1>4. ASSUME NEW c \in Conn, Accept(c) PROVE Kept(d)'
  <2>1. CASE d = c
    BY <1>0, <1>4, <2>1, ConstantsAssumption DEF Accept, Kept, Listed, TypeOK
  <2>2. CASE Hash[d] # Hash[c]
    BY <1>0, <1>4, <2>2, CollidesStays, ConstantsAssumption
       DEF Accept, Kept, Listed, TypeOK
  <2>3. CASE d # c /\ Hash[d] = Hash[c]
    <3>1. state'[c] = "open"
      BY <1>0, <1>4 DEF Accept, TypeOK
    <3> QED
      BY <2>3, <3>1 DEF Kept, Collides
  <2> QED
    BY <2>1, <2>2, <2>3
<1>5. ASSUME NEW c \in Conn, Connection(c) PROVE Kept(d)'
  <2>1. CASE Reject(c)
    BY <1>0, <1>1, <2>1 DEF Reject, dict, TypeOK
  <2>2. CASE ReaderEnds(c)
    BY <1>3, <2>2 DEF ReaderEnds, IInv, Sound, ActiveEntered, Active
  <2>3. CASE CloseTask(c)
    BY <1>0, <2>3, CollidesStays DEF CloseTask, Close, Kept, Listed, TypeOK
  <2>4. CASE HandlerFails(c)
    BY <1>1, <1>2, <2>4 DEF HandlerFails, dict
  <2> QED
    BY <1>4, <1>5, <2>1, <2>2, <2>3, <2>4 DEF Connection
<1>6. ASSUME NEW c \in Conn, Login(c) PROVE Kept(d)'
  BY <1>1, <1>6, Zenon
     DEF Login, JoinServer, JoinFetched, JoinFailed, JoinRefused, JoinBreaks, LoadFails,
         JoinVerified, JoinScan, JoinReply, dict, life
<1>7. ASSUME NEW c \in Conn, Play(c) PROVE Kept(d)'
  <2>1. CASE Quit(c)
    BY <1>1, <1>2, <2>1 DEF Quit, dict
  <2> QED
    BY <1>1, <1>7, <2>1, Zenon
       DEF Play, Reload, JoinRoom, ChangeRoom, Spawn, CreateAccount,
           CreatedLoads, UnlockLoads, dict, life
<1>8. ASSUME NEW k \in Actor, Disconnect(k) PROVE Kept(d)'
  <2>1. CASE CloseVictim(k)
    BY <1>1, <1>2, <2>1 DEF CloseVictim, dict
  <2>2. CASE RemoveVictim(k)
    BY <1>3, <2>2 DEF RemoveVictim, IInv, Sound, VictimsEntered, life
  <2> QED
    BY <1>8, <2>1, <2>2 DEF Disconnect
<1>9. ASSUME Admin PROVE Kept(d)'
  BY <1>1, <1>9, Zenon
     DEF Admin, ApiKick, SetMaintenance, SweepStarts, SweepNext, dict, life
<1> QED
  BY <1>5, <1>6, <1>7, <1>8, <1>9, Zenon DEF Next

(* An open connection that is no longer in the dict has its close()        *)
(* scheduled, or shares its hash with another connection: for every number *)
(* of connections, every hash function, and however kicks, logins and      *)
(* disconnect_all tasks interleave.                                        *)
THEOREM LiveConnectionsKept == Spec => []OpenIsReachable
<1>1. Init => OpenIsReachable
  BY DEF Init, OpenIsReachable
<1>2. IInv /\ OpenIsReachable /\ [Next]_vars => OpenIsReachable'
  <2>1. ASSUME IInv, OpenIsReachable, Next PROVE OpenIsReachable'
    BY <2>1, KeptPreserved DEF OpenIsReachable, Kept
  <2>2. ASSUME OpenIsReachable, UNCHANGED vars PROVE OpenIsReachable'
    BY <2>2 DEF OpenIsReachable, Listed, Collides, vars, dict, life
  <2> QED
    BY <2>1, <2>2
<1> QED
  BY <1>1, <1>2, Invariance, PTL DEF Spec

-----------------------------------------------------------------------------
(* Maintenance.  While it is on, every open connection is on the list of   *)
(* somebody who will disconnect it: a disconnect_all task that has not yet *)
(* taken its snapshot, or has the connection in its snapshot or at hand.   *)
AtHand(s, d) == kick[s].stage = "notice" /\ kick[s].victim = d
Doomed(d) ==
  \/ d \in closing \/ Collides(d)
  \/ \E s \in Sweep :
       \/ sweep[s].stage = "ready"
       \/ sweep[s].stage = "running" /\ (d \in sweep[s].rest \/ AtHand(s, d))
DoorInv == maintenance => \A d \in Conn : state[d] = "open" => Doomed(d)

(* A disconnect that has reached its second half has closed its victim,    *)
(* and only the tasks that run disconnect anybody.                         *)
SecondHalf ==
  /\ \A k \in Actor : kick[k].stage = "closed" => state[kick[k].victim] = "closed"
  /\ \A s \in Sweep : sweep[s].stage # "running" => kick[s] = Idle

(* The invariant that the closed door needs.                               *)
DInv == IInv /\ OpenIsReachable /\ SecondHalf /\ DoorInv

(* What the second half of a disconnect relies on stays true.              *)
LEMMA SecondHalfPreserved ==
  ASSUME IInv, Next, SecondHalf
  PROVE  SecondHalf'
<1>0. TypeOK /\ VictimsEntered
  BY DEF IInv, Sound
<1>10. \A k \in Actor : kick[k].stage = "closed" =>
         state'[kick[k].victim] = "closed"
  BY <1>0, EnteredStays DEF SecondHalf, VictimsEntered
<1>11. \A s \in Sweep : sweep[s].stage # "running" => kick[s] = Idle
  BY DEF SecondHalf
<1>1. ASSUME UNCHANGED <<kick, sweep>> PROVE SecondHalf'
  BY <1>1, <1>10, <1>11 DEF SecondHalf
<1>2. ASSUME NEW k \in Actor, kick' = [kick EXCEPT ![k] = Idle], UNCHANGED sweep
      PROVE  SecondHalf'
  BY <1>0, <1>2, <1>10, <1>11 DEF SecondHalf, TypeOK, Idle
<1>3. ASSUME NEW k \in Actor, k \notin Sweep, NEW v, UNCHANGED sweep,
             kick' = [kick EXCEPT ![k] = [stage |-> "notice", victim |-> v]]
      PROVE  SecondHalf'
  BY <1>0, <1>3, <1>10, <1>11 DEF SecondHalf, TypeOK
<1>4. Conn \subseteq Actor /\ Conn \cap Sweep = {} /\ API \in Actor \ Sweep
  BY ConstantsAssumption DEF Actor
<1>5. ASSUME NEW c \in Conn, Connection(c) PROVE SecondHalf'
  BY <1>1, <1>2, <1>4, <1>5
     DEF Connection, Reject, Accept, ReaderEnds, CloseTask, HandlerFails, tasks
<1>6. ASSUME NEW c \in Conn, Login(c) PROVE SecondHalf'
  <2>1. CASE JoinScan(c)
    BY <1>1, <1>3, <1>4, <2>1, Zenon DEF JoinScan
  <2> QED
    BY <1>1, <1>6, <2>1, Zenon
       DEF Login, JoinServer, JoinFetched, JoinFailed, JoinRefused,
           JoinBreaks, LoadFails, JoinVerified, JoinReply, tasks
<1>7. ASSUME NEW c \in Conn, Play(c) PROVE SecondHalf'
  <2>1. CASE Quit(c)
    BY <1>2, <1>4, <2>1 DEF Quit
  <2> QED
    BY <1>1, <1>7, <2>1, Zenon
       DEF Play, Reload, JoinRoom, ChangeRoom, Spawn, CreateAccount,
           CreatedLoads, UnlockLoads, tasks
<1>8. ASSUME NEW k \in Actor, Disconnect(k) PROVE SecondHalf'
  <2>1. CASE CloseVictim(k)
    <3> DEFINE v == kick[k].victim
    <3>1. v \in Conn /\ v # k /\ state'[v] = "closed"
      BY <1>0, <2>1 DEF CloseVictim, Close, VictimsEntered, TypeOK
    <3>2. kick[k] # Idle /\ UNCHANGED sweep
      BY <2>1 DEF CloseVictim, Idle
    <3> QED
      <4>1. kick' = [kick EXCEPT ![v] = Idle, ![k].stage = "closed"]
        BY <2>1 DEF CloseVictim
      <4>2. \A j \in Actor : j # k => kick'[j] = kick[j] \/ kick'[j] = Idle
        BY <1>0, <1>4, <3>1, <4>1 DEF TypeOK
      <4>3. kick'[k] = [kick[k] EXCEPT !.stage = "closed"]
        BY <1>0, <1>4, <3>1, <4>1 DEF TypeOK
      <4>4. kick'[k].victim = v
        BY <1>0, <4>3 DEF TypeOK, Kick
      <4>5. \A j \in Actor : kick'[j].stage = "closed" =>
              state'[kick'[j].victim] = "closed"
        BY <1>10, <3>1, <4>2, <4>4 DEF Idle
      <4>6. \A s \in Sweep : sweep'[s].stage # "running" => kick'[s] = Idle
        BY <1>11, <3>2, <4>2 DEF Actor
      <4> QED
        BY <4>5, <4>6 DEF SecondHalf
  <2>2. CASE RemoveVictim(k)
    BY <1>2, <2>2 DEF RemoveVictim
  <2> QED
    BY <1>8, <2>1, <2>2 DEF Disconnect
<1>9. ASSUME Admin PROVE SecondHalf'
  <2>1. ASSUME NEW id \in Commander, ApiKick(id) PROVE SecondHalf'
    BY <1>3, <1>4, <2>1, Zenon DEF ApiKick
  <2>2. ASSUME NEW s \in Sweep, sweep[s].stage # "running",
               NEW task, sweep' = [sweep EXCEPT ![s] = task], UNCHANGED kick
        PROVE  SecondHalf'
    BY <1>0, <2>2, <1>10, <1>11 DEF SecondHalf, TypeOK
  <2>3. ASSUME NEW on \in BOOLEAN, SetMaintenance(on) PROVE SecondHalf'
    <3>1. CASE UNCHANGED sweep
      BY <1>1, <2>3, <3>1, Zenon DEF SetMaintenance
    <3>2. CASE SpawnSweep
      <4>1. PICK s \in Sweep : /\ sweep[s].stage = "unused"
                               /\ sweep' = [sweep EXCEPT ![s].stage = "ready"]
        BY <3>2 DEF SpawnSweep
      <4> QED
        BY <2>2, <2>3, <4>1 DEF SetMaintenance
    <3> QED
      BY <2>3, <3>1, <3>2, Zenon DEF SetMaintenance
  <2>4. ASSUME NEW s \in Sweep, SweepStarts(s) PROVE SecondHalf'
    BY <2>2, <2>4 DEF SweepStarts
  <2>5. ASSUME NEW s \in Sweep, SweepNext(s) PROVE SecondHalf'
    <3>1. CASE kick' = kick /\ sweep' = [sweep EXCEPT ![s].stage = "done"]
      BY <1>0, <1>10, <1>11, <2>5, <3>1 DEF SweepNext, SecondHalf, TypeOK
    <3>2. ASSUME NEW v,
                 sweep' = [sweep EXCEPT ![s].rest = @ \ {v}],
                 kick' = [kick EXCEPT ![s] = [stage |-> "notice", victim |-> v]]
          PROVE  SecondHalf'
      <4>1. sweep'[s].stage = "running"
        BY <1>0, <2>5, <3>2 DEF SweepNext, TypeOK, SweepTask
      <4> QED
        <5>1. \A j \in Actor : j # s => kick'[j] = kick[j]
          BY <1>0, <3>2 DEF TypeOK
        <5>2. kick'[s].stage = "notice"
          BY <1>0, <3>2 DEF TypeOK, Actor
        <5>3. \A t \in Sweep : t # s => sweep'[t] = sweep[t]
          BY <1>0, <3>2 DEF TypeOK
        <5> QED
          BY <1>10, <1>11, <4>1, <5>1, <5>2, <5>3 DEF SecondHalf, Actor
    <3> QED
      BY <2>5, <3>1, <3>2, Zenon DEF SweepNext
  <2> QED
    BY <1>9, <2>1, <2>3, <2>4, <2>5, Zenon DEF Admin
<1> QED
  BY <1>5, <1>6, <1>7, <1>8, <1>9, Zenon DEF Next

(* A step that leaves the disconnect_all tasks alone and takes nobody off  *)
(* the closing list keeps the doom of a connection.                        *)
LEMMA DoomedStays ==
  ASSUME IInv, Next, NEW d \in Conn, Doomed(d), closing \subseteq closing',
         \A s \in Sweep : sweep'[s] = sweep[s],
         \A s \in Sweep : AtHand(s, d) => AtHand(s, d)'
  PROVE  Doomed(d)'
BY CollidesStays DEF Doomed

(* The API and the sweep leave nobody behind a closed door who is not      *)
(* doomed.                                                                 *)
LEMMA DoorAdmin ==
  ASSUME DInv, Next, Admin, maintenance', NEW d \in Conn, state'[d] = "open"
  PROVE  Doomed(d)'
<1>0. IInv /\ TypeOK /\ SecondHalf
  BY DEF DInv, IInv
<1>1. state[d] = "open" /\ closing' = closing
  BY Zenon
     DEF Admin, ApiKick, SetMaintenance, SweepStarts, SweepNext, dict, life
<1>2. maintenance => Doomed(d)
  BY <1>1 DEF DInv, DoorInv
<1>3. ASSUME NEW id \in Commander, ApiKick(id) PROVE Doomed(d)'
  <2>1. \A s \in Sweep : kick'[s] = kick[s]
    BY <1>0, <1>3, ConstantsAssumption DEF ApiKick, TypeOK
  <2>2. maintenance /\ UNCHANGED sweep
    BY <1>3 DEF ApiKick
  <2> QED
    BY <1>0, <1>1, <1>2, <2>1, <2>2, DoomedStays DEF AtHand
<1>4. ASSUME NEW on \in BOOLEAN, SetMaintenance(on) PROVE Doomed(d)'
  <2>1. PICK s \in Sweep : sweep' = [sweep EXCEPT ![s].stage = "ready"]
    BY <1>4 DEF SetMaintenance, SpawnSweep
  <2>2. sweep'[s].stage = "ready"
    BY <1>0, <2>1 DEF TypeOK, SweepTask
  <2> QED
    BY <2>2 DEF Doomed
<1>5. ASSUME NEW s \in Sweep, SweepStarts(s) PROVE Doomed(d)'
  <2>1. CASE d \in closing \/ Collides(d)
    BY <1>0, <1>1, <2>1, CollidesStays DEF Doomed
  <2>2. CASE Listed(d)
    <3>1. sweep'[s] = [stage |-> "running", rest |-> {c \in Conn : Listed(c)}]
      BY <1>0, <1>5 DEF SweepStarts, TypeOK
    <3>2. sweep'[s].stage = "running" /\ d \in sweep'[s].rest
      BY <2>2, <3>1
    <3> QED
      BY <3>2 DEF Doomed
  <2> QED
    BY <1>1, <2>1, <2>2 DEF DInv, OpenIsReachable
<1>6. ASSUME NEW s \in Sweep, SweepNext(s) PROVE Doomed(d)'
  <2>0. Doomed(d) /\ sweep[s].stage = "running" /\ kick[s] = Idle
    BY <1>2, <1>6 DEF SweepNext
  <2>1. CASE d \in closing \/ Collides(d)
    BY <1>0, <1>1, <2>1, CollidesStays DEF Doomed
  <2>2. ASSUME NEW t \in Sweep, t # s, sweep[t].stage \in {"ready", "running"},
               sweep[t].stage = "running" => d \in sweep[t].rest \/ AtHand(t, d)
        PROVE  Doomed(d)'
    <3>1. sweep'[t] = sweep[t] /\ kick'[t] = kick[t]
      BY <1>0, <1>6, <2>2 DEF SweepNext, TypeOK, Actor
    <3> QED
      BY <2>2, <3>1 DEF Doomed, AtHand
  <2>3. CASE d \in sweep[s].rest
    <3>1. PICK v \in sweep[s].rest :
            /\ sweep' = [sweep EXCEPT ![s].rest = @ \ {v}]
            /\ kick' = [kick EXCEPT ![s] = [stage |-> "notice", victim |-> v]]
      BY <1>6, <2>3 DEF SweepNext
    <3>2. sweep'[s].stage = "running" /\ sweep'[s].rest = sweep[s].rest \ {v}
      BY <1>0, <2>0, <3>1 DEF TypeOK, SweepTask
    <3>3. AtHand(s, v)'
      BY <1>0, <3>1 DEF TypeOK, Actor, AtHand
    <3> QED
      BY <2>3, <3>2, <3>3 DEF Doomed
  <2>4. ~AtHand(s, d)
    BY <2>0 DEF AtHand, Idle
  <2> QED
    BY <2>0, <2>1, <2>2, <2>3, <2>4 DEF Doomed
<1> QED
  BY <1>3, <1>4, <1>5, <1>6, Zenon DEF Admin

(* Nor does any other step.                                                *)
LEMMA DoorPreserved ==
  ASSUME DInv, Next, maintenance', NEW d \in Conn, state'[d] = "open"
  PROVE  Doomed(d)'
<1>0. IInv /\ TypeOK /\ VictimsEntered
  BY DEF DInv, IInv, Sound
<1>1. ASSUME maintenance, state[d] = "open" PROVE Doomed(d)
  BY <1>1 DEF DInv, DoorInv
<1>2. ASSUME maintenance, state[d] = "open", UNCHANGED sweep,
             closing \subseteq closing', \A s \in Sweep : kick'[s] = kick[s]
      PROVE  Doomed(d)'
  BY <1>0, <1>1, <1>2, DoomedStays DEF AtHand
<1>3. ASSUME NEW c, NEW x, c \in Conn, kick' = [kick EXCEPT ![c] = x]
      PROVE  \A s \in Sweep : kick'[s] = kick[s]
  BY <1>0, <1>3, ConstantsAssumption DEF TypeOK
<1>4. ASSUME NEW c, Close(c) PROVE state[d] = "open" /\ (c \in Conn => d # c)
  BY <1>0, <1>4 DEF Close, TypeOK
<1>5. ASSUME NEW c \in Conn, Connection(c) PROVE Doomed(d)'
  <2>1. CASE Reject(c)
    BY <1>0, <1>2, <2>1 DEF Reject, TypeOK, dict, tasks
  <2>2. ~Accept(c)
    BY DEF Accept, MayEnter
  <2>3. CASE ReaderEnds(c)
    BY <1>2, <2>3 DEF ReaderEnds, RemoveClient, tasks
  <2>4. CASE CloseTask(c)
    <3>1. d # c /\ state[d] = "open" /\ maintenance
      BY <1>4, <2>4 DEF CloseTask
    <3>2. \A s \in Sweep : kick'[s] = kick[s] /\ sweep'[s] = sweep[s]
      BY <1>3, <2>4 DEF CloseTask
    <3>3. d \in closing => d \in closing'
      BY <2>4, <3>1 DEF CloseTask
    <3> QED
      BY <1>0, <1>1, <3>1, <3>2, <3>3, CollidesStays DEF Doomed, AtHand
  <2>5. CASE HandlerFails(c)
    BY <1>2, <1>4, <2>5 DEF HandlerFails, dict, tasks
  <2> QED
    BY <1>5, <2>1, <2>2, <2>3, <2>4, <2>5 DEF Connection
<1>6. ASSUME NEW c \in Conn, Login(c) PROVE Doomed(d)'
  <2>1. UNCHANGED <<state, closing, sweep, maintenance>>
    BY <1>6, Zenon
       DEF Login, JoinServer, JoinFetched, JoinFailed, JoinRefused,
           JoinBreaks, LoadFails, JoinVerified, JoinScan, JoinReply, dict, life, tasks
  <2>2. kick' = kick \/ \E x : kick' = [kick EXCEPT ![c] = x]
    BY <1>6, Zenon
       DEF Login, JoinServer, JoinFetched, JoinFailed, JoinRefused,
           JoinBreaks, LoadFails, JoinVerified, JoinScan, JoinReply, tasks
  <2> QED
    BY <1>2, <1>3, <2>1, <2>2
<1>7. ASSUME NEW c \in Conn, Play(c) PROVE Doomed(d)'
  <2>1. CASE Quit(c)
    BY <1>2, <1>3, <1>4, <2>1 DEF Quit, dict
  <2>2. CASE ~Quit(c)
    <3>1. UNCHANGED <<state, closing, sweep, kick, maintenance>>
      BY <1>7, <2>2, Zenon
         DEF Play, Reload, JoinRoom, ChangeRoom, Spawn, CreateAccount,
             CreatedLoads, UnlockLoads, dict, life, tasks
    <3> QED
      BY <1>2, <3>1
  <2> QED
    BY <2>1, <2>2
<1>8. ASSUME NEW k \in Actor, Disconnect(k) PROVE Doomed(d)'
  <2>1. CASE CloseVictim(k)
    <3> DEFINE v == kick[k].victim
    <3>1. v \in Conn /\ v # d /\ state[d] = "open" /\ maintenance
      BY <1>0, <1>4, <2>1 DEF CloseVictim, VictimsEntered
    <3>2. \A s \in Sweep : s # k => kick'[s] = kick[s]
      <4>1. kick' = [kick EXCEPT ![v] = Idle, ![k].stage = "closed"]
        BY <2>1 DEF CloseVictim
      <4>2. v \notin Sweep
        BY <3>1, ConstantsAssumption
      <4> HIDE DEF v
      <4> QED
        BY <1>0, <4>1, <4>2 DEF TypeOK, Actor
    <3>3. ~AtHand(k, d)
      BY <3>1 DEF AtHand
    <3>4. UNCHANGED <<closing, sweep>>
      BY <2>1 DEF CloseVictim, dict
    <3> QED
      BY <1>0, <1>1, <3>1, <3>2, <3>3, <3>4, DoomedStays DEF AtHand
  <2>2. CASE RemoveVictim(k)
    <3>1. \A s \in Sweep : s # k => kick'[s] = kick[s]
      BY <1>0, <2>2 DEF RemoveVictim, TypeOK
    <3>2. ~AtHand(k, d)
      BY <2>2 DEF RemoveVictim, AtHand
    <3>3. /\ closing \subseteq closing' /\ UNCHANGED <<sweep, maintenance, state>>
      BY <2>2 DEF RemoveVictim, RemoveClient, life
    <3> QED
      BY <1>0, <1>1, <3>1, <3>2, <3>3, DoomedStays DEF AtHand
  <2> QED
    BY <1>8, <2>1, <2>2 DEF Disconnect
<1> QED
  BY <1>5, <1>6, <1>7, <1>8, DoorAdmin DEF Next

(* When the server is in maintenance and the disconnect_all tasks have     *)
(* ended, every open connection is about to be closed, or has lost its     *)
(* slot to one with the same hash, whatever happened while the tasks were  *)
(* suspended in a disconnect.                                              *)
THEOREM MaintenanceEmptiesServer == Spec => []ClosedDoorEmptiesServer
<1>1. Init => SecondHalf /\ DoorInv
  BY DEF Init, SecondHalf, DoorInv, Idle, Actor
<1>2. DInv /\ OpenIsReachable' /\ IInv' /\ [Next]_vars => SecondHalf' /\ DoorInv'
  <2>1. ASSUME DInv, Next PROVE SecondHalf' /\ DoorInv'
    <3>1. SecondHalf'
      BY <2>1, SecondHalfPreserved DEF DInv
    <3>2. DoorInv'
      BY <2>1, DoorPreserved DEF DoorInv
    <3> QED
      BY <3>1, <3>2
  <2>2. ASSUME DInv, UNCHANGED vars PROVE SecondHalf' /\ DoorInv'
    BY <2>2 DEF DInv, SecondHalf, DoorInv, Doomed, AtHand, Collides, vars, dict,
                life, tasks
  <2> QED
    BY <2>1, <2>2
<1>3. IInv /\ OpenIsReachable /\ SecondHalf /\ DoorInv <=> DInv
  BY DEF DInv
<1>4. DInv => ClosedDoorEmptiesServer
  BY DEF DInv, DoorInv, Doomed, ClosedDoorEmptiesServer, SweepsOver
<1> QED
  BY <1>1, <1>2, <1>3, <1>4, Invariance, LiveConnectionsKept, PTL DEF Spec

-----------------------------------------------------------------------------
(* The order of the dict, and whom a login kicks.                          *)

(* The key a stands before the key b in the dict.                          *)
Precedes(s, a, b) ==
  \E i, j \in DOMAIN s : i < j /\ s[i] = a /\ s[j] = b

KeysOf(s) == {s[i] : i \in DOMAIN s}
Once(s) == \A i, j \in DOMAIN s : s[i] = s[j] => i = j

(* The dict has each key once, those of the clients it holds, and a client *)
(* stands under its own hash.                                              *)
DictIsSound ==
  /\ Once(order)
  /\ \A h \in HashVal : slot[h] # NoConn <=> h \in KeysOf(order)
  /\ \A h \in HashVal : slot[h] # NoConn => Hash[slot[h]] = h

(* Where nothing is under way, nobody is a victim.                         *)
IdleHasNoVictim ==
  \A k \in Conn : kick[k].stage = "idle" => kick[k].victim = NoConn

(* A login kicks a client that entered the dict before it.                 *)
VictimIsOlder ==
  \A c, d \in Conn :
    kick[c].victim = d /\ Listed(c) /\ Listed(d)
      => Precedes(order, Hash[d], Hash[c])

KInv == IInv /\ DictIsSound /\ IdleHasNoVictim /\ VictimIsOlder

(* The keys that Without leaves, and the places they move to.              *)
LEMMA WithoutIs ==
  ASSUME NEW S, NEW s \in Seq(S), NEW k \in 1..Len(s), Once(s)
  PROVE  /\ Without(s, s[k]) \in Seq(S) /\ Len(Without(s, s[k])) = Len(s) - 1
         /\ \A i \in 1..(Len(s) - 1) :
              Without(s, s[k])[i] = IF i < k THEN s[i] ELSE s[i + 1]
<1>1. Len(s) \in Nat /\ DOMAIN s = 1..Len(s) /\ \A i \in 1..Len(s) : s[i] \in S
  BY LenProperties, ElementOfSeq
<1> DEFINE m == k - 1
           n == k + 1
           l == Len(s)
           a == SubSeq(s, 1, m)
           b == SubSeq(s, n, l)
<1>2. m \in Int /\ n \in Int /\ l \in Int /\ 1 \in Int
  BY <1>1
<1>3. /\ a \in Seq(S) /\ Len(a) = k - 1 /\ \A i \in 1..(k - 1) : a[i] = s[i]
  <2>1. \A i \in 1..m : s[i] \in S
    BY <1>1
  <2>2. /\ SubSeq(s, 1, m) \in Seq(S)
        /\ Len(SubSeq(s, 1, m)) = IF 1 <= m THEN m - 1 + 1 ELSE 0
        /\ \A i \in 1..(m - 1 + 1) : SubSeq(s, 1, m)[i] = s[1 + i - 1]
    <3> HIDE DEF m
    <3> QED BY <1>2, <2>1, SubSeqProperties
  <2> QED BY <1>1, <2>2
<1>4. /\ b \in Seq(S) /\ Len(b) = Len(s) - k
      /\ \A i \in 1..(Len(s) - k) : b[i] = s[k + i]
  <2>1. \A i \in n..l : s[i] \in S
    BY <1>1
  <2>2. /\ SubSeq(s, n, l) \in Seq(S)
        /\ Len(SubSeq(s, n, l)) = IF n <= l THEN l - n + 1 ELSE 0
        /\ \A i \in 1..(l - n + 1) : SubSeq(s, n, l)[i] = s[n + i - 1]
    <3> HIDE DEF n, l
    <3> QED BY <1>2, <2>1, SubSeqProperties
  <2>3. b = SubSeq(s, n, l) /\ n = k + 1 /\ l = Len(s)
    OBVIOUS
  <2> HIDE DEF b, n, l
  <2>4. l - n + 1 = Len(s) - k /\ \A i \in Nat : n + i - 1 = k + i
    BY <1>1, <2>3
  <2>5. Len(b) = Len(s) - k
    <3>1. Len(b) = IF n <= l THEN l - n + 1 ELSE 0
      BY <2>2, <2>3, Zenon
    <3>2. Len(s) \in Nat /\ k \in Nat /\ k <= Len(s)
      BY <1>1
    <3>3. (k + 1 <= Len(s)) \/ Len(s) - k = 0
      BY <3>2
    <3> QED BY <2>3, <2>4, <3>1, <3>3, Zenon
  <2>6. \A i \in 1..(Len(s) - k) : b[i] = s[k + i]
    <3> TAKE i \in 1..(Len(s) - k)
    <3>1. b[i] = s[n + i - 1]
      BY <2>2, <2>3, <2>4
    <3> QED BY <2>4, <3>1
  <2> QED BY <2>2, <2>3, <2>5, <2>6
<1>5. Without(s, s[k]) = a \o b
  <2>1. s[k] \in {s[i] : i \in DOMAIN s}
    BY <1>1
  <2>2. (CHOOSE j \in DOMAIN s : s[j] = s[k]) = k
    BY <1>1 DEF Once
  <2> QED BY <2>1, <2>2 DEF Without
<1> HIDE DEF a, b, m, n, l
<1>6. /\ a \o b \in Seq(S) /\ Len(a \o b) = Len(a) + Len(b)
      /\ \A i \in 1..(Len(a) + Len(b)) :
           (a \o b)[i] = IF i <= Len(a) THEN a[i] ELSE b[i - Len(a)]
  BY <1>3, <1>4, ConcatProperties
<1>7. ASSUME NEW i \in 1..(Len(s) - 1)
      PROVE  (a \o b)[i] = IF i < k THEN s[i] ELSE s[i + 1]
  <2>1. CASE i < k
    <3>1. (a \o b)[i] = a[i] /\ a[i] = s[i]
      BY <1>1, <1>3, <1>4, <1>6, <2>1
    <3> QED BY <2>1, <3>1
  <2>2. CASE ~(i < k)
    <3>1. i - Len(a) \in 1..(Len(s) - k) /\ k + (i - Len(a)) = i + 1
      BY <1>1, <1>3, <2>2
    <3>2. (a \o b)[i] = b[i - Len(a)]
      BY <1>1, <1>3, <1>4, <1>6, <2>2
    <3>3. b[i - Len(a)] = s[k + (i - Len(a))]
      BY <1>4, <3>1
    <3> QED BY <2>2, <3>1, <3>2, <3>3
  <2> QED BY <2>1, <2>2
<1> QED
  BY <1>1, <1>3, <1>4, <1>5, <1>6, <1>7

(* Removing a key removes no other, and moves none past another.           *)
LEMMA WithoutKeeps ==
  ASSUME NEW S, NEW s \in Seq(S), NEW h, Once(s)
  PROVE  /\ Once(Without(s, h))
         /\ KeysOf(Without(s, h)) = KeysOf(s) \ {h}
         /\ \A a, b : a # h /\ b # h /\ Precedes(s, a, b)
                        => Precedes(Without(s, h), a, b)
<1>1. CASE h \notin KeysOf(s)
  <2>1. Without(s, h) = s
    BY <1>1 DEF Without, KeysOf
  <2> QED BY <1>1, <2>1
<1>2. CASE h \in KeysOf(s)
  <2>1. Len(s) \in Nat /\ DOMAIN s = 1..Len(s)
    BY LenProperties
  <2>2. PICK k \in 1..Len(s) : s[k] = h
    BY <1>2, <2>1 DEF KeysOf
  <2> DEFINE t == Without(s, h)
  <2>3. /\ t \in Seq(S) /\ Len(t) = Len(s) - 1
        /\ \A i \in 1..(Len(s) - 1) : t[i] = IF i < k THEN s[i] ELSE s[i + 1]
    BY <2>2, WithoutIs
  <2> HIDE DEF t
  <2>4. DOMAIN t = 1..(Len(s) - 1)
    BY <2>3, LenProperties
  <2>5. \A i, j \in 1..Len(s) : s[i] = s[j] => i = j
    BY <2>1 DEF Once
  <2>6. Once(t)
    BY <2>1, <2>3, <2>4, <2>5 DEF Once
  (* Where each of the other keys goes.                                    *)
  <2>7. ASSUME NEW i \in 1..Len(s), i # k
        PROVE  LET j == IF i < k THEN i ELSE i - 1 IN
                 j \in DOMAIN t /\ t[j] = s[i]
    BY <2>1, <2>3, <2>4, <2>7
  <2>8. KeysOf(t) = KeysOf(s) \ {h}
    <3>1. ASSUME NEW x \in KeysOf(t) PROVE x \in KeysOf(s) \ {h}
      <4>1. PICK i \in 1..(Len(s) - 1) : t[i] = x
        BY <2>4 DEF KeysOf
      <4>2. PICK j \in 1..Len(s) : j # k /\ x = s[j]
        <5>1. CASE i < k
          BY <2>1, <2>3, <4>1, <5>1
        <5>2. CASE ~(i < k)
          <6>1. i + 1 \in 1..Len(s) /\ i + 1 # k /\ t[i] = s[i + 1]
            BY <2>1, <2>3, <4>1, <5>2
          <6> QED BY <4>1, <6>1
        <5> QED BY <5>1, <5>2
      <4> QED BY <2>1, <2>2, <2>5, <4>2 DEF KeysOf
    <3>2. ASSUME NEW x \in KeysOf(s) \ {h} PROVE x \in KeysOf(t)
      <4>1. PICK i \in 1..Len(s) : s[i] = x
        BY <2>1 DEF KeysOf
      <4>2. i # k
        BY <2>2, <4>1
      <4> QED BY <2>7, <4>1, <4>2 DEF KeysOf
    <3> QED BY <3>1, <3>2
  <2>9. ASSUME NEW a, NEW b, a # h, b # h, Precedes(s, a, b)
        PROVE  Precedes(t, a, b)
    <3>1. PICK i \in 1..Len(s), j \in 1..Len(s) : i < j /\ s[i] = a /\ s[j] = b
      BY <2>1, <2>9 DEF Precedes
    <3>2. i # k /\ j # k
      BY <2>2, <2>9, <3>1
    <3> DEFINE p == IF i < k THEN i ELSE i - 1
               q == IF j < k THEN j ELSE j - 1
    <3>3. p \in DOMAIN t /\ t[p] = a /\ q \in DOMAIN t /\ t[q] = b
      BY <2>7, <3>1, <3>2
    <3>4. p < q
      BY <2>1, <3>1, <3>2
    <3> QED BY <3>3, <3>4 DEF Precedes
  <2> QED BY <2>6, <2>8, <2>9 DEF t
<1> QED
  BY <1>1, <1>2

(* A new key goes to the end.                                              *)
LEMMA AppendKeeps ==
  ASSUME NEW S, NEW s \in Seq(S), NEW h \in S, h \notin KeysOf(s), Once(s)
  PROVE  /\ Once(Append(s, h))
         /\ KeysOf(Append(s, h)) = KeysOf(s) \cup {h}
         /\ \A a, b : Precedes(s, a, b) => Precedes(Append(s, h), a, b)
<1> DEFINE t == Append(s, h)
<1>1. Len(s) \in Nat /\ DOMAIN s = 1..Len(s)
  BY LenProperties
<1>2. /\ t \in Seq(S) /\ Len(t) = Len(s) + 1
      /\ \A i \in 1..Len(s) : t[i] = s[i]
      /\ t[Len(s) + 1] = h
  BY AppendProperties
<1> HIDE DEF t
<1>3. DOMAIN t = 1..(Len(s) + 1)
  BY <1>2, LenProperties
<1>4. \A i \in 1..Len(s) : s[i] # h
  BY <1>1 DEF KeysOf
<1>5. \A i, j \in 1..Len(s) : s[i] = s[j] => i = j
  BY <1>1 DEF Once
<1>6. Once(t)
  <2> SUFFICES ASSUME NEW i \in 1..(Len(s) + 1), NEW j \in 1..(Len(s) + 1),
                      t[i] = t[j]
               PROVE  i = j
    BY <1>3 DEF Once
  <2> QED BY <1>1, <1>2, <1>4, <1>5
<1>7. KeysOf(t) = KeysOf(s) \cup {h}
  <2>1. ASSUME NEW x \in KeysOf(t) PROVE x \in KeysOf(s) \cup {h}
    <3>1. PICK i \in 1..(Len(s) + 1) : t[i] = x
      BY <1>3 DEF KeysOf
    <3>2. i \in 1..Len(s) \/ i = Len(s) + 1
      BY <1>1
    <3> QED BY <1>1, <1>2, <3>1, <3>2 DEF KeysOf
  <2>2. ASSUME NEW x \in KeysOf(s) \cup {h} PROVE x \in KeysOf(t)
    <3>1. CASE x = h
      <4>1. Len(s) + 1 \in DOMAIN t
        BY <1>1, <1>3
      <4> QED BY <1>2, <3>1, <4>1 DEF KeysOf
    <3>2. CASE x \in KeysOf(s)
      <4>1. PICK i \in 1..Len(s) : s[i] = x
        BY <1>1, <3>2 DEF KeysOf
      <4>2. i \in DOMAIN t /\ t[i] = x
        BY <1>1, <1>2, <1>3, <4>1
      <4> QED BY <4>2 DEF KeysOf
    <3> QED BY <3>1, <3>2
  <2> QED BY <2>1, <2>2
<1>8. ASSUME NEW a, NEW b, Precedes(s, a, b) PROVE Precedes(t, a, b)
  <2>1. PICK i \in 1..Len(s), j \in 1..Len(s) : i < j /\ s[i] = a /\ s[j] = b
    BY <1>1, <1>8 DEF Precedes
  <2>2. i \in DOMAIN t /\ j \in DOMAIN t /\ t[i] = a /\ t[j] = b
    BY <1>1, <1>2, <1>3, <2>1
  <2> QED BY <2>1, <2>2 DEF Precedes
<1> QED
  BY <1>6, <1>7, <1>8 DEF t

(* The three things that happen to the dict.                               *)
DictStays == UNCHANGED <<slot, order>>
DictGains(c) ==
  /\ state[c] = "new" /\ state' = [state EXCEPT ![c] = "open"]
  /\ slot' = [slot EXCEPT ![Hash[c]] = c]
  /\ order' = IF slot[Hash[c]] = NoConn THEN Append(order, Hash[c]) ELSE order
DictLoses(c) ==
  /\ slot' = [slot EXCEPT ![Hash[c]] = NoConn]
  /\ order' = Without(order, Hash[c])

(* Every step leaves the dict alone, adds a connection or removes one.     *)
LEMMA DictSteps ==
  ASSUME IInv, Next
  PROVE  \/ DictStays
         \/ \E c \in Conn : DictGains(c) /\ UNCHANGED kick
         \/ \E c \in Conn : DictLoses(c)
<1> DEFINE Goal == \/ DictStays
                   \/ \E c \in Conn : DictGains(c) /\ UNCHANGED kick
                   \/ \E c \in Conn : DictLoses(c)
<1> SUFFICES Goal
  OBVIOUS
<1>1. CASE DictStays
  BY <1>1
<1>2. ASSUME NEW c \in Conn, Accept(c) PROVE Goal
  BY <1>2, Zenon DEF Accept, DictGains, tasks
<1>3. ASSUME NEW c \in Conn, RemoveClient(c) PROVE Goal
  BY <1>3, Zenon DEF RemoveClient, DictLoses
<1> HIDE DEF Goal
<1>4. ASSUME NEW c \in Conn, Connection(c) PROVE Goal
  BY <1>1, <1>2, <1>3, <1>4, Zenon
     DEF Connection, Reject, ReaderEnds, CloseTask, HandlerFails, dict, DictStays
<1>5. ASSUME NEW c \in Conn, Login(c) PROVE DictStays
  BY <1>5, Zenon
     DEF Login, JoinServer, JoinFetched, JoinFailed, JoinRefused, JoinBreaks, LoadFails,
         JoinVerified, JoinScan, JoinReply, dict, DictStays
<1>6. ASSUME NEW c \in Conn, Play(c) PROVE DictStays
  BY <1>6, Zenon
     DEF Play, Reload, JoinRoom, ChangeRoom, Spawn, CreateAccount,
         CreatedLoads, UnlockLoads, Quit, dict, DictStays
<1>7. ASSUME NEW k \in Actor, Disconnect(k) PROVE Goal
  <2>1. CASE RemoveVictim(k)
    <3>1. kick[k].victim \in Conn
      BY <2>1 DEF RemoveVictim, IInv, Sound, VictimsEntered
    <3> QED BY <2>1, <3>1, <1>3 DEF RemoveVictim
  <2> QED
    BY <1>1, <1>7, <2>1, Zenon DEF Disconnect, CloseVictim, dict, DictStays
<1>8. ASSUME Admin PROVE DictStays
  BY <1>8, Zenon
     DEF Admin, ApiKick, SetMaintenance, SweepStarts, SweepNext, dict, DictStays
<1> QED
  BY <1>1, <1>4, <1>5, <1>6, <1>7, <1>8, Zenon DEF Next

(* What a step makes of the disconnect that a connection carries out: it   *)
(* stays, moves on or ends, unless the login's scan starts it.             *)
Goes(c) ==
  \/ kick'[c] = kick[c] \/ kick'[c] = Idle
  \/ kick[c].stage # "idle" /\ kick'[c].victim = kick[c].victim
       /\ kick'[c].stage = "closed"

(* Only a login's own scan gives it somebody to kick.                      *)
LEMMA KickSteps ==
  ASSUME IInv, Next, NEW d \in Conn
  PROVE  Goes(d) \/ JoinScan(d)
<1>0. /\ kick \in [Actor -> Kick] /\ d \in Actor
      /\ \A s \in Sweep \cup {API} : s # d
  BY ConstantsAssumption DEF IInv, TypeOK, Actor
<1>1. ASSUME UNCHANGED kick PROVE Goes(d)
  BY <1>1 DEF Goes
<1>2. ASSUME NEW k, kick' = [kick EXCEPT ![k] = Idle] PROVE Goes(d)
  BY <1>0, <1>2 DEF Goes
<1>3. ASSUME NEW s \in Sweep \cup {API}, NEW v,
             kick' = [kick EXCEPT ![s] = [stage |-> "notice", victim |-> v]]
      PROVE  Goes(d)
  BY <1>0, <1>3 DEF Goes
<1>4. ASSUME NEW c \in Conn, Connection(c) PROVE Goes(d)
  BY <1>1, <1>2, <1>4, Zenon
     DEF Connection, Reject, Accept, ReaderEnds, CloseTask, HandlerFails, tasks
<1>5. ASSUME NEW c \in Conn, Login(c) PROVE Goes(d) \/ JoinScan(d)
  <2>1. CASE JoinScan(c) /\ c # d
    <3>1. \/ kick' = kick
          \/ kick' = [kick EXCEPT ![c] = [stage |-> "notice",
                                         victim |-> FirstMatch(session[c].id)]]
      BY <2>1, Zenon DEF JoinScan
    <3>2. kick'[d] = kick[d]
      BY <1>0, <2>1, <3>1
    <3> QED BY <3>2 DEF Goes
  <2> QED
    BY <1>1, <1>5, <2>1, Zenon
       DEF Login, JoinServer, JoinFetched, JoinFailed, JoinRefused,
           JoinBreaks, LoadFails, JoinVerified, JoinReply, tasks
<1>6. ASSUME NEW c \in Conn, Play(c) PROVE Goes(d)
  BY <1>1, <1>2, <1>6, Zenon
     DEF Play, Reload, JoinRoom, ChangeRoom, Spawn, CreateAccount,
         CreatedLoads, UnlockLoads, Quit, tasks
<1>7. ASSUME NEW k \in Actor, Disconnect(k) PROVE Goes(d)
  <2>1. CASE CloseVictim(k)
    <3>1. /\ kick' = [kick EXCEPT ![kick[k].victim] = Idle,
                                  ![k].stage = "closed"]
          /\ kick[k].stage = "notice" /\ kick[k].victim # k
      BY <2>1 DEF CloseVictim, IInv, Sound, VictimsEntered
    <3>2. CASE d = kick[k].victim
      BY <1>0, <3>1, <3>2 DEF Goes
    <3>3. CASE d # kick[k].victim
      BY <1>0, <3>1, <3>3 DEF Goes, Kick
    <3> QED BY <3>2, <3>3
  <2>2. CASE RemoveVictim(k)
    BY <1>2, <2>2 DEF RemoveVictim
  <2> QED BY <1>7, <2>1, <2>2 DEF Disconnect
<1>8. ASSUME Admin PROVE Goes(d)
  <2>1. ASSUME NEW s \in Sweep, SweepNext(s) PROVE Goes(d)
    <3>1. \/ kick' = kick
          \/ \E v : kick' = [kick EXCEPT ![s] = [stage |-> "notice", victim |-> v]]
      BY <2>1, Zenon DEF SweepNext
    <3> QED BY <1>1, <1>3, <3>1
  <2>2. ASSUME NEW id \in Commander, ApiKick(id) PROVE Goes(d)
    BY <1>3, <2>2 DEF ApiKick
  <2> QED
    BY <1>1, <1>8, <2>1, <2>2, Zenon DEF Admin, SetMaintenance, SweepStarts
<1> QED
  BY <1>4, <1>5, <1>6, <1>7, <1>8, Zenon DEF Next

(* The parts of KInv, one lemma each.                                      *)
LEMMA IdleHasNoVictimPreserved ==
  ASSUME IInv, IdleHasNoVictim, Next
  PROVE  IdleHasNoVictim'
<1> SUFFICES ASSUME NEW k \in Conn, kick'[k].stage = "idle"
             PROVE  kick'[k].victim = NoConn
  BY DEF IdleHasNoVictim
<1>1. CASE Goes(k)
  BY <1>1 DEF Goes, IdleHasNoVictim, Idle
<1>2. CASE JoinScan(k)
  <2>1. \/ kick' = kick
        \/ kick' = [kick EXCEPT ![k] = [stage |-> "notice",
                                       victim |-> FirstMatch(session[k].id)]]
    BY <1>2, Zenon DEF JoinScan
  <2>2. kick \in [Actor -> Kick] /\ k \in Actor
    BY DEF IInv, TypeOK, Actor
  <2> QED BY <2>1, <2>2 DEF IdleHasNoVictim
<1> QED BY <1>1, <1>2, KickSteps

(* The dict keeps its keys apart and under the right hash.                 *)
LEMMA DictIsSoundPreserved ==
  ASSUME IInv, DictIsSound, Next
  PROVE  DictIsSound'
<1>0. /\ order \in Seq(HashVal) /\ slot \in [HashVal -> Conn \cup {NoConn}]
      /\ Hash \in [Conn -> HashVal] /\ NoConn \notin Conn
  BY ConstantsAssumption DEF IInv, TypeOK
<1>1. CASE DictStays
  BY <1>1 DEF DictStays, DictIsSound, Once, KeysOf
<1>2. ASSUME NEW c \in Conn, DictGains(c) PROVE DictIsSound'
  <2>1. CASE slot[Hash[c]] = NoConn
    <3>1. order' = Append(order, Hash[c]) /\ Hash[c] \notin KeysOf(order)
      BY <1>0, <1>2, <2>1 DEF DictGains, DictIsSound
    <3>2. Once(order') /\ KeysOf(order') = KeysOf(order) \cup {Hash[c]}
      BY <1>0, <3>1, AppendKeeps DEF DictIsSound
    <3> QED BY <1>0, <1>2, <3>2 DEF DictGains, DictIsSound
  <2>2. CASE slot[Hash[c]] # NoConn
    <3>1. order' = order
      BY <1>2, <2>2 DEF DictGains
    <3> QED BY <1>0, <1>2, <2>2, <3>1 DEF DictGains, DictIsSound
  <2> QED BY <2>1, <2>2
<1>3. ASSUME NEW c \in Conn, DictLoses(c) PROVE DictIsSound'
  <2>1. Once(order') /\ KeysOf(order') = KeysOf(order) \ {Hash[c]}
    BY <1>0, <1>3, WithoutKeeps DEF DictIsSound, DictLoses
  <2> QED BY <1>0, <1>3, <2>1 DEF DictLoses, DictIsSound
<1> QED BY <1>1, <1>2, <1>3, DictSteps

(* The scan of a login that is in the dict: whom it picks stands before it. *)
LEMMA ScanPicksOlder ==
  ASSUME TypeOK, DictIsSound, NEW c \in Conn, Listed(c), session[c] # NoObj,
         FirstMatch(session[c].id) \in Conn, FirstMatch(session[c].id) # c
  PROVE  Precedes(order, Hash[FirstMatch(session[c].id)], Hash[c])
<1> DEFINE id == session[c].id
           m == Matching(id)
           d == FirstMatch(id)
<1>0. /\ order \in Seq(HashVal) /\ DOMAIN order \subseteq Nat
      /\ slot \in [HashVal -> Conn \cup {NoConn}]
      /\ Hash \in [Conn -> HashVal] /\ NoConn \notin Conn
  BY ConstantsAssumption DEF TypeOK
<1>1. PICK p \in DOMAIN order : order[p] = Hash[c]
  BY <1>0 DEF Listed, DictIsSound, KeysOf
<1>2. p \in m
  BY <1>1 DEF Matching, Listed, LoggedIn
<1>3. \A i \in m : i \in DOMAIN order /\ i \in Nat
  BY <1>0 DEF Matching
<1>4. \E i \in m : \A j \in m : i <= j
  <2>1. PICK i \in m : \A j \in m : ~(<<j, i>> \in OpToRel(<, Nat))
    <3>1. m # {} /\ m \subseteq Nat
      BY <1>2, <1>3
    <3> HIDE DEF m
    <3> QED BY <3>1, WFMin, NatLessThanWellFounded
  <2>2. ASSUME NEW j \in m PROVE ~(j < i)
    <3>1. i \in Nat /\ j \in Nat
      BY <1>3, <2>1, <2>2
    <3>2. j < i => <<j, i>> \in OpToRel(<, Nat)
      BY <3>1, Zenon DEF OpToRel
    <3> QED BY <2>1, <2>2, <3>2
  <2>3. ASSUME NEW j \in m PROVE i <= j
    <3>1. i \in Nat /\ j \in Nat
      BY <1>3, <2>1, <2>3
    <3> QED BY <2>2, <2>3, <3>1
  <2> QED BY <2>1, <2>3
<1> DEFINE q == CHOOSE i \in m : \A j \in m : i <= j
<1>5. q \in m /\ \A j \in m : q <= j
  BY <1>4
<1>6. d = slot[order[q]]
  BY <1>2 DEF FirstMatch
<1> HIDE DEF id, m, q, d
<1>7. /\ order[q] \in HashVal /\ order[q] = Hash[d] /\ q \in DOMAIN order
      /\ q \in Nat /\ p \in Nat /\ q <= p
  <2>1. q \in DOMAIN order /\ q \in Nat /\ p \in Nat /\ q <= p
    BY <1>2, <1>3, <1>5
  <2>2. order[q] \in HashVal
    BY <1>0, <2>1
  <2>3. slot[order[q]] # NoConn
    BY <1>0, <1>6 DEF d, id
  <2> QED BY <1>6, <2>1, <2>2, <2>3 DEF DictIsSound
<1>8. q # p
  <2>1. Hash[d] # Hash[c] \/ slot[Hash[c]] # c \/ d = c
    BY <1>6, <1>7
  <2> QED BY <1>1, <1>7, <2>1 DEF Listed, d, id
<1>9. Precedes(order, Hash[d], Hash[c])
  BY <1>1, <1>7, <1>8 DEF Precedes
<1> QED BY <1>9 DEF d, id

(* A victim stays before its kicker: keys never pass one another, a new    *)
(* key goes to the end, and whoever takes over a slot is neither.          *)
LEMMA VictimIsOlderPreserved ==
  ASSUME IInv, DictIsSound, IdleHasNoVictim, VictimIsOlder, Next
  PROVE  VictimIsOlder'
<1>0. /\ order \in Seq(HashVal) /\ slot \in [HashVal -> Conn \cup {NoConn}]
      /\ Hash \in [Conn -> HashVal] /\ NoConn \notin Conn
      /\ kick \in [Actor -> Kick] /\ Conn \subseteq Actor
  BY ConstantsAssumption DEF IInv, TypeOK, Actor
<1> SUFFICES ASSUME NEW c \in Conn, NEW d \in Conn, kick'[c].victim = d,
                    slot'[Hash[c]] = c, slot'[Hash[d]] = d
             PROVE  Precedes(order', Hash[d], Hash[c])
  BY DEF VictimIsOlder, Listed
(* The pair was one before, or the login has just scanned.                 *)
<1>1. kick[c].victim = d \/ (JoinScan(c) /\ kick' # kick)
  <2>1. CASE Goes(c)
    BY <1>0, <2>1 DEF Goes, Idle
  <2>2. CASE JoinScan(c)
    <3>1. kick' = kick => kick[c].victim = d
      OBVIOUS
    <3> QED BY <2>2, <3>1
  <2> QED BY <2>1, <2>2, KickSteps
<1>2. CASE JoinScan(c) /\ kick' # kick
  <2>1. /\ session[c] # NoObj /\ DictStays
        /\ kick' = [kick EXCEPT ![c] = [stage |-> "notice",
                                       victim |-> FirstMatch(session[c].id)]]
        /\ FirstMatch(session[c].id) \notin {NoConn, c}
    BY <1>2, Zenon DEF JoinScan, dict, DictStays
  <2>2. d = FirstMatch(session[c].id)
    BY <1>0, <2>1
  <2>3. Listed(c) /\ UNCHANGED order
    BY <2>1 DEF Listed, DictStays
  <2> QED BY <2>1, <2>2, <2>3, ScanPicksOlder DEF IInv
<1>3. ASSUME kick[c].victim = d, Listed(c), Listed(d)
      PROVE  Precedes(order, Hash[d], Hash[c])
  BY <1>3 DEF VictimIsOlder
<1>4. CASE kick[c].victim = d /\ DictStays
  BY <1>3, <1>4 DEF DictStays, Listed
<1>5. ASSUME NEW x \in Conn, kick[c].victim = d, DictGains(x), UNCHANGED kick
      PROVE  Precedes(order', Hash[d], Hash[c])
  <2>1. kick[c].stage # "idle"
    BY <1>0, <1>5 DEF IdleHasNoVictim
  <2>2. Entered(c) /\ Entered(d)
    BY <1>0, <1>5, <2>1
       DEF IInv, Sound, VictimsEntered, ActiveEntered, Active
  <2>3. c # x /\ d # x
    BY <1>5, <2>2 DEF DictGains, Entered
  <2>4. Listed(c) /\ Listed(d)
    BY <1>0, <1>5, <2>3 DEF DictGains, Listed
  <2>5. Precedes(order, Hash[d], Hash[c])
    BY <1>3, <1>5, <2>4
  <2>6. CASE slot[Hash[x]] = NoConn
    <3>1. order' = Append(order, Hash[x]) /\ Hash[x] \notin KeysOf(order)
      BY <1>0, <1>5, <2>6 DEF DictGains, DictIsSound
    <3> QED BY <1>0, <2>5, <3>1, AppendKeeps DEF DictIsSound
  <2>7. CASE slot[Hash[x]] # NoConn
    BY <1>5, <2>5, <2>7 DEF DictGains
  <2> QED BY <2>6, <2>7
<1>6. ASSUME NEW x \in Conn, kick[c].victim = d, DictLoses(x)
      PROVE  Precedes(order', Hash[d], Hash[c])
  <2>1. Hash[c] # Hash[x] /\ Hash[d] # Hash[x] /\ Listed(c) /\ Listed(d)
    BY <1>0, <1>6 DEF DictLoses, Listed
  <2>2. Precedes(order, Hash[d], Hash[c])
    BY <1>3, <1>6, <2>1
  <2>3. \A a, b : a # Hash[x] /\ b # Hash[x] /\ Precedes(order, a, b)
                    => Precedes(Without(order, Hash[x]), a, b)
    BY <1>0, WithoutKeeps DEF DictIsSound
  <2> QED BY <1>6, <2>1, <2>2, <2>3 DEF DictLoses
<1> QED BY <1>1, <1>2, <1>4, <1>5, <1>6, DictSteps

(* KInv is an invariant of the specification.                              *)
LEMMA KInvariance == Spec => []KInv
<1>1. Init => KInv
  <2> SUFFICES ASSUME Init PROVE KInv
    OBVIOUS
  <2>1. DOMAIN order = {}
    BY DEF Init
  <2>2. DictIsSound
    BY <2>1 DEF Init, DictIsSound, Once, KeysOf
  <2>3. IdleHasNoVictim /\ VictimIsOlder
    BY ConstantsAssumption
       DEF Init, IdleHasNoVictim, VictimIsOlder, Listed, Idle, Actor
  <2> QED BY <2>2, <2>3, InitIInv DEF KInv
<1>2. KInv /\ [Next]_vars => KInv'
  <2>1. CASE Next
    BY <2>1, NextIInv, DictIsSoundPreserved, IdleHasNoVictimPreserved,
       VictimIsOlderPreserved DEF KInv
  <2>2. ASSUME KInv, UNCHANGED vars PROVE KInv'
    <3>1. UNCHANGED <<slot, order, kick>>
      BY <2>2 DEF vars, dict, tasks
    <3>2. IInv'
      BY <2>2, NextIInv DEF KInv
    <3>3. DictIsSound' /\ IdleHasNoVictim' /\ VictimIsOlder'
      BY <2>2, <3>1
         DEF KInv, DictIsSound, IdleHasNoVictim, VictimIsOlder, Listed
    <3> QED BY <3>2, <3>3 DEF KInv
  <2> QED BY <2>1, <2>2
<1> QED
  BY <1>1, <1>2, PTL DEF Spec

(* Whatever connections come and go, log in, are kicked or swept out, and  *)
(* even where hashes collide: of two logins that are in the dict, at most  *)
(* one kicks the other, the one that came later.                           *)
THEOREM LoginsKickOneWay == Spec => []NoMutualKick
<1>1. KInv => NoMutualKick
  <2> SUFFICES ASSUME KInv, NEW c \in Conn, NEW d \in Conn, Listed(c), Listed(d),
                      kick[c].victim = d, kick[d].victim = c
               PROVE  FALSE
    BY DEF NoMutualKick
  <2>1. Precedes(order, Hash[d], Hash[c]) /\ Precedes(order, Hash[c], Hash[d])
    BY DEF KInv, VictimIsOlder
  <2>2. order \in Seq(HashVal) /\ DOMAIN order \subseteq Nat
    BY DEF KInv, IInv, TypeOK
  <2>3. PICK i, j \in DOMAIN order :
          i < j /\ order[i] = Hash[d] /\ order[j] = Hash[c]
    BY <2>1 DEF Precedes
  <2>4. PICK k, l \in DOMAIN order :
          k < l /\ order[k] = Hash[c] /\ order[l] = Hash[d]
    BY <2>1 DEF Precedes
  <2>5. i = l /\ j = k
    BY <2>3, <2>4 DEF KInv, DictIsSound, Once
  <2> QED BY <2>2, <2>3, <2>4, <2>5
<1> QED
  BY <1>1, KInvariance, PTL

-----------------------------------------------------------------------------
(* The registry of active clients.                                         *)

(* A connection whose dispatcher runs is open; it carries out a disconnect *)
(* only while its login waits for that.                                    *)
Alive(c) == pc[c] \notin {"off", "dead"} => state[c] = "open"
Waits(c) == kick[c].stage # "idle" => pc[c] = "kick"

(* Where a connection fetches one object at most: it has one, or none yet. *)
OneObject(c) ==
  /\ session[c] # NoObj => made[c] = 1
  /\ pc[c] = "fetch" => made[c] = 0
NoCreation(c) == job[c].kind \notin {"create", "created"}

(* Whoever is registered is open and still has the commander that it is    *)
(* registered for; no login of its own is about to replace it.             *)
Registered(c) ==
  \A i \in Commander : activeClient[i] = c =>
    /\ state[c] = "open" /\ LoggedIn(c, i)
    /\ pc[c] \notin {"fetch", "verify"}

Orderly(c) ==
  Alive(c) /\ Waits(c) /\ OneObject(c) /\ NoCreation(c) /\ Registered(c)
LInv == IInv /\ \A c \in Conn : Orderly(c)

(* What a step of others leaves alone.                                     *)
Registers(c) ==
  \E i \in Commander : activeClient'[i] = c /\ activeClient[i] # c
Untouched(c) ==
  /\ state'[c] = state[c] /\ pc'[c] = pc[c] /\ kick'[c] = kick[c]
  /\ session'[c] = session[c] /\ made'[c] = made[c] /\ job'[c] = job[c]
  /\ ~Registers(c)

(* A connection that a step does not touch stays orderly.                  *)
LEMMA UntouchedOrderly ==
  ASSUME NEW d \in Conn, Orderly(d), Untouched(d)
  PROVE  Orderly(d)'
<1>1. Alive(d)' /\ Waits(d)' /\ OneObject(d)' /\ NoCreation(d)'
  BY DEF Orderly, Untouched, Alive, Waits, OneObject, NoCreation
<1>2. Registered(d)'
  BY DEF Orderly, Untouched, Registers, Registered, LoggedIn
<1> QED BY <1>1, <1>2 DEF Orderly

(* close() of a connection takes it out of the registry.                   *)
LEMMA CloseOrderly ==
  ASSUME LInv, NEW c \in Conn, NEW d \in Conn, Close(c),
         UNCHANGED <<session, made>>, job'[d] = job[d] \/ job'[d] = NoJob,
         d = c => kick'[d].stage = "idle",
         d # c => kick'[d] = kick[d]
                    \/ (kick'[d].stage # "idle" /\ kick[d].stage # "idle")
  PROVE  Orderly(d)'
<1>0. /\ state \in [Conn -> {"new", "rejected", "open", "closed"}]
      /\ pc \in [Conn -> {"off", "idle", "fetch", "verify", "tick", "kick",
                          "reply", "dead"}]
      /\ activeClient \in [Commander -> Conn \cup {NoConn}]
      /\ NoConn \notin Conn /\ Orderly(d) /\ Orderly(c)
  BY ConstantsAssumption DEF LInv, IInv, TypeOK
<1>1. state' = [state EXCEPT ![c] = "closed"] /\ pc' = [pc EXCEPT ![c] = "dead"]
  BY DEF Close
<1>2. NoCreation(d)'
  BY <1>0 DEF NoCreation, NoJob, Orderly
<1>3. CASE d = c
  <2>1. Alive(d)' /\ Waits(d)' /\ OneObject(d)'
    BY <1>0, <1>1, <1>3 DEF Alive, Waits, OneObject, Orderly
  <2>2. ASSUME NEW i \in Commander, activeClient'[i] = c PROVE FALSE
    <3>1. activeClient[i] = c
      BY <1>0, <2>2, Zenon DEF Close, registry, UnregisterClient
    <3>2. state[c] = "open" /\ LoggedIn(c, i)
      BY <1>0, <3>1 DEF Orderly, Registered
    <3>3. UnregisterClient(c)
      BY <3>2 DEF Close, LoggedIn
    <3> QED BY <1>0, <2>2, <3>2, <3>3 DEF UnregisterClient, LoggedIn
  <2> QED BY <1>2, <1>3, <2>1, <2>2 DEF Orderly, Registered
<1>4. CASE d # c
  <2>1. state'[d] = state[d] /\ pc'[d] = pc[d]
    BY <1>0, <1>1, <1>4
  <2>2. Alive(d)' /\ Waits(d)' /\ OneObject(d)'
    BY <1>0, <1>4, <2>1 DEF Alive, Waits, OneObject, Orderly
  <2>3. \A i \in Commander : activeClient'[i] = d => activeClient[i] = d
    <3>1. CASE UnregisterClient(c)
      BY <1>0, <3>1 DEF UnregisterClient
    <3>2. CASE UNCHANGED activeClient
      BY <3>2
    <3> QED BY <3>1, <3>2 DEF Close, registry
  <2>4. Registered(d)'
    BY <1>0, <2>1, <2>3 DEF Registered, LoggedIn, Orderly
  <2> QED BY <1>2, <2>2, <2>4 DEF Orderly
<1> QED BY <1>3, <1>4

(* One lemma per group of actions.                                         *)
LEMMA ConnectionOrderly ==
  ASSUME LInv, NEW c \in Conn, Connection(c), NEW d \in Conn
  PROVE  Orderly(d)'
<1>0. /\ TypeOK /\ Orderly(d) /\ Orderly(c) /\ NoConn \notin Conn
      /\ Conn \subseteq Actor /\ (Active(c) => Entered(c))
  BY ConstantsAssumption DEF LInv, IInv, Actor, Sound, ActiveEntered
<1>1. CASE Reject(c) /\ c = d
  <2>1. pc[c] = "off" /\ (\A i \in Commander : activeClient[i] # c)
    BY <1>0, <1>1 DEF Reject, Active, Entered, Orderly, Registered
  <2>2. UNCHANGED <<pc, kick, session, made, job, activeClient>>
    BY <1>1, Zenon DEF Reject, handler, tasks, player, registry
  <2> QED
    BY <1>0, <1>1, <2>1, <2>2
       DEF Orderly, Alive, Waits, OneObject, NoCreation, Registered
<1>2. CASE Accept(c) /\ c = d
  <2>1. /\ kick[c].stage = "idle" /\ session[c] = NoObj
        /\ (\A i \in Commander : activeClient[i] # c)
    BY <1>0, <1>2 DEF Accept, Active, Entered, Orderly, Registered
  <2>2. UNCHANGED <<kick, session, made, job, activeClient>>
    BY <1>2, Zenon DEF Accept, tasks, player, registry
  <2>3. state'[c] = "open" /\ pc'[c] = "idle"
    BY <1>0, <1>2 DEF Accept, TypeOK
  <2> QED
    BY <1>0, <1>2, <2>1, <2>2, <2>3
       DEF Orderly, Alive, Waits, OneObject, NoCreation, Registered
<1>3. CASE (Reject(c) \/ Accept(c)) /\ c # d
  <2>1. UNCHANGED <<kick, session, made, job, activeClient>>
    BY <1>3, Zenon DEF Reject, Accept, tasks, player, registry
  <2>2. state'[d] = state[d] /\ pc'[d] = pc[d]
    BY <1>0, <1>3 DEF Reject, Accept, TypeOK, handler
  <2> QED BY <1>0, <2>1, <2>2, UntouchedOrderly DEF Untouched, Registers
<1>4. CASE ReaderEnds(c)
  <2>1. UNCHANGED <<state, pc, kick, session, made, job, activeClient>>
    BY <1>4, Zenon DEF ReaderEnds, tasks, player, registry, handler
  <2> QED BY <1>0, <2>1, UntouchedOrderly DEF Untouched, Registers
<1>5. CASE CloseTask(c)
  <2>1. /\ Close(c) /\ UNCHANGED <<session, made, job>>
        /\ kick' = [kick EXCEPT ![c] = Idle]
    BY <1>5, Zenon DEF CloseTask, player
  <2> QED BY <1>0, <2>1, CloseOrderly DEF TypeOK, Idle
<1>6. CASE HandlerFails(c)
  <2>1. Close(c) /\ UNCHANGED <<session, made, job, kick>> /\ pc[c] = "idle"
    BY <1>6, Zenon DEF HandlerFails, player, tasks, Ready
  <2>2. kick[c].stage = "idle"
    BY <1>0, <2>1 DEF Orderly, Waits
  <2> QED BY <2>1, <2>2, CloseOrderly
<1> QED
  BY <1>1, <1>2, <1>3, <1>4, <1>5, <1>6, Zenon DEF Connection

(* The login itself: with one object to a connection, a connection that    *)
(* is registered never logs in again.                                      *)
LEMMA LoginOrderly ==
  ASSUME LInv, MaxObjects = 1, NEW c \in Conn, Login(c), NEW d \in Conn
  PROVE  Orderly(d)'
<1>0. /\ TypeOK /\ Orderly(d) /\ Orderly(c) /\ NoConn \notin Conn
      /\ Conn \subseteq Actor
  BY ConstantsAssumption DEF LInv, IInv, Actor
<1>s. UNCHANGED <<state, job>>
  BY Zenon
     DEF Login, JoinServer, JoinFetched, JoinFailed, JoinRefused, JoinBreaks, LoadFails,
         JoinVerified, JoinScan, JoinReply, life, tasks
(* The actions that only move the login on.                                *)
<1>1. ASSUME NEW at, pc' = [pc EXCEPT ![c] = at],
             at \notin {"off", "dead", "fetch", "verify"},
             pc[c] \notin {"off", "dead", "kick"},
             \/ UNCHANGED <<session, activeClient>>
             \/ session' = [session EXCEPT ![c] = NoObj] /\ UNCHANGED activeClient
                  /\ pc[c] \in {"fetch", "verify"}
             \/ UNCHANGED session /\ pc[c] = "verify" /\ session[c] # NoObj
                  /\ activeClient' = [activeClient EXCEPT ![session[c].id] = c],
             \/ UNCHANGED kick
             \/ \E v : /\ at = "kick"
                       /\ kick' = [kick EXCEPT ![c] =
                                    [stage |-> "notice", victim |-> v]],
             UNCHANGED made
      PROVE  Orderly(d)'
  <2>1. CASE d # c
    <3>1. ~Registers(d)
      <4>1. CASE UNCHANGED activeClient
        BY <4>1 DEF Registers
      <4>2. CASE activeClient' = [activeClient EXCEPT ![session[c].id] = c]
        BY <1>0, <2>1, <4>2 DEF Registers, TypeOK
      <4> QED BY <1>1, <4>1, <4>2
    <3>2. kick'[d] = kick[d] /\ session'[d] = session[d] /\ pc'[d] = pc[d]
      BY <1>0, <1>1, <2>1 DEF TypeOK
    <3> QED BY <1>0, <1>1, <1>s, <3>1, <3>2, UntouchedOrderly DEF Untouched
  <2>2. CASE d = c
    <3>1. pc'[c] = at
      BY <1>0, <1>1 DEF TypeOK
    <3>2. state[c] = "open" /\ kick[c].stage = "idle"
      BY <1>0, <1>1 DEF Orderly, Alive, Waits
    <3>3. Alive(d)' /\ NoCreation(d)'
      BY <1>0, <1>s, <2>2, <3>2 DEF Orderly, Alive, NoCreation
    <3>4. Waits(d)'
      BY <1>0, <1>1, <2>2, <3>1, <3>2 DEF Waits, TypeOK
    <3>5. OneObject(d)'
      BY <1>0, <1>1, <2>2, <3>1 DEF Orderly, OneObject, TypeOK
    <3>6. Registered(d)'
      <4>1. CASE UNCHANGED <<session, activeClient>>
        BY <1>0, <1>1, <1>s, <2>2, <3>1, <4>1 DEF Orderly, Registered, LoggedIn
      <4>2. CASE /\ session' = [session EXCEPT ![c] = NoObj]
                 /\ UNCHANGED activeClient /\ pc[c] \in {"fetch", "verify"}
        BY <1>0, <2>2, <4>2 DEF Orderly, Registered
      <4>3. CASE /\ UNCHANGED session /\ pc[c] = "verify" /\ session[c] # NoObj
                 /\ activeClient' = [activeClient EXCEPT ![session[c].id] = c]
        <5> SUFFICES ASSUME NEW i \in Commander, activeClient'[i] = c
                     PROVE  LoggedIn(c, i)'
          BY <1>1, <1>s, <2>2, <3>1, <3>2 DEF Registered
        <5>1. activeClient[i] # c
          BY <1>0, <4>3 DEF Orderly, Registered
        <5>2. i = session[c].id
          BY <1>0, <4>3, <5>1 DEF TypeOK
        <5> QED BY <4>3, <5>2 DEF LoggedIn
      <4> QED BY <1>1, <4>1, <4>2, <4>3
    <3> QED BY <3>3, <3>4, <3>5, <3>6 DEF Orderly
  <2> QED BY <2>1, <2>2
<1>2. ASSUME NEW id \in Commander, JoinServer(c, id) PROVE Orderly(d)'
  <2>1. /\ UNCHANGED <<kick, session, made, activeClient>>
        /\ pc' = [pc EXCEPT ![c] = "fetch"]
        /\ state[c] = "open" /\ pc[c] = "idle" /\ made[c] < MaxObjects
    BY <1>2, Zenon DEF JoinServer, tasks, player, registry, Ready, CanCreate
  <2>2. CASE d # c
    <3>1. pc'[d] = pc[d]
      BY <1>0, <2>1, <2>2 DEF TypeOK
    <3> QED BY <1>0, <1>s, <2>1, <3>1, UntouchedOrderly DEF Untouched, Registers
  <2>3. CASE d = c
    <3>1. made[c] = 0
      BY <1>0, <2>1 DEF TypeOK
    <3>2. session[c] = NoObj
      BY <1>0, <3>1 DEF Orderly, OneObject
    <3>3. \A i \in Commander : activeClient[i] # c
      BY <1>0, <3>2 DEF Orderly, Registered, LoggedIn
    <3>4. pc'[c] = "fetch" /\ kick[c].stage = "idle"
      BY <1>0, <2>1 DEF TypeOK, Orderly, Waits
    <3> QED
      BY <1>0, <1>s, <2>1, <2>3, <3>1, <3>2, <3>3, <3>4
         DEF Orderly, Alive, Waits, OneObject, NoCreation, Registered
  <2> QED BY <2>2, <2>3
<1>3. CASE JoinFetched(c) /\ acct[c] \in exists
  <2> DEFINE o == NewObject(c, acct[c])
  <2>1. /\ UNCHANGED <<kick, activeClient>> /\ pc[c] = "fetch"
        /\ pc' = [pc EXCEPT ![c] = "verify"]
        /\ session' = [session EXCEPT ![c] = o]
        /\ made' = [made EXCEPT ![c] = made[c] + 1]
    BY <1>3, Zenon DEF JoinFetched, tasks, registry
  <2> HIDE DEF o
  <2>2. CASE d # c
    <3>1. pc'[d] = pc[d] /\ session'[d] = session[d] /\ made'[d] = made[d]
      BY <1>0, <2>1, <2>2 DEF TypeOK
    <3> QED BY <1>0, <1>s, <2>1, <3>1, UntouchedOrderly DEF Untouched, Registers
  <2>3. CASE d = c
    <3>1. made[c] = 0 /\ state[c] = "open" /\ kick[c].stage = "idle"
      BY <1>0, <2>1 DEF Orderly, OneObject, Alive, Waits
    <3>2. pc'[c] = "verify" /\ made'[c] = 1
      BY <1>0, <2>1, <3>1 DEF TypeOK
    <3>3. \A i \in Commander : activeClient[i] # c
      BY <1>0, <2>1 DEF Orderly, Registered
    <3> QED
      BY <1>0, <1>s, <2>1, <2>3, <3>1, <3>2, <3>3
         DEF Orderly, Alive, Waits, OneObject, NoCreation, Registered
  <2> QED BY <2>2, <2>3
<1>4. CASE JoinFetched(c) /\ acct[c] \notin exists
  <2>1. /\ UNCHANGED <<kick, activeClient, made>> /\ pc[c] = "fetch"
        /\ pc' = [pc EXCEPT ![c] = "idle"]
        /\ session' = [session EXCEPT ![c] = NoObj]
    BY <1>4, Zenon DEF JoinFetched, tasks, registry
  <2> QED BY <1>1, <2>1
<1>5. CASE JoinFailed(c)
  <2>1. /\ UNCHANGED <<kick, activeClient, made, session>> /\ pc[c] = "fetch"
        /\ pc' = [pc EXCEPT ![c] = "idle"]
    BY <1>5, Zenon DEF JoinFailed, tasks, registry, player
  <2> QED BY <1>1, <2>1
<1>6. CASE JoinRefused(c)
  <2>1. /\ UNCHANGED <<kick, activeClient, made>> /\ pc[c] = "verify"
        /\ pc' = [pc EXCEPT ![c] = "idle"]
        /\ session' = [session EXCEPT ![c] = NoObj]
    BY <1>6, Zenon DEF JoinRefused, tasks, registry
  <2> QED BY <1>1, <2>1
<1>7. CASE JoinVerified(c)
  <2>1. /\ UNCHANGED <<kick, made, session>> /\ pc[c] = "verify"
        /\ pc' = [pc EXCEPT ![c] = "tick"] /\ session[c] # NoObj
        /\ activeClient' = [activeClient EXCEPT ![session[c].id] = c]
    BY <1>7, Zenon DEF JoinVerified, tasks
  <2> QED BY <1>1, <2>1
<1>8. CASE JoinScan(c)
  <2>1. /\ UNCHANGED <<made, session, activeClient>> /\ pc[c] = "tick"
        /\ \/ pc' = [pc EXCEPT ![c] = "reply"] /\ UNCHANGED kick
           \/ /\ pc' = [pc EXCEPT ![c] = "kick"]
              /\ \E v : kick' = [kick EXCEPT ![c] =
                                   [stage |-> "notice", victim |-> v]]
    BY <1>8, Zenon DEF JoinScan, player, registry
  <2>2. CASE pc' = [pc EXCEPT ![c] = "reply"] /\ UNCHANGED kick
    BY <1>1, <2>1, <2>2
  <2>3. CASE /\ pc' = [pc EXCEPT ![c] = "kick"]
             /\ \E v : kick' = [kick EXCEPT ![c] =
                                  [stage |-> "notice", victim |-> v]]
    BY <1>1, <2>1, <2>3
  <2> QED BY <2>1, <2>2, <2>3
<1>9. CASE JoinReply(c)
  <2>1. /\ UNCHANGED <<kick, activeClient, made, session>> /\ pc[c] = "reply"
        /\ pc' = [pc EXCEPT ![c] = "idle"]
    BY <1>9, Zenon DEF JoinReply, tasks, registry, player
  <2> QED BY <1>1, <2>1
<1>10. CASE JoinBreaks(c)
  <2>1. /\ UNCHANGED <<kick, activeClient, made, session>> /\ pc[c] = "verify"
        /\ pc' = [pc EXCEPT ![c] = "idle"]
    BY <1>10, Zenon DEF JoinBreaks, tasks
  <2> QED BY <1>1, <2>1
<1> QED
  BY <1>2, <1>3, <1>4, <1>5, <1>6, <1>7, <1>8, <1>9, <1>10 DEF Login

(* Handlers of a connection that plays.                                    *)
LEMMA PlayOrderly ==
  ASSUME LInv, "create" \notin Detached, NEW c \in Conn, Play(c), NEW d \in Conn
  PROVE  Orderly(d)'
<1>0. /\ TypeOK /\ Orderly(d) /\ Orderly(c) /\ NoConn \notin Conn
      /\ Conn \subseteq Actor
  BY ConstantsAssumption DEF LInv, IInv, Actor
<1>1. CASE Reload(c) \/ JoinRoom(c) \/ \E new \in Room : ChangeRoom(c, new)
  <2>1. UNCHANGED <<state, pc, kick, session, made, job, activeClient>>
    BY <1>1, Zenon DEF Reload, JoinRoom, ChangeRoom, life, handler, tasks,
                       player, registry
  <2> QED BY <1>0, <2>1, UntouchedOrderly DEF Untouched, Registers
<1>2. ASSUME NEW j, job' = [job EXCEPT ![c] = j],
             j.kind \notin {"create", "created"},
             UNCHANGED <<state, pc, kick, session, made, activeClient>>
      PROVE  Orderly(d)'
  <2>1. NoCreation(d)'
    BY <1>0, <1>2 DEF NoCreation, Orderly, TypeOK
  <2>2. Alive(d)' /\ Waits(d)' /\ OneObject(d)' /\ Registered(d)'
    BY <1>0, <1>2 DEF Orderly, Alive, Waits, OneObject, Registered, LoggedIn
  <2> QED BY <2>1, <2>2 DEF Orderly
<1>3. ASSUME NEW kind, Spawn(c, kind) PROVE Orderly(d)'
  <2>1. /\ job' = [job EXCEPT ![c] = [kind |-> kind, id |-> NoConn]]
        /\ kind \in Detached
        /\ UNCHANGED <<state, pc, kick, session, made, activeClient>>
    BY <1>3, Zenon DEF Spawn, life, player, handler, registry
  <2>2. kind \notin {"create", "created"}
    BY <2>1, ConstantsAssumption
  <2> QED BY <1>2, <2>1, <2>2
<1>4. ASSUME NEW id, CreateAccount(c, id) \/ CreatedLoads(c) PROVE FALSE
  BY <1>0, <1>4 DEF CreateAccount, CreatedLoads, Orderly, NoCreation
<1>5. CASE UnlockLoads(c)
  <2>1. /\ job' = [job EXCEPT ![c] = NoJob]
        /\ UNCHANGED <<state, pc, kick, session, made, activeClient>>
    BY <1>5, Zenon DEF UnlockLoads, life, handler
  <2> QED BY <1>2, <2>1 DEF NoJob
<1>6. CASE Quit(c)
  <2>1. /\ Close(c) /\ UNCHANGED <<session, made>>
        /\ kick' = [kick EXCEPT ![c] = Idle]
        /\ job' = [job EXCEPT ![c] = NoJob]
    BY <1>6, Zenon DEF Quit, player
  <2>2. job'[d] = job[d] \/ job'[d] = NoJob
    BY <1>0, <2>1 DEF TypeOK
  <2> QED BY <1>0, <2>1, <2>2, CloseOrderly DEF TypeOK, Idle
<1> QED
  BY <1>1, <1>3, <1>4, <1>5, <1>6 DEF Play

(* A victim is closed; its kicker goes on only if it is still open.        *)
LEMMA DisconnectOrderly ==
  ASSUME LInv, NEW k \in Actor, Disconnect(k), NEW d \in Conn
  PROVE  Orderly(d)'
<1>0. /\ TypeOK /\ Orderly(d) /\ NoConn \notin Conn
      /\ Conn \subseteq Actor
  BY ConstantsAssumption DEF LInv, IInv, Actor
<1>1. CASE CloseVictim(k)
  <2> DEFINE v == kick[k].victim
  <2>1. /\ Close(v) /\ UNCHANGED <<session, made, job>> /\ kick[k].stage = "notice"
        /\ kick' = [kick EXCEPT ![v] = Idle, ![k].stage = "closed"]
    BY <1>1, Zenon DEF CloseVictim, player
  <2>2. v \in Conn /\ v # k
    BY <2>1 DEF LInv, IInv, Sound, VictimsEntered
  <2> HIDE DEF v
  <2>3. d = v => kick'[d].stage = "idle"
    BY <1>0, <2>1, <2>2 DEF TypeOK, Idle
  <2>4. d # v => kick'[d] = kick[d]
                   \/ (kick'[d].stage # "idle" /\ kick[d].stage # "idle")
    BY <1>0, <2>1, <2>2 DEF TypeOK, Kick
  <2> QED BY <2>1, <2>2, <2>3, <2>4, CloseOrderly
<1>2. CASE RemoveVictim(k)
  <2>1. /\ UNCHANGED <<state, session, made, job, activeClient>>
        /\ kick[k].stage = "closed" /\ kick' = [kick EXCEPT ![k] = Idle]
        /\ pc' = [c \in Conn |-> IF c = k THEN "reply" ELSE pc[c]]
    BY <1>2, Zenon DEF RemoveVictim, life, player, registry
  <2>2. CASE d # k
    <3>1. pc'[d] = pc[d] /\ kick'[d] = kick[d]
      BY <1>0, <2>1, <2>2 DEF TypeOK
    <3> QED BY <1>0, <2>1, <3>1, UntouchedOrderly DEF Untouched, Registers
  <2>3. CASE d = k
    <3>1. pc'[d] = "reply" /\ kick'[d].stage = "idle"
      BY <1>0, <2>1, <2>3 DEF TypeOK, Idle
    <3>2. state[d] = "open"
      BY <1>0, <2>1, <2>3 DEF Orderly, Alive, Waits
    <3> QED
      BY <1>0, <2>1, <3>1, <3>2
         DEF Orderly, Alive, Waits, OneObject, NoCreation, Registered, LoggedIn
  <2> QED BY <2>2, <2>3
<1> QED BY <1>1, <1>2 DEF Disconnect

(* The API and the sweeps touch no connection's own state.                 *)
LEMMA AdminOrderly ==
  ASSUME LInv, Admin, NEW d \in Conn
  PROVE  Orderly(d)'
<1>0. /\ TypeOK /\ Orderly(d)
      /\ Conn \subseteq Actor /\ \A s \in Sweep \cup {API} : s # d
  BY ConstantsAssumption DEF LInv, IInv, Actor
<1>1. UNCHANGED <<state, pc, session, made, job, activeClient>>
  BY Zenon DEF Admin, ApiKick, SetMaintenance, SweepStarts, SweepNext, life,
               player, handler, registry
<1>2. \/ kick' = kick
      \/ \E s \in Sweep \cup {API} : \E v :
           kick' = [kick EXCEPT ![s] = [stage |-> "notice", victim |-> v]]
  BY Zenon DEF Admin, ApiKick, SetMaintenance, SweepStarts, SweepNext
<1>3. kick'[d] = kick[d]
  BY <1>0, <1>2 DEF TypeOK
<1> QED BY <1>0, <1>1, <1>3, UntouchedOrderly DEF Untouched, Registers

(* Without detached creations, and with one login to a connection, the     *)
(* registry of active clients names open connections only, whoever kicks   *)
(* whom: a connection that closes takes its entry along.  (The two         *)
(* hypotheses are the exceptions that the property's comment names.)       *)
THEOREM ActiveClientsAreOpen ==
  ASSUME "create" \notin Detached, MaxObjects = 1
  PROVE  Spec => []ActiveClientIsOpen
<1>1. Init => LInv
  <2> SUFFICES ASSUME Init, NEW c \in Conn PROVE Orderly(c)
    BY InitIInv DEF LInv
  <2> QED
    BY ConstantsAssumption
       DEF Init, Orderly, Alive, Waits, OneObject, NoCreation, Registered,
           Idle, NoJob, Actor
<1>2. LInv /\ [Next]_vars => LInv'
  <2> SUFFICES ASSUME LInv, [Next]_vars, NEW d \in Conn PROVE Orderly(d)'
    BY NextIInv DEF LInv
  <2>1. CASE Next
    BY <2>1, ConnectionOrderly, LoginOrderly, PlayOrderly, DisconnectOrderly,
       AdminOrderly, Zenon DEF Next
  <2>2. CASE UNCHANGED vars
    <3>1. UNCHANGED <<state, pc, kick, session, made, job, activeClient>>
      BY <2>2 DEF vars, life, player, handler, tasks, registry
    <3> QED BY <3>1, UntouchedOrderly DEF LInv, Untouched, Registers
  <2> QED BY <2>1, <2>2
<1>3. LInv => ActiveClientIsOpen
  BY DEF LInv, IInv, TypeOK, Orderly, Registered, ActiveClientIsOpen
<1> QED
  BY <1>1, <1>2, <1>3, PTL DEF Spec

=============================================================================
