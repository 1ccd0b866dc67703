-------------------------- MODULE Onboarding_proofs --------------------------
(***************************************************************************)
(* Proofs about Onboarding, for every set of clients, users and devices,   *)
(* every ticket, both dialects and every bound.                            *)
(***************************************************************************)
EXTENDS Onboarding, FiniteSetTheorems, WellFoundedInduction, TLAPS

-----------------------------------------------------------------------------
(* The invariant.                                                          *)

Early == {"device", "user", "name", "id", "map"}
Late == {"row", "attires", "max", "ship", "purse", "secretary", "fleet1",
         "fleet11", "save"}
Chosen == {"l-fetch", "l-check", "l-save", "l-unchecked"}
Armed == {"purse", "secretary", "fleet1", "fleet11", "save"}

(* What create_commander has given by the time it is at a stage.           *)
Given(stage, had) ==
  /\ stage \in {"max", "ship"} \cup Armed => "attires" \in had
  /\ stage \in {"secretary", "fleet1", "fleet11", "save"} => "purse" \in had
  /\ stage \in {"fleet1", "fleet11", "save"} => "secretary" \in had
  /\ stage \in {"fleet11", "save"} => "fleet1" \in had
  /\ stage = "save" => "fleet11" \in had

(* The account's ships that create_commander has equipped, or tried to.    *)
Fitted(a) == Owned(a) \cap (equipped \cup bare)

FleetIsOwned(a) == Cardinality(fleet[a]) = Starters /\ fleet[a] \subseteq Fitted(a)

(* A creation knows its user, and once the map row is inserted, works on   *)
(* that user's account, to which all that it has given so far belongs.     *)
KnowsUser(r, u) ==
  /\ r.at \in {"user", "name", "id", "map", "l-new"} \cup Late => u \in User
  /\ r.at \in Early \cup Late => r.nick \in Name
  /\ r.at \in {"map"} \cup Chosen \cup Late => r.account # 0
  /\ r.at \in {"l-check", "l-unchecked"} => u \in User
  /\ r.at \in Early => r.mine = {}
  /\ r.at = "ship" => r.next # 0
  /\ r.at \in Armed => Cardinality(r.mine) = Starters
Inserted(r, u) ==
  r.at \in Late => /\ accountOf[u] = r.account
                   /\ r.at # "row" => name[r.account] # NoName
                   /\ Given(r.at, pieces[r.account])
                   /\ r.mine \subseteq Fitted(r.account)
                   /\ r.at \in {"fleet11", "save"} => FleetIsOwned(r.account)

(* A login that has found the commander is its owner's.                    *)
IsOwners(r, u) == r.at = "l-save" /\ u # NoUser => accountOf[u] = r.account

Acknowledged(what, u) ==
  what = "created" => u # NoUser /\ accountOf[u] # 0 /\ Complete(accountOf[u])

Sound(c) ==
  /\ KnowsUser(task[c], auth[c]) /\ Inserted(task[c], auth[c])
  /\ IsOwners(task[c], auth[c]) /\ Acknowledged(answer[c], auth[c])

IInv ==
  /\ TypeOK /\ OneUserPerAccount /\ DeviceAgreesWithUser
  /\ \A c \in Client : Sound(c)

(* What there is in the database stays.                                    *)
Grows ==
  /\ \A u \in User : accountOf[u] # 0 => accountOf'[u] = accountOf[u]
  /\ \A a \in Account : /\ name[a] # NoName => name'[a] # NoName
                        /\ pieces[a] \subseteq pieces'[a]
                        /\ Fitted(a) \subseteq Fitted(a)'
                        /\ FleetIsOwned(a) => FleetIsOwned(a)'

(* What one client's step leaves to the others.                            *)
OnlyOf(c) ==
  \A d \in Client \ {c} : /\ task'[d] = task[d] /\ auth'[d] = auth[d]
                          /\ answer'[d] = answer[d]

-----------------------------------------------------------------------------
(* Constants and numbers.                                                  *)

(* What is assumed of the constants, and the bounds that follow.           *)
LEMMA BoundsAre ==
  /\ MaxAccount \in Nat /\ MaxShip \in Nat
  /\ Starters \in Nat /\ Attempts \in Nat \ {0}
<1>1. Cardinality(User) \in Nat
  BY ConstantsAssumption, FS_CardinalityType
<1>2. /\ MaxRequests \in Nat /\ MaxOthers \in Nat /\ Starters \in Nat
      /\ Attempts \in Nat \ {0}
  BY ConstantsAssumption
<1>3. MaxRequests * Attempts \in Nat /\ Starters * Cardinality(User) \in Nat
  BY <1>1, <1>2
<1> QED BY <1>2, <1>3 DEF MaxAccount, MaxShip

(* A bounded set of numbers has a greatest one.                            *)
LEMMA MaxIsGreatest ==
  ASSUME NEW N \in Nat, NEW S, S \subseteq 0..N, S # {}
  PROVE  Max(S) \in S /\ \A y \in S : Max(S) >= y
<1> DEFINE T == {N - x : x \in S}
           R == OpToRel(<, Nat)
<1>1. T \subseteq Nat /\ T # {}
  <2>1. \A x \in S : N - x \in Nat
    OBVIOUS
  <2> QED BY <2>1
<1>2. PICK m \in T : \A y \in T : ~(<<y, m>> \in R)
  <2> HIDE DEF T, R
  <2>1. IsWellFoundedOn(R, Nat)
    BY NatLessThanWellFounded DEF R
  <2> QED BY <1>1, <2>1, WFMin
<1>3. \A y \in T : ~(y < m)
  BY <1>1, <1>2 DEF OpToRel
<1>4. PICK x \in S : m = N - x
  BY <1>2
<1>5. \A y \in S : x >= y
  BY <1>3, <1>4
<1> QED BY <1>4, <1>5 DEF Max

(* SELECT MAX(id) + 1 is the id of no row.                                 *)
LEMMA NextIsFree ==
  ASSUME TypeOK
  PROVE  Max(Rows \cup {0}) + 1 \notin Rows
<1>1. Rows \cup {0} \subseteq 0..MaxShip
  BY BoundsAre DEF Rows, Ship
<1>2. /\ Max(Rows \cup {0}) \in Rows \cup {0}
      /\ \A y \in Rows \cup {0} : Max(Rows \cup {0}) >= y
  BY <1>1, BoundsAre, MaxIsGreatest
<1>3. Max(Rows \cup {0}) \in Nat
  BY <1>1, <1>2, BoundsAre
<1> QED BY <1>2, <1>3

-----------------------------------------------------------------------------
(* Requests.                                                               *)

(* No request is a request, at no stage.                                   *)
LEMMA NoTaskIs ==
  /\ NoTask \in Request /\ NoTask.at = "none"
BY BoundsAre DEF NoTask, Request

(* The fields of a request.                                                *)
LEMMA RequestFields ==
  ASSUME NEW r \in Request
  PROVE  /\ r.at \in Stage \cup {"none"} /\ r.nick \in Name \cup {NoName}
         /\ r.account \in 0..MaxAccount /\ r.tries \in 0..(Attempts - 1)
         /\ r.next \in 0..MaxShip /\ r.mine \subseteq Ship
         /\ r.account # 0 => r.account \in Account
         /\ r.next # 0 => r.next \in Ship
BY BoundsAre DEF Request, Account, Ship

(* A request goes to another stage.                                        *)
LEMMA StageChanged ==
  ASSUME NEW r \in Request, NEW stage \in Stage
  PROVE  LET q == [r EXCEPT !.at = stage] IN
           /\ q \in Request /\ q.at = stage /\ q.nick = r.nick
           /\ q.account = r.account /\ q.tries = r.tries /\ q.next = r.next
           /\ q.mine = r.mine
BY DEF Request

(* One client's request is set to r.                                       *)
LEMMA TaskSet ==
  ASSUME ClientTypes, NEW c \in Client, NEW r \in Request,
         task' = [task EXCEPT ![c] = r]
  PROVE  /\ task' \in [Client -> Request] /\ task'[c] = r
         /\ \A d \in Client \ {c} : task'[d] = task[d]
BY DEF ClientTypes

Answer == {"none", "created", "exists", "name taken", "no identity", "error",
           "new player", "refused", "in"}

(* What Reply leaves.                                                      *)
LEMMA Replied ==
  ASSUME ClientTypes, NEW c \in Client, NEW what \in Answer, Reply(c, what)
  PROVE  /\ task' \in [Client -> Request] /\ answer' \in [Client -> Answer]
         /\ task'[c] = NoTask /\ answer'[c] = what
         /\ \A d \in Client \ {c} : /\ task'[d] = task[d]
                                    /\ answer'[d] = answer[d]
<1>1. answer \in [Client -> Answer] /\ answer' = [answer EXCEPT ![c] = what]
  BY DEF ClientTypes, Reply, Answer
<1>2. task' = [task EXCEPT ![c] = NoTask]
  BY DEF Reply
<1>3. answer' \in [Client -> Answer] /\ answer'[c] = what
      /\ \A d \in Client \ {c} : answer'[d] = answer[d]
  BY <1>1
<1> QED BY <1>2, <1>3, NoTaskIs, TaskSet

(* What GoTo leaves.                                                       *)
LEMMA Gone ==
  ASSUME ClientTypes, NEW c \in Client, NEW stage \in Stage, GoTo(c, stage)
  PROVE  /\ task' \in [Client -> Request]
         /\ task'[c].at = stage /\ task'[c].nick = task[c].nick
         /\ task'[c].account = task[c].account
         /\ task'[c].next = task[c].next /\ task'[c].mine = task[c].mine
         /\ \A d \in Client \ {c} : task'[d] = task[d]
<1> DEFINE r == [task[c] EXCEPT !.at = stage]
<1>1. task[c] \in Request
  BY DEF ClientTypes
<1>2. /\ r \in Request /\ r.at = stage /\ r.nick = task[c].nick
      /\ r.account = task[c].account /\ r.next = task[c].next
      /\ r.mine = task[c].mine
  BY <1>1, StageChanged
<1>3. task' = [task EXCEPT ![c] = r]
  BY Zenon DEF GoTo
<1> HIDE DEF r
<1> QED BY <1>2, <1>3, TaskSet

-----------------------------------------------------------------------------
(* What a step that only adds leaves true.                                 *)

(* An account that is complete stays complete.                             *)
LEMMA CompleteStays ==
  ASSUME DatabaseTypes, DatabaseTypes', Grows, NEW a \in Account, Complete(a)
  PROVE  Complete(a)'
<1>1. FleetIsOwned(a) /\ name[a] # NoName /\ pieces[a] = Piece
  BY Zenon DEF Complete, FleetIsOwned, Fitted
<1>2. pieces'[a] \subseteq Piece
  BY DEF DatabaseTypes
<1>3. FleetIsOwned(a)' /\ name'[a] # NoName /\ pieces[a] \subseteq pieces'[a]
  BY <1>1, Zenon DEF Grows
<1>4. pieces'[a] = Piece
  BY <1>1, <1>2, <1>3
<1> QED BY <1>3, <1>4, Zenon DEF Complete, FleetIsOwned, Fitted

(* So does what a client was told.                                         *)
LEMMA AcknowledgedStays ==
  ASSUME DatabaseTypes, DatabaseTypes', ClientTypes, Grows, NEW c \in Client,
         Acknowledged(answer[c], auth[c]),
         auth'[c] = auth[c], answer'[c] = answer[c]
  PROVE  Acknowledged(answer[c], auth[c])'
<1>1. CASE answer[c] # "created"
  BY <1>1, Zenon DEF Acknowledged
<1>2. CASE answer[c] = "created"
  <2>1. /\ auth[c] # NoUser /\ accountOf[auth[c]] # 0
        /\ Complete(accountOf[auth[c]])
    BY <1>2, Zenon DEF Acknowledged
  <2>2. auth[c] \in User
    BY <2>1 DEF ClientTypes
  <2>3. accountOf'[auth[c]] = accountOf[auth[c]]
    BY <2>1, <2>2, Zenon DEF Grows
  <2>4. accountOf[auth[c]] \in Account
    BY <2>1, <2>2, BoundsAre DEF DatabaseTypes, Account
  <2>5. PICK a \in Account : a = accountOf[auth[c]]
    BY <2>4
  <2>6. Complete(a)'
    BY <2>1, <2>5, CompleteStays
  <2>7. accountOf'[auth'[c]] = a
    BY <2>3, <2>5
  <2>8. Complete(accountOf[auth[c]])'
    BY <2>6, <2>7, Zenon DEF Complete, Owned
  <2>9. auth'[c] # NoUser /\ a # 0
    BY <2>1, <2>5
  <2> QED BY <2>7, <2>8, <2>9, Zenon DEF Acknowledged
<1> QED BY <1>1, <1>2

(* What was inserted for a request is still there.                         *)
LEMMA InsertedStays ==
  ASSUME DatabaseTypes, Grows, NEW r \in Request, NEW u \in User \cup {NoUser},
         KnowsUser(r, u), Inserted(r, u)
  PROVE  /\ r.at \in Late => /\ accountOf'[u] = r.account
                             /\ r.at # "row" => name'[r.account] # NoName
                             /\ Given(r.at, pieces'[r.account])
                             /\ r.mine \subseteq Fitted(r.account)'
                             /\ r.at \in {"fleet11", "save"}
                                  => FleetIsOwned(r.account)'
<1> SUFFICES ASSUME r.at \in Late
             PROVE  /\ accountOf'[u] = r.account
                    /\ r.at # "row" => name'[r.account] # NoName
                    /\ Given(r.at, pieces'[r.account])
                    /\ r.mine \subseteq Fitted(r.account)'
                    /\ r.at \in {"fleet11", "save"} => FleetIsOwned(r.account)'
  OBVIOUS
<1>1. u \in User /\ r.account # 0
  BY DEF KnowsUser
<1>2. r.account \in Account
  BY <1>1, RequestFields
<1>3. accountOf'[u] = r.account
  BY <1>1, Zenon DEF Inserted, Grows
<1>4. /\ r.at # "row" => name'[r.account] # NoName
      /\ r.mine \subseteq Fitted(r.account)'
      /\ r.at \in {"fleet11", "save"} => FleetIsOwned(r.account)'
  BY <1>2, Zenon DEF Inserted, Grows
<1>5. Given(r.at, pieces[r.account]) /\ pieces[r.account] \subseteq pieces'[r.account]
  BY <1>2, Zenon DEF Inserted, Grows
<1>6. Given(r.at, pieces'[r.account])
  BY <1>5, Zenon DEF Given
<1> QED BY <1>3, <1>4, <1>6

(* A client that does nothing stays sound.                                 *)
LEMMA SoundStays ==
  ASSUME DatabaseTypes, DatabaseTypes', ClientTypes, Grows, NEW c \in Client,
         Sound(c), task'[c] = task[c], auth'[c] = auth[c],
         answer'[c] = answer[c]
  PROVE  Sound(c)'
<1>1. task[c] \in Request /\ auth[c] \in User \cup {NoUser}
  BY DEF ClientTypes
<1>2. KnowsUser(task[c], auth[c])'
  BY DEF Sound, KnowsUser
<1>3. Inserted(task[c], auth[c])'
  <2>1. PICK r \in Request, u \in User \cup {NoUser} : r = task[c] /\ u = auth[c]
    BY <1>1
  <2>2. KnowsUser(r, u) /\ Inserted(r, u)
    BY <2>1 DEF Sound
  <2>3. r.at \in Late => /\ accountOf'[u] = r.account
                         /\ r.at # "row" => name'[r.account] # NoName
                         /\ Given(r.at, pieces'[r.account])
                         /\ r.mine \subseteq Fitted(r.account)'
                         /\ r.at \in {"fleet11", "save"} => FleetIsOwned(r.account)'
    BY <2>2, InsertedStays
  <2>4. task'[c] = r /\ auth'[c] = u
    BY <2>1
  <2> QED BY <2>3, <2>4 DEF Inserted
<1>4. IsOwners(task[c], auth[c])'
  <2> SUFFICES ASSUME task[c].at = "l-save", auth[c] # NoUser
               PROVE  accountOf'[auth[c]] = task[c].account
    BY DEF IsOwners
  <2>1. /\ accountOf[auth[c]] = task[c].account /\ auth[c] \in User
        /\ task[c].account # 0
    BY <1>1 DEF Sound, IsOwners, KnowsUser, Chosen
  <2> QED BY <2>1, Zenon DEF Grows
<1>5. Acknowledged(answer[c], auth[c])'
  BY AcknowledgedStays DEF Sound
<1> QED BY <1>2, <1>3, <1>4, <1>5 DEF Sound

-----------------------------------------------------------------------------
(* Steps of a request that write nothing but, perhaps, the sequence.       *)

StepIsSound(c) ==
  /\ DatabaseTypes' /\ ClientTypes' /\ Grows
  /\ OneUserPerAccount' /\ DeviceAgreesWithUser'
  /\ Sound(c)' /\ OnlyOf(c)

(* What makes a database grow.                                             *)
LEMMA GrowsIf ==
  ASSUME DatabaseTypes,
         \A u \in User : accountOf[u] # 0 => accountOf'[u] = accountOf[u],
         \A a \in Account : /\ name[a] # NoName => name'[a] # NoName
                            /\ pieces[a] \subseteq pieces'[a],
         \A s \in Ship : ships[s] # 0 => ships'[s] = ships[s],
         equipped \subseteq equipped', bare \subseteq bare',
         \A a \in Account : fleet'[a] = fleet[a] \/ FleetIsOwned(a)'
  PROVE  Grows
<1>1. ASSUME NEW a \in Account
      PROVE  Fitted(a) \subseteq Fitted(a)'
  BY BoundsAre DEF Fitted, Owned, Account
<1>2. ASSUME NEW a \in Account, FleetIsOwned(a)
      PROVE  FleetIsOwned(a)'
  BY <1>1, <1>2, Zenon DEF FleetIsOwned
<1> QED BY <1>1, <1>2, Zenon DEF Grows

(* Devices whose rows are left alone stay bound to their users.            *)
LEMMA DeviceStays ==
  ASSUME DatabaseTypes, DeviceAgreesWithUser, Grows, device' = device,
         unchecked' = unchecked
  PROVE  DeviceAgreesWithUser'
<1> SUFFICES ASSUME NEW d \in Device \ unchecked, device[d].account # 0
             PROVE  /\ device[d].user # NoUser
                    /\ accountOf'[device[d].user] = device[d].account
  BY Zenon DEF DeviceAgreesWithUser
<1>1. device[d] \in DeviceRow
  BY DEF DatabaseTypes
<1>2. device[d].user \in User \cup {NoUser}
  BY <1>1 DEF DeviceRow
<1>3. device[d].user # NoUser /\ accountOf[device[d].user] = device[d].account
  BY Zenon DEF DeviceAgreesWithUser
<1> QED BY <1>2, <1>3, Zenon DEF Grows

(* ... and accounts to theirs, while no account is given out and only      *)
(* theirs get a commander.                                                 *)
LEMMA OwnersStay ==
  ASSUME OneUserPerAccount, accountOf' = accountOf,
         \A a \in Account : name'[a] # NoName =>
           name[a] # NoName \/ \E u \in User : accountOf[u] = a
  PROVE  OneUserPerAccount'
BY Zenon DEF OneUserPerAccount

(* A step that writes no row but, perhaps, the sequence keeps the          *)
(* database.                                                               *)
LEMMA QuietStep ==
  ASSUME IInv, NEW c \in Client,
         UNCHANGED <<accountOf, name, ships, equipped, bare, unchecked, fleet,
                     pieces, device>>,
         sequence' \in 0..MaxAccount, ClientTypes', Sound(c)', OnlyOf(c)
  PROVE  StepIsSound(c)
<1>1. DatabaseTypes'
  BY Zenon DEF IInv, TypeOK, DatabaseTypes
<1>2. Grows
  BY GrowsIf, Zenon DEF IInv, TypeOK
<1>3. OneUserPerAccount'
  BY OwnersStay, Zenon DEF IInv
<1>4. DeviceAgreesWithUser'
  BY <1>2, DeviceStays, Zenon DEF IInv, TypeOK
<1> QED BY <1>1, <1>2, <1>3, <1>4, Zenon DEF StepIsSound

(* A client that is told anything but "created" has nothing to keep.       *)
LEMMA RepliedIsSound ==
  ASSUME ClientTypes, NEW c \in Client, NEW what \in Answer \ {"created"},
         Reply(c, what)
  PROVE  Sound(c)'
<1>1. task'[c] = NoTask /\ answer'[c] = what
  BY Replied
<1>2. KnowsUser(task[c], auth[c])' /\ Inserted(task[c], auth[c])'
      /\ IsOwners(task[c], auth[c])'
  BY <1>1, NoTaskIs DEF KnowsUser, Inserted, IsOwners, Early, Late, Chosen, Armed
<1>3. Acknowledged(answer[c], auth[c])'
  BY <1>1, Zenon DEF Acknowledged
<1> QED BY <1>2, <1>3 DEF Sound

(* ... and a reply that writes nothing is sound, whether or not the client *)
(* has adopted its device's user.                                          *)
LEMMA QuietReply ==
  ASSUME IInv, NEW c \in Client, NEW what \in Answer \ {"created"},
         Reply(c, what), UNCHANGED <<database, excuses>>,
         auth' \in [Client -> User \cup {NoUser}],
         \A d \in Client \ {c} : auth'[d] = auth[d]
  PROVE  StepIsSound(c)
<1>1. ClientTypes
  BY DEF IInv, TypeOK
<1>2. /\ task' \in [Client -> Request] /\ answer' \in [Client -> Answer]
      /\ \A d \in Client \ {c} : task'[d] = task[d] /\ answer'[d] = answer[d]
  BY <1>1, Replied
<1>3. ClientTypes' /\ OnlyOf(c)
  BY <1>1, <1>2, Zenon DEF ClientTypes, OnlyOf, Answer
<1>4. Sound(c)'
  BY <1>1, RepliedIsSound
<1>5. UNCHANGED <<accountOf, name, ships, equipped, bare, unchecked, fleet,
                  pieces, device>>
      /\ sequence' \in 0..MaxAccount
  BY DEF IInv, TypeOK, DatabaseTypes, database, excuses
<1> QED BY <1>3, <1>4, <1>5, QuietStep

(* A request that goes on writes nothing and says nothing.                 *)
LEMMA QuietMove ==
  ASSUME IInv, NEW c \in Client, NEW r \in Request,
         task' = [task EXCEPT ![c] = r],
         UNCHANGED <<accountOf, name, ships, equipped, bare, unchecked, fleet,
                     pieces, device, answer>>,
         sequence' \in 0..MaxAccount,
         auth' \in [Client -> User \cup {NoUser}],
         \A d \in Client \ {c} : auth'[d] = auth[d],
         NEW u, u = auth'[c], auth[c] # NoUser => u = auth[c],
         KnowsUser(r, u), Inserted(r, u), IsOwners(r, u)
  PROVE  StepIsSound(c)
<1>1. ClientTypes
  BY DEF IInv, TypeOK
<1>2. /\ task' \in [Client -> Request] /\ task'[c] = r
      /\ \A d \in Client \ {c} : task'[d] = task[d]
  BY <1>1, TaskSet
<1>3. ClientTypes' /\ OnlyOf(c)
  BY <1>1, <1>2, Zenon DEF ClientTypes, OnlyOf
<1>4. \A a : Owned(a)' = Owned(a) /\ Fitted(a)' = Fitted(a)
  BY DEF Owned, Fitted
<1>5. Sound(c)'
  <2>1. KnowsUser(task[c], auth[c])'
    BY <1>2 DEF KnowsUser
  <2>2. Inserted(task[c], auth[c])'
    BY <1>2, <1>4 DEF Inserted, FleetIsOwned
  <2>3. IsOwners(task[c], auth[c])'
    BY <1>2 DEF IsOwners
  <2>4. Acknowledged(answer[c], auth[c])'
    <3>1. Acknowledged(answer[c], auth[c])
      BY DEF IInv, Sound
    <3> QED BY <3>1 DEF Acknowledged, Complete, Owned
  <2> QED BY <2>1, <2>2, <2>3, <2>4 DEF Sound
<1> QED BY <1>3, <1>5, QuietStep

-----------------------------------------------------------------------------
(* The steps of a creation that only look.                                 *)

(* A client without an identity takes its device's user; one with an       *)
(* identity keeps it.                                                      *)
LEMMA Adopted ==
  ASSUME DatabaseTypes, ClientTypes, ConstantsAssumption, NEW c \in Client,
         AdoptDevice(c)
  PROVE  /\ auth' \in [Client -> User \cup {NoUser}]
         /\ \A d \in Client \ {c} : auth'[d] = auth[d]
         /\ auth[c] # NoUser => auth'[c] = auth[c]
<1>1. DeviceOf[c] \in Device
  BY DEF ConstantsAssumption
<1>2. device[DeviceOf[c]] \in DeviceRow
  BY <1>1 DEF DatabaseTypes
<1>3. device[DeviceOf[c]].user \in User \cup {NoUser}
  BY <1>2 DEF DeviceRow
<1> DEFINE u == IF auth[c] = NoUser THEN device[DeviceOf[c]].user ELSE auth[c]
<1>4. auth \in [Client -> User \cup {NoUser}]
  BY DEF ClientTypes
<1>5. u \in User \cup {NoUser}
  BY <1>3, <1>4
<1>6. auth' = [auth EXCEPT ![c] = u]
  BY Zenon DEF AdoptDevice
<1>7. auth[c] # NoUser => u = auth[c]
  OBVIOUS
<1> HIDE DEF u
<1> QED BY <1>4, <1>5, <1>6, <1>7

(* What the invariant says of one client.                                  *)
LEMMA ClientIs ==
  ASSUME IInv, NEW c \in Client
  PROVE  /\ task[c] \in Request /\ auth[c] \in User \cup {NoUser}
         /\ auth \in [Client -> User \cup {NoUser}] /\ sequence \in 0..MaxAccount
         /\ KnowsUser(task[c], auth[c]) /\ Inserted(task[c], auth[c])
         /\ IsOwners(task[c], auth[c])
         /\ ClientTypes /\ DatabaseTypes
<1>1. ClientTypes /\ DatabaseTypes /\ Sound(c)
  BY Zenon DEF IInv, TypeOK
<1> QED BY <1>1 DEF ClientTypes, DatabaseTypes, Sound

(* To go to a stage that asks for no more than what is known.              *)
LEMMA QuietGo ==
  ASSUME IInv, NEW c \in Client, NEW stage \in Stage \ Late, GoTo(c, stage),
         stage \notin Chosen,
         UNCHANGED <<database, answer, excuses>>,
         auth' \in [Client -> User \cup {NoUser}],
         \A d \in Client \ {c} : auth'[d] = auth[d],
         auth[c] # NoUser => auth'[c] = auth[c],
         stage \in {"user", "name", "id", "map", "l-new"} => auth'[c] \in User,
         stage \in Early => task[c].at \in Early,
         stage = "map" => task[c].account # 0
  PROVE  StepIsSound(c)
<1> DEFINE r == [task[c] EXCEPT !.at = stage]
<1>1. task[c] \in Request /\ KnowsUser(task[c], auth[c])
  BY ClientIs
<1>2. /\ r \in Request /\ r.at = stage /\ r.nick = task[c].nick
      /\ r.account = task[c].account /\ r.next = task[c].next
      /\ r.mine = task[c].mine
  BY <1>1, StageChanged
<1>3. task' = [task EXCEPT ![c] = r]
  BY Zenon DEF GoTo
<1> HIDE DEF r
<1>4. PICK u : u = auth'[c]
  OBVIOUS
<1>5. /\ stage \notin Late /\ stage \notin Armed /\ stage # "ship"
      /\ stage \notin {"l-check", "l-save", "l-unchecked"}
  BY DEF Late, Armed, Chosen
<1>6. KnowsUser(r, u)
  BY <1>1, <1>2, <1>4, <1>5 DEF KnowsUser
<1>7. Inserted(r, u) /\ IsOwners(r, u)
  BY <1>2, <1>5 DEF Inserted, IsOwners
<1>8. sequence' \in 0..MaxAccount
      /\ UNCHANGED <<accountOf, name, ships, equipped, bare, unchecked, fleet,
                     pieces, device>>
  BY ClientIs DEF database, excuses
<1> QED BY <1>2, <1>3, <1>4, <1>6, <1>7, <1>8, QuietMove

(* A creation starts, knowing the name.                                    *)
LEMMA CreateNewPlayerSound ==
  ASSUME IInv, NEW c \in Client, NEW m \in Name, CreateNewPlayer(c, m)
  PROVE  StepIsSound(c)
<1> DEFINE r == [NoTask EXCEPT !.at = "device", !.nick = m]
<1>1. /\ r \in Request /\ r.at = "device" /\ r.nick = m /\ r.mine = {}
  <2>1. PICK q \in Request : q = NoTask
    BY NoTaskIs
  <2>2. q.mine = {}
    BY <2>1 DEF NoTask
  <2> DEFINE p == [q EXCEPT !.at = "device", !.nick = m]
  <2>3. /\ p \in Request /\ p.at = "device" /\ p.nick = m /\ p.mine = q.mine
    BY DEF Request, Stage
  <2> QED BY <2>1, <2>2, <2>3
<1>2. task' = [task EXCEPT ![c] = r]
      /\ UNCHANGED <<accountOf, name, ships, equipped, bare, unchecked, fleet,
                     pieces, device, sequence, auth, answer>>
  BY Zenon DEF CreateNewPlayer, database, excuses
<1> HIDE DEF r
<1>3. KnowsUser(r, auth[c]) /\ Inserted(r, auth[c]) /\ IsOwners(r, auth[c])
  BY <1>1 DEF KnowsUser, Inserted, IsOwners, Early, Late, Chosen, Armed
<1>4. PICK u : u = auth[c]
  OBVIOUS
<1> QED BY <1>1, <1>2, <1>3, <1>4, ClientIs, QuietMove

(* It adopts the device's user or is told why not,                         *)
LEMMA CheckDeviceSound ==
  ASSUME IInv, NEW c \in Client, CheckDevice(c)
  PROVE  StepIsSound(c)
<1>0. UNCHANGED <<database, excuses>> /\ task[c].at = "device"
  BY DEF CheckDevice, At
<1>1. CASE Reply(c, "exists") /\ UNCHANGED auth
  BY <1>0, <1>1, ClientIs, QuietReply DEF Answer
<1>2. CASE AdoptDevice(c) /\ Reply(c, "no identity")
  BY <1>0, <1>2, ClientIs, Adopted, ConstantsAssumption, QuietReply DEF Answer
<1>3. CASE /\ AdoptDevice(c) /\ auth'[c] # NoUser
           /\ GoTo(c, "user") /\ UNCHANGED answer
  <2>1. /\ auth' \in [Client -> User \cup {NoUser}]
        /\ \A d \in Client \ {c} : auth'[d] = auth[d]
        /\ auth[c] # NoUser => auth'[c] = auth[c]
    BY <1>3, ClientIs, Adopted, ConstantsAssumption
  <2>2. auth'[c] \in User
    BY <1>3, <2>1
  <2>3. "user" \in (Stage \ Late) \ Chosen /\ "device" \in Early
    BY DEF Stage, Late, Early, Chosen
  <2> QED BY <1>0, <1>3, <2>1, <2>2, <2>3, QuietGo
<1> QED BY <1>1, <1>2, <1>3, Zenon DEF CheckDevice

(* ... goes on if the user has no account,                                 *)
LEMMA CheckUserSound ==
  ASSUME IInv, NEW c \in Client, CheckUser(c)
  PROVE  StepIsSound(c)
<1>0. UNCHANGED <<database, auth, excuses>> /\ task[c].at = "user"
  BY DEF CheckUser, At
<1>1. CASE Reply(c, "exists")
  BY <1>0, <1>1, ClientIs, QuietReply DEF Answer
<1>2. CASE GoTo(c, "name") /\ UNCHANGED answer
  <2>1. "name" \in (Stage \ Late) \ Chosen /\ "user" \in Early /\ auth[c] \in User
    BY <1>0, ClientIs DEF Stage, Late, Early, Chosen, KnowsUser
  <2> QED BY <1>0, <1>2, <2>1, ClientIs, QuietGo
<1> QED BY <1>1, <1>2, Zenon DEF CheckUser

(* ... and if nobody has the name,                                         *)
LEMMA CheckNameSound ==
  ASSUME IInv, NEW c \in Client, CheckName(c)
  PROVE  StepIsSound(c)
<1>0. UNCHANGED <<database, auth, excuses>> /\ task[c].at = "name"
  BY DEF CheckName, At
<1>1. CASE Reply(c, "name taken")
  BY <1>0, <1>1, ClientIs, QuietReply DEF Answer
<1>2. CASE GoTo(c, "id") /\ UNCHANGED answer
  <2>1. "id" \in (Stage \ Late) \ Chosen /\ "name" \in Early /\ auth[c] \in User
    BY <1>0, ClientIs DEF Stage, Late, Early, Chosen, KnowsUser
  <2> QED BY <1>0, <1>2, <2>1, ClientIs, QuietGo
<1> QED BY <1>1, <1>2, Zenon DEF CheckName

(* ... and gets an account id, which is no longer 0.                       *)
LEMMA NextAccountIdSound ==
  ASSUME IInv, NEW c \in Client, NextAccountId(c)
  PROVE  StepIsSound(c)
<1> DEFINE id == IF Sequences THEN sequence + 1 ELSE Max(Known \cup {0}) + 1
           r == [task[c] EXCEPT !.account = id, !.at = "map"]
<1>1. /\ task[c].at = "id" /\ id \in Account
      /\ task' = [task EXCEPT ![c] = r]
      /\ sequence' = IF Sequences THEN id ELSE sequence
      /\ UNCHANGED <<accountOf, name, ships, equipped, bare, unchecked, fleet,
                     pieces, device, auth, answer>>
  BY Zenon DEF NextAccountId, At, Stay, excuses
<1> HIDE DEF id
<1>2. id \in 0..MaxAccount /\ id # 0
  BY <1>1, BoundsAre DEF Account
<1>3. /\ r \in Request /\ r.at = "map" /\ r.nick = task[c].nick
      /\ r.account = id /\ r.mine = task[c].mine
  BY <1>2, ClientIs DEF Request, Stage
<1>4. sequence' \in 0..MaxAccount
  BY <1>1, <1>2, ClientIs
<1> HIDE DEF r
<1>5. KnowsUser(r, auth[c])
  BY <1>1, <1>2, <1>3, ClientIs DEF KnowsUser, Early, Late, Chosen, Armed
<1>6. Inserted(r, auth[c]) /\ IsOwners(r, auth[c])
  BY <1>3 DEF Inserted, IsOwners, Late
<1>7. PICK u : u = auth[c]
  OBVIOUS
<1> QED BY <1>1, <1>3, <1>4, <1>5, <1>6, <1>7, ClientIs, QuietMove

(* The id for the next ship is looked up.                                  *)
LEMMA MaxShipIdSound ==
  ASSUME IInv, NEW c \in Client, MaxShipId(c)
  PROVE  StepIsSound(c)
<1> DEFINE id == Max(Rows \cup {0}) + 1
           r == [task[c] EXCEPT !.next = id, !.at = "ship"]
<1>1. /\ task[c].at = "max" /\ id \in Ship
      /\ task' = [task EXCEPT ![c] = r]
      /\ UNCHANGED <<accountOf, name, ships, equipped, bare, unchecked, fleet,
                     pieces, device, sequence, auth, answer>>
  BY Zenon DEF MaxShipId, At, Stay, excuses, database, excuses
<1> HIDE DEF id
<1>2. id \in 0..MaxShip /\ id # 0
  BY <1>1, BoundsAre DEF Ship
<1>3. /\ r \in Request /\ r.at = "ship" /\ r.nick = task[c].nick
      /\ r.account = task[c].account /\ r.mine = task[c].mine /\ r.next = id
  BY <1>2, ClientIs DEF Request, Stage
<1> HIDE DEF r
<1>4. KnowsUser(r, auth[c])
  BY <1>1, <1>2, <1>3, ClientIs DEF KnowsUser, Early, Late, Chosen, Armed
<1>5. Inserted(r, auth[c])
  <2>1. Inserted(task[c], auth[c]) /\ "max" \in Late
    BY ClientIs DEF Late
  <2>2. Given("max", pieces[task[c].account]) => Given("ship", pieces[task[c].account])
    BY DEF Given, Armed
  <2> QED BY <1>1, <1>3, <2>1, <2>2 DEF Inserted
<1>6. IsOwners(r, auth[c])
  BY <1>3 DEF IsOwners
<1>7. PICK u : u = auth[c]
  OBVIOUS
<1> QED BY <1>1, <1>3, <1>4, <1>5, <1>6, <1>7, ClientIs, QuietMove

-----------------------------------------------------------------------------
(* The steps of a login that only look.                                    *)

(* A login starts, with the account id the client sends.                   *)
LEMMA JoinServerSound ==
  ASSUME IInv, NEW c \in Client, NEW a \in 0..MaxAccount, JoinServer(c, a)
  PROVE  StepIsSound(c)
<1> DEFINE r == [NoTask EXCEPT !.at = "l-device", !.account = a]
<1>1. r \in Request /\ r.at = "l-device"
  BY NoTaskIs DEF Request, Stage
<1>2. task' = [task EXCEPT ![c] = r]
      /\ UNCHANGED <<accountOf, name, ships, equipped, bare, unchecked, fleet,
                     pieces, device, sequence, auth, answer>>
  BY Zenon DEF JoinServer, database, excuses
<1> HIDE DEF r
<1>3. KnowsUser(r, auth[c]) /\ Inserted(r, auth[c]) /\ IsOwners(r, auth[c])
  BY <1>1 DEF KnowsUser, Inserted, IsOwners, Early, Late, Chosen, Armed
<1>4. PICK u : u = auth[c]
  OBVIOUS
<1> QED BY <1>1, <1>2, <1>3, <1>4, ClientIs, QuietMove

(* It adopts the device's user, and remembers its account,                 *)
LEMMA JoinReadsDeviceSound ==
  ASSUME IInv, NEW c \in Client, JoinReadsDevice(c)
  PROVE  StepIsSound(c)
<1> DEFINE a == IF task[c].account = 0 THEN device[DeviceOf[c]].account
                                       ELSE task[c].account
           r == [task[c] EXCEPT !.account = a, !.at = "l-user"]
<1>1. /\ AdoptDevice(c) /\ task' = [task EXCEPT ![c] = r]
      /\ UNCHANGED <<accountOf, name, ships, equipped, bare, unchecked, fleet,
                     pieces, device, sequence, answer>>
  BY Zenon DEF JoinReadsDevice, database, excuses
<1>2. a \in 0..MaxAccount
  <2>1. device[DeviceOf[c]] \in DeviceRow
    BY ClientIs, ConstantsAssumption DEF DatabaseTypes
  <2>2. task[c].account \in 0..MaxAccount
    BY ClientIs, RequestFields
  <2> QED BY <2>1, <2>2 DEF DeviceRow
<1> HIDE DEF a
<1>3. r \in Request /\ r.at = "l-user"
  BY <1>2, ClientIs DEF Request, Stage
<1> HIDE DEF r
<1>4. PICK u : u = auth'[c]
  OBVIOUS
<1>5. KnowsUser(r, u) /\ Inserted(r, u) /\ IsOwners(r, u)
  BY <1>3 DEF KnowsUser, Inserted, IsOwners, Early, Late, Chosen, Armed
<1>6. /\ auth' \in [Client -> User \cup {NoUser}]
      /\ \A d \in Client \ {c} : auth'[d] = auth[d]
      /\ auth[c] # NoUser => u = auth[c]
  BY <1>1, <1>4, ClientIs, Adopted, ConstantsAssumption
<1>7. sequence' \in 0..MaxAccount
  BY <1>1, ClientIs
<1> QED BY <1>1, <1>3, <1>4, <1>5, <1>6, <1>7, QuietMove

(* ... prefers the account of the user,                                    *)
LEMMA JoinReadsUserSound ==
  ASSUME IInv, NEW c \in Client, JoinReadsUser(c)
  PROVE  StepIsSound(c)
<1> DEFINE a == IF auth[c] # NoUser /\ accountOf[auth[c]] # 0
                THEN accountOf[auth[c]] ELSE task[c].account
           r == [task[c] EXCEPT !.account = a, !.at = "l-fetch"]
<1>0. UNCHANGED <<database, auth, excuses>>
  BY DEF JoinReadsUser
<1>1. CASE Reply(c, "new player")
  BY <1>0, <1>1, ClientIs, QuietReply DEF Answer
<1>2. CASE auth[c] # NoUser /\ GoTo(c, "l-new") /\ UNCHANGED answer
  <2>1. auth[c] \in User
    BY <1>2, ClientIs
  <2>2. "l-new" \in (Stage \ Late) \ Chosen /\ "l-new" \notin Early
    BY DEF Stage, Late, Early, Chosen
  <2> QED BY <1>0, <1>2, <2>1, <2>2, ClientIs, QuietGo
<1>3. CASE /\ a # 0 /\ task' = [task EXCEPT ![c] = r] /\ UNCHANGED answer
  <2>1. a \in 0..MaxAccount
    <3>1. task[c].account \in 0..MaxAccount
      BY ClientIs, RequestFields
    <3>2. auth[c] # NoUser => accountOf[auth[c]] \in 0..MaxAccount
      BY ClientIs DEF DatabaseTypes
    <3> QED BY <3>1, <3>2
  <2> HIDE DEF a
  <2>2. r \in Request /\ r.at = "l-fetch" /\ r.account = a
    BY <2>1, ClientIs DEF Request, Stage
  <2> HIDE DEF r
  <2>3. PICK u : u = auth[c]
    OBVIOUS
  <2>4. KnowsUser(r, u) /\ Inserted(r, u) /\ IsOwners(r, u)
    BY <1>3, <2>2 DEF KnowsUser, Inserted, IsOwners, Early, Late, Chosen, Armed
  <2>5. /\ UNCHANGED <<accountOf, name, ships, equipped, bare, unchecked, fleet,
                       pieces, device, answer>>
        /\ sequence' \in 0..MaxAccount
    BY <1>0, <1>3, ClientIs DEF database, excuses
  <2> QED BY <1>0, <1>3, <2>2, <2>3, <2>4, <2>5, ClientIs, QuietMove
<1> QED BY <1>1, <1>2, <1>3, Zenon DEF JoinReadsUser

(* The account that a login has chosen stays chosen from stage to stage.   *)
LEMMA ChosenGo ==
  ASSUME IInv, NEW c \in Client, NEW stage \in Chosen, GoTo(c, stage),
         task[c].at \in Chosen,
         UNCHANGED <<database, auth, answer, excuses>>,
         stage = "l-save" /\ auth[c] # NoUser =>
           accountOf[auth[c]] = task[c].account,
         stage \in {"l-check", "l-unchecked"} => auth[c] \in User
  PROVE  StepIsSound(c)
<1> DEFINE r == [task[c] EXCEPT !.at = stage]
<1>1. /\ r \in Request /\ r.at = stage /\ r.account = task[c].account
      /\ stage \notin Late \cup Early /\ stage \notin Armed
      /\ stage \notin {"ship", "user", "name", "id", "map", "l-new"}
  <2>1. /\ stage \in Stage /\ stage \notin Late \cup Early
        /\ stage \notin Armed
        /\ stage \notin {"ship", "user", "name", "id", "map", "l-new"}
    BY DEF Stage, Chosen, Late, Early, Armed
  <2> QED BY <2>1, ClientIs, StageChanged
<1>2. task' = [task EXCEPT ![c] = r]
  BY Zenon DEF GoTo
<1> HIDE DEF r
<1>3. task[c].account # 0
  BY ClientIs DEF KnowsUser, Chosen
<1>4. KnowsUser(r, auth[c])
  BY <1>1, <1>3 DEF KnowsUser
<1>5. Inserted(r, auth[c]) /\ IsOwners(r, auth[c])
  BY <1>1 DEF Inserted, IsOwners
<1>6. /\ UNCHANGED <<accountOf, name, ships, equipped, bare, unchecked, fleet,
                     pieces, device, answer>>
      /\ sequence' \in 0..MaxAccount
  BY ClientIs DEF database, excuses
<1>7. PICK u : u = auth[c]
  OBVIOUS
<1> QED BY <1>1, <1>2, <1>4, <1>5, <1>6, <1>7, ClientIs, QuietMove

(* Whoever is not let in is told so.                                       *)
LEMMA NotInSound ==
  ASSUME IInv, NEW c \in Client, NotIn(c), UNCHANGED <<database, auth, excuses>>
  PROVE  StepIsSound(c)
<1>1. CASE Reply(c, "refused")
  <2>1. "refused" \in Answer \ {"created"}
    BY DEF Answer
  <2> QED BY <1>1, <2>1, ClientIs, QuietReply
<1>2. CASE Reply(c, "new player")
  <2>1. "new player" \in Answer \ {"created"}
    BY DEF Answer
  <2> QED BY <1>2, <2>1, ClientIs, QuietReply
<1> QED BY <1>1, <1>2 DEF NotIn

(* ... the commander is fetched,                                           *)
LEMMA JoinFetchesSound ==
  ASSUME IInv, NEW c \in Client, JoinFetches(c)
  PROVE  StepIsSound(c)
<1>0. /\ UNCHANGED <<database, auth, excuses>> /\ task[c].at \in Chosen
      /\ auth[c] \in User \cup {NoUser}
  BY ClientIs DEF JoinFetches, At, Chosen
<1>1. CASE auth[c] = NoUser /\ GoTo(c, "l-save") /\ UNCHANGED answer
  <2>1. "l-save" \in Chosen /\ "l-save" \notin {"l-check", "l-unchecked"}
    BY DEF Chosen
  <2> QED BY <1>0, <1>1, <2>1, ChosenGo
<1>2. CASE auth[c] # NoUser /\ GoTo(c, "l-check") /\ UNCHANGED answer
  <2>1. "l-check" \in Chosen /\ "l-check" # "l-save"
    BY DEF Chosen
  <2> QED BY <1>0, <1>2, <2>1, ChosenGo
<1>3. CASE NotIn(c)
  BY <1>0, <1>3, NotInSound
<1> QED BY <1>1, <1>2, <1>3, Zenon DEF JoinFetches

(* ... and its owner's login goes on,                                      *)
LEMMA JoinChecksSound ==
  ASSUME IInv, NEW c \in Client, JoinChecks(c)
  PROVE  StepIsSound(c)
<1>0. /\ UNCHANGED <<database, auth, excuses>> /\ task[c].at \in Chosen
  BY DEF JoinChecks, At, Chosen
<1>1. CASE IsOwner(c) /\ GoTo(c, "l-save") /\ UNCHANGED answer
  <2>1. "l-save" \in Chosen /\ "l-save" \notin {"l-check", "l-unchecked"}
    BY DEF Chosen
  <2> QED BY <1>0, <1>1, <2>1, ChosenGo DEF IsOwner
<1>2. CASE NotIn(c)
  BY <1>0, <1>2, NotInSound
<1> QED BY <1>1, <1>2, Zenon DEF JoinChecks

(* ... as does the one whose check has failed.                             *)
LEMMA CheckFailsSound ==
  ASSUME IInv, NEW c \in Client, CheckFails(c)
  PROVE  StepIsSound(c)
<1>1. /\ task[c].at = "l-check" /\ GoTo(c, "l-unchecked")
      /\ UNCHANGED <<database, auth, answer, excuses>>
  BY Zenon DEF CheckFails, At
<1>2. auth[c] \in User
  BY <1>1, ClientIs DEF KnowsUser
<1>3. task[c].at \in Chosen /\ "l-unchecked" \in Chosen
      /\ "l-unchecked" # "l-save"
  BY <1>1 DEF Chosen
<1> QED BY <1>1, <1>2, <1>3, ChosenGo

(* A statement that raises ends the request without a row.                 *)
LEMMA StatementFailsSound ==
  ASSUME IInv, NEW c \in Client, StatementFails(c)
  PROVE  StepIsSound(c)
<1>0. UNCHANGED <<database, auth, excuses>>
  BY DEF StatementFails
<1>1. PICK what \in {"error", "new player", "in", "none"} : Reply(c, what)
  BY Zenon DEF StatementFails
<1>2. what \in Answer \ {"created"}
  BY DEF Answer
<1>3. what \in Answer \ {"created"} /\ ClientTypes
  BY <1>2, ClientIs
<1> QED BY <1>0, <1>1, <1>3, ClientIs, QuietReply

-----------------------------------------------------------------------------
(* The statements of create_commander.                                     *)

(* A creation at a late stage, its user and its account.                   *)
LEMMA LateIs ==
  ASSUME IInv, NEW c \in Client, task[c].at \in Late
  PROVE  /\ auth[c] \in User /\ task[c].account \in Account
         /\ accountOf[auth[c]] = task[c].account
         /\ task[c].nick \in Name /\ task[c].nick # NoName
         /\ task[c].mine \subseteq Fitted(task[c].account)
         /\ task[c].mine \subseteq Ship
         /\ Given(task[c].at, pieces[task[c].account])
         /\ task[c].at # "row" => name[task[c].account] # NoName
         /\ task[c].at \in Armed => Cardinality(task[c].mine) = Starters
         /\ task[c].at \in {"fleet11", "save"} => FleetIsOwned(task[c].account)
<1>1. /\ KnowsUser(task[c], auth[c]) /\ Inserted(task[c], auth[c])
      /\ task[c] \in Request
  BY ClientIs
<1>2. auth[c] \in User /\ task[c].account # 0 /\ task[c].nick \in Name
  BY <1>1 DEF KnowsUser
<1>3. task[c].account \in Account /\ task[c].mine \subseteq Ship
  BY <1>1, <1>2, RequestFields
<1>4. task[c].at \in Armed => Cardinality(task[c].mine) = Starters
  BY <1>1 DEF KnowsUser
<1>5. task[c].nick # NoName
  BY <1>2, ConstantsAssumption
<1> QED BY <1>1, <1>2, <1>3, <1>4, <1>5, Zenon DEF Inserted

(* It goes on to a stage for which the database is ready.                  *)
LEMMA LateMove ==
  ASSUME IInv, NEW c \in Client, task[c].at \in Late,
         NEW a \in Account, a = task[c].account,
         NEW stage \in Late \ {"row", "ship"}, GoTo(c, stage),
         UNCHANGED <<auth, answer, device, accountOf, unchecked>>,
         DatabaseTypes', Grows,
         \A b \in Account : name'[b] # NoName =>
           name[b] # NoName \/ \E u \in User : accountOf[u] = b,
         Given(stage, pieces'[a]), name'[a] # NoName,
         stage \in Armed => Cardinality(task[c].mine) = Starters,
         stage \in {"fleet11", "save"} => FleetIsOwned(a)'
  PROVE  StepIsSound(c)
<1>1. /\ ClientTypes /\ DatabaseTypes /\ stage \in Stage
      /\ OneUserPerAccount /\ DeviceAgreesWithUser
      /\ Acknowledged(answer[c], auth[c])
  BY DEF IInv, TypeOK, Late, Stage, Sound
<1>2. /\ task' \in [Client -> Request]
      /\ task'[c].at = stage /\ task'[c].nick = task[c].nick
      /\ task'[c].account = task[c].account
      /\ task'[c].next = task[c].next /\ task'[c].mine = task[c].mine
      /\ \A d \in Client \ {c} : task'[d] = task[d]
  BY <1>1, Gone
<1>3. ClientTypes' /\ OnlyOf(c)
  BY <1>1, <1>2, Zenon DEF ClientTypes, OnlyOf
<1>4. OneUserPerAccount' /\ DeviceAgreesWithUser'
  BY <1>1, OwnersStay, DeviceStays
<1>5. task[c].account # 0 /\ task[c].account \in Account
  BY LateIs, BoundsAre DEF Account
<1>6. KnowsUser(task[c], auth[c])'
  <2>1. stage \notin Early /\ stage # "ship" /\ stage \in Late
    BY DEF Early, Late, Chosen
  <2> QED BY <1>2, <1>5, <2>1, LateIs DEF KnowsUser
<1>7. Inserted(task[c], auth[c])'
  <2>0. task'[c].account = a
    BY <1>2
  <2>1. task'[c].mine \subseteq Fitted(a)'
    <3>1. task[c].mine \subseteq Fitted(a)
      BY LateIs
    <3>2. Fitted(a) \subseteq Fitted(a)'
      BY Zenon DEF Grows
    <3> QED BY <1>2, <3>1, <3>2
  <2>2. /\ accountOf'[auth'[c]] = task'[c].account
        /\ Given(task'[c].at, pieces'[task'[c].account])
        /\ name'[task'[c].account] # NoName
    BY <1>2, LateIs
  <2>3. task'[c].mine \subseteq Fitted(task[c].account)'
    BY <2>0, <2>1, Zenon DEF Fitted, Owned
  <2>4. task'[c].at \in {"fleet11", "save"} => FleetIsOwned(task[c].account)'
    BY <1>2, <2>0, Zenon DEF FleetIsOwned, Fitted, Owned
  <2> QED BY <2>2, <2>3, <2>4, Zenon DEF Inserted
<1>8. IsOwners(task[c], auth[c])'
  BY <1>2 DEF IsOwners, Late
<1>9. Acknowledged(answer[c], auth[c])'
  BY <1>1, AcknowledgedStays
<1> QED BY <1>3, <1>4, <1>6, <1>7, <1>8, <1>9, Zenon DEF StepIsSound, Sound

(* The commander's row, for an account that has its user.                  *)
LEMMA InsertCommanderSound ==
  ASSUME IInv, NEW c \in Client, InsertCommander(c)
  PROVE  StepIsSound(c)
<1>0. PICK a : a = task[c].account
  OBVIOUS
<1>1. /\ task[c].at = "row" /\ GoTo(c, "attires")
      /\ name' = [name EXCEPT ![a] = task[c].nick]
      /\ UNCHANGED <<accountOf, ships, equipped, bare, unchecked, fleet, pieces,
                     device, sequence, auth, answer>>
  BY <1>0, Zenon DEF InsertCommander, At, Stay, excuses
<1>2. "row" \in Late /\ "attires" \in Late \ {"row", "ship"} /\ "attires" \notin Armed
  BY DEF Late, Armed
<1>3. /\ auth[c] \in User /\ a \in Account /\ accountOf[auth[c]] = a
      /\ task[c].nick \in Name /\ task[c].nick # NoName
  BY <1>0, <1>1, <1>2, LateIs
<1>4. DatabaseTypes
  BY ClientIs
<1>5. /\ name \in [Account -> Name \cup {NoName}]
      /\ name' \in [Account -> Name \cup {NoName}] /\ name'[a] # NoName
      /\ \A b \in Account : b # a => name'[b] = name[b]
  BY <1>1, <1>3, <1>4 DEF DatabaseTypes
<1>6. DatabaseTypes'
  BY <1>1, <1>4, <1>5, Zenon DEF DatabaseTypes
<1>7. Grows
  BY <1>1, <1>4, <1>5, GrowsIf
<1>8. \A b \in Account : name'[b] # NoName =>
        name[b] # NoName \/ \E u \in User : accountOf[u] = b
  BY <1>3, <1>5, Zenon
<1>9. Given("attires", pieces'[a])
  BY DEF Given, Armed
<1> QED BY <1>1, <1>2, <1>5, <1>6, <1>7, <1>8, <1>9, <1>0, <1>3, LateMove

(* add_item, the attires, the secretary and the second fleet add a piece.  *)
LEMMA GiveSound ==
  ASSUME IInv, NEW c \in Client, task[c].at \in Late \ {"row"},
         NEW piece \in Piece, Give(c, piece),
         NEW stage \in Late \ {"row", "ship"}, GoTo(c, stage),
         UNCHANGED <<accountOf, name, ships, equipped, bare, unchecked, fleet,
                     device, sequence, auth, answer>>,
         Given(stage, pieces[task[c].account] \cup {piece}),
         stage \in Armed => task[c].at \in Armed,
         stage \in {"fleet11", "save"} => task[c].at \in {"fleet11", "save"}
  PROVE  StepIsSound(c)
<1>0. PICK a : a = task[c].account
  OBVIOUS
<1>1. /\ a \in Account /\ name[a] # NoName /\ DatabaseTypes
      /\ stage \in Armed => Cardinality(task[c].mine) = Starters
      /\ stage \in {"fleet11", "save"} => FleetIsOwned(a)
  <2>1. task[c].at \in Late
    OBVIOUS
  <2>2. /\ a \in Account /\ name[a] # NoName /\ DatabaseTypes
        /\ stage \in Armed => Cardinality(task[c].mine) = Starters
    BY <1>0, <2>1, LateIs, ClientIs
  <2>3. stage \in {"fleet11", "save"} => FleetIsOwned(task[c].account)
    BY <2>1, LateIs
  <2> QED BY <1>0, <2>2, <2>3
<1>2. pieces' = [pieces EXCEPT ![a] = @ \cup {piece}]
  BY <1>0 DEF Give
<1>3. /\ pieces' \in [Account -> SUBSET Piece] /\ pieces'[a] = pieces[a] \cup {piece}
      /\ \A b \in Account : pieces[b] \subseteq pieces'[b]
  BY <1>1, <1>2 DEF DatabaseTypes
<1>4. DatabaseTypes'
  BY <1>1, <1>3, Zenon DEF DatabaseTypes
<1>5. Grows
  BY <1>1, <1>3, GrowsIf
<1>6. Given(stage, pieces'[a])
  BY <1>0, <1>3
<1>7. stage \in {"fleet11", "save"} => FleetIsOwned(a)'
  BY <1>1, <1>5, Zenon DEF Grows
<1>8. \A b \in Account : name'[b] # NoName =>
        name[b] # NoName \/ \E u \in User : accountOf[u] = b
  OBVIOUS
<1>9. task[c].at \in Late /\ name'[a] # NoName
  BY <1>1
<1> QED BY <1>0, <1>1, <1>4, <1>5, <1>6, <1>7, <1>8, <1>9, LateMove

(* The four statements that give one piece each.                           *)
LEMMA PiecesSound ==
  ASSUME IInv, NEW c \in Client,
         GrantAttires(c) \/ FillPurse(c) \/ SetSecretary(c) \/ InsertFleet11(c)
  PROVE  StepIsSound(c)
<1> DEFINE had == pieces[task[c].account]
<1>0. task[c].at \in Late => Given(task[c].at, had)
  BY LateIs
<1>1. CASE GrantAttires(c)
  <2>1. /\ task[c].at = "attires" /\ Give(c, "attires") /\ GoTo(c, "max")
        /\ UNCHANGED <<accountOf, name, ships, equipped, bare, unchecked, fleet,
                       device, sequence, auth, answer>>
    BY <1>1, Zenon DEF GrantAttires, At, Stay, excuses
  <2>2. /\ task[c].at \in Late \ {"row"} /\ "max" \in Late \ {"row", "ship"}
        /\ "max" \notin Armed /\ "attires" \in Piece
    BY <2>1 DEF Late, Armed, Piece
  <2>3. Given("max", had \cup {"attires"})
    BY DEF Given, Armed
  <2>4. "max" \notin {"fleet11", "save"}
    OBVIOUS
  <2> QED BY <2>1, <2>2, <2>3, <2>4, GiveSound
<1>2. CASE FillPurse(c)
  <2>1. /\ task[c].at = "purse" /\ Give(c, "purse") /\ GoTo(c, "secretary")
        /\ UNCHANGED <<accountOf, name, ships, equipped, bare, unchecked, fleet,
                       device, sequence, auth, answer>>
    BY <1>2, Zenon DEF FillPurse, At, Stay, excuses
  <2>2. /\ task[c].at \in Late \ {"row"} /\ "secretary" \in Late \ {"row", "ship"}
        /\ task[c].at \in Armed /\ "purse" \in Piece
    BY <2>1 DEF Late, Armed, Piece
  <2>3. Given("secretary", had \cup {"purse"})
    BY <1>0, <2>1, <2>2 DEF Given, Armed
  <2>4. "secretary" \notin {"fleet11", "save"}
    OBVIOUS
  <2> QED BY <2>1, <2>2, <2>3, <2>4, GiveSound
<1>3. CASE SetSecretary(c)
  <2>1. /\ task[c].at = "secretary" /\ Give(c, "secretary") /\ GoTo(c, "fleet1")
        /\ UNCHANGED <<accountOf, name, ships, equipped, bare, unchecked, fleet,
                       device, sequence, auth, answer>>
    BY <1>3, Zenon DEF SetSecretary, At, Stay, excuses
  <2>2. /\ task[c].at \in Late \ {"row"} /\ "fleet1" \in Late \ {"row", "ship"}
        /\ task[c].at \in Armed /\ "secretary" \in Piece
    BY <2>1 DEF Late, Armed, Piece
  <2>3. Given("fleet1", had \cup {"secretary"})
    BY <1>0, <2>1, <2>2 DEF Given, Armed
  <2>4. "fleet1" \notin {"fleet11", "save"}
    OBVIOUS
  <2> QED BY <2>1, <2>2, <2>3, <2>4, GiveSound
<1>4. CASE InsertFleet11(c)
  <2>1. /\ task[c].at = "fleet11" /\ Give(c, "fleet11") /\ GoTo(c, "save")
        /\ UNCHANGED <<accountOf, name, ships, equipped, bare, unchecked, fleet,
                       device, sequence, auth, answer>>
    BY <1>4, Zenon DEF InsertFleet11, At, Stay, excuses
  <2>2. /\ task[c].at \in Late \ {"row"} /\ "save" \in Late \ {"row", "ship"}
        /\ task[c].at \in Armed /\ "fleet11" \in Piece
    BY <2>1 DEF Late, Armed, Piece
  <2>3. Given("save", had \cup {"fleet11"})
    BY <1>0, <2>1, <2>2 DEF Given, Armed
  <2>4. task[c].at \in {"fleet11", "save"}
    BY <2>1
  <2> QED BY <2>1, <2>2, <2>3, <2>4, GiveSound
<1> QED BY <1>1, <1>2, <1>3, <1>4

(* The fleet is made of the ships the request has inserted.                *)
LEMMA InsertFleetSound ==
  ASSUME IInv, NEW c \in Client, InsertFleet(c)
  PROVE  StepIsSound(c)
<1>0. PICK a : a = task[c].account
  OBVIOUS
<1>1. /\ task[c].at = "fleet1" /\ GoTo(c, "fleet11")
      /\ pieces' = [pieces EXCEPT ![a] = @ \cup {"fleet1"}]
      /\ fleet' = [fleet EXCEPT ![a] = task[c].mine]
      /\ UNCHANGED <<accountOf, name, ships, equipped, bare, unchecked, device,
                     sequence, auth, answer>>
  BY <1>0, Zenon DEF InsertFleet, At, Stay, excuses, Give
<1>2. /\ "fleet1" \in Late /\ "fleet11" \in Late \ {"row", "ship"}
      /\ "fleet1" \in Armed /\ "fleet1" \in Piece /\ "fleet1" # "row"
  BY DEF Late, Armed, Piece
<1>3. /\ a \in Account /\ name[a] # NoName /\ task[c].mine \subseteq Fitted(a)
      /\ task[c].mine \subseteq Ship /\ Cardinality(task[c].mine) = Starters
      /\ Given("fleet1", pieces[a])
  BY <1>0, <1>1, <1>2, LateIs
<1>4. DatabaseTypes
  BY ClientIs
<1>5. /\ pieces' \in [Account -> SUBSET Piece] /\ pieces'[a] = pieces[a] \cup {"fleet1"}
      /\ \A b \in Account : pieces[b] \subseteq pieces'[b]
  BY <1>1, <1>2, <1>3, <1>4 DEF DatabaseTypes
<1>6. /\ fleet' \in [Account -> SUBSET Ship] /\ fleet'[a] = task[c].mine
      /\ \A b \in Account : b # a => fleet'[b] = fleet[b]
  BY <1>1, <1>3, <1>4 DEF DatabaseTypes
<1>7. DatabaseTypes'
  BY <1>1, <1>4, <1>5, <1>6, Zenon DEF DatabaseTypes
<1>8. Fitted(a)' = Fitted(a)
  BY <1>1 DEF Owned, Fitted
<1>9. FleetIsOwned(a)'
  BY <1>3, <1>6, <1>8 DEF FleetIsOwned
<1>10. \A b \in Account : fleet'[b] = fleet[b] \/ FleetIsOwned(b)'
  BY <1>6, <1>9, Zenon
<1>11. Grows
  BY <1>1, <1>4, <1>5, <1>10, GrowsIf
<1>12. Given("fleet11", pieces'[a])
  BY <1>3, <1>5 DEF Given, Armed
<1>13. name'[a] # NoName
       /\ \A b \in Account : name'[b] # NoName =>
            name[b] # NoName \/ \E u \in User : accountOf[u] = b
  BY <1>1, <1>3
<1> QED BY <1>0, <1>1, <1>2, <1>3, <1>7, <1>9, <1>11, <1>12, <1>13, LateMove

(* What the request knows once a ship is inserted.                         *)
WithShips(r, mine, stage) == [r EXCEPT !.mine = mine, !.next = 0, !.at = stage]

(* It stays a request, with the ships and the stage it is given.           *)
LEMMA ShipAdded ==
  ASSUME NEW r \in Request, NEW mine \in SUBSET Ship, NEW stage \in Stage,
         0 \in 0..MaxShip
  PROVE  /\ WithShips(r, mine, stage) \in Request
         /\ WithShips(r, mine, stage).at = stage
         /\ WithShips(r, mine, stage).nick = r.nick
         /\ WithShips(r, mine, stage).account = r.account
         /\ WithShips(r, mine, stage).mine = mine
BY DEF Request, WithShips

(* A ship is inserted under an id that no row has.                         *)
LEMMA ShipInserted ==
  ASSUME DatabaseTypes, NEW a \in Account, NEW s \in Ship, s \notin Rows,
         ships' = [ships EXCEPT ![s] = a],
         equipped' \in SUBSET Ship,
         equipped \subseteq equipped', bare \subseteq bare',
         UNCHANGED <<accountOf, name, fleet, pieces, device, sequence>>
  PROVE  /\ DatabaseTypes' /\ Grows /\ s \in Owned(a)'
<1>1. a \in 0..MaxAccount /\ a # 0
  BY BoundsAre DEF Account
<1>2. /\ ships' \in [Ship -> 0..MaxAccount] /\ ships'[s] = a
      /\ \A t \in Ship : ships[t] # 0 => ships'[t] = ships[t]
  BY <1>1 DEF DatabaseTypes, Rows
<1>3. DatabaseTypes'
  BY <1>2, Zenon DEF DatabaseTypes
<1>4. Grows
  BY <1>2, GrowsIf
<1> QED BY <1>2, <1>3, <1>4 DEF Owned

(* The ship is the request's own, or the request ends with an error.       *)
LEMMA InsertShipSound ==
  ASSUME IInv, NEW c \in Client, InsertShip(c)
  PROVE  StepIsSound(c)
<1>0. /\ task[c].at = "ship" /\ "ship" \in Late
      /\ UNCHANGED <<accountOf, name, fleet, pieces, device, sequence, auth,
                     unchecked>>
  BY DEF InsertShip, At, Late
<1>1. CASE Reply(c, "error") /\ UNCHANGED <<ships, equipped, bare>>
  <2>1. UNCHANGED <<database, excuses>>
    BY <1>0, <1>1 DEF database, excuses
  <2> QED BY <1>0, <1>1, <2>1, ClientIs, QuietReply DEF Answer
<1>2. CASE task[c].next \notin Rows
  <2>0. PICK a, s : a = task[c].account /\ s = task[c].next
    OBVIOUS
  <2> DEFINE mine == task[c].mine \cup {s}
             stage == IF Cardinality(mine) = Starters THEN "purse" ELSE "max"
             r == WithShips(task[c], mine, stage)
  <2>1. /\ ships' = [ships EXCEPT ![s] = a] /\ UNCHANGED answer
        /\ task' = [task EXCEPT ![c] = r] /\ Equip(s)
    BY <1>2, <2>0, Zenon DEF InsertShip, WithShips
  <2>2. /\ auth[c] \in User /\ a \in Account /\ accountOf[auth[c]] = a
        /\ task[c].nick \in Name /\ task[c].mine \subseteq Fitted(a)
        /\ task[c].mine \subseteq Ship /\ Given("ship", pieces[a])
        /\ name[a] # NoName
    BY <1>0, <2>0, LateIs
  <2>3. s \in Ship
    <3>1. task[c].next # 0 /\ task[c] \in Request
      BY <1>0, ClientIs DEF KnowsUser
    <3> QED BY <2>0, <3>1, RequestFields
  <2>4. /\ DatabaseTypes' /\ Grows /\ s \in Owned(a)'
        /\ s \in Fitted(a)'
    <3>1. equipped \in SUBSET Ship
      BY ClientIs DEF DatabaseTypes
    <3>2. /\ equipped' \in SUBSET Ship /\ s \in equipped' \cup bare'
          /\ equipped \subseteq equipped' /\ bare \subseteq bare'
      BY <2>1, <2>3, <3>1 DEF Equip
    <3>3. DatabaseTypes' /\ Grows /\ s \in Owned(a)'
      BY <1>0, <1>2, <2>0, <2>1, <2>2, <2>3, <3>2, ClientIs, ShipInserted
    <3> QED BY <3>2, <3>3, Zenon DEF Fitted
  <2>5. mine \subseteq Fitted(a)' /\ mine \subseteq Ship
    <3>1. Fitted(a) \subseteq Fitted(a)'
      BY <2>2, <2>4, Zenon DEF Grows
    <3> QED BY <2>2, <2>3, <2>4, <3>1
  <2>6. /\ stage \in {"purse", "max"} /\ stage \in Stage
        /\ stage = "purse" => Cardinality(mine) = Starters
    BY DEF Stage
  <2> HIDE DEF mine, stage
  <2>7. /\ r \in Request /\ r.at = stage /\ r.nick = task[c].nick
        /\ r.account = a /\ r.mine = mine
    <3>1. 0 \in 0..MaxShip /\ mine \in SUBSET Ship /\ stage \in Stage
      BY <2>5, <2>6, BoundsAre
    <3>2. task[c] \in Request
      BY ClientIs
    <3> QED BY <2>0, <3>1, <3>2, ShipAdded
  <2> HIDE DEF r
  <2>8. ClientTypes
    BY ClientIs
  <2>9. /\ task' \in [Client -> Request] /\ task'[c] = r
        /\ \A d \in Client \ {c} : task'[d] = task[d]
    BY <2>1, <2>7, <2>8, TaskSet
  <2>10. ClientTypes' /\ OnlyOf(c)
    BY <1>0, <2>1, <2>8, <2>9, Zenon DEF ClientTypes, OnlyOf
  <2>11. OneUserPerAccount' /\ DeviceAgreesWithUser'
    <3>1. OneUserPerAccount /\ DeviceAgreesWithUser /\ DatabaseTypes
      BY DEF IInv, TypeOK
    <3>2. OneUserPerAccount'
      BY <1>0, <3>1, OwnersStay
    <3> QED BY <1>0, <2>4, <3>1, <3>2, DeviceStays
  <2>12. KnowsUser(task[c], auth[c])'
    <3>1. a # 0
      BY <2>2, BoundsAre DEF Account
    <3>2. /\ stage \notin Early /\ stage # "ship" /\ stage \in Late
          /\ stage \in Armed => stage = "purse"
      BY <2>6 DEF Early, Late, Chosen, Armed
    <3> QED BY <1>0, <2>2, <2>6, <2>7, <2>9, <3>1, <3>2 DEF KnowsUser
  <2>13. Inserted(task[c], auth[c])'
    <3>1. Given(stage, pieces'[a]) /\ stage \notin {"fleet11", "save"}
      BY <1>0, <2>2, <2>6 DEF Given, Armed
    <3>2. /\ task'[c].at = stage /\ task'[c].account = a /\ task'[c].mine = mine
          /\ accountOf'[auth'[c]] = a /\ name'[a] # NoName
      BY <1>0, <2>2, <2>7, <2>9
    <3>3. task'[c].mine \subseteq Fitted(task[c].account)'
      BY <2>5, <3>2, Zenon DEF Fitted, Owned
    <3> QED BY <3>1, <3>2, <3>3, Zenon DEF Inserted
  <2>14. IsOwners(task[c], auth[c])'
    BY <2>6, <2>7, <2>9 DEF IsOwners
  <2>15. Acknowledged(answer[c], auth[c])'
    BY <1>0, <2>1, <2>4, <2>8, ClientIs, AcknowledgedStays DEF IInv, Sound
  <2> QED BY <2>4, <2>10, <2>11, <2>12, <2>13, <2>14, <2>15, Zenon
             DEF StepIsSound, Sound
<1> QED BY <1>1, <1>2, Zenon DEF InsertShip

(* A request that goes back for another id.                                *)
OnceMore(r) == [r EXCEPT !.tries = @ + 1, !.at = "id"]

(* It stays a request while attempts are left.                             *)
LEMMA TriedAgain ==
  ASSUME NEW r \in Request, r.tries + 1 \in 0..(Attempts - 1)
  PROVE  /\ OnceMore(r) \in Request /\ OnceMore(r).at = "id"
         /\ OnceMore(r).nick = r.nick /\ OnceMore(r).mine = r.mine
BY DEF Request, Stage, OnceMore

(* The row of yostarus_maps: a conflict sends the request back for another *)
(* id, or ends it; without one the user has its account.                   *)
LEMMA InsertMapSound ==
  ASSUME IInv, NEW c \in Client, InsertMap(c)
  PROVE  StepIsSound(c)
<1>0. /\ task[c].at = "map" /\ "map" \in Early /\ auth[c] \in User
      /\ task[c].account # 0 /\ task[c].nick \in Name /\ task[c].mine = {}
      /\ UNCHANGED <<name, ships, equipped, bare, unchecked, fleet, pieces,
                     device, sequence, auth>>
  <2>1. task[c].at = "map" /\ "map" \in Early
    BY DEF InsertMap, At, Early
  <2>2. /\ auth[c] \in User /\ task[c].account # 0 /\ task[c].nick \in Name
        /\ task[c].mine = {}
    BY <2>1, ClientIs DEF KnowsUser
  <2> QED BY <2>1, <2>2, Zenon DEF InsertMap, excuses
<1>1. CASE Reply(c, "error") /\ UNCHANGED accountOf
  <2>1. UNCHANGED <<database, excuses>>
    BY <1>0, <1>1 DEF database, excuses
  <2> QED BY <1>0, <1>1, <2>1, ClientIs, QuietReply DEF Answer
<1>2. CASE /\ task[c].tries + 1 < Attempts
           /\ task' = [task EXCEPT ![c] = OnceMore(task[c])]
           /\ UNCHANGED <<accountOf, answer>>
  <2> DEFINE r == OnceMore(task[c])
  <2>1. task[c] \in Request
    BY ClientIs
  <2>2. task[c].tries + 1 \in 0..(Attempts - 1)
    <3>1. task[c].tries \in 0..(Attempts - 1)
      BY <2>1, RequestFields
    <3> QED BY <1>2, <3>1, BoundsAre
  <2>3. /\ r \in Request /\ r.at = "id" /\ r.nick = task[c].nick
        /\ r.mine = task[c].mine
    BY <2>1, <2>2, TriedAgain
  <2>4. task' = [task EXCEPT ![c] = r]
    BY <1>2
  <2> HIDE DEF r
  <2>5. KnowsUser(r, auth[c])
    BY <1>0, <2>3 DEF KnowsUser, Early, Late, Chosen, Armed
  <2>6. Inserted(r, auth[c]) /\ IsOwners(r, auth[c])
    BY <2>3 DEF Inserted, IsOwners, Late
  <2>7. PICK u : u = auth[c]
    OBVIOUS
  <2> QED BY <1>0, <1>2, <2>3, <2>4, <2>5, <2>6, <2>7, ClientIs, QuietMove
<1>3. CASE ~Taken(c) /\ GoTo(c, "row") /\ UNCHANGED answer
           /\ accountOf' = [accountOf EXCEPT ![auth[c]] = task[c].account]
  <2>1. PICK u \in User, a \in Account : u = auth[c] /\ a = task[c].account
    BY <1>0, ClientIs, RequestFields
  <2>2. /\ accountOf[u] = 0 /\ \A v \in User : accountOf[v] # a
        /\ accountOf' = [accountOf EXCEPT ![u] = a]
    BY <1>3, <2>1 DEF Taken
  <2>3. /\ DatabaseTypes /\ ClientTypes /\ OneUserPerAccount
        /\ DeviceAgreesWithUser /\ Acknowledged(answer[c], auth[c])
    BY DEF IInv, TypeOK, Sound
  <2>4. /\ accountOf' \in [User -> 0..MaxAccount] /\ accountOf'[u] = a
        /\ \A v \in User : v # u => accountOf'[v] = accountOf[v]
    BY <2>2, <2>3, BoundsAre DEF DatabaseTypes, Account
  <2>5. DatabaseTypes'
    BY <1>0, <2>3, <2>4, Zenon DEF DatabaseTypes
  <2>6. Grows
    BY <1>0, <2>2, <2>3, <2>4, GrowsIf
  <2>7. OneUserPerAccount'
    <3>1. \A v, w \in User : v # w => accountOf'[v] = 0
                                      \/ accountOf'[v] # accountOf'[w]
      BY <2>2, <2>3, <2>4 DEF OneUserPerAccount
    <3>2. ASSUME NEW b \in Account, name'[b] # NoName
          PROVE  \E v \in User : accountOf'[v] = b
      <4>1. PICK v \in User : accountOf[v] = b
        BY <1>0, <2>3, <3>2 DEF OneUserPerAccount
      <4>2. v # u
        BY <2>2, <4>1, BoundsAre DEF Account
      <4> QED BY <2>4, <4>1, <4>2
    <3> QED BY <3>1, <3>2, Zenon DEF OneUserPerAccount
  <2>8. DeviceAgreesWithUser'
    BY <1>0, <2>3, <2>6, DeviceStays
  <2>9. /\ task' \in [Client -> Request]
        /\ task'[c].at = "row" /\ task'[c].nick = task[c].nick
        /\ task'[c].account = task[c].account /\ task'[c].mine = task[c].mine
        /\ \A d \in Client \ {c} : task'[d] = task[d]
    <3>1. "row" \in Stage
      BY DEF Stage
    <3> QED BY <1>3, <2>3, <3>1, Gone
  <2>10. ClientTypes' /\ OnlyOf(c)
    BY <1>0, <1>3, <2>3, <2>9, Zenon DEF ClientTypes, OnlyOf
  <2>11. KnowsUser(task[c], auth[c])'
    BY <1>0, <2>9 DEF KnowsUser, Early, Late, Chosen, Armed
  <2>12. Inserted(task[c], auth[c])'
    <3>1. task'[c].mine = {} /\ accountOf'[auth'[c]] = task'[c].account
      BY <1>0, <2>1, <2>4, <2>9
    <3>2. Given("row", pieces'[task'[c].account])
      BY DEF Given, Armed
    <3>3. task'[c].mine \subseteq Fitted(task[c].account)'
      BY <3>1
    <3> QED BY <2>9, <3>1, <3>2, <3>3 DEF Inserted
  <2>13. IsOwners(task[c], auth[c])'
    BY <2>9 DEF IsOwners
  <2>14. Acknowledged(answer[c], auth[c])'
    BY <1>0, <1>3, <2>3, <2>5, <2>6, AcknowledgedStays
  <2> QED BY <2>5, <2>6, <2>7, <2>8, <2>10, <2>11, <2>12, <2>13, <2>14, Zenon
             DEF StepIsSound, Sound
<1> QED BY <1>1, <1>2, <1>3, Zenon DEF InsertMap, Retry, OnceMore

-----------------------------------------------------------------------------
(* The steps that bind a device.                                           *)

(* A device may be bound to a user's own account, or to none yet; or it is *)
(* excused.                                                                *)
LEMMA DeviceSaved ==
  ASSUME DatabaseTypes, DeviceAgreesWithUser, OneUserPerAccount,
         ConstantsAssumption, NEW c \in Client, auth[c] \in User,
         NEW a \in 0..MaxAccount,
         \/ /\ unchecked' = unchecked \ {DeviceOf[c]}
            /\ a = 0 \/ accountOf[auth[c]] = a
         \/ unchecked' = unchecked \cup {DeviceOf[c]},
         SaveDevice(c, a),
         UNCHANGED <<accountOf, name, ships, equipped, bare, fleet, pieces,
                     sequence>>
  PROVE  DatabaseTypes' /\ Grows /\ OneUserPerAccount' /\ DeviceAgreesWithUser'
<1>1. PICK row : row = [user |-> auth[c], account |-> a]
  OBVIOUS
<1>2. row \in DeviceRow /\ row.user = auth[c] /\ row.account = a
  BY <1>1 DEF DeviceRow
<1>3. DeviceOf[c] \in Device /\ device \in [Device -> DeviceRow]
  BY DEF ConstantsAssumption, DatabaseTypes
<1>4. device' = [device EXCEPT ![DeviceOf[c]] = row]
  BY <1>1, Zenon DEF SaveDevice
<1>5. /\ device' \in [Device -> DeviceRow] /\ device'[DeviceOf[c]] = row
      /\ \A d \in Device : d # DeviceOf[c] => device'[d] = device[d]
  BY <1>2, <1>3, <1>4
<1>6. DatabaseTypes'
  BY <1>5, Zenon DEF DatabaseTypes
<1>7. Grows
  BY GrowsIf
<1>8. OneUserPerAccount'
  BY OwnersStay
<1>9. auth[c] # NoUser
  BY DEF ConstantsAssumption
<1>10. DeviceAgreesWithUser'
  <2> SUFFICES ASSUME NEW d \in Device \ unchecked', device'[d].account # 0
               PROVE  /\ device'[d].user # NoUser
                      /\ accountOf[device'[d].user] = device'[d].account
    BY Zenon DEF DeviceAgreesWithUser
  <2>1. CASE d = DeviceOf[c]
    <3>1. a = 0 \/ accountOf[auth[c]] = a
      BY <2>1
    <3> QED BY <1>2, <1>5, <1>9, <2>1, <3>1
  <2>2. CASE d # DeviceOf[c]
    <3>1. d \in Device \ unchecked /\ device'[d] = device[d]
      BY <1>5, <2>2
    <3> QED BY <3>1, Zenon DEF DeviceAgreesWithUser
  <2> QED BY <2>1, <2>2
<1> QED BY <1>6, <1>7, <1>8, <1>10

(* The user is told of an account that is complete.                        *)
LEMMA BindDeviceSound ==
  ASSUME IInv, NEW c \in Client, BindDevice(c)
  PROVE  StepIsSound(c)
<1>0. PICK a : a = task[c].account
  OBVIOUS
<1>1. /\ task[c].at = "save" /\ SaveDevice(c, a) /\ Reply(c, "created")
      /\ unchecked' = unchecked \ {DeviceOf[c]}
      /\ UNCHANGED <<accountOf, name, ships, equipped, bare, fleet, pieces,
                     sequence, auth>>
  BY <1>0, Zenon DEF BindDevice, At
<1>2. "save" \in Late /\ "save" \in Armed /\ "save" # "row"
  BY DEF Late, Armed
<1>3. /\ auth[c] \in User /\ a \in Account /\ accountOf[auth[c]] = a
      /\ Given("save", pieces[a]) /\ name[a] # NoName
  BY <1>0, <1>1, <1>2, LateIs
<1>4. FleetIsOwned(a)
  <2>1. FleetIsOwned(task[c].account)
    BY <1>1, <1>2, LateIs
  <2> QED BY <1>0, <2>1
<1>5. /\ DatabaseTypes /\ ClientTypes /\ OneUserPerAccount
      /\ DeviceAgreesWithUser
  BY DEF IInv, TypeOK
<1>6. a \in 0..MaxAccount /\ a # 0
  BY <1>3, BoundsAre DEF Account
<1>7. DatabaseTypes' /\ Grows /\ OneUserPerAccount' /\ DeviceAgreesWithUser'
  BY <1>1, <1>3, <1>5, <1>6, DeviceSaved, ConstantsAssumption
<1>8. /\ task' \in [Client -> Request] /\ answer' \in [Client -> Answer]
      /\ task'[c] = NoTask /\ answer'[c] = "created"
      /\ \A d \in Client \ {c} : /\ task'[d] = task[d]
                                 /\ answer'[d] = answer[d]
  BY <1>1, <1>5, Replied DEF Answer
<1>9. ClientTypes' /\ OnlyOf(c)
  BY <1>1, <1>5, <1>8, Zenon DEF ClientTypes, OnlyOf, Answer
<1>10. KnowsUser(task[c], auth[c])' /\ Inserted(task[c], auth[c])'
       /\ IsOwners(task[c], auth[c])'
  BY <1>8, NoTaskIs DEF KnowsUser, Inserted, IsOwners, Early, Late, Chosen, Armed
<1>11. Acknowledged(answer[c], auth[c])'
  <2>1. pieces[a] = Piece
    <3>1. pieces[a] \subseteq Piece
      BY <1>3, <1>5 DEF DatabaseTypes
    <3> QED BY <1>3, <3>1 DEF Given, Armed, Piece
  <2>2. Complete(a)
    BY <1>3, <1>4, <2>1, Zenon DEF Complete, FleetIsOwned, Fitted
  <2>3. Complete(a)'
    BY <1>3, <1>5, <1>7, <2>2, CompleteStays
  <2>4. accountOf'[auth'[c]] = a /\ auth'[c] # NoUser
    BY <1>1, <1>3, ConstantsAssumption
  <2>5. Complete(accountOf[auth[c]])'
    BY <2>3, <2>4, Zenon DEF Complete, Owned
  <2> QED BY <1>6, <2>4, <2>5, Zenon DEF Acknowledged
<1> QED BY <1>7, <1>9, <1>10, <1>11, Zenon DEF StepIsSound, Sound

(* A login binds its device to the account of its user, or to none, or     *)
(* without having checked.                                                 *)
Binds(c, a) ==
  /\ auth[c] \in User /\ SaveDevice(c, a)
  /\ \/ /\ unchecked' = unchecked \ {DeviceOf[c]}
        /\ a = 0 \/ accountOf[auth[c]] = a
     \/ unchecked' = unchecked \cup {DeviceOf[c]}

(* A login that binds its device, or leaves it, and ends.                  *)
LEMMA SavedAndReplied ==
  ASSUME IInv, NEW c \in Client, NEW what \in Answer \ {"created"},
         Reply(c, what), UNCHANGED <<accountOf, name, ships, equipped, bare,
                                     fleet, pieces, sequence, auth>>,
         \/ UNCHANGED <<device, unchecked>>
         \/ \E a \in 0..MaxAccount : Binds(c, a)
  PROVE  StepIsSound(c)
<1>1. CASE UNCHANGED <<device, unchecked>>
  <2>1. UNCHANGED <<database, excuses>>
    BY <1>1 DEF database, excuses
  <2> QED BY <2>1, ClientIs, QuietReply
<1>2. CASE \E a \in 0..MaxAccount : Binds(c, a)
  <2>1. /\ DatabaseTypes /\ ClientTypes /\ OneUserPerAccount
        /\ DeviceAgreesWithUser
    BY DEF IInv, TypeOK
  <2>2. DatabaseTypes' /\ Grows /\ OneUserPerAccount' /\ DeviceAgreesWithUser'
    BY <1>2, <2>1, DeviceSaved, ConstantsAssumption DEF Binds
  <2>3. /\ task' \in [Client -> Request] /\ answer' \in [Client -> Answer]
        /\ \A d \in Client \ {c} : /\ task'[d] = task[d]
                                   /\ answer'[d] = answer[d]
    BY <2>1, Replied
  <2>4. ClientTypes' /\ OnlyOf(c)
    BY <2>1, <2>3, Zenon DEF ClientTypes, OnlyOf, Answer
  <2>5. Sound(c)'
    BY <2>1, RepliedIsSound
  <2> QED BY <2>2, <2>4, <2>5, Zenon DEF StepIsSound
<1> QED BY <1>1, <1>2

(* A new player's device is bound to the user, without an account.         *)
LEMMA JoinSavesNewSound ==
  ASSUME IInv, NEW c \in Client, JoinSavesNew(c)
  PROVE  StepIsSound(c)
<1>1. /\ task[c].at = "l-new" /\ SaveDevice(c, 0) /\ Reply(c, "new player")
      /\ unchecked' = unchecked \ {DeviceOf[c]}
      /\ UNCHANGED <<accountOf, name, ships, equipped, bare, fleet, pieces,
                     sequence, auth>>
  BY Zenon DEF JoinSavesNew, At
<1>2. auth[c] \in User /\ 0 \in 0..MaxAccount
  <2>1. KnowsUser(task[c], auth[c])
    BY ClientIs
  <2>2. auth[c] \in User
    BY <1>1, <2>1 DEF KnowsUser
  <2> QED BY <2>2, BoundsAre
<1>3. Binds(c, 0)
  BY <1>1, <1>2 DEF Binds
<1> QED BY <1>1, <1>2, <1>3, SavedAndReplied DEF Answer

(* Whoever is let in owns the commander, or its device is excused.         *)
LEMMA JoinSavesSound ==
  ASSUME IInv, NEW c \in Client, JoinSaves(c)
  PROVE  StepIsSound(c)
<1>0. PICK a : a = task[c].account
  OBVIOUS
<1>1. /\ task[c].at = "l-save" \/ task[c].at = "l-unchecked"
      /\ Reply(c, "in")
      /\ UNCHANGED <<accountOf, name, ships, equipped, bare, fleet, pieces,
                     sequence, auth>>
      /\ \/ UNCHANGED <<device, unchecked>>
         \/ /\ auth[c] # NoUser /\ SaveDevice(c, a)
            /\ \/ /\ task[c].at = "l-save"
                  /\ unchecked' = unchecked \ {DeviceOf[c]}
               \/ unchecked' = unchecked \cup {DeviceOf[c]}
  BY <1>0, Zenon DEF JoinSaves, At
<1>2. a \in 0..MaxAccount /\ auth[c] \in User \cup {NoUser}
  BY <1>0, ClientIs, RequestFields
<1>3. task[c].at = "l-save" /\ auth[c] # NoUser => accountOf[auth[c]] = a
  BY <1>0, ClientIs DEF IsOwners
<1>4. UNCHANGED <<device, unchecked>> \/ Binds(c, a)
  BY <1>1, <1>2, <1>3 DEF Binds
<1> QED BY <1>1, <1>2, <1>4, SavedAndReplied DEF Answer

-----------------------------------------------------------------------------
(* Every step keeps the invariant.                                         *)

(* The bounds of the model hold: every action that counts is guarded.      *)
LEMMA BoundsKept ==
  ASSUME BoundTypes, [Next]_vars
  PROVE  BoundTypes'
<1> USE ConstantsAssumption DEF BoundTypes
<1>1. ASSUME NEW c \in Client, NEW m \in Name, CreateNewPlayer(c, m)
      PROVE  BoundTypes'
  BY <1>1 DEF CreateNewPlayer
<1>2. ASSUME NEW c \in Client, NEW a \in 0..MaxAccount, JoinServer(c, a)
      PROVE  BoundTypes'
  BY <1>2 DEF JoinServer
<1>3. ASSUME NEW c \in Client, Creation(c)
      PROVE  BoundTypes'
  <2>1. CASE InsertShip(c)
    <3>1. /\ UNCHANGED <<requests, others>>
          /\ Equip(task[c].next) \/ UNCHANGED faults
      BY <2>1, Zenon DEF InsertShip
    <3> QED BY <3>1 DEF Equip
  <2>2. CASE UNCHANGED bounds
    BY <2>2 DEF bounds
  <2> QED BY <1>3, <2>1, <2>2, Zenon DEF Creation, CheckDevice, CheckUser,
       CheckName, NextAccountId, InsertMap, InsertCommander, GrantAttires,
       MaxShipId, FillPurse, SetSecretary, InsertFleet, InsertFleet11,
       BindDevice, Stay
<1>4. ASSUME NEW c \in Client, Login(c)
      PROVE  BoundTypes'
  <2>1. CASE CheckFails(c)
    BY <2>1 DEF CheckFails
  <2>2. CASE UNCHANGED bounds
    BY <2>2 DEF bounds
  <2> QED BY <1>4, <2>1, <2>2, Zenon DEF Login, JoinReadsDevice, JoinReadsUser,
       JoinSavesNew, JoinFetches, JoinChecks, JoinSaves
<1>5. ASSUME NEW c \in Client, StatementFails(c)
      PROVE  BoundTypes'
  <2>1. /\ faults < MaxFaults /\ faults' = faults + 1
        /\ UNCHANGED <<requests, others>>
    BY <1>5, Zenon DEF StatementFails
  <2> QED BY <2>1
<1>6. ASSUME NEW a \in Account, OtherShip(a)
      PROVE  BoundTypes'
  BY <1>6 DEF OtherShip
<1>7. CASE Crash
  BY <1>7 DEF Crash
<1>8. CASE UNCHANGED vars
  BY <1>8 DEF vars, bounds
<1> QED BY <1>1, <1>2, <1>3, <1>4, <1>5, <1>6, <1>7, <1>8, Zenon DEF Next

(* The excuses are ships and devices.                                      *)
LEMMA ExcusesKept ==
  ASSUME IInv, [Next]_vars
  PROVE  ExcuseTypes'
<1>0. bare \subseteq Ship /\ unchecked \subseteq Device
  BY DEF IInv, TypeOK, ExcuseTypes
<1>1. CASE UNCHANGED <<bare, unchecked>>
  BY <1>0, <1>1 DEF ExcuseTypes
<1>2. ASSUME NEW c \in Client, InsertShip(c)
      PROVE  ExcuseTypes'
  <2>1. task[c].next \in Ship
    BY <1>2, ClientIs, RequestFields DEF InsertShip, At, KnowsUser
  <2>2. /\ UNCHANGED unchecked
        /\ Equip(task[c].next) \/ UNCHANGED bare
    BY <1>2, Zenon DEF InsertShip
  <2> QED BY <1>0, <2>1, <2>2 DEF Equip, ExcuseTypes
<1>3. ASSUME NEW c \in Client,
             \/ unchecked' = unchecked \ {DeviceOf[c]}
             \/ unchecked' = unchecked \cup {DeviceOf[c]},
             UNCHANGED bare
      PROVE  ExcuseTypes'
  BY <1>0, <1>3, ConstantsAssumption DEF ExcuseTypes
<1>4. ASSUME NEW c \in Client, Creation(c)
      PROVE  ExcuseTypes'
  <2>1. CASE BindDevice(c)
    <3>1. unchecked' = unchecked \ {DeviceOf[c]} /\ UNCHANGED bare
      BY <2>1, Zenon DEF BindDevice
    <3> QED BY <1>3, <3>1
  <2> QED BY <1>1, <1>2, <1>4, <2>1, Zenon DEF Creation, CheckDevice, CheckUser,
       CheckName, NextAccountId, InsertMap, InsertCommander, GrantAttires,
       MaxShipId, FillPurse, SetSecretary, InsertFleet, InsertFleet11, Stay,
       excuses
<1>5. ASSUME NEW c \in Client, Login(c)
      PROVE  ExcuseTypes'
  <2>1. CASE JoinSavesNew(c)
    <3>1. unchecked' = unchecked \ {DeviceOf[c]} /\ UNCHANGED bare
      BY <2>1, Zenon DEF JoinSavesNew
    <3> QED BY <1>3, <3>1
  <2>2. CASE JoinSaves(c)
    <3>1. /\ UNCHANGED bare
          /\ \/ UNCHANGED unchecked
             \/ unchecked' = unchecked \ {DeviceOf[c]}
             \/ unchecked' = unchecked \cup {DeviceOf[c]}
      BY <2>2, Zenon DEF JoinSaves
    <3> QED BY <1>1, <1>3, <3>1
  <2> QED BY <1>1, <1>5, <2>1, <2>2, Zenon DEF Login, JoinReadsDevice,
       JoinReadsUser, JoinFetches, JoinChecks, CheckFails, excuses
<1>6. ASSUME \/ \E c \in Client, m \in Name : CreateNewPlayer(c, m)
             \/ \E c \in Client, a \in 0..MaxAccount : JoinServer(c, a)
             \/ \E c \in Client : StatementFails(c)
             \/ \E a \in Account : OtherShip(a)
             \/ Crash \/ UNCHANGED vars
      PROVE  ExcuseTypes'
  <2>1. UNCHANGED <<bare, unchecked>>
    BY <1>6, Zenon DEF CreateNewPlayer, JoinServer, StatementFails, OtherShip,
       Crash, vars, excuses
  <2> QED BY <1>1, <2>1
<1>7. CASE Next
  BY <1>4, <1>5, <1>6, <1>7, Zenon DEF Next
<1> QED BY <1>6, <1>7

(* Every action of a client is a sound step.                               *)
LEMMA StepsAreSound ==
  ASSUME IInv, NEW c \in Client,
         \/ \E m \in Name : CreateNewPlayer(c, m)
         \/ \E a \in 0..MaxAccount : JoinServer(c, a)
         \/ Creation(c) \/ Login(c) \/ StatementFails(c)
  PROVE  StepIsSound(c)
<1>1. CASE \E m \in Name : CreateNewPlayer(c, m)
  BY <1>1, CreateNewPlayerSound
<1>2. CASE \E a \in 0..MaxAccount : JoinServer(c, a)
  BY <1>2, JoinServerSound
<1>3. CASE Creation(c)
  BY <1>3, CheckDeviceSound, CheckUserSound, CheckNameSound, NextAccountIdSound,
     InsertMapSound, InsertCommanderSound, PiecesSound, MaxShipIdSound,
     InsertShipSound, InsertFleetSound, BindDeviceSound, Zenon DEF Creation
<1>4. CASE Login(c)
  BY <1>4, JoinReadsDeviceSound, JoinReadsUserSound, JoinSavesNewSound,
     JoinFetchesSound, JoinChecksSound, CheckFailsSound, JoinSavesSound,
     Zenon DEF Login
<1>5. CASE StatementFails(c)
  BY <1>5, StatementFailsSound
<1> QED BY <1>1, <1>2, <1>3, <1>4, <1>5

(* What all the steps of the program have in common.                       *)
DatabaseIsSound ==
  DatabaseTypes' /\ ClientTypes' /\ Grows /\ OneUserPerAccount'
    /\ DeviceAgreesWithUser' /\ \A c \in Client : Sound(c)'

(* A sound step of one client leaves the others sound.                     *)
LEMMA ClientStep ==
  ASSUME IInv, NEW c \in Client, StepIsSound(c)
  PROVE  DatabaseIsSound
<1>1. /\ DatabaseTypes' /\ ClientTypes' /\ Grows /\ OneUserPerAccount'
      /\ DeviceAgreesWithUser' /\ Sound(c)' /\ OnlyOf(c)
  BY Zenon DEF StepIsSound
<1>2. ASSUME NEW d \in Client \ {c}
      PROVE  Sound(d)'
  <2>1. Sound(d) /\ DatabaseTypes /\ ClientTypes
    BY DEF IInv, TypeOK
  <2>2. task'[d] = task[d] /\ auth'[d] = auth[d] /\ answer'[d] = answer[d]
    BY <1>1 DEF OnlyOf
  <2> QED BY <1>1, <2>1, <2>2, SoundStays
<1> QED BY <1>1, <1>2, Zenon DEF DatabaseIsSound

(* A ship added by another handler takes an id that no row has.            *)
LEMMA OtherShipStep ==
  ASSUME IInv, NEW a \in Account, OtherShip(a)
  PROVE  DatabaseIsSound
<1> DEFINE id == Max(Rows \cup {0}) + 1
<1>1. /\ id \in Ship /\ ships' = [ships EXCEPT ![id] = a]
      /\ UNCHANGED <<accountOf, name, equipped, bare, unchecked, fleet, pieces,
                     device, sequence, task, auth, answer>>
  BY Zenon DEF OtherShip, excuses
<1>2. id \notin Rows
  BY NextIsFree DEF IInv
<1> HIDE DEF id
<1>3. /\ DatabaseTypes /\ ClientTypes /\ OneUserPerAccount
      /\ DeviceAgreesWithUser
  BY DEF IInv, TypeOK
<1>4. DatabaseTypes' /\ Grows
  <2>1. equipped' \in SUBSET Ship
    BY <1>1, <1>3 DEF DatabaseTypes
  <2> QED BY <1>1, <1>2, <1>3, <2>1, ShipInserted
<1>5. ClientTypes'
  BY <1>1, <1>3, Zenon DEF ClientTypes
<1>6. OneUserPerAccount' /\ DeviceAgreesWithUser'
  BY <1>1, <1>3, <1>4, OwnersStay, DeviceStays
<1>7. ASSUME NEW c \in Client
      PROVE  Sound(c)'
  <2>1. Sound(c)
    BY DEF IInv
  <2> QED BY <1>1, <1>3, <1>4, <2>1, SoundStays
<1> QED BY <1>4, <1>5, <1>6, <1>7, Zenon DEF DatabaseIsSound

(* Clients that wait for nothing and were told nothing.                    *)
LEMMA FreshIsSound ==
  ASSUME NEW c \in Client, task[c] = NoTask, answer[c] = "none"
  PROVE  Sound(c)
<1>1. KnowsUser(task[c], auth[c]) /\ Inserted(task[c], auth[c])
      /\ IsOwners(task[c], auth[c])
  BY NoTaskIs DEF KnowsUser, Inserted, IsOwners, Early, Late, Chosen, Armed
<1>2. Acknowledged(answer[c], auth[c])
  BY Zenon DEF Acknowledged
<1> QED BY <1>1, <1>2 DEF Sound

(* A crash forgets the requests and answers, not the rows.                 *)
LEMMA CrashStep ==
  ASSUME IInv, Crash
  PROVE  DatabaseIsSound
<1>1. /\ UNCHANGED <<accountOf, name, ships, equipped, bare, unchecked, fleet,
                     pieces, device, sequence>>
      /\ task' = [c \in Client |-> NoTask] /\ auth' = Ticket
      /\ answer' = [c \in Client |-> "none"]
  BY DEF Crash, database, excuses
<1>2. /\ DatabaseTypes /\ OneUserPerAccount /\ DeviceAgreesWithUser
  BY DEF IInv, TypeOK
<1>3. DatabaseTypes'
  BY <1>1, <1>2, Zenon DEF DatabaseTypes
<1>4. Grows
  BY <1>1, <1>2, GrowsIf, Zenon
<1>5. ClientTypes'
  BY <1>1, NoTaskIs, ConstantsAssumption DEF ClientTypes
<1>6. OneUserPerAccount' /\ DeviceAgreesWithUser'
  BY <1>1, <1>2, <1>4, OwnersStay, DeviceStays
<1>7. ASSUME NEW c \in Client
      PROVE  Sound(c)'
  <2>1. task'[c] = NoTask /\ answer'[c] = "none"
    BY <1>1
  <2>2. KnowsUser(task[c], auth[c])' /\ Inserted(task[c], auth[c])'
        /\ IsOwners(task[c], auth[c])'
    BY <2>1, NoTaskIs DEF KnowsUser, Inserted, IsOwners, Early, Late, Chosen, Armed
  <2>3. Acknowledged(answer[c], auth[c])'
    BY <2>1, Zenon DEF Acknowledged
  <2> QED BY <2>2, <2>3 DEF Sound
<1> QED BY <1>3, <1>5, <1>4, <1>6, <1>7, Zenon DEF DatabaseIsSound

(* Nothing happens.                                                        *)
LEMMA StutterStep ==
  ASSUME IInv, UNCHANGED vars
  PROVE  DatabaseIsSound
<1>1. UNCHANGED <<accountOf, name, ships, equipped, bare, unchecked, fleet,
                  pieces, device, sequence, auth, task, answer>>
  BY DEF vars, database, excuses
<1>2. /\ DatabaseTypes /\ ClientTypes /\ OneUserPerAccount
      /\ DeviceAgreesWithUser
  BY DEF IInv, TypeOK
<1>3. DatabaseTypes' /\ ClientTypes'
  BY <1>1, <1>2, Zenon DEF DatabaseTypes, ClientTypes
<1>4. Grows
  BY <1>1, <1>2, GrowsIf, Zenon
<1>5. OneUserPerAccount' /\ DeviceAgreesWithUser'
  BY <1>1, <1>2, <1>4, OwnersStay, DeviceStays
<1>6. ASSUME NEW c \in Client
      PROVE  Sound(c)'
  <2>1. Sound(c)
    BY DEF IInv
  <2> QED BY <1>1, <1>2, <1>3, <1>4, <2>1, SoundStays
<1> QED BY <1>3, <1>4, <1>5, <1>6, Zenon DEF DatabaseIsSound

(* Every step keeps the invariant, and the database only grows.            *)
LEMMA NextKeeps ==
  ASSUME IInv, [Next]_vars
  PROVE  IInv' /\ Grows
<1>1. DatabaseIsSound
  <2>1. ASSUME NEW c \in Client,
               \/ \E m \in Name : CreateNewPlayer(c, m)
               \/ \E a \in 0..MaxAccount : JoinServer(c, a)
               \/ Creation(c) \/ Login(c) \/ StatementFails(c)
        PROVE  DatabaseIsSound
    BY <2>1, StepsAreSound, ClientStep
  <2>2. ASSUME NEW a \in Account, OtherShip(a)
        PROVE  DatabaseIsSound
    BY <2>2, OtherShipStep
  <2> QED BY <2>1, <2>2, CrashStep, StutterStep, Zenon DEF Next
<1>2. BoundTypes' /\ ExcuseTypes'
  BY BoundsKept, ExcusesKept DEF IInv, TypeOK
<1> QED BY <1>1, <1>2, Zenon DEF IInv, TypeOK, DatabaseIsSound

(* The invariant holds at the start.                                       *)
LEMMA InitHolds ==
  ASSUME Init
  PROVE  IInv
<1>1. TypeOK
  <2>1. NoRow \in DeviceRow
    BY BoundsAre DEF NoRow, DeviceRow
  <2>2. DatabaseTypes
    BY <2>1, BoundsAre DEF Init, DatabaseTypes
  <2>3. ClientTypes
    BY NoTaskIs, ConstantsAssumption DEF Init, ClientTypes
  <2>4. BoundTypes
    BY ConstantsAssumption DEF Init, BoundTypes
  <2>5. ExcuseTypes
    BY DEF Init, ExcuseTypes
  <2> QED BY <2>2, <2>3, <2>4, <2>5 DEF TypeOK
<1>2. OneUserPerAccount
  BY DEF Init, OneUserPerAccount
<1>3. DeviceAgreesWithUser
  BY DEF Init, DeviceAgreesWithUser, NoRow
<1>4. ASSUME NEW c \in Client
      PROVE  Sound(c)
  BY FreshIsSound DEF Init
<1> QED BY <1>1, <1>2, <1>3, <1>4 DEF IInv

-----------------------------------------------------------------------------
(* Theorems.                                                               *)

(* The invariant holds in every state of every behaviour.                  *)
THEOREM Invariance == Spec => []IInv
BY InitHolds, NextKeeps, PTL DEF Spec

(* Whatever the handlers and the failures do, every variable has its type. *)
THEOREM TypeCorrect == Spec => []TypeOK
<1>1. IInv => TypeOK
  BY Zenon DEF IInv
<1> QED BY <1>1, Invariance, PTL

(* An account that its player was told of has everything create_commander  *)
(* gives, for every number of clients, users, devices, faults and crashes. *)
THEOREM AcknowledgedAccounts == Spec => []AcknowledgedIsComplete
<1>1. IInv => AcknowledgedIsComplete
  BY Zenon DEF IInv, Sound, Acknowledged, AcknowledgedIsComplete
<1> QED BY <1>1, Invariance, PTL

(* An account has one user and a commander has one account's row, for both *)
(* ways the code allocates ids.                                            *)
THEOREM OneUser == Spec => []OneUserPerAccount
<1>1. IInv => OneUserPerAccount
  BY Zenon DEF IInv
<1> QED BY <1>1, Invariance, PTL

(* No order of logins and creations binds a device to the account of       *)
(* another user than its own.                                              *)
THEOREM DevicesAgree == Spec => []DeviceAgreesWithUser
<1>1. IInv => DeviceAgreesWithUser
  BY Zenon DEF IInv
<1> QED BY <1>1, Invariance, PTL

(* No step takes an account from its user or gives the user another one.   *)
THEOREM AccountKept == Spec => AccountIsKept
<1>1. ASSUME IInv, [Next]_vars
      PROVE  [\A u \in User : accountOf[u] # 0
                => accountOf'[u] = accountOf[u]]_vars
  BY <1>1, NextKeeps, Zenon DEF Grows
<1> QED BY <1>1, Invariance, PTL DEF Spec, AccountIsKept

=============================================================================
