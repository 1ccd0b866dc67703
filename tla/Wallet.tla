------------------------------- MODULE Wallet -------------------------------
(***************************************************************************)
(* One balance of one commander, as a row of owned_resources and as the    *)
(* entry of the live commander's owned_resources_map; the slot of the      *)
(* guild shop it is spent on; and the write lock of the SQLite file        *)
(* (orm/resource.py, orm/shop.py, answer/guild/simple_handlers.py,         *)
(* db/session.py, db/store.py).                                            *)
(*                                                                         *)
(* An asynchronous handler awaits its statements one by one.  A driver     *)
(* thread runs each; a writing one takes the lock, and only when the loop  *)
(* has resumed the handler is the COMMIT asked for that releases it.  A    *)
(* synchronous writer runs on the loop itself and blocks it meanwhile:     *)
(* what the handlers wait for then waits for it.  Two handlers of one      *)
(* commander run together when it has two connections, or when one of them *)
(* is a request of the REST API.  The close of a connection cancels its    *)
(* handler at whatever it awaits.                                          *)
(***************************************************************************)
EXTENDS Integers, FiniteSets

CONSTANTS
  Handlers,   \* asynchronous handlers under way
  Price,      \* of one unit; also of a manual refresh
  Stock,      \* units in a fresh slot
  Start,      \* the balance at first
  Amounts,    \* what synchronous writers add, take or set
  MaxAmount,  \* bound: the balance
  MaxHandled, \* bound: handlers
  MaxOps,     \* bound: synchronous operations
  NoOne

ASSUME WalletAssumption ==
  /\ Price \in Nat \ {0} /\ Stock \in Nat \ {0} /\ Start \in Nat
  /\ Amounts \subseteq Nat
  /\ IsFiniteSet(Handlers) /\ NoOne \notin Handlers
  /\ MaxHandled \in Nat /\ MaxOps \in Nat

VARIABLES
  amount,  \* owned_resources.amount
  live,    \* owned_resources_map
  stock,   \* guild_shop_goods.count
  lock,    \* the session whose transaction has the write lock
  handler, \* each handler: its statement and how far the driver is with it
  loop,    \* what the event loop is executing
  \* What the bounds and the properties count:
  handled, ops,
  sold,    \* units taken off the slot since it was filled
  struck,  \* a statement has failed with "database is locked"
  raced,   \* the slot was written over a count that had changed since
  off      \* since the map was loaded, something happened that the map does
           \* not follow

(* The handlers whose charge is committed and that will bump the map.      *)
Unreported == {h \in Handlers : /\ handler[h].stmt = "charge"
                                /\ handler[h].phase = "done"
                                /\ handler[h].hit
                                /\ handler[h].kind # "gone"}

counters == <<handled, ops>>
vars == <<amount, live, stock, lock, handler, loop, counters, sold, struck,
          raced, off>>

Reads == {"slot", "funds", "reread"}
Writes == {"charge", "cut", "set", "earn"}
Idle == [kind |-> "none", stmt |-> "none", phase |-> "none", got |-> 0,
         hit |-> FALSE, beaten |-> FALSE]
Free == [op |-> "none", by |-> NoOne, n |-> 0, seen |-> 0]

Handling ==
  [kind : {"none", "buy", "refresh", "set", "earn", "gone"},
   stmt : Reads \cup Writes \cup {"none"},
   phase : {"none", "asked", "held", "commit", "done", "failed", "grant"},
   got : Nat, hit : BOOLEAN, beaten : BOOLEAN]
Executing ==
  [op : {"none", "add", "spend", "replace", "grant", "restock"},
   by : Handlers \cup {NoOne}, n : Nat, seen : Nat]

TypeOK ==
  /\ amount \in Nat /\ live \in Int /\ stock \in 0..Stock
  /\ lock \in Handlers \cup {NoOne}
  /\ handler \in [Handlers -> Handling]
  /\ loop \in Executing
  /\ handled \in 0..MaxHandled /\ ops \in 0..MaxOps
  /\ sold \in Nat
  /\ struck \in BOOLEAN /\ raced \in BOOLEAN /\ off \in BOOLEAN

Init ==
  /\ amount = Start /\ live = Start
  /\ stock = Stock
  /\ lock = NoOne
  /\ handler = [h \in Handlers |-> Idle]
  /\ loop = Free
  /\ handled = 0 /\ ops = 0
  /\ sold = 0 /\ struck = FALSE /\ raced = FALSE /\ off = FALSE

LoopIsFree == loop.op = "none"

Asks(h, stmt) ==
  handler' = [handler EXCEPT ![h].stmt = stmt, ![h].phase = "asked",
                             ![h].got = IF stmt = "cut" THEN @ ELSE 0,
                             ![h].hit = FALSE,
                             ![h].beaten = @ /\ stmt = "charge"]
Ends(h) == handler' = [handler EXCEPT ![h] = Idle]
Blocks(h, op) ==
  /\ loop' = [Free EXCEPT !.op = op, !.by = h]
  /\ handler' = [handler EXCEPT ![h].phase = "grant"]

(* A transaction that lowers the balance overtakes the handlers that have  *)
(* looked at it and not yet charged it.                                    *)
Overtakes(h, new) ==
  [g \in Handlers |->
    IF /\ g # h /\ new < amount
       /\ \/ handler[g].stmt = "funds" /\ handler[g].phase # "asked"
          \/ handler[g].stmt = "charge" /\ handler[g].phase = "asked"
    THEN [handler[g] EXCEPT !.beaten = TRUE]
    ELSE handler[g]]

-----------------------------------------------------------------------------
(* A packet or a request arrives: a purchase, a manual refresh of the      *)
(* shop, the API's absolute write, or the dorm's claim of its money.       *)
Starts(h) ==
  /\ LoopIsFree
  /\ handler[h] = Idle
  /\ handled < MaxHandled
  /\ \E kind \in {"buy", "refresh", "set", "earn"}, n \in Amounts \cup {0} :
       /\ kind \in {"buy", "refresh"} <=> n = 0
       /\ amount + n <= MaxAmount
       /\ handler' = [handler EXCEPT ![h] =
            [Idle EXCEPT !.kind = kind, !.phase = "asked", !.got = n,
                         !.stmt = CASE kind = "buy" -> "slot"
                                    [] kind = "refresh" -> "funds"
                                    [] OTHER -> kind]]
  /\ handled' = handled + 1
  /\ UNCHANGED <<amount, live, stock, lock, loop, ops, sold, struck, raced,
                 off>>

(* The driver's thread runs a query.                                       *)
ThreadReads(h) ==
  /\ handler[h].phase = "asked" /\ handler[h].stmt \in Reads
  /\ handler' = [handler EXCEPT ![h].phase = "done",
                   ![h].got = IF handler[h].stmt = "funds" THEN amount
                              ELSE stock]
  /\ UNCHANGED <<amount, live, stock, lock, loop, counters, sold, struck,
                 raced, off>>

(* The thread gets the lock and runs the UPDATE.  That of a charge matches *)
(* no row when the balance is short, and holds the lock all the same.      *)
Matches(h) == handler[h].stmt # "charge" \/ amount >= Price
ThreadLocks(h) ==
  /\ handler[h].phase = "asked" /\ handler[h].stmt \in Writes
  /\ lock = NoOne
  /\ lock' = h
  /\ handler' = [handler EXCEPT ![h].phase = "held", ![h].hit = Matches(h)]
  /\ UNCHANGED <<amount, live, stock, loop, counters, sold, struck, raced, off>>

(* The loop resumes the handler, which asks for the COMMIT.                *)
LoopCommits(h) ==
  /\ LoopIsFree
  /\ handler[h].phase = "held" /\ handler[h].kind # "gone"
  /\ handler' = [handler EXCEPT ![h].phase = "commit"]
  /\ UNCHANGED <<amount, live, stock, lock, loop, counters, sold, struck,
                 raced, off>>

(* The thread runs the COMMIT: the new value is there for all to see.      *)
Balance(h) ==
  CASE handler[h].stmt = "charge" /\ handler[h].hit -> amount - Price
    [] handler[h].stmt = "set" -> handler[h].got
    [] handler[h].stmt = "earn" -> amount + handler[h].got
    [] OTHER -> amount
ThreadCommits(h) ==
  /\ handler[h].phase = "commit"
  /\ lock' = NoOne
  /\ amount' = Balance(h)
  /\ handler' = [Overtakes(h, Balance(h)) EXCEPT ![h].phase = "done"]
  /\ IF handler[h].stmt = "cut"
     THEN /\ stock' = handler[h].got - 1
          /\ sold' = sold + 1
          /\ raced' = (raced \/ stock # handler[h].got)
     ELSE UNCHANGED <<stock, sold, raced>>
  /\ off' = (off \/ handler[h].stmt \in {"set", "earn"}
                 \/ (handler[h].kind = "gone" /\ handler[h].stmt = "charge"))
  /\ UNCHANGED <<live, loop, counters, struck>>

(* The loop resumes the handler with the result of its statement.          *)
(* consume_resource_async bumps the map if a row was changed; nothing      *)
(* tells its caller whether one was.                                       *)
MayBuy_Unasked(h) == TRUE
MayBuy(h) == handler[h].got >= Price
InStock_Unasked(h) == TRUE
InStock(h) == handler[h].got >= 1
Bumped_Always(h) == live - Price
Bumped(h) == IF handler[h].hit THEN live - Price ELSE live
LoopResumes(h) ==
  /\ LoopIsFree
  /\ handler[h].phase = "done" /\ handler[h].kind # "gone"
  /\ LET stmt == handler[h].stmt
         kind == handler[h].kind
     IN CASE stmt = "slot" ->
               /\ IF InStock(h) THEN Asks(h, "funds") ELSE Ends(h)
               /\ UNCHANGED <<live, loop>>
          [] stmt = "funds" ->
               /\ IF ~MayBuy(h) THEN Ends(h) /\ UNCHANGED loop
                  ELSE IF kind = "refresh" THEN Blocks(h, "restock")
                  ELSE Asks(h, "charge") /\ UNCHANGED loop
               /\ UNCHANGED live
          [] stmt = "charge" ->
               /\ live' = Bumped(h)
               /\ IF kind = "refresh" THEN Ends(h) ELSE Asks(h, "reread")
               /\ UNCHANGED loop
          [] stmt = "reread" ->
               /\ IF InStock(h) THEN Asks(h, "cut") ELSE Ends(h)
               /\ UNCHANGED <<live, loop>>
          [] stmt = "cut" -> Blocks(h, "grant") /\ UNCHANGED live
          [] OTHER -> Ends(h) /\ UNCHANGED <<live, loop>>
  /\ UNCHANGED <<amount, stock, lock, counters, sold, struck, raced, off>>

(* The handler learns that its statement has failed.                       *)
LoopFails(h) ==
  /\ LoopIsFree
  /\ handler[h].phase = "failed"
  /\ Ends(h)
  /\ UNCHANGED <<amount, live, stock, lock, loop, counters, sold, struck,
                 raced, off>>

(* The connection of a handler is closed, which cancels its task.  The     *)
(* write or the COMMIT its thread has been asked for is done all the same, *)
(* but the handler does not go on from there: a charge that goes through   *)
(* is not followed by its bump.                                            *)
Cancels(h) ==
  /\ LoopIsFree
  /\ handler[h].kind \in {"buy", "refresh", "earn"}
  /\ IF handler[h].stmt \in Reads \/ handler[h].phase \in {"done", "failed"}
     THEN Ends(h)
     ELSE handler' = [handler EXCEPT ![h].kind = "gone"]
  /\ off' = (off \/ h \in Unreported)
  /\ UNCHANGED <<amount, live, stock, lock, loop, counters, sold, struck,
                 raced>>

(* The cancelled task leaves its session, which rolls back what has not    *)
(* been committed.                                                         *)
LoopUnwinds(h) ==
  /\ LoopIsFree
  /\ handler[h].kind = "gone" /\ handler[h].phase \in {"held", "done"}
  /\ lock' = IF lock = h THEN NoOne ELSE lock
  /\ Ends(h)
  /\ UNCHANGED <<amount, live, stock, loop, counters, sold, struck, raced, off>>

-----------------------------------------------------------------------------
(* A synchronous handler or a detached task on the loop: add_resource,     *)
(* consume_resource, upsert_resource_amount.  It reads the row ...         *)
SyncReads ==
  /\ LoopIsFree
  /\ ops < MaxOps
  /\ \E op \in {"add", "spend", "replace"}, n \in Amounts :
       /\ op = "add" => amount + n <= MaxAmount
       /\ loop' = [Free EXCEPT !.op = op, !.n = n, !.seen = amount]
  /\ ops' = ops + 1
  /\ UNCHANGED <<amount, live, stock, lock, handler, handled, sold, struck,
                 raced, off>>

(* ... and writes it when the lock is free: a value of its own, whatever   *)
(* the row holds by now, and never below zero.  The map is bumped by the   *)
(* full amount.                                                            *)
Clipped(n) == IF n < 0 THEN 0 ELSE n
SyncWrites ==
  /\ loop.op \in {"add", "spend", "replace"}
  /\ lock = NoOne
  /\ LET new == CASE loop.op = "add" -> loop.seen + loop.n
                  [] loop.op = "spend" -> Clipped(loop.seen - loop.n)
                  [] OTHER -> loop.n
     IN /\ amount' = new
        /\ live' = CASE loop.op = "add" -> live + loop.n
                     [] loop.op = "spend" -> live - loop.n
                     [] OTHER -> live
        /\ handler' = Overtakes(NoOne, new)
        /\ off' = (off \/ amount # loop.seen \/ loop.op = "replace"
                       \/ (loop.op = "spend" /\ loop.seen < loop.n))
  /\ loop' = Free
  /\ UNCHANGED <<stock, lock, counters, sold, struck, raced>>

(* A handler's own synchronous writes: the goods of a purchase; the new    *)
(* slot of a refresh, which is charged afterwards.                         *)
Grants ==
  /\ loop.op = "grant" /\ lock = NoOne
  /\ Ends(loop.by)
  /\ loop' = Free
  /\ UNCHANGED <<amount, live, stock, lock, counters, sold, struck, raced, off>>

Restocks ==
  /\ loop.op = "restock" /\ lock = NoOne
  /\ stock' = Stock /\ sold' = 0
  /\ raced' = FALSE
  /\ Asks(loop.by, "charge")
  /\ loop' = Free
  /\ UNCHANGED <<amount, live, lock, counters, struck, off>>

(* Commander.load, at a login or after a handler that changed much: a      *)
(* charge that is committed and not yet bumped will be counted twice.      *)
Loads ==
  /\ LoopIsFree
  /\ ops < MaxOps
  /\ live' = amount
  /\ off' = (Unreported # {})
  /\ ops' = ops + 1
  /\ UNCHANGED <<amount, stock, lock, handler, loop, handled, sold, struck,
                 raced>>

(* The loop waits for the lock, whose holder waits for the loop: nothing   *)
(* moves until the busy timeout of 30 seconds.  It raises "database is     *)
(* locked" in the writer on the loop, or in a thread that waits as well.   *)
Stalled == /\ ~LoopIsFree
           /\ lock # NoOne
           /\ handler[lock].phase = "held"

GivesUp_Never == FALSE
GivesUp == Stalled
LoopTimesOut ==
  /\ GivesUp
  /\ struck' = TRUE
  /\ loop' = Free
  /\ IF loop.by = NoOne THEN UNCHANGED handler ELSE Ends(loop.by)
  /\ UNCHANGED <<amount, live, stock, lock, counters, sold, raced, off>>

ThreadTimesOut(h) ==
  /\ Stalled
  /\ handler[h].phase = "asked" /\ handler[h].stmt \in Writes
  /\ struck' = TRUE
  /\ handler' = [handler EXCEPT ![h].phase = "failed"]
  /\ UNCHANGED <<amount, live, stock, lock, loop, counters, sold, raced, off>>

-----------------------------------------------------------------------------
Thread(h) == ThreadReads(h) \/ ThreadLocks(h) \/ ThreadCommits(h)
Resume(h) ==
  LoopCommits(h) \/ LoopResumes(h) \/ LoopFails(h) \/ LoopUnwinds(h)
Sync == SyncWrites \/ Grants \/ Restocks \/ LoopTimesOut

Next ==
  \/ \E h \in Handlers :
       \/ Starts(h) \/ Thread(h) \/ Resume(h) \/ ThreadTimesOut(h)
       \/ Cancels(h)
  \/ SyncReads \/ Loads \/ Sync

(* Driver threads run; the loop resumes what is ready, in turn; a blocked  *)
(* statement goes on when it can and is given up when it cannot.           *)
Spec ==
  /\ Init /\ [][Next]_vars
  /\ \A h \in Handlers : WF_vars(Thread(h)) /\ WF_vars(Resume(h))
  /\ WF_vars(Sync)

-----------------------------------------------------------------------------
(* consume_resource_async changes nothing when the balance has become      *)
(* short, and its caller does not hear of it: goods go out for nothing.    *)
(* That takes another transaction, committed between the handler's look at *)
(* the balance and its UPDATE, that lowered the balance; the check alone   *)
(* stops everything else.                                                  *)
FreeOnlyIfOvertaken ==
  \A h \in Handlers :
    handler[h].stmt = "charge" /\ handler[h].phase = "done" /\ ~handler[h].hit
      => handler[h].beaten

(* The slot hands out no more than it was filled with, and what is left is *)
(* the rest of it, unless a sale wrote back a count that another had       *)
(* changed since it was read (guild_shop_good_decrement).                  *)
NothingOversold == raced \/ (sold <= Stock /\ stock = Stock - sold)

(* The live map follows the row whatever the order in which awaited        *)
(* statements commit and synchronous writers run: it is behind by the      *)
(* charges that are committed and not yet reported.  Excepted are the      *)
(* writers that leave the map alone (API, dorm, coloring), an overdraft    *)
(* (the row stops at zero, the map does not), an absolute write over a     *)
(* charge that came in between, a load over an unreported charge, and a    *)
(* charge whose handler is cancelled before it has bumped the map.         *)
LiveFollowsRow == off \/ live = amount + Price * Cardinality(Unreported)

(* Every handler ends, although the loop and a handler can wait for each   *)
(* other: the busy timeout breaks the tie.                                 *)
HandlersEnd ==
  \A h \in Handlers : handler[h].phase # "none" ~> handler[h].phase = "none"

(* "busy_timeout makes the writer wait instead of raising 'database is     *)
(* locked'" (db/session.py:112-113).                                       *)
NeverLocked == ~struck

=============================================================================
