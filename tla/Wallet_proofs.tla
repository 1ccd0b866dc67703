---------------------------- MODULE Wallet_proofs ----------------------------
(***************************************************************************)
(* Proofs about Wallet, for every set of handlers, price, stock and bound. *)
(***************************************************************************)
EXTENDS Wallet, FiniteSetTheorems, TLAPS

(* The lock is with a handler that is in a transaction, and a handler in a *)
(* transaction has it.                                                     *)
LockIsHeld ==
  \A h \in Handlers : lock = h <=> handler[h].phase \in {"held", "commit"}

(* The loop executes a statement for a handler that waits for it.          *)
LoopServes ==
  IF loop.op \in {"grant", "restock"}
  THEN /\ loop.by \in Handlers /\ handler[loop.by].phase = "grant"
       /\ loop.op = "restock" => handler[loop.by].stmt = "funds"
  ELSE loop.by = NoOne

(* A handler that will take a unit has seen one; one that has seen the     *)
(* balance can still pay, unless it was overtaken; an UPDATE that matched  *)
(* can be carried out, and one that did not was overtaken.                 *)
SeesSlot(r) ==
  /\ r.stmt \in {"slot", "reread"} /\ r.phase = "done" => r.got \in 0..Stock
  /\ r.stmt = "cut" /\ r.phase \in {"asked", "held", "commit"}
       => r.got \in 1..Stock
SeesFunds(r, balance) ==
  /\ r.stmt = "funds" /\ r.phase # "asked" /\ ~r.beaten => balance >= r.got
  /\ r.stmt = "funds" /\ r.phase = "grant" => r.got >= Price
  /\ r.stmt = "charge" /\ r.phase = "asked" /\ ~r.beaten => balance >= Price
  /\ r.stmt = "charge" /\ r.phase \in {"held", "commit"} /\ r.hit
       => balance >= Price
  /\ r.stmt = "charge" /\ r.phase \in {"held", "commit", "done"} /\ ~r.hit
       => r.beaten
Writing(r) == r.phase \in {"held", "commit"} => r.stmt \in Writes

Sees(r, balance) == SeesSlot(r) /\ SeesFunds(r, balance) /\ Writing(r)
HandlersSee == \A h \in Handlers : Sees(handler[h], amount)

IInv == TypeOK /\ LockIsHeld /\ LoopServes /\ HandlersSee /\ NothingOversold

-----------------------------------------------------------------------------
(* Records and how the actions change them.                                *)

(* The fields of what a handler is doing.                                  *)
LEMMA RecordFields ==
  ASSUME NEW r \in Handling
  PROVE  /\ r.stmt \in Reads \cup Writes \cup {"none"}
         /\ r.phase \in {"none", "asked", "held", "commit", "done", "failed",
                         "grant"}
         /\ r.got \in Nat /\ r.hit \in BOOLEAN /\ r.beaten \in BOOLEAN
BY DEF Handling

(* A handler is cancelled in the middle of its statement.                  *)
LEMMA KindChanged ==
  ASSUME NEW r \in Handling
  PROVE  LET q == [r EXCEPT !.kind = "gone"] IN
           /\ q \in Handling /\ q.kind = "gone"
           /\ q.stmt = r.stmt /\ q.phase = r.phase /\ q.got = r.got
           /\ q.hit = r.hit /\ q.beaten = r.beaten
BY DEF Handling

(* A handler moves to another phase of its statement.                      *)
LEMMA PhaseChanged ==
  ASSUME NEW r \in Handling,
         NEW p \in {"held", "commit", "done", "failed", "grant"}
  PROVE  LET q == [r EXCEPT !.phase = p] IN
           /\ q \in Handling
           /\ q.stmt = r.stmt /\ q.phase = p /\ q.got = r.got
           /\ q.hit = r.hit /\ q.beaten = r.beaten /\ q.kind = r.kind
BY DEF Handling

(* It takes the lock and its UPDATE matches rows or does not.              *)
LEMMA PhaseAndHitChanged ==
  ASSUME NEW r \in Handling, NEW p \in {"held"}, NEW b \in BOOLEAN
  PROVE  LET q == [r EXCEPT !.phase = p, !.hit = b] IN
           /\ q \in Handling
           /\ q.stmt = r.stmt /\ q.phase = p /\ q.got = r.got
           /\ q.hit = b /\ q.beaten = r.beaten
BY DEF Handling

(* It gets the value it asked for.                                         *)
LEMMA PhaseAndGotChanged ==
  ASSUME NEW r \in Handling, NEW p \in {"done"}, NEW v \in Nat
  PROVE  LET q == [r EXCEPT !.phase = p, !.got = v] IN
           /\ q \in Handling
           /\ q.stmt = r.stmt /\ q.phase = p /\ q.got = v
           /\ q.hit = r.hit /\ q.beaten = r.beaten
BY DEF Handling

AskOf(r, s, v, b) ==
  [r EXCEPT !.stmt = s, !.phase = "asked", !.got = v, !.hit = FALSE,
            !.beaten = b]

StartOf(kind, stmt, n) ==
  [Idle EXCEPT !.kind = kind, !.phase = "asked", !.got = n, !.stmt = stmt]

(* A handler between two runs.                                             *)
LEMMA IdleIs ==
  /\ Idle \in Handling /\ Idle.stmt = "none" /\ Idle.phase = "none"
BY DEF Handling, Idle

-----------------------------------------------------------------------------
(* One handler moves while the balance stays.                              *)

(* The invariant survives a move of one handler that keeps its own part    *)
(* of it.                                                                  *)
LEMMA OneMoves ==
  ASSUME TypeOK, LockIsHeld, HandlersSee, NEW h \in Handlers,
         NEW r \in Handling, handler' = [handler EXCEPT ![h] = r],
         amount' = amount, Sees(r, amount),
         lock' = h <=> r.phase \in {"held", "commit"},
         \A g \in Handlers \ {h} : lock' = g <=> lock = g
  PROVE  /\ handler' \in [Handlers -> Handling]
         /\ LockIsHeld' /\ HandlersSee'
         /\ handler'[h] = r
         /\ \A g \in Handlers \ {h} : handler'[g] = handler[g]
<1>1. /\ handler' \in [Handlers -> Handling]
      /\ handler'[h] = r
      /\ \A g \in Handlers \ {h} : handler'[g] = handler[g]
  BY DEF TypeOK
<1>2. LockIsHeld'
  BY <1>1 DEF LockIsHeld
<1>3. HandlersSee'
  BY <1>1 DEF HandlersSee
<1> QED BY <1>1, <1>2, <1>3

(* The loop goes on serving whom it serves when somebody else moves.       *)
LEMMA LoopKept ==
  ASSUME LoopServes, NEW h \in Handlers, handler[h].phase # "grant",
         loop' = loop,
         \A g \in Handlers \ {h} : handler'[g] = handler[g]
  PROVE  LoopServes'
BY DEF LoopServes

(* A free loop serves no handler.                                          *)
LEMMA FreeServesNobody ==
  ASSUME LoopServes, LoopIsFree
  PROVE  loop.by = NoOne
BY DEF LoopServes, LoopIsFree

-----------------------------------------------------------------------------
(* Each action keeps the invariant.                                        *)

(* The invariant holds at the start.                                       *)
LEMMA InitHolds == Init => IInv
<1> SUFFICES ASSUME Init PROVE IInv
  OBVIOUS
<1>1. TypeOK
  <2>1. loop \in Executing
    BY DEF Init, Executing, Free
  <2>2. handler \in [Handlers -> Handling]
    BY IdleIs DEF Init
  <2>3. /\ amount \in Nat /\ live \in Int /\ stock \in 0..Stock
        /\ lock = NoOne /\ handled \in 0..MaxHandled /\ ops \in 0..MaxOps
        /\ sold \in Nat
        /\ struck \in BOOLEAN /\ raced \in BOOLEAN /\ off \in BOOLEAN
    <3>1. /\ amount = Start /\ live = Start /\ stock = Stock /\ lock = NoOne
          /\ handled = 0 /\ ops = 0 /\ sold = 0
          /\ struck = FALSE /\ raced = FALSE /\ off = FALSE
      BY Zenon DEF Init
    <3>2. /\ amount \in Nat /\ live \in Int /\ stock \in 0..Stock
          /\ handled \in 0..MaxHandled /\ ops \in 0..MaxOps /\ sold \in Nat
      <4>1. Start \in Nat /\ Stock \in Nat /\ MaxHandled \in Nat /\ MaxOps \in Nat
        BY WalletAssumption
      <4> QED BY <3>1, <4>1
    <3> QED BY <3>1, <3>2, Zenon
  <2> QED BY <2>1, <2>2, <2>3 DEF TypeOK
<1>2. LockIsHeld /\ LoopServes /\ NothingOversold
  BY IdleIs, WalletAssumption
  DEF Init, LockIsHeld, LoopServes, NothingOversold, Free
<1>3. HandlersSee
  BY IdleIs DEF Init, HandlersSee, Sees, SeesSlot, SeesFunds, Writing
<1> QED BY <1>1, <1>2, <1>3 DEF IInv

(* A handler starts with its first statement.                              *)
LEMMA StartsWith ==
  ASSUME NEW h \in Handlers, Starts(h)
  PROVE  \E kind \in {"buy", "refresh", "set", "earn"},
            s \in {"slot", "funds", "set", "earn"}, n \in Nat :
        handler' = [handler EXCEPT ![h] = StartOf(kind, s, n)]
<1>1. PICK k \in {"buy", "refresh", "set", "earn"}, n \in Amounts \cup {0} :
        handler' = [handler EXCEPT ![h] =
          StartOf(k, CASE k = "buy" -> "slot" [] k = "refresh" -> "funds"
                       [] OTHER -> k, n)]
  BY Zenon DEF Starts, StartOf
<1>2. n \in Nat
  BY WalletAssumption
<1>3. (CASE k = "buy" -> "slot" [] k = "refresh" -> "funds" [] OTHER -> k)
        \in {"slot", "funds", "set", "earn"}
  OBVIOUS
<1> QED BY <1>1, <1>2, <1>3

(* A handler starts (guild shop purchase and refresh, upsert, add).        *)
LEMMA StartsKeeps ==
  ASSUME IInv, NEW h \in Handlers, Starts(h)
  PROVE  IInv'
<1>1. PICK kind \in {"buy", "refresh", "set", "earn"},
           s \in {"slot", "funds", "set", "earn"}, n \in Nat :
        handler' = [handler EXCEPT ![h] = StartOf(kind, s, n)]
  BY StartsWith
<1> DEFINE r == StartOf(kind, s, n)
<1>2. /\ kind \in {"buy", "refresh", "set", "earn"} /\ n \in Nat
      /\ s \in Reads \cup Writes
  BY <1>1 DEF Reads, Writes
<1>3. /\ r \in Handling /\ r.stmt = s /\ r.phase = "asked" /\ r.got = n
      /\ ~r.beaten
  BY <1>2 DEF StartOf, Handling, Idle
<1> HIDE DEF r
<1>4. Sees(r, amount)
  <2>1. r.stmt \in {"slot", "funds", "set", "earn"} /\ r.phase = "asked"
    BY <1>1, <1>3
  <2> HIDE DEF r
  <2> QED BY <2>1 DEF Sees, SeesSlot, SeesFunds, Writing
<1>5. /\ handler[h] = Idle /\ amount' = amount /\ lock' = lock /\ loop' = loop
      /\ UNCHANGED <<live, stock, ops, sold, raced, struck, off>>
      /\ handled < MaxHandled /\ handled' = handled + 1
  BY Zenon DEF Starts
<1>6. lock' = h <=> r.phase \in {"held", "commit"}
  BY <1>3, <1>5, IdleIs DEF IInv, LockIsHeld
<1>7. handler' = [handler EXCEPT ![h] = r]
  BY <1>1 DEF r
<1>8. /\ handler' \in [Handlers -> Handling] /\ LockIsHeld' /\ HandlersSee'
      /\ \A g \in Handlers \ {h} : handler'[g] = handler[g]
  BY <1>3, <1>4, <1>5, <1>6, <1>7, OneMoves DEF IInv
<1>9. LoopServes'
  BY <1>5, <1>8, IdleIs, LoopKept DEF IInv
<1>10. TypeOK'
  BY <1>5, <1>8, WalletAssumption DEF IInv, TypeOK
<1>11. NothingOversold'
  BY <1>5 DEF IInv, NothingOversold
<1> QED BY <1>8, <1>9, <1>10, <1>11 DEF IInv

(* A driver thread executes a SELECT.                                      *)
LEMMA ThreadReadsKeeps ==
  ASSUME IInv, NEW h \in Handlers, ThreadReads(h)
  PROVE  IInv'
<1> DEFINE v == IF handler[h].stmt = "funds" THEN amount ELSE stock
           r == [handler[h] EXCEPT !.phase = "done", !.got = v]
<1>1. /\ handler[h].phase = "asked" /\ handler[h].stmt \in Reads
      /\ handler' = [handler EXCEPT ![h] = r]
      /\ UNCHANGED <<amount, lock, loop, live, stock, handled, ops, sold, raced,
                     struck, off>>
  BY Zenon DEF ThreadReads, counters
<1>2. handler[h] \in Handling /\ v \in Nat /\ (handler[h].stmt # "funds" => v \in 0..Stock)
  BY WalletAssumption DEF IInv, TypeOK
<1>3. /\ r \in Handling /\ r.stmt = handler[h].stmt /\ r.phase = "done"
      /\ r.got = v /\ r.beaten = handler[h].beaten
  BY <1>2, PhaseAndGotChanged
<1>4. Sees(r, amount)
  <2>1. r.stmt = "funds" => r.got = amount
    BY <1>3
  <2>2. r.stmt # "funds" => r.got \in 0..Stock
    BY <1>2, <1>3
  <2>3. r.stmt \in Reads
    BY <1>1, <1>3
  <2>4. amount \in Nat
    BY DEF IInv, TypeOK
  <2> HIDE DEF r
  <2> QED BY <2>1, <2>2, <2>3, <2>4, <1>3
          DEF Sees, SeesSlot, SeesFunds, Writing, Reads
<1>5. lock' = h <=> r.phase \in {"held", "commit"}
  BY <1>1, <1>3 DEF IInv, LockIsHeld
<1> HIDE DEF r
<1>6. /\ handler' \in [Handlers -> Handling] /\ LockIsHeld' /\ HandlersSee'
      /\ \A g \in Handlers \ {h} : handler'[g] = handler[g]
  BY <1>1, <1>3, <1>4, <1>5, OneMoves DEF IInv
<1>7. LoopServes'
  BY <1>1, <1>6, LoopKept DEF IInv
<1>8. TypeOK' /\ NothingOversold'
  BY <1>1, <1>6 DEF IInv, TypeOK, NothingOversold
<1> QED BY <1>6, <1>7, <1>8 DEF IInv

(* A driver thread executes an UPDATE and takes the lock.                  *)
LEMMA ThreadLocksKeeps ==
  ASSUME IInv, NEW h \in Handlers, ThreadLocks(h)
  PROVE  IInv'
<1> DEFINE r == [handler[h] EXCEPT !.phase = "held", !.hit = Matches(h)]
<1>1. /\ handler[h].phase = "asked" /\ handler[h].stmt \in Writes
      /\ lock = NoOne /\ lock' = h
      /\ handler' = [handler EXCEPT ![h] = r]
      /\ UNCHANGED <<amount, loop, live, stock, handled, ops, sold, raced,
                     struck, off>>
  BY Zenon DEF ThreadLocks, counters
<1>2. handler[h] \in Handling /\ Matches(h) \in BOOLEAN
  BY DEF IInv, TypeOK, Matches
<1>3. /\ r \in Handling /\ r.stmt = handler[h].stmt /\ r.phase = "held"
      /\ r.got = handler[h].got /\ r.hit = Matches(h)
      /\ r.beaten = handler[h].beaten
  BY <1>2, PhaseAndHitChanged
<1> HIDE DEF r
<1>4. Sees(r, amount)
  <2>1. Sees(handler[h], amount) /\ amount \in Nat
    BY DEF IInv, HandlersSee, TypeOK
  <2> QED BY <2>1, <1>1, <1>3, WalletAssumption
          DEF Sees, SeesSlot, SeesFunds, Writing, Matches, Writes
<1>5. /\ handler' \in [Handlers -> Handling] /\ LockIsHeld' /\ HandlersSee'
      /\ \A g \in Handlers \ {h} : handler'[g] = handler[g]
  BY <1>1, <1>3, <1>4, WalletAssumption, OneMoves DEF IInv
<1>6. LoopServes'
  BY <1>1, <1>5, LoopKept DEF IInv
<1>7. TypeOK' /\ NothingOversold'
  BY <1>1, <1>5 DEF IInv, TypeOK, NothingOversold
<1> QED BY <1>5, <1>6, <1>7 DEF IInv

(* A move that changes only the phase, to one without a promise.           *)
LEMMA PhaseKeeps ==
  ASSUME IInv, NEW h \in Handlers, NEW p \in {"commit", "failed"},
         handler' = [handler EXCEPT ![h] = [handler[h] EXCEPT !.phase = p]],
         p = "commit" => handler[h].phase = "held",
         p = "failed" => handler[h].phase = "asked" /\ handler[h].stmt \in Writes,
         UNCHANGED <<amount, lock, loop, live, stock, handled, ops, sold, raced>>,
         struck' \in BOOLEAN, off' \in BOOLEAN
  PROVE  IInv'
<1> DEFINE r == [handler[h] EXCEPT !.phase = p]
<1>1. handler[h] \in Handling
  BY DEF IInv, TypeOK
<1>2. /\ r \in Handling /\ r.stmt = handler[h].stmt /\ r.phase = p
      /\ r.got = handler[h].got /\ r.hit = handler[h].hit
      /\ r.beaten = handler[h].beaten
  <2>1. p \in {"held", "commit", "done", "failed", "grant"}
    OBVIOUS
  <2> QED BY <1>1, <2>1, PhaseChanged
<1> HIDE DEF r
<1>3. Sees(r, amount)
  <2>1. Sees(handler[h], amount)
    BY DEF IInv, HandlersSee
  <2> QED BY <2>1, <1>2 DEF Sees, SeesSlot, SeesFunds, Writing, Writes
<1>4. lock' = h <=> r.phase \in {"held", "commit"}
  BY <1>2 DEF IInv, LockIsHeld
<1>5. /\ handler' \in [Handlers -> Handling] /\ LockIsHeld' /\ HandlersSee'
      /\ \A g \in Handlers \ {h} : handler'[g] = handler[g]
  BY <1>2, <1>3, <1>4, OneMoves DEF IInv, r
<1>6. LoopServes'
  BY <1>5, LoopKept DEF IInv
<1>7. TypeOK' /\ NothingOversold'
  BY <1>5 DEF IInv, TypeOK, NothingOversold
<1> QED BY <1>5, <1>6, <1>7 DEF IInv

(* The loop asks for the COMMIT.                                           *)
LEMMA LoopCommitsKeeps ==
  ASSUME IInv, NEW h \in Handlers, LoopCommits(h)
  PROVE  IInv'
<1>1. handler' = [handler EXCEPT ![h] = [handler[h] EXCEPT !.phase = "commit"]]
  BY Zenon DEF LoopCommits
<1>2. /\ handler[h].phase = "held"
      /\ UNCHANGED <<amount, lock, loop, live, stock, handled, ops, sold, raced,
                     struck, off>>
  BY Zenon DEF LoopCommits, counters
<1>3. struck' \in BOOLEAN /\ off' \in BOOLEAN
  BY <1>2 DEF IInv, TypeOK
<1> QED BY <1>1, <1>2, <1>3, PhaseKeeps

(* A statement that waited too long for the lock is given up.              *)
LEMMA ThreadTimesOutKeeps ==
  ASSUME IInv, NEW h \in Handlers, ThreadTimesOut(h)
  PROVE  IInv'
<1>1. handler' = [handler EXCEPT ![h] = [handler[h] EXCEPT !.phase = "failed"]]
  BY Zenon DEF ThreadTimesOut
<1>2. /\ handler[h].phase = "asked" /\ handler[h].stmt \in Writes
      /\ struck' = TRUE
      /\ UNCHANGED <<amount, lock, loop, live, stock, handled, ops, sold, raced,
                     off>>
  BY Zenon DEF ThreadTimesOut, counters
<1>3. struck' \in BOOLEAN /\ off' \in BOOLEAN
  BY <1>2 DEF IInv, TypeOK
<1> QED BY <1>1, <1>2, <1>3, PhaseKeeps

(* A handler that is not in a transaction ends.                            *)
LEMMA EndsKeeps ==
  ASSUME TypeOK, LockIsHeld, HandlersSee, NEW h \in Handlers, Ends(h),
         handler[h].phase \notin {"held", "commit"},
         UNCHANGED <<amount, lock>>
  PROVE  /\ handler' \in [Handlers -> Handling]
         /\ LockIsHeld' /\ HandlersSee'
         /\ handler'[h] = Idle
         /\ \A g \in Handlers \ {h} : handler'[g] = handler[g]
<1>1. Sees(Idle, amount)
  BY IdleIs DEF Sees, SeesSlot, SeesFunds, Writing
<1>2. lock' = h <=> Idle.phase \in {"held", "commit"}
  BY IdleIs DEF LockIsHeld
<1>3. handler' = [handler EXCEPT ![h] = Idle]
  BY DEF Ends
<1> QED BY <1>1, <1>2, <1>3, IdleIs, OneMoves

(* A handler that is not in a transaction asks for its next statement.     *)
LEMMA AsksKeeps ==
  ASSUME TypeOK, LockIsHeld, HandlersSee, NEW h \in Handlers,
         NEW s \in Reads \cup {"charge", "cut"}, Asks(h, s),
         handler[h].phase \notin {"held", "commit"},
         s = "cut" => handler[h].got \in 1..Stock,
         s = "charge" => handler[h].beaten \/ amount >= Price,
         UNCHANGED <<amount, lock>>
  PROVE  /\ handler' \in [Handlers -> Handling]
         /\ LockIsHeld' /\ HandlersSee'
         /\ handler'[h].phase = "asked"
         /\ \A g \in Handlers \ {h} : handler'[g] = handler[g]
<1> DEFINE v == IF s = "cut" THEN handler[h].got ELSE 0
           b == handler[h].beaten /\ s = "charge"
           r == AskOf(handler[h], s, v, b)
<1>1. handler[h] \in Handling
  BY DEF TypeOK
<1>2. s \in Reads \cup Writes /\ v \in Nat
  BY <1>1, RecordFields DEF Writes
<1>3. b \in BOOLEAN
  OBVIOUS
<1>4. /\ r \in Handling /\ r.stmt = s /\ r.phase = "asked" /\ r.got = v
      /\ r.beaten <=> b
  <2> HIDE DEF v, b
  <2> QED BY <1>1, <1>2, <1>3 DEF AskOf, Handling
<1>5. Sees(r, amount)
  <2> HIDE DEF r
  <2>1. SeesSlot(r) /\ Writing(r)
    BY <1>4 DEF SeesSlot, Writing, Reads
  <2>2. s = "charge" => r.beaten \/ amount >= Price
    BY <1>4
  <2>3. SeesFunds(r, amount)
    BY <1>4, <2>2 DEF SeesFunds
  <2> QED BY <2>1, <2>3 DEF Sees
<1>6. lock' = h <=> r.phase \in {"held", "commit"}
  BY <1>4 DEF LockIsHeld
<1>7. handler' = [handler EXCEPT ![h] = r]
  BY Zenon DEF Asks, AskOf
<1> HIDE DEF r
<1> QED BY <1>4, <1>5, <1>6, <1>7, OneMoves

(* The loop goes over to a handler's synchronous writes.                   *)
LEMMA BlocksKeeps ==
  ASSUME TypeOK, LockIsHeld, HandlersSee, NEW h \in Handlers,
         NEW op \in {"grant", "restock"}, Blocks(h, op),
         handler[h].phase = "done",
         op = "restock" => handler[h].stmt = "funds",
         handler[h].stmt = "funds" => handler[h].got >= Price,
         UNCHANGED <<amount, lock>>
  PROVE  /\ handler' \in [Handlers -> Handling] /\ loop' \in Executing
         /\ LockIsHeld' /\ HandlersSee' /\ LoopServes'
         /\ handler'[h].phase = "grant"
         /\ \A g \in Handlers \ {h} : handler'[g] = handler[g]
<1> DEFINE r == [handler[h] EXCEPT !.phase = "grant"]
<1>1. handler[h] \in Handling
  BY DEF TypeOK
<1>2. /\ r \in Handling /\ r.stmt = handler[h].stmt /\ r.phase = "grant"
      /\ r.got = handler[h].got /\ r.beaten = handler[h].beaten
  BY <1>1, PhaseChanged
<1>3. handler' = [handler EXCEPT ![h] = r]
  BY Zenon DEF Blocks
<1> HIDE DEF r
<1>4. Sees(r, amount)
  <2>1. Sees(handler[h], amount)
    BY DEF HandlersSee
  <2> QED BY <2>1, <1>2 DEF Sees, SeesSlot, SeesFunds, Writing
<1>5. lock' = h <=> r.phase \in {"held", "commit"}
  BY <1>2 DEF LockIsHeld
<1>6. /\ handler' \in [Handlers -> Handling] /\ LockIsHeld' /\ HandlersSee'
      /\ handler'[h] = r
      /\ \A g \in Handlers \ {h} : handler'[g] = handler[g]
  BY <1>2, <1>3, <1>4, <1>5, OneMoves
<1>7. loop' \in Executing /\ loop'.op = op /\ loop'.by = h
  BY DEF Blocks, Free, Executing
<1>8. LoopServes'
  BY <1>2, <1>6, <1>7 DEF LoopServes
<1> QED BY <1>2, <1>6, <1>7, <1>8

(* A transaction overtakes the handlers that are not in one.               *)
LEMMA OvertakesKeeps ==
  ASSUME TypeOK, HandlersSee, NEW h, NEW new \in Nat,
         \A g \in Handlers \ {h} : handler[g].phase \notin {"held", "commit"}
  PROVE  LET o == Overtakes(h, new) IN
           /\ o \in [Handlers -> Handling]
           /\ \A g \in Handlers :
                /\ o[g].phase = handler[g].phase /\ o[g].stmt = handler[g].stmt
                /\ o[g].hit <=> handler[g].hit
                /\ o[g].kind = handler[g].kind
                /\ g # h => Sees(o[g], new)
                /\ g = h => o[g] = handler[g]
<1> DEFINE o == Overtakes(h, new)
<1>1. DOMAIN o = Handlers
  BY DEF Overtakes
<1>2. ASSUME NEW g \in Handlers
      PROVE  /\ o[g] \in Handling
             /\ o[g].phase = handler[g].phase /\ o[g].stmt = handler[g].stmt
             /\ o[g].hit <=> handler[g].hit
             /\ o[g].kind = handler[g].kind
             /\ g # h => Sees(o[g], new)
             /\ g = h => o[g] = handler[g]
  <2> DEFINE hurt == /\ g # h /\ new < amount
                     /\ \/ handler[g].stmt = "funds" /\ handler[g].phase # "asked"
                        \/ handler[g].stmt = "charge" /\ handler[g].phase = "asked"
             r == [handler[g] EXCEPT !.beaten = TRUE]
  <2>1. o[g] = IF hurt THEN r ELSE handler[g]
    BY DEF Overtakes
  <2>2. handler[g] \in Handling /\ Sees(handler[g], amount) /\ amount \in Nat
    BY DEF TypeOK, HandlersSee
  <2>3. /\ r \in Handling /\ r.stmt = handler[g].stmt
        /\ r.phase = handler[g].phase /\ r.got = handler[g].got
        /\ r.hit = handler[g].hit /\ r.beaten = TRUE
        /\ r.kind = handler[g].kind
    BY <2>2 DEF Handling
  <2>4. CASE hurt
    <3>1. o[g] = r /\ g # h
      BY <2>1, <2>4
    <3> HIDE DEF r, o
    <3>2. Sees(r, new)
      BY <2>2, <2>3, <3>1 DEF Sees, SeesSlot, SeesFunds, Writing
    <3> QED BY <2>3, <3>1, <3>2
  <2>5. CASE ~hurt
    <3>1. o[g] = handler[g]
      BY <2>1, <2>5
    <3>2. g # h => Sees(handler[g], new)
      <4>1. g # h => handler[g].phase \notin {"held", "commit"}
        OBVIOUS
      <4>2. handler[g].got \in Nat
        BY <2>2, RecordFields
      <4> QED BY <2>2, <2>5, <4>1, <4>2, WalletAssumption
              DEF Sees, SeesSlot, SeesFunds, Writing
    <3> QED BY <2>2, <3>1, <3>2
  <2> HIDE DEF hurt, o, r
  <2> QED BY <2>4, <2>5
<1>3. o \in [Handlers -> Handling]
  <2>1. o = [g \in Handlers |-> o[g]]
    BY DEF Overtakes
  <2> QED BY <1>2, <2>1
<1> HIDE DEF o
<1> QED BY <1>2, <1>3 DEF o

(* What a COMMIT leaves in the row.                                        *)
LEMMA BalanceIsNat ==
  ASSUME IInv, NEW h \in Handlers, handler[h].phase = "commit"
  PROVE  Balance(h) \in Nat
<1>1. handler[h] \in Handling /\ Sees(handler[h], amount) /\ amount \in Nat
  BY DEF IInv, TypeOK, HandlersSee
<1>2. handler[h].got \in Nat /\ Price \in Nat
  BY <1>1, RecordFields, WalletAssumption
<1>3. CASE handler[h].stmt = "charge" /\ handler[h].hit
  <2>1. amount >= Price
    BY <1>1, <1>3 DEF Sees, SeesFunds
  <2>2. Balance(h) = amount - Price
    BY <1>3 DEF Balance
  <2> QED BY <1>1, <1>2, <2>1, <2>2
<1>4. CASE ~(handler[h].stmt = "charge" /\ handler[h].hit)
  <2>1. Balance(h) \in {handler[h].got, amount + handler[h].got, amount}
    BY <1>4 DEF Balance
  <2> QED BY <1>1, <1>2, <2>1
<1> QED BY <1>3, <1>4

(* A driver thread commits: what the others have seen is overtaken or      *)
(* holds.                                                                  *)
LEMMA ThreadCommitsKeeps ==
  ASSUME IInv, NEW h \in Handlers, ThreadCommits(h)
  PROVE  IInv'
<1> DEFINE o == Overtakes(h, Balance(h))
           r == [handler[h] EXCEPT !.phase = "done"]
<1>1. /\ handler[h].phase = "commit" /\ lock' = NoOne /\ amount' = Balance(h)
      /\ handler' = [o EXCEPT ![h].phase = "done"]
      /\ UNCHANGED <<live, loop, handled, ops, struck>>
  BY Zenon DEF ThreadCommits, counters
<1>2. lock = h /\ h # NoOne
  BY <1>1, WalletAssumption DEF IInv, LockIsHeld
<1>3. \A g \in Handlers \ {h} : handler[g].phase \notin {"held", "commit"}
  BY <1>2 DEF IInv, LockIsHeld
<1>4. Balance(h) \in Nat
  BY <1>1, BalanceIsNat
<1>5. /\ o \in [Handlers -> Handling] /\ o[h] = handler[h]
      /\ \A g \in Handlers : /\ o[g].phase = handler[g].phase
                             /\ o[g].stmt = handler[g].stmt
                             /\ g # h => Sees(o[g], Balance(h))
  BY <1>3, <1>4, OvertakesKeeps DEF IInv
<1>6. /\ handler[h] \in Handling
      /\ r \in Handling /\ r.stmt = handler[h].stmt /\ r.phase = "done"
      /\ r.got = handler[h].got /\ r.hit = handler[h].hit
      /\ r.beaten = handler[h].beaten
  <2>1. handler[h] \in Handling
    BY DEF IInv, TypeOK
  <2> QED BY <2>1, PhaseChanged
<1> HIDE DEF o
<1>7. handler' = [o EXCEPT ![h] = r]
  BY <1>1, <1>5
<1>8. Sees(r, Balance(h))
  <2>1. handler[h].stmt \in Writes /\ SeesFunds(handler[h], amount)
    BY <1>1 DEF IInv, HandlersSee, Sees, Writing
  <2> HIDE DEF r
  <2> QED BY <2>1, <1>1, <1>6 DEF Sees, SeesSlot, SeesFunds, Writing, Writes
<1> HIDE DEF r
<1>9. /\ handler' \in [Handlers -> Handling] /\ handler'[h] = r
      /\ \A g \in Handlers \ {h} : handler'[g] = o[g]
  BY <1>5, <1>6, <1>7
<1>10. LockIsHeld'
  BY <1>1, <1>3, <1>5, <1>6, <1>9, WalletAssumption DEF LockIsHeld
<1>11. HandlersSee'
  BY <1>1, <1>5, <1>8, <1>9 DEF HandlersSee
<1>12. LoopServes'
  <2>1. LoopServes /\ loop' = loop /\ handler[h].phase # "grant"
    BY <1>1 DEF IInv
  <2>2. \A g \in Handlers \ {h} : /\ handler'[g].phase = handler[g].phase
                                  /\ handler'[g].stmt = handler[g].stmt
    BY <1>5, <1>9
  <2> QED BY <2>1, <2>2 DEF LoopServes
<1>13. /\ stock' \in 0..Stock /\ sold' \in Nat /\ raced' \in BOOLEAN
       /\ off' \in BOOLEAN /\ NothingOversold'
  <2>1. off' \in BOOLEAN
    BY Zenon DEF ThreadCommits
  <2>2. stock \in 0..Stock /\ sold \in Nat /\ raced \in BOOLEAN /\ Stock \in Nat
    BY WalletAssumption DEF IInv, TypeOK
  <2>3. CASE handler[h].stmt = "cut"
    <3>1. handler[h].got \in 1..Stock
      BY <1>1, <2>3 DEF IInv, HandlersSee, Sees, SeesSlot
    <3>2. /\ stock' = handler[h].got - 1 /\ sold' = sold + 1
          /\ raced' = (raced \/ stock # handler[h].got)
      BY <2>3, Zenon DEF ThreadCommits
    <3>3. raced' \in BOOLEAN
      BY <3>2, <2>2, Zenon
    <3>4. stock' \in 0..Stock /\ sold' \in Nat
      BY <3>1, <3>2, <2>2
    <3>5. NothingOversold'
      <4>1. CASE raced'
        BY <4>1, Zenon DEF NothingOversold
      <4>2. CASE ~raced'
        <5>1. ~raced /\ stock = handler[h].got
          BY <3>2, <4>2
        <5>2. sold <= Stock /\ stock = Stock - sold
          BY <5>1, Zenon DEF IInv, NothingOversold
        <5>3. sold' <= Stock /\ stock' = Stock - sold'
          <6>1. /\ stock' = stock - 1 /\ sold' = sold + 1 /\ stock \in 1..Stock
                /\ sold \in Nat /\ Stock \in Nat
            BY <5>1, <3>1, <3>2, <2>2
          <6> QED BY <6>1, <5>2
        <5> QED BY <5>3, Zenon DEF NothingOversold
      <4> QED BY <4>1, <4>2
    <3> QED BY <2>1, <3>3, <3>4, <3>5
  <2>4. CASE handler[h].stmt # "cut"
    <3>1. UNCHANGED <<stock, sold, raced>>
      BY <2>4, Zenon DEF ThreadCommits
    <3>2. NothingOversold'
      BY <3>1 DEF IInv, NothingOversold
    <3> QED BY <2>1, <2>2, <3>1, <3>2
  <2> QED BY <2>3, <2>4
<1>14. TypeOK'
  BY <1>1, <1>4, <1>9, <1>13 DEF IInv, TypeOK
<1> QED BY <1>10, <1>11, <1>12, <1>13, <1>14 DEF IInv

(* The loop goes on with a handler whose statement is done.                *)
LEMMA LoopResumesKeeps ==
  ASSUME IInv, NEW h \in Handlers, LoopResumes(h)
  PROVE  IInv'
<1>1. /\ LoopIsFree /\ handler[h].phase = "done"
      /\ UNCHANGED <<amount, stock, lock, handled, ops, sold, struck, raced,
                     off>>
  BY Zenon DEF LoopResumes, counters
<1>2. /\ TypeOK /\ LockIsHeld /\ HandlersSee /\ LoopServes
      /\ Sees(handler[h], amount) /\ handler[h] \in Handling
      /\ amount \in Nat /\ live \in Int /\ Price \in Nat
  BY WalletAssumption DEF IInv, HandlersSee, TypeOK
<1> DEFINE Kept == /\ handler' \in [Handlers -> Handling]
                   /\ loop' \in Executing
                   /\ LockIsHeld' /\ HandlersSee' /\ LoopServes'
<1>3. ASSUME Ends(h) \/ \E s \in {"funds", "reread"} : Asks(h, s),
             loop' = loop
      PROVE  Kept
  <2>1. /\ handler' \in [Handlers -> Handling] /\ LockIsHeld' /\ HandlersSee'
        /\ \A g \in Handlers \ {h} : handler'[g] = handler[g]
    <3>1. CASE Ends(h)
      BY <3>1, <1>1, <1>2, EndsKeeps
    <3>2. CASE \E s \in {"funds", "reread"} : Asks(h, s)
      BY <3>2, <1>1, <1>2, AsksKeeps DEF Reads
    <3> QED BY <1>3, <3>1, <3>2
  <2> QED BY <2>1, <1>1, <1>2, <1>3, LoopKept DEF TypeOK
<1>4. Kept /\ live' \in Int
  <2>1. CASE handler[h].stmt = "slot"
    <3>1. (Ends(h) \/ Asks(h, "funds")) /\ UNCHANGED <<live, loop>>
      BY <2>1, Zenon DEF LoopResumes
    <3> QED BY <3>1, <1>2, <1>3
  <2>2. CASE handler[h].stmt = "funds"
    <3>1. /\ live' = live
          /\ \/ Ends(h) /\ loop' = loop
             \/ MayBuy(h) /\ Blocks(h, "restock")
             \/ MayBuy(h) /\ Asks(h, "charge") /\ loop' = loop
      BY <2>2 DEF LoopResumes
    <3>2. CASE Ends(h) /\ loop' = loop
      BY <3>1, <3>2, <1>2, <1>3
    <3>3. CASE MayBuy(h) /\ Blocks(h, "restock")
      BY <3>1, <3>3, <2>2, <1>1, <1>2, BlocksKeeps DEF MayBuy
    <3>4. CASE MayBuy(h) /\ Asks(h, "charge") /\ loop' = loop
      <4>1. handler[h].beaten \/ amount >= Price
        <5>1. handler[h].beaten \/ amount >= handler[h].got
          BY <1>1, <1>2, <2>2 DEF Sees, SeesFunds
        <5>2. handler[h].got >= Price /\ handler[h].got \in Nat
          BY <3>4, <1>2, RecordFields DEF MayBuy
        <5> QED BY <5>1, <5>2, <1>2
      <4>2. /\ handler' \in [Handlers -> Handling] /\ LockIsHeld' /\ HandlersSee'
            /\ \A g \in Handlers \ {h} : handler'[g] = handler[g]
        BY <4>1, <3>4, <1>1, <1>2, AsksKeeps
      <4> QED BY <4>2, <3>1, <3>4, <1>1, <1>2, LoopKept DEF TypeOK
    <3> QED BY <3>1, <3>2, <3>3, <3>4
  <2>3. CASE handler[h].stmt = "charge"
    <3>1. /\ live' = Bumped(h) /\ loop' = loop
          /\ Ends(h) \/ Asks(h, "reread")
      BY <2>3, Zenon DEF LoopResumes
    <3>2. live' \in Int
      BY <3>1, <1>2 DEF Bumped
    <3> QED BY <3>1, <3>2, <1>3
  <2>4. CASE handler[h].stmt = "reread"
    <3>1. /\ UNCHANGED <<live, loop>>
          /\ Ends(h) \/ (InStock(h) /\ Asks(h, "cut"))
      BY <2>4, Zenon DEF LoopResumes
    <3>2. CASE Ends(h)
      BY <3>1, <3>2, <1>2, <1>3
    <3>3. CASE InStock(h) /\ Asks(h, "cut")
      <4>1. handler[h].got \in 1..Stock
        BY <2>4, <3>3, <1>1, <1>2, WalletAssumption DEF InStock, Sees, SeesSlot
      <4>2. /\ handler' \in [Handlers -> Handling] /\ LockIsHeld' /\ HandlersSee'
            /\ \A g \in Handlers \ {h} : handler'[g] = handler[g]
        BY <4>1, <3>3, <1>1, <1>2, AsksKeeps
      <4> QED BY <4>2, <3>1, <1>1, <1>2, LoopKept DEF TypeOK
    <3> QED BY <3>1, <3>2, <3>3
  <2>5. CASE handler[h].stmt = "cut"
    <3>1. Blocks(h, "grant") /\ live' = live
      BY <2>5, Zenon DEF LoopResumes
    <3>2. handler[h].stmt # "funds" /\ handler[h].phase = "done"
      BY <2>5, <1>1
    <3>3. Kept
      BY <3>1, <3>2, <1>1, <1>2, BlocksKeeps
    <3> QED BY <3>1, <3>3, <1>2
  <2>6. CASE handler[h].stmt \notin {"slot", "funds", "charge", "reread", "cut"}
    <3>1. /\ handler[h].stmt # "slot" /\ handler[h].stmt # "funds"
          /\ handler[h].stmt # "charge" /\ handler[h].stmt # "reread"
          /\ handler[h].stmt # "cut"
      BY <2>6
    <3>2. Ends(h) /\ UNCHANGED <<live, loop>>
      BY <3>1, Zenon DEF LoopResumes
    <3> QED BY <3>2, <1>2, <1>3
  <2> QED BY <2>1, <2>2, <2>3, <2>4, <2>5, <2>6
<1>5. TypeOK'
  BY <1>1, <1>4 DEF IInv, TypeOK
<1>6. NothingOversold'
  BY <1>1 DEF IInv, NothingOversold
<1> QED BY <1>4, <1>5, <1>6 DEF IInv

(* A handler whose statement was given up ends.                            *)
LEMMA LoopFailsKeeps ==
  ASSUME IInv, NEW h \in Handlers, LoopFails(h)
  PROVE  IInv'
<1>1. /\ Ends(h) /\ handler[h].phase = "failed"
      /\ UNCHANGED <<amount, live, stock, lock, loop, handled, ops, sold, struck,
                     raced, off>>
  BY Zenon DEF LoopFails, counters
<1>2. /\ handler' \in [Handlers -> Handling] /\ LockIsHeld' /\ HandlersSee'
      /\ \A g \in Handlers \ {h} : handler'[g] = handler[g]
  BY <1>1, EndsKeeps DEF IInv
<1>3. LoopServes'
  BY <1>1, <1>2, LoopKept DEF IInv
<1>4. TypeOK' /\ NothingOversold'
  BY <1>1, <1>2 DEF IInv, TypeOK, NothingOversold
<1> QED BY <1>2, <1>3, <1>4 DEF IInv

(* A handler is cancelled: it is forgotten, or what its thread has been    *)
(* asked for goes on without it.                                           *)
LEMMA CancelsKeeps ==
  ASSUME IInv, NEW h \in Handlers, Cancels(h)
  PROVE  IInv'
<1> DEFINE r == [handler[h] EXCEPT !.kind = "gone"]
           away == \/ handler[h].stmt \in Reads
                   \/ handler[h].phase \in {"done", "failed"}
<1>1. /\ LoopIsFree
      /\ IF away THEN Ends(h) ELSE handler' = [handler EXCEPT ![h] = r]
      /\ off' \in BOOLEAN
      /\ UNCHANGED <<amount, live, stock, lock, loop, handled, ops, sold, struck,
                     raced>>
  BY Zenon DEF Cancels, counters
<1>2. /\ handler[h] \in Handling /\ Sees(handler[h], amount)
      /\ Writing(handler[h])
  BY DEF IInv, TypeOK, HandlersSee, Sees
<1>3. /\ handler' \in [Handlers -> Handling] /\ LockIsHeld' /\ HandlersSee'
  <2>1. CASE away
    <3>1. handler[h].phase \notin {"held", "commit"}
      BY <1>2, <2>1 DEF Writing, Reads, Writes
    <3> QED BY <1>1, <2>1, <3>1, EndsKeeps DEF IInv
  <2>2. CASE ~away
    <3>1. /\ r \in Handling /\ r.stmt = handler[h].stmt
          /\ r.phase = handler[h].phase /\ r.got = handler[h].got
          /\ r.hit = handler[h].hit /\ r.beaten = handler[h].beaten
      BY <1>2, KindChanged
    <3>2. handler' = [handler EXCEPT ![h] = r]
      BY <1>1, <2>2
    <3> HIDE DEF r
    <3>3. Sees(r, amount)
      BY <1>2, <3>1 DEF Sees, SeesSlot, SeesFunds, Writing
    <3>4. lock' = h <=> r.phase \in {"held", "commit"}
      BY <1>1, <3>1 DEF IInv, LockIsHeld
    <3> QED BY <1>1, <3>1, <3>2, <3>3, <3>4, OneMoves DEF IInv
  <2> QED BY <2>1, <2>2
<1>4. LoopServes'
  <2>1. loop.op \notin {"grant", "restock"}
    BY <1>1 DEF LoopIsFree
  <2> QED BY <1>1, <2>1 DEF IInv, LoopServes
<1>5. TypeOK' /\ NothingOversold'
  BY <1>1, <1>3 DEF IInv, TypeOK, NothingOversold
<1> QED BY <1>3, <1>4, <1>5 DEF IInv

(* A cancelled handler's transaction is rolled back, or is over.           *)
LEMMA LoopUnwindsKeeps ==
  ASSUME IInv, NEW h \in Handlers, LoopUnwinds(h)
  PROVE  IInv'
<1>1. /\ LoopIsFree /\ handler[h].phase \in {"held", "done"}
      /\ lock' = IF lock = h THEN NoOne ELSE lock
      /\ handler' = [handler EXCEPT ![h] = Idle]
      /\ UNCHANGED <<amount, live, stock, loop, handled, ops, sold, struck, raced,
                     off>>
  BY Zenon DEF LoopUnwinds, counters, Ends
<1>2. /\ Sees(Idle, amount) /\ lock' # h
      /\ \A g \in Handlers \ {h} : lock' = g <=> lock = g
  BY <1>1, IdleIs, WalletAssumption DEF Sees, SeesSlot, SeesFunds, Writing
<1>3. /\ handler' \in [Handlers -> Handling] /\ LockIsHeld' /\ HandlersSee'
  BY <1>1, <1>2, IdleIs, OneMoves DEF IInv
<1>4. LoopServes'
  <2>1. loop.op \notin {"grant", "restock"}
    BY <1>1 DEF LoopIsFree
  <2> QED BY <1>1, <2>1 DEF IInv, LoopServes
<1>5. TypeOK' /\ NothingOversold'
  BY <1>1, <1>3 DEF IInv, TypeOK, NothingOversold
<1> QED BY <1>3, <1>4, <1>5 DEF IInv

(* What changes no handler, no stock, no lock and no balance.              *)
LEMMA UntouchedKeeps ==
  ASSUME IInv, UNCHANGED <<amount, stock, lock, handler, handled, sold, raced>>
  PROVE  LockIsHeld' /\ HandlersSee' /\ NothingOversold'
BY DEF IInv, LockIsHeld, HandlersSee, NothingOversold

(* A synchronous writer reads the balance.                                 *)
LEMMA SyncReadsKeeps ==
  ASSUME IInv, SyncReads
  PROVE  IInv'
<1>1. PICK op \in {"add", "spend", "replace"}, n \in Amounts :
        loop' = [Free EXCEPT !.op = op, !.n = n, !.seen = amount]
  BY Zenon DEF SyncReads
<1>2. /\ ops < MaxOps /\ ops' = ops + 1 /\ LoopIsFree
      /\ UNCHANGED <<amount, live, stock, lock, handler, handled, sold, struck,
                     raced, off>>
  BY Zenon DEF SyncReads
<1>3. n \in Nat /\ amount \in Nat
  BY <1>1, WalletAssumption DEF IInv, TypeOK
<1>4. loop' \in Executing /\ loop'.op = op /\ loop'.by = NoOne
  BY <1>1, <1>3 DEF Free, Executing
<1>5. LoopServes'
  BY <1>1, <1>4 DEF LoopServes
<1>6. TypeOK'
  BY <1>2, <1>4, WalletAssumption DEF IInv, TypeOK
<1> QED BY <1>2, <1>5, <1>6, UntouchedKeeps DEF IInv

(* A login loads the map from the rows.                                    *)
LEMMA LoadsKeeps ==
  ASSUME IInv, Loads
  PROVE  IInv'
<1>1. /\ live' = amount /\ ops < MaxOps /\ ops' = ops + 1
      /\ off' \in BOOLEAN
      /\ UNCHANGED <<amount, stock, lock, handler, loop, handled, sold, struck,
                     raced>>
  BY DEF Loads
<1>2. LoopServes'
  BY <1>1 DEF IInv, LoopServes
<1>3. TypeOK'
  BY <1>1, WalletAssumption DEF IInv, TypeOK
<1> QED BY <1>1, <1>2, <1>3, UntouchedKeeps DEF IInv

(* A loop with nothing to execute.                                         *)
LEMMA FreeIs ==
  Free \in Executing /\ Free.op = "none" /\ Free.by = NoOne
BY DEF Free, Executing

(* A synchronous writer writes what it computed.                           *)
LEMMA SyncWritesKeeps ==
  ASSUME IInv, SyncWrites
  PROVE  IInv'
<1> DEFINE new == CASE loop.op = "add" -> loop.seen + loop.n
                    [] loop.op = "spend" -> Clipped(loop.seen - loop.n)
                    [] OTHER -> loop.n
<1>1. /\ lock = NoOne /\ amount' = new /\ handler' = Overtakes(NoOne, new)
      /\ loop' = Free
      /\ UNCHANGED <<stock, lock, handled, ops, sold, struck, raced>>
  BY Zenon DEF SyncWrites, counters
<1>2. /\ loop.seen \in Nat /\ loop.n \in Nat /\ live \in Int /\ off \in BOOLEAN
      /\ TypeOK /\ HandlersSee
  BY DEF IInv, TypeOK, Executing
<1>3. new \in Nat
  BY <1>2 DEF Clipped
<1>4. live' \in Int
  <2>1. live' \in {live + loop.n, live - loop.n, live}
    BY DEF SyncWrites
  <2> QED BY <2>1, <1>2
<1>5. off' \in BOOLEAN
  BY DEF SyncWrites
<1>6. \A g \in Handlers : handler[g].phase \notin {"held", "commit"}
  BY <1>1, WalletAssumption DEF IInv, LockIsHeld
<1> HIDE DEF new
<1>7. /\ handler' \in [Handlers -> Handling]
      /\ \A g \in Handlers : /\ handler'[g].phase = handler[g].phase
                             /\ Sees(handler'[g], amount')
  BY <1>1, <1>2, <1>3, <1>6, OvertakesKeeps, WalletAssumption
<1>8. LockIsHeld' /\ HandlersSee'
  BY <1>1, <1>7 DEF IInv, LockIsHeld, HandlersSee
<1>9. LoopServes'
  BY <1>1, FreeIs DEF LoopServes
<1>10. TypeOK'
  BY <1>1, <1>3, <1>4, <1>5, <1>7, FreeIs DEF IInv, TypeOK
<1>11. NothingOversold'
  BY <1>1 DEF IInv, NothingOversold
<1> QED BY <1>8, <1>9, <1>10, <1>11 DEF IInv

(* The loop hands out the good.                                            *)
LEMMA GrantsKeeps ==
  ASSUME IInv, Grants
  PROVE  IInv'
<1>1. /\ loop.op = "grant" /\ Ends(loop.by) /\ loop' = Free
      /\ UNCHANGED <<amount, live, stock, lock, handled, ops, sold, struck, raced,
                     off>>
  BY Zenon DEF Grants, counters
<1>2. loop.by \in Handlers /\ handler[loop.by].phase = "grant"
  BY <1>1 DEF IInv, LoopServes
<1>3. handler' \in [Handlers -> Handling] /\ LockIsHeld' /\ HandlersSee'
  BY <1>1, <1>2, EndsKeeps DEF IInv
<1>4. LoopServes'
  BY <1>1, FreeIs DEF LoopServes
<1>5. TypeOK' /\ NothingOversold'
  BY <1>1, <1>3, FreeIs DEF IInv, TypeOK, NothingOversold
<1> QED BY <1>3, <1>4, <1>5 DEF IInv

(* The loop fills the slot again.                                          *)
LEMMA RestocksKeeps ==
  ASSUME IInv, Restocks
  PROVE  IInv'
<1>1. /\ loop.op = "restock" /\ Asks(loop.by, "charge") /\ loop' = Free
      /\ stock' = Stock /\ sold' = 0 /\ raced' = FALSE
      /\ UNCHANGED <<amount, live, lock, handled, ops, struck, off>>
  BY Zenon DEF Restocks, counters
<1>2. /\ loop.by \in Handlers /\ handler[loop.by].phase = "grant"
      /\ handler[loop.by].stmt = "funds"
  BY <1>1 DEF IInv, LoopServes
<1>3. handler[loop.by].beaten \/ amount >= Price
  <2>1. /\ Sees(handler[loop.by], amount) /\ handler[loop.by] \in Handling
        /\ amount \in Nat /\ Price \in Nat
    BY <1>2, WalletAssumption DEF IInv, HandlersSee, TypeOK
  <2>2. handler[loop.by].got \in Nat
    BY <2>1, RecordFields
  <2> QED BY <2>1, <2>2, <1>2 DEF Sees, SeesFunds
<1>4. handler' \in [Handlers -> Handling] /\ LockIsHeld' /\ HandlersSee'
  BY <1>1, <1>2, <1>3, AsksKeeps DEF IInv
<1>5. LoopServes'
  BY <1>1, FreeIs DEF LoopServes
<1>6. TypeOK'
  <2>1. stock' \in 0..Stock /\ sold' \in Nat
    BY <1>1, WalletAssumption
  <2>2. raced' \in BOOLEAN
    BY <1>1, Zenon
  <2>3. /\ amount' \in Nat /\ live' \in Int /\ lock' \in Handlers \cup {NoOne}
        /\ handled' \in 0..MaxHandled /\ ops' \in 0..MaxOps
        /\ struck' \in BOOLEAN /\ off' \in BOOLEAN
    BY <1>1, Zenon DEF IInv, TypeOK
  <2>4. loop' \in Executing
    BY <1>1, FreeIs
  <2> QED BY <1>4, <2>1, <2>2, <2>3, <2>4, Zenon DEF TypeOK
<1>7. NothingOversold'
  BY <1>1, WalletAssumption DEF NothingOversold
<1> QED BY <1>4, <1>5, <1>6, <1>7 DEF IInv

(* A synchronous statement is given up.                                    *)
LEMMA LoopTimesOutKeeps ==
  ASSUME IInv, LoopTimesOut
  PROVE  IInv'
<1>1. /\ struck' = TRUE /\ loop' = Free
      /\ IF loop.by = NoOne THEN UNCHANGED handler ELSE Ends(loop.by)
      /\ UNCHANGED <<amount, live, stock, lock, handled, ops, sold, raced, off>>
  BY Zenon DEF LoopTimesOut, counters
<1>2. handler' \in [Handlers -> Handling] /\ LockIsHeld' /\ HandlersSee'
  <2>1. CASE loop.by = NoOne
    BY <1>1, <2>1, UntouchedKeeps DEF IInv, TypeOK
  <2>2. CASE loop.by # NoOne
    <3>1. loop.by \in Handlers /\ handler[loop.by].phase = "grant"
      BY <2>2 DEF IInv, LoopServes
    <3> QED BY <3>1, <1>1, <2>2, EndsKeeps DEF IInv
  <2> QED BY <2>1, <2>2
<1>3. LoopServes'
  BY <1>1, FreeIs DEF LoopServes
<1>4. TypeOK' /\ NothingOversold'
  BY <1>1, <1>2, FreeIs DEF IInv, TypeOK, NothingOversold
<1> QED BY <1>2, <1>3, <1>4 DEF IInv

(* Every step keeps the invariant.                                         *)
LEMMA NextKeeps ==
  ASSUME IInv, [Next]_vars
  PROVE  IInv'
<1>1. CASE \E h \in Handlers :
             \/ Starts(h) \/ Thread(h) \/ Resume(h) \/ ThreadTimesOut(h)
             \/ Cancels(h)
  BY <1>1, StartsKeeps, ThreadReadsKeeps, ThreadLocksKeeps, ThreadCommitsKeeps,
     LoopCommitsKeeps, LoopResumesKeeps, LoopFailsKeeps, ThreadTimesOutKeeps,
     CancelsKeeps, LoopUnwindsKeeps
     DEF Thread, Resume
<1>2. CASE SyncReads \/ Loads \/ Sync
  BY <1>2, SyncReadsKeeps, LoadsKeeps, SyncWritesKeeps, GrantsKeeps,
     RestocksKeeps, LoopTimesOutKeeps DEF Sync
<1>3. CASE UNCHANGED vars
  <2>1. LockIsHeld' /\ HandlersSee' /\ NothingOversold'
    BY <1>3, UntouchedKeeps DEF vars, counters
  <2>2. LoopServes'
    BY <1>3 DEF IInv, LoopServes, vars
  <2>3. TypeOK'
    BY <1>3 DEF IInv, TypeOK, vars, counters
  <2> QED BY <2>1, <2>2, <2>3 DEF IInv
<1> QED BY <1>1, <1>2, <1>3 DEF Next

(* The inductive invariant holds in every reachable state.                 *)
THEOREM Invariance == Spec => []IInv
<1> QED BY InitHolds, NextKeeps, PTL DEF Spec

(* Types are kept.                                                         *)
THEOREM TypeCorrect == Spec => []TypeOK
<1>1. IInv => TypeOK
  BY DEF IInv
<1> QED BY Invariance, <1>1, PTL

(* The slot of the shop is not oversold (guild_shop_good_decrement), unless *)
(* a sale wrote back a count that had changed.                             *)
THEOREM SlotKept == Spec => []NothingOversold
<1>1. IInv => NothingOversold
  BY DEF IInv
<1> QED BY Invariance, <1>1, PTL

(* Goods go out for nothing only when another transaction lowered the      *)
(* balance between the check and the UPDATE (consume_resource_async).      *)
THEOREM FreeGoods == Spec => []FreeOnlyIfOvertaken
<1>1. IInv => FreeOnlyIfOvertaken
  <2>1. ASSUME IInv, NEW h \in Handlers, handler[h].stmt = "charge",
               handler[h].phase = "done", ~handler[h].hit
        PROVE  handler[h].beaten
    <3>1. SeesFunds(handler[h], amount)
      BY <2>1 DEF IInv, HandlersSee, Sees
    <3>2. handler[h].phase \in {"held", "commit", "done"}
      BY <2>1
    <3> QED BY <2>1, <3>1, <3>2, Zenon DEF SeesFunds
  <2> QED BY <2>1, Zenon DEF FreeOnlyIfOvertaken
<1> QED BY Invariance, <1>1, PTL

-----------------------------------------------------------------------------
(* The live map and the row.                                               *)

Owed(r) ==
  r.stmt = "charge" /\ r.phase = "done" /\ r.hit /\ r.kind # "gone"

(* Finitely many handlers have changed the row and not yet the map.        *)
LEMMA UnreportedIsFinite ==
  ASSUME TypeOK
  PROVE  /\ Unreported = {g \in Handlers : Owed(handler[g])}
         /\ IsFiniteSet(Unreported) /\ Cardinality(Unreported) \in Nat
<1>1. Unreported = {g \in Handlers : Owed(handler[g])}
  BY DEF Unreported, Owed
<1>2. IsFiniteSet(Unreported)
  BY <1>1, WalletAssumption, FS_Subset
<1> QED BY <1>1, <1>2, FS_CardinalityType

(* A step in which no handler comes to owe or ceases to.                   *)
LEMMA NobodyReports ==
  ASSUME LiveFollowsRow, UNCHANGED <<live, amount>>, off => off',
         \A g \in Handlers : Owed(handler'[g]) <=> Owed(handler[g])
  PROVE  LiveFollowsRow'
<1>1. Unreported' = Unreported
  BY Zenon DEF Unreported, Owed
<1> QED BY <1>1 DEF LiveFollowsRow

(* A handler that owes the map nothing before and after leaves the map     *)
(* right.                                                                  *)
LEMMA OthersReportNothing ==
  ASSUME LiveFollowsRow, UNCHANGED <<live, amount>>, off => off',
         NEW h \in Handlers, ~Owed(handler[h]), ~Owed(handler'[h]),
         \A g \in Handlers \ {h} : handler'[g] = handler[g]
  PROVE  LiveFollowsRow'
<1>1. \A g \in Handlers : Owed(handler'[g]) <=> Owed(handler[g])
  <2> TAKE g \in Handlers
  <2>1. CASE g = h
    BY <2>1, Zenon
  <2>2. CASE g # h
    <3>1. handler'[g] = handler[g]
      BY <2>2
    <3> QED BY <3>1, Zenon
  <2> QED BY <2>1, <2>2
<1> QED BY <1>1, NobodyReports

(* Where the handler that moves is before and after an action that is      *)
(* neither a COMMIT nor the report of one.                                 *)
LEMMA StartsSilently ==
  ASSUME TypeOK, NEW h \in Handlers, Starts(h)
  PROVE  /\ UNCHANGED <<live, amount, off>> /\ ~Owed(handler[h])
         /\ ~Owed(handler'[h])
         /\ \A g \in Handlers \ {h} : handler'[g] = handler[g]
<1>1. handler[h] = Idle /\ UNCHANGED <<live, amount, off>>
  BY Zenon DEF Starts
<1>2. PICK k, s, n : handler' = [handler EXCEPT ![h] = StartOf(k, s, n)]
  BY StartsWith
<1>3. StartOf(k, s, n).phase = "asked"
  BY DEF StartOf, Idle
<1>4. /\ handler'[h] = StartOf(k, s, n)
      /\ \A g \in Handlers \ {h} : handler'[g] = handler[g]
  BY <1>2 DEF TypeOK
<1> QED BY <1>1, <1>3, <1>4, IdleIs DEF Owed

(* A phase that is not the end of a charge owes the map nothing.           *)
LEMMA PhaseMovesSilently ==
  ASSUME TypeOK, NEW h \in Handlers, NEW r, r.phase = "done" => r.stmt # "charge",
         handler' = [handler EXCEPT ![h] = r],
         handler[h].phase = "done" => handler[h].stmt # "charge"
  PROVE  /\ ~Owed(handler[h]) /\ ~Owed(handler'[h])
         /\ \A g \in Handlers \ {h} : handler'[g] = handler[g]
BY DEF TypeOK, Owed

(* Only a COMMIT and the loop's resumption touch what is owed.             *)
LEMMA ThreadsMoveSilently ==
  ASSUME TypeOK, NEW h \in Handlers,
         \/ ThreadReads(h) \/ ThreadLocks(h) \/ LoopCommits(h)
         \/ ThreadTimesOut(h) \/ LoopFails(h)
  PROVE  /\ UNCHANGED <<live, amount, off>> /\ ~Owed(handler[h])
         /\ ~Owed(handler'[h])
         /\ \A g \in Handlers \ {h} : handler'[g] = handler[g]
<1>0. handler[h] \in Handling /\ Matches(h) \in BOOLEAN /\ amount \in Nat
        /\ stock \in Nat
  BY WalletAssumption DEF TypeOK, Matches
<1>1. CASE ThreadReads(h)
  <2> DEFINE v == IF handler[h].stmt = "funds" THEN amount ELSE stock
             r == [handler[h] EXCEPT !.phase = "done", !.got = v]
  <2>1. /\ handler[h].phase = "asked" /\ handler[h].stmt \in Reads
        /\ handler' = [handler EXCEPT ![h] = r] /\ UNCHANGED <<live, amount, off>>
    BY <1>1, Zenon DEF ThreadReads
  <2>2. v \in Nat
    BY <1>0
  <2>3. r.stmt = handler[h].stmt
    BY <1>0, <2>2, PhaseAndGotChanged
  <2> HIDE DEF r
  <2>4. r.stmt # "charge" /\ handler[h].stmt # "charge"
    BY <2>1, <2>3 DEF Reads
  <2> QED BY <2>1, <2>4, PhaseMovesSilently
<1>2. CASE ThreadLocks(h)
  <2> DEFINE r == [handler[h] EXCEPT !.phase = "held", !.hit = Matches(h)]
  <2>1. /\ handler[h].phase = "asked"
        /\ handler' = [handler EXCEPT ![h] = r] /\ UNCHANGED <<live, amount, off>>
    BY <1>2, Zenon DEF ThreadLocks
  <2>2. r.phase = "held"
    BY <1>0, PhaseAndHitChanged
  <2> HIDE DEF r
  <2> QED BY <2>1, <2>2, PhaseMovesSilently
<1>3. CASE LoopCommits(h)
  <2> DEFINE r == [handler[h] EXCEPT !.phase = "commit"]
  <2>1. /\ handler[h].phase = "held"
        /\ handler' = [handler EXCEPT ![h] = r] /\ UNCHANGED <<live, amount, off>>
    BY <1>3, Zenon DEF LoopCommits
  <2>2. r.phase = "commit"
    BY <1>0, PhaseChanged
  <2> HIDE DEF r
  <2> QED BY <2>1, <2>2, PhaseMovesSilently
<1>4. CASE ThreadTimesOut(h)
  <2> DEFINE r == [handler[h] EXCEPT !.phase = "failed"]
  <2>1. /\ handler[h].phase = "asked"
        /\ handler' = [handler EXCEPT ![h] = r] /\ UNCHANGED <<live, amount, off>>
    BY <1>4, Zenon DEF ThreadTimesOut
  <2>2. r.phase = "failed"
    BY <1>0, PhaseChanged
  <2> HIDE DEF r
  <2> QED BY <2>1, <2>2, PhaseMovesSilently
<1>5. CASE LoopFails(h)
  <2>1. /\ handler[h].phase = "failed"
        /\ handler' = [handler EXCEPT ![h] = Idle]
        /\ UNCHANGED <<live, amount, off>>
    BY <1>5, Zenon DEF LoopFails, Ends
  <2> QED BY <2>1, IdleIs, PhaseMovesSilently
<1> QED BY <1>1, <1>2, <1>3, <1>4, <1>5

(* A cancelled handler owes nothing; one that is cancelled while it owes   *)
(* leaves the map behind for good.                                         *)
LEMMA CancelsSilently ==
  ASSUME IInv, LiveFollowsRow, NEW h \in Handlers, Cancels(h) \/ LoopUnwinds(h)
  PROVE  LiveFollowsRow'
<1>1. CASE LoopUnwinds(h)
  <2>1. /\ handler[h].kind = "gone" /\ UNCHANGED <<live, amount, off>>
        /\ handler' = [handler EXCEPT ![h] = Idle]
    BY <1>1, Zenon DEF LoopUnwinds, Ends
  <2>2. /\ handler'[h] = Idle
        /\ \A g \in Handlers \ {h} : handler'[g] = handler[g]
    BY <2>1 DEF IInv, TypeOK
  <2> QED BY <2>1, <2>2, IdleIs, OthersReportNothing DEF Owed
<1>2. CASE Cancels(h) /\ h \in Unreported
  BY <1>2, Zenon DEF Cancels, LiveFollowsRow
<1>3. CASE Cancels(h) /\ h \notin Unreported
  <2>1. /\ UNCHANGED <<live, amount>>
        /\ off => off'
        /\ \/ handler' = [handler EXCEPT ![h] = Idle]
           \/ handler' = [handler EXCEPT ![h].kind = "gone"]
    BY <1>3, Zenon DEF Cancels, Ends
  <2>2. ~Owed(handler[h])
    BY <1>3, Zenon DEF Unreported, Owed
  <2>3. ~Owed(handler'[h]) /\ \A g \in Handlers \ {h} : handler'[g] = handler[g]
    <3>1. handler[h] \in Handling /\ handler \in [Handlers -> Handling]
      BY DEF IInv, TypeOK
    <3>2. CASE handler' = [handler EXCEPT ![h] = Idle]
      BY <3>1, <3>2, IdleIs DEF Owed
    <3>3. CASE handler' = [handler EXCEPT ![h].kind = "gone"]
      <4>1. handler'[h].kind = "gone"
        BY <3>1, <3>3, KindChanged
      <4> QED BY <3>1, <3>3, <4>1 DEF Owed
    <3> QED BY <2>1, <3>2, <3>3
  <2> QED BY <2>1, <2>2, <2>3, OthersReportNothing
<1> QED BY <1>1, <1>2, <1>3

(* A COMMIT takes the price from the row and adds its handler to those who *)
(* owe the map a report.                                                   *)
LEMMA CommitFollows ==
  ASSUME IInv, LiveFollowsRow, NEW h \in Handlers, ThreadCommits(h)
  PROVE  LiveFollowsRow'
<1> DEFINE o == Overtakes(h, Balance(h))
           r == [handler[h] EXCEPT !.phase = "done"]
<1>1. /\ handler[h].phase = "commit" /\ amount' = Balance(h) /\ live' = live
      /\ handler' = [o EXCEPT ![h].phase = "done"]
      /\ off' = (off \/ handler[h].stmt \in {"set", "earn"}
                     \/ (handler[h].kind = "gone" /\ handler[h].stmt = "charge"))
  BY Zenon DEF ThreadCommits
<1>2. \A g \in Handlers \ {h} : handler[g].phase \notin {"held", "commit"}
  BY <1>1, WalletAssumption DEF IInv, LockIsHeld
<1>3. /\ o \in [Handlers -> Handling] /\ o[h] = handler[h]
      /\ \A g \in Handlers : /\ o[g].phase = handler[g].phase
                             /\ o[g].stmt = handler[g].stmt
                             /\ o[g].hit <=> handler[g].hit
                             /\ o[g].kind = handler[g].kind
  BY <1>1, <1>2, BalanceIsNat, OvertakesKeeps DEF IInv
<1>4. /\ r.phase = "done" /\ r.stmt = handler[h].stmt
      /\ r.hit <=> handler[h].hit
      /\ r.kind = handler[h].kind
  <2>1. handler[h] \in Handling
    BY DEF IInv, TypeOK
  <2>2. /\ r.phase = "done" /\ r.stmt = handler[h].stmt /\ r.hit = handler[h].hit
        /\ r.kind = handler[h].kind
    BY <2>1, PhaseChanged
  <2> QED BY <2>2, Zenon
<1> HIDE DEF o
<1>5. handler' = [o EXCEPT ![h] = r]
  BY <1>1, <1>3
<1> HIDE DEF r
<1>6. /\ handler'[h] = r
      /\ \A g \in Handlers \ {h} : handler'[g] = o[g]
  BY <1>3, <1>5
<1>7. \A g \in Handlers \ {h} : Owed(handler'[g]) <=> Owed(handler[g])
  <2> TAKE g \in Handlers \ {h}
  <2>1. handler'[g] = o[g]
    BY <1>6
  <2>2. Owed(o[g]) <=> Owed(handler[g])
    BY <1>3, Zenon DEF Owed
  <2> QED BY <2>1, <2>2, Zenon
<1>8. ~Owed(handler[h])
  BY <1>1 DEF Owed
<1>9. Owed(handler'[h]) <=> /\ handler[h].stmt = "charge" /\ handler[h].hit
                            /\ handler[h].kind # "gone"
  BY <1>4, <1>6, Zenon DEF Owed
<1>10. TypeOK /\ TypeOK'
  BY ThreadCommitsKeeps DEF IInv
<1>11. /\ Unreported = {g \in Handlers : Owed(handler[g])}
       /\ Unreported' = {g \in Handlers : Owed(handler'[g])}
  BY Zenon DEF Unreported, Owed
<1>12. /\ IsFiniteSet(Unreported) /\ Cardinality(Unreported) \in Nat
       /\ amount \in Nat /\ live \in Int /\ Price \in Nat
  BY <1>10, UnreportedIsFinite, WalletAssumption DEF TypeOK
<1>13. CASE \/ off \/ handler[h].stmt \in {"set", "earn"}
            \/ handler[h].kind = "gone" /\ handler[h].stmt = "charge"
  BY <1>1, <1>13, Zenon DEF LiveFollowsRow
<1>14. CASE /\ ~off /\ handler[h].stmt = "charge" /\ handler[h].hit
            /\ handler[h].kind # "gone"
  <2>1. Unreported' = Unreported \cup {h} /\ h \notin Unreported
    BY <1>7, <1>8, <1>9, <1>11, <1>14
  <2>2. Cardinality(Unreported') = Cardinality(Unreported) + 1
    BY <2>1, <1>12, FS_AddElement
  <2>3. amount' = amount - Price
    BY <1>1, <1>14 DEF Balance
  <2>4. live = amount + Price * Cardinality(Unreported)
    BY <1>14, Zenon DEF LiveFollowsRow
  <2>5. live' = amount' + Price * Cardinality(Unreported')
    BY <2>2, <2>3, <2>4, <1>1, <1>12
  <2> QED BY <2>5, Zenon DEF LiveFollowsRow
<1>15. CASE /\ handler[h].stmt \notin {"set", "earn"}
            /\ ~(handler[h].stmt = "charge" /\ handler[h].hit)
  <2>1. \A g \in Handlers : Owed(handler'[g]) <=> Owed(handler[g])
    <3> TAKE g \in Handlers
    <3>1. CASE g = h
      BY <3>1, <1>8, <1>9, <1>15, Zenon
    <3>2. CASE g # h
      <4>1. g \in Handlers \ {h}
        BY <3>2
      <4> QED BY <4>1, <1>7, Zenon
    <3> QED BY <3>1, <3>2
  <2>2. amount' = amount
    BY <1>1, <1>15 DEF Balance
  <2>3. off => off'
    BY <1>1, Zenon
  <2> QED BY <2>1, <2>2, <2>3, <1>1, NobodyReports
<1> QED BY <1>13, <1>14, <1>15

(* A handler that is resumed reports its charge, if it owes one.           *)
LEMMA ResumeFollows ==
  ASSUME IInv, LiveFollowsRow, NEW h \in Handlers, LoopResumes(h)
  PROVE  LiveFollowsRow'
<1>1. /\ LoopIsFree /\ handler[h].phase = "done"
      /\ UNCHANGED <<amount, lock, off>>
  BY Zenon DEF LoopResumes
<1>2. /\ TypeOK /\ LockIsHeld /\ HandlersSee
      /\ Sees(handler[h], amount) /\ handler[h] \in Handling
      /\ amount \in Nat /\ live \in Int /\ Price \in Nat
  BY WalletAssumption DEF IInv, HandlersSee, TypeOK
<1>0. handler[h].kind # "gone"
  BY Zenon DEF LoopResumes
<1>3. /\ ~Owed(handler'[h])
      /\ \A g \in Handlers \ {h} : handler'[g] = handler[g]
  <2>1. CASE Ends(h)
    BY <2>1, <1>1, <1>2, EndsKeeps, IdleIs DEF Owed
  <2>2. CASE \E s \in {"funds", "reread"} : Asks(h, s)
    BY <2>2, <1>1, <1>2, AsksKeeps DEF Owed, Reads
  <2>3. CASE handler[h].stmt = "funds" /\ MayBuy(h) /\ Blocks(h, "restock")
    BY <2>3, <1>1, <1>2, BlocksKeeps DEF Owed, MayBuy
  <2>4. CASE handler[h].stmt = "funds" /\ MayBuy(h) /\ Asks(h, "charge")
    <3>1. handler[h].beaten \/ amount >= handler[h].got
      BY <1>1, <1>2, <2>4 DEF Sees, SeesFunds
    <3>2. handler[h].got >= Price /\ handler[h].got \in Nat
      BY <2>4, <1>2, RecordFields DEF MayBuy
    <3>3. handler[h].beaten \/ amount >= Price
      BY <3>1, <3>2, <1>2
    <3> QED BY <3>3, <2>4, <1>1, <1>2, AsksKeeps DEF Owed
  <2>5. CASE handler[h].stmt = "reread" /\ InStock(h) /\ Asks(h, "cut")
    <3>1. handler[h].got \in 1..Stock
      BY <2>5, <1>1, <1>2, WalletAssumption DEF InStock, Sees, SeesSlot
    <3> QED BY <3>1, <2>5, <1>1, <1>2, AsksKeeps DEF Owed
  <2>6. CASE handler[h].stmt = "cut" /\ Blocks(h, "grant")
    <3>1. handler[h].stmt # "funds"
      BY <2>6
    <3> QED BY <3>1, <2>6, <1>1, <1>2, BlocksKeeps DEF Owed
  <2> QED BY <2>1, <2>2, <2>3, <2>4, <2>5, <2>6 DEF LoopResumes
<1>4. CASE handler[h].stmt # "charge"
  <2>1. live' = live
    BY <1>4 DEF LoopResumes
  <2>2. ~Owed(handler[h])
    BY <1>4 DEF Owed
  <2> QED BY <2>1, <2>2, <1>1, <1>3, OthersReportNothing
<1>5. CASE handler[h].stmt = "charge" /\ ~handler[h].hit
  <2>1. live' = live
    BY <1>5 DEF LoopResumes, Bumped
  <2>2. ~Owed(handler[h])
    BY <1>5, Zenon DEF Owed
  <2> QED BY <2>1, <2>2, <1>1, <1>3, OthersReportNothing
<1>6. CASE handler[h].stmt = "charge" /\ handler[h].hit
  <2>1. live' = live - Price
    BY <1>6 DEF LoopResumes, Bumped
  <2>2. Owed(handler[h])
    BY <1>0, <1>1, <1>6, Zenon DEF Owed
  <2>3. /\ Unreported = {g \in Handlers : Owed(handler[g])}
        /\ Unreported' = {g \in Handlers : Owed(handler'[g])}
    BY Zenon DEF Unreported, Owed
  <2>4. Unreported' = Unreported \ {h} /\ h \in Unreported
    BY <1>3, <2>2, <2>3
  <2>5. IsFiniteSet(Unreported) /\ Cardinality(Unreported) \in Nat
    BY <1>2, UnreportedIsFinite
  <2>6. Cardinality(Unreported') = Cardinality(Unreported) - 1
    BY <2>4, <2>5, FS_RemoveElement
  <2>7. CASE off
    BY <1>1, <2>7, Zenon DEF LiveFollowsRow
  <2>8. CASE ~off
    <3>1. live = amount + Price * Cardinality(Unreported)
      BY <2>8, Zenon DEF LiveFollowsRow
    <3>2. live' = amount' + Price * Cardinality(Unreported')
      BY <3>1, <1>1, <1>2, <2>1, <2>5, <2>6
    <3> QED BY <3>2, Zenon DEF LiveFollowsRow
  <2> QED BY <2>7, <2>8
<1> QED BY <1>4, <1>5, <1>6

(* Two figures moved by the same step stay as far apart as they were.      *)
LEMMA SameShift ==
  ASSUME NEW a \in Int, NEW b \in Int, NEW l \in Int, NEW m \in Int,
         NEW d \in Int, l = a + d, m - l = b - a
  PROVE  m = b + d
  OBVIOUS

(* A synchronous writer moves the row and the map alike.                   *)
LEMMA SyncFollows ==
  ASSUME IInv, LiveFollowsRow, SyncWrites
  PROVE  LiveFollowsRow'
<1> DEFINE new == CASE loop.op = "add" -> loop.seen + loop.n
                    [] loop.op = "spend" -> Clipped(loop.seen - loop.n)
                    [] OTHER -> loop.n
<1>1. /\ lock = NoOne /\ amount' = new /\ handler' = Overtakes(NoOne, new)
      /\ loop.op \in {"add", "spend", "replace"}
      /\ off' = (off \/ amount # loop.seen \/ loop.op = "replace"
                     \/ (loop.op = "spend" /\ loop.seen < loop.n))
      /\ live' = CASE loop.op = "add" -> live + loop.n
                   [] loop.op = "spend" -> live - loop.n
                   [] OTHER -> live
  BY Zenon DEF SyncWrites
<1>2. /\ loop.seen \in Nat /\ loop.n \in Nat /\ live \in Int /\ amount \in Nat
      /\ TypeOK /\ HandlersSee /\ Price \in Nat
  BY WalletAssumption DEF IInv, TypeOK, Executing
<1>3. new \in Nat
  BY <1>2 DEF Clipped
<1>4. \A g \in Handlers : handler[g].phase \notin {"held", "commit"}
  BY <1>1, WalletAssumption DEF IInv, LockIsHeld
<1>5. CASE off'
  BY <1>5, Zenon DEF LiveFollowsRow
<1>6. CASE ~off'
  <2>1. /\ ~off /\ amount = loop.seen /\ loop.op # "replace"
        /\ loop.op = "spend" => ~(loop.seen < loop.n)
    BY <1>1, <1>6
  <2>2. Unreported' = Unreported
    <3> HIDE DEF new
    <3>1. \A g \in Handlers : /\ handler'[g].phase = handler[g].phase
                              /\ handler'[g].stmt = handler[g].stmt
                              /\ handler'[g].hit <=> handler[g].hit
                              /\ handler'[g].kind = handler[g].kind
      BY <1>1, <1>2, <1>3, <1>4, OvertakesKeeps
    <3> QED BY <3>1, Zenon DEF Unreported
  <2>3. live = amount + Price * Cardinality(Unreported)
    BY <2>1, Zenon DEF LiveFollowsRow
  <2>4. live' - live = amount' - amount
    <3>1. CASE loop.op = "add"
      BY <3>1, <1>1, <1>2, <2>1
    <3>2. CASE loop.op = "spend"
      BY <3>2, <1>1, <1>2, <2>1 DEF Clipped
    <3> QED BY <3>1, <3>2, <1>1, <2>1
  <2>5. Cardinality(Unreported) \in Nat /\ amount' \in Nat /\ live' \in Int
    BY <1>1, <1>2, <1>3, UnreportedIsFinite, SyncWritesKeeps DEF IInv, TypeOK
  <2>6. live' = amount' + Price * Cardinality(Unreported')
    <3>1. Price * Cardinality(Unreported) \in Int
      BY <1>2, <2>5
    <3>2. PICK owed \in Int : owed = Price * Cardinality(Unreported)
      BY <3>1, Zenon
    <3>3. live = amount + owed
      BY <2>3, <3>2, Zenon
    <3>4. /\ live \in Int /\ amount \in Int
          /\ live' \in Int /\ amount' \in Int
      BY <1>2, <2>5
    <3>5. live' = amount' + owed
      BY <3>2, <3>3, <3>4, <2>4, SameShift
    <3> QED BY <3>2, <3>5, <2>2, Zenon
  <2> QED BY <2>6, Zenon DEF LiveFollowsRow
<1> QED BY <1>5, <1>6

(* A login that loads the row while nobody owes the map makes them agree.  *)
LEMMA LoadFollows ==
  ASSUME TypeOK, Loads
  PROVE  LiveFollowsRow'
<1>1. live' = amount /\ UNCHANGED <<amount, handler>>
  BY DEF Loads
<1>2. off' <=> Unreported # {}
  BY Zenon DEF Loads
<1>3. CASE off'
  BY <1>3, Zenon DEF LiveFollowsRow
<1>4. CASE ~off'
  <2>1. Unreported' = {}
    BY <1>1, <1>2, <1>4 DEF Unreported
  <2>2. Cardinality(Unreported') = 0
    BY <2>1, FS_EmptySet
  <2>3. amount \in Nat /\ Price \in Nat
    BY WalletAssumption DEF TypeOK
  <2>4. live' = amount' + Price * Cardinality(Unreported')
    BY <1>1, <2>2, <2>3
  <2> QED BY <2>4, Zenon DEF LiveFollowsRow
<1> QED BY <1>3, <1>4

(* What the loop does for a handler that waits for it.                     *)
LEMMA LoopMovesSilently ==
  ASSUME IInv, LiveFollowsRow, Grants \/ Restocks \/ LoopTimesOut
  PROVE  LiveFollowsRow'
<1>1. UNCHANGED <<live, amount, lock, off>>
  BY Zenon DEF Grants, Restocks, LoopTimesOut
<1>2. CASE UNCHANGED handler
  <2>1. \A g \in Handlers : Owed(handler'[g]) <=> Owed(handler[g])
    BY <1>2, Zenon
  <2> QED BY <1>1, <2>1, NobodyReports
<1>3. CASE loop.op \in {"grant", "restock"} /\
           (Ends(loop.by) \/ (loop.op = "restock" /\ Asks(loop.by, "charge")))
  <2>1. /\ loop.by \in Handlers /\ handler[loop.by].phase = "grant"
        /\ loop.op = "restock" => handler[loop.by].stmt = "funds"
    BY <1>3 DEF IInv, LoopServes
  <2>2. ~Owed(handler[loop.by])
    BY <2>1 DEF Owed
  <2>3. /\ ~Owed(handler'[loop.by])
        /\ \A g \in Handlers \ {loop.by} : handler'[g] = handler[g]
    <3>1. CASE Ends(loop.by)
      BY <3>1, <1>1, <2>1, EndsKeeps, IdleIs DEF IInv, Owed
    <3>2. CASE loop.op = "restock" /\ Asks(loop.by, "charge")
      <4>1. /\ Sees(handler[loop.by], amount) /\ handler[loop.by] \in Handling
            /\ amount \in Nat /\ Price \in Nat
        BY <2>1, WalletAssumption DEF IInv, HandlersSee, TypeOK
      <4>2. handler[loop.by].got \in Nat
        BY <4>1, RecordFields
      <4>3. handler[loop.by].beaten \/ amount >= Price
        BY <4>1, <4>2, <2>1, <3>2 DEF Sees, SeesFunds
      <4> QED BY <4>3, <3>2, <1>1, <2>1, AsksKeeps DEF IInv, Owed
    <3> QED BY <1>3, <3>1, <3>2
  <2> QED BY <1>1, <2>1, <2>2, <2>3, OthersReportNothing
<1>4. LoopTimesOut /\ loop.by # NoOne => loop.op \in {"grant", "restock"}
  BY DEF IInv, LoopServes
<1> QED BY <1>2, <1>3, <1>4 DEF Grants, Restocks, LoopTimesOut

(* Every step keeps the map at the row, less what is still to be           *)
(* reported.                                                               *)
LEMMA NextFollows ==
  ASSUME IInv, LiveFollowsRow, [Next]_vars
  PROVE  LiveFollowsRow'
<1>1. CASE \E h \in Handlers :
             \/ Starts(h) \/ Thread(h) \/ Resume(h) \/ ThreadTimesOut(h)
             \/ Cancels(h)
  <2>1. PICK h \in Handlers :
          \/ Starts(h) \/ Thread(h) \/ Resume(h) \/ ThreadTimesOut(h)
          \/ Cancels(h)
    BY <1>1
  <2>2. CASE ThreadCommits(h)
    BY <2>2, CommitFollows
  <2>3. CASE LoopResumes(h)
    BY <2>3, ResumeFollows
  <2>4. CASE \/ Starts(h) \/ ThreadReads(h) \/ ThreadLocks(h) \/ LoopCommits(h)
             \/ ThreadTimesOut(h) \/ LoopFails(h)
    <3>1. /\ UNCHANGED <<live, amount, off>> /\ ~Owed(handler[h])
          /\ ~Owed(handler'[h])
          /\ \A g \in Handlers \ {h} : handler'[g] = handler[g]
      BY <2>4, StartsSilently, ThreadsMoveSilently DEF IInv
    <3> QED BY <3>1, OthersReportNothing
  <2>5. CASE Cancels(h) \/ LoopUnwinds(h)
    BY <2>5, CancelsSilently
  <2> QED BY <2>1, <2>2, <2>3, <2>4, <2>5 DEF Thread, Resume
<1>2. CASE SyncWrites
  BY <1>2, SyncFollows
<1>3. CASE Loads
  BY <1>3, LoadFollows DEF IInv
<1>4. CASE Grants \/ Restocks \/ LoopTimesOut
  BY <1>4, LoopMovesSilently
<1>5. CASE SyncReads \/ UNCHANGED vars
  <2>1. UNCHANGED <<live, amount, off, handler>>
    BY <1>5, Zenon DEF SyncReads, vars
  <2>2. \A g \in Handlers : Owed(handler'[g]) <=> Owed(handler[g])
    BY <2>1, Zenon
  <2> QED BY <2>1, <2>2, NobodyReports
<1> QED BY <1>1, <1>2, <1>3, <1>4, <1>5 DEF Next, Sync

(* The live map differs from the row by the charges not yet reported, as   *)
(* long as nothing that leaves the map alone has happened and no charge    *)
(* has lost its handler before the bump (consume_resource_async,           *)
(* _bump_live_resource, Client.close).                                     *)
THEOREM MapFollows == Spec => []LiveFollowsRow
<1>1. Init => LiveFollowsRow
  <2> SUFFICES ASSUME Init PROVE LiveFollowsRow
    OBVIOUS
  <2>1. Unreported = {}
    BY IdleIs DEF Init, Unreported
  <2>2. Cardinality(Unreported) = 0
    BY <2>1, FS_EmptySet
  <2>3. live = Start /\ amount = Start /\ Start \in Nat /\ Price \in Nat
    BY WalletAssumption DEF Init
  <2>4. live = amount + Price * Cardinality(Unreported)
    BY <2>2, <2>3
  <2> QED BY <2>4, Zenon DEF LiveFollowsRow
<1>2. IInv /\ LiveFollowsRow /\ [Next]_vars => LiveFollowsRow'
  BY NextFollows
<1> QED BY <1>1, <1>2, Invariance, PTL DEF Spec

=============================================================================
