--------------------------- MODULE Missions_proofs ---------------------------
(***************************************************************************)
(* Proofs about Missions, for every number of concurrent emits, weeks,     *)
(* events and faults, and every chain of weekly missions and rewards.      *)
(***************************************************************************)
EXTENDS Missions, FiniteSetTheorems, TLAPS

-----------------------------------------------------------------------------
(* The invariant.                                                          *)

(* Nobody writes for a week that has not come.                             *)
InTime ==
  /\ \A e \in Emits : emit[e].week <= now
  /\ disp.page <= now
  /\ weekly # NoState => weekly.week <= now

(* An emit that is going to write holds the lock, and has a row to write;  *)
(* so has a handler.                                                       *)
Holders ==
  /\ \A e \in Emits : /\ emit[e].at \in {"init", "again", "save"} => lock = e
                      /\ emit[e].at = "save" => Active(emit[e].state)
  /\ disp.at = "handler" => disp.state # NoState

(* No event of this week is missing, from the row or from what the holder  *)
(* of the lock will write over it: if it is to be of an earlier week,      *)
(* there was none.                                                         *)
Counted ==
  ~beaten =>
    /\ tally > 0 => OfThisWeek /\ weekly.count >= tally
    /\ \A e \in Emits : emit[e].at = "save" =>
         /\ emit[e].state.count >= tally
         /\ tally > 0 => emit[e].week = now

(* A reward of this week is on record, and no page is about to erase it:   *)
(* the clock of one that is to load the row is right.                      *)
PaidIsOnRecord ==
  ~stale /\ faults = 0 =>
    \A k \in DOMAIN Tiers :
      /\ tierPaid[k] <= 1
      /\ tierPaid[k] = 1 => /\ OfThisWeek /\ k <= weekly.tier
                            /\ disp.at # "save"
                            /\ disp.at = "load" => disp.page = now

(* ... and what is on record was paid.                                     *)
RecordIsPaid ==
  ~stale /\ OfThisWeek =>
    \A k \in 1..weekly.tier : k \in DOMAIN Tiers /\ tierPaid[k] >= 1

WInv ==
  /\ WeeklyTypes /\ InTime /\ Holders /\ Counted /\ PaidIsOnRecord
  /\ RecordIsPaid

(* A daily mission was paid once for each day on which it was begun.       *)
Marked == IF row["daily"].submitted THEN 1 ELSE 0
DailyIsEarned ==
  IF row["daily"] = NoRow THEN paid["daily"] = 0
  ELSE /\ row["daily"].accepted <= now
       /\ paid["daily"] <= row["daily"].accepted + Marked

GoodsAreTaken == "give" \in Mission => paid["give"] <= spent

RInv == RowTypes /\ DailyIsEarned /\ GoodsAreTaken

RestTypes == seen \in Week \cup {NoRow} /\ events \in 0..MaxEvents

IInv == WInv /\ RInv /\ RestTypes

-----------------------------------------------------------------------------
(* Numbers and records.                                                    *)

(* The greater and the lesser of two numbers.                              *)
LEMMA OfTwo ==
  ASSUME NEW a \in Nat, NEW b \in Nat
  PROVE  /\ Max({a, b}) \in {a, b} /\ Max({a, b}) >= a /\ Max({a, b}) >= b
         /\ Min({a, b}) \in {a, b} /\ Min({a, b}) <= a /\ Min({a, b}) <= b
<1>1. PICK m \in {a, b} : m >= a /\ m >= b
  OBVIOUS
<1>2. PICK n \in {a, b} : n <= a /\ n <= b
  OBVIOUS
<1>3. Max({a, b}) \in {a, b} /\ \A y \in {a, b} : Max({a, b}) >= y
  BY <1>1 DEF Max
<1>4. Min({a, b}) \in {a, b} /\ \A y \in {a, b} : Min({a, b}) <= y
  BY <1>2 DEF Min
<1> QED BY <1>3, <1>4

(* What the assumption says of each constant.                              *)
LEMMA ConstantsAre ==
  /\ Target \in Nat \ {0} /\ MaxWeek \in Nat /\ MaxEvents \in Nat
  /\ MaxFaults \in Nat /\ MaxItems \in Nat /\ "daily" \in Mission
  /\ Len(Stages) \in Nat /\ DOMAIN Stages = 1..Len(Stages)
  /\ \A k \in DOMAIN Stages : Stages[k] \in Nat
  /\ Len(Tiers) \in Nat /\ DOMAIN Tiers = 1..Len(Tiers)
  /\ NoRow \notin Row /\ NoRow \notin Emits /\ NoState \notin Weekly
BY MissionAssumption

(* One reward more is one more, until there are more than there should be. *)
LEMMA OneMoreIs ==
  ASSUME NEW n \in 0..(MaxWeek + 2)
  PROVE  /\ OneMore(n) \in 0..(MaxWeek + 2) /\ OneMore(n) <= n + 1
         /\ OneMore(n) >= n /\ OneMore(n) >= 1
<1>1. n + 1 \in Nat /\ MaxWeek + 2 \in Nat
  BY ConstantsAre
<1>2. /\ OneMore(n) \in {n + 1, MaxWeek + 2} /\ OneMore(n) <= n + 1
      /\ OneMore(n) <= MaxWeek + 2
  BY <1>1, OfTwo DEF OneMore
<1> QED BY <1>2, ConstantsAre

(* The row that a page or a first event writes (_initial_state).           *)
LEMMA FreshIs ==
  ASSUME NEW week \in Week
  PROVE  /\ Fresh(week) \in Weekly /\ Fresh(week).week = week
         /\ Fresh(week).count = 0 /\ Fresh(week).tier = 0
BY DEF Fresh, Weekly

(* The fields of the records.                                              *)
LEMMA FieldsAre ==
  /\ \A s \in Weekly : /\ s.week \in Week /\ s.count \in Nat /\ s.stage \in Nat \ {0}
                       /\ s.progress \in Nat /\ s.pt \in Nat /\ s.tier \in Nat
  /\ \A r \in Emission : r.state \in Weekly \cup {NoState} /\ r.week \in Week
  /\ \A d \in Dispatch : d.state \in Weekly \cup {NoState} /\ d.page \in Week
  /\ Week \subseteq Nat
BY ConstantsAre DEF Weekly, Emission, Dispatch, Week

(* Records of an emit that is not to write, and of a free dispatcher.      *)
LEMMA IdleIs ==
  /\ Idle \in Emission /\ Idle.at = "idle" /\ Idle.week = 0
  /\ Free \in Dispatch /\ Free.at = "free" /\ Free.page = 0
<1>1. 0 \in Week
  BY ConstantsAre DEF Week
<1> QED BY <1>1 DEF Idle, Emission, Free, Dispatch

(* One emit is set to r.                                                   *)
LEMMA EmitSet ==
  ASSUME WeeklyTypes, NEW e \in Emits, NEW r \in Emission,
         emit' = [emit EXCEPT ![e] = r]
  PROVE  /\ emit' \in [Emits -> Emission] /\ emit'[e] = r
         /\ \A d \in Emits \ {e} : emit'[d] = emit[d]
BY DEF WeeklyTypes

(* The parts of the invariant that an unchanged row keeps.                 *)
Books == <<now, weekly, lock, tierPaid, tally, stale, beaten>>

(* The types follow from those of what changed.                            *)
LEMMA TypesFollow ==
  ASSUME WeeklyTypes, UNCHANGED <<now, weekly, tierPaid, tally, stale, beaten>>,
         lock' \in Emits \cup {NoRow}, emit' \in [Emits -> Emission],
         disp' \in Dispatch, faults' \in 0..MaxFaults
  PROVE  WeeklyTypes'
BY Zenon DEF WeeklyTypes

(* What is on record was paid, as long as neither changes.                 *)
LEMMA RecordFollows ==
  ASSUME UNCHANGED <<now, weekly, tierPaid, stale>>, RecordIsPaid
  PROVE  RecordIsPaid'
BY Zenon DEF RecordIsPaid, OfThisWeek

-----------------------------------------------------------------------------
(* Steps that write no weekly row.                                         *)

(* What a fault counts.                                                    *)
LEMMA FaultIs ==
  ASSUME WInv
  PROVE  /\ faults \in Nat /\ faults \in 0..MaxFaults
         /\ UNCHANGED faults => faults' \in 0..MaxFaults /\ faults' >= faults
         /\ Fault => faults' \in 0..MaxFaults /\ faults' >= faults /\ faults' > 0
<1>1. faults \in 0..MaxFaults /\ MaxFaults \in Nat
  BY ConstantsAre DEF WInv, WeeklyTypes
<1> QED BY <1>1 DEF Fault

(* The dispatcher goes on; it will erase no reward that was paid.          *)
LEMMA DispatcherMoves ==
  ASSUME WInv, UNCHANGED Books, UNCHANGED emit, disp' \in Dispatch,
         disp'.page <= now, faults' \in 0..MaxFaults, faults' >= faults,
         disp'.at = "handler" => disp'.state # NoState,
         disp'.at = "load" => disp' = disp \/ disp'.page = now,
         disp'.at = "save" =>
           \/ disp' = disp \/ faults' > 0
           \/ disp.at = "load" /\ ~(weekly # NoState /\ weekly.week = disp.page)
  PROVE  WInv'
<1>1. WeeklyTypes /\ InTime /\ Holders /\ Counted /\ PaidIsOnRecord
      /\ RecordIsPaid /\ faults \in Nat
  BY ConstantsAre DEF WInv, WeeklyTypes
<1>2. WeeklyTypes'
  BY <1>1, TypesFollow DEF WeeklyTypes, Books
<1>3. InTime'
  BY <1>1 DEF InTime, Books
<1>4. Holders' /\ Counted' /\ RecordIsPaid'
  BY <1>1, RecordFollows, Zenon DEF Holders, Counted, Books, OfThisWeek
<1>5. PaidIsOnRecord'
  <2> SUFFICES ASSUME ~stale, faults' = 0, NEW k \in DOMAIN Tiers
               PROVE  /\ tierPaid[k] <= 1
                      /\ tierPaid[k] = 1 => /\ OfThisWeek /\ k <= weekly.tier
                                            /\ disp'.at # "save"
                                            /\ disp'.at = "load" => disp'.page = now
    BY Zenon DEF PaidIsOnRecord, Books, OfThisWeek
  <2>1. faults = 0 /\ ~(faults' > 0)
    BY <1>1 DEF WeeklyTypes
  <2> QED BY <1>1, <2>1, Zenon DEF PaidIsOnRecord, OfThisWeek
<1> QED BY <1>2, <1>3, <1>4, <1>5 DEF WInv

(* An emit goes on, without a row to write, or ends.                       *)
LEMMA EmitMoves ==
  ASSUME WInv, UNCHANGED <<now, weekly, tierPaid, tally, stale, beaten, disp>>,
         NEW e \in Emits, NEW r \in Emission, emit' = [emit EXCEPT ![e] = r],
         r.at # "save", r.at \in {"init", "again"} => lock' = e, r.week <= now,
         lock' \in {lock, IF lock = e THEN NoRow ELSE lock},
         faults' \in 0..MaxFaults, faults' >= faults
  PROVE  WInv'
<1>1. WeeklyTypes /\ InTime /\ Holders /\ Counted /\ PaidIsOnRecord
      /\ RecordIsPaid /\ faults \in Nat /\ lock \in Emits \cup {NoRow}
  BY ConstantsAre DEF WInv, WeeklyTypes
<1>2. /\ emit' \in [Emits -> Emission] /\ emit'[e] = r
      /\ \A d \in Emits \ {e} : emit'[d] = emit[d]
  BY <1>1, EmitSet
<1>3. WeeklyTypes'
  <2>1. lock' \in Emits \cup {NoRow} /\ disp' \in Dispatch
    BY <1>1 DEF WeeklyTypes
  <2> QED BY <1>1, <1>2, <2>1, TypesFollow
<1>4. InTime'
  BY <1>1, <1>2 DEF InTime
<1>5. Holders'
  BY <1>1, <1>2 DEF Holders
<1>6. Counted'
  BY <1>1, <1>2 DEF Counted, OfThisWeek
<1>7. PaidIsOnRecord'
  <2>1. faults' = 0 => faults = 0
    BY <1>1 DEF WeeklyTypes
  <2> QED BY <1>1, <2>1, Zenon DEF PaidIsOnRecord, OfThisWeek
<1>8. RecordIsPaid'
  BY <1>1, RecordFollows
<1> QED BY <1>3, <1>4, <1>5, <1>6, <1>7, <1>8 DEF WInv

(* An emit ends, and with it its hold of the lock.                         *)
LEMMA EmitEnds ==
  ASSUME WInv, UNCHANGED <<now, weekly, tierPaid, tally, stale, beaten, disp>>,
         NEW e \in Emits, Ends(e), UNCHANGED faults \/ Fault
  PROVE  WInv'
<1>1. /\ emit' = [emit EXCEPT ![e] = Idle]
      /\ lock' = IF lock = e THEN NoRow ELSE lock
  BY Zenon DEF Ends
<1>2. lock' \in {lock, IF lock = e THEN NoRow ELSE lock}
  BY <1>1
<1>3. faults' \in 0..MaxFaults /\ faults' >= faults
  BY FaultIs, Zenon
<1>4. Idle.week <= now
  BY IdleIs, FieldsAre DEF WInv, WeeklyTypes
<1>5. Idle.at # "save" /\ Idle.at \notin {"init", "again"} /\ Idle \in Emission
  BY IdleIs
<1> QED BY <1>1, <1>2, <1>3, <1>4, <1>5, EmitMoves

-----------------------------------------------------------------------------
(* Emits on the weekly row.                                                *)

(* The holder of the lock loads the row, or fails to: nothing is missing   *)
(* from what it has.                                                       *)
LEMMA EmitLoads ==
  ASSUME WInv, UNCHANGED <<now, weekly, tierPaid, tally, stale, beaten, disp>>,
         NEW e \in Emits, NEW s \in {weekly, NoState},
         NEW without \in {"init", "again"}, Loads(e, s, without),
         lock \in {NoRow, e}, lock' = e, faults' \in 0..MaxFaults, faults' >= faults
  PROVE  WInv'
<1> DEFINE r == [at |-> IF Active(s) THEN "save" ELSE without,
                 state |-> s, week |-> now]
<1>1. WeeklyTypes /\ InTime /\ Holders /\ Counted /\ PaidIsOnRecord
      /\ RecordIsPaid /\ faults \in Nat
  BY ConstantsAre DEF WInv, WeeklyTypes
<1>2. /\ r \in Emission /\ r.state = s /\ r.week = now
      /\ r.at = IF Active(s) THEN "save" ELSE without
  BY <1>1 DEF WeeklyTypes, Emission
<1>3. emit' = [emit EXCEPT ![e] = r]
  BY Zenon DEF Loads
<1> HIDE DEF r
<1>4. /\ emit' \in [Emits -> Emission] /\ emit'[e] = r
      /\ \A d \in Emits \ {e} : emit'[d] = emit[d]
  BY <1>1, <1>2, <1>3, EmitSet
<1>5. WeeklyTypes'
  <2>1. disp' \in Dispatch
    BY <1>1, Zenon DEF WeeklyTypes
  <2> QED BY <1>1, <1>4, <2>1, TypesFollow
<1>6. \A d \in Emits \ {e} : emit'[d].at \notin {"init", "again", "save"}
  BY <1>1, <1>4, ConstantsAre DEF Holders
<1>7. now \in Nat
  BY <1>1, FieldsAre DEF WeeklyTypes
<1>8. InTime'
  <2>1. \A d \in Emits : emit'[d].week <= now
    BY <1>1, <1>2, <1>4, <1>7 DEF InTime
  <2> QED BY <1>1, <2>1 DEF InTime
<1>9. Holders'
  BY <1>1, <1>2, <1>4, <1>6 DEF Holders
<1>10. Counted'
  <2> SUFFICES ASSUME ~beaten PROVE Counted'
    BY Zenon DEF Counted
  <2>1. tally > 0 => OfThisWeek /\ weekly.count >= tally
    BY <1>1 DEF Counted
  <2>2. emit'[e].at = "save" =>
          /\ s = weekly /\ emit'[e].state = weekly /\ weekly # NoState
          /\ emit'[e].week = now
    BY <1>2, <1>4 DEF Active
  <2>3. weekly # NoState => weekly.count >= tally
    <3>1. weekly # NoState => weekly.count \in Nat
      BY <1>1, FieldsAre DEF WeeklyTypes
    <3>2. tally \in Nat
      BY <1>1 DEF WeeklyTypes
    <3> QED BY <2>1, <3>1, <3>2
  <2> QED BY <1>6, <2>1, <2>2, <2>3 DEF Counted, OfThisWeek
<1>11. PaidIsOnRecord'
  <2>1. faults' = 0 => faults = 0
    BY <1>1 DEF WeeklyTypes
  <2> QED BY <1>1, <2>1, Zenon DEF PaidIsOnRecord, OfThisWeek
<1>12. RecordIsPaid'
  BY <1>1, RecordFollows
<1> QED BY <1>5, <1>8, <1>9, <1>10, <1>11, <1>12 DEF WInv

(* An emit takes the lock and loads the row, or fails to.                  *)
LEMMA EventLoadsKeeps ==
  ASSUME WInv, NEW e \in Emits, EventLoads(e)
  PROVE  WInv'
<1>1. /\ lock = NoRow /\ lock' = e
      /\ UNCHANGED <<now, weekly, tierPaid, tally, stale, beaten, disp>>
  BY Zenon DEF EventLoads
<1>2. CASE Loads(e, weekly, "init") /\ UNCHANGED faults
  BY <1>1, <1>2, FaultIs, EmitLoads
<1>3. CASE Loads(e, NoState, "init") /\ Fault
  BY <1>1, <1>3, FaultIs, EmitLoads
<1> QED BY <1>2, <1>3, Zenon DEF EventLoads

(* It loads again, or gives up without a row.                              *)
LEMMA EventLoadsAgainKeeps ==
  ASSUME WInv, NEW e \in Emits, EventLoadsAgain(e)
  PROVE  WInv'
<1>1. /\ emit[e].at = "again" /\ UNCHANGED faults
      /\ UNCHANGED <<now, weekly, tierPaid, tally, stale, beaten, disp>>
  BY Zenon DEF EventLoadsAgain, At, counters
<1>2. lock = e
  BY <1>1 DEF WInv, Holders
<1>3. CASE Ends(e)
  BY <1>1, <1>3, EmitEnds, Zenon
<1>4. CASE Loads(e, weekly, "again") /\ UNCHANGED lock
  BY <1>1, <1>2, <1>4, FaultIs, EmitLoads
<1> QED BY <1>3, <1>4, Zenon DEF EventLoadsAgain

(* A failed statement: nothing is written.                                 *)
LEMMA EventFailsKeeps ==
  ASSUME WInv, NEW e \in Emits, EventFails(e)
  PROVE  WInv'
<1>1. /\ Fault /\ UNCHANGED <<now, weekly, tierPaid, tally, stale, beaten, disp>>
  BY Zenon DEF EventFails
<1>2. /\ emit[e] \in Emission /\ emit[e].week <= now /\ 0 <= now
  BY FieldsAre DEF WInv, WeeklyTypes, InTime
<1>3. CASE Goes(e, "lock") /\ UNCHANGED lock
  <2> DEFINE r == [emit[e] EXCEPT !.at = "lock"]
  <2>1. r \in Emission /\ r.at = "lock" /\ r.week = emit[e].week
    BY <1>2 DEF Emission
  <2>2. emit' = [emit EXCEPT ![e] = r]
    BY <1>3, Zenon DEF Goes
  <2> HIDE DEF r
  <2> QED BY <1>1, <1>2, <1>3, <2>1, <2>2, FaultIs, EmitMoves
<1>4. CASE Ends(e)
  BY <1>1, <1>4, EmitEnds, Zenon
<1> QED BY <1>3, <1>4, Zenon DEF EventFails

(* The row of a week, for a commander that had none, or whose row could    *)
(* not be loaded: what that erases is counted as beaten.                   *)
LEMMA EventInitialisesKeeps ==
  ASSUME WInv, NEW e \in Emits, EventInitialises(e)
  PROVE  WInv'
<1>1. WeeklyTypes /\ InTime /\ Holders /\ Counted /\ PaidIsOnRecord
      /\ RecordIsPaid /\ emit[e] \in Emission /\ emit[e].week <= now
  BY DEF WInv, WeeklyTypes, InTime
<1> DEFINE r == [emit[e] EXCEPT !.at = "again"]
<1>2. r \in Emission /\ r.at = "again" /\ r.week = emit[e].week
  BY <1>1 DEF Emission
<1>3. /\ emit[e].at = "init" /\ emit' = [emit EXCEPT ![e] = r]
      /\ UNCHANGED <<now, lock, tierPaid, tally, disp>>
  BY Zenon DEF EventInitialises, At, Goes
<1> HIDE DEF r
<1>4. lock = e /\ now \in Nat
  BY <1>1, <1>3, FieldsAre DEF Holders, WeeklyTypes
<1>5. CASE Fault /\ UNCHANGED <<weekly, stale, beaten>>
  BY <1>1, <1>2, <1>3, <1>4, <1>5, FaultIs, EmitMoves
<1>6. CASE /\ \E week \in emit[e].week..now : weekly' = Fresh(week)
           /\ stale' = (stale \/ weekly # NoState)
           /\ beaten' = (beaten \/ OfThisWeek)
           /\ UNCHANGED faults
  <2>1. PICK week \in emit[e].week..now : weekly' = Fresh(week)
    BY <1>6
  <2>2. week \in Week /\ week <= now
    BY <1>1, <1>4, <2>1, FieldsAre, ConstantsAre DEF Week, WeeklyTypes
  <2>3. PICK f \in Weekly : f = Fresh(week)
    BY <2>2, FreshIs
  <2>4. /\ weekly' = f /\ f.week <= now /\ f.count = 0 /\ f.tier = 0
        /\ f # NoState
    BY <2>1, <2>2, <2>3, FreshIs, ConstantsAre
  <2>5. /\ emit' \in [Emits -> Emission] /\ emit'[e] = r
        /\ \A d \in Emits \ {e} : emit'[d] = emit[d]
    BY <1>1, <1>2, <1>3, EmitSet
  <2>6. WeeklyTypes'
    <3>1. weekly' \in Weekly \cup {NoState}
      BY <2>4
    <3>2. stale' \in BOOLEAN /\ beaten' \in BOOLEAN
      BY <1>6, Zenon
    <3> QED BY <1>1, <1>3, <1>6, <2>5, <3>1, <3>2, Zenon DEF WeeklyTypes
  <2>7. InTime'
    BY <1>1, <1>2, <1>3, <2>4, <2>5 DEF InTime
  <2>8. Holders' /\ \A d \in Emits : emit'[d].at # "save"
    BY <1>1, <1>2, <1>3, <1>4, <2>5 DEF Holders
  <2>9. Counted'
    <3> SUFFICES ASSUME ~beaten' PROVE ~(tally' > 0)
      BY <2>8, Zenon DEF Counted
    <3>1. ~beaten /\ ~OfThisWeek
      BY <1>6, Zenon
    <3>2. ~(tally > 0)
      BY <1>1, <3>1, Zenon DEF Counted
    <3> QED BY <1>3, <3>2
  <2>10. PaidIsOnRecord'
    <3> SUFFICES ASSUME ~stale', faults' = 0, NEW k \in DOMAIN Tiers
                 PROVE  /\ tierPaid'[k] <= 1 /\ tierPaid'[k] # 1
      BY Zenon DEF PaidIsOnRecord
    <3>1. ~stale /\ weekly = NoState /\ faults = 0
      BY <1>6, Zenon
    <3> QED BY <1>1, <1>3, <3>1 DEF PaidIsOnRecord, OfThisWeek
  <2>11. RecordIsPaid'
    BY <2>4 DEF RecordIsPaid
  <2> QED BY <2>6, <2>7, <2>8, <2>9, <2>10, <2>11 DEF WInv
<1> QED BY <1>5, <1>6, Zenon DEF EventInitialises

(* A row with one event more; what it pays is left as it was loaded.       *)
Advanced(s, week) ==
  [s EXCEPT !.week = week, !.count = @ + 1,
            !.progress = Min({s.count + 1, Stages[s.stage]})]

(* The row with one more event.                                            *)
LEMMA AdvancedIs ==
  ASSUME NEW s \in Weekly, Active(s), NEW week \in Week
  PROVE  /\ Advanced(s, week) \in Weekly /\ Advanced(s, week).week = week
         /\ Advanced(s, week).count = s.count + 1
         /\ Advanced(s, week).tier = s.tier
<1> PICK t : t = Advanced(s, week)
  OBVIOUS
<1>1. s.count \in Nat /\ s.stage \in DOMAIN Stages
  BY FieldsAre, ConstantsAre DEF Active
<1>2. PICK n \in Nat, asked \in Nat : n = s.count + 1 /\ asked = Stages[s.stage]
  BY <1>1, ConstantsAre
<1>3. PICK p \in Nat : p = Min({n, asked})
  BY <1>2, OfTwo
<1>4. t = [s EXCEPT !.week = week, !.count = n, !.progress = p]
  BY <1>2, <1>3, Zenon DEF Advanced
<1>5. t \in Weekly /\ t.week = week /\ t.count = n /\ t.tier = s.tier
  BY <1>3, <1>4 DEF Weekly
<1> QED BY <1>2, <1>5

(* An emit writes what it loaded, with its event: nobody else wrote        *)
(* since, or the write is counted as stale.                                *)
LEMMA EventSavesKeeps ==
  ASSUME WInv, NEW e \in Emits, EventSaves(e)
  PROVE  WInv'
<1>1. WeeklyTypes /\ InTime /\ Holders /\ Counted /\ PaidIsOnRecord
      /\ RecordIsPaid /\ emit[e] \in Emission
  BY DEF WInv, WeeklyTypes
<1>2. /\ emit[e].at = "save" /\ lock' = IF lock = e THEN NoRow ELSE lock
      /\ emit' = [emit EXCEPT ![e] = Idle]
      /\ UNCHANGED <<now, tierPaid, beaten, disp, faults>>
  BY Zenon DEF EventSaves, Ends, At, counters
<1>3. PICK s \in Weekly : s = emit[e].state /\ Active(s)
  BY <1>1, <1>2, FieldsAre DEF Holders, Active
<1>4. /\ emit[e].week \in Nat /\ emit[e].week <= now /\ now \in Nat
      /\ now \in Week /\ 0 <= now
  BY <1>1, FieldsAre DEF InTime, WeeklyTypes
<1>5. ASSUME NEW week \in emit[e].week..now,
             weekly' = Advanced(s, week),
             tally' = IF week = now THEN tally + 1 ELSE tally,
             stale' = (stale \/ weekly # s \/ s.week # week)
      PROVE  WInv'
  <2>1. week \in Week /\ week \in Nat /\ week <= now /\ emit[e].week <= week
    BY <1>4, FieldsAre, ConstantsAre DEF Week
  <2>2. /\ weekly' \in Weekly /\ weekly'.week = week
        /\ weekly'.count = s.count + 1 /\ weekly'.tier = s.tier
    BY <1>3, <1>5, <2>1, AdvancedIs
  <2>3. /\ emit' \in [Emits -> Emission] /\ emit'[e] = Idle
        /\ \A d \in Emits \ {e} : emit'[d] = emit[d]
    BY <1>1, <1>2, IdleIs, EmitSet
  <2>4. \A d \in Emits : emit'[d].at \notin {"init", "again", "save"}
    BY <1>1, <1>2, <2>3, IdleIs DEF Holders
  <2>5. WeeklyTypes'
    <3>1. tally' \in Nat
      BY <1>1, <1>5 DEF WeeklyTypes
    <3>2. stale' \in BOOLEAN /\ weekly' \in Weekly \cup {NoState}
      BY <1>5, <2>2, Zenon
    <3>3. lock' \in Emits \cup {NoRow}
      BY <1>1, <1>2 DEF WeeklyTypes
    <3> QED BY <1>1, <1>2, <2>3, <3>1, <3>2, <3>3, Zenon DEF WeeklyTypes
  <2>6. InTime'
    <3>1. \A d \in Emits : emit'[d].week <= now
      BY <1>1, <1>4, <2>3, IdleIs DEF InTime
    <3> QED BY <1>1, <1>2, <2>1, <2>2, <3>1 DEF InTime
  <2>7. Holders'
    BY <1>1, <1>2, <2>4 DEF Holders
  <2>8. Counted'
    <3> SUFFICES ASSUME ~beaten', tally' > 0
                 PROVE  OfThisWeek' /\ weekly'.count >= tally'
      BY <2>4, Zenon DEF Counted
    <3>1. /\ s.count >= tally
          /\ tally > 0 => emit[e].week = now
      BY <1>1, <1>2, <1>3 DEF Counted
    <3>2. s.count \in Nat /\ tally \in Nat
      BY <1>1, FieldsAre DEF WeeklyTypes
    <3>3. week = now
      <4> SUFFICES ASSUME week # now PROVE FALSE
        OBVIOUS
      <4>1. tally > 0
        BY <1>5
      <4>2. emit[e].week = now
        BY <3>1, <4>1
      <4> QED BY <1>4, <2>1, <4>2
    <3>4. weekly' # NoState
      BY <2>2, ConstantsAre
    <3>5. tally' = tally + 1
      BY <1>5, <3>3
    <3>6. weekly'.count >= tally'
      BY <2>2, <3>1, <3>2, <3>5
    <3> QED BY <1>2, <2>2, <3>3, <3>4, <3>6 DEF OfThisWeek
  <2>9. ~stale' => ~stale /\ weekly = s /\ s.week = week
    BY <1>5, Zenon
  <2>10. /\ weekly' # NoState /\ s # NoState
    BY <2>2, ConstantsAre
  <2>11. ~stale' => weekly'.week = weekly.week /\ weekly'.tier = weekly.tier
                    /\ (OfThisWeek' <=> OfThisWeek)
    BY <1>2, <2>2, <2>9, <2>10 DEF OfThisWeek
  <2>12. PaidIsOnRecord'
    BY <1>1, <1>2, <2>9, <2>11, Zenon DEF PaidIsOnRecord
  <2>13. RecordIsPaid'
    BY <1>1, <1>2, <2>9, <2>11, Zenon DEF RecordIsPaid
  <2> QED BY <2>5, <2>6, <2>7, <2>8, <2>12, <2>13 DEF WInv
<1> QED BY <1>3, <1>5, Zenon DEF EventSaves, Advanced

-----------------------------------------------------------------------------
(* Pages, Mondays and handlers on the weekly row.                          *)

(* The page replaces the row, when nothing of this week was paid from it,  *)
(* or fails to; if the row was of this week, that is counted as beaten.    *)
LEMMA PageSavesKeeps ==
  ASSUME WInv, PageSaves
  PROVE  WInv'
<1>1. WeeklyTypes /\ InTime /\ Holders /\ Counted /\ PaidIsOnRecord
      /\ RecordIsPaid /\ disp \in Dispatch /\ now \in Nat /\ 0 <= now
  BY FieldsAre DEF WInv, WeeklyTypes
<1>2. PICK f \in Weekly : f = Fresh(disp.page)
  BY <1>1, FieldsAre, FreshIs
<1>3. /\ f.week = disp.page /\ f.count = 0 /\ f.tier = 0 /\ f # NoState
      /\ f.week <= now
  BY <1>1, <1>2, FieldsAre, FreshIs, ConstantsAre DEF InTime
<1>4. /\ disp.at = "save" /\ UNCHANGED <<now, lock, tierPaid, tally, stale, emit>>
  BY Zenon DEF PageSaves
<1>5. disp' \in Dispatch /\ disp'.at \in {"free", "packet"} /\ disp'.page = 0
  <2>1. disp' = Free \/ disp' = [Free EXCEPT !.at = "packet"]
    BY Zenon DEF PageSaves, PageEnds
  <2> QED BY <2>1, IdleIs DEF Dispatch
<1>6. CASE Fault /\ UNCHANGED <<weekly, beaten>>
  BY <1>1, <1>4, <1>5, <1>6, FaultIs, DispatcherMoves DEF Books
<1>7. CASE weekly' = f /\ UNCHANGED faults /\ beaten' = (beaten \/ OfThisWeek)
  <2>1. WeeklyTypes'
    <3>1. weekly' \in Weekly \cup {NoState}
      BY <1>7
    <3>2. beaten' \in BOOLEAN
      BY <1>7, Zenon
    <3> QED BY <1>1, <1>4, <1>5, <1>7, <3>1, <3>2, Zenon DEF WeeklyTypes
  <2>2. InTime'
    BY <1>1, <1>3, <1>4, <1>5, <1>7 DEF InTime
  <2>3. Holders'
    BY <1>1, <1>4, <1>5 DEF Holders
  <2>4. Counted'
    <3> SUFFICES ASSUME ~beaten' PROVE Counted'
      BY Zenon DEF Counted
    <3>1. ~beaten /\ ~OfThisWeek
      BY <1>7, Zenon
    <3>2. ~(tally > 0) /\ \A d \in Emits : emit[d].at = "save" =>
                             emit[d].state.count >= tally
      BY <1>1, <3>1, Zenon DEF Counted
    <3> QED BY <1>4, <3>2, Zenon DEF Counted
  <2>5. PaidIsOnRecord'
    BY <1>1, <1>4, <1>7 DEF PaidIsOnRecord
  <2>6. RecordIsPaid'
    BY <1>3, <1>7 DEF RecordIsPaid
  <2> QED BY <2>1, <2>2, <2>3, <2>4, <2>5, <2>6 DEF WInv
<1> QED BY <1>2, <1>6, <1>7, Zenon DEF PageSaves

(* A new week has paid nothing, and no row is of it yet.                   *)
LEMMA MondayKeeps ==
  ASSUME WInv, MondayComes
  PROVE  WInv'
<1>1. WeeklyTypes /\ InTime /\ Holders /\ Counted /\ PaidIsOnRecord
      /\ RecordIsPaid
  BY DEF WInv
<1>2. /\ now < MaxWeek /\ now' = now + 1
      /\ tierPaid' = [k \in DOMAIN Tiers |-> 0] /\ tally' = 0
      /\ UNCHANGED <<weekly, lock, stale, beaten, emit, disp, faults>>
  BY DEF MondayComes, counters
<1>3. now \in Nat /\ now' \in Week
  BY <1>1, <1>2, ConstantsAre DEF WeeklyTypes, Week
<1>4. WeeklyTypes'
  <2>1. tierPaid' \in [DOMAIN Tiers -> 0..(MaxWeek + 2)]
    BY <1>2, ConstantsAre
  <2> QED BY <1>1, <1>2, <1>3, <2>1, Zenon DEF WeeklyTypes
<1>5. InTime' /\ (weekly # NoState => weekly.week < now')
  <2>1. /\ \A e \in Emits : emit[e].week \in Nat /\ emit[e].week <= now
        /\ disp.page \in Nat /\ disp.page <= now
        /\ weekly # NoState => weekly.week \in Nat /\ weekly.week <= now
    BY <1>1, FieldsAre DEF InTime, WeeklyTypes
  <2> QED BY <1>2, <1>3, <2>1 DEF InTime
<1>6. Holders' /\ Counted'
  <2>1. Holders'
    BY <1>1, <1>2, Zenon DEF Holders
  <2>2. \A d \in Emits : emit[d].at = "save" => emit[d].state.count >= 0
    BY <1>1, FieldsAre DEF Holders, Active, WeeklyTypes
  <2> QED BY <1>2, <2>1, <2>2 DEF Counted
<1>7. PaidIsOnRecord'
  BY <1>2 DEF PaidIsOnRecord
<1>8. RecordIsPaid'
  <2>0. weekly # NoState => weekly.week \in Nat
    BY <1>1, FieldsAre DEF WeeklyTypes
  <2>1. weekly # NoState => weekly.week # now'
    <3>1. now' \in Nat /\ (weekly # NoState => weekly.week < now')
      BY <1>2, <1>3, <1>5
    <3> QED BY <2>0, <3>1
  <2> QED BY <1>2, <2>1, Zenon DEF RecordIsPaid, OfThisWeek
<1> QED BY <1>4, <1>5, <1>6, <1>7, <1>8 DEF WInv

(* The row as a handler writes it.                                         *)
InWeek(s, week) == [s EXCEPT !.week = week]

(* The row as a handler writes it, in the week of the write.               *)
LEMMA InWeekIs ==
  ASSUME NEW s \in Weekly, NEW week \in Week
  PROVE  /\ InWeek(s, week) \in Weekly /\ InWeek(s, week).week = week
         /\ InWeek(s, week).count = s.count /\ InWeek(s, week).tier = s.tier
BY DEF Weekly, InWeek

(* A handler that keeps the count and either the tier or a reward for it.  *)
LEMMA HandlerSaves ==
  ASSUME WInv, disp.at = "handler", disp' = Free, UNCHANGED <<now, emit>>,
         NEW s \in Weekly, s.count >= disp.state.count, SaveWeekly(s),
         \/ s.tier = disp.state.tier /\ UNCHANGED tierPaid
         \/ /\ s.tier = disp.state.tier + 1 /\ s.tier \in DOMAIN Tiers
            /\ tierPaid' = [tierPaid EXCEPT ![s.tier] = OneMore(@)]
  PROVE  WInv'
<1>1. WeeklyTypes /\ InTime /\ Holders /\ Counted /\ PaidIsOnRecord
      /\ RecordIsPaid /\ disp \in Dispatch
  BY DEF WInv, WeeklyTypes
<1>2. PICK loaded \in Weekly : loaded = disp.state
  BY <1>1, FieldsAre DEF Holders
<1>3. /\ now \in Week /\ now \in Nat /\ faults \in 0..MaxFaults
      /\ MaxFaults \in Nat
  BY <1>1, FieldsAre, ConstantsAre DEF WeeklyTypes
<1>4. PICK t \in Weekly : /\ t = InWeek(s, now) /\ t.week = now
                          /\ t.count = s.count /\ t.tier = s.tier
  BY <1>3, InWeekIs
<1>5. \/ /\ weekly' = t /\ UNCHANGED faults
         /\ stale' = (stale \/ weekly # loaded \/ loaded.week # now)
         /\ beaten' = (beaten \/ weekly # loaded)
      \/ /\ faults < MaxFaults /\ faults' = faults + 1
         /\ UNCHANGED <<weekly, stale, beaten>>
  BY <1>2, <1>4, Zenon DEF SaveWeekly, Loaded, InWeek, Fault
<1>6. UNCHANGED <<lock, tally>>
  BY DEF SaveWeekly
<1>7. /\ \A k \in DOMAIN Tiers : tierPaid[k] \in 0..(MaxWeek + 2)
      /\ tierPaid' \in [DOMAIN Tiers -> 0..(MaxWeek + 2)]
      /\ \A k \in DOMAIN Tiers : tierPaid'[k] >= tierPaid[k]
  <2>1. \A k \in DOMAIN Tiers : tierPaid[k] \in 0..(MaxWeek + 2)
    BY <1>1 DEF WeeklyTypes
  <2>2. CASE UNCHANGED tierPaid
    BY <1>1, <2>1, <2>2, ConstantsAre DEF WeeklyTypes
  <2>3. CASE /\ s.tier \in DOMAIN Tiers
             /\ tierPaid' = [tierPaid EXCEPT ![s.tier] = OneMore(@)]
    <3>1. PICK k \in DOMAIN Tiers : k = s.tier
      BY <2>3
    <3>2. PICK n \in 0..(MaxWeek + 2) : n = OneMore(tierPaid[k])
      BY <2>1, OneMoreIs
    <3>3. tierPaid' = [tierPaid EXCEPT ![k] = n]
      BY <2>3, <3>1, <3>2, Zenon
    <3>4. n >= tierPaid[k]
      BY <2>1, <3>2, OneMoreIs
    <3> QED BY <1>1, <2>1, <3>3, <3>4, ConstantsAre DEF WeeklyTypes
  <2> QED BY <2>1, <2>2, <2>3
<1>8. /\ faults' \in 0..MaxFaults /\ faults' >= faults
      /\ faults' = 0 => faults = 0
  BY <1>3, <1>5
<1>9. WeeklyTypes'
  <2>1. weekly' \in Weekly \cup {NoState} /\ stale' \in BOOLEAN /\ beaten' \in BOOLEAN
    BY <1>1, <1>5, Zenon DEF WeeklyTypes
  <2>2. disp' \in Dispatch
    BY IdleIs
  <2> QED BY <1>1, <1>6, <1>7, <1>8, <2>1, <2>2, Zenon DEF WeeklyTypes
<1>10. InTime'
  BY <1>1, <1>3, <1>4, <1>5, IdleIs DEF InTime
<1>11. Holders'
  BY <1>1, <1>6, IdleIs DEF Holders
<1>12. t # NoState /\ loaded # NoState
  BY ConstantsAre
<1>13. Counted'
  <2> SUFFICES ASSUME ~beaten'
               PROVE  Counted'
    BY Zenon DEF Counted
  <2>1. CASE weekly' = t /\ ~beaten /\ weekly = loaded
    <3>1. t.count \in Nat /\ loaded.count \in Nat /\ tally \in Nat
      BY <1>1, FieldsAre DEF WeeklyTypes
    <3>2. tally > 0 => t.count >= tally
      BY <1>1, <1>2, <1>4, <2>1, <3>1 DEF Counted
    <3>3. OfThisWeek'
      BY <1>4, <1>12, <2>1 DEF OfThisWeek
    <3> QED BY <1>1, <1>6, <2>1, <3>2, <3>3 DEF Counted
  <2>2. CASE UNCHANGED <<weekly, stale, beaten>>
    BY <1>1, <1>6, <2>2, Zenon DEF Counted, OfThisWeek
  <2> QED BY <1>5, <2>1, <2>2, Zenon
<1>14. PaidIsOnRecord'
  <2> SUFFICES ASSUME ~stale', faults' = 0, NEW k \in DOMAIN Tiers
               PROVE  /\ tierPaid'[k] <= 1
                      /\ tierPaid'[k] = 1 => /\ weekly' # NoState
                           /\ weekly'.week = now /\ k <= weekly'.tier
    <3>1. disp'.at \notin {"save", "load"}
      BY IdleIs
    <3> QED BY <3>1 DEF PaidIsOnRecord, OfThisWeek
  <2>1. weekly' = t /\ ~stale /\ weekly = loaded /\ loaded.week = now /\ faults = 0
    <3>1. faults' # faults + 1
      BY <1>3
    <3> QED BY <1>5, <1>8, <3>1, Zenon
  <2>2. /\ tierPaid[k] <= 1 /\ tierPaid[k] \in Nat
        /\ tierPaid[k] = 1 => k <= loaded.tier
    BY <1>1, <1>7, <2>1, ConstantsAre DEF PaidIsOnRecord
  <2>4. k \in Nat /\ loaded.tier \in Nat
    BY ConstantsAre, FieldsAre
  <2>5. CASE s.tier = loaded.tier /\ UNCHANGED tierPaid
    BY <1>4, <1>12, <2>1, <2>2, <2>5
  <2>6. CASE /\ s.tier = loaded.tier + 1 /\ s.tier \in DOMAIN Tiers
             /\ tierPaid' = [tierPaid EXCEPT ![s.tier] = OneMore(@)]
    <3>1. CASE k = s.tier
      <4>1. tierPaid[k] = 0
        BY <2>2, <2>4, <2>6, <3>1
      <4>2. tierPaid'[k] = OneMore(tierPaid[k])
        BY <1>1, <2>6, <3>1 DEF WeeklyTypes
      <4>3. tierPaid'[k] <= 1
        BY <1>7, <4>1, <4>2, OneMoreIs
      <4> QED BY <1>4, <1>12, <2>1, <2>4, <3>1, <4>3
    <3>2. CASE k # s.tier
      <4>1. tierPaid'[k] = tierPaid[k]
        BY <1>1, <2>6, <3>2 DEF WeeklyTypes
      <4> QED BY <1>4, <1>12, <2>1, <2>2, <2>4, <2>6, <4>1
    <3> QED BY <3>1, <3>2
  <2> QED BY <1>2, <2>5, <2>6
<1>15. RecordIsPaid'
  <2> SUFFICES ASSUME ~stale', weekly' # NoState, weekly'.week = now,
                      NEW k \in 1..weekly'.tier
               PROVE  k \in DOMAIN Tiers /\ tierPaid'[k] >= 1
    BY Zenon DEF RecordIsPaid, OfThisWeek
  <2>1. CASE UNCHANGED <<weekly, stale, beaten>>
    <3>1. k \in DOMAIN Tiers /\ tierPaid[k] >= 1
      BY <1>1, <2>1 DEF RecordIsPaid, OfThisWeek
    <3> QED BY <1>7, <3>1
  <2>2. CASE weekly' = t /\ ~stale /\ weekly = loaded /\ loaded.week = now
    <3>1. k \in Nat /\ loaded.tier \in Nat /\ k >= 1 /\ k <= s.tier
      BY <1>4, <2>2, FieldsAre
    <3>2. k <= loaded.tier => k \in DOMAIN Tiers /\ tierPaid[k] >= 1
      BY <1>1, <1>12, <2>2, <3>1 DEF RecordIsPaid, OfThisWeek
    <3>3. CASE s.tier = loaded.tier
      BY <1>7, <3>1, <3>2, <3>3
    <3>4. CASE /\ s.tier = loaded.tier + 1 /\ s.tier \in DOMAIN Tiers
               /\ tierPaid' = [tierPaid EXCEPT ![s.tier] = OneMore(@)]
      <4>1. tierPaid'[s.tier] >= 1
        BY <1>1, <1>7, <3>4, OneMoreIs DEF WeeklyTypes
      <4> QED BY <1>7, <3>1, <3>2, <3>4, <4>1
    <3> QED BY <1>2, <3>3, <3>4
  <2> QED BY <1>5, <2>1, <2>2, Zenon
<1> QED BY <1>9, <1>10, <1>11, <1>13, <1>14, <1>15 DEF WInv

(* A stage is handed in: the count stays.                                  *)
StageIn(s, pt, stage, progress) ==
  [s EXCEPT !.pt = pt, !.stage = stage, !.progress = progress]

(* The row after one stage of the chain.                                   *)
LEMMA StageInIs ==
  ASSUME NEW s \in Weekly, NEW pt \in Nat, NEW stage \in Nat \ {0},
         NEW progress \in Nat
  PROVE  /\ StageIn(s, pt, stage, progress) \in Weekly
         /\ StageIn(s, pt, stage, progress).count = s.count
         /\ StageIn(s, pt, stage, progress).tier = s.tier
BY DEF Weekly, StageIn

(* One stage is submitted: the tier stays.                                 *)
LEMMA SubmitsStageKeeps ==
  ASSUME WInv, SubmitsStage
  PROVE  WInv'
<1>1. PICK s \in Weekly : s = disp.state
  BY FieldsAre DEF WInv, Holders, WeeklyTypes, SubmitsStage, Ending
<1> DEFINE next == s.stage + 1
           left == IF next \in DOMAIN Stages THEN Min({s.count, Stages[next]})
                   ELSE 0
           t == StageIn(s, s.pt + 1, next, left)
<1>2. /\ disp.at = "handler" /\ disp' = Free /\ SaveWeekly(t)
      /\ UNCHANGED <<now, emit, tierPaid>>
  BY <1>1, Zenon DEF SubmitsStage, Ending, Loaded, StageIn
<1>3. next \in Nat \ {0} /\ s.pt + 1 \in Nat
  BY FieldsAre
<1>4. left \in Nat
  <2>1. CASE next \in DOMAIN Stages
    <3>1. PICK a \in Nat, b \in Nat : a = s.count /\ b = Stages[next]
      BY <2>1, FieldsAre, ConstantsAre
    <3>2. Min({a, b}) \in Nat
      BY OfTwo
    <3> QED BY <2>1, <3>1, <3>2
  <2> QED BY <2>1
<1> HIDE DEF next, left
<1>5. t \in Weekly /\ t.count = s.count /\ t.tier = s.tier
  BY <1>3, <1>4, StageInIs
<1> HIDE DEF t
<1>6. t.count >= disp.state.count
  BY <1>1, <1>5, FieldsAre
<1> QED BY <1>1, <1>2, <1>5, <1>6, HandlerSaves

(* Several stages are handed in; the count is never lowered.               *)
AllIn(s, count, pt, stage, progress) ==
  [s EXCEPT !.count = count, !.pt = pt, !.stage = stage, !.progress = progress]

(* The row after all the stages that the count has reached.                *)
LEMMA AllInIs ==
  ASSUME NEW s \in Weekly, NEW count \in Nat, NEW pt \in Nat,
         NEW stage \in Nat \ {0}, NEW progress \in Nat
  PROVE  /\ AllIn(s, count, pt, stage, progress) \in Weekly
         /\ AllIn(s, count, pt, stage, progress).count = count
         /\ AllIn(s, count, pt, stage, progress).tier = s.tier
BY DEF Weekly, AllIn

(* All reached stages are submitted: the tier stays, and the count only    *)
(* rises.                                                                  *)
LEMMA SubmitsAllKeeps ==
  ASSUME WInv, SubmitsAll
  PROVE  WInv'
<1>1. PICK s \in Weekly : s = disp.state
  BY FieldsAre DEF WInv, Holders, WeeklyTypes, SubmitsAll, Ending
<1> DEFINE count == Max({s.count, s.progress})
           reached == {k \in s.stage..Len(Stages) :
                         \A j \in s.stage..k : count >= Stages[j]}
           next == s.stage + Cardinality(reached)
           left == IF next \in DOMAIN Stages THEN Min({count, Stages[next]})
                   ELSE 0
           pt == s.pt + Cardinality(reached)
           t == AllIn(s, count, pt, next, left)
<1>2. /\ disp.at = "handler" /\ disp' = Free /\ SaveWeekly(t)
      /\ UNCHANGED <<now, emit, tierPaid>>
  BY <1>1, Zenon DEF SubmitsAll, Ending, Loaded, AllIn
<1>3. s.count \in Nat /\ s.progress \in Nat /\ s.pt \in Nat /\ s.stage \in Nat \ {0}
  BY FieldsAre
<1>4. count \in Nat /\ count >= s.count
  BY <1>3, OfTwo
<1> HIDE DEF count
<1>5. Cardinality(reached) \in Nat
  <2>1. IsFiniteSet(s.stage..Len(Stages))
    <3>1. s.stage \in Int /\ Len(Stages) \in Int
      BY <1>3, ConstantsAre
    <3> QED BY <3>1, FS_Interval
  <2>2. reached \subseteq s.stage..Len(Stages)
    OBVIOUS
  <2> HIDE DEF reached
  <2> QED BY <2>1, <2>2, FS_Subset, FS_CardinalityType
<1> HIDE DEF reached
<1>6. next \in Nat \ {0} /\ pt \in Nat
  BY <1>3, <1>5
<1>7. left \in Nat
  <2>1. CASE next \in DOMAIN Stages
    <3>1. PICK a \in Nat, b \in Nat : a = count /\ b = Stages[next]
      BY <2>1, <1>4, ConstantsAre
    <3>2. Min({a, b}) \in Nat
      BY OfTwo
    <3> QED BY <2>1, <3>1, <3>2
  <2> QED BY <2>1
<1> HIDE DEF next, left, pt
<1>8. t \in Weekly /\ t.count = count /\ t.tier = s.tier
  BY <1>4, <1>6, <1>7, AllInIs
<1> HIDE DEF t
<1>9. t.count >= disp.state.count
  BY <1>1, <1>4, <1>8
<1> QED BY <1>1, <1>2, <1>8, <1>9, HandlerSaves

(* A tier that is paid is the next one.                                    *)
TierIs(s, tier) == [s EXCEPT !.tier = tier]

(* The row with the next tier on record.                                   *)
LEMMA TierIsSet ==
  ASSUME NEW s \in Weekly, NEW tier \in Nat
  PROVE  /\ TierIs(s, tier) \in Weekly /\ TierIs(s, tier).count = s.count
         /\ TierIs(s, tier).tier = tier
BY DEF Weekly, TierIs

(* A weekly reward is paid, then recorded; only a fault comes between.     *)
LEMMA ClaimsTierKeeps ==
  ASSUME WInv, ClaimsTier
  PROVE  WInv'
<1>1. PICK s \in Weekly : s = disp.state
  BY FieldsAre DEF WInv, Holders, WeeklyTypes, ClaimsTier, Ending
<1>2. PICK k \in Nat : k = s.tier + 1
  BY FieldsAre
<1> DEFINE t == TierIs(s, k)
<1>3. /\ disp.at = "handler" /\ disp' = Free /\ SaveWeekly(t)
      /\ k \in DOMAIN Tiers /\ tierPaid' = [tierPaid EXCEPT ![k] = OneMore(@)]
      /\ UNCHANGED <<now, emit>>
  BY <1>1, <1>2, Zenon DEF ClaimsTier, Ending, Loaded, TierIs, Claimable, PayTier
<1>4. t \in Weekly /\ t.count = s.count /\ t.tier = k
  BY TierIsSet
<1> HIDE DEF t
<1>5. t.count >= disp.state.count
  BY <1>1, <1>4, FieldsAre
<1> QED BY <1>1, <1>2, <1>3, <1>4, <1>5, HandlerSaves

-----------------------------------------------------------------------------
(* The dispatcher's other steps.                                           *)

(* A page that is done leaves the dispatcher free, or with a packet.       *)
LEMMA PageEndsIs ==
  PageEnds => disp' \in Dispatch /\ disp'.at \in {"free", "packet"} /\ disp'.page = 0
<1> SUFFICES ASSUME PageEnds
             PROVE  /\ disp' \in Dispatch /\ disp'.at \in {"free", "packet"}
                    /\ disp'.page = 0
  OBVIOUS
<1>1. disp' = Free \/ disp' = [Free EXCEPT !.at = "packet"]
  BY Zenon DEF PageEnds
<1> QED BY <1>1, IdleIs DEF Dispatch

(* The dispatcher's steps that write no weekly row.                        *)
LEMMA DispatchesKeep ==
  ASSUME WInv,
         \/ RollsOver \/ OpensPage \/ PageBegins \/ PageLoads \/ LogsIn
         \/ BeginsWeekly \/ EndsWeekly \/ \E m \in Mission : Accepts(m) \/ Submits(m)
         \/ UNCHANGED vars
  PROVE  WInv'
<1>1. /\ WeeklyTypes /\ disp \in Dispatch /\ disp.page <= now /\ now \in Week
      /\ now \in Nat /\ weekly \in Weekly \cup {NoState} /\ 0 <= now
      /\ faults \in 0..MaxFaults /\ MaxFaults \in Nat
      /\ disp.at = "handler" => disp.state # NoState
  BY FieldsAre, ConstantsAre DEF WInv, WeeklyTypes, InTime, Holders
<1>2. ASSUME UNCHANGED Books, UNCHANGED emit, disp' = Free,
             faults' \in 0..MaxFaults, faults' >= faults
      PROVE  WInv'
  BY <1>1, <1>2, IdleIs, DispatcherMoves
<1>3. CASE RollsOver
  <2>1. disp' \in Dispatch /\ disp'.at = "open" /\ disp'.page = 0
    BY <1>1, <1>3, IdleIs DEF RollsOver, Free, Dispatch
  <2>2. UNCHANGED Books /\ UNCHANGED <<emit, faults>>
    BY <1>3, Zenon DEF RollsOver, weeklyVars, counters, Books
  <2> QED BY <1>1, <2>1, <2>2, DispatcherMoves
<1>4. CASE OpensPage
  <2>1. disp' \in Dispatch /\ disp'.at = "open" /\ disp'.page = 0
    BY <1>1, <1>4, IdleIs DEF OpensPage, Free, Dispatch
  <2>2. UNCHANGED Books /\ UNCHANGED <<emit, faults>>
    BY <1>4, Zenon DEF OpensPage, weeklyVars, counters, Books
  <2> QED BY <1>1, <2>1, <2>2, DispatcherMoves
<1>5. CASE PageLoads
  <2>0. UNCHANGED Books /\ UNCHANGED emit /\ disp.at = "load"
    BY <1>5, Zenon DEF PageLoads, weeklyVars, Books
  <2>1. /\ faults' \in 0..MaxFaults /\ faults' >= faults
        /\ Fault => faults' > 0
    <3>1. UNCHANGED faults \/ Fault
      BY <1>5, Zenon DEF PageLoads
    <3> QED BY <3>1, FaultIs, Zenon
  <2>2. CASE disp' = [disp EXCEPT !.at = "save"]
    <3>1. disp' \in Dispatch /\ disp'.at = "save" /\ disp'.page = disp.page
      BY <1>1, <2>2 DEF Dispatch
    <3>2. ~(weekly # NoState /\ weekly.week = disp.page) \/ Fault
      <4>1. ~PageEnds
        BY <2>2, <3>1, PageEndsIs
      <4> QED BY <1>5, <4>1, Zenon DEF PageLoads
    <3> QED BY <1>1, <2>0, <2>1, <3>1, <3>2, DispatcherMoves
  <2>3. CASE PageEnds
    BY <1>1, <2>0, <2>1, <2>3, PageEndsIs, DispatcherMoves
  <2> QED BY <1>5, <2>2, <2>3, Zenon DEF PageLoads
<1>12. CASE PageBegins
  <2>0. UNCHANGED Books /\ UNCHANGED emit
    BY <1>12, Zenon DEF PageBegins, weeklyVars, Books
  <2>1. faults' \in 0..MaxFaults /\ faults' >= faults
    <3>1. UNCHANGED faults \/ Fault
      BY <1>12, Zenon DEF PageBegins
    <3> QED BY <3>1, FaultIs, Zenon
  <2>2. CASE disp' = [disp EXCEPT !.at = "load", !.page = now]
    <3>1. disp' \in Dispatch /\ disp'.at = "load" /\ disp'.page = now
      BY <1>1, <2>2 DEF Dispatch
    <3> QED BY <1>1, <2>0, <2>1, <3>1, DispatcherMoves
  <2>3. CASE PageEnds
    BY <1>1, <2>0, <2>1, <2>3, PageEndsIs, DispatcherMoves
  <2> QED BY <1>12, <2>2, <2>3, Zenon DEF PageBegins
<1>6. CASE LogsIn
  <2>1. UNCHANGED Books /\ UNCHANGED <<emit, faults, disp>>
    BY <1>6, Zenon DEF LogsIn, weeklyVars, counters, Books
  <2> QED BY <1>1, <2>1, DispatcherMoves
<1>7. CASE BeginsWeekly
  <2>1. disp' \in Dispatch /\ disp'.at = "handler" /\ disp'.page = 0
        /\ disp'.state # NoState
    <3>1. disp' = [Free EXCEPT !.at = "handler", !.state = weekly]
          /\ weekly # NoState
      BY <1>7, Zenon DEF BeginsWeekly
    <3> QED BY <1>1, <3>1, IdleIs DEF Dispatch
  <2>2. UNCHANGED Books /\ UNCHANGED <<emit, faults>>
    BY <1>7, Zenon DEF BeginsWeekly, weeklyVars, counters, Books
  <2> QED BY <1>1, <2>1, <2>2, DispatcherMoves
<1>8. CASE EndsWeekly
  <2>1. UNCHANGED Books /\ UNCHANGED <<emit, faults>> /\ disp' = Free
    BY <1>8, Zenon DEF EndsWeekly, weeklyVars, counters, Books
  <2> QED BY <1>1, <1>2, <2>1
<1>9. ASSUME NEW m \in Mission, Accepts(m)
      PROVE  WInv'
  <2>1. UNCHANGED Books /\ UNCHANGED <<emit, faults>> /\ disp' = Free
    BY <1>9, Zenon DEF Accepts, Handles, weeklyVars, Books
  <2> QED BY <1>1, <1>2, <2>1
<1>10. ASSUME NEW m \in Mission, Submits(m)
       PROVE  WInv'
  <2>1. UNCHANGED Books /\ UNCHANGED emit /\ disp' = Free
    BY <1>10, Zenon DEF Submits, Handles, weeklyVars, Books
  <2>2. PICK c \in Commits(3) : faults' = c.faults
    BY <1>10, Zenon DEF Submits
  <2>3. faults' \in 0..MaxFaults /\ faults' >= faults
    BY <1>1, <2>2 DEF Commits
  <2> QED BY <1>2, <2>1, <2>3
<1>11. CASE UNCHANGED vars
  <2>1. UNCHANGED Books /\ UNCHANGED <<emit, faults, disp>>
    BY <1>11, Zenon DEF vars, weeklyVars, counters, Books
  <2> QED BY <1>1, <2>1, DispatcherMoves
<1> QED BY <1>3, <1>4, <1>5, <1>6, <1>7, <1>8, <1>9, <1>10, <1>11, <1>12, Zenon

(* Events up to the lock.                                                  *)
LEMMA EventsKeep ==
  ASSUME WInv, NEW e \in Emits, EventHappens(e) \/ EventAdvances(e)
  PROVE  WInv'
<1>1. /\ WeeklyTypes /\ now \in Week /\ now \in Nat /\ emit[e] \in Emission
      /\ emit[e].week <= now
  BY FieldsAre DEF WInv, WeeklyTypes, InTime
<1>2. CASE EventHappens(e)
  <2> DEFINE r == [Idle EXCEPT !.at = "row", !.week = now]
  <2>1. r \in Emission /\ r.at = "row" /\ r.week = now
    BY <1>1, IdleIs DEF Emission
  <2>2. /\ UNCHANGED Books /\ UNCHANGED <<disp, faults>>
        /\ emit' = [emit EXCEPT ![e] = r]
    BY <1>2, Zenon DEF EventHappens, weeklyVars, Books
  <2> HIDE DEF r
  <2>3. r.week <= now /\ r.at # "save" /\ r.at \notin {"init", "again"}
    BY <1>1, <2>1
  <2>4. /\ UNCHANGED <<now, weekly, tierPaid, tally, stale, beaten, disp>>
        /\ lock' = lock /\ UNCHANGED faults
    BY <2>2, Zenon DEF Books
  <2>5. faults' \in 0..MaxFaults /\ faults' >= faults
    BY <2>4, FaultIs, Zenon
  <2> QED BY <2>1, <2>2, <2>3, <2>4, <2>5, EmitMoves
<1>3. CASE EventAdvances(e)
  <2> DEFINE r == [emit[e] EXCEPT !.at = "lock"]
  <2>1. r \in Emission /\ r.at = "lock" /\ r.week = emit[e].week
    BY <1>1 DEF Emission
  <2>2. /\ UNCHANGED Books /\ UNCHANGED <<disp, faults>>
        /\ emit' = [emit EXCEPT ![e] = r]
    BY <1>3, Zenon DEF EventAdvances, Goes, weeklyVars, counters, Books
  <2> HIDE DEF r
  <2>3. r.week <= now /\ r.at # "save" /\ r.at \notin {"init", "again"}
    BY <1>1, <2>1
  <2>4. /\ UNCHANGED <<now, weekly, tierPaid, tally, stale, beaten, disp>>
        /\ lock' = lock /\ UNCHANGED faults
    BY <2>2, Zenon DEF Books
  <2>5. faults' \in 0..MaxFaults /\ faults' >= faults
    BY <2>4, FaultIs, Zenon
  <2> QED BY <2>1, <2>2, <2>3, <2>4, <2>5, EmitMoves
<1> QED BY <1>2, <1>3

(* Every step keeps what is said of the weekly row.                        *)
LEMMA WeeklyKept ==
  ASSUME WInv, [Next]_vars
  PROVE  WInv'
<1>1. ASSUME NEW e \in Emits, EventHappens(e) \/ Emit(e)
      PROVE  WInv'
  <2>1. CASE EventHappens(e) \/ EventAdvances(e)
    BY <2>1, EventsKeep
  <2>2. CASE EventLoads(e)
    BY <2>2, EventLoadsKeeps
  <2>3. CASE EventInitialises(e)
    BY <2>3, EventInitialisesKeeps
  <2>4. CASE EventSaves(e)
    BY <2>4, EventSavesKeeps
  <2>5. CASE EventLoadsAgain(e)
    BY <2>5, EventLoadsAgainKeeps
  <2>6. CASE EventFails(e)
    BY <2>6, EventFailsKeeps
  <2> QED BY <1>1, <2>1, <2>2, <2>3, <2>4, <2>5, <2>6, Zenon DEF Emit
<1> QED BY <1>1, DispatchesKeep, PageSavesKeeps, MondayKeeps, SubmitsStageKeeps,
           SubmitsAllKeeps, ClaimsTierKeeps, Zenon DEF Next, Page

-----------------------------------------------------------------------------
(* The missions' own rows.                                                 *)

(* The fields of a row, and the day on which time starts.                  *)
LEMMA RowsAre ==
  /\ \A r \in Row : /\ r.progress \in 0..Target /\ r.accepted \in Week
                    /\ r.submitted \in BOOLEAN
  /\ \A w \in Week : NewRow(0, w) \in Row /\ NewRow(Min({1, Target}), w) \in Row
  /\ \A p, w : NewRow(p, w).accepted = w /\ ~NewRow(p, w).submitted
  /\ NoRow \notin Row
<1>1. 0 \in 0..Target /\ Min({1, Target}) \in 0..Target
  BY ConstantsAre, OfTwo
<1> HIDE DEF Min
<1> QED BY <1>1, ConstantsAre DEF Row, NewRow

(* The row of one mission is set to r.                                     *)
LEMMA RowSet ==
  ASSUME RowTypes, NEW m \in Mission, NEW r \in Row, row' = [row EXCEPT ![m] = r]
  PROVE  /\ row' \in [Mission -> Row \cup {NoRow}] /\ row'[m] = r
         /\ \A n \in Mission \ {m} : row'[n] = row[n]
BY DEF RowTypes

(* The rows that there are, with their types.                              *)
LEMMA RowIs ==
  ASSUME RowTypes, NEW m \in Mission
  PROVE  row[m] \in Row \cup {NoRow} /\ paid[m] \in 0..(MaxWeek + 2) /\ paid[m] \in Nat
<1>1. row[m] \in Row \cup {NoRow} /\ paid[m] \in 0..(MaxWeek + 2)
  BY Zenon DEF RowTypes
<1> QED BY <1>1

(* Rows are set, and nothing is paid.                                      *)
LEMMA RowWritten ==
  ASSUME RInv, now \in Nat, now' = now, UNCHANGED <<items, paid, spent>>,
         NEW r \in Row, row' = [row EXCEPT !["daily"] = r], r.accepted <= now,
         \/ row["daily"] = NoRow
         \/ row["daily"].accepted < r.accepted
         \/ /\ row["daily"].accepted = r.accepted
            /\ row["daily"].submitted = r.submitted
  PROVE  RInv'
<1>1. /\ RowTypes /\ DailyIsEarned /\ GoodsAreTaken /\ "daily" \in Mission
      /\ r.accepted \in Nat /\ r # NoRow
  BY ConstantsAre, RowsAre, FieldsAre DEF RInv
<1>2. row' \in [Mission -> Row \cup {NoRow}] /\ row'["daily"] = r
  BY <1>1, RowSet
<1>3. RowTypes' /\ GoodsAreTaken'
  BY <1>1, <1>2, Zenon DEF RowTypes, GoodsAreTaken
<1>4. /\ paid' = paid /\ paid["daily"] \in Nat
      /\ row["daily"] # NoRow => row["daily"].accepted \in Nat
  BY <1>1, RowIs, RowsAre, FieldsAre
<1>5. paid["daily"] <= r.accepted + (IF r.submitted THEN 1 ELSE 0)
  <2>1. CASE row["daily"] = NoRow
    BY <1>1, <1>4, <2>1 DEF DailyIsEarned
  <2>2. CASE row["daily"] # NoRow
    BY <1>1, <1>4, <2>2 DEF DailyIsEarned, Marked
  <2> QED BY <2>1, <2>2
<1>6. Marked' = IF r.submitted THEN 1 ELSE 0
  BY <1>2, Zenon DEF Marked
<1>7. DailyIsEarned'
  <2>1. row'["daily"] # NoRow /\ row'["daily"].accepted <= now'
        /\ paid'["daily"] <= row'["daily"].accepted + Marked'
    BY <1>1, <1>2, <1>4, <1>5, <1>6
  <2> QED BY <2>1, Zenon DEF DailyIsEarned
<1> QED BY <1>3, <1>7 DEF RInv

(* The day rolls over, or an event advances the daily mission.             *)
LEMMA RollsOverKeeps ==
  ASSUME WInv, RInv, RollsOver
  PROVE  RInv'
<1> DEFINE d == row["daily"]
           r == IF d = NoRow \/ d.accepted < now THEN NewRow(0, now) ELSE d
<1>1. /\ now \in Week /\ now \in Nat /\ RowTypes /\ DailyIsEarned
      /\ "daily" \in Mission
  BY ConstantsAre, FieldsAre DEF WInv, WeeklyTypes, RInv
<1>2. /\ now' = now /\ UNCHANGED <<items, paid, spent>>
      /\ row' = [row EXCEPT !["daily"] = r]
  BY <1>1, Zenon DEF RollsOver, RowTypes
<1>3. d \in Row \cup {NoRow} /\ (d # NoRow => d.accepted <= now)
  BY <1>1, RowIs, Zenon DEF DailyIsEarned
<1>4. r \in Row
  BY <1>1, <1>3, RowsAre
<1>5. r.accepted <= now
  BY <1>1, <1>3, RowsAre
<1>6. \/ d = NoRow
      \/ d.accepted < r.accepted
      \/ d.accepted = r.accepted /\ d.submitted = r.submitted
  BY <1>1, <1>3, RowsAre
<1> HIDE DEF r
<1> QED BY <1>1, <1>2, <1>4, <1>5, <1>6, RowWritten

(* The row after an event: one more, unless it was submitted.              *)
Raised(r) == [r EXCEPT !.progress = Min({@ + 1, Target})]
After(r, week) == IF r = NoRow THEN NewRow(Min({1, Target}), week)
                  ELSE IF r.submitted THEN r ELSE Raised(r)

(* A mission advances: neither its day nor its mark changes.               *)
LEMMA RaisedIs ==
  ASSUME NEW r \in Row
  PROVE  /\ Raised(r) \in Row /\ Raised(r).accepted = r.accepted
         /\ Raised(r).submitted = r.submitted
<1> DEFINE n == r.progress + 1
           p == Min({n, Target})
<1>1. p \in 0..Target
  <2>1. n \in Nat /\ Target \in Nat
    BY ConstantsAre, RowsAre
  <2> HIDE DEF n
  <2>2. Min({n, Target}) \in {n, Target} /\ Min({n, Target}) <= Target
    BY <2>1, OfTwo
  <2> QED BY <2>1, <2>2
<1>2. Raised(r) = [r EXCEPT !.progress = p]
  BY Zenon DEF Raised
<1> HIDE DEF p
<1> QED BY <1>1, <1>2 DEF Row

(* An event begins the daily mission on its own day, or advances it.       *)
LEMMA EventAdvancesKeeps ==
  ASSUME WInv, RInv, NEW e \in Emits, EventAdvances(e)
  PROVE  RInv'
<1> DEFINE d == row["daily"]
           r == After(d, emit[e].week)
<1>1. /\ now \in Nat /\ RowTypes /\ DailyIsEarned /\ "daily" \in Mission
      /\ emit[e].week \in Week /\ emit[e].week <= now
  BY ConstantsAre, FieldsAre DEF WInv, WeeklyTypes, InTime, RInv
<1>2. /\ now' = now /\ UNCHANGED <<items, paid, spent>>
      /\ row' = [row EXCEPT !["daily"] = r]
  BY Zenon DEF EventAdvances, After, Raised
<1>3. d \in Row \cup {NoRow} /\ (d # NoRow => d.accepted <= now)
  BY <1>1, RowIs, Zenon DEF DailyIsEarned
<1>4. CASE d = NoRow
  <2>1. r = NewRow(Min({1, Target}), emit[e].week)
    BY <1>4, Zenon DEF After
  <2>2. r \in Row /\ r.accepted <= now
    BY <1>1, <2>1, RowsAre
  <2> HIDE DEF r
  <2> QED BY <1>1, <1>2, <1>4, <2>2, RowWritten
<1>5. CASE d # NoRow
  <2>1. r = d \/ r = Raised(d)
    BY <1>5, Zenon DEF After
  <2>2. r \in Row /\ r.accepted = d.accepted /\ r.submitted = d.submitted
    BY <1>3, <1>5, <2>1, RaisedIs
  <2> HIDE DEF r
  <2> QED BY <1>1, <1>2, <1>3, <1>5, <2>2, RowWritten
<1> QED BY <1>4, <1>5

(* A mission is accepted.                                                  *)
LEMMA AcceptsKeeps ==
  ASSUME WInv, RInv, NEW m \in Mission, Accepts(m)
  PROVE  RInv'
<1>1. now \in Week /\ now \in Nat /\ RowTypes /\ DailyIsEarned /\ GoodsAreTaken
  BY FieldsAre DEF WInv, WeeklyTypes, RInv
<1> DEFINE r == NewRow(0, now)
<1>2. /\ now' = now /\ UNCHANGED <<items, paid, spent>> /\ row[m] = NoRow
      /\ row' = [row EXCEPT ![m] = r]
  BY Zenon DEF Accepts, Handles
<1>3. r \in Row /\ r.accepted = now
  BY <1>1, RowsAre
<1> HIDE DEF r
<1>4. CASE m = "daily"
  <2>1. row["daily"] = NoRow /\ row' = [row EXCEPT !["daily"] = r] /\ r.accepted <= now
    BY <1>1, <1>2, <1>3, <1>4
  <2> QED BY <1>1, <1>2, <1>3, <2>1, RowWritten
<1>5. CASE m # "daily"
  <2>1. row' \in [Mission -> Row \cup {NoRow}] /\ row'["daily"] = row["daily"]
    BY <1>1, <1>2, <1>3, <1>5, RowSet, ConstantsAre
  <2> QED BY <1>1, <1>2, <2>1, Zenon DEF RInv, RowTypes, GoodsAreTaken,
             DailyIsEarned, Marked
<1> QED BY <1>4, <1>5

(* A mission with its mark.                                                *)
Done(r) == [r EXCEPT !.submitted = TRUE]

(* A mission is marked: its day stays.                                     *)
LEMMA DoneIs ==
  ASSUME NEW r \in Row
  PROVE  Done(r) \in Row /\ Done(r).accepted = r.accepted /\ Done(r).submitted
BY DEF Done, Row

(* A mission is submitted, up to the commit that fails.                    *)
LEMMA SubmitsKeeps ==
  ASSUME WInv, RInv, NEW m \in Mission, Submits(m)
  PROVE  RInv'
<1>1. /\ now \in Week /\ now \in Nat /\ RowTypes /\ DailyIsEarned /\ GoodsAreTaken
      /\ "daily" \in Mission
  BY ConstantsAre, FieldsAre DEF WInv, WeeklyTypes, RInv
<1>2. PICK c \in Commits(3) :
        /\ row' = IF c.done >= 1 /\ row[m] # NoRow
                  THEN [row EXCEPT ![m].submitted = TRUE] ELSE row
        /\ LET goods == IF m = "give" /\ c.done >= 2 THEN 1 ELSE 0 IN
             items' = items - goods /\ spent' = spent + goods
        /\ paid' = [paid EXCEPT ![m] = IF c.done >= 3 THEN OneMore(@) ELSE @]
  BY Zenon DEF Submits
<1> DEFINE done == c.done
           goods == IF m = "give" /\ done >= 2 THEN 1 ELSE 0
           q == IF done >= 3 THEN OneMore(paid[m]) ELSE paid[m]
<1>3. done \in Nat
  BY DEF Commits
<1>4. now' = now /\ MaySubmit(m)
  BY Zenon DEF Submits, Handles
<1>5. /\ row[m] \in Row \cup {NoRow} /\ paid[m] \in 0..(MaxWeek + 2)
      /\ paid[m] \in Nat /\ row["daily"] \in Row \cup {NoRow}
      /\ paid["daily"] \in Nat /\ MaxWeek \in Nat
  BY <1>1, RowIs, ConstantsAre
<1>6. /\ q \in 0..(MaxWeek + 2) /\ q \in Nat /\ q <= paid[m] + 1
      /\ ~(done >= 3) => q = paid[m]
  BY <1>5, OneMoreIs
<1>7. paid' = [paid EXCEPT ![m] = q] /\ items' = items - goods /\ spent' = spent + goods
  BY <1>1, <1>2, Zenon DEF RowTypes
<1>8. /\ paid' \in [Mission -> 0..(MaxWeek + 2)] /\ paid'[m] = q
      /\ \A n \in Mission \ {m} : paid'[n] = paid[n]
  <2> HIDE DEF q
  <2> QED BY <1>1, <1>6, <1>7 DEF RowTypes
<1>9. items' \in 0..MaxItems /\ spent' \in Nat /\ spent' >= spent
  <2>1. goods = 1 => items > 0
    <3> SUFFICES ASSUME m = "give" PROVE items > 0
      OBVIOUS
    <3>1. MaySubmit("give")
      BY <1>4, Zenon
    <3> QED BY <3>1 DEF MaySubmit
  <2>2. goods \in {0, 1}
    OBVIOUS
  <2> HIDE DEF goods
  <2> QED BY <1>1, <1>7, <2>1, <2>2, ConstantsAre DEF RowTypes
<1>10. /\ row' \in [Mission -> Row \cup {NoRow}]
       /\ \A n \in Mission \ {m} : row'[n] = row[n]
       /\ row'[m] = IF done >= 1 /\ row[m] # NoRow THEN Done(row[m]) ELSE row[m]
  <2>1. CASE done >= 1 /\ row[m] # NoRow
    <3> DEFINE r == Done(row[m])
    <3>1. row' = [row EXCEPT ![m] = r] /\ r \in Row
      BY <1>1, <1>2, <1>5, <2>1, DoneIs, Zenon DEF Done, RowTypes
    <3> HIDE DEF r
    <3>2. /\ row' \in [Mission -> Row \cup {NoRow}]
          /\ \A n \in Mission \ {m} : row'[n] = row[n]
          /\ row'[m] = r
      BY <1>1, <3>1, RowSet
    <3> QED BY <2>1, <3>2, Zenon DEF r
  <2>2. CASE ~(done >= 1 /\ row[m] # NoRow)
    <3>1. row' = row
      BY <1>2, <2>2, Zenon
    <3> QED BY <1>1, <2>2, <3>1, Zenon DEF RowTypes
  <2> QED BY <2>1, <2>2
<1>11. RowTypes'
  BY <1>8, <1>9, <1>10, Zenon DEF RowTypes
<1>12. GoodsAreTaken'
  <2> SUFFICES ASSUME "give" \in Mission PROVE paid'["give"] <= spent'
    BY Zenon DEF GoodsAreTaken
  <2>1. paid["give"] <= spent /\ paid["give"] \in Nat /\ spent \in Nat
    BY <1>1, RowIs DEF GoodsAreTaken, RowTypes
  <2>2. CASE m = "give"
    <3>1. paid'["give"] = q /\ q <= paid["give"] + 1
          /\ (~(done >= 3) => q = paid["give"])
      BY <1>6, <1>8, <2>2
    <3>2. done >= 3 => spent' = spent + 1
      BY <1>3, <1>7, <2>1, <2>2
    <3> HIDE DEF q, goods, done
    <3> QED BY <1>6, <1>9, <2>1, <3>1, <3>2
  <2>3. CASE m # "give"
    BY <1>8, <1>9, <2>1, <2>3
  <2> QED BY <2>2, <2>3
<1>13. DailyIsEarned'
  <2>1. CASE m # "daily"
    <3>1. row'["daily"] = row["daily"] /\ paid'["daily"] = paid["daily"]
      BY <1>1, <1>8, <1>10, <2>1
    <3> QED BY <1>1, <1>4, <3>1, Zenon DEF DailyIsEarned, Marked
  <2>2. CASE m = "daily"
    <3> DEFINE d == row["daily"]
    <3>1. d \in Row /\ ~d.submitted
      <4>1. ~Submitted("daily") /\ Progress("daily") >= Target
        BY <1>4, <2>2, Zenon DEF MaySubmit
      <4>2. d # NoRow
        BY <4>1, ConstantsAre DEF Progress
      <4> QED BY <1>5, <4>1, <4>2, Zenon DEF Submitted
    <3>2. d # NoRow /\ d.accepted \in Nat /\ d.accepted <= now
          /\ paid["daily"] <= d.accepted
      <4>1. d # NoRow /\ d.accepted \in Nat
        BY <3>1, RowsAre, FieldsAre
      <4>2. d.accepted <= now /\ paid["daily"] <= d.accepted + Marked /\ Marked = 0
        BY <1>1, <3>1, <4>1, Zenon DEF DailyIsEarned, Marked
      <4> QED BY <1>5, <4>1, <4>2
    <3>3. /\ row'["daily"] = IF done >= 1 THEN Done(d) ELSE d
          /\ paid'["daily"] = q
      BY <1>8, <1>10, <2>2, <3>2
    <3>4. q <= paid["daily"] + 1 /\ (~(done >= 3) => q = paid["daily"])
      BY <1>6, <2>2
    <3>5. CASE done >= 1
      <4>1. row'["daily"] \in Row /\ row'["daily"] # NoRow
            /\ row'["daily"].accepted = d.accepted /\ Marked' = 1
        <5>1. row'["daily"] = Done(d)
          BY <3>3, <3>5, Zenon
        <5>2. /\ Done(d) \in Row /\ Done(d).accepted = d.accepted
              /\ Done(d).submitted /\ Done(d) # NoRow
          BY <3>1, DoneIs, RowsAre, Zenon
        <5> QED BY <5>1, <5>2, Zenon DEF Marked
      <4>2. q <= d.accepted + 1
        <5> HIDE DEF q, done
        <5> QED BY <1>5, <1>6, <3>2, <3>4
      <4> QED BY <1>4, <3>2, <3>3, <4>1, <4>2, Zenon DEF DailyIsEarned
    <3>6. CASE ~(done >= 1)
      <4>1. row'["daily"] = d /\ paid'["daily"] = paid["daily"]
        BY <1>3, <3>3, <3>4, <3>6
      <4> QED BY <1>1, <1>4, <4>1, Zenon DEF DailyIsEarned, Marked
    <3> QED BY <3>5, <3>6
  <2> QED BY <2>1, <2>2
<1> QED BY <1>11, <1>12, <1>13 DEF RInv

(* Steps that leave the missions alone.                                    *)
LEMMA RowsLeft ==
  ASSUME WInv, WInv', RInv, UNCHANGED rowVars, now' >= now
  PROVE  RInv'
<1>1. /\ RowTypes /\ DailyIsEarned /\ GoodsAreTaken /\ now \in Nat /\ now' \in Nat
      /\ row' = row /\ items' = items /\ paid' = paid /\ spent' = spent
      /\ "daily" \in Mission
  BY FieldsAre, ConstantsAre DEF RInv, WInv, WeeklyTypes, rowVars
<1>2. RowTypes' /\ GoodsAreTaken'
  BY <1>1, Zenon DEF RowTypes, GoodsAreTaken
<1>3. DailyIsEarned'
  <2>1. CASE row["daily"] = NoRow
    BY <1>1, <2>1, Zenon DEF DailyIsEarned
  <2>2. CASE row["daily"] # NoRow
    <3>1. row["daily"].accepted \in Nat
      BY <1>1, <2>2, RowIs, RowsAre, FieldsAre
    <3>2. /\ row["daily"].accepted <= now
          /\ paid["daily"] <= row["daily"].accepted + Marked
      BY <1>1, <2>2, Zenon DEF DailyIsEarned
    <3>3. row["daily"].accepted <= now'
      BY <1>1, <3>1, <3>2
    <3> QED BY <1>1, <2>2, <3>2, <3>3, Zenon DEF DailyIsEarned, Marked
  <2> QED BY <2>1, <2>2
<1> QED BY <1>2, <1>3 DEF RInv

(* Every step keeps what is said of the missions.                          *)
LEMMA RowsKept ==
  ASSUME WInv, WInv', RInv, [Next]_vars
  PROVE  RInv'
<1>0. now \in Nat
  BY FieldsAre DEF WInv, WeeklyTypes
<1>1. ASSUME UNCHANGED rowVars, now' = now \/ now' = now + 1
      PROVE  RInv'
  <2>1. now' >= now
    BY <1>0, <1>1
  <2> QED BY <1>1, <2>1, RowsLeft
<1>2. ASSUME NEW e \in Emits, EventHappens(e) \/ Emit(e)
      PROVE  RInv'
  <2>1. CASE EventAdvances(e)
    BY <2>1, EventAdvancesKeeps
  <2>2. CASE \/ EventHappens(e) \/ EventLoads(e) \/ EventInitialises(e)
             \/ EventLoadsAgain(e) \/ EventSaves(e) \/ EventFails(e)
    <3>1. UNCHANGED rowVars /\ now' = now
      BY <2>2, Zenon DEF EventHappens, EventLoads, EventInitialises,
         EventLoadsAgain, EventSaves, EventFails
    <3> QED BY <1>1, <3>1
  <2> QED BY <1>2, <2>1, <2>2, Zenon DEF Emit
<1>3. ASSUME \/ PageBegins \/ PageLoads \/ PageSaves \/ OpensPage \/ LogsIn
             \/ BeginsWeekly \/ EndsWeekly
      PROVE  RInv'
  <2>1. UNCHANGED rowVars /\ now' = now
    BY <1>3, Zenon DEF PageBegins, PageLoads, PageSaves, OpensPage, LogsIn,
       BeginsWeekly, EndsWeekly
  <2> QED BY <1>1, <2>1
<1>4. ASSUME SubmitsStage \/ SubmitsAll \/ ClaimsTier
      PROVE  RInv'
  <2>1. UNCHANGED rowVars /\ now' = now
    BY <1>4, Zenon DEF SubmitsStage, SubmitsAll, ClaimsTier, Ending
  <2> QED BY <1>1, <2>1
<1>5. ASSUME MondayComes PROVE RInv'
  <2>1. UNCHANGED rowVars /\ now' = now + 1
    BY <1>5, Zenon DEF MondayComes
  <2> QED BY <1>1, <2>1
<1>6. ASSUME UNCHANGED vars PROVE RInv'
  <2>1. UNCHANGED rowVars /\ now' = now
    BY <1>6, Zenon DEF vars
  <2> QED BY <1>1, <2>1
<1> QED BY <1>2, <1>3, <1>4, <1>5, <1>6, RollsOverKeeps, AcceptsKeeps, SubmitsKeeps,
           Zenon DEF Next, Page

-----------------------------------------------------------------------------
(* The theorems.                                                           *)

(* What the session has seen, and the events.                              *)
LEMMA RestKept ==
  ASSUME WInv, RestTypes, [Next]_vars
  PROVE  RestTypes'
<1>1. now \in Week /\ seen \in Week \cup {NoRow} /\ events \in 0..MaxEvents
      /\ disp.day \in Week \cup {NoRow}
  BY DEF WInv, WeeklyTypes, RestTypes, Dispatch
<1>2. seen' = seen \/ seen' = NoRow \/ (seen' = disp.day /\ disp.day # NoRow)
  BY Zenon DEF Next, Page, Emit, vars, RollsOver, OpensPage, PageEnds, PageBegins, PageLoads,
     PageSaves, LogsIn, MondayComes, BeginsWeekly, EndsWeekly, SubmitsStage,
     SubmitsAll, ClaimsTier, Ending, EventHappens, EventAdvances, EventLoads,
     EventInitialises, EventLoadsAgain, EventSaves, EventFails, Accepts, Submits,
     Handles
<1>3. events' = events \/ (events < MaxEvents /\ events' = events + 1)
  BY Zenon DEF Next, Page, Emit, vars, counters, RollsOver, OpensPage, PageBegins, PageLoads,
     PageSaves, LogsIn, MondayComes, BeginsWeekly, EndsWeekly, SubmitsStage,
     SubmitsAll, ClaimsTier, Ending, EventHappens, EventAdvances, EventLoads,
     EventInitialises, EventLoadsAgain, EventSaves, EventFails, Accepts, Submits,
     Handles
<1>4. seen' \in Week \cup {NoRow}
  BY <1>1, <1>2, Zenon
<1>5. events' \in 0..MaxEvents
  BY <1>1, <1>3, ConstantsAre
<1> QED BY <1>4, <1>5 DEF RestTypes

(* The invariant holds before the first step.                              *)
LEMMA InitHolds ==
  ASSUME Init
  PROVE  IInv
<1>1. 0 \in Week /\ 0 \in Nat /\ 0 \in 0..MaxFaults /\ 0 \in 0..MaxEvents
      /\ 0 \in 0..(MaxWeek + 2) /\ MaxItems \in 0..MaxItems
  BY ConstantsAre DEF Week
<1>2. /\ now = 0 /\ seen = NoRow /\ row = [m \in Mission |-> NoRow]
      /\ items = MaxItems /\ weekly = NoState /\ lock = NoRow
      /\ emit = [e \in Emits |-> Idle] /\ disp = Free /\ events = 0 /\ faults = 0
      /\ paid = [m \in Mission |-> 0] /\ tierPaid = [k \in DOMAIN Tiers |-> 0]
      /\ spent = 0 /\ tally = 0 /\ stale = FALSE /\ beaten = FALSE
  BY Zenon DEF Init
<1>3. WeeklyTypes
  <2>1. /\ emit \in [Emits -> Emission] /\ disp \in Dispatch
        /\ tierPaid \in [DOMAIN Tiers -> 0..(MaxWeek + 2)]
    BY <1>1, <1>2, IdleIs
  <2> QED BY <1>1, <1>2, <2>1, Zenon DEF WeeklyTypes
<1>4. InTime /\ Holders /\ Counted
  BY <1>2, IdleIs DEF InTime, Holders, Counted
<1>5. PaidIsOnRecord /\ RecordIsPaid
  BY <1>2 DEF PaidIsOnRecord, RecordIsPaid, OfThisWeek
<1>6. RInv
  <2>1. row["daily"] = NoRow /\ paid["daily"] = 0
    BY <1>2, ConstantsAre
  <2>2. /\ row \in [Mission -> Row \cup {NoRow}]
        /\ paid \in [Mission -> 0..(MaxWeek + 2)]
    BY <1>1, <1>2
  <2>3. RowTypes /\ DailyIsEarned
    BY <1>1, <1>2, <2>1, <2>2, Zenon DEF RowTypes, DailyIsEarned
  <2>4. GoodsAreTaken
    BY <1>2 DEF GoodsAreTaken
  <2> QED BY <2>3, <2>4 DEF RInv
<1> QED BY <1>1, <1>2, <1>3, <1>4, <1>5, <1>6 DEF IInv, WInv, RestTypes

(* The invariant of every behaviour, from which the theorems follow.       *)
THEOREM Invariance == Spec => []IInv
<1>1. IInv /\ [Next]_vars => IInv'
  BY WeeklyKept, RowsKept, RestKept, Zenon DEF IInv
<1> QED BY InitHolds, <1>1, PTL DEF Spec

(* Every variable keeps its type, for every value of the constants.        *)
THEOREM TypeCorrect == Spec => []TypeOK
<1>1. IInv => TypeOK
  BY Zenon DEF IInv, WInv, RInv, RestTypes, TypeOK
<1> QED BY Invariance, <1>1, PTL

(* Any number of concurrent emits (emit_task_progress, under               *)
(* _WEEKLY_LOCKS): no event that one of them saved this week is missing    *)
(* from this week's row, unless a handler (it takes no lock) wrote over    *)
(* what it had loaded before, or a page (neither does it) or an emit whose *)
(* load failed, or found all missions done, replaced a row of this week.   *)
THEOREM EventsCounted == Spec => []EventsAreCounted
<1>1. IInv => EventsAreCounted
  BY Zenon DEF IInv, WInv, Counted, EventsAreCounted
<1> QED BY Invariance, <1>1, PTL

(* A weekly reward (handle_submit_weekly_progress) is paid at most once a  *)
(* week and is on record only when it was paid, for every number of tiers  *)
(* and weeks, unless a fault or a stale write came between.                *)
THEOREM TiersPaidOnce == Spec => []TierPaidOnce
<1>1. IInv => TierPaidOnce
  <2> SUFFICES ASSUME IInv, ~stale PROVE TierPaidOnce
    BY Zenon DEF TierPaidOnce
  <2>1. PaidIsOnRecord /\ RecordIsPaid /\ faults \in Nat
    BY ConstantsAre DEF IInv, WInv, WeeklyTypes
  <2>2. faults > 0 \/ faults = 0
    BY <2>1
  <2> QED BY <2>1, <2>2, Zenon DEF TierPaidOnce, PaidIsOnRecord, RecordIsPaid
<1> QED BY Invariance, <1>1, PTL

(* Whatever faults there were between the commits of                       *)
(* _submit_task_and_get_drops, a daily mission is paid at most once for    *)
(* each day, and no reward is given for goods that were not taken.         *)
THEOREM RewardsEarned == Spec => []RewardsAreEarned
<1>1. IInv => RewardsAreEarned
  <2> SUFFICES ASSUME IInv PROVE RewardsAreEarned
    OBVIOUS
  <2>1. /\ RowTypes /\ DailyIsEarned /\ GoodsAreTaken /\ now \in Nat
        /\ "daily" \in Mission
    BY FieldsAre, ConstantsAre DEF IInv, WInv, WeeklyTypes, RInv
  <2>2. paid["daily"] \in Nat /\ row["daily"] \in Row \cup {NoRow}
    BY <2>1, RowIs
  <2>3. paid["daily"] <= now + 1
    <3>1. CASE row["daily"] = NoRow
      BY <2>1, <3>1 DEF DailyIsEarned
    <3>2. CASE row["daily"] # NoRow
      <4>1. row["daily"].accepted \in Nat
        BY <2>2, <3>2, RowsAre, FieldsAre
      <4>2. /\ row["daily"].accepted <= now /\ Marked \in {0, 1}
            /\ paid["daily"] <= row["daily"].accepted + Marked
        BY <2>1, <3>2, Zenon DEF DailyIsEarned, Marked
      <4> QED BY <2>1, <2>2, <4>1, <4>2
    <3> QED BY <3>1, <3>2
  <2> QED BY <2>1, <2>3, Zenon DEF RewardsAreEarned, GoodsAreTaken
<1> QED BY Invariance, <1>1, PTL

=============================================================================
