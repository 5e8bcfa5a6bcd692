------------------------ MODULE OrderLifecycle_proofs ------------------------
(* The invariants of OrderLifecycle, proved for every set of rows, orders  *)
(* and spreads, every lot size and every combination of faults.            *)
EXTENDS OrderLifecycle, TLAPS

(* What the control state says of the loops and of the order in hand.      *)
ControlInv ==
    /\ pc \in {"placeEntry", "recordEntry"} =>
           curRow \in Row /\ book[curRow].status = "pending_open" /\ book[curRow].order = NoOrder
    /\ pc = "placeExit" =>
           curRow \in Row /\ book[curRow].status = "open" /\ ~HasPendingExit(curRow)
    /\ pc = "recordEntry" => curOrder \in Order
    /\ pc \in {"pollEntries", "entryTimeouts"} => todo \subseteq PendingEntryIds
    /\ pc \in {"pollExits", "exitTimeouts"} => todo \subseteq PendingExitIds
    /\ pc \in {"exits", "placeExit"} => todo \subseteq Row
    /\ eodDone => late
    /\ pc \in {"down", "startup"} => PendingEntryIds = {} /\ PendingExitIds = {}

(* A row never awaits its entry and its exit at once.                      *)
TrackersDisjoint ==
    \A o \in PendingEntryIds, p \in PendingExitIds : pendingEntries[o] # pendingExits[p]

(* A row that was ever written has a spread.                               *)
SpreadKnown == \A r \in Row : book[r].status # "none" => book[r].spread \in Spread

(* The trackers, the database and the list agree with each other.          *)
Agreement ==
    /\ SpreadKnown
    /\ PendingEntryBacked
    /\ PendingExitBacked
    /\ TrackersDisjoint
    /\ MemoryMirrorsBook
    /\ OneActiveRowPerSpread

IInv == TypeOK /\ ControlInv /\ Agreement

-----------------------------------------------------------------------------

(* The initial state satisfies the inductive invariant.                    *)
LEMMA InitIInv == Init => IInv
<1> SUFFICES ASSUME Init PROVE IInv
  OBVIOUS
<1> USE SentinelAssumption DEF Init
<1>1. TypeOK
  <2>1. BlankRow \in BookRow
    BY DEF BlankRow, BookRow, Status
  <2>2. Absent \in Object
    BY DEF Absent, Object
  <2>3. NoTicket \in Ticket
    BY DEF NoTicket, Ticket, OrderState
  <2>4. /\ book \in [Row -> BookRow] /\ memory \in [Row -> Object]
        /\ order \in [Order -> Ticket] /\ held \in [Spread -> Int]
    BY <2>1, <2>2, <2>3
  <2> QED
    BY <2>4 DEF TypeOK
<1>2. PendingEntryIds = {} /\ PendingExitIds = {}
  BY DEF PendingEntryIds, PendingExitIds
<1>3. ControlInv
  BY <1>2 DEF ControlInv
<1>4. Agreement
  BY <1>2 DEF Agreement, SpreadKnown, PendingEntryBacked, PendingExitBacked, TrackersDisjoint,
     MemoryMirrorsBook, OneActiveRowPerSpread, InMemory, Active, BlankRow, Absent
<1> QED
  BY <1>1, <1>3, <1>4 DEF IInv

(* A step of IBKR or of the clock leaves the engine as it is.              *)
LEMMA EngineUnchanged ==
    ASSUME ControlInv, Agreement, UNCHANGED engine, late => late'
    PROVE  ControlInv' /\ Agreement'
<1> USE DEF engine, store, control, PendingEntryIds, PendingExitIds
<1>1. ControlInv'
  BY DEF ControlInv, HasPendingExit
<1>2. Agreement'
  BY DEF Agreement, SpreadKnown, PendingEntryBacked, PendingExitBacked, TrackersDisjoint,
     MemoryMirrorsBook, OneActiveRowPerSpread, InMemory
<1> QED
  BY <1>1, <1>2

(* A step that leaves the store alone, and drops trackers at most.         *)
LEMMA StoreUnchanged ==
    ASSUME Agreement, pc # "down", UNCHANGED <<store, day, eodDone>>,
           \A o \in Order : pendingEntries'[o] \in {NoRow, pendingEntries[o]},
           \A o \in Order \cup {NoOrder} : pendingExits'[o] \in {NoRow, pendingExits[o]}
    PROVE  Agreement'
<1>1. /\ PendingEntryIds' \subseteq PendingEntryIds
      /\ \A o \in PendingEntryIds' : pendingEntries'[o] = pendingEntries[o]
      /\ PendingExitIds' \subseteq PendingExitIds
      /\ \A o \in PendingExitIds' : pendingExits'[o] = pendingExits[o]
  BY DEF PendingEntryIds, PendingExitIds
<1> USE DEF store, late
<1>2. SpreadKnown' /\ MemoryMirrorsBook' /\ OneActiveRowPerSpread'
  BY DEF Agreement, SpreadKnown, MemoryMirrorsBook, OneActiveRowPerSpread, InMemory
<1>3. PendingEntryBacked'
  BY <1>1 DEF Agreement, PendingEntryBacked
<1>4. PendingExitBacked'
  BY <1>1 DEF Agreement, PendingExitBacked
<1>5. TrackersDisjoint'
  BY <1>1 DEF Agreement, TrackersDisjoint
<1> QED
  BY <1>2, <1>3, <1>4, <1>5 DEF Agreement

(* Every step of IBKR and of the clock preserves the invariant.            *)
LEMMA BrokerPreserves == IInv /\ BrokerStep => IInv'
<1> SUFFICES ASSUME IInv, BrokerStep PROVE IInv'
  OBVIOUS
<1> USE DEF IInv
<1>1. CASE MarketClose
  <2>1. TypeOK'
    BY <1>1 DEF MarketClose, TypeOK, engine, store, control
  <2> QED
    BY <1>1, <2>1, EngineUnchanged DEF MarketClose, late
<1>2. CASE Settle
  <2>1. ASSUME NEW o \in Order PROVE [order[o] EXCEPT !.state = "cancelled"] \in Ticket
    <3>1. order[o] \in Ticket
      BY DEF TypeOK
    <3> QED
      BY <3>1 DEF Ticket, OrderState
  <2>2. order' \in [Order -> Ticket]
    BY <1>2, <2>1 DEF Settle, TypeOK
  <2>3. held' \in [Spread -> Int] /\ day' = "settled"
    BY <1>2 DEF Settle
  <2>4. TypeOK'
    BY <1>2, <2>2, <2>3 DEF Settle, TypeOK, engine, store, control
  <2> QED
    BY <1>2, <2>4, EngineUnchanged DEF Settle, late
<1>3. ASSUME NEW s \in Spread, CloseInTws(s) PROVE IInv'
  <2>1. TypeOK'
    BY <1>3 DEF CloseInTws, TypeOK, engine, store, control
  <2> QED
    BY <1>3, <2>1, EngineUnchanged DEF CloseInTws, late
<1>4. ASSUME NEW o \in Order \cup {NoOrder}, Age(o) PROVE IInv'
  <2>1. TypeOK'
    BY <1>4 DEF Age, TypeOK, engine, store, control, broker
  <2> QED
    BY <1>4, <2>1, EngineUnchanged DEF Age, broker, late
<1>5. ASSUME NEW o \in Order, Fill(o) PROVE IInv'
  <2> DEFINE was == order[o]
             now == [was EXCEPT !.filled = @ + 1,
                        !.state = IF was.filled + 1 = was.qty THEN "filled" ELSE @]
  <2>1. order' \in [Order -> Ticket]
    <3>1. now \in Ticket
      <4>1. was \in Ticket
        BY DEF TypeOK
      <4>2. was.filled + 1 \in Nat
        BY <4>1 DEF Ticket
      <4>3. (IF was.filled + 1 = was.qty THEN "filled" ELSE was.state) \in OrderState
        BY <4>1 DEF Ticket, OrderState
      <4> QED
        BY <4>1, <4>2, <4>3 DEF Ticket
    <3>2. order' = [order EXCEPT ![o] = now]
      BY <1>5 DEF Fill, TypeOK
    <3> QED
      BY <3>1, <3>2 DEF TypeOK
  <2>2. held' \in [Spread -> Int]
    <3>1. CASE was.spread \in Spread
      <4>1. held[was.spread] \in Int
        BY <3>1 DEF TypeOK
      <4> DEFINE n == IF was.side = "entry" THEN held[was.spread] + 1
                      ELSE held[was.spread] - 1
      <4>2. n \in Int
        BY <4>1
      <4>3. held' = [held EXCEPT ![was.spread] = n]
        BY <1>5 DEF Fill
      <4> HIDE DEF n
      <4> QED
        BY <4>2, <4>3 DEF TypeOK
    <3>2. CASE was.spread \notin Spread
      <4>1. held' = held
        BY <1>5, <3>2 DEF Fill, TypeOK
      <4> QED
        BY <4>1 DEF TypeOK
    <3> QED
      BY <3>1, <3>2
  <2>3. TypeOK'
    BY <1>5, <2>1, <2>2 DEF Fill, TypeOK, engine, store, control
  <2> QED
    BY <1>5, <2>3, EngineUnchanged DEF Fill, late
<1>6. ASSUME NEW o \in Order, CancelByBroker(o) PROVE IInv'
  <2>1. TypeOK'
    BY <1>6 DEF CancelByBroker, TypeOK, engine, store, control, Ticket, OrderState
  <2> QED
    BY <1>6, <2>1, EngineUnchanged DEF CancelByBroker, late
<1>7. ASSUME NEW o \in Order, RejectByBroker(o) PROVE IInv'
  <2>1. TypeOK'
    BY <1>7 DEF RejectByBroker, TypeOK, engine, store, control, Ticket, OrderState
  <2> QED
    BY <1>7, <2>1, EngineUnchanged DEF RejectByBroker, late
<1>8. ASSUME NEW o \in Order, ExecuteLate(o) PROVE IInv'
  <2>1. TypeOK'
    BY <1>8 DEF ExecuteLate, TypeOK, engine, store, control, Ticket, OrderState
  <2> QED
    BY <1>8, <2>1, EngineUnchanged DEF ExecuteLate, late
<1> QED
  BY <1>1, <1>2, <1>3, <1>4, <1>5, <1>6, <1>7, <1>8 DEF BrokerStep

(* The steps that only move the engine on in its tick.                     *)
ControlStep ==
    \/ TickBegin \/ PollEntriesDone \/ PollExitsDone \/ EntryTimeoutsDone
    \/ ExitTimeoutsDone \/ EodDone \/ ExitsDone \/ NoEntry
    \/ (\E o \in Order : PollInactive(o))
    \/ (\E r \in Row : ExitNotChecked(r) \/ ExitCheckFails(r))

(* They leave rows, trackers and account alone, so what held still holds.  *)
LEMMA ControlPreserves == IInv /\ ControlStep => IInv'
<1> SUFFICES ASSUME IInv, ControlStep PROVE IInv'
  OBVIOUS
<1> USE DEF IInv
<1>1. UNCHANGED <<store, trackers, curRow, curOrder, eodDone, broker>> /\ pc # "down"
  BY DEF ControlStep, PollInactive, TickBegin, PollEntriesDone, PollExitsDone, EntryTimeoutsDone,
     ExitTimeoutsDone, EodDone, ExitsDone, NoEntry, ExitNotChecked, ExitCheckFails, control
<1>2. Agreement'
  BY <1>1, StoreUnchanged DEF trackers, broker
<1>3. TypeOK'
  <2>1. PendingEntryIds \subseteq Order /\ PendingExitIds \subseteq Order \cup {NoOrder}
        /\ OpenInMemory \subseteq Row
    BY DEF PendingEntryIds, PendingExitIds, OpenInMemory
  <2>2. todo' \subseteq Row \cup Order \cup {NoOrder}
    BY <2>1 DEF TypeOK, ControlStep, PollInactive, TickBegin, PollEntriesDone, PollExitsDone,
       EntryTimeoutsDone, ExitTimeoutsDone, EodDone, ExitsDone, NoEntry, ExitNotChecked,
       ExitCheckFails, control
  <2>3. pc' \in {"idle", "pollEntries", "pollExits", "entryTimeouts", "exitTimeouts",
                 "eod", "exits", "entry"}
    BY DEF ControlStep, PollInactive, TickBegin, PollEntriesDone, PollExitsDone, EntryTimeoutsDone,
       ExitTimeoutsDone, EodDone, ExitsDone, NoEntry, ExitNotChecked, ExitCheckFails
  <2> QED
    BY <1>1, <2>2, <2>3 DEF TypeOK, store, trackers, broker
<1>4. ControlInv'
  <2>1. OpenInMemory \subseteq Row
    BY DEF OpenInMemory
  <2>2. PendingEntryIds' = PendingEntryIds /\ PendingExitIds' = PendingExitIds
    BY <1>1 DEF trackers, PendingEntryIds, PendingExitIds
  <2>3. eodDone' => late'
    BY <1>1 DEF ControlInv, broker, late
  <2>4. pc' \notin {"placeEntry", "recordEntry", "placeExit", "down", "startup"}
    BY DEF ControlStep, PollInactive, TickBegin, PollEntriesDone, PollExitsDone, EntryTimeoutsDone,
       ExitTimeoutsDone, EodDone, ExitsDone, NoEntry, ExitNotChecked, ExitCheckFails
  <2>5. /\ pc' \in {"pollEntries", "entryTimeouts"} => todo' \subseteq PendingEntryIds
        /\ pc' \in {"pollExits", "exitTimeouts"} => todo' \subseteq PendingExitIds
        /\ pc' = "exits" => todo' \subseteq Row
    BY <2>1 DEF ControlInv, ControlStep, PollInactive, TickBegin, PollEntriesDone, PollExitsDone,
       EntryTimeoutsDone, ExitTimeoutsDone, EodDone, ExitsDone, NoEntry, ExitNotChecked,
       ExitCheckFails, control
  <2> QED
    BY <2>2, <2>3, <2>4, <2>5 DEF ControlInv
<1> QED
  BY <1>2, <1>3, <1>4

-----------------------------------------------------------------------------
(* Lemmas about the operations on the store.                               *)

(* A row with another status or lot count.                                 *)
LEMMA RowUpdate ==
    ASSUME NEW b \in BookRow, NEW s \in Status, NEW n \in Nat
    PROVE  /\ [b EXCEPT !.status = s, !.lots = n] \in BookRow
           /\ [b EXCEPT !.lots = n] \in BookRow
           /\ [b EXCEPT !.status = s] \in BookRow
  BY DEF BookRow

(* A row rolled back is dropped from the database's active rows and from   *)
(* the list.                                                               *)
LEMMA RollbackTyped ==
    ASSUME TypeOK, NEW r \in Row, Rollback(r)
    PROVE  book' \in [Row -> BookRow] /\ memory' \in [Row -> Object]
<1>1. [book[r] EXCEPT !.status = "deleted"] \in BookRow
  <2>1. book[r] \in BookRow /\ "deleted" \in Status
    BY DEF TypeOK, Status
  <2> QED
    BY <2>1, RowUpdate
<1>2. Absent \in Object
  BY DEF Absent, Object
<1> QED
  BY <1>1, <1>2 DEF TypeOK, Rollback

(* An active status and a lot count written to a row and its object.       *)
LEMMA WriteBothTyped ==
    ASSUME TypeOK, NEW r \in Row, NEW status \in Active, NEW lots \in Nat,
           WriteBoth(r, status, lots)
    PROVE  book' \in [Row -> BookRow] /\ memory' \in [Row -> Object]
<1>1. [book[r] EXCEPT !.status = status, !.lots = lots] \in BookRow
  <2>1. book[r] \in BookRow /\ status \in Status
    BY DEF TypeOK, Status, Active
  <2> QED
    BY <2>1, RowUpdate
<1>2. [memory[r] EXCEPT !.status = status, !.lots = lots] \in Object
  <2>1. memory[r] \in Object
    BY DEF TypeOK
  <2> QED
    BY <2>1 DEF Object
<1>3. book' = [book EXCEPT ![r] = [book[r] EXCEPT !.status = status, !.lots = lots]]
  BY DEF WriteBoth, TypeOK
<1>4. memory' \in {memory, [memory EXCEPT ![r] =
                              [memory[r] EXCEPT !.status = status, !.lots = lots]]}
  BY DEF WriteBoth, TypeOK
<1> QED
  BY <1>1, <1>2, <1>3, <1>4 DEF TypeOK

(* Neither touches another row; the one row is deleted, or active again.   *)
LEMMA RollbackEffect ==
    ASSUME TypeOK, NEW r \in Row, Rollback(r)
    PROVE  /\ \A q \in Row \ {r} : book'[q] = book[q] /\ memory'[q] = memory[q]
           /\ book'[r].status = "deleted"
           /\ book'[r].spread = book[r].spread
           /\ ~InMemory(r)'
<1>1. book[r] \in BookRow
  BY DEF TypeOK
<1>2. book'[r] = [book[r] EXCEPT !.status = "deleted"] /\ memory'[r] = Absent
  BY DEF Rollback, TypeOK
<1>3. \A q \in Row \ {r} : book'[q] = book[q] /\ memory'[q] = memory[q]
  BY DEF Rollback, TypeOK
<1> QED
  BY <1>1, <1>2, <1>3 DEF BookRow, InMemory, Absent

(* A write that reaches the database changes the row and its object alike, *)
(* and no other row.                                                       *)
LEMMA WriteBothEffect ==
    ASSUME TypeOK, NEW r \in Row, NEW status, NEW lots, WriteBoth(r, status, lots)
    PROVE  /\ \A q \in Row \ {r} : book'[q] = book[q] /\ memory'[q] = memory[q]
           /\ book'[r].status = status /\ book'[r].lots = lots
           /\ book'[r].spread = book[r].spread /\ book'[r].order = book[r].order
           /\ InMemory(r)' = InMemory(r)
           /\ InMemory(r) => memory'[r].status = status /\ memory'[r].lots = lots
<1>1. book[r] \in BookRow /\ memory[r] \in Object
  BY DEF TypeOK
<1>2. book'[r] = [book[r] EXCEPT !.status = status, !.lots = lots]
  BY DEF WriteBoth, TypeOK
<1>3. memory'[r] = IF InMemory(r) THEN [memory[r] EXCEPT !.status = status, !.lots = lots]
                                 ELSE memory[r]
  BY DEF WriteBoth, TypeOK
<1>4. \A q \in Row \ {r} : book'[q] = book[q] /\ memory'[q] = memory[q]
  BY DEF WriteBoth, TypeOK
<1> QED
  BY <1>1, <1>2, <1>3, <1>4 DEF BookRow, Object, InMemory

(* load_open() of a typed database.                                        *)
LEMMA LoadedTyped ==
    ASSUME NEW b \in [Row -> BookRow]
    PROVE  Loaded(b) \in [Row -> Object]
<1>1. ASSUME NEW r \in Row, b[r].status \in Active
      PROVE  [copies |-> 1, status |-> b[r].status, lots |-> b[r].lots] \in Object
  BY <1>1 DEF BookRow, Object
<1>2. Absent \in Object
  BY DEF Absent, Object
<1> QED
  BY <1>1, <1>2 DEF Loaded

(* The size of a leg is a natural number.                                  *)
LEMMA HeldLotsNat == ASSUME TypeOK, NEW s \in Spread PROVE HeldLots(s) \in Nat
  BY DEF TypeOK, HeldLots

(* What a reconcile makes of one row: it promotes a pending one, expires   *)
(* an open one, inserts an orphan's, or leaves its status and its spread;  *)
(* a row becomes active only as an orphan's.                               *)
LEMMA SyncedRowFacts ==
    ASSUME TypeOK, Agreement, pc # "down", NEW new \in OrphanRows, NEW r \in Row
    PROVE  LET b == SyncedRow(r, new)
           IN  /\ b \in BookRow
               /\ b.status # "none" => b.spread \in Spread
               /\ \/ b.spread = book[r].spread /\ b.status = book[r].status
                  \/ /\ b.spread = book[r].spread
                     /\ \/ book[r].status = "pending_open" /\ b.status = "open"
                        \/ book[r].status = "open" /\ b.status = "expired"
                  \/ book[r].status = "none" /\ b.status = "open" /\ b.spread \in Spread
               /\ b.status \in Active =>
                     \/ book[r].status \in Active /\ b.spread = book[r].spread
                     \/ /\ r \in Fresh /\ new[r] \in Orphaned
                        /\ b.spread = new[r]
<1> DEFINE b == SyncedRow(r, new)
<1>0. /\ book[r] \in BookRow
      /\ InMemory(r) => memory[r].status = book[r].status
      /\ book[r].status # "none" => book[r].spread \in Spread /\ HeldLots(book[r].spread) \in Nat
  BY HeldLotsNat DEF TypeOK, Agreement, MemoryMirrorsBook, SpreadKnown
<1>1. CASE r \in Promoted
  <2>1. book[r].status = "pending_open"
    BY <1>0, <1>1 DEF Promoted
  <2> DEFINE n == HeldLots(book[r].spread)
  <2>0. r \notin OpenInMemory /\ r \notin Vanished /\ r \notin Fresh
    BY <1>0, <2>1 DEF OpenInMemory, Vanished, Fresh
  <2>2. b = [book[r] EXCEPT !.status = "open", !.lots = n]
    BY <1>1, <2>0 DEF SyncedRow, PromotedRow
  <2>3. b \in BookRow
    <3>1. "open" \in Status /\ n \in Nat
      BY <1>0, <2>1 DEF Status
    <3> HIDE DEF n, b
    <3>2. [book[r] EXCEPT !.status = "open", !.lots = n] \in BookRow
      BY <1>0, <3>1, RowUpdate
    <3> QED
      BY <2>2, <3>2
  <2> HIDE DEF b
  <2> QED
    BY <1>0, <1>1, <2>1, <2>2, <2>3 DEF BookRow, Active, b
<1>2. CASE r \in OpenInMemory
  <2>1. book[r].status = "open" /\ memory[r].status = "open"
    BY <1>0, <1>2 DEF OpenInMemory
  <2>2. r \notin Promoted /\ r \notin Fresh
    BY <2>1 DEF Promoted, Fresh
  <2> DEFINE n == HeldLots(book[r].spread)
  <2>3. b = IF r \in Vanished THEN [book[r] EXCEPT !.status = "expired"]
                              ELSE [book[r] EXCEPT !.lots = n]
    BY <1>2, <2>2 DEF SyncedRow
  <2>4. n \in Nat
    BY <1>0, <2>1
  <2> HIDE DEF n
  <2>5. [book[r] EXCEPT !.status = "expired"] \in BookRow
        /\ [book[r] EXCEPT !.lots = n] \in BookRow
    BY <1>0, <2>4 DEF BookRow, Status
  <2>6. b \in BookRow /\ b.spread = book[r].spread /\ b.status \in {"open", "expired"}
    BY <1>0, <2>1, <2>3, <2>5 DEF BookRow
  <2> HIDE DEF b
  <2> QED
    BY <1>0, <2>1, <2>6 DEF Active, b
<1>3. CASE r \in Fresh /\ new[r] # NoSpread
  <2>1. book[r].status = "none" /\ new[r] \in Orphaned
    BY <1>3 DEF Fresh, OrphanRows
  <2>2. r \notin Promoted /\ r \notin OpenInMemory /\ r \notin Vanished
    BY <1>0, <2>1 DEF Promoted, OpenInMemory, Vanished
  <2>3. b = [status |-> "open", spread |-> new[r], lots |-> held[new[r]],
             order |-> NoOrder, dated |-> FALSE]
    BY <1>3, <2>2 DEF SyncedRow
  <2>4. new[r] \in Spread /\ held[new[r]] \in Nat
    BY <2>1 DEF Orphaned, TypeOK
  <2>5. b \in BookRow
    BY <2>3, <2>4 DEF BookRow, Status
  <2> HIDE DEF b
  <2> QED
    BY <1>3, <2>1, <2>3, <2>4, <2>5 DEF Active, b
<1>4. CASE r \notin Promoted /\ r \notin OpenInMemory /\ ~(r \in Fresh /\ new[r] # NoSpread)
  <2>1. b = book[r]
    BY <1>4 DEF SyncedRow, Vanished
  <2> HIDE DEF b
  <2> QED
    BY <1>0, <1>4, <2>1 DEF b
<1> QED
  BY <1>1, <1>2, <1>3, <1>4

(* A reconcile keeps the types of the store.                               *)
LEMMA ReconcileTyped ==
    ASSUME TypeOK, Agreement, pc # "down", ReconcileStore
    PROVE  book' \in [Row -> BookRow] /\ memory' \in [Row -> Object]
<1>1. PICK new \in OrphanRows : book' = [r \in Row |-> SyncedRow(r, new)]
  BY DEF ReconcileStore
<1>2. book' \in [Row -> BookRow]
  BY <1>1, SyncedRowFacts
<1>3. memory' \in [Row -> Object]
  BY <1>2, LoadedTyped DEF ReconcileStore
<1> QED
  BY <1>2, <1>3

(* A reconcile leaves database and list in agreement; there is no tracker  *)
(* for it to disturb.                                                      *)
LEMMA ReconcileAgrees ==
    ASSUME TypeOK, Agreement, pc # "down", ReconcileStore, eodDone' = eodDone, day' = day,
           PendingEntryIds' = {}, PendingExitIds' = {}
    PROVE  Agreement'
<1>1. PICK new \in OrphanRows : book' = [r \in Row |-> SyncedRow(r, new)]
  BY DEF ReconcileStore
<1>2. \A r \in Row : book'[r] = SyncedRow(r, new)
  BY <1>1
<1>3. SpreadKnown'
  BY <1>2, SyncedRowFacts DEF SpreadKnown
<1>4. PendingEntryBacked' /\ PendingExitBacked' /\ TrackersDisjoint'
  BY DEF PendingEntryBacked, PendingExitBacked, TrackersDisjoint
<1>5. MemoryMirrorsBook'
  BY DEF ReconcileStore, Loaded, MemoryMirrorsBook, InMemory, Absent
<1>6. OneActiveRowPerSpread'
  <2> SUFFICES ASSUME ~late, NEW r \in Row, NEW q \in Row,
                      book'[r].status \in Active, book'[q].status \in Active,
                      book'[r].spread = book'[q].spread
               PROVE  r = q
    BY DEF OneActiveRowPerSpread, late
  <2>1. \A p \in Row : book'[p].status \in Active =>
          \/ book[p].status \in Active /\ book'[p].spread = book[p].spread
          \/ p \in Fresh /\ new[p] \in Orphaned /\ book'[p].spread = new[p]
    BY <1>2, SyncedRowFacts
  <2>2. \A p \in Row : book[p].status \in Active => p \in Claims(book[p].spread)
    BY DEF Agreement, MemoryMirrorsBook, Claims
  <2>3. \A p \in Fresh : new[p] \in Orphaned => Claims(new[p]) = {}
    BY DEF Orphaned
  <2>4. \A p1, p2 \in Fresh : new[p1] = new[p2] /\ new[p1] \in Orphaned => p1 = p2
    BY SentinelAssumption DEF OrphanRows, Orphaned
  <2>5. CASE book[r].status \in Active /\ book[q].status \in Active
             /\ book'[r].spread = book[r].spread /\ book'[q].spread = book[q].spread
    BY <2>5 DEF Agreement, OneActiveRowPerSpread
  <2>6. CASE r \in Fresh /\ new[r] \in Orphaned /\ book'[r].spread = new[r]
             /\ q \in Fresh /\ new[q] \in Orphaned /\ book'[q].spread = new[q]
    BY <2>4, <2>6
  <2>7. ASSUME NEW a \in Row, NEW b \in Row,
               book[a].status \in Active, book'[a].spread = book[a].spread,
               b \in Fresh, new[b] \in Orphaned, book'[b].spread = new[b],
               book'[a].spread = book'[b].spread
        PROVE  FALSE
    BY <2>2, <2>3, <2>7
  <2> QED
    BY <2>1, <2>5, <2>6, <2>7
<1> QED
  BY <1>3, <1>4, <1>5, <1>6 DEF Agreement

(* What keeps trackers, database and list in agreement when one row is     *)
(* written and trackers are dropped: the row is not awaited as an entry    *)
(* any more, an exit awaits it only if it is open or expired, its object   *)
(* follows it, and if it is active no other active row has its spread.     *)
LEMMA OneRowWritten ==
    ASSUME Agreement, pc # "down", NEW r \in Row, day' = day, eodDone' = eodDone,
           \A q \in Row \ {r} : book'[q] = book[q] /\ memory'[q] = memory[q],
           \A o \in PendingEntryIds' : /\ o \in PendingEntryIds /\ pendingEntries[o] # r
                                       /\ pendingEntries'[o] = pendingEntries[o]
                                       /\ pendingEntries[o] \in Row,
           \A o \in PendingExitIds' : /\ o \in PendingExitIds
                                      /\ pendingExits'[o] = pendingExits[o]
                                      /\ pendingExits[o] \in Row
                                      /\ pendingExits[o] = r =>
                                            \/ book'[r].status = "open"
                                            \/ eodDone /\ book'[r].status = "expired",
           book'[r].status # "none" => book'[r].spread \in Spread,
           InMemory(r)' => memory'[r].status = book'[r].status /\ memory'[r].lots = book'[r].lots,
           ~late /\ book'[r].status \in Active =>
              /\ InMemory(r)'
              /\ \A q \in Row \ {r} :
                    book[q].status \in Active => book[q].spread # book'[r].spread
    PROVE  Agreement'
<1>1. SpreadKnown'
  BY DEF Agreement, SpreadKnown
<1>2. PendingEntryBacked'
  BY DEF Agreement, PendingEntryBacked
<1>3. PendingExitBacked'
  BY DEF Agreement, PendingExitBacked
<1>4. TrackersDisjoint'
  BY DEF Agreement, TrackersDisjoint
<1>5. MemoryMirrorsBook'
  BY DEF Agreement, MemoryMirrorsBook, InMemory, late
<1>6. OneActiveRowPerSpread'
  BY DEF Agreement, OneActiveRowPerSpread, late
<1> QED
  BY <1>1, <1>2, <1>3, <1>4, <1>5, <1>6 DEF Agreement

-----------------------------------------------------------------------------
(* The handlers of the tick.                                               *)

(* A loop that visits the pending entries goes on after one of them was    *)
(* dropped from its trackers.                                              *)
LEMMA PollEntryPreserves == ASSUME IInv, NEW o \in Order, PollEntry(o) PROVE IInv'
<1> USE DEF IInv
<1>0. /\ pc = "pollEntries" /\ pc' = pc /\ o \in PendingEntryIds
      /\ todo' = todo \ {o} /\ todo \subseteq PendingEntryIds
      /\ UNCHANGED <<curRow, curOrder, eodDone, order, held, day>>
  BY DEF PollEntry, ControlInv, broker
<1>r. PICK r \in Row : r = pendingEntries[o]
  BY <1>0 DEF TypeOK, PendingEntryIds
<1>1. /\ r \in Row /\ book[r].order = o
      /\ book[r].status \in {"pending_open", "expired"}
      /\ book[r].status = "expired" => eodDone /\ late
      /\ \A p \in PendingEntryIds : pendingEntries[p] = r => p = o
      /\ \A p \in PendingExitIds : pendingExits[p] # r
  BY <1>0, <1>r DEF TypeOK, ControlInv, PendingEntryIds, Agreement, PendingEntryBacked,
     TrackersDisjoint
<1>2. CASE StillUnknown(o)
  <2>1. UNCHANGED <<store, trackers>>
    BY <1>2 DEF StillUnknown
  <2>2. Agreement'
    BY <1>0, <2>1, StoreUnchanged DEF trackers
  <2>3. TypeOK' /\ ControlInv'
    BY <1>0, <2>1 DEF store, trackers, TypeOK, ControlInv, PendingEntryIds, PendingExitIds, late
  <2> QED
    BY <2>2, <2>3
<1>3. CASE OnFillConfirmed(o) \/ OnEntryCancelled(o)
  <2>1. Forget(o) /\ (Rollback(r) \/ WriteBoth(r, "open", order[o].filled))
    BY <1>3, <1>r DEF OnFillConfirmed, OnEntryCancelled
  <2>2. /\ PendingEntryIds' = PendingEntryIds \ {o}
        /\ \A p \in PendingEntryIds' : pendingEntries'[p] = pendingEntries[p]
        /\ PendingExitIds' = PendingExitIds /\ pendingExits' = pendingExits
        /\ pendingEntries' \in [Order -> Row \cup {NoRow}] /\ aged' \subseteq aged
    BY <2>1, SentinelAssumption DEF Forget, PendingEntryIds, PendingExitIds, TypeOK
  <2>3. book' \in [Row -> BookRow] /\ memory' \in [Row -> Object]
    <3>1. order[o].filled \in Nat /\ "open" \in Active
      BY DEF TypeOK, Ticket, Active
    <3> QED
      BY <1>1, <2>1, <3>1, RollbackTyped, WriteBothTyped
  <2>4. TypeOK'
    <3>1. pendingExits' \in [Order \cup {NoOrder} -> Row \cup {NoRow}]
          /\ aged' \subseteq Order \cup {NoOrder} /\ todo' \subseteq Row \cup Order \cup {NoOrder}
      BY <1>0, <2>2 DEF TypeOK
    <3> QED
      BY <1>0, <2>2, <2>3, <3>1 DEF TypeOK
  <2>5. ControlInv'
    BY <1>0, <2>2 DEF ControlInv, late
  <2>6. /\ \A q \in Row \ {r} : book'[q] = book[q] /\ memory'[q] = memory[q]
        /\ book'[r].spread = book[r].spread
        /\ book'[r].status \in {"open", "deleted"}
        /\ InMemory(r)' => memory'[r].status = book'[r].status /\ memory'[r].lots = book'[r].lots
        /\ book'[r].status = "open" /\ InMemory(r) => InMemory(r)'
    BY <1>1, <2>1, RollbackEffect, WriteBothEffect
  <2>7. book[r].spread \in Spread
    BY <1>1 DEF Agreement, SpreadKnown
  <2>8. ~late /\ book'[r].status \in Active =>
           /\ InMemory(r)'
           /\ \A q \in Row \ {r} : book[q].status \in Active => book[q].spread # book'[r].spread
    BY <1>0, <1>1, <2>6 DEF Agreement, MemoryMirrorsBook, OneActiveRowPerSpread, Active
  <2>9. /\ \A p \in PendingEntryIds' : /\ p \in PendingEntryIds /\ pendingEntries[p] # r
                                       /\ pendingEntries[p] \in Row
        /\ \A p \in PendingExitIds : pendingExits[p] \in Row /\ pendingExits[p] # r
    BY <1>1, <2>2 DEF TypeOK, PendingEntryIds, PendingExitIds
  <2>10. Agreement'
    BY <1>0, <1>1, <2>2, <2>6, <2>7, <2>8, <2>9, OneRowWritten
  <2> QED
    BY <2>4, <2>5, <2>10
<1> QED
  BY <1>2, <1>3 DEF PollEntry

(* The poller's loop over the pending exits.                               *)
LEMMA PollExitPreserves ==
    ASSUME IInv, NEW o \in Order \cup {NoOrder}, PollExit(o) PROVE IInv'
<1> USE DEF IInv
<1>0. /\ pc = "pollExits" /\ pc' = pc /\ o \in PendingExitIds
      /\ todo' = todo \ {o} /\ todo \subseteq PendingExitIds
      /\ UNCHANGED <<curRow, curOrder, eodDone, order, held, day>>
  BY DEF PollExit, ControlInv, broker
<1>r. PICK r \in Row : r = pendingExits[o]
  BY <1>0 DEF TypeOK, PendingExitIds
<1>1. CASE StillUnknown(o)
  <2>1. UNCHANGED <<store, trackers>>
    BY <1>1 DEF StillUnknown
  <2>2. Agreement'
    BY <1>0, <2>1, StoreUnchanged DEF trackers
  <2>3. TypeOK' /\ ControlInv'
    BY <1>0, <2>1 DEF store, trackers, TypeOK, ControlInv, PendingEntryIds, PendingExitIds, late
  <2> QED
    BY <2>2, <2>3
<1>2. ASSUME OnCloseConfirmed(o) \/ OnExitCancelled(o)
      PROVE  /\ pendingExits' = [pendingExits EXCEPT ![o] = NoRow]
             /\ pendingExits' \in [Order \cup {NoOrder} -> Row \cup {NoRow}]
             /\ PendingExitIds' = PendingExitIds \ {o}
             /\ aged' \subseteq aged
             /\ \A p \in Order \cup {NoOrder} : pendingExits'[p] \in {NoRow, pendingExits[p]}
  BY <1>2 DEF OnCloseConfirmed, OnExitCancelled, ForgetExit, TypeOK, PendingExitIds
<1>3. ASSUME OnCloseConfirmed(o) \/ OnExitCancelled(o),
             book' \in [Row -> BookRow], memory' \in [Row -> Object],
             pendingEntries' \in [Order -> Row \cup {NoRow}]
      PROVE  TypeOK' /\ ControlInv'
  <2>1. aged' \subseteq Order \cup {NoOrder} /\ todo' \subseteq Row \cup Order \cup {NoOrder}
    BY <1>0, <1>2, <1>3 DEF TypeOK
  <2>2. TypeOK'
    BY <1>0, <1>2, <1>3, <2>1 DEF TypeOK
  <2>3. ControlInv'
    BY <1>0, <1>2, <1>3 DEF ControlInv, late
  <2> QED
    BY <2>2, <2>3
<1>4. CASE OnCloseConfirmed(o)
  <2>1. /\ book' = [book EXCEPT ![r].status = "closed"]
        /\ memory' = [memory EXCEPT ![r] = Absent]
        /\ pendingEntries' = pendingEntries
    BY <1>4, <1>r DEF OnCloseConfirmed, ForgetExit
  <2>2. [book[r] EXCEPT !.status = "closed"] \in BookRow /\ Absent \in Object
    <3>1. "closed" \in Status /\ book[r] \in BookRow
      BY DEF TypeOK, Status
    <3> QED
      BY <3>1 DEF BookRow, Absent, Object
  <2>3. /\ \A q \in Row \ {r} : book'[q] = book[q] /\ memory'[q] = memory[q]
        /\ book'[r] = [book[r] EXCEPT !.status = "closed"] /\ memory'[r] = Absent
    BY <2>1 DEF TypeOK
  <2>4. TypeOK' /\ ControlInv'
    BY <1>3, <1>4, <2>1, <2>2 DEF TypeOK
  <2>5. /\ book'[r].status = "closed" /\ book'[r].spread = book[r].spread
        /\ book'[r].status \notin Active /\ ~InMemory(r)'
    BY <2>2, <2>3 DEF BookRow, Active, InMemory, Absent
  <2>6. /\ \A p \in PendingEntryIds : pendingEntries[p] \in Row /\ pendingEntries[p] # r
        /\ \A p \in PendingExitIds \ {o} : pendingExits[p] \in Row /\ pendingExits[p] # r
        /\ book[r].status # "none"
    BY <1>0, <1>r DEF Agreement, TrackersDisjoint, PendingExitBacked, PendingEntryIds,
       PendingExitIds, TypeOK
  <2>7. PendingEntryIds' = PendingEntryIds
    BY <2>1 DEF PendingEntryIds
  <2>8. book'[r].spread \in Spread
    BY <2>5, <2>6 DEF Agreement, SpreadKnown
  <2>9. \A p \in PendingExitIds \ {o} : pendingExits'[p] = pendingExits[p]
    BY <1>2, <1>4 DEF TypeOK, PendingExitIds
  <2>10. Agreement'
    BY <1>0, <1>2, <1>4, <2>1, <2>3, <2>5, <2>6, <2>7, <2>8, <2>9, OneRowWritten
  <2> QED
    BY <2>4, <2>10
<1>5. CASE OnExitCancelled(o)
  <2>1. UNCHANGED <<store, pendingEntries>>
    BY <1>5 DEF OnExitCancelled, ForgetExit
  <2>2. Agreement'
    BY <1>0, <1>2, <1>5, <2>1, StoreUnchanged
  <2> QED
    BY <1>3, <1>5, <2>1, <2>2 DEF TypeOK, store
<1> QED
  BY <1>1, <1>4, <1>5 DEF PollExit

(* A stale entry: its tracker is dropped, then its row.                    *)
LEMMA TimeoutEntryPreserves == ASSUME IInv, NEW o \in Order, TimeoutEntry(o) PROVE IInv'
<1> USE DEF IInv
<1>0. /\ pc = "entryTimeouts" /\ pc' = pc /\ o \in PendingEntryIds
      /\ todo' = todo \ {o} /\ todo \subseteq PendingEntryIds
      /\ UNCHANGED <<curRow, curOrder, eodDone, held, day>>
      /\ Forget(o) /\ CancelOrder(o)
  BY DEF TimeoutEntry, ControlInv
<1>r. PICK r \in Row : r = pendingEntries[o]
  BY <1>0 DEF TypeOK, PendingEntryIds
<1>1. Rollback(r)
  BY <1>r DEF TimeoutEntry
<1>2. /\ PendingEntryIds' = PendingEntryIds \ {o}
      /\ \A p \in PendingEntryIds' : pendingEntries'[p] = pendingEntries[p]
      /\ PendingExitIds' = PendingExitIds /\ pendingExits' = pendingExits
      /\ pendingEntries' \in [Order -> Row \cup {NoRow}] /\ aged' \subseteq aged
  BY <1>0, SentinelAssumption DEF Forget, PendingEntryIds, PendingExitIds, TypeOK
<1>3. order' \in [Order -> Ticket]
  <2>1. [order[o] EXCEPT !.state = "cancelling"] \in Ticket
    <3>1. order[o] \in Ticket /\ "cancelling" \in OrderState
      BY DEF TypeOK, OrderState
    <3> QED
      BY <3>1 DEF Ticket
  <2> QED
    BY <1>0, <2>1 DEF CancelOrder, TypeOK
<1>4. TypeOK'
  <2>1. pendingExits' \in [Order \cup {NoOrder} -> Row \cup {NoRow}]
        /\ aged' \subseteq Order \cup {NoOrder} /\ todo' \subseteq Row \cup Order \cup {NoOrder}
    BY <1>0, <1>2 DEF TypeOK
  <2>2. book' \in [Row -> BookRow] /\ memory' \in [Row -> Object]
    BY <1>1, RollbackTyped
  <2> QED
    BY <1>0, <1>2, <1>3, <2>1, <2>2 DEF TypeOK
<1>5. ControlInv'
  BY <1>0, <1>2 DEF ControlInv, late
<1>6. /\ book[r].status # "none"
      /\ \A p \in PendingEntryIds' : /\ p \in PendingEntryIds /\ pendingEntries[p] # r
                                     /\ pendingEntries[p] \in Row
      /\ \A p \in PendingExitIds : pendingExits[p] \in Row /\ pendingExits[p] # r
  BY <1>0, <1>r, <1>2 DEF TypeOK, PendingEntryIds, PendingExitIds, Agreement, PendingEntryBacked,
     TrackersDisjoint
<1>7. /\ \A q \in Row \ {r} : book'[q] = book[q] /\ memory'[q] = memory[q]
      /\ book'[r].status \notin Active /\ ~InMemory(r)' /\ book'[r].spread \in Spread
  BY <1>1, <1>6, RollbackEffect DEF Active, Agreement, SpreadKnown
<1>8. Agreement'
  BY <1>0, <1>2, <1>6, <1>7, OneRowWritten
<1> QED
  BY <1>4, <1>5, <1>8

(* A handler that fails on the database has dropped its tracker already.   *)
LEMMA BookingFailsPreserves ==
    ASSUME IInv, NEW o \in Order, PollEntryFails(o) \/ PollExitFails(o) \/ TimeoutEntryFails(o)
    PROVE  IInv'
<1> USE DEF IInv
<1>0. /\ pc # "down" /\ pc' = "idle" /\ todo' = {}
      /\ UNCHANGED <<store, curRow, curOrder, eodDone, held, day>>
      /\ Forget(o) \/ ForgetExit(o)
      /\ CancelOrder(o) \/ UNCHANGED order
  BY DEF PollEntryFails, PollExitFails, TimeoutEntryFails, broker
<1>1. /\ \A p \in Order : pendingEntries'[p] \in {NoRow, pendingEntries[p]}
      /\ \A p \in Order \cup {NoOrder} : pendingExits'[p] \in {NoRow, pendingExits[p]}
      /\ pendingEntries' \in [Order -> Row \cup {NoRow}]
      /\ pendingExits' \in [Order \cup {NoOrder} -> Row \cup {NoRow}] /\ aged' \subseteq aged
  BY <1>0 DEF Forget, ForgetExit, TypeOK
<1>2. order' \in [Order -> Ticket]
  <2>1. [order[o] EXCEPT !.state = "cancelling"] \in Ticket
    <3>1. order[o] \in Ticket /\ "cancelling" \in OrderState
      BY DEF TypeOK, OrderState
    <3> QED
      BY <3>1 DEF Ticket
  <2> QED
    BY <1>0, <2>1 DEF CancelOrder, TypeOK
<1>3. TypeOK'
  <2>1. aged' \subseteq Order \cup {NoOrder}
    BY <1>1 DEF TypeOK
  <2> QED
    BY <1>0, <1>1, <1>2, <2>1 DEF TypeOK, store
<1>4. ControlInv'
  BY <1>0 DEF ControlInv, late
<1>5. Agreement'
  BY <1>0, <1>1, StoreUnchanged
<1> QED
  BY <1>3, <1>4, <1>5

(* A stale exit: its tracker is dropped and the tick ends.                 *)
LEMMA TimeoutExitPreserves ==
    ASSUME IInv, NEW o \in Order \cup {NoOrder}, TimeoutExit(o) PROVE IInv'
<1> USE DEF IInv
<1>0. /\ pc = "exitTimeouts" /\ pc' = "idle" /\ todo' = {}
      /\ UNCHANGED <<store, curRow, curOrder, eodDone, held, day>>
      /\ ForgetExit(o) /\ CancelOrder(o)
  BY DEF TimeoutExit
<1>1. /\ \A p \in Order \cup {NoOrder} : pendingExits'[p] \in {NoRow, pendingExits[p]}
      /\ pendingEntries' = pendingEntries
      /\ pendingExits' \in [Order \cup {NoOrder} -> Row \cup {NoRow}] /\ aged' \subseteq aged
  BY <1>0 DEF ForgetExit, TypeOK
<1>2. order' \in [Order -> Ticket]
  <2>1. ASSUME o \in Order PROVE [order[o] EXCEPT !.state = "cancelling"] \in Ticket
    <3>1. order[o] \in Ticket /\ "cancelling" \in OrderState
      BY <2>1 DEF TypeOK, OrderState
    <3> QED
      BY <3>1 DEF Ticket
  <2> QED
    BY <1>0, <2>1 DEF CancelOrder, TypeOK
<1>3. TypeOK'
  <2>1. aged' \subseteq Order \cup {NoOrder}
    BY <1>1 DEF TypeOK
  <2> QED
    BY <1>0, <1>1, <1>2, <2>1 DEF TypeOK, store
<1>4. ControlInv'
  BY <1>0 DEF ControlInv, late
<1>5. Agreement'
  BY <1>0, <1>1, StoreUnchanged
<1> QED
  BY <1>3, <1>4, <1>5

(* The end-of-day sweep expires awaited rows under their trackers.         *)
LEMMA EodSweepPreserves == IInv /\ EodSweep => IInv'
<1> SUFFICES ASSUME IInv, EodSweep PROVE IInv'
  OBVIOUS
<1> USE DEF IInv
<1>0. /\ pc = "eod" /\ pc' = pc /\ late /\ late' /\ eodDone' = TRUE
      /\ UNCHANGED <<todo, curRow, curOrder, trackers, broker>>
      /\ PendingEntryIds' = PendingEntryIds /\ PendingExitIds' = PendingExitIds
  BY DEF EodSweep, trackers, broker, late, PendingEntryIds, PendingExitIds
<1>1. ControlInv'
  BY <1>0 DEF ControlInv
<1>2. CASE SweepRows
  <2> DEFINE row(r) == IF book[r].status \in SweptStatus /\ book[r].dated
                       THEN [book[r] EXCEPT !.status = "expired"] ELSE book[r]
  <2>1. \A r \in Row : /\ row(r) \in BookRow
                       /\ row(r).spread = book[r].spread /\ row(r).order = book[r].order
                       /\ row(r) = book[r] \/ (row(r).status = "expired" /\ book[r].status \in Active)
    <3> SUFFICES ASSUME NEW r \in Row, book[r].status \in Active
                 PROVE  LET b == [book[r] EXCEPT !.status = "expired"]
                        IN  /\ b \in BookRow /\ b.spread = book[r].spread
                            /\ b.order = book[r].order /\ b.status = "expired"
      BY DEF TypeOK, SweptStatus
    <3>1. book[r] \in BookRow /\ "expired" \in Status
      BY DEF TypeOK, Status
    <3> QED
      BY <3>1 DEF BookRow
  <2>2. book' = [r \in Row |-> row(r)] /\ memory' = Loaded(book')
    BY <1>2 DEF SweepRows
  <2>3. \A r \in Row : book'[r] = row(r)
    BY <2>2
  <2> HIDE DEF row
  <2>4. book' \in [Row -> BookRow]
    BY <2>1, <2>2
  <2>5. TypeOK'
    BY <1>0, <2>2, <2>4, LoadedTyped DEF TypeOK, trackers, broker
  <2>6. SpreadKnown'
    BY <2>1, <2>3 DEF Agreement, SpreadKnown, Active
  <2>7. PendingEntryBacked'
    <3> SUFFICES ASSUME NEW o \in PendingEntryIds
                 PROVE  /\ book'[pendingEntries[o]].order = o
                        /\ book'[pendingEntries[o]].status \in {"pending_open", "expired"}
      BY <1>0 DEF PendingEntryBacked, trackers
    <3>1. /\ pendingEntries[o] \in Row /\ book[pendingEntries[o]].order = o
          /\ book[pendingEntries[o]].status \in {"pending_open", "expired"}
      BY DEF Agreement, PendingEntryBacked, PendingEntryIds, TypeOK
    <3> QED
      BY <2>1, <2>3, <3>1
  <2>8. PendingExitBacked'
    <3> SUFFICES ASSUME NEW o \in PendingExitIds
                 PROVE  book'[pendingExits[o]].status \in {"open", "expired"}
      BY <1>0 DEF Agreement, PendingExitBacked, trackers
    <3>1. /\ pendingExits[o] \in Row
          /\ book[pendingExits[o]].status \in {"open", "expired"}
      BY DEF Agreement, PendingExitBacked, PendingExitIds, TypeOK
    <3> QED
      BY <2>1, <2>3, <3>1
  <2>9. TrackersDisjoint'
    BY <1>0 DEF Agreement, TrackersDisjoint, trackers
  <2>10. MemoryMirrorsBook'
    BY <2>2 DEF MemoryMirrorsBook, Loaded, InMemory, Absent
  <2>11. OneActiveRowPerSpread'
    BY <1>0 DEF OneActiveRowPerSpread
  <2> QED
    BY <1>1, <2>5, <2>6, <2>7, <2>8, <2>9, <2>10, <2>11 DEF Agreement
<1>3. CASE UNCHANGED store
  <2>1. TypeOK'
    BY <1>0, <1>3 DEF TypeOK, trackers, broker, store
  <2>2. SpreadKnown' /\ PendingExitBacked' /\ TrackersDisjoint' /\ OneActiveRowPerSpread'
        /\ MemoryMirrorsBook'
    BY <1>0, <1>3 DEF Agreement, SpreadKnown, PendingExitBacked, TrackersDisjoint, trackers, store,
       OneActiveRowPerSpread, MemoryMirrorsBook, InMemory
  <2>3. PendingEntryBacked'
    BY <1>0, <1>3 DEF Agreement, PendingEntryBacked, trackers, store
  <2> QED
    BY <1>1, <2>1, <2>2, <2>3 DEF Agreement
<1> QED
  BY <1>2, <1>3 DEF EodSweep

(* An open position of the list, checked for its exit.                     *)
LEMMA ExitCheckPreserves == ASSUME IInv, NEW r \in Row, ExitCheck(r) PROVE IInv'
<1> USE DEF IInv
<1>0. /\ pc = "exits" /\ todo' = todo \ {r} /\ todo \subseteq Row
      /\ r \in OpenInMemory /\ ~HasPendingExit(r)
      /\ WriteBoth(r, book[r].status, HeldLots(book[r].spread))
      /\ UNCHANGED <<trackers, curOrder, eodDone, broker>>
      /\ PendingEntryIds' = PendingEntryIds /\ PendingExitIds' = PendingExitIds
      /\ HasPendingExit(r)' = HasPendingExit(r)
      /\ \/ UNCHANGED <<pc, curRow>>
         \/ pc' = "placeExit" /\ curRow' = r
  BY DEF ExitCheck, ControlInv, trackers, PendingEntryIds, PendingExitIds, HasPendingExit
<1>1. book[r].status = "open" /\ book[r].spread \in Spread /\ InMemory(r)
  BY <1>0 DEF OpenInMemory, Agreement, MemoryMirrorsBook, SpreadKnown
<1>2. HeldLots(book[r].spread) \in Nat /\ "open" \in Active
  BY <1>1, HeldLotsNat DEF Active
<1>3. /\ \A q \in Row \ {r} : book'[q] = book[q] /\ memory'[q] = memory[q]
      /\ book'[r].status = "open" /\ book'[r].spread = book[r].spread
      /\ InMemory(r)' /\ memory'[r].status = book'[r].status /\ memory'[r].lots = book'[r].lots
  BY <1>0, <1>1, WriteBothEffect
<1>4. TypeOK'
  <2>1. book' \in [Row -> BookRow] /\ memory' \in [Row -> Object]
    BY <1>0, <1>1, <1>2, WriteBothTyped
  <2> QED
    BY <1>0, <2>1 DEF TypeOK, trackers, broker
<1>5. ControlInv'
  BY <1>0, <1>3 DEF ControlInv, broker, late
<1>6. /\ \A p \in PendingEntryIds : pendingEntries[p] \in Row /\ pendingEntries[p] # r
      /\ \A p \in PendingExitIds : pendingExits[p] \in Row
  BY <1>1 DEF TypeOK, PendingEntryIds, PendingExitIds, Agreement, PendingEntryBacked
<1>7. ~late => \A q \in Row \ {r} : book[q].status \in Active => book[q].spread # book'[r].spread
  BY <1>1, <1>2, <1>3 DEF Agreement, OneActiveRowPerSpread
<1>8. Agreement'
  BY <1>0, <1>1, <1>3, <1>6, <1>7, OneRowWritten DEF trackers, broker
<1> QED
  BY <1>4, <1>5, <1>8

(* The closing order is placed and tracked, under its id or under None.    *)
LEMMA PlaceExitPreserves == IInv /\ PlaceExit => IInv'
<1> SUFFICES ASSUME IInv, PlaceExit PROVE IInv'
  OBVIOUS
<1> USE DEF IInv
<1>0. /\ pc = "placeExit" /\ pc' = "exits" /\ curRow' = NoRow
      /\ UNCHANGED <<store, todo, curOrder, eodDone, held, day>>
      /\ curRow \in Row /\ book[curRow].status = "open" /\ ~HasPendingExit(curRow)
  BY DEF PlaceExit, ControlInv
<1>1. PICK t \in Order \cup {NoOrder} : TrackExit(t)
  BY DEF PlaceExit, Unused
<1>2. order' \in [Order -> Ticket]
  <2>1. ASSUME NEW s \in {"working", "inactive", "queued"}
        PROVE  NewTicket(s, "exit", curRow) \in Ticket
    <3>1. book[curRow] \in BookRow /\ memory[curRow] \in Object
      BY <1>0 DEF TypeOK
    <3> QED
      BY <3>1 DEF NewTicket, Ticket, OrderState, BookRow, Object
  <2> QED
    BY <2>1 DEF PlaceExit, TypeOK, Unused
<1>3. /\ pendingExits' = [pendingExits EXCEPT ![t] = curRow]
      /\ pendingEntries' = pendingEntries /\ aged' \subseteq aged
  BY <1>1 DEF TrackExit
<1>4. TypeOK'
  <2>1. /\ pendingExits' \in [Order \cup {NoOrder} -> Row \cup {NoRow}]
        /\ aged' \subseteq Order \cup {NoOrder}
    BY <1>0, <1>3 DEF TypeOK
  <2> QED
    BY <1>0, <1>2, <1>3, <2>1 DEF TypeOK, store
<1>5. ControlInv'
  <2>1. todo \subseteq Row
    BY <1>0 DEF ControlInv
  <2> QED
    BY <1>0, <2>1 DEF ControlInv, late
<1>6. Agreement'
  <2>1. \A p \in PendingExitIds' : \/ p = t /\ pendingExits'[p] = curRow
                                   \/ p \in PendingExitIds /\ pendingExits'[p] = pendingExits[p]
                                      /\ pendingExits[p] # curRow
    BY <1>0, <1>1, <1>3 DEF TypeOK, PendingExitIds, HasPendingExit
  <2>2. SpreadKnown' /\ PendingEntryBacked' /\ MemoryMirrorsBook' /\ OneActiveRowPerSpread'
    BY <1>0, <1>3 DEF Agreement, SpreadKnown, PendingEntryBacked, MemoryMirrorsBook, store,
       OneActiveRowPerSpread, InMemory, PendingEntryIds, late
  <2>3. PendingExitBacked'
    BY <1>0, <2>1 DEF Agreement, PendingExitBacked, store
  <2>4. TrackersDisjoint'
    <3>1. \A o \in PendingEntryIds : pendingEntries[o] # curRow
      BY <1>0 DEF Agreement, PendingEntryBacked
    <3> QED
      BY <1>3, <2>1, <3>1 DEF Agreement, TrackersDisjoint, PendingEntryIds
  <2> QED
    BY <2>2, <2>3, <2>4 DEF Agreement
<1> QED
  BY <1>4, <1>5, <1>6

(* A row and an object for a new entry: no active row has its spread.      *)
LEMMA WriteEntryPreserves ==
    ASSUME IInv, NEW r \in Row, NEW s \in Spread, WriteEntry(r, s) PROVE IInv'
<1> USE DEF IInv
<1> DEFINE b == [status |-> "pending_open", spread |-> s, lots |-> Lots,
                 order |-> NoOrder, dated |-> TRUE]
           m == [copies |-> 2, status |-> "pending_open", lots |-> Lots]
<1>0. /\ pc = "entry" /\ pc' = "placeEntry" /\ curRow' = r /\ ~late
      /\ book[r].status = "none" /\ NoCollision(s)
      /\ book' = [book EXCEPT ![r] = b] /\ memory' = [memory EXCEPT ![r] = m]
      /\ UNCHANGED <<trackers, todo, curOrder, eodDone, broker>>
      /\ PendingEntryIds' = PendingEntryIds /\ PendingExitIds' = PendingExitIds
  BY DEF WriteEntry, Fresh, trackers, PendingEntryIds, PendingExitIds
<1>1. b \in BookRow /\ m \in Object
  BY LotsAssumption DEF BookRow, Object, Status, Active
<1>2. /\ \A q \in Row \ {r} : book'[q] = book[q] /\ memory'[q] = memory[q]
      /\ book'[r] = b /\ memory'[r] = m
  BY <1>0 DEF TypeOK
<1>3. InMemory(r)'
  BY <1>2 DEF InMemory
<1>4. TypeOK'
  BY <1>0, <1>1 DEF TypeOK, trackers, broker
<1>5. ControlInv'
  BY <1>0, <1>2 DEF ControlInv, broker, late
<1>6. /\ \A p \in PendingEntryIds : pendingEntries[p] \in Row /\ pendingEntries[p] # r
      /\ \A p \in PendingExitIds : pendingExits[p] \in Row /\ pendingExits[p] # r
  BY <1>0 DEF TypeOK, PendingEntryIds, PendingExitIds, Agreement, PendingEntryBacked,
     PendingExitBacked
<1>7. \A q \in Row \ {r} : book[q].status \in Active => book[q].spread # s
  BY <1>0 DEF NoCollision, Agreement, MemoryMirrorsBook
<1>8. Agreement'
  BY <1>0, <1>2, <1>3, <1>6, <1>7, OneRowWritten DEF trackers, broker
<1> QED
  BY <1>4, <1>5, <1>8

(* The entry order is placed; its row waits for the order's id.            *)
LEMMA EntryAcceptedPreserves == ASSUME IInv, NEW o \in Order, EntryAccepted(o) PROVE IInv'
<1> USE DEF IInv
<1>0. /\ pc = "placeEntry" /\ pc' = "recordEntry" /\ curOrder' = o
      /\ order' = [order EXCEPT ![o] = NewTicket("working", "entry", curRow)]
      /\ UNCHANGED <<store, trackers, todo, curRow, eodDone, held, day>>
      /\ curRow \in Row
  BY DEF EntryAccepted, ControlInv
<1>1. NewTicket("working", "entry", curRow) \in Ticket
  <2>1. book[curRow] \in BookRow /\ memory[curRow] \in Object
    BY <1>0 DEF TypeOK
  <2> QED
    BY <2>1 DEF NewTicket, Ticket, OrderState, BookRow, Object
<1>2. TypeOK'
  BY <1>0, <1>1 DEF TypeOK, store, trackers
<1>3. ControlInv'
  BY <1>0 DEF ControlInv, store, late
<1>4. Agreement'
  BY <1>0, StoreUnchanged DEF trackers
<1> QED
  BY <1>2, <1>3, <1>4

(* The entry is refused: its row goes, and nothing had been tracked.       *)
LEMMA EntryRefusedPreserves == IInv /\ EntryRefused => IInv'
<1> SUFFICES ASSUME IInv, EntryRefused PROVE IInv'
  OBVIOUS
<1> USE DEF IInv
<1>0. /\ pc = "placeEntry" /\ pc' = "idle" /\ curRow' = NoRow
      /\ curRow \in Row /\ book[curRow].status = "pending_open" /\ book[curRow].order = NoOrder
      /\ UNCHANGED <<trackers, todo, curOrder, eodDone, held, day>>
      /\ PendingEntryIds' = PendingEntryIds /\ PendingExitIds' = PendingExitIds
  BY DEF EntryRefused, ControlInv, trackers, PendingEntryIds, PendingExitIds
<1>r. PICK r \in Row : r = curRow
  BY <1>0
<1>1. Rollback(r)
  BY <1>r DEF EntryRefused
<1>2. order' \in [Order -> Ticket]
  <2>1. ASSUME NEW s \in {"inactive", "queued"}
        PROVE  NewTicket(s, "entry", curRow) \in Ticket
    <3>1. book[curRow] \in BookRow /\ memory[curRow] \in Object
      BY <1>0 DEF TypeOK
    <3> QED
      BY <3>1 DEF NewTicket, Ticket, OrderState, BookRow, Object
  <2> QED
    BY <2>1 DEF EntryRefused, TypeOK, Unused
<1>3. TypeOK'
  <2>1. book' \in [Row -> BookRow] /\ memory' \in [Row -> Object]
    BY <1>1, RollbackTyped
  <2> QED
    BY <1>0, <1>2, <2>1 DEF TypeOK, trackers
<1>4. ControlInv'
  BY <1>0 DEF ControlInv, late
<1>5. /\ \A p \in PendingEntryIds : pendingEntries[p] \in Row /\ pendingEntries[p] # r
      /\ \A p \in PendingExitIds : pendingExits[p] \in Row /\ pendingExits[p] # r
  <2>1. \A p \in PendingEntryIds : p # NoOrder /\ book[pendingEntries[p]].order = p
    BY SentinelAssumption DEF PendingEntryIds, Agreement, PendingEntryBacked
  <2> QED
    BY <1>0, <1>r, <2>1 DEF TypeOK, PendingEntryIds, PendingExitIds, Agreement, PendingExitBacked
<1>6. /\ \A q \in Row \ {r} : book'[q] = book[q] /\ memory'[q] = memory[q]
      /\ book'[r].status \notin Active /\ ~InMemory(r)' /\ book'[r].spread \in Spread
  BY <1>0, <1>r, <1>1, RollbackEffect DEF Active, Agreement, SpreadKnown
<1>7. Agreement'
  BY <1>0, <1>5, <1>6, OneRowWritten DEF trackers
<1> QED
  BY <1>3, <1>4, <1>7

(* The placed entry gets its tracker and its row the order id.             *)
LEMMA RecordEntryPreserves == IInv /\ RecordEntry => IInv'
<1> SUFFICES ASSUME IInv, RecordEntry PROVE IInv'
  OBVIOUS
<1> USE DEF IInv
<1>0. /\ pc = "recordEntry" /\ pc' = "idle" /\ curRow' = NoRow /\ curOrder' = NoOrder
      /\ curRow \in Row /\ book[curRow].status = "pending_open" /\ book[curRow].order = NoOrder
      /\ curOrder \in Order
      /\ pendingEntries' = [pendingEntries EXCEPT ![curOrder] = curRow]
      /\ book' = [book EXCEPT ![curRow].order = curOrder]
      /\ UNCHANGED <<memory, pendingExits, aged, todo, eodDone, broker>>
      /\ PendingExitIds' = PendingExitIds
  BY DEF RecordEntry, ControlInv, PendingExitIds
<1>1. /\ \A q \in Row \ {curRow} : book'[q] = book[q]
      /\ book'[curRow] = [book[curRow] EXCEPT !.order = curOrder]
      /\ book[curRow] \in BookRow
  BY <1>0 DEF TypeOK
<1>2. /\ book'[curRow] \in BookRow /\ book'[curRow].order = curOrder
      /\ book'[curRow].status = book[curRow].status /\ book'[curRow].lots = book[curRow].lots
      /\ book'[curRow].spread = book[curRow].spread
  BY <1>0, <1>1 DEF BookRow
<1>3. TypeOK'
  <2>1. book' \in [Row -> BookRow]
    BY <1>0, <1>1, <1>2 DEF TypeOK
  <2>2. pendingEntries' \in [Order -> Row \cup {NoRow}]
    BY <1>0 DEF TypeOK
  <2> QED
    BY <1>0, <2>1, <2>2 DEF TypeOK, broker
<1>4. ControlInv'
  BY <1>0 DEF ControlInv, broker, late
<1>5. \A p \in PendingEntryIds' :
         \/ p = curOrder /\ pendingEntries'[p] = curRow
         \/ /\ p \in PendingEntryIds /\ pendingEntries'[p] = pendingEntries[p]
            /\ pendingEntries[p] \in Row /\ pendingEntries[p] # curRow
  <2>1. \A p \in PendingEntryIds : /\ p # NoOrder /\ book[pendingEntries[p]].order = p
                                   /\ pendingEntries[p] \in Row
    BY SentinelAssumption DEF PendingEntryIds, Agreement, PendingEntryBacked, TypeOK
  <2>2. \A p \in PendingEntryIds : pendingEntries[p] # curRow
    BY <1>0, <2>1
  <2> QED
    BY <1>0, <2>1, <2>2 DEF PendingEntryIds, TypeOK
<1>6. \A p \in PendingExitIds : pendingExits[p] \in Row /\ pendingExits[p] # curRow
  BY <1>0 DEF TypeOK, PendingExitIds, Agreement, PendingExitBacked
<1>7. SpreadKnown' /\ MemoryMirrorsBook' /\ OneActiveRowPerSpread'
  <2>1. \A q \in Row : /\ book'[q].status = book[q].status /\ book'[q].lots = book[q].lots
                       /\ book'[q].spread = book[q].spread
    BY <1>1, <1>2
  <2> QED
    BY <1>0, <2>1 DEF Agreement, SpreadKnown, MemoryMirrorsBook, OneActiveRowPerSpread, InMemory,
       broker, late
<1>8. PendingEntryBacked'
  BY <1>0, <1>1, <1>2, <1>5 DEF Agreement, PendingEntryBacked
<1>9. PendingExitBacked'
  BY <1>0, <1>1, <1>6 DEF Agreement, PendingExitBacked
<1>10. TrackersDisjoint'
  BY <1>0, <1>5, <1>6 DEF Agreement, TrackersDisjoint
<1> QED
  BY <1>3, <1>4, <1>7, <1>8, <1>9, <1>10 DEF Agreement

-----------------------------------------------------------------------------
(* Crash and restart.                                                      *)

(* A crash empties the trackers and the list; the restart lists the rows   *)
(* that are active; the reconcile that follows meets no trackers.          *)
LEMMA ProcessPreserves == IInv /\ ProcessStep => IInv'
<1> SUFFICES ASSUME IInv, ProcessStep PROVE IInv'
  OBVIOUS
<1> USE DEF IInv
<1>1. CASE Crash
  <2>1. PendingEntryIds' = {} /\ PendingExitIds' = {}
    BY <1>1 DEF Crash, PendingEntryIds, PendingExitIds
  <2>2. TypeOK'
    <3>1. memory' \in [Row -> Object]
      BY <1>1 DEF Crash, Absent, Object
    <3> QED
      BY <1>1, <3>1 DEF Crash, TypeOK, broker
  <2>3. ControlInv'
    BY <1>1, <2>1 DEF Crash, ControlInv
  <2>4. Agreement'
    BY <1>1, <2>1 DEF Crash, broker, Agreement, SpreadKnown, PendingEntryBacked, PendingExitBacked,
       TrackersDisjoint, MemoryMirrorsBook, OneActiveRowPerSpread, late
  <2> QED
    BY <2>2, <2>3, <2>4
<1>2. CASE Restart
  <2>1. /\ pc = "down" /\ pc' = "startup" /\ memory' = Loaded(book)
        /\ UNCHANGED <<book, trackers, control, broker>>
    BY <1>2 DEF Restart
  <2>2. /\ PendingEntryIds' = {} /\ PendingExitIds' = {}
    BY <2>1 DEF ControlInv, trackers, PendingEntryIds, PendingExitIds
  <2>3. TypeOK'
    BY <2>1, LoadedTyped DEF TypeOK, trackers, control, broker
  <2>4. ControlInv'
    BY <2>1, <2>2 DEF ControlInv, control, broker, late
  <2>5. MemoryMirrorsBook'
    BY <2>1 DEF MemoryMirrorsBook, Loaded, InMemory, Absent
  <2>6. SpreadKnown' /\ PendingEntryBacked' /\ PendingExitBacked' /\ TrackersDisjoint'
        /\ OneActiveRowPerSpread'
    BY <2>1, <2>2 DEF Agreement, SpreadKnown, PendingEntryBacked, PendingExitBacked,
       TrackersDisjoint, OneActiveRowPerSpread, broker, late
  <2> QED
    BY <2>3, <2>4, <2>5, <2>6 DEF Agreement
<1>3. CASE StartupSync
  <2>1. /\ pc = "startup" /\ pc' = "idle" /\ UNCHANGED <<trackers, control, broker>>
        /\ ReconcileStore \/ UNCHANGED store
    BY <1>3 DEF StartupSync
  <2>2. book' \in [Row -> BookRow] /\ memory' \in [Row -> Object]
    BY <2>1, ReconcileTyped DEF TypeOK, store
  <2>3. TypeOK'
    BY <2>1, <2>2 DEF TypeOK, trackers, control, broker
  <2>4. ControlInv'
    BY <2>1 DEF ControlInv, control, broker, late
  <2>5. PendingEntryIds' = {} /\ PendingExitIds' = {}
    BY <2>1 DEF ControlInv, trackers, PendingEntryIds, PendingExitIds
  <2>6. Agreement'
    BY <2>1, <2>5, ReconcileAgrees, StoreUnchanged DEF trackers, control, broker
  <2> QED
    BY <2>3, <2>4, <2>6
<1> QED
  BY <1>1, <1>2, <1>3 DEF ProcessStep

-----------------------------------------------------------------------------

(* Every step of the specification preserves the inductive invariant.      *)
LEMMA NextIInv == IInv /\ [Next]_vars => IInv'
<1> SUFFICES ASSUME IInv, [Next]_vars PROVE IInv'
  OBVIOUS
<1>1. CASE PollStep
  BY <1>1, ControlPreserves, PollEntryPreserves, PollExitPreserves, BookingFailsPreserves
     DEF PollStep, ControlStep
<1>2. CASE TimeoutStep
  BY <1>2, ControlPreserves, TimeoutEntryPreserves, TimeoutExitPreserves, BookingFailsPreserves
     DEF TimeoutStep, ControlStep
<1>3. CASE ExitStep
  BY <1>3, ControlPreserves, EodSweepPreserves, ExitCheckPreserves, PlaceExitPreserves
     DEF ExitStep, ControlStep
<1>4. CASE EntryStep
  BY <1>4, ControlPreserves, WriteEntryPreserves, EntryAcceptedPreserves, EntryRefusedPreserves,
     RecordEntryPreserves DEF EntryStep, ControlStep
<1>5. CASE ProcessStep
  BY <1>5, ProcessPreserves
<1>6. CASE BrokerStep
  BY <1>6, BrokerPreserves
<1>7. CASE UNCHANGED vars
  <2> USE DEF vars, store, trackers, control, broker
  <2>1. UNCHANGED engine /\ late' = late
    BY <1>7 DEF engine, late
  <2>2. ControlInv' /\ Agreement'
    BY <2>1, EngineUnchanged DEF IInv
  <2>3. TypeOK'
    BY <1>7 DEF IInv, TypeOK
  <2> QED
    BY <2>2, <2>3 DEF IInv
<1> QED
  BY <1>1, <1>2, <1>3, <1>4, <1>5, <1>6, <1>7 DEF Next

(* The inductive invariant holds throughout every behaviour.               *)
THEOREM Inductive == Spec => []IInv
  BY InitIInv, NextIInv, PTL DEF Spec

(* Every variable keeps its type in every behaviour of the engine.         *)
THEOREM TypeCorrect == Spec => []TypeOK
  BY Inductive, PTL DEF IInv

(* A pending entry stands for its own row, whatever crashes, late fills,   *)
(* timeouts and reconciles come in between.                                *)
THEOREM EntriesBacked == Spec => []PendingEntryBacked
<1>1. IInv => PendingEntryBacked
  BY DEF IInv, Agreement
<1> QED
  BY <1>1, Inductive, PTL

(* A position has at most one pending exit, and it is open, or expired by  *)
(* the end-of-day sweep.                                                   *)
THEOREM ExitsBacked == Spec => []PendingExitBacked
<1>1. IInv => PendingExitBacked
  BY DEF IInv, Agreement
<1> QED
  BY <1>1, Inductive, PTL

(* The list in memory and the database agree while the process lives.      *)
THEOREM MemoryMirrors == Spec => []MemoryMirrorsBook
<1>1. IInv => MemoryMirrorsBook
  BY DEF IInv, Agreement
<1> QED
  BY <1>1, Inductive, PTL

(* Until the market closes no spread has two active rows.                  *)
THEOREM NoDoubledSpread == Spec => []OneActiveRowPerSpread
<1>1. IInv => OneActiveRowPerSpread
  BY DEF IInv, Agreement
<1> QED
  BY <1>1, Inductive, PTL

(* The transitions of PositionLedger, on the rows of the database.         *)
Legal(from, to) ==
    \/ from = "none" /\ (to = "open" \/ (to = "pending_open" /\ ~late))
    \/ from = "pending_open" /\ to \in {"open", "deleted"}
    \/ from = "open" /\ to \in {"expired", "closed"}
    \/ late /\ from = "pending_open" /\ to = "expired"
    \/ late /\ from = "expired" /\ to \in {"open", "deleted", "closed"}
RowMoved(r) ==
    \/ book'[r].status = book[r].status /\ book'[r].spread = book[r].spread
    \/ /\ Legal(book[r].status, book'[r].status)
       /\ book'[r].spread \in Spread
       /\ book'[r].spread = book[r].spread \/ book[r].status = "none"

(* Every step takes every row along those transitions.                     *)
LEMMA RowStep ==
    ASSUME IInv, [Next]_vars, NEW r \in Row
    PROVE  RowMoved(r)
<1> USE DEF IInv
<1>1. /\ book[r] \in BookRow
      /\ book[r].status # "none" => book[r].spread \in Spread
      /\ eodDone => late
  BY DEF TypeOK, ControlInv, Agreement, SpreadKnown
<1>2. ASSUME book'[r] = book[r] PROVE RowMoved(r)
  BY <1>2 DEF RowMoved
<1>3. ASSUME NEW o \in PendingEntryIds, NEW to \in {"open", "deleted"},
             pendingEntries[o] = r, book'[r].status = to, book'[r].spread = book[r].spread
      PROVE  RowMoved(r)
  <2>1. book[r].status = "pending_open" \/ (eodDone /\ book[r].status = "expired")
    BY <1>3 DEF Agreement, PendingEntryBacked
  <2> QED
    BY <1>1, <1>3, <2>1 DEF RowMoved, Legal
<1>4. ASSUME NEW q \in Row, Rollback(q), q # r \/ book[r].status = "pending_open"
      PROVE  RowMoved(r)
  <2>1. CASE q # r
    BY <1>2, <1>4, <2>1, RollbackEffect
  <2>2. CASE q = r
    BY <1>1, <1>4, <2>2, RollbackEffect DEF RowMoved, Legal
  <2> QED
    BY <2>1, <2>2
<1>5. ASSUME ReconcileStore, pc # "down" PROVE RowMoved(r)
  <2>1. PICK new \in OrphanRows : book' = [q \in Row |-> SyncedRow(q, new)]
    BY <1>5 DEF ReconcileStore
  <2>2. book'[r] = SyncedRow(r, new)
    BY <2>1
  <2>3. \/ book'[r].spread = book[r].spread /\ book'[r].status = book[r].status
        \/ /\ book'[r].spread = book[r].spread
           /\ \/ book[r].status = "pending_open" /\ book'[r].status = "open"
              \/ book[r].status = "open" /\ book'[r].status = "expired"
        \/ book[r].status = "none" /\ book'[r].status = "open" /\ book'[r].spread \in Spread
    BY <1>5, <2>2, SyncedRowFacts
  <2> QED
    BY <1>1, <2>3 DEF RowMoved, Legal
<1>6. ASSUME NEW o \in Order, PollEntry(o) PROVE RowMoved(r)
  <2>1. o \in PendingEntryIds /\ pendingEntries[o] \in Row
    BY <1>6 DEF PollEntry, ControlInv, PendingEntryIds, TypeOK
  <2>2. CASE OnFillConfirmed(o)
    BY <1>2, <1>3, <2>1, <2>2, WriteBothEffect DEF OnFillConfirmed
  <2>3. CASE OnEntryCancelled(o)
    BY <1>2, <1>3, <2>1, <2>3, RollbackEffect DEF OnEntryCancelled
  <2> QED
    BY <1>2, <1>6, <2>2, <2>3 DEF PollEntry, StillUnknown, store
<1>7. ASSUME NEW o \in Order \cup {NoOrder}, PollExit(o) PROVE RowMoved(r)
  <2>1. o \in PendingExitIds /\ pc # "down"
    BY <1>7 DEF PollExit, ControlInv
  <2>2. CASE OnCloseConfirmed(o)
    <3>1. /\ pendingExits[o] \in Row
          /\ \/ book[pendingExits[o]].status = "open"
             \/ late /\ book[pendingExits[o]].status = "expired"
      BY <1>1, <2>1 DEF PendingExitIds, TypeOK, Agreement, PendingExitBacked
    <3>2. book'[r] = IF r = pendingExits[o] THEN [book[r] EXCEPT !.status = "closed"]
                                            ELSE book[r]
      BY <2>2, <3>1 DEF OnCloseConfirmed, TypeOK
    <3> QED
      BY <1>1, <3>1, <3>2 DEF RowMoved, Legal, BookRow
  <2> QED
    BY <1>2, <1>7, <2>2 DEF PollExit, OnExitCancelled, StillUnknown, store
<1>8. ASSUME NEW o \in Order, TimeoutEntry(o) PROVE RowMoved(r)
  <2>1. o \in PendingEntryIds /\ pendingEntries[o] \in Row
    BY <1>8 DEF TimeoutEntry, ControlInv, PendingEntryIds, TypeOK
  <2> QED
    BY <1>2, <1>3, <1>8, <2>1, RollbackEffect DEF TimeoutEntry
<1>9. ASSUME EodSweep PROVE RowMoved(r)
  <2>1. \/ book'[r] = book[r]
        \/ book[r].status \in Active /\ book'[r] = [book[r] EXCEPT !.status = "expired"]
    BY <1>9 DEF EodSweep, SweepRows, SweptStatus, store
  <2> QED
    BY <1>1, <1>2, <1>9, <2>1 DEF EodSweep, RowMoved, Legal, Active, BookRow
<1>10. ASSUME NEW q \in Row, ExitCheck(q) PROVE RowMoved(r)
  <2>1. CASE q = r
    BY <1>10, <2>1, WriteBothEffect DEF ExitCheck, RowMoved
  <2>2. CASE q # r
    BY <1>2, <1>10, <2>2, WriteBothEffect DEF ExitCheck
  <2> QED
    BY <2>1, <2>2
<1>11. ASSUME EntryRefused PROVE RowMoved(r)
  <2>1. curRow \in Row /\ book[curRow].status = "pending_open" /\ Rollback(curRow)
    BY <1>11 DEF EntryRefused, ControlInv
  <2> QED
    BY <1>4, <2>1
<1>12. ASSUME RecordEntry PROVE RowMoved(r)
  <2>1. book'[r] = [book[r] EXCEPT !.order = curOrder] \/ book'[r] = book[r]
    BY <1>12 DEF RecordEntry, ControlInv, TypeOK
  <2> QED
    BY <1>1, <1>2, <2>1 DEF RowMoved, BookRow
<1>13. ASSUME NEW q \in Row, NEW s \in Spread, WriteEntry(q, s) PROVE RowMoved(r)
  <2>1. \/ book'[r] = book[r]
        \/ /\ book[r].status = "none" /\ ~late
           /\ book'[r].status = "pending_open" /\ book'[r].spread = s
    BY <1>13 DEF WriteEntry, Fresh, TypeOK
  <2> QED
    BY <1>2, <2>1 DEF RowMoved, Legal
<1>14. CASE ProcessStep
  BY <1>2, <1>5, <1>14 DEF ProcessStep, Crash, Restart, StartupSync, store
<1>15. CASE BrokerStep
  BY <1>2, <1>15 DEF BrokerStep, MarketClose, Settle, CloseInTws, Age, Fill, CancelByBroker,
     RejectByBroker, ExecuteLate, engine, store
<1>16. CASE PollStep
  BY <1>2, <1>6, <1>7, <1>16 DEF PollStep, TickBegin, PollEntriesDone, PollExitsDone,
     PollInactive, PollEntryFails, PollExitFails, store
<1>17. CASE TimeoutStep
  BY <1>2, <1>8, <1>17 DEF TimeoutStep, EntryTimeoutsDone, ExitTimeoutsDone, TimeoutExit,
     TimeoutEntryFails, store
<1>18. CASE ExitStep
  BY <1>2, <1>9, <1>10, <1>18 DEF ExitStep, EodDone, PlaceExit, ExitsDone, ExitNotChecked,
     ExitCheckFails, store
<1>19. CASE EntryStep
  BY <1>2, <1>11, <1>12, <1>13, <1>19 DEF EntryStep, NoEntry, EntryAccepted, store
<1> QED
  BY <1>2, <1>14, <1>15, <1>16, <1>17, <1>18, <1>19 DEF Next, vars, store

(* The session ends once, and no row is written in that step.              *)
LEMMA SessionStep ==
    ASSUME [Next]_vars
    PROVE  late' = late \/ (~late /\ late' /\ book' = book)
<1> USE DEF late, broker, engine, store
<1>1. CASE BrokerStep
  BY <1>1 DEF BrokerStep, MarketClose, Settle, CloseInTws, Age, Fill, CancelByBroker,
     RejectByBroker, ExecuteLate
<1>2. CASE PollStep
  BY <1>2 DEF PollStep, TickBegin, PollEntry, PollInactive, PollEntryFails, PollEntriesDone,
     PollExit, PollExitFails, PollExitsDone
<1>3. CASE TimeoutStep
  BY <1>3 DEF TimeoutStep, TimeoutEntry, TimeoutEntryFails, TimeoutExit, EntryTimeoutsDone,
     ExitTimeoutsDone
<1>4. CASE ExitStep
  BY <1>4 DEF ExitStep, EodSweep, EodDone, PlaceExit, ExitsDone, ExitNotChecked,
     ExitCheckFails, ExitCheck
<1>5. CASE EntryStep
  BY <1>5 DEF EntryStep, NoEntry, WriteEntry, EntryAccepted, EntryRefused, RecordEntry
<1>6. CASE ProcessStep
  BY <1>6 DEF ProcessStep, Crash, Restart, StartupSync
<1> QED
  BY <1>1, <1>2, <1>3, <1>4, <1>5, <1>6 DEF Next, vars

(* A step of the engine is a step of the ledger, or none.                  *)
LEMMA LedgerStep == IInv /\ IInv' /\ [Next]_vars => [Ledger!Next]_Ledger!vars
<1> SUFFICES ASSUME IInv, IInv', [Next]_vars PROVE [Ledger!Next]_Ledger!vars
  OBVIOUS
<1>1. CASE ~late /\ late' /\ book' = book
  BY <1>1 DEF Ledger!Next, Ledger!EndSession
<1>2. CASE late' = late
  <2>1. /\ [r \in Row |-> book'[r].status] \in [Row -> Ledger!Status]
        /\ [r \in Row |-> book'[r].spread] \in [Row -> Spread \cup {NoSpread}]
    BY DEF IInv, TypeOK, BookRow, Status, Ledger!Status
  <2>2. ASSUME NEW r \in Row PROVE Ledger!Moved(r)
    <3>1. RowMoved(r)
      BY <2>2, RowStep
    <3>2. ASSUME Legal(book[r].status, book'[r].status)
          PROVE  <<book[r].status, book'[r].status>> \in Ledger!Moves
      BY <3>2 DEF Legal, Ledger!Moves, Ledger!Entered, Ledger!Confirmed, Ledger!Ended,
         Ledger!Overtaken
    <3> QED
      BY <3>1, <3>2 DEF RowMoved, Ledger!Moved
  <2>3. ~late => Ledger!Distinct'
    BY <1>2 DEF IInv, Agreement, OneActiveRowPerSpread, Ledger!Distinct, Ledger!Active, Active
  <2> QED
    BY <1>2, <2>1, <2>2, <2>3 DEF Ledger!Next, Ledger!Write
<1> QED
  BY <1>1, <1>2, SessionStep

(* The engine implements the ledger: whatever crashes, late fills,         *)
(* timeouts, reconciles and sweeps happen, its database only ever makes    *)
(* the transitions of PositionLedger.                                      *)
THEOREM ImplementsLedger == Spec => LedgerSpec
<1>1. Init => Ledger!Init
  BY DEF Init, BlankRow, Ledger!Init, late
<1> QED
  BY <1>1, LedgerStep, Inductive, PTL DEF Spec, LedgerSpec, Ledger!Spec
=============================================================================
