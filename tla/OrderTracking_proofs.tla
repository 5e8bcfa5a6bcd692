-------------------------- MODULE OrderTracking_proofs --------------------------
(* What the trackers of the tick loop cover, proved for every set of rows, *)
(* orders and spreads, every lot size, and every combination of the faults *)
(* that a theorem's hypothesis does not exclude: no order is lost sight of *)
(* while it works, and no row waits for an entry that nobody awaits.       *)
EXTENDS OrderLifecycle_proofs

(* An order id is written to one row at most, once it is IBKR's, and the   *)
(* order in hand is in no row yet.                                         *)
OrdersRecorded ==
    /\ \A r, q \in Row :
           book[r].order = book[q].order /\ book[r].order # NoOrder => r = q
    /\ \A r \in Row :
           book[r].order # NoOrder => order[book[r].order].state # "unused"
    /\ pc = "recordEntry" => /\ order[curOrder].state # "unused"
                             /\ \A r \in Row : book[r].order # curOrder
    /\ pc # "recordEntry" => curOrder = NoOrder

RInv == IInv /\ OrdersRecorded

-----------------------------------------------------------------------------
(* What a step may do to the orders, to the ids in the rows and to the     *)
(* order in hand.                                                          *)

(* The order's state turned, and nothing else of it.                       *)
LEMMA TicketKept ==
    ASSUME TypeOK, NEW o \in Order, NEW st \in OrderState,
           order' = [order EXCEPT ![o].state = st], NEW p \in Order
    PROVE  order'[p] = IF p = o THEN [order[p] EXCEPT !.state = st] ELSE order[p]
  BY DEF TypeOK

Timeout(o) == TimeoutEntry(o) \/ TimeoutEntryFails(o) \/ TimeoutExit(o)

(* An exit is placed and tracked.                                          *)
ExitPlaced(o) ==
    /\ PlaceExit /\ TrackExit(o) /\ order[o].state = "unused"
    /\ \E s \in {"working"} \cup (IF "reject" \in Faults THEN {"inactive"} ELSE {}) :
           order'[o] = NewTicket(s, "exit", curRow)

(* An order is placed by the entry or the exit in hand: it works, or is    *)
(* refused, or waits in the client's queue behind a call that timed out.   *)
OrderPlaced(o) ==
    \/ EntryAccepted(o) /\ order'[o] = NewTicket("working", "entry", curRow)
    \/ /\ EntryRefused
       /\ \E s \in {"inactive"} \cup (IF "late" \in Faults THEN {"queued"} ELSE {}) :
              order'[o] = NewTicket(s, "entry", curRow)
    \/ ExitPlaced(o)
    \/ PlaceExit /\ "late" \in Faults /\ order'[o] = NewTicket("queued", "exit", curRow)

(* The state of a live order turns.                                        *)
OrderTurned(o) ==
    \E st \in OrderState :
        /\ order'[o] = [order[o] EXCEPT !.state = st]
        /\ order[o].state \in {"queued", "working", "cancelling"}
        /\ \/ st = "cancelled"
           \/ st = "inactive" /\ "reject" \in Faults
           \/ st = "working" /\ order[o].state = "queued"
           \/ st = "cancelling" /\ order[o].state = "working" /\ Timeout(o)

OrderMoved(o) ==
    \/ order'[o] = order[o]
    \/ order[o].state = "unused" /\ OrderPlaced(o)
    \/ OrderTurned(o)
    \/ Fill(o)

(* Every step takes every order along those transitions.                   *)
LEMMA OrderStep ==
    ASSUME IInv, [Next]_vars, NEW o \in Order
    PROVE  OrderMoved(o)
<1> USE DEF IInv
<1>0. order[o] \in Ticket /\ o # NoOrder
  BY SentinelAssumption DEF TypeOK
<1>1. ASSUME order'[o] = order[o] PROVE OrderMoved(o)
  BY <1>1 DEF OrderMoved
<1>2. ASSUME NEW p \in Order \cup {NoOrder}, CancelOrder(p), p = o => Timeout(o)
      PROVE  OrderMoved(o)
  <2>1. CASE UNCHANGED order
    BY <1>1, <2>1
  <2>2. CASE p \in Order /\ order[p].state = "working"
             /\ order' = [order EXCEPT ![p].state = "cancelling"]
    <3>1. "cancelling" \in OrderState
      BY DEF OrderState
    <3> QED
      BY <1>1, <1>2, <2>2, <3>1, TicketKept DEF OrderMoved, OrderTurned
  <2> QED
    BY <1>2, <2>1, <2>2 DEF CancelOrder
<1>3. ASSUME NEW p \in Unused, NEW t, order' = [order EXCEPT ![p] = t]
      PROVE  /\ o # p => order'[o] = order[o]
             /\ o = p => order[o].state = "unused" /\ order'[o] = t
  BY <1>3 DEF Unused, TypeOK
<1>4. CASE PlaceExit
  <2>1. CASE UNCHANGED order
    BY <1>1, <2>1
  <2>2. ASSUME NEW p \in Unused,
               NEW s \in {"working"} \cup (IF "reject" \in Faults THEN {"inactive"} ELSE {}),
               order' = [order EXCEPT ![p] = NewTicket(s, "exit", curRow)], TrackExit(p)
        PROVE  OrderMoved(o)
    BY <1>1, <1>3, <1>4, <2>2 DEF OrderMoved, OrderPlaced, ExitPlaced
  <2>3. ASSUME "late" \in Faults, NEW p \in Unused,
               order' = [order EXCEPT ![p] = NewTicket("queued", "exit", curRow)]
        PROVE  OrderMoved(o)
    BY <1>1, <1>3, <1>4, <2>3 DEF OrderMoved, OrderPlaced
  <2> QED
    BY <1>4, <2>1, <2>2, <2>3 DEF PlaceExit
<1>5. ASSUME NEW p \in Order, EntryAccepted(p) PROVE OrderMoved(o)
  <2>1. p \in Unused /\ order' = [order EXCEPT ![p] = NewTicket("working", "entry", curRow)]
    BY <1>5 DEF EntryAccepted
  <2> QED
    BY <1>1, <1>3, <1>5, <2>1 DEF OrderMoved, OrderPlaced
<1>6. CASE EntryRefused
  <2>1. CASE UNCHANGED order
    BY <1>1, <2>1
  <2>2. ASSUME NEW p \in Unused,
               NEW s \in {"inactive"} \cup (IF "late" \in Faults THEN {"queued"} ELSE {}),
               order' = [order EXCEPT ![p] = NewTicket(s, "entry", curRow)]
        PROVE  OrderMoved(o)
    BY <1>1, <1>3, <1>6, <2>2 DEF OrderMoved, OrderPlaced
  <2> QED
    BY <1>6, <2>1, <2>2 DEF EntryRefused
<1>7. CASE Settle
  <2>1. order'[o] = IF order[o].state \in {"queued", "working", "cancelling"}
                    THEN [order[o] EXCEPT !.state = "cancelled"] ELSE order[o]
    BY <1>7 DEF Settle
  <2>2. "cancelled" \in OrderState
    BY DEF OrderState
  <2> QED
    BY <2>1, <2>2 DEF OrderMoved, OrderTurned
<1>8. ASSUME NEW p \in Order, Fill(p) PROVE OrderMoved(o)
  BY <1>1, <1>8 DEF Fill, OrderMoved, TypeOK
<1>9. ASSUME NEW p \in Order, CancelByBroker(p) \/ RejectByBroker(p) \/ ExecuteLate(p)
      PROVE  OrderMoved(o)
  <2>1. PICK st \in {"cancelled", "inactive", "working"} :
            /\ order' = [order EXCEPT ![p].state = st]
            /\ order[p].state \in {"queued", "working", "cancelling"}
            /\ st = "inactive" => "reject" \in Faults
            /\ st = "working" => order[p].state = "queued"
    BY <1>9 DEF CancelByBroker, RejectByBroker, ExecuteLate
  <2>2. st \in OrderState
    BY DEF OrderState
  <2>3. order'[o] = IF o = p THEN [order[o] EXCEPT !.state = st] ELSE order[o]
    BY <2>1, <2>2, TicketKept
  <2> QED
    BY <2>1, <2>2, <2>3 DEF OrderMoved, OrderTurned
<1>10. CASE PollStep
  BY <1>1, <1>10 DEF PollStep, PollInactive, TickBegin, PollEntriesDone, PollExitsDone, PollEntry,
     PollEntryFails, PollExit, PollExitFails, broker
<1>11. CASE TimeoutStep
  <2>1. ASSUME NEW p \in Order \cup {NoOrder}, Timeout(p) PROVE OrderMoved(o)
    BY <1>2, <2>1 DEF Timeout, TimeoutEntry, TimeoutEntryFails, TimeoutExit
  <2> QED
    BY <1>1, <1>11, <2>1 DEF TimeoutStep, EntryTimeoutsDone, ExitTimeoutsDone, Timeout, broker
<1>12. CASE ExitStep
  BY <1>1, <1>4, <1>12 DEF ExitStep, EodSweep, EodDone, ExitsDone, ExitNotChecked,
     ExitCheckFails, ExitCheck, broker
<1>13. CASE EntryStep
  BY <1>1, <1>5, <1>6, <1>13 DEF EntryStep, NoEntry, RecordEntry, WriteEntry, broker
<1>14. CASE ProcessStep
  BY <1>1, <1>14 DEF ProcessStep, Crash, Restart, StartupSync, broker
<1>15. CASE BrokerStep
  BY <1>1, <1>7, <1>8, <1>9, <1>15 DEF BrokerStep, MarketClose, CloseInTws, Age, broker
<1> QED
  BY <1>1, <1>10, <1>11, <1>12, <1>13, <1>14, <1>15 DEF Next, vars, broker

(* One more lot of a live order.                                           *)
LEMMA FillEffect ==
    ASSUME TypeOK, NEW o \in Order, Fill(o)
    PROVE  /\ order'[o].side = order[o].side /\ order'[o].spread = order[o].spread
           /\ order'[o].qty = order[o].qty /\ order'[o].filled = order[o].filled + 1
           /\ order'[o].state = IF order[o].filled + 1 = order[o].qty
                                THEN "filled" ELSE order[o].state
           /\ \A p \in Order \ {o} : order'[p] = order[p]
<1> DEFINE st == IF order[o].filled + 1 = order[o].qty THEN "filled" ELSE order[o].state
<1>1. order' = [order EXCEPT ![o].filled = @ + 1, ![o].state = st]
  BY DEF Fill
<1> HIDE DEF st
<1>2. order'[o] = [order[o] EXCEPT !.filled = order[o].filled + 1, !.state = st]
      /\ \A p \in Order \ {o} : order'[p] = order[p]
  BY <1>1 DEF TypeOK
<1>3. order[o] \in Ticket
  BY DEF TypeOK
<1>4. /\ order'[o].side = order[o].side /\ order'[o].spread = order[o].spread
      /\ order'[o].qty = order[o].qty /\ order'[o].filled = order[o].filled + 1
      /\ order'[o].state = st
  BY <1>2, <1>3 DEF Ticket
<1> QED
  BY <1>2, <1>4 DEF st

(* An order once used stays used and keeps its side, its spread and its    *)
(* size.                                                                   *)
LEMMA OrderKept ==
    ASSUME IInv, [Next]_vars, NEW o \in Order, order[o].state # "unused"
    PROVE  /\ order'[o].state # "unused" /\ order'[o].side = order[o].side
           /\ order'[o].spread = order[o].spread /\ order'[o].qty = order[o].qty
<1>0. order[o] \in Ticket
  BY DEF IInv, TypeOK
<1>1. CASE OrderTurned(o)
  BY <1>0, <1>1 DEF OrderTurned, Ticket
<1>2. CASE Fill(o)
  <2>1. order[o].state \in {"working", "cancelling"}
    BY <1>2 DEF Fill
  <2> QED
    BY <1>2, <2>1, FillEffect DEF IInv
<1> QED
  BY <1>1, <1>2, OrderStep DEF OrderMoved

(* An order starts to work when it is placed, or when a queued placement   *)
(* executes late.                                                          *)
StartsToWork(o) ==
    \/ order[o].state \in {"working", "queued"}
    \/ EntryAccepted(o) /\ order'[o] = NewTicket("working", "entry", curRow)
    \/ ExitPlaced(o) /\ order'[o] = NewTicket("working", "exit", curRow)

(* No other step sets an order to work.                                    *)
LEMMA WorkStep ==
    ASSUME IInv, [Next]_vars, NEW o \in Order, order'[o].state = "working"
    PROVE  StartsToWork(o)
<1>0. order[o] \in Ticket
  BY DEF IInv, TypeOK
<1>1. CASE OrderTurned(o)
  BY <1>0, <1>1 DEF OrderTurned, Ticket, StartsToWork
<1>2. CASE Fill(o)
  <2>1. order'[o].state \in {"filled", order[o].state}
    BY <1>2, FillEffect DEF IInv
  <2> QED
    BY <2>1 DEF StartsToWork
<1>3. CASE OrderPlaced(o)
  <2>1. \A s, side : NewTicket(s, side, curRow).state = s
    BY DEF NewTicket
  <2> QED
    BY <1>3, <2>1 DEF OrderPlaced, ExitPlaced, StartsToWork
<1> QED
  BY <1>1, <1>2, <1>3, OrderStep DEF OrderMoved, StartsToWork

(* What a reconcile leaves in a row: the order id of a row that was in     *)
(* use.                                                                    *)
LEMMA SyncedOrder ==
    ASSUME TypeOK, Agreement, pc # "down", NEW new \in OrphanRows, NEW r \in Row
    PROVE  LET b == SyncedRow(r, new)
           IN  \/ b.order = book[r].order
               \/ book[r].status = "none" /\ b.order = NoOrder
<1> DEFINE n == HeldLots(book[r].spread)
           b == SyncedRow(r, new)
<1>1. book[r] \in BookRow /\ (InMemory(r) => memory[r].status = book[r].status)
  BY DEF TypeOK, Agreement, MemoryMirrorsBook
<1>2. CASE r \in Promoted
  <2>1. r \notin OpenInMemory /\ r \notin Vanished /\ r \notin Fresh
    BY <1>1, <1>2 DEF OpenInMemory, Vanished, Fresh, Promoted
  <2>2. b = [book[r] EXCEPT !.status = "open", !.lots = n]
    BY <1>2, <2>1 DEF SyncedRow, PromotedRow
  <2> HIDE DEF b, n
  <2>3. b.order = book[r].order
    BY <1>1, <2>2 DEF BookRow
  <2> QED
    BY <2>3 DEF b
<1>3. CASE r \in OpenInMemory
  <2>1. r \notin Promoted /\ r \notin Fresh
    BY <1>1, <1>3 DEF OpenInMemory, Fresh, Promoted
  <2>2. b = IF r \in Vanished THEN [book[r] EXCEPT !.status = "expired"]
                              ELSE [book[r] EXCEPT !.lots = n]
    BY <1>3, <2>1 DEF SyncedRow
  <2> HIDE DEF b, n
  <2>3. b.order = book[r].order
    BY <1>1, <2>2 DEF BookRow
  <2> QED
    BY <2>1, <2>3 DEF b
<1>4. CASE r \in Fresh /\ new[r] # NoSpread
  <2>1. r \notin Promoted /\ r \notin OpenInMemory /\ r \notin Vanished
    BY <1>1, <1>4 DEF Promoted, OpenInMemory, Vanished, Fresh
  <2>2. b = [status |-> "open", spread |-> new[r], lots |-> held[new[r]],
             order |-> NoOrder, dated |-> FALSE]
    BY <1>4, <2>1 DEF SyncedRow
  <2>3. b.order = NoOrder
    BY <2>2
  <2> QED
    BY <1>4, <2>1, <2>3 DEF Fresh
<1>5. CASE r \notin Promoted /\ r \notin OpenInMemory /\ ~(r \in Fresh /\ new[r] # NoSpread)
  <2>1. b = book[r]
    BY <1>5 DEF SyncedRow, Vanished
  <2> HIDE DEF b
  <2> QED
    BY <1>5, <2>1 DEF b
<1> QED
  BY <1>2, <1>3, <1>4, <1>5

(* A row keeps the order id it has, or is new, or is the one recorded.     *)
RowOrderMoved(r) ==
    \/ book'[r].order = book[r].order
    \/ book[r].status = "none" /\ book'[r].order = NoOrder
    \/ RecordEntry /\ r = curRow /\ book'[r].order = curOrder

(* No other step changes the order id of a row.                            *)
LEMMA RowOrderStep ==
    ASSUME IInv, [Next]_vars, NEW r \in Row
    PROVE  RowOrderMoved(r)
<1> USE DEF IInv
<1>0. book[r] \in BookRow
  BY DEF TypeOK
<1>1. ASSUME book'[r] = book[r] PROVE RowOrderMoved(r)
  BY <1>1 DEF RowOrderMoved
<1>2. ASSUME NEW q \in Row, Rollback(q) PROVE RowOrderMoved(r)
  <2>1. book'[r] \in {book[r], [book[r] EXCEPT !.status = "deleted"]}
    BY <1>2 DEF Rollback, TypeOK
  <2> QED
    BY <1>0, <2>1 DEF RowOrderMoved, BookRow
<1>3. ASSUME NEW q \in Row, NEW st, NEW n, WriteBoth(q, st, n) PROVE RowOrderMoved(r)
  BY <1>1, <1>3, WriteBothEffect DEF RowOrderMoved
<1>4. ASSUME ReconcileStore, pc # "down" PROVE RowOrderMoved(r)
  <2>1. PICK new \in OrphanRows : book' = [q \in Row |-> SyncedRow(q, new)]
    BY <1>4 DEF ReconcileStore
  <2> QED
    BY <1>4, <2>1, SyncedOrder DEF RowOrderMoved
<1>5. ASSUME NEW o \in Order, PollEntry(o) PROVE RowOrderMoved(r)
  <2>1. pendingEntries[o] \in Row
    BY <1>5 DEF PollEntry, ControlInv, PendingEntryIds, TypeOK
  <2> QED
    BY <1>1, <1>2, <1>3, <1>5, <2>1 DEF PollEntry, OnFillConfirmed, OnEntryCancelled, StillUnknown,
       store
<1>6. ASSUME NEW o \in Order \cup {NoOrder}, PollExit(o) PROVE RowOrderMoved(r)
  <2>1. CASE OnCloseConfirmed(o)
    <3>1. book'[r] \in {book[r], [book[r] EXCEPT !.status = "closed"]}
      BY <2>1 DEF OnCloseConfirmed, TypeOK
    <3> QED
      BY <1>0, <3>1 DEF RowOrderMoved, BookRow
  <2> QED
    BY <1>1, <1>6, <2>1 DEF PollExit, OnExitCancelled, StillUnknown, store
<1>7. ASSUME NEW o \in Order, TimeoutEntry(o) PROVE RowOrderMoved(r)
  <2>1. pendingEntries[o] \in Row
    BY <1>7 DEF TimeoutEntry, ControlInv, PendingEntryIds, TypeOK
  <2> QED
    BY <1>2, <1>7, <2>1 DEF TimeoutEntry
<1>8. CASE EodSweep
  <2>1. book'[r] \in {book[r], [book[r] EXCEPT !.status = "expired"]}
    BY <1>8 DEF EodSweep, SweepRows, store
  <2> QED
    BY <1>0, <2>1 DEF RowOrderMoved, BookRow
<1>9. CASE EntryRefused
  BY <1>2, <1>9 DEF EntryRefused, ControlInv
<1>10. CASE RecordEntry
  <2>1. /\ r # curRow => book'[r] = book[r]
        /\ r = curRow => book'[r] = [book[r] EXCEPT !.order = curOrder]
    BY <1>10 DEF RecordEntry, TypeOK
  <2> QED
    BY <1>0, <1>1, <1>10, <2>1 DEF RowOrderMoved, BookRow
<1>11. ASSUME NEW q \in Row, NEW s \in Spread, WriteEntry(q, s) PROVE RowOrderMoved(r)
  BY <1>11 DEF WriteEntry, Fresh, TypeOK, RowOrderMoved
<1>12. CASE PollStep
  BY <1>1, <1>5, <1>6, <1>12 DEF PollStep, PollInactive, TickBegin, PollEntriesDone, PollExitsDone,
     PollEntryFails, PollExitFails, store
<1>13. CASE TimeoutStep
  BY <1>1, <1>7, <1>13 DEF TimeoutStep, EntryTimeoutsDone, ExitTimeoutsDone, TimeoutExit,
     TimeoutEntryFails, store
<1>14. CASE ExitStep
  BY <1>1, <1>3, <1>8, <1>14 DEF ExitStep, EodDone, PlaceExit, ExitsDone, ExitNotChecked,
     ExitCheckFails, ExitCheck, store
<1>15. CASE EntryStep
  BY <1>1, <1>9, <1>10, <1>11, <1>15 DEF EntryStep, NoEntry, EntryAccepted, store
<1>16. CASE ProcessStep
  BY <1>1, <1>4, <1>16 DEF ProcessStep, Crash, Restart, StartupSync, store
<1>17. CASE BrokerStep
  BY <1>1, <1>17 DEF BrokerStep, MarketClose, Settle, CloseInTws, Age, Fill, CancelByBroker,
     RejectByBroker, ExecuteLate, engine, store
<1> QED
  BY <1>1, <1>12, <1>13, <1>14, <1>15, <1>16, <1>17 DEF Next, vars, store

(* The row and the order in hand, from the placement of an entry to its    *)
(* record.                                                                 *)
InHandMoved ==
    \/ UNCHANGED <<pc, curRow, curOrder>>
    \/ pc # "recordEntry" /\ pc' \notin {"placeEntry", "recordEntry"} /\ curOrder' = curOrder
       /\ (pc = "placeEntry" => EntryRefused)
    \/ pc # "recordEntry" /\ pc' = "placeEntry" /\ curOrder' = curOrder /\ curRow' \in Row
       /\ (\E s \in Spread : WriteEntry(curRow', s))
    \/ \E o \in Order : EntryAccepted(o)
    \/ RecordEntry
    \/ Crash

(* Every step moves the row and the order in hand in one of these ways.    *)
LEMMA InHandStep == ASSUME IInv, [Next]_vars PROVE InHandMoved
<1> USE DEF InHandMoved, control
<1>1. CASE PollStep
  BY <1>1 DEF PollStep, PollInactive, TickBegin, PollEntriesDone, PollExitsDone, PollEntry,
     PollEntryFails, PollExit, PollExitFails
<1>2. CASE TimeoutStep
  BY <1>2 DEF TimeoutStep, EntryTimeoutsDone, ExitTimeoutsDone, TimeoutEntry,
     TimeoutEntryFails, TimeoutExit
<1>3. CASE ExitStep
  BY <1>3 DEF ExitStep, EodSweep, EodDone, PlaceExit, ExitsDone, ExitNotChecked, ExitCheckFails,
     ExitCheck
<1>4. CASE EntryStep
  <2>1. ASSUME NEW r \in Row, NEW s \in Spread, WriteEntry(r, s) PROVE InHandMoved
    BY <2>1 DEF WriteEntry
  <2>2. CASE NoEntry \/ EntryRefused
    BY <2>2 DEF NoEntry, EntryRefused
  <2> QED
    BY <1>4, <2>1, <2>2 DEF EntryStep
<1>5. CASE ProcessStep
  BY <1>5 DEF ProcessStep, Restart, StartupSync
<1>6. CASE BrokerStep
  BY <1>6 DEF BrokerStep, MarketClose, Settle, CloseInTws, Age, Fill, CancelByBroker,
     RejectByBroker, ExecuteLate, engine
<1> QED
  BY <1>1, <1>2, <1>3, <1>4, <1>5, <1>6 DEF Next, vars

-----------------------------------------------------------------------------
(* The order ids in the rows.                                              *)

(* No step writes an id that was never placed, or one that another row has.*)
LEMMA RecordedStep == ASSUME RInv, [Next]_vars PROVE OrdersRecorded'
<1> USE DEF RInv, IInv
<1>1. \A o \in Order : order[o].state # "unused" => order'[o].state # "unused"
  BY OrderKept
<1>2. \A r \in Row : book[r].order \in Order \cup {NoOrder}
  BY DEF TypeOK, BookRow
<1>3. CASE RecordEntry
  <2>1. /\ curOrder \in Order /\ curRow \in Row /\ order[curOrder].state # "unused"
        /\ \A r \in Row : book[r].order # curOrder
        /\ pc' = "idle" /\ curOrder' = NoOrder
    BY <1>3 DEF RecordEntry, ControlInv, OrdersRecorded
  <2>2. book' = [book EXCEPT ![curRow].order = curOrder]
    BY <1>3 DEF RecordEntry
  <2>3. \A r \in Row : book'[r].order = IF r = curRow THEN curOrder ELSE book[r].order
    <3> TAKE r \in Row
    <3>1. book[r] \in BookRow
      BY DEF TypeOK
    <3>2. book'[r] = IF r = curRow THEN [book[r] EXCEPT !.order = curOrder] ELSE book[r]
      BY <2>1, <2>2 DEF TypeOK
    <3> QED
      BY <3>1, <3>2 DEF BookRow
  <2>4. \A r, q \in Row : book'[r].order = book'[q].order /\ book'[r].order # NoOrder => r = q
    BY <2>1, <2>3 DEF OrdersRecorded
  <2>5. \A r \in Row : book'[r].order # NoOrder => order'[book'[r].order].state # "unused"
    BY <1>1, <1>2, <2>1, <2>3 DEF OrdersRecorded
  <2> QED
    BY <2>1, <2>4, <2>5 DEF OrdersRecorded
<1>4. CASE ~RecordEntry
  <2>1. \A r \in Row : book'[r].order \in {book[r].order, NoOrder}
    BY <1>4, RowOrderStep DEF RowOrderMoved
  <2>2. \A r, q \in Row : book'[r].order = book'[q].order /\ book'[r].order # NoOrder => r = q
    BY <2>1 DEF OrdersRecorded
  <2>3. \A r \in Row : book'[r].order # NoOrder => order'[book'[r].order].state # "unused"
    BY <1>1, <1>2, <2>1 DEF OrdersRecorded
  <2>4. ASSUME NEW o \in Order, EntryAccepted(o)
        PROVE  /\ pc' = "recordEntry" /\ curOrder' = o /\ order'[o].state # "unused"
               /\ \A r \in Row : book'[r].order # o
    <3>1. /\ order[o].state = "unused" /\ pc' = "recordEntry" /\ curOrder' = o
          /\ order' = [order EXCEPT ![o] = NewTicket("working", "entry", curRow)]
          /\ book' = book
      BY <2>4 DEF EntryAccepted, Unused, store
    <3>2. order'[o].state = "working"
      BY <3>1 DEF TypeOK, NewTicket
    <3>3. \A r \in Row : book[r].order # o
      BY <3>1, SentinelAssumption DEF OrdersRecorded
    <3> QED
      BY <3>1, <3>2, <3>3
  <2>5. CASE UNCHANGED <<pc, curRow, curOrder>>
    <3>1. pc = "recordEntry" => curOrder \in Order /\ curOrder # NoOrder
      BY SentinelAssumption DEF ControlInv
    <3> QED
      BY <1>1, <2>1, <2>2, <2>3, <2>5, <3>1 DEF OrdersRecorded
  <2>6. CASE Crash
    BY <2>2, <2>3, <2>6 DEF Crash, OrdersRecorded
  <2>7. CASE pc # "recordEntry" /\ pc' # "recordEntry" /\ curOrder' = curOrder
    BY <2>2, <2>3, <2>7 DEF OrdersRecorded
  <2> QED
    BY <1>4, <2>2, <2>3, <2>4, <2>5, <2>6, <2>7, InHandStep DEF InHandMoved, OrdersRecorded
<1> QED
  BY <1>3, <1>4

(* Whatever crashes, times out or arrives late: the id of an order is in   *)
(* one row at most, and that order has been placed.                        *)
LEMMA Recorded == Spec => []RInv
<1>1. Init => OrdersRecorded
  BY DEF Init, BlankRow, OrdersRecorded
<1>2. RInv /\ IInv' /\ [Next]_vars => RInv'
  BY RecordedStep DEF RInv
<1>3. Init => RInv
  BY <1>1, InitIInv DEF RInv
<1> QED
  BY <1>2, <1>3, Inductive, PTL DEF Spec

-----------------------------------------------------------------------------
(* The trackers.                                                           *)

(* Where a handler that drops the tracker of an entry reaches the database *)
(* it decides the row with it.                                             *)
Decided(r) == "db" \in Faults \/ book'[r].status \in {"open", "deleted"}

(* A tracker of an entry changes when an order is recorded, when its order *)
(* is dead or timed out and its row decided, and in a crash.               *)
EntryTrackerMoved(o) ==
    \/ pendingEntries'[o] = pendingEntries[o]
    \/ RecordEntry /\ o = curOrder
    \/ order[o].state \in {"filled", "cancelled"} /\ Decided(pendingEntries[o])
    \/ (TimeoutEntry(o) \/ TimeoutEntryFails(o)) /\ Decided(pendingEntries[o])
    \/ Crash

(* No other step changes it.                                               *)
LEMMA EntryTrackerStep ==
    ASSUME IInv, [Next]_vars, NEW o \in Order, pendingEntries[o] # NoRow
    PROVE  EntryTrackerMoved(o)
<1> USE DEF IInv
<1>0. pendingEntries[o] \in Row
  BY DEF TypeOK
<1>1. ASSUME pendingEntries'[o] = pendingEntries[o] PROVE EntryTrackerMoved(o)
  BY <1>1 DEF EntryTrackerMoved
<1>2. ASSUME NEW p \in Order, p # o, Forget(p) PROVE EntryTrackerMoved(o)
  BY <1>1, <1>2 DEF Forget, TypeOK
<1>4. ASSUME NEW p \in Order, PollEntry(p) PROVE EntryTrackerMoved(o)
  <2>1. CASE p = o /\ OnFillConfirmed(o)
    <3>1. book'[pendingEntries[o]].status = "open"
      BY <1>0, <2>1, WriteBothEffect DEF OnFillConfirmed
    <3> QED
      BY <2>1, <3>1 DEF OnFillConfirmed, EntryTrackerMoved, Decided
  <2>2. CASE p = o /\ OnEntryCancelled(o)
    <3>1. book'[pendingEntries[o]].status = "deleted"
      BY <1>0, <2>2, RollbackEffect DEF OnEntryCancelled
    <3> QED
      BY <2>2, <3>1 DEF OnEntryCancelled, EntryTrackerMoved, Decided
  <2> QED
    BY <1>1, <1>2, <1>4, <2>1, <2>2 DEF PollEntry, OnFillConfirmed, OnEntryCancelled, StillUnknown,
       trackers
<1>5. ASSUME NEW p \in Order, PollEntryFails(p) PROVE EntryTrackerMoved(o)
  <2>1. CASE p = o
    BY <1>5, <2>1 DEF PollEntryFails, EntryTrackerMoved, Decided
  <2> QED
    BY <1>2, <1>5, <2>1 DEF PollEntryFails
<1>6. ASSUME NEW p \in Order, TimeoutEntry(p) PROVE EntryTrackerMoved(o)
  <2>1. CASE p = o
    <3>1. Rollback(pendingEntries[o])
      BY <1>6, <2>1 DEF TimeoutEntry
    <3>2. book'[pendingEntries[o]].status = "deleted"
      BY <1>0, <3>1, RollbackEffect
    <3> QED
      BY <1>6, <2>1, <3>2 DEF EntryTrackerMoved, Decided
  <2> QED
    BY <1>2, <1>6, <2>1 DEF TimeoutEntry
<1>7. ASSUME NEW p \in Order, TimeoutEntryFails(p) PROVE EntryTrackerMoved(o)
  <2>1. CASE p = o
    <3>1. "db" \in Faults
      BY <1>7 DEF TimeoutEntryFails
    <3> QED
      BY <1>7, <2>1, <3>1 DEF EntryTrackerMoved, Decided
  <2> QED
    BY <1>2, <1>7, <2>1 DEF TimeoutEntryFails
<1>8. ASSUME NEW p \in Order \cup {NoOrder}, PollExit(p) PROVE EntryTrackerMoved(o)
  BY <1>1, <1>8 DEF PollExit, OnCloseConfirmed, OnExitCancelled, StillUnknown, ForgetExit,
     trackers
<1>9. CASE RecordEntry
  <2>1. CASE o = curOrder
    BY <1>9, <2>1 DEF EntryTrackerMoved
  <2> QED
    BY <1>1, <1>9, <2>1 DEF RecordEntry, TypeOK
<1>10. CASE PollStep
  BY <1>1, <1>4, <1>5, <1>8, <1>10 DEF PollStep, PollInactive, TickBegin, PollEntriesDone,
     PollExitsDone, PollExitFails, ForgetExit, trackers
<1>11. CASE TimeoutStep
  BY <1>1, <1>6, <1>7, <1>11 DEF TimeoutStep, EntryTimeoutsDone, ExitTimeoutsDone, TimeoutExit,
     ForgetExit, trackers
<1>12. CASE ExitStep
  BY <1>1, <1>12 DEF ExitStep, EodSweep, EodDone, ExitsDone, ExitNotChecked, ExitCheckFails,
     ExitCheck, PlaceExit, TrackExit, trackers
<1>13. CASE EntryStep
  BY <1>1, <1>9, <1>13 DEF EntryStep, NoEntry, WriteEntry, EntryAccepted, EntryRefused, trackers
<1>14. CASE ProcessStep
  BY <1>1, <1>14 DEF ProcessStep, Restart, StartupSync, EntryTrackerMoved, trackers
<1>15. CASE BrokerStep
  BY <1>1, <1>15 DEF BrokerStep, MarketClose, Settle, CloseInTws, Age, Fill, CancelByBroker,
     RejectByBroker, ExecuteLate, engine
<1> QED
  BY <1>1, <1>10, <1>11, <1>12, <1>13, <1>14, <1>15 DEF Next, vars, trackers

(* A tracker of an exit is set when the exit is placed, and is dropped for *)
(* an order that is dead or timed out, and in a crash.                     *)
ExitTrackerMoved(o) ==
    \/ pendingExits'[o] = pendingExits[o]
    \/ ExitPlaced(o)
    \/ /\ pendingExits'[o] = NoRow
       /\ order[o].state \in {"filled", "cancelled"} \/ TimeoutExit(o) \/ Crash

(* No other step changes it.                                               *)
LEMMA ExitTrackerStep ==
    ASSUME IInv, [Next]_vars, NEW o \in Order
    PROVE  ExitTrackerMoved(o)
<1> USE DEF IInv
<1>1. ASSUME pendingExits'[o] = pendingExits[o] PROVE ExitTrackerMoved(o)
  BY <1>1 DEF ExitTrackerMoved
<1>2. ASSUME NEW p \in Order \cup {NoOrder}, pendingExits' = [pendingExits EXCEPT ![p] = NoRow]
      PROVE  /\ p # o => ExitTrackerMoved(o)
             /\ p = o => pendingExits'[o] = NoRow
  BY <1>1, <1>2 DEF TypeOK
<1>3. ASSUME NEW p \in Order \cup {NoOrder}, PollExit(p) PROVE ExitTrackerMoved(o)
  <2>1. CASE OnCloseConfirmed(p) \/ OnExitCancelled(p)
    <3>1. /\ pendingExits' = [pendingExits EXCEPT ![p] = NoRow]
          /\ order[p].state \in {"filled", "cancelled"}
      BY <2>1 DEF OnCloseConfirmed, OnExitCancelled, ForgetExit
    <3> QED
      BY <1>2, <3>1 DEF ExitTrackerMoved
  <2> QED
    BY <1>1, <1>3, <2>1 DEF PollExit, StillUnknown, trackers
<1>4. ASSUME NEW p \in Order, PollExitFails(p) PROVE ExitTrackerMoved(o)
  BY <1>2, <1>4 DEF PollExitFails, ForgetExit, ExitTrackerMoved
<1>5. ASSUME NEW p \in Order \cup {NoOrder}, TimeoutExit(p) PROVE ExitTrackerMoved(o)
  <2>1. pendingExits' = [pendingExits EXCEPT ![p] = NoRow]
    BY <1>5 DEF TimeoutExit, ForgetExit
  <2> QED
    BY <1>2, <1>5, <2>1 DEF ExitTrackerMoved
<1>6. CASE PlaceExit
  <2>1. ASSUME NEW p \in Order \cup {NoOrder}, p # o, TrackExit(p) PROVE ExitTrackerMoved(o)
    BY <1>1, <2>1 DEF TrackExit, TypeOK
  <2>2. ASSUME NEW p \in Unused,
               NEW s \in {"working"} \cup (IF "reject" \in Faults THEN {"inactive"} ELSE {}),
               order' = [order EXCEPT ![p] = NewTicket(s, "exit", curRow)], TrackExit(p)
        PROVE  ExitTrackerMoved(o)
    <3>1. CASE p = o
      <4>1. order[o].state = "unused" /\ order'[o] = NewTicket(s, "exit", curRow)
        BY <2>2, <3>1 DEF Unused, TypeOK
      <4> QED
        BY <1>6, <2>2, <3>1, <4>1 DEF ExitTrackerMoved, ExitPlaced
    <3> QED
      BY <2>1, <2>2, <3>1 DEF Unused
  <2> QED
    BY <1>6, <2>1, <2>2, SentinelAssumption DEF PlaceExit
<1>7. CASE Crash
  BY <1>7 DEF Crash, ExitTrackerMoved
<1>10. CASE PollStep
  BY <1>1, <1>3, <1>4, <1>10 DEF PollStep, PollInactive, TickBegin, PollEntriesDone, PollExitsDone,
     PollEntry, PollEntryFails, OnFillConfirmed, OnEntryCancelled, StillUnknown, Forget, trackers
<1>11. CASE TimeoutStep
  BY <1>1, <1>5, <1>11 DEF TimeoutStep, EntryTimeoutsDone, ExitTimeoutsDone, TimeoutEntry,
     TimeoutEntryFails, Forget, trackers
<1>12. CASE ExitStep
  BY <1>1, <1>6, <1>12 DEF ExitStep, EodSweep, EodDone, ExitsDone, ExitNotChecked,
     ExitCheckFails, ExitCheck, trackers
<1>13. CASE EntryStep
  BY <1>1, <1>13 DEF EntryStep, NoEntry, WriteEntry, EntryAccepted, EntryRefused, RecordEntry,
     trackers
<1>14. CASE ProcessStep
  BY <1>1, <1>7, <1>14 DEF ProcessStep, Restart, StartupSync, trackers
<1>15. CASE BrokerStep
  BY <1>1, <1>15 DEF BrokerStep, MarketClose, Settle, CloseInTws, Age, Fill, CancelByBroker,
     RejectByBroker, ExecuteLate, engine
<1> QED
  BY <1>1, <1>10, <1>11, <1>12, <1>13, <1>14, <1>15 DEF Next, vars, trackers

-----------------------------------------------------------------------------
(* The rows.                                                               *)

(* What changes the status of a row: the insert of an entry, or its        *)
(* refusal; the poller or a timeout, for the order that the row awaits;    *)
(* the sweep; the reconcile at a start.                                    *)
RowCause(r) ==
    \/ book'[r].status = book[r].status
    \/ \E s \in Spread : WriteEntry(r, s)
    \/ EntryRefused /\ r = curRow
    \/ \E o \in Order : /\ PollEntry(o) /\ pendingEntries[o] = r
                        /\ OnFillConfirmed(o) \/ OnEntryCancelled(o)
    \/ \E o \in Order : TimeoutEntry(o) /\ pendingEntries[o] = r
    \/ \E o \in Order : PollExit(o) /\ pendingExits[o] = r /\ OnCloseConfirmed(o)
    \/ EodSweep /\ book[r].status \in Active /\ book'[r].status = "expired"
    \/ StartupSync /\ ReconcileStore

(* Nothing else changes it.                                                *)
LEMMA RowCauseStep ==
    ASSUME IInv, [Next]_vars, NEW r \in Row
    PROVE  RowCause(r)
<1> USE DEF IInv
<1>0. book[r] \in BookRow
  BY DEF TypeOK
<1>1. ASSUME book'[r].status = book[r].status PROVE RowCause(r)
  BY <1>1 DEF RowCause
<1>2. ASSUME NEW o \in Order, PollEntry(o) PROVE RowCause(r)
  <2>1. pendingEntries[o] \in Row
    BY <1>2 DEF PollEntry, ControlInv, PendingEntryIds, TypeOK
  <2>2. CASE OnFillConfirmed(o)
    <3>1. r # pendingEntries[o] => book'[r] = book[r]
      BY <2>1, <2>2, WriteBothEffect DEF OnFillConfirmed
    <3> QED
      BY <1>1, <1>2, <2>2, <3>1 DEF RowCause
  <2>3. CASE OnEntryCancelled(o)
    <3>1. r # pendingEntries[o] => book'[r] = book[r]
      BY <2>1, <2>3, RollbackEffect DEF OnEntryCancelled
    <3> QED
      BY <1>1, <1>2, <2>3, <3>1 DEF RowCause
  <2> QED
    BY <1>1, <1>2, <2>2, <2>3 DEF PollEntry, StillUnknown, store
<1>3. ASSUME NEW o \in Order, TimeoutEntry(o) PROVE RowCause(r)
  <2>1. pendingEntries[o] \in Row
    BY <1>3 DEF TimeoutEntry, ControlInv, PendingEntryIds, TypeOK
  <2>2. r # pendingEntries[o] => book'[r] = book[r]
    BY <1>3, <2>1, RollbackEffect DEF TimeoutEntry
  <2> QED
    BY <1>1, <1>3, <2>2 DEF RowCause
<1>4. ASSUME NEW o \in Order \cup {NoOrder}, PollExit(o) PROVE RowCause(r)
  <2>1. CASE OnCloseConfirmed(o) /\ o # NoOrder
    <3>1. r # pendingExits[o] => book'[r] = book[r]
      BY <2>1 DEF OnCloseConfirmed, TypeOK
    <3> QED
      BY <1>1, <1>4, <2>1, <3>1 DEF RowCause
  <2> QED
    BY <1>1, <1>4, <2>1 DEF PollExit, OnExitCancelled, StillUnknown, store
<1>5. CASE EodSweep
  <2>1. \/ book'[r] = book[r]
        \/ book[r].status \in Active /\ book'[r] = [book[r] EXCEPT !.status = "expired"]
    BY <1>5 DEF EodSweep, SweepRows, SweptStatus, store
  <2> QED
    BY <1>0, <1>1, <1>5, <2>1 DEF RowCause, BookRow
<1>6. ASSUME NEW q \in Row, ExitCheck(q) PROVE RowCause(r)
  BY <1>1, <1>6, WriteBothEffect DEF ExitCheck
<1>7. CASE EntryRefused
  <2>1. r # curRow => book'[r] = book[r]
    BY <1>7, RollbackEffect DEF EntryRefused, ControlInv
  <2> QED
    BY <1>1, <1>7, <2>1 DEF RowCause
<1>8. CASE RecordEntry
  <2>1. book'[r] \in {book[r], [book[r] EXCEPT !.order = curOrder]}
    BY <1>8 DEF RecordEntry, TypeOK
  <2> QED
    BY <1>0, <1>1, <2>1 DEF BookRow
<1>9. ASSUME NEW q \in Row, NEW s \in Spread, WriteEntry(q, s) PROVE RowCause(r)
  <2>1. r # q => book'[r] = book[r]
    BY <1>9 DEF WriteEntry, TypeOK
  <2> QED
    BY <1>1, <1>9, <2>1 DEF RowCause
<1>10. CASE PollStep
  BY <1>1, <1>2, <1>4, <1>10 DEF PollStep, PollInactive, TickBegin, PollEntriesDone, PollExitsDone,
     PollEntryFails, PollExitFails, store
<1>11. CASE TimeoutStep
  BY <1>1, <1>3, <1>11 DEF TimeoutStep, EntryTimeoutsDone, ExitTimeoutsDone, TimeoutExit,
     TimeoutEntryFails, store
<1>12. CASE ExitStep
  BY <1>1, <1>5, <1>6, <1>12 DEF ExitStep, EodDone, PlaceExit, ExitsDone, ExitNotChecked,
     ExitCheckFails, store
<1>13. CASE EntryStep
  BY <1>1, <1>7, <1>8, <1>9, <1>13 DEF EntryStep, NoEntry, EntryAccepted, store
<1>14. CASE ProcessStep
  BY <1>1, <1>14 DEF ProcessStep, Crash, Restart, StartupSync, store, RowCause
<1>15. CASE BrokerStep
  BY <1>1, <1>15 DEF BrokerStep, MarketClose, Settle, CloseInTws, Age, Fill, CancelByBroker,
     RejectByBroker, ExecuteLate, engine, store
<1> QED
  BY <1>1, <1>10, <1>11, <1>12, <1>13, <1>14, <1>15 DEF Next, vars, store

-----------------------------------------------------------------------------
(* No order is lost sight of.                                              *)

NoneQueued == \A o \in Order : order[o].state # "queued"

TInv == RInv /\ NoneQueued /\ LiveOrdersTracked

(* A cancel that gets through leaves no working order.                     *)
LEMMA CancelStops ==
    ASSUME TypeOK, NEW o \in Order, CancelOrder(o), "lost" \notin Faults
    PROVE  order'[o].state # "working"
<1>1. order[o] \in Ticket /\ o # NoOrder
  BY SentinelAssumption DEF TypeOK
<1>2. CASE order' = [order EXCEPT ![o].state = "cancelling"]
  <2>1. order'[o] = [order[o] EXCEPT !.state = "cancelling"]
    BY <1>2 DEF TypeOK
  <2> QED
    BY <1>1, <2>1 DEF Ticket
<1> QED
  BY <1>1, <1>2 DEF CancelOrder

(* An order waits in the client's queue only after a placement timed out.  *)
LEMMA QueueStep ==
    ASSUME IInv, [Next]_vars, NoneQueued, "late" \notin Faults
    PROVE  NoneQueued'
<1> SUFFICES ASSUME NEW o \in Order PROVE order'[o].state # "queued"
  BY DEF NoneQueued
<1>0. order[o] \in Ticket /\ order[o].state # "queued"
  BY DEF IInv, TypeOK, NoneQueued
<1>1. CASE OrderTurned(o)
  BY <1>0, <1>1 DEF OrderTurned, Ticket
<1>2. CASE Fill(o)
  <2>1. order'[o].state \in {"filled", order[o].state}
    BY <1>2, FillEffect DEF IInv
  <2> QED
    BY <1>0, <2>1
<1>3. CASE OrderPlaced(o)
  <2>1. \A s, side : NewTicket(s, side, curRow).state = s
    BY DEF NewTicket
  <2> QED
    BY <1>3, <2>1 DEF OrderPlaced, ExitPlaced
<1> QED
  BY <1>0, <1>1, <1>2, <1>3, OrderStep DEF OrderMoved

(* While the process lives, placements do not time out and cancels get     *)
(* through, a step loses sight of no order.                                *)
LEMMA TrackedStep ==
    ASSUME TInv, [Next]_vars, Faults \cap {"crash", "late", "lost"} = {}
    PROVE  NoneQueued' /\ LiveOrdersTracked'
<1> USE DEF TInv, RInv, IInv
<1>0. ~Crash
  BY DEF Crash
<1>1. NoneQueued'
  BY QueueStep
<1>2. ASSUME NEW o \in Order, order'[o].state = "working", order[o].state = "working",
             order'[o].side = order[o].side, order[o].side = "entry"
      PROVE  pendingEntries'[o] # NoRow \/ curOrder' = o
  <2>0. ~CancelOrder(o)
    BY <1>2, CancelStops
  <2>1. CASE pendingEntries[o] # NoRow
    <3>1. EntryTrackerMoved(o)
      BY <2>1, EntryTrackerStep
    <3>2. CASE RecordEntry /\ o = curOrder
      BY <3>2, SentinelAssumption DEF RecordEntry, ControlInv, TypeOK
    <3> QED
      BY <1>0, <1>2, <2>0, <2>1, <3>1, <3>2 DEF EntryTrackerMoved, TimeoutEntry,
         TimeoutEntryFails
  <2>2. CASE curOrder = o
    <3>1. pc = "recordEntry"
      BY <2>2, SentinelAssumption DEF OrdersRecorded
    <3>2. CASE RecordEntry
      BY <2>2, <3>1, <3>2, SentinelAssumption DEF RecordEntry, ControlInv, TypeOK
    <3> QED
      BY <1>0, <2>2, <3>1, <3>2, InHandStep DEF InHandMoved, EntryAccepted
  <2> QED
    BY <1>2, <2>1, <2>2 DEF LiveOrdersTracked
<1>3. ASSUME NEW o \in Order, order'[o].state = "working", order[o].state = "working",
             order[o].side # "entry"
      PROVE  pendingExits'[o] # NoRow
  <2>1. pendingExits[o] # NoRow
    BY <1>3 DEF LiveOrdersTracked
  <2> QED
    <3>1. ~TimeoutExit(o)
      BY <1>3, CancelStops DEF TimeoutExit
    <3>2. ExitPlaced(o) => pendingExits'[o] # NoRow
      BY SentinelAssumption DEF ExitPlaced, PlaceExit, ControlInv, TrackExit, TypeOK
    <3> QED
      BY <1>0, <1>3, <2>1, <3>1, <3>2, ExitTrackerStep DEF ExitTrackerMoved
<1>4. LiveOrdersTracked'
  <2> SUFFICES ASSUME NEW o \in Order, order'[o].state = "working"
               PROVE  IF order'[o].side = "entry"
                      THEN pendingEntries'[o] # NoRow \/ curOrder' = o
                      ELSE pendingExits'[o] # NoRow
    BY DEF LiveOrdersTracked
  <2>1. CASE order[o].state \in {"working", "queued"}
    <3>1. order[o].state = "working" /\ order'[o].side = order[o].side
      BY <2>1, OrderKept DEF NoneQueued
    <3> QED
      BY <1>2, <1>3, <2>1, <3>1
  <2>2. CASE EntryAccepted(o) /\ order'[o] = NewTicket("working", "entry", curRow)
    <3>1. order'[o].side = "entry" /\ curOrder' = o
      BY <2>2 DEF EntryAccepted, NewTicket
    <3> QED
      BY <3>1
  <2>3. CASE ExitPlaced(o) /\ order'[o] = NewTicket("working", "exit", curRow)
    <3>1. order'[o].side = "exit"
      BY <2>3 DEF NewTicket
    <3>2. curRow # NoRow /\ pendingExits'[o] = curRow
      BY <2>3, SentinelAssumption DEF ExitPlaced, PlaceExit, ControlInv, TrackExit, TypeOK
    <3> QED
      BY <3>1, <3>2
  <2> QED
    BY <2>1, <2>2, <2>3, WorkStep DEF StartsToWork
<1> QED
  BY <1>1, <1>4

(* An order that works at IBKR is in a tracker, or in hand, whatever is    *)
(* rejected, traded in TWS, unresolved for long, or lost on the database:  *)
(* no order goes on working unseen while the process lives, placements do  *)
(* not time out and cancels get through.                                   *)
THEOREM OrdersTracked ==
    ASSUME Faults \cap {"crash", "late", "lost"} = {}
    PROVE  Spec => []LiveOrdersTracked
<1>1. Init => NoneQueued /\ LiveOrdersTracked
  BY DEF Init, NoTicket, NoneQueued, LiveOrdersTracked
<1>2. TInv /\ RInv' /\ [Next]_vars => TInv'
  BY TrackedStep DEF TInv
<1>3. TInv => LiveOrdersTracked
  BY DEF TInv
<1>4. RInv /\ NoneQueued /\ LiveOrdersTracked => TInv
  BY DEF TInv
<1> QED
  BY <1>1, <1>2, <1>3, <1>4, Recorded, PTL DEF Spec

-----------------------------------------------------------------------------
(* No row waits for an entry that nobody awaits.                           *)

(* The row of an entry is awaited from its insert to the record of its     *)
(* order by the step in hand, and from then on by a tracker.               *)
InHand(r) == pc \in {"placeEntry", "recordEntry"} /\ curRow = r
Awaited(r) == (\E o \in Order : pendingEntries[o] = r) \/ InHand(r)
AllAwaited == \A r \in Row : book[r].status = "pending_open" => Awaited(r)

WInv == RInv /\ AllAwaited

(* A row that becomes pending_open is the one of the entry in hand.        *)
LEMMA PendingRowStep ==
    ASSUME IInv, [Next]_vars, NEW r \in Row, book'[r].status = "pending_open"
    PROVE  book[r].status = "pending_open" \/ (\E s \in Spread : WriteEntry(r, s))
<1> USE DEF IInv
<1> SUFFICES ASSUME book[r].status # "pending_open" PROVE \E s \in Spread : WriteEntry(r, s)
  OBVIOUS
<1>1. book[r].status = "none"
  BY RowStep DEF RowMoved, Legal
<1>2. ASSUME NEW o \in Order, pendingEntries[o] = r PROVE FALSE
  BY <1>1, <1>2, SentinelAssumption DEF Agreement, PendingEntryBacked, PendingEntryIds
<1>3. ASSUME NEW o \in Order, pendingExits[o] = r PROVE FALSE
  BY <1>1, <1>3, SentinelAssumption DEF Agreement, PendingExitBacked, PendingExitIds
<1>4. ~(StartupSync /\ ReconcileStore)
  <2> SUFFICES ASSUME StartupSync, ReconcileStore PROVE FALSE
    OBVIOUS
  <2>1. PICK new \in OrphanRows : book' = [q \in Row |-> SyncedRow(q, new)]
    BY DEF ReconcileStore
  <2>2. pc # "down"
    BY DEF StartupSync
  <2> QED
    BY <1>1, <2>1, <2>2, SyncedRowFacts
<1>5. ~(EntryRefused /\ r = curRow)
  BY <1>1 DEF EntryRefused, ControlInv
<1> QED
  BY <1>1, <1>2, <1>3, <1>4, <1>5, RowCauseStep DEF RowCause, Active

(* While the process lives and positions.db can be opened, a step leaves   *)
(* no pending row behind.                                                  *)
LEMMA AwaitedStep ==
    ASSUME WInv, [Next]_vars, Faults \cap {"crash", "db"} = {}
    PROVE  AllAwaited'
<1> USE DEF WInv, RInv, IInv
<1> SUFFICES ASSUME NEW r \in Row, book'[r].status = "pending_open"
             PROVE  Awaited(r)'
  BY DEF AllAwaited
<1>0. ~Crash
  BY DEF Crash
<1>1. ASSUME NEW s \in Spread, WriteEntry(r, s) PROVE Awaited(r)'
  BY <1>1 DEF WriteEntry, Awaited, InHand
<1>2. CASE \E o \in Order : pendingEntries[o] = r /\ book[r].status = "pending_open"
  <2>1. PICK o \in Order : pendingEntries[o] = r
    BY <1>2
  <2>2. o \in PendingEntryIds /\ o # NoOrder /\ r # NoRow
    BY <2>1, SentinelAssumption DEF PendingEntryIds
  <2>3. book[r].order = o
    BY <2>1, <2>2 DEF Agreement, PendingEntryBacked
  <2>4. ~(RecordEntry /\ o = curOrder)
    BY <2>3 DEF OrdersRecorded, RecordEntry
  <2>5. ~Decided(r)
    BY DEF Decided
  <2>7. EntryTrackerMoved(o)
    BY <2>1, <2>2, EntryTrackerStep
  <2>8. pendingEntries'[o] = r
    BY <1>0, <2>1, <2>4, <2>5, <2>7 DEF EntryTrackerMoved
  <2> QED
    BY <2>8 DEF Awaited
<1>3. CASE InHand(r) /\ book[r].status = "pending_open"
  <2>1. CASE RecordEntry
    <3>1. curOrder \in Order /\ pendingEntries'[curOrder] = r
      BY <1>3, <2>1 DEF RecordEntry, ControlInv, InHand, TypeOK
    <3> QED
      BY <3>1 DEF Awaited
  <2>2. ~EntryRefused
    <3> SUFFICES ASSUME Rollback(r) PROVE FALSE
      BY <1>3 DEF EntryRefused, InHand
    <3> QED
      BY RollbackEffect
  <2>3. ASSUME NEW s \in Spread, WriteEntry(curRow', s) PROVE FALSE
    BY <1>3, <2>3 DEF WriteEntry, InHand
  <2>4. ASSUME NEW o \in Order, EntryAccepted(o) PROVE InHand(r)'
    BY <1>3, <2>4 DEF EntryAccepted, InHand
  <2>5. CASE UNCHANGED <<pc, curRow, curOrder>>
    BY <1>3, <2>5 DEF InHand, Awaited
  <2> QED
    BY <1>0, <1>3, <2>1, <2>2, <2>3, <2>4, <2>5, InHandStep DEF InHandMoved, InHand, Awaited
<1> QED
  BY <1>1, <1>2, <1>3, PendingRowStep DEF AllAwaited, Awaited

(* Between two ticks every row that awaits its entry is awaited by a       *)
(* tracker, whatever the orders do, IBKR loses, rejects or delays: no path *)
(* of a tick leaves a pending row behind while the process lives and the   *)
(* database can be opened.                                                 *)
THEOREM RowsAwaited ==
    ASSUME Faults \cap {"crash", "db"} = {}
    PROVE  Spec => []AwaitedRowsTracked
<1>1. Init => AllAwaited
  BY DEF Init, BlankRow, AllAwaited
<1>2. WInv /\ RInv' /\ [Next]_vars => WInv'
  BY AwaitedStep DEF WInv
<1>3. WInv => AwaitedRowsTracked
  BY DEF WInv, AllAwaited, Awaited, InHand, AwaitedRowsTracked
<1>4. RInv /\ AllAwaited => WInv
  BY DEF WInv
<1> QED
  BY <1>1, <1>2, <1>3, <1>4, Recorded, PTL DEF Spec
=============================================================================
