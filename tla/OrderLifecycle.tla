--------------------------- MODULE OrderLifecycle ---------------------------
(***************************************************************************)
(* The live order lifecycle of the trader engine (src/engine.py): the      *)
(* tick loop with its pending-order trackers, the positions database, the  *)
(* position list it keeps in memory, and the IBKR account those three are  *)
(* meant to mirror.                                                        *)
(*                                                                         *)
(* The engine is one thread; everything it asks of IBKR is a call that     *)
(* takes time, so the account moves between any two of its steps.  A step  *)
(* of this module is what the engine does between two such calls: one      *)
(* order polled, one position checked, one order placed.  The control      *)
(* state pc names where in tick() the thread is.                           *)
(*                                                                         *)
(* Bounds: Row and Order are finite, a row id and an order id are used     *)
(* once; when no unused order id is left the engine places no order.  One  *)
(* trading day is modelled, up to the settlement of its 0DTE options.      *)
(***************************************************************************)
EXTENDS Integers

CONSTANTS
    Row,        \* ids of rows of positions.db (AUTOINCREMENT, never reused)
    Order,      \* IBKR order ids
    Spread,     \* side and strikes of a spread; two spreads share no leg
    NoRow,      \* "no row"
    NoOrder,    \* None as an order id
    NoSpread,   \* the spread of an unused row or order
    Lots,       \* entry.contracts_per_trade
    Faults      \* the misbehaviours of the environment that a run allows

(* crash   the process dies; the watchdog starts it again                  *)
(* slow    an order may stay unresolved beyond PENDING_TIMEOUT_SECONDS     *)
(* late    a placement times out in the client and executes afterwards     *)
(* reject  IBKR refuses an exit, or turns an order Inactive after having   *)
(*         acknowledged it                                                 *)
(* lost    a query or a cancel fails, so that the caller learns nothing    *)
(* manual  somebody closes lots in TWS                                     *)
(* db      positions.db cannot be opened (macOS' file limit, a lock) when  *)
(*         a resolved order is booked, a position synced, or a day swept   *)
FaultKind == {"crash", "slow", "late", "reject", "lost", "manual", "db"}

ASSUME LotsAssumption == Lots \in Nat \ {0}
ASSUME FaultsAssumption == Faults \subseteq FaultKind
ASSUME SentinelAssumption ==
    NoRow \notin Row /\ NoOrder \notin Order /\ NoSpread \notin Spread
ASSUME DisjointAssumption ==    \* todo holds rows or order ids
    Row \cap (Order \cup {NoOrder}) = {}

VARIABLES
    book,           \* positions.db, row by row
    memory,         \* PositionStore._positions, by the row of its objects
    pendingEntries, \* _pending_entries: order id -> row
    pendingExits,   \* _pending_exits: order id or None -> row
    aged,           \* trackers older than PENDING_TIMEOUT_SECONDS
    pc,             \* where in tick() the engine is
    todo,           \* what the loop the engine is in has still to visit
    curRow,         \* the row whose order is being placed
    curOrder,       \* the entry order placed but not yet recorded
    eodDone,        \* today is in _eod_expiry_done
    order,          \* IBKR: every order, by id
    held,           \* IBKR: the lots of each spread in the account
    day             \* session, then afterHours (16:00 ET), then settled

trackers == <<pendingEntries, pendingExits, aged>>
control  == <<todo, curRow, curOrder, eodDone>>
store    == <<book, memory>>
broker   == <<order, held, day>>
vars     == <<store, trackers, pc, control, broker>>

Status == {"none", "pending_open", "open", "closed", "expired", "deleted"}
Active == {"pending_open", "open"}
OrderState == {"unused", "queued", "working", "cancelling",
               "filled", "cancelled", "inactive"}

BookRow == [status: Status, spread: Spread \cup {NoSpread}, lots: Nat,
            order: Order \cup {NoOrder}, dated: BOOLEAN]
Object  == [copies: 0..2, status: Active \cup {"none"}, lots: Nat]
Ticket  == [state: OrderState, side: {"none", "entry", "exit"},
            spread: Spread \cup {NoSpread}, qty: Nat, filled: Nat]

late == day # "session"

BlankRow  == [status |-> "none", spread |-> NoSpread, lots |-> 0,
              order |-> NoOrder, dated |-> FALSE]
Absent    == [copies |-> 0, status |-> "none", lots |-> 0]
NoTicket  == [state |-> "unused", side |-> "none", spread |-> NoSpread,
              qty |-> 0, filled |-> 0]

Init ==
    /\ book = [r \in Row |-> BlankRow]
    /\ memory = [r \in Row |-> Absent]
    /\ pendingEntries = [o \in Order |-> NoRow]
    /\ pendingExits = [o \in Order \cup {NoOrder} |-> NoRow]
    /\ aged = {}
    /\ pc = "idle" /\ todo = {} /\ curRow = NoRow /\ curOrder = NoOrder
    /\ eodDone = FALSE
    /\ order = [o \in Order |-> NoTicket]
    /\ held = [s \in Spread |-> 0]
    /\ day = "session"

-----------------------------------------------------------------------------
(* The store.                                                              *)

InMemory(r) == memory[r].copies > 0
OpenInMemory == {r \in Row : InMemory(r) /\ memory[r].status = "open"}
Fresh == {r \in Row : book[r].status = "none"}
Unused == {o \in Order : order[o].state = "unused"}

(* load_open(): one new object per active row.                             *)
Loaded(b) ==
    [r \in Row |-> IF b[r].status \in Active
                   THEN [copies |-> 1, status |-> b[r].status, lots |-> b[r].lots]
                   ELSE Absent]

Rollback_ListOnly(r) ==
    /\ memory' = [memory EXCEPT ![r] = Absent]
    /\ UNCHANGED book
(* rollback_position() and the list filters that follow it.                *)
Rollback(r) ==
    /\ book' = [book EXCEPT ![r].status = "deleted"]
    /\ memory' = [memory EXCEPT ![r] = Absent]

(* A status and a lot count written to the row and to its object.          *)
WriteBoth(r, status, lots) ==
    /\ book' = [book EXCEPT ![r].status = status, ![r].lots = lots]
    /\ memory' = IF InMemory(r)
                 THEN [memory EXCEPT ![r].status = status, ![r].lots = lots]
                 ELSE memory

HeldLots_NoAbs(s) == held[s]
(* The size of a spread's short leg as reqPositions() reports it.          *)
HeldLots(s) == IF held[s] >= 0 THEN held[s] ELSE -held[s]

Forget(o) ==
    /\ pendingEntries' = [pendingEntries EXCEPT ![o] = NoRow]
    /\ aged' = aged \ {o}
    /\ UNCHANGED pendingExits
ForgetExit(o) ==
    /\ pendingExits' = [pendingExits EXCEPT ![o] = NoRow]
    /\ aged' = aged \ {o}
    /\ UNCHANGED pendingEntries

-----------------------------------------------------------------------------
(* Reconciliation, _sync_positions_with_ibkr().  Only run() gets to it, at *)
(* start-up: the trackers are empty, and the list was just loaded, so that *)
(* every object is in it once.  It reads the account once, and the legs of *)
(* a spread are claimed by the one active row of that spread               *)
(* (OneActiveRowPerSpread), so each pass is a set of rows.                 *)

Claims(s) == {r \in Row : InMemory(r) /\ book[r].spread = s}

(* Pass 0: pending rows whose legs are in the account.                     *)
Promoted == {r \in Row : /\ InMemory(r) /\ memory[r].status = "pending_open"
                         /\ HeldLots(book[r].spread) > 0}

(* _promote_pending_fill(); no tracker is left for it to drop.             *)
PromotedRow(r) ==
    [book[r] EXCEPT !.status = "open", !.lots = HeldLots(book[r].spread)]

(* Pass 1: open rows whose short leg is gone.                              *)
Vanished == {r \in OpenInMemory : HeldLots(book[r].spread) = 0}

(* Pass 2: short and long legs that no listed row has claimed.             *)
Orphaned == {s \in Spread : held[s] > 0 /\ Claims(s) = {}}

(* The rows that Pass 2 inserts.  UNIQUE(task_id, ticker, open_time) with  *)
(* a one-second open_time drops every orphan after the first of a second.  *)
OrphanRows ==
    {new \in [Fresh -> Orphaned \cup {NoSpread}] :
        /\ \A r, q \in Fresh : new[r] = new[q] /\ new[r] # NoSpread => r = q
        /\ Fresh # {} /\ Orphaned # {} => \E r \in Fresh : new[r] # NoSpread}

SyncedRow(r, new) ==
    CASE r \in Promoted -> PromotedRow(r)
      [] r \in Vanished -> [book[r] EXCEPT !.status = "expired"]
      [] r \in OpenInMemory \ Vanished ->
           [book[r] EXCEPT !.lots = HeldLots(book[r].spread)]
      [] r \in Fresh /\ new[r] # NoSpread ->
           [status |-> "open", spread |-> new[r], lots |-> held[new[r]],
            order |-> NoOrder, dated |-> FALSE]
      [] OTHER -> book[r]

ReconcileStore ==
    /\ \E new \in OrphanRows : book' = [r \in Row |-> SyncedRow(r, new)]
    /\ memory' = Loaded(book')

-----------------------------------------------------------------------------
(* Polling, _poll_pending_orders(): the entries known when the loop        *)
(* starts, then the exits.  "lost" is an order that neither query finds.   *)

PendingEntryIds == {o \in Order : pendingEntries[o] # NoRow}
PendingExitIds == {o \in Order \cup {NoOrder} : pendingExits[o] # NoRow}

TickBegin ==
    /\ pc = "idle"
    /\ pc' = "pollEntries" /\ todo' = PendingEntryIds
    /\ UNCHANGED <<store, trackers, curRow, curOrder, eodDone, broker>>

(* _on_fill_confirmed(): the row is updated whatever its status is.        *)
OnFillConfirmed(o) ==
    /\ order[o].state = "filled"
    /\ WriteBoth(pendingEntries[o], "open", order[o].filled)
    /\ Forget(o)

OnEntryCancelled_Tracked(o) ==
    /\ order[o].state = "cancelled"
    /\ Rollback(pendingEntries[o])
    /\ UNCHANGED trackers
(* _on_order_cancelled() for an entry.                                     *)
OnEntryCancelled(o) ==
    /\ order[o].state = "cancelled"
    /\ Rollback(pendingEntries[o])
    /\ Forget(o)

StillUnknown(o) ==
    /\ o # NoOrder /\ "lost" \notin Faults => order[o].state \in {"working", "cancelling"}
    /\ UNCHANGED <<store, trackers>>

PollEntry(o) ==
    /\ pc = "pollEntries" /\ o \in todo
    /\ todo' = todo \ {o}
    /\ OnFillConfirmed(o) \/ OnEntryCancelled(o) \/ StillUnknown(o)
    /\ UNCHANGED <<pc, curRow, curOrder, eodDone, broker>>

(* The handlers drop the tracker before they open the database: when that  *)
(* fails the row stays as it was and the tick ends.                        *)
PollEntryFails(o) ==
    /\ pc = "pollEntries" /\ o \in todo /\ "db" \in Faults
    /\ order[o].state \in {"filled", "cancelled"}
    /\ Forget(o)
    /\ pc' = "idle" /\ todo' = {}
    /\ UNCHANGED <<store, curRow, curOrder, eodDone, broker>>

(* An Inactive order is to be handed to _on_entry_rejected() or            *)
(* _on_close_rejected().  Their arguments are taken from the fields        *)
(* errorCode and errorMessage of the order's status, which has no such     *)
(* fields: an AttributeError ends the tick before either handler runs.     *)
PollInactive(o) ==
    /\ pc \in {"pollEntries", "pollExits"} /\ o \in todo
    /\ order[o].state = "inactive"
    /\ pc' = "idle" /\ todo' = {}
    /\ UNCHANGED <<store, trackers, curRow, curOrder, eodDone, broker>>

PollEntriesDone ==
    /\ pc = "pollEntries" /\ todo = {}
    /\ pc' = "pollExits" /\ todo' = PendingExitIds
    /\ UNCHANGED <<store, trackers, curRow, curOrder, eodDone, broker>>

OnCloseConfirmed_OnCancel(o) ==
    /\ order[o].state \in {"filled", "cancelled"}
    /\ book' = [book EXCEPT ![pendingExits[o]].status = "closed"]
    /\ memory' = [memory EXCEPT ![pendingExits[o]] = Absent]
    /\ ForgetExit(o)
OnCloseConfirmed_BookOnly(o) ==
    /\ order[o].state = "filled"
    /\ book' = [book EXCEPT ![pendingExits[o]].status = "closed"]
    /\ ForgetExit(o)
    /\ UNCHANGED memory
(* _on_close_confirmed(): close_position() whatever the row's status is.   *)
OnCloseConfirmed(o) ==
    /\ order[o].state = "filled"
    /\ book' = [book EXCEPT ![pendingExits[o]].status = "closed"]
    /\ memory' = [memory EXCEPT ![pendingExits[o]] = Absent]
    /\ ForgetExit(o)

(* _on_order_cancelled() for an exit: the position stays as it is.         *)
OnExitCancelled(o) ==
    /\ order[o].state = "cancelled"
    /\ ForgetExit(o)
    /\ UNCHANGED store

PollExit(o) ==
    /\ pc = "pollExits" /\ o \in todo
    /\ todo' = todo \ {o}
    /\ \/ o # NoOrder /\ (OnCloseConfirmed(o) \/ OnExitCancelled(o))
       \/ StillUnknown(o)
    /\ UNCHANGED <<pc, curRow, curOrder, eodDone, broker>>

PollExitFails(o) ==
    /\ pc = "pollExits" /\ o \in todo /\ "db" \in Faults
    /\ o # NoOrder /\ order[o].state = "filled"
    /\ ForgetExit(o)
    /\ pc' = "idle" /\ todo' = {}
    /\ UNCHANGED <<store, curRow, curOrder, eodDone, broker>>

PollExitsDone ==
    /\ pc = "pollExits" /\ todo = {}
    /\ pc' = "entryTimeouts" /\ todo' = aged \cap PendingEntryIds
    /\ UNCHANGED <<store, trackers, curRow, curOrder, eodDone, broker>>

-----------------------------------------------------------------------------
(* Timeouts, _check_pending_timeouts().                                    *)

CancelOrder_Skipped(o) == UNCHANGED order
(* cancel_order(): the request reaches IBKR if the order still works; its  *)
(* result is not looked at.                                                *)
CancelOrder(o) ==
    \/ /\ o # NoOrder /\ order[o].state = "working"
       /\ order' = [order EXCEPT ![o].state = "cancelling"]
    \/ /\ o # NoOrder /\ "lost" \notin Faults => order[o].state # "working"
       /\ UNCHANGED order

TimeoutEntry(o) ==
    /\ pc = "entryTimeouts" /\ o \in todo
    /\ todo' = todo \ {o}
    /\ Forget(o)
    /\ CancelOrder(o)
    /\ Rollback(pendingEntries[o])
    /\ UNCHANGED <<pc, curRow, curOrder, eodDone, held, day>>

TimeoutEntryFails(o) ==
    /\ pc = "entryTimeouts" /\ o \in todo /\ "db" \in Faults
    /\ Forget(o)
    /\ CancelOrder(o)
    /\ pc' = "idle" /\ todo' = {}
    /\ UNCHANGED <<store, curRow, curOrder, eodDone, held, day>>

EntryTimeoutsDone ==
    /\ pc = "entryTimeouts" /\ todo = {}
    /\ pc' = "exitTimeouts" /\ todo' = aged \cap PendingExitIds
    /\ UNCHANGED <<store, trackers, curRow, curOrder, eodDone, broker>>

TimeoutExit_RaisesFirst(o) ==
    /\ pc = "exitTimeouts" /\ o \in todo
    /\ pc' = "idle" /\ todo' = {}
    /\ UNCHANGED <<store, trackers, curRow, curOrder, eodDone, broker>>
(* The status update names two functions the method never imports: after   *)
(* the cancel a NameError ends the tick.                                   *)
TimeoutExit(o) ==
    /\ pc = "exitTimeouts" /\ o \in todo
    /\ ForgetExit(o)
    /\ CancelOrder(o)
    /\ pc' = "idle" /\ todo' = {}
    /\ UNCHANGED <<store, curRow, curOrder, eodDone, held, day>>

(* Fresh data: on to the sweep.  Stale data: a second read finds some and  *)
(* tick processing goes on, or finds none and the tick ends.               *)
ExitTimeoutsDone ==
    /\ pc = "exitTimeouts" /\ todo = {}
    /\ \/ pc' = "eod" /\ todo' = {}
       \/ pc' = "exits" /\ todo' = OpenInMemory
       \/ pc' = "idle" /\ todo' = {}
    /\ UNCHANGED <<store, trackers, curRow, curOrder, eodDone, broker>>

-----------------------------------------------------------------------------
(* The end-of-day sweep, _close_expired_positions().                       *)

SweptStatus_AnyRow == Status \ {"none"}
SweptStatus == Active

(* Rows with an order_time of today; then load_open().                     *)
SweepRows ==
    /\ book' = [r \in Row |-> IF book[r].status \in SweptStatus /\ book[r].dated
                              THEN [book[r] EXCEPT !.status = "expired"]
                              ELSE book[r]]
    /\ memory' = Loaded(book')

EodSweep ==
    /\ pc = "eod" /\ late /\ ~eodDone
    /\ eodDone' = TRUE
    /\ \/ SweepRows
       \/ "db" \in Faults /\ UNCHANGED store
    /\ UNCHANGED <<pc, todo, curRow, curOrder, trackers, broker>>

(* The day gate may block entries, and with the market closed a blocked    *)
(* tick ends here.                                                         *)
EodDone ==
    /\ pc = "eod" /\ (late => eodDone)
    /\ \/ pc' = "exits" /\ todo' = OpenInMemory
       \/ late /\ pc' = "idle" /\ UNCHANGED todo
    /\ UNCHANGED <<store, trackers, curRow, curOrder, eodDone, broker>>

-----------------------------------------------------------------------------
(* Exit checks, _run_exit_checks() and _on_exit_checked().  A position     *)
(* listed twice is checked twice with the same data: the second check      *)
(* finds what the first one did and adds nothing.                          *)

HasPendingExit_Never(r) == FALSE
HasPendingExit(r) == \E o \in Order \cup {NoOrder} : pendingExits[o] = r

ExitNotChecked(r) ==
    /\ pc = "exits" /\ r \in todo
    /\ r \notin OpenInMemory \/ HasPendingExit(r) \/ HeldLots(book[r].spread) = 0
    /\ todo' = todo \ {r}
    /\ UNCHANGED <<store, trackers, pc, curRow, curOrder, eodDone, broker>>

(* The account query or the lot count's update raises: the tick ends.      *)
ExitCheckFails(r) ==
    /\ pc = "exits" /\ r \in todo /\ Faults \cap {"lost", "db"} # {}
    /\ r \in OpenInMemory /\ ~HasPendingExit(r)
    /\ pc' = "idle" /\ todo' = {}
    /\ UNCHANGED <<store, trackers, curRow, curOrder, eodDone, broker>>

(* The lot count follows the account; then evaluate_exit()'s decision.     *)
ExitCheck(r) ==
    /\ pc = "exits" /\ r \in todo
    /\ r \in OpenInMemory /\ ~HasPendingExit(r)
    /\ HeldLots(book[r].spread) > 0
    /\ WriteBoth(r, book[r].status, HeldLots(book[r].spread))
    /\ todo' = todo \ {r}
    /\ \/ UNCHANGED <<pc, curRow>>
       \/ Unused # {} /\ pc' = "placeExit" /\ curRow' = r
    /\ UNCHANGED <<trackers, curOrder, eodDone, broker>>

NewTicket(state, side, r) ==
    [state |-> state, side |-> side, spread |-> book[r].spread,
     qty |-> memory[r].lots, filled |-> 0]

(* Whatever place_order() returned is a pending exit, a rejection too; an  *)
(* exit with no order id is kept under None, over what was there.          *)
TrackExit(o) ==
    /\ pendingExits' = [pendingExits EXCEPT ![o] = curRow]
    /\ aged' = aged \ {o}
    /\ UNCHANGED pendingEntries

PlaceExit ==
    /\ pc = "placeExit"
    /\ \/ \E o \in Unused,
             s \in {"working"} \cup (IF "reject" \in Faults THEN {"inactive"} ELSE {}) :
            /\ order' = [order EXCEPT ![o] = NewTicket(s, "exit", curRow)]
            /\ TrackExit(o)
       \/ UNCHANGED order /\ TrackExit(NoOrder)
       \/ /\ "late" \in Faults
          /\ \E o \in Unused :
               order' = [order EXCEPT ![o] = NewTicket("queued", "exit", curRow)]
          /\ TrackExit(NoOrder)
    /\ pc' = "exits" /\ curRow' = NoRow
    /\ UNCHANGED <<store, todo, curOrder, eodDone, held, day>>

ExitsDone ==
    /\ pc = "exits" /\ todo = {}
    /\ pc' \in {"entry", "idle"}
    /\ UNCHANGED <<store, trackers, control, broker>>

-----------------------------------------------------------------------------
(* Entry, process_tick()'s second half and _on_enter_approved().           *)

NoCollision_OpenOnly(s) == \A r \in OpenInMemory : book[r].spread # s
(* check_strike_collision() over get_open_strikes().                       *)
NoCollision(s) == \A r \in Row : InMemory(r) => book[r].spread # s

NoEntry ==
    /\ pc = "entry" /\ pc' = "idle"
    /\ UNCHANGED <<store, trackers, control, broker>>

(* The object is appended by the engine and again by add_position().       *)
WriteEntry(r, s) ==
    /\ pc = "entry" /\ ~late
    /\ NoCollision(s)
    /\ r \in Fresh /\ Unused # {}
    /\ book' = [book EXCEPT ![r] = [status |-> "pending_open", spread |-> s,
                    lots |-> Lots, order |-> NoOrder, dated |-> TRUE]]
    /\ memory' = [memory EXCEPT ![r] =
                    [copies |-> 2, status |-> "pending_open", lots |-> Lots]]
    /\ pc' = "placeEntry" /\ curRow' = r
    /\ UNCHANGED <<trackers, todo, curOrder, eodDone, broker>>

EntryAccepted(o) ==
    /\ pc = "placeEntry" /\ o \in Unused
    /\ order' = [order EXCEPT ![o] = NewTicket("working", "entry", curRow)]
    /\ pc' = "recordEntry" /\ curOrder' = o
    /\ UNCHANGED <<store, trackers, todo, curRow, eodDone, held, day>>

(* Rejected at acknowledgement, refused by the client, or given up on      *)
(* after 20 s while the request is still in the client's queue.            *)
EntryRefused ==
    /\ pc = "placeEntry"
    /\ \/ UNCHANGED order
       \/ \E o \in Unused, s \in {"inactive"} \cup (IF "late" \in Faults
                                                    THEN {"queued"} ELSE {}) :
            order' = [order EXCEPT ![o] = NewTicket(s, "entry", curRow)]
    /\ Rollback(curRow)
    /\ pc' = "idle" /\ curRow' = NoRow
    /\ UNCHANGED <<trackers, todo, curOrder, eodDone, held, day>>

RecordEntry ==
    /\ pc = "recordEntry"
    /\ pendingEntries' = [pendingEntries EXCEPT ![curOrder] = curRow]
    /\ book' = [book EXCEPT ![curRow].order = curOrder]
    /\ pc' = "idle" /\ curRow' = NoRow /\ curOrder' = NoOrder
    /\ UNCHANGED <<memory, pendingExits, aged, todo, eodDone, broker>>

-----------------------------------------------------------------------------
(* Crash and restart.                                                      *)

Crash ==
    /\ "crash" \in Faults /\ pc # "down"
    /\ pc' = "down"
    /\ memory' = [r \in Row |-> Absent]
    /\ pendingEntries' = [o \in Order |-> NoRow]
    /\ pendingExits' = [o \in Order \cup {NoOrder} |-> NoRow]
    /\ aged' = {} /\ todo' = {} /\ curRow' = NoRow /\ curOrder' = NoOrder
    /\ eodDone' = FALSE
    /\ UNCHANGED <<book, broker>>

(* __init__: load_open(), then _recover_pending_orders(), whose query asks *)
(* for date(open_time) = date('now') of a column that holds a time of day: *)
(* it selects no row and recovers nothing.                                 *)
Restart ==
    /\ pc = "down"
    /\ pc' = "startup"
    /\ memory' = Loaded(book)
    /\ UNCHANGED <<book, trackers, control, broker>>

StartupSync ==
    /\ pc = "startup" /\ pc' = "idle"
    /\ ReconcileStore \/ (Faults \cap {"lost", "db"} # {} /\ UNCHANGED store)
    /\ UNCHANGED <<trackers, control, broker>>

-----------------------------------------------------------------------------
(* The clock and IBKR.                                                     *)

engine == <<store, pendingEntries, pendingExits, pc, control>>

(* Ten minutes pass over a pending order.                                  *)
Age(o) ==
    /\ "slow" \in Faults
    /\ o \in (PendingEntryIds \cup PendingExitIds) \ aged
    /\ aged' = aged \cup {o}
    /\ UNCHANGED <<engine, broker>>

MarketClose ==
    /\ day = "session" /\ day' = "afterHours"
    /\ UNCHANGED <<engine, aged, order, held>>

Fill(o) ==
    /\ day # "settled"
    /\ order[o].state \in {"working", "cancelling"}
    /\ order' = [order EXCEPT ![o].filled = @ + 1,
                    ![o].state = IF order[o].filled + 1 = order[o].qty
                                 THEN "filled" ELSE @]
    /\ held' = [held EXCEPT ![order[o].spread] =
                    IF order[o].side = "entry" THEN @ + 1 ELSE @ - 1]
    /\ UNCHANGED <<engine, aged, day>>

(* Cancelled on request, in TWS, or by IBKR.                               *)
CancelByBroker(o) ==
    /\ order[o].state \in {"working", "cancelling"}
    /\ order' = [order EXCEPT ![o].state = "cancelled"]
    /\ UNCHANGED <<engine, aged, held, day>>

RejectByBroker(o) ==
    /\ "reject" \in Faults
    /\ order[o].state = "working" /\ order[o].filled = 0
    /\ order' = [order EXCEPT ![o].state = "inactive"]
    /\ UNCHANGED <<engine, aged, held, day>>

(* The IB thread gets to a request whose caller has given up.              *)
ExecuteLate(o) ==
    /\ order[o].state = "queued"
    /\ order' = [order EXCEPT ![o].state = "working"]
    /\ UNCHANGED <<engine, aged, held, day>>

CloseInTws(s) ==
    /\ "manual" \in Faults /\ held[s] > 0
    /\ held' = [held EXCEPT ![s] = @ - 1]
    /\ UNCHANGED <<engine, aged, order, day>>

(* The options settle: DAY orders die, the account is flat, nothing fills. *)
Settle ==
    /\ day = "afterHours" /\ day' = "settled"
    /\ order' = [o \in Order |-> IF order[o].state \in {"queued", "working", "cancelling"}
                                 THEN [order[o] EXCEPT !.state = "cancelled"]
                                 ELSE order[o]]
    /\ held' = [s \in Spread |-> 0]
    /\ UNCHANGED <<engine, aged>>

-----------------------------------------------------------------------------

PollStep == TickBegin \/ PollEntriesDone \/ PollExitsDone
    \/ (\E o \in Order : PollEntry(o) \/ PollInactive(o) \/ PollEntryFails(o) \/ PollExitFails(o))
    \/ (\E o \in Order \cup {NoOrder} : PollExit(o))
TimeoutStep == EntryTimeoutsDone \/ ExitTimeoutsDone
    \/ (\E o \in Order : TimeoutEntry(o) \/ TimeoutEntryFails(o))
    \/ (\E o \in Order \cup {NoOrder} : TimeoutExit(o))
ExitStep == EodSweep \/ EodDone \/ PlaceExit \/ ExitsDone
    \/ (\E r \in Row : ExitNotChecked(r) \/ ExitCheckFails(r) \/ ExitCheck(r))
EntryStep == NoEntry \/ EntryRefused \/ RecordEntry
    \/ (\E r \in Row, s \in Spread : WriteEntry(r, s)) \/ (\E o \in Order : EntryAccepted(o))
ProcessStep == Crash \/ Restart \/ StartupSync
BrokerStep == MarketClose \/ Settle \/ (\E s \in Spread : CloseInTws(s))
    \/ (\E o \in Order \cup {NoOrder} : Age(o))
    \/ (\E o \in Order : Fill(o) \/ CancelByBroker(o) \/ RejectByBroker(o) \/ ExecuteLate(o))

Next == PollStep \/ TimeoutStep \/ ExitStep \/ EntryStep \/ ProcessStep \/ BrokerStep
Spec == Init /\ [][Next]_vars

(* Fairness: the loop of run() goes on ticking, a dead process is started  *)
(* again, and ten minutes pass.  IBKR owes the engine no fill, cancel or   *)
(* answer: every call comes back, as it has a time-out in the client.      *)
EngineStep == PollStep \/ TimeoutStep \/ ExitStep \/ EntryStep \/ Restart \/ StartupSync
Fairness == /\ WF_vars(EngineStep)
            /\ \A o \in Order \cup {NoOrder} : WF_vars(Age(o))
FairSpec == Spec /\ Fairness

-----------------------------------------------------------------------------
(* Types: every variable keeps the shape that the handlers rely on, a lot  *)
(* count is never negative, and an object is listed at most twice.         *)
TypeOK ==
    /\ book \in [Row -> BookRow]
    /\ memory \in [Row -> Object]
    /\ pendingEntries \in [Order -> Row \cup {NoRow}]
    /\ pendingExits \in [Order \cup {NoOrder} -> Row \cup {NoRow}]
    /\ aged \subseteq Order \cup {NoOrder}
    /\ pc \in {"idle", "pollEntries", "pollExits", "entryTimeouts", "exitTimeouts",
               "eod", "exits", "placeExit", "entry", "placeEntry", "recordEntry",
               "down", "startup"}
    /\ todo \subseteq Row \cup Order \cup {NoOrder}
    /\ curRow \in Row \cup {NoRow}
    /\ curOrder \in Order \cup {NoOrder}
    /\ eodDone \in BOOLEAN
    /\ order \in [Order -> Ticket]
    /\ held \in [Spread -> Int]
    /\ day \in {"session", "afterHours", "settled"}

(* A pending entry stands for its own pending_open row, whose order_id it  *)
(* is; only the end-of-day sweep takes the row from under it.  So a fill,  *)
(* a cancel or a timeout of an order always changes the row of that order, *)
(* and two orders never confirm or roll back the same row.                 *)
PendingEntryBacked ==
    \A o \in PendingEntryIds :
        LET b == book[pendingEntries[o]]
        IN  /\ b.order = o
            /\ b.status = "pending_open" \/ (eodDone /\ b.status = "expired")

(* A position has at most one pending exit, and that position is open; as  *)
(* with entries, only the end-of-day sweep takes it from under its exit.   *)
(* No exit is awaited for a pending, closed or deleted row                 *)
(* (_on_exit_checked's two guards).                                        *)
PendingExitBacked ==
    \A o \in PendingExitIds :
        /\ \/ book[pendingExits[o]].status = "open"
           \/ eodDone /\ book[pendingExits[o]].status = "expired"
        /\ \A p \in PendingExitIds : pendingExits[p] = pendingExits[o] => p = o

(* While the process runs, its list agrees with the database: a listed     *)
(* object has its row's status and lot count, and until the market closes  *)
(* every active row is listed, so it blocks its strikes and its exits are  *)
(* checked (PositionStore, the paths that filter or reload _positions).    *)
MemoryMirrorsBook ==
    pc # "down" =>
        \A r \in Row :
            /\ InMemory(r) => /\ memory[r].status = book[r].status
                              /\ memory[r].lots = book[r].lots
            /\ book[r].status \in Active /\ ~late => InMemory(r)

(* Until the market closes no two active rows are the same spread: neither *)
(* an entry nor an orphan inserted by a reconcile doubles a row that is    *)
(* pending or open (check_strike_collision, Pass 0 and Pass 1).            *)
OneActiveRowPerSpread ==
    ~late => \A r, q \in Row :
        /\ book[r].status \in Active /\ book[q].status \in Active
        /\ book[r].spread = book[q].spread
        => r = q

(* Seen as a ledger of rows alone, the database obeys PositionLedger: a    *)
(* closed or deleted row is final, an open row is never deleted, a row     *)
(* keeps its spread, an expired row is not reopened before the market has  *)
(* closed and no entry is written after it, and in the session two active  *)
(* rows differ in their spreads (the status updates of trades_db.py, which *)
(* name no prior status; position_store.py; _sync_positions_with_ibkr).    *)
Ledger == INSTANCE PositionLedger WITH
    status  <- [r \in Row |-> book[r].status],
    spread  <- [r \in Row |-> book[r].spread],
    session <- ~late
LedgerSpec == Ledger!Spec

(* As long as the process lives, placements do not time out and cancels    *)
(* get through, every order working at IBKR is in a tracker, or in hand:   *)
(* what the poller drops is dead, and what a time-out drops has been asked *)
(* to cancel, fills and failing databases in between notwithstanding.      *)
LiveOrdersTracked ==
    \A o \in Order : order[o].state = "working" =>
        IF order[o].side = "entry" THEN pendingEntries[o] # NoRow \/ curOrder = o
                                   ELSE pendingExits[o] # NoRow

(* Between two ticks every row that awaits its entry is awaited by a       *)
(* tracker, so the poller or the timeout will decide it: no path of a tick *)
(* leaves a pending_open row behind.  engine.py:317 says that this holds   *)
(* across restarts.                                                        *)
AwaitedRowsTracked ==
    pc = "idle" => \A r \in Row : book[r].status = "pending_open" =>
        \E o \in Order : pendingEntries[o] = r

(* The engine never sells a spread it does not hold: its closing orders    *)
(* together never exceed the lots in the account, rejected exits and       *)
(* failing databases included, as long as no order times out, no process   *)
(* dies and nobody trades in TWS.                                          *)
NoOversell == \A s \in Spread : held[s] >= 0

(* Under the same conditions, and if orders fill whole, lots in the        *)
(* account belong, until the market closes, to a row that is active: a row *)
(* is rolled back or closed only when IBKR holds nothing for it.  With     *)
(* half filled orders it fails: one that is cancelled loses its row        *)
(* (engine.py:897).                                                        *)
HoldingsBooked ==
    ~late => \A s \in Spread : held[s] # 0 =>
        \E r \in Row : book[r].status \in Active /\ book[r].spread = s

InactiveTracked ==
    \E o \in Order : /\ order[o].state = "inactive"
                     /\ pendingEntries[o] # NoRow \/ pendingExits[o] # NoRow

(* Every pending order is eventually confirmed, dropped or timed out,      *)
(* whatever IBKR answers or fails to answer, unless an order that it has   *)
(* turned Inactive is pending: that one ends every tick that finds it,     *)
(* and the orders behind it wait with it (RejectedResolves).               *)
PendingResolves ==
    \A o \in Order :
        /\ pendingEntries[o] # NoRow ~> (pendingEntries[o] = NoRow \/ InactiveTracked)
        /\ pendingExits[o] # NoRow ~> (pendingExits[o] = NoRow \/ InactiveTracked)

-----------------------------------------------------------------------------
(* What the repository says of the engine and the code does not do.        *)

(* engine.py:832 and 867: the poller hands an order that IBKR reports      *)
(* inactive or rejected to a handler, which drops its tracker.             *)
RejectedResolves ==
    \A o \in Order :
        /\ (pendingEntries[o] # NoRow /\ order[o].state = "inactive")
               ~> pendingEntries[o] = NoRow
        /\ (pendingExits[o] # NoRow /\ order[o].state = "inactive")
               ~> pendingExits[o] = NoRow
=============================================================================
