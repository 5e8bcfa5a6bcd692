--------------------------- MODULE OrderAccount_proofs ---------------------------
(* What the engine's orders do to the account, proved for every set of     *)
(* rows, orders and spreads when IBKR is reliable: queries and cancels may *)
(* fail, orders may be rejected and positions.db may not open, but no      *)
(* placement times out, no order outlives its timeout, no process dies and *)
(* nobody trades in TWS.                                                   *)
EXTENDS OrderTracking_proofs

Reliable == Faults \subseteq {"lost", "db", "reject"}

(* Nothing ages, so no timeout fires; the process lives, so nothing        *)
(* reconciles.                                                             *)
Calm ==
    /\ aged = {} /\ pc \notin {"down", "startup"}
    /\ pc \in {"entryTimeouts", "exitTimeouts"} => todo = {}
    /\ \A o \in Order : order[o].state \notin {"queued", "cancelling"}
    /\ \A o \in Order : pendingExits[o] # NoRow =>
           order[o].side = "exit" /\ order[o].state # "unused"

(* No two rows that may still change are the same spread.                  *)
InPlay(r) == book[r].status \in Active \cup {"expired"}
Apart == \A r, q \in Row : InPlay(r) /\ InPlay(q) /\ book[r].spread = book[q].spread => r = q
(* Until the close the sweep has not run, and nothing reconciles.          *)
NoneExpired == ~late => \A r \in Row : book[r].status # "expired"

(* A working order belongs to a row of its spread.                         *)
Owner(o, r) ==
    IF order[o].side = "entry"
    THEN pendingEntries[o] = r \/ (pc = "recordEntry" /\ curOrder = o /\ curRow = r)
    ELSE pendingExits[o] = r
LiveOwned ==
    \A o \in Order : order[o].state = "working" =>
        /\ order[o].side \in {"entry", "exit"} /\ order[o].filled < order[o].qty
        /\ \E r \in Row : Owner(o, r) /\ book[r].spread = order[o].spread

(* A working exit is for exactly the lots that the account holds, and so   *)
(* is the exit about to be placed.                                         *)
ExitsExact ==
    day # "settled" => \A o \in Order : order[o].state = "working" /\ order[o].side = "exit" =>
        order[o].qty - order[o].filled = held[order[o].spread]
Placing ==
    /\ pc = "placeEntry" => memory[curRow].lots = Lots
    /\ pc = "placeExit" => /\ memory[curRow].lots > 0
                           /\ day # "settled" =>
                                 memory[curRow].lots = held[book[curRow].spread]

AInv == RInv /\ Calm /\ Apart /\ NoneExpired /\ LiveOwned /\ ExitsExact /\ Placing /\ NoOversell

-----------------------------------------------------------------------------
(* What a step may do to the clock, the account and the exit in hand.      *)

(* The day only goes forward, and settles after the close.                 *)
LEMMA DayStep ==
    ASSUME [Next]_vars
    PROVE  day' = day \/ (day = "session" /\ day' = "afterHours") \/ (late /\ Settle)
<1> USE DEF late, broker
<1>1. CASE BrokerStep
  BY <1>1 DEF BrokerStep, MarketClose, Settle, CloseInTws, Age, Fill, CancelByBroker,
     RejectByBroker, ExecuteLate
<1>2. CASE PollStep
  BY <1>2 DEF PollStep, PollInactive, TickBegin, PollEntry, PollEntryFails,
     PollEntriesDone, PollExit, PollExitFails, PollExitsDone
<1>3. CASE TimeoutStep
  BY <1>3 DEF TimeoutStep, TimeoutEntry, TimeoutEntryFails, TimeoutExit, EntryTimeoutsDone,
     ExitTimeoutsDone
<1>4. CASE ExitStep
  BY <1>4 DEF ExitStep, EodSweep, EodDone, PlaceExit, ExitsDone, ExitNotChecked,
     ExitCheckFails, ExitCheck
<1>5. CASE EntryStep
  BY <1>5 DEF EntryStep, NoEntry, WriteEntry, EntryAccepted, EntryRefused, RecordEntry
<1>6. CASE ProcessStep
  BY <1>6 DEF ProcessStep, Crash, Restart, StartupSync
<1> QED
  BY <1>1, <1>2, <1>3, <1>4, <1>5, <1>6 DEF Next, vars

(* The lots of a spread change by one lot of an order of that spread.      *)
HeldMoved(s) ==
    \/ held'[s] = held[s]
    \/ \E o \in Order : /\ Fill(o) /\ order[o].spread = s
                        /\ held'[s] = IF order[o].side = "entry" THEN held[s] + 1 ELSE held[s] - 1
    \/ Settle /\ held'[s] = 0
    \/ CloseInTws(s)

(* No other step changes what is held.                                     *)
LEMMA HeldStep ==
    ASSUME TypeOK, [Next]_vars, NEW s \in Spread
    PROVE  HeldMoved(s)
<1> USE DEF broker
<1>1. ASSUME held'[s] = held[s] PROVE HeldMoved(s)
  BY <1>1 DEF HeldMoved
<1>2. ASSUME NEW o \in Order, Fill(o) PROVE HeldMoved(s)
  <2> DEFINE n == IF order[o].side = "entry" THEN held[order[o].spread] + 1
                  ELSE held[order[o].spread] - 1
  <2>1. held' = [held EXCEPT ![order[o].spread] = n]
    BY <1>2 DEF Fill
  <2>2. held'[s] = IF order[o].spread = s THEN n ELSE held[s]
    BY <2>1 DEF TypeOK
  <2> QED
    BY <1>1, <1>2, <2>2 DEF HeldMoved
<1>3. CASE Settle
  BY <1>3 DEF Settle, HeldMoved
<1>4. ASSUME NEW q \in Spread, CloseInTws(q) PROVE HeldMoved(s)
  BY <1>1, <1>4 DEF CloseInTws, HeldMoved, TypeOK
<1>5. CASE BrokerStep
  BY <1>1, <1>2, <1>3, <1>4, <1>5 DEF BrokerStep, MarketClose, Age, CancelByBroker,
     RejectByBroker, ExecuteLate
<1>6. CASE PollStep
  BY <1>1, <1>6 DEF PollStep, PollInactive, TickBegin, PollEntry, PollEntryFails,
     PollEntriesDone, PollExit, PollExitFails, PollExitsDone
<1>7. CASE TimeoutStep
  BY <1>1, <1>7 DEF TimeoutStep, TimeoutEntry, TimeoutEntryFails, TimeoutExit,
     EntryTimeoutsDone, ExitTimeoutsDone
<1>8. CASE ExitStep
  BY <1>1, <1>8 DEF ExitStep, EodSweep, EodDone, PlaceExit, ExitsDone, ExitNotChecked,
     ExitCheckFails, ExitCheck
<1>9. CASE EntryStep
  BY <1>1, <1>9 DEF EntryStep, NoEntry, WriteEntry, EntryAccepted, EntryRefused, RecordEntry
<1>10. CASE ProcessStep
  BY <1>1, <1>10 DEF ProcessStep, Crash, Restart, StartupSync
<1> QED
  BY <1>1, <1>5, <1>6, <1>7, <1>8, <1>9, <1>10 DEF Next, vars

(* A placement is in hand from the check, or the insert, that decides it,  *)
(* and the store stays as it is until it is made.                          *)
LEMMA PlacingStep ==
    ASSUME [Next]_vars, pc' \in {"placeEntry", "placeExit"}
    PROVE  \/ UNCHANGED <<pc, curRow, store>>
           \/ \E r \in Row, s \in Spread : WriteEntry(r, s)
           \/ \E r \in Row : ExitCheck(r) /\ curRow' = r
<1>1. CASE BrokerStep
  BY <1>1 DEF BrokerStep, MarketClose, Settle, CloseInTws, Age, Fill, CancelByBroker,
     RejectByBroker, ExecuteLate, engine, control
<1>2. CASE PollStep
  BY <1>2 DEF PollStep, PollInactive, TickBegin, PollEntry, PollEntryFails,
     PollEntriesDone, PollExit, PollExitFails, PollExitsDone
<1>3. CASE TimeoutStep
  BY <1>3 DEF TimeoutStep, TimeoutEntry, TimeoutEntryFails, TimeoutExit, EntryTimeoutsDone,
     ExitTimeoutsDone
<1>4. CASE ExitStep
  BY <1>4 DEF ExitStep, EodSweep, EodDone, PlaceExit, ExitsDone, ExitNotChecked,
     ExitCheckFails, ExitCheck
<1>5. CASE EntryStep
  BY <1>5 DEF EntryStep, NoEntry, EntryAccepted, EntryRefused, RecordEntry
<1>6. CASE ProcessStep
  BY <1>6 DEF ProcessStep, Crash, Restart, StartupSync
<1> QED
  BY <1>1, <1>2, <1>3, <1>4, <1>5, <1>6 DEF Next, vars, control

-----------------------------------------------------------------------------
(* Calm is kept, and rules out the timeouts and the reconciles.            *)

(* While it is calm nothing reconciles, crashes or times out.              *)
LEMMA CalmRules ==
    ASSUME Calm, Reliable
    PROVE  pc # "startup" /\ ~Crash /\ (\A o \in Order \cup {NoOrder} : ~Timeout(o))
<1>1. pc # "startup"
  BY DEF Calm
<1>2. ~Crash
  BY DEF Crash, Reliable
<1>3. \A o \in Order \cup {NoOrder} : ~Timeout(o)
  BY DEF Calm, Timeout, TimeoutEntry, TimeoutEntryFails, TimeoutExit
<1> QED
  BY <1>1, <1>2, <1>3

(* No step makes an order old or gives a timeout something to do.          *)
LEMMA CalmControl ==
    ASSUME Calm, [Next]_vars, Reliable
    PROVE  /\ aged' = {} /\ pc' \notin {"down", "startup"}
           /\ pc' \in {"entryTimeouts", "exitTimeouts"} => todo' = {}
<1> USE DEF Calm, trackers, control
<1>1. CASE BrokerStep
  BY <1>1 DEF BrokerStep, MarketClose, Settle, CloseInTws, Age, Fill, CancelByBroker,
     RejectByBroker, ExecuteLate, engine, Reliable
<1>2. CASE PollStep
  BY <1>2 DEF PollStep, PollInactive, TickBegin, PollEntry, PollEntryFails,
     PollEntriesDone, PollExit, PollExitFails, PollExitsDone, OnFillConfirmed, OnEntryCancelled, StillUnknown, Forget,
     OnCloseConfirmed, OnExitCancelled, ForgetExit
<1>3. CASE TimeoutStep
  BY <1>3 DEF TimeoutStep, TimeoutEntry, TimeoutEntryFails, TimeoutExit, EntryTimeoutsDone,
     ExitTimeoutsDone
<1>4. CASE ExitStep
  BY <1>4 DEF ExitStep, EodSweep, EodDone, PlaceExit, ExitsDone, ExitNotChecked,
     ExitCheckFails, ExitCheck, TrackExit
<1>5. CASE EntryStep
  BY <1>5 DEF EntryStep, NoEntry, WriteEntry, EntryAccepted, EntryRefused, RecordEntry
<1>6. CASE ProcessStep
  BY <1>6 DEF ProcessStep, Crash, Restart, StartupSync, Reliable
<1> QED
  BY <1>1, <1>2, <1>3, <1>4, <1>5, <1>6 DEF Next, vars

(* No working order is asked to cancel, none waits in the client's queue,  *)
(* and what is tracked as an exit is one.                                  *)
LEMMA CalmStep == ASSUME RInv, Calm, [Next]_vars, Reliable PROVE Calm'
<1> USE DEF RInv
<1>0. ~Crash /\ (\A o \in Order : ~Timeout(o))
  BY CalmRules
<1>1. ASSUME NEW s, NEW side PROVE NewTicket(s, side, curRow).state = s
                                   /\ NewTicket(s, side, curRow).side = side
  BY DEF NewTicket
<1>2. \A o \in Order : order'[o].state \notin {"queued", "cancelling"}
  <2> SUFFICES ASSUME NEW o \in Order PROVE order'[o].state \notin {"queued", "cancelling"}
    OBVIOUS
  <2>0. order[o] \in Ticket /\ order[o].state \notin {"queued", "cancelling"}
    BY DEF IInv, TypeOK, Calm
  <2>1. CASE OrderTurned(o)
    BY <1>0, <2>0, <2>1 DEF OrderTurned, Ticket
  <2>2. CASE Fill(o)
    <3>1. order'[o].state \in {"filled", order[o].state}
      BY <2>2, FillEffect DEF IInv
    <3> QED
      BY <2>0, <3>1
  <2>3. CASE OrderPlaced(o)
    BY <1>1, <2>3 DEF OrderPlaced, ExitPlaced, Reliable
  <2> QED
    BY <2>0, <2>1, <2>2, <2>3, OrderStep DEF OrderMoved
<1>3. \A o \in Order : pendingExits'[o] # NoRow =>
          order'[o].side = "exit" /\ order'[o].state # "unused"
  <2> SUFFICES ASSUME NEW o \in Order, pendingExits'[o] # NoRow
               PROVE  order'[o].side = "exit" /\ order'[o].state # "unused"
    OBVIOUS
  <2>1. CASE ExitPlaced(o)
    BY <1>1, <2>1 DEF ExitPlaced
  <2>2. CASE pendingExits'[o] = pendingExits[o]
    BY <2>2, OrderKept DEF Calm
  <2> QED
    BY <2>1, <2>2, ExitTrackerStep DEF ExitTrackerMoved
<1> QED
  BY <1>2, <1>3, CalmControl DEF Calm

-----------------------------------------------------------------------------
(* Rows and their orders.                                                  *)

(* An owner's row is in play, and what it is tells what it owns.           *)
LEMMA OwnerRow ==
    ASSUME IInv, NEW o \in Order, order[o].side \in {"entry", "exit"}, NEW r \in Row, Owner(o, r)
    PROVE  /\ InPlay(r)
           /\ order[o].side = "exit" => book[r].status \in {"open", "expired"}
           /\ order[o].side = "entry" =>
                 book[r].status = "pending_open" \/ (late /\ book[r].status = "expired")
  BY SentinelAssumption DEF IInv, Owner, InPlay, Active, ControlInv, Agreement, PendingEntryBacked,
     PendingExitBacked, PendingEntryIds, PendingExitIds

(* A row owns one order at a time.                                         *)
LEMMA OneOwned ==
    ASSUME RInv, NEW o \in Order, NEW p \in Order, NEW r \in Row, Owner(o, r), Owner(p, r)
    PROVE  o = p
<1> USE DEF RInv, IInv
<1>1. ASSUME NEW q \in Order, Owner(q, r), order[q].side = "entry"
      PROVE  \/ book[r].order = q /\ q \in PendingEntryIds /\ pendingEntries[q] = r
             \/ /\ pc = "recordEntry" /\ q = curOrder /\ curRow = r
                /\ book[r].order = NoOrder /\ book[r].status = "pending_open"
  BY <1>1, SentinelAssumption DEF Owner, ControlInv, Agreement, PendingEntryBacked, PendingEntryIds
<1>2. ASSUME NEW q \in Order, Owner(q, r), order[q].side # "entry"
      PROVE  /\ q \in PendingExitIds /\ pendingExits[q] = r
             /\ book[r].status \in {"open", "expired"}
  BY <1>2, SentinelAssumption DEF Owner, Agreement, PendingExitBacked, PendingExitIds
<1>3. CASE order[o].side = "entry" /\ order[p].side = "entry"
  BY <1>1, <1>3, SentinelAssumption
<1>4. CASE order[o].side # "entry" /\ order[p].side # "entry"
  BY <1>2, <1>4 DEF Agreement, PendingExitBacked
<1>5. ASSUME NEW q \in Order, NEW x \in Order, Owner(q, r), Owner(x, r),
             order[q].side = "entry", order[x].side # "entry"
      PROVE  FALSE
  BY <1>1, <1>2, <1>5 DEF Agreement, TrackersDisjoint
<1> QED
  BY <1>3, <1>4, <1>5

(* A working order of the spread of a row in play belongs to that row.     *)
LEMMA OwnSpread ==
    ASSUME RInv, Apart, LiveOwned, NEW o \in Order, order[o].state = "working",
           NEW r \in Row, InPlay(r), book[r].spread = order[o].spread
    PROVE  Owner(o, r)
<1>1. PICK q \in Row : Owner(o, q) /\ book[q].spread = order[o].spread
  BY DEF LiveOwned
<1>2. InPlay(q)
  BY <1>1, OwnerRow DEF LiveOwned, RInv
<1> QED
  BY <1>1, <1>2 DEF Apart

(* Two working orders are for two spreads.                                 *)
LEMMA SpreadsApart ==
    ASSUME RInv, Apart, LiveOwned, NEW o \in Order, NEW p \in Order,
           order[o].state = "working", order[p].state = "working",
           order[o].spread = order[p].spread
    PROVE  o = p
<1>1. PICK q \in Row : Owner(o, q) /\ book[q].spread = order[o].spread
  BY DEF LiveOwned
<1>2. InPlay(q)
  BY <1>1, OwnerRow DEF LiveOwned, RInv
<1>3. Owner(p, q)
  BY <1>1, <1>2, OwnSpread
<1> QED
  BY <1>1, <1>3, OneOwned

(* A row comes into play as a new entry only.                              *)
LEMMA InPlayStep ==
    ASSUME RInv, Calm, [Next]_vars, Reliable, NEW r \in Row, InPlay(r)'
    PROVE  \/ InPlay(r) /\ book'[r].spread = book[r].spread
           \/ \E s \in Spread : WriteEntry(r, s)
<1> USE DEF RInv, IInv
<1>1. pc # "startup" /\ (\A o \in Order : ~Timeout(o))
  BY CalmRules
<1>2. book[r].status # "none" => book'[r].spread = book[r].spread
  BY RowStep DEF RowMoved
<1>3. CASE book[r].status = "none"
  <2>1. ASSUME NEW o \in Order, pendingEntries[o] = r PROVE FALSE
    BY <1>3, <2>1, SentinelAssumption DEF Agreement, PendingEntryBacked, PendingEntryIds
  <2>2. ASSUME NEW o \in Order, pendingExits[o] = r PROVE FALSE
    BY <1>3, <2>2, SentinelAssumption DEF Agreement, PendingExitBacked, PendingExitIds
  <2>3. ~(EntryRefused /\ r = curRow) /\ book'[r].status # "none"
    BY <1>3 DEF EntryRefused, ControlInv, InPlay, Active
  <2> QED
    BY <1>1, <1>3, <2>1, <2>2, <2>3, RowCauseStep DEF RowCause, StartupSync, Active
<1>4. CASE book[r].status \in {"closed", "deleted"}
  BY <1>4, RowStep DEF RowMoved, Legal, InPlay, Active
<1>5. book[r].status \in Status
  BY DEF TypeOK, BookRow
<1> QED
  BY <1>2, <1>3, <1>4, <1>5 DEF InPlay, Status, Active

(* A new entry's spread is not that of a row in play.                      *)
LEMMA ApartStep ==
    ASSUME RInv, Calm, Apart, NoneExpired, [Next]_vars, Reliable
    PROVE  Apart'
<1> USE DEF RInv, IInv
<1> SUFFICES ASSUME NEW r \in Row, NEW q \in Row, InPlay(r)', InPlay(q)',
                    book'[r].spread = book'[q].spread
             PROVE  r = q
  BY DEF Apart
<1>1. ASSUME NEW x \in Row, NEW y \in Row, NEW s \in Spread, WriteEntry(x, s), InPlay(y)',
             book'[y].spread = book'[x].spread, x # y
      PROVE  FALSE
  <2>1. book'[x].spread = s /\ book'[y] = book[y]
    BY <1>1 DEF WriteEntry, TypeOK, Fresh
  <2>2. book[y].status \in Active
    BY <1>1, <2>1 DEF InPlay, NoneExpired, WriteEntry
  <2>3. InMemory(y)
    BY <1>1, <2>2 DEF Agreement, MemoryMirrorsBook, WriteEntry
  <2> QED
    BY <1>1, <2>1, <2>3 DEF WriteEntry, NoCollision
<1> QED
  BY <1>1, InPlayStep DEF Apart

(* A row expires in the sweep only, which is after the close.              *)
LEMMA NoneExpiredStep ==
    ASSUME RInv, Calm, NoneExpired, [Next]_vars, Reliable
    PROVE  NoneExpired'
<1> USE DEF RInv, IInv
<1> SUFFICES ASSUME ~late', NEW r \in Row, book'[r].status = "expired" PROVE FALSE
  BY DEF NoneExpired
<1>1. ~late
  BY SessionStep
<1>2. book[r].status = "open"
  BY <1>1, RowStep DEF RowMoved, Legal, NoneExpired
<1>3. pc # "startup" /\ (\A o \in Order : ~Timeout(o))
  BY CalmRules
<1>4. ASSUME NEW o \in Order, pendingEntries[o] = r PROVE FALSE
  BY <1>2, <1>4, SentinelAssumption DEF Agreement, PendingEntryBacked, PendingEntryIds
<1>5. ASSUME NEW o \in Order, OnCloseConfirmed(o), pendingExits[o] = r PROVE FALSE
  <2>1. book'[r] = [book[r] EXCEPT !.status = "closed"] /\ book[r] \in BookRow
    BY <1>5 DEF OnCloseConfirmed, TypeOK
  <2> QED
    BY <2>1 DEF BookRow
<1>6. ~(EntryRefused /\ r = curRow) /\ ~EodSweep /\ (\A s \in Spread : ~WriteEntry(r, s))
  BY <1>1, <1>2 DEF EntryRefused, ControlInv, EodSweep, WriteEntry, Fresh
<1> QED
  BY <1>2, <1>3, <1>4, <1>5, <1>6, RowCauseStep DEF RowCause, StartupSync, Timeout

(* A working order keeps its owner while it works.                         *)
LEMMA OwnerKept ==
    ASSUME RInv, Calm, [Next]_vars, Reliable, NEW o \in Order, order[o].state = "working",
           order[o].side \in {"entry", "exit"}, NEW r \in Row, Owner(o, r)
    PROVE  Owner(o, r)' /\ book'[r].spread = book[r].spread
<1> USE DEF RInv, IInv
<1>0. pc # "startup" /\ ~Crash /\ (\A p \in Order : ~Timeout(p)) /\ r # NoRow
  BY CalmRules, SentinelAssumption
<1>1. order'[o].side = order[o].side
  BY OrderKept
<1>2. book'[r].spread = book[r].spread
  BY OwnerRow, RowStep DEF RowMoved, InPlay, Active
<1>3. CASE order[o].side = "entry" /\ pendingEntries[o] = r
  <2>1. book[r].order = o
    BY <1>0, <1>3 DEF Agreement, PendingEntryBacked, PendingEntryIds
  <2>2. ~(RecordEntry /\ o = curOrder)
    BY <2>1 DEF RecordEntry, OrdersRecorded
  <2>3. pendingEntries'[o] = r
    BY <1>0, <1>3, <2>2, EntryTrackerStep DEF EntryTrackerMoved, Timeout
  <2> QED
    BY <1>1, <1>2, <1>3, <2>3 DEF Owner
<1>4. CASE order[o].side = "entry" /\ pc = "recordEntry" /\ curOrder = o /\ curRow = r
  <2>1. CASE RecordEntry
    <3>1. pendingEntries'[o] = r
      BY <1>4, <2>1 DEF RecordEntry, TypeOK
    <3> QED
      BY <1>1, <1>2, <1>4, <3>1 DEF Owner
  <2>2. CASE UNCHANGED <<pc, curRow, curOrder>>
    BY <1>1, <1>2, <1>4, <2>2 DEF Owner
  <2> QED
    BY <1>0, <1>4, <2>1, <2>2, InHandStep DEF InHandMoved, EntryAccepted
<1>5. CASE order[o].side = "exit"
  <2>1. pendingExits'[o] = r
    BY <1>0, <1>5, ExitTrackerStep DEF ExitTrackerMoved, Owner, ExitPlaced, Timeout
  <2> QED
    BY <1>1, <1>2, <1>5, <2>1 DEF Owner
<1> QED
  BY <1>3, <1>4, <1>5 DEF Owner

(* A ticket as it is placed.                                               *)
LEMMA TicketFacts ==
    ASSUME NEW s, NEW side
    PROVE  LET t == NewTicket(s, side, curRow)
           IN  /\ t.state = s /\ t.side = side /\ t.spread = book[curRow].spread
               /\ t.qty = memory[curRow].lots /\ t.filled = 0
  BY DEF NewTicket

(* What fills of a working order.                                          *)
LEMMA WorkingKept ==
    ASSUME RInv, [Next]_vars, NEW o \in Order, order[o].state = "working",
           order'[o].state = "working"
    PROVE  order'[o].filled = order[o].filled \/ (Fill(o) /\ order'[o].filled = order[o].filled + 1)
<1>1. order[o] \in Ticket
  BY DEF RInv, IInv, TypeOK
<1>2. CASE OrderTurned(o)
  BY <1>1, <1>2 DEF OrderTurned, Ticket
<1>3. CASE Fill(o)
  BY <1>3, FillEffect DEF RInv, IInv
<1> QED
  BY <1>2, <1>3, OrderStep DEF OrderMoved, RInv

(* An order keeps its owner while it works: the poller drops a tracker only*)
(* when the order is dead, and an order that starts to work starts as the  *)
(* one in hand or as an exit of its row.                                   *)
LEMMA LiveOwnedStep ==
    ASSUME RInv, Calm, LiveOwned, Placing, [Next]_vars, Reliable
    PROVE  LiveOwned'
<1> USE DEF RInv
<1> SUFFICES ASSUME NEW o \in Order, order'[o].state = "working"
             PROVE  /\ order'[o].side \in {"entry", "exit"} /\ order'[o].filled < order'[o].qty
                    /\ \E r \in Row : Owner(o, r)' /\ book'[r].spread = order'[o].spread
  BY DEF LiveOwned
<1>1. CASE order[o].state = "working"
  <2>1. /\ order'[o].side = order[o].side /\ order'[o].spread = order[o].spread
        /\ order'[o].qty = order[o].qty
    BY <1>1, OrderKept
  <2>2. order'[o].filled < order'[o].qty
    <3>1. order[o].filled \in Nat /\ order[o].qty \in Nat /\ order[o].filled < order[o].qty
      BY <1>1 DEF IInv, TypeOK, Ticket, LiveOwned
    <3>2. CASE Fill(o)
      <4>1. /\ order'[o].filled = order[o].filled + 1
            /\ order[o].filled + 1 # order[o].qty
        BY <3>2, FillEffect DEF IInv
      <4> QED
        BY <2>1, <3>1, <4>1
    <3> QED
      BY <1>1, <2>1, <3>1, <3>2, WorkingKept
  <2>3. PICK r \in Row : Owner(o, r) /\ book[r].spread = order[o].spread
    BY <1>1 DEF LiveOwned
  <2>4. Owner(o, r)' /\ book'[r].spread = book[r].spread
    BY <1>1, <2>3, OwnerKept DEF LiveOwned
  <2> QED
    BY <1>1, <2>1, <2>2, <2>3, <2>4 DEF LiveOwned
<1>2. CASE EntryAccepted(o) /\ order'[o] = NewTicket("working", "entry", curRow)
  <2>1. /\ pc = "placeEntry" /\ pc' = "recordEntry" /\ curOrder' = o /\ curRow' = curRow
        /\ book' = book /\ curRow \in Row
    BY <1>2 DEF EntryAccepted, store, IInv, ControlInv
  <2>2. /\ order'[o].side = "entry" /\ order'[o].spread = book[curRow].spread
        /\ order'[o].qty = Lots /\ order'[o].filled = 0
    BY <1>2, <2>1, TicketFacts DEF Placing
  <2>3. Owner(o, curRow)'
    BY <2>1, <2>2 DEF Owner
  <2> QED
    BY <2>1, <2>2, <2>3, LotsAssumption
<1>3. CASE ExitPlaced(o) /\ order'[o] = NewTicket("working", "exit", curRow)
  <2>1. /\ pc = "placeExit" /\ curRow \in Row /\ book' = book
        /\ pendingExits' = [pendingExits EXCEPT ![o] = curRow]
    BY <1>3 DEF ExitPlaced, PlaceExit, TrackExit, store, IInv, ControlInv
  <2>2. /\ order'[o].side = "exit" /\ order'[o].spread = book[curRow].spread
        /\ order'[o].qty > 0 /\ order'[o].filled = 0
    BY <1>3, <2>1, TicketFacts DEF Placing
  <2>3. pendingExits'[o] = curRow
    BY <2>1 DEF IInv, TypeOK
  <2>r. PICK r \in Row : r = curRow
    BY <2>1
  <2>4. Owner(o, r)' /\ book'[r].spread = order'[o].spread
    BY <2>1, <2>2, <2>3, <2>r DEF Owner
  <2>5. order'[o].filled < order'[o].qty
    BY <2>2
  <2> QED
    BY <2>2, <2>4, <2>5
<1> QED
  BY <1>1, <1>2, <1>3, WorkStep DEF StartsToWork, Calm

(* The lots of a spread whose row no working order owns do not change      *)
(* before they settle.                                                     *)
LEMMA HeldKept ==
    ASSUME RInv, Apart, LiveOwned, Calm, [Next]_vars, Reliable, day' # "settled",
           NEW r \in Row, InPlay(r), \A o \in Order : order[o].state = "working" => ~Owner(o, r)
    PROVE  held'[book[r].spread] = held[book[r].spread]
<1> USE DEF RInv
<1>1. book[r].spread \in Spread
  BY DEF IInv, Agreement, SpreadKnown, InPlay, Active
<1>2. ASSUME NEW o \in Order, Fill(o), order[o].spread = book[r].spread PROVE FALSE
  <2>1. order[o].state = "working"
    BY <1>2 DEF Fill, Calm
  <2> QED
    BY <1>2, <2>1, OwnSpread
<1>3. ~Settle /\ ~CloseInTws(book[r].spread)
  BY DEF Settle, CloseInTws, Reliable
<1> QED
  BY <1>1, <1>2, <1>3, HeldStep DEF HeldMoved, IInv

(* A fill takes one lot from the exit and one from the account, and no     *)
(* other order of that spread works beside it; a new exit is for what is   *)
(* held.                                                                   *)
LEMMA ExitsExactStep ==
    ASSUME RInv, Calm, Apart, LiveOwned, ExitsExact, Placing, [Next]_vars, Reliable
    PROVE  ExitsExact'
<1> USE DEF RInv
<1> SUFFICES ASSUME day' # "settled", NEW o \in Order, order'[o].state = "working",
                    order'[o].side = "exit"
             PROVE  order'[o].qty - order'[o].filled = held'[order'[o].spread]
  BY DEF ExitsExact
<1>0. day # "settled"
  BY DayStep DEF Settle
<1>1. CASE order[o].state = "working"
  <2>1. /\ order[o].side = "exit" /\ order'[o].spread = order[o].spread
        /\ order'[o].qty = order[o].qty
    BY <1>1, OrderKept
  <2>2. order[o].spread \in Spread
    <3>1. PICK r \in Row : Owner(o, r) /\ book[r].spread = order[o].spread
      BY <1>1 DEF LiveOwned
    <3>2. InPlay(r)
      BY <2>1, <3>1, OwnerRow
    <3> QED
      BY <3>1, <3>2 DEF IInv, Agreement, SpreadKnown, InPlay, Active
  <2>3. /\ order[o].qty \in Nat /\ order[o].filled \in Nat /\ held[order[o].spread] \in Int
        /\ order[o].qty - order[o].filled = held[order[o].spread]
    BY <1>0, <1>1, <2>1, <2>2 DEF ExitsExact, IInv, TypeOK, Ticket
  <2>4. CASE Fill(o)
    <3>1. held' = [held EXCEPT ![order[o].spread] = held[order[o].spread] - 1]
      BY <2>1, <2>4 DEF Fill
    <3>2. held'[order[o].spread] = held[order[o].spread] - 1
      BY <2>2, <3>1 DEF IInv, TypeOK
    <3>3. order'[o].filled = order[o].filled + 1
      BY <2>4, FillEffect DEF IInv
    <3> QED
      BY <2>1, <2>3, <3>2, <3>3
  <2>5. CASE ~Fill(o)
    <3>1. order'[o].filled = order[o].filled
      BY <1>1, <2>5, WorkingKept
    <3>2. ASSUME NEW p \in Order, Fill(p), order[p].spread = order[o].spread PROVE FALSE
      <4>1. order[p].state = "working"
        BY <3>2 DEF Fill, Calm
      <4>2. p = o
        BY <1>1, <3>2, <4>1, SpreadsApart
      <4> QED
        BY <2>5, <3>2, <4>2
    <3>3. held'[order[o].spread] = held[order[o].spread]
      BY <2>2, <3>2, HeldStep DEF HeldMoved, Settle, CloseInTws, Reliable, IInv
    <3> QED
      BY <2>1, <2>3, <3>1, <3>3
  <2> QED
    BY <2>4, <2>5
<1>2. CASE ExitPlaced(o) /\ order'[o] = NewTicket("working", "exit", curRow)
  <2>1. /\ pc = "placeExit" /\ curRow \in Row /\ held' = held
    BY <1>2 DEF ExitPlaced, PlaceExit, IInv, ControlInv
  <2>2. /\ order'[o].spread = book[curRow].spread /\ order'[o].qty = memory[curRow].lots
        /\ order'[o].filled = 0
    BY <1>2, TicketFacts
  <2>3. memory[curRow].lots \in Nat
    BY <2>1 DEF IInv, TypeOK, Object
  <2> QED
    BY <1>0, <2>1, <2>2, <2>3 DEF Placing
<1>3. CASE EntryAccepted(o) /\ order'[o] = NewTicket("working", "entry", curRow)
  BY <1>3, TicketFacts
<1> QED
  BY <1>1, <1>2, <1>3, WorkStep DEF StartsToWork, Calm

(* Nothing fills behind the back of the exit in hand: its position has no  *)
(* exit at work and is no awaited entry.                                   *)
LEMMA PlacingKept ==
    ASSUME RInv, Calm, Apart, LiveOwned, Placing, NoOversell, [Next]_vars, Reliable
    PROVE  Placing'
<1> USE DEF RInv
<1>1. ASSUME pc' = "placeEntry" PROVE memory'[curRow'].lots = Lots
  <2>1. ASSUME NEW r \in Row, NEW s \in Spread, WriteEntry(r, s)
        PROVE  memory'[curRow'].lots = Lots
    <3>1. memory'[r] = [copies |-> 2, status |-> "pending_open", lots |-> Lots] /\ curRow' = r
      BY <2>1 DEF WriteEntry, IInv, TypeOK
    <3> QED
      BY <3>1
  <2>2. ASSUME NEW r \in Row, ExitCheck(r) PROVE FALSE
    BY <1>1, <2>2 DEF ExitCheck
  <2> QED
    BY <1>1, <2>1, <2>2, PlacingStep DEF Placing, store
<1>2. ASSUME pc' = "placeExit"
      PROVE  /\ memory'[curRow'].lots > 0
             /\ day' # "settled" => memory'[curRow'].lots = held'[book'[curRow'].spread]
  <2>1. ASSUME NEW r \in Row, ExitCheck(r), curRow' = r
        PROVE  memory'[r].lots > 0 /\ memory'[r].lots = held'[book'[r].spread]
    <3>1. /\ WriteBoth(r, book[r].status, HeldLots(book[r].spread))
          /\ HeldLots(book[r].spread) > 0 /\ held' = held /\ InMemory(r)
          /\ book[r].status = "open"
      BY <2>1 DEF ExitCheck, OpenInMemory, broker, IInv, Agreement, MemoryMirrorsBook
    <3>2. book[r].spread \in Spread
      BY <3>1 DEF IInv, Agreement, SpreadKnown
    <3>3. HeldLots(book[r].spread) = held[book[r].spread]
      BY <3>2 DEF HeldLots, NoOversell
    <3>4. /\ book'[r].spread = book[r].spread
          /\ memory'[r].lots = HeldLots(book[r].spread)
      BY <3>1, WriteBothEffect DEF IInv
    <3> QED
      BY <3>1, <3>3, <3>4
  <2>2. CASE UNCHANGED <<pc, curRow, store>>
    <3>1. pc = "placeExit" /\ curRow \in Row /\ book[curRow].status = "open"
          /\ ~HasPendingExit(curRow)
      BY <1>2, <2>2 DEF IInv, ControlInv
    <3>2. ASSUME NEW o \in Order, order[o].state = "working", Owner(o, curRow) PROVE FALSE
      <4>1. order[o].side = "entry"
        BY <3>1, <3>2 DEF Owner, HasPendingExit
      <4> QED
        BY <3>1, <3>2, <4>1, OwnerRow
    <3>3. day' # "settled" => day # "settled"
      BY DayStep DEF Settle
    <3>4. day' # "settled" => held'[book[curRow].spread] = held[book[curRow].spread]
      BY <3>1, <3>2, HeldKept DEF InPlay, Active
    <3> QED
      BY <2>2, <3>1, <3>3, <3>4 DEF Placing, store
  <2>3. ASSUME NEW r \in Row, NEW s \in Spread, WriteEntry(r, s) PROVE FALSE
    BY <1>2, <2>3 DEF WriteEntry
  <2> QED
    BY <1>2, <2>1, <2>2, <2>3, PlacingStep
<1> QED
  BY <1>1, <1>2 DEF Placing

(* A lot is sold by a working exit, which is for lots that are held.       *)
LEMMA OversellStep ==
    ASSUME RInv, Calm, LiveOwned, ExitsExact, NoOversell, [Next]_vars, Reliable
    PROVE  NoOversell'
<1> SUFFICES ASSUME NEW s \in Spread PROVE held'[s] >= 0
  BY DEF NoOversell
<1>0. held[s] \in Int /\ held[s] >= 0
  BY DEF NoOversell, RInv, IInv, TypeOK
<1>1. ASSUME NEW o \in Order, Fill(o), order[o].spread = s,
             held'[s] = IF order[o].side = "entry" THEN held[s] + 1 ELSE held[s] - 1
      PROVE  held'[s] >= 0
  <2>1. order[o].state = "working" /\ day # "settled"
    BY <1>1 DEF Fill, Calm
  <2>2. CASE order[o].side = "entry"
    BY <1>0, <1>1, <2>2
  <2>3. CASE order[o].side = "exit"
    <3>1. /\ order[o].filled \in Nat /\ order[o].qty \in Nat /\ order[o].filled < order[o].qty
          /\ order[o].qty - order[o].filled = held[s]
      BY <1>1, <2>1, <2>3 DEF ExitsExact, LiveOwned, RInv, IInv, TypeOK, Ticket
    <3> QED
      BY <1>0, <1>1, <2>3, <3>1
  <2> QED
    BY <2>1, <2>2, <2>3 DEF LiveOwned
<1> QED
  BY <1>0, <1>1, HeldStep DEF HeldMoved, CloseInTws, Reliable, RInv, IInv

(* Before the first order nothing is owed and nothing is held.             *)
LEMMA AccountInit == Init /\ RInv => AInv
<1> SUFFICES ASSUME Init, RInv PROVE AInv
  OBVIOUS
<1> USE DEF Init
<1>1. Calm
  BY SentinelAssumption DEF Calm, NoTicket
<1>2. Apart /\ NoneExpired
  BY DEF Apart, NoneExpired, InPlay, Active, BlankRow
<1>3. LiveOwned /\ ExitsExact /\ Placing
  BY DEF LiveOwned, ExitsExact, Placing, NoTicket
<1>4. NoOversell
  BY DEF NoOversell
<1> QED
  BY <1>1, <1>2, <1>3, <1>4 DEF AInv

(* Every step keeps all of it.                                             *)
LEMMA AccountStep == ASSUME AInv, RInv', [Next]_vars, Reliable PROVE AInv'
<1> USE DEF AInv
<1>1. Calm' /\ Apart' /\ NoneExpired'
  BY CalmStep, ApartStep, NoneExpiredStep
<1>2. LiveOwned' /\ ExitsExact' /\ Placing' /\ NoOversell'
  BY LiveOwnedStep, ExitsExactStep, PlacingKept, OversellStep
<1> QED
  BY <1>1, <1>2

(* The invariant holds in every behaviour.                                 *)
LEMMA Account == ASSUME Reliable PROVE Spec => []AInv
<1>1. Init /\ RInv => AInv
  BY AccountInit
<1>2. AInv /\ RInv' /\ [Next]_vars => AInv'
  BY AccountStep
<1> QED
  BY <1>1, <1>2, Recorded, PTL DEF Spec

(* The engine never sells a spread it does not hold: through lost queries, *)
(* rejected exits, failing databases and half filled orders, the closing   *)
(* orders that work at IBKR are together for the lots in the account, as   *)
(* long as no placement times out, no order outlives its timeout, no       *)
(* process dies and nobody trades in TWS.                                  *)
THEOREM NeverOversells ==
    ASSUME Faults \subseteq {"lost", "db", "reject"}
    PROVE  Spec => []NoOversell
<1>1. AInv => NoOversell
  BY DEF AInv
<1>2. Spec => []AInv
  BY Account DEF Reliable
<1> QED
  BY <1>1, <1>2, PTL

-----------------------------------------------------------------------------
(* Orders that fill whole.                                                 *)

(* The entry of row r has filled, though its row may not be opened yet.    *)
EntryFilled(r) ==
    \/ book[r].order \in Order /\ order[book[r].order].state = "filled"
    \/ pc = "recordEntry" /\ curRow = r /\ order[curOrder].state = "filled"

(* Entries are for Lots lots.                                              *)
EntriesWhole ==
    \A o \in Order : order[o].state = "working" /\ order[o].side = "entry" => order[o].qty = Lots

(* A row that awaits its entry stands for nothing before that has filled,  *)
(* a position whose exit has filled stands for nothing any more.           *)
PendingHeld ==
    \A r \in Row : book[r].status = "pending_open" /\ held[book[r].spread] # 0 => EntryFilled(r)
ClosedHeld ==
    \A o \in Order : pendingExits[o] \in Row /\ order[o].state = "filled" =>
        held[book[pendingExits[o]].spread] = 0
(* What is held, during the session.                                       *)
HInv == AInv /\ EntriesWhole /\ (~late => PendingHeld /\ ClosedHeld /\ HoldingsBooked)

(* An order keeps its quantity.                                            *)
LEMMA EntriesWholeStep ==
    ASSUME AInv, EntriesWhole, [Next]_vars
    PROVE  EntriesWhole'
<1> USE DEF AInv, RInv
<1> SUFFICES ASSUME NEW o \in Order, order'[o].state = "working", order'[o].side = "entry"
             PROVE  order'[o].qty = Lots
  BY DEF EntriesWhole
<1>1. CASE order[o].state = "working"
  BY <1>1, OrderKept DEF EntriesWhole
<1>2. CASE EntryAccepted(o) /\ order'[o] = NewTicket("working", "entry", curRow)
  BY <1>2, TicketFacts DEF EntryAccepted, Placing
<1>3. CASE ExitPlaced(o) /\ order'[o] = NewTicket("working", "exit", curRow)
  BY <1>3, TicketFacts
<1> QED
  BY <1>1, <1>2, <1>3, WorkStep DEF StartsToWork, Calm

(* A filled order is final.                                                *)
LEMMA FilledKept ==
    ASSUME IInv, [Next]_vars, NEW o \in Order, order[o].state = "filled"
    PROVE  order'[o] = order[o]
  BY OrderStep DEF OrderMoved, OrderTurned, Fill

(* Nor does a row forget, while it is pending, that its entry has filled.  *)
LEMMA EntryFilledKept ==
    ASSUME RInv, Calm, [Next]_vars, Reliable, NEW r \in Row, EntryFilled(r),
           book[r].status = "pending_open"
    PROVE  EntryFilled(r)'
<1> USE DEF RInv
<1>1. CASE book[r].order \in Order /\ order[book[r].order].state = "filled"
  <2>1. book'[r].order = book[r].order
    BY <1>1, RowOrderStep, SentinelAssumption DEF RowOrderMoved, RecordEntry, IInv, ControlInv
  <2> QED
    BY <1>1, <2>1, FilledKept DEF EntryFilled
<1>2. CASE pc = "recordEntry" /\ curRow = r /\ order[curOrder].state = "filled"
  <2>1. curOrder \in Order /\ order'[curOrder].state = "filled"
    BY <1>2, FilledKept DEF IInv, ControlInv
  <2>2. CASE RecordEntry
    <3>1. book[r] \in BookRow
      BY DEF IInv, TypeOK
    <3>2. book'[r] = [book[r] EXCEPT !.order = curOrder]
      BY <1>2, <2>2 DEF RecordEntry, IInv, TypeOK
    <3>3. book'[r].order = curOrder
      BY <3>1, <3>2 DEF BookRow
    <3> QED
      BY <2>1, <3>3 DEF EntryFilled
  <2>3. CASE UNCHANGED <<pc, curRow, curOrder>>
    BY <1>2, <2>1, <2>3 DEF EntryFilled
  <2> QED
    BY <1>2, <2>2, <2>3, CalmRules, InHandStep DEF InHandMoved, EntryAccepted
<1> QED
  BY <1>1, <1>2 DEF EntryFilled

(* In the session the lots of a spread in play change by a fill of the     *)
(* order that its row owns.                                                *)
LEMMA HeldByOwner ==
    ASSUME RInv, Apart, LiveOwned, Calm, [Next]_vars, Reliable, ~late', NEW r \in Row, InPlay(r),
           held'[book[r].spread] # held[book[r].spread]
    PROVE  \E o \in Order : /\ Fill(o) /\ order[o].state = "working" /\ Owner(o, r)
                            /\ order[o].spread = book[r].spread
<1>1. book[r].spread \in Spread
  BY DEF RInv, IInv, Agreement, SpreadKnown, InPlay, Active
<1>2. PICK o \in Order : Fill(o) /\ order[o].spread = book[r].spread
  BY <1>1, HeldStep DEF HeldMoved, Settle, CloseInTws, Reliable, RInv, IInv, late
<1>3. order[o].state = "working"
  BY <1>2 DEF Fill, Calm
<1> QED
  BY <1>2, <1>3, OwnSpread

(* What a pending row has in the account comes from its own entry, whose   *)
(* only lot it is.                                                         *)
LEMMA PendingHeldStep ==
    ASSUME HInv, [Next]_vars, Reliable, Lots = 1, ~late'
    PROVE  PendingHeld'
<1> USE DEF HInv, AInv
<1>0. ~late /\ PendingHeld /\ HoldingsBooked
  BY SessionStep
<1> SUFFICES ASSUME NEW r \in Row, book'[r].status = "pending_open",
                    held'[book'[r].spread] # 0
             PROVE  EntryFilled(r)'
  BY DEF PendingHeld
<1>1. ASSUME NEW s \in Spread, WriteEntry(r, s) PROVE FALSE
  <2>1. book'[r].spread = s /\ held' = held /\ NoCollision(s)
    BY <1>1 DEF WriteEntry, broker, RInv, IInv, TypeOK
  <2>2. PICK q \in Row : book[q].status \in Active /\ book[q].spread = s
    BY <1>0, <2>1 DEF HoldingsBooked
  <2>3. InMemory(q)
    BY <1>0, <1>1, <2>2 DEF WriteEntry, RInv, IInv, Agreement, MemoryMirrorsBook
  <2> QED
    BY <2>1, <2>2, <2>3 DEF NoCollision
<1>2. CASE book[r].status = "pending_open"
  <2>1. book'[r].spread = book[r].spread
    BY <1>2, RowStep DEF RowMoved, RInv
  <2>2. CASE held[book[r].spread] # 0
    BY <1>0, <1>2, <2>2, EntryFilledKept DEF PendingHeld
  <2>3. CASE held[book[r].spread] = 0
    <3>1. PICK o \in Order : /\ Fill(o) /\ order[o].state = "working" /\ Owner(o, r)
                             /\ order[o].spread = book[r].spread
      BY <1>2, <2>1, <2>3, HeldByOwner DEF InPlay, Active
    <3>2. order[o].side = "entry"
      BY <1>2, <3>1, OwnerRow DEF LiveOwned, RInv
    <3>3. order[o].qty = 1 /\ order[o].filled = 0
      BY <3>1, <3>2 DEF EntriesWhole, LiveOwned, RInv, IInv, TypeOK, Ticket
    <3>4. order'[o].state = "filled"
      BY <3>1, <3>3, FillEffect DEF RInv, IInv
    <3>5. book' = book /\ pc' = pc /\ curRow' = curRow /\ curOrder' = curOrder
      BY <3>1 DEF Fill, engine, store, control
    <3>6. CASE pendingEntries[o] = r
      <4>1. book[r].order = o
        BY <3>6, SentinelAssumption DEF RInv, IInv, Agreement, PendingEntryBacked, PendingEntryIds
      <4> QED
        BY <3>4, <3>5, <4>1 DEF EntryFilled
    <3>7. CASE pc = "recordEntry" /\ curOrder = o /\ curRow = r
      BY <3>4, <3>5, <3>7 DEF EntryFilled
    <3> QED
      BY <3>1, <3>2, <3>6, <3>7 DEF Owner
  <2> QED
    BY <2>2, <2>3
<1> QED
  BY <1>1, <1>2, PendingRowStep DEF RInv

(* The exit that fills takes the only lot there is, and until the poller   *)
(* sees it no entry of that spread is placed.                              *)
LEMMA ClosedHeldStep ==
    ASSUME HInv, [Next]_vars, Reliable, ~late'
    PROVE  ClosedHeld'
<1> USE DEF HInv, AInv
<1>0. ~late /\ ClosedHeld /\ day # "settled"
  BY SessionStep DEF late
<1> SUFFICES ASSUME NEW o \in Order, pendingExits'[o] \in Row, order'[o].state = "filled"
             PROVE  held'[book'[pendingExits'[o]].spread] = 0
  BY DEF ClosedHeld
<1>1. pendingExits'[o] = pendingExits[o]
  <2>1. ~ExitPlaced(o)
    BY TicketFacts DEF ExitPlaced
  <2> QED
    BY <2>1, SentinelAssumption, ExitTrackerStep DEF ExitTrackerMoved, RInv
<1>r. PICK r \in Row : r = pendingExits[o]
  BY <1>1
<1>2. /\ book[r].status \in {"open", "expired"} /\ InPlay(r) /\ o \in PendingExitIds
      /\ order[o].side = "exit" /\ order[o].state # "unused"
  BY <1>r, SentinelAssumption DEF RInv, IInv, Agreement, PendingExitBacked, PendingExitIds, InPlay,
     Active, Calm
<1>3. book'[r].spread = book[r].spread
  BY <1>2, RowStep DEF RowMoved, RInv
<1>4. ASSUME NEW p \in Order, Owner(p, r), order[p].state = "working" PROVE p = o
  <2>1. Owner(o, r)
    BY <1>r, <1>2 DEF Owner
  <2> QED
    BY <1>4, <2>1, OneOwned
<1>5. CASE order[o].state = "filled"
  <2>1. held[book[r].spread] = 0
    BY <1>0, <1>r, <1>5 DEF ClosedHeld
  <2>2. held'[book[r].spread] = held[book[r].spread]
    BY <1>2, <1>4, <1>5, HeldByOwner
  <2> QED
    BY <1>1, <1>r, <1>3, <2>1, <2>2
<1>6. CASE order[o].state # "filled"
  <2>1. Fill(o) /\ order[o].state = "working" /\ order[o].filled + 1 = order[o].qty
    <3>1. order[o] \in Ticket
      BY DEF RInv, IInv, TypeOK
    <3>2. ~OrderTurned(o)
      BY <1>6, <3>1 DEF OrderTurned, Ticket
    <3>3. Fill(o)
      BY <1>2, <1>6, <3>2, OrderStep DEF OrderMoved, RInv
    <3>4. order[o].state = "working"
      BY <3>3 DEF Fill, Calm
    <3> QED
      BY <1>6, <3>3, <3>4, FillEffect DEF RInv, IInv
  <2>2. order[o].spread = book[r].spread /\ book[r].spread \in Spread
    <3>1. PICK q \in Row : Owner(o, q) /\ book[q].spread = order[o].spread
      BY <2>1 DEF LiveOwned
    <3>2. q = r
      BY <1>r, <1>2, <3>1 DEF Owner
    <3> QED
      BY <1>2, <3>1, <3>2 DEF RInv, IInv, Agreement, SpreadKnown
  <2>3. /\ order[o].filled \in Nat /\ order[o].qty \in Nat /\ held[book[r].spread] \in Int
        /\ order[o].qty - order[o].filled = held[book[r].spread]
    BY <1>0, <1>2, <2>1, <2>2 DEF ExitsExact, RInv, IInv, TypeOK, Ticket
  <2>4. held[book[r].spread] = 1
    BY <2>1, <2>3
  <2>5. held' = [held EXCEPT ![order[o].spread] = held[order[o].spread] - 1]
    BY <1>2, <2>1 DEF Fill
  <2>6. held'[book[r].spread] = 0
    BY <2>2, <2>4, <2>5 DEF RInv, IInv, TypeOK
  <2> QED
    BY <1>1, <1>r, <1>3, <2>6
<1> QED
  BY <1>5, <1>6

(* A lot enters the account for a row in play, and the row stays until the *)
(* lot has left.                                                           *)
LEMMA HoldingsStep ==
    ASSUME HInv, [Next]_vars, Reliable, ~late'
    PROVE  HoldingsBooked'
<1> USE DEF HInv, AInv, RInv
<1>0. ~late /\ PendingHeld /\ ClosedHeld /\ HoldingsBooked
  BY SessionStep
<1> SUFFICES ASSUME NEW s \in Spread, held'[s] # 0
             PROVE  \E r \in Row : book'[r].status \in Active /\ book'[r].spread = s
  BY DEF HoldingsBooked
<1>1. CASE held[s] # 0
  <2>1. PICK r \in Row : book[r].status \in Active /\ book[r].spread = s
    BY <1>0, <1>1 DEF HoldingsBooked
  <2>2. book'[r].spread = s
    BY <2>1, RowStep DEF RowMoved, Active
  <2>3. book[r].status = "pending_open" => EntryFilled(r)
    BY <1>0, <1>1, <2>1 DEF PendingHeld
  <2> SUFFICES ASSUME book'[r].status \notin Active PROVE FALSE
    BY <2>1, <2>2
  <2>4. ~(EntryRefused /\ r = curRow)
    BY <2>3, SentinelAssumption DEF EntryRefused, EntryFilled, IInv, ControlInv
  <2>5. ASSUME NEW o \in Order, PollEntry(o), pendingEntries[o] = r,
               OnFillConfirmed(o) \/ OnEntryCancelled(o)
        PROVE  FALSE
    <3>1. ~OnFillConfirmed(o)
      BY <2>5, WriteBothEffect DEF OnFillConfirmed, Active, IInv
    <3>2. book[r].order = o /\ book[r].status = "pending_open"
      BY <1>0, <2>5, SentinelAssumption DEF IInv, ControlInv, Agreement, PendingEntryBacked,
         PendingEntryIds
    <3> QED
      BY <2>3, <2>5, <3>1, <3>2 DEF OnEntryCancelled, PollEntry, EntryFilled
  <2>6. ASSUME NEW o \in Order, PollExit(o), pendingExits[o] = r, OnCloseConfirmed(o)
        PROVE  FALSE
    BY <1>0, <1>1, <2>1, <2>6 DEF ClosedHeld, OnCloseConfirmed
  <2>7. ~EodSweep /\ (\A q \in Spread : ~WriteEntry(r, q))
    BY <1>0, <2>1 DEF EodSweep, WriteEntry, Fresh, Active
  <2> QED
    BY <2>1, <2>4, <2>5, <2>6, <2>7, CalmRules, RowCauseStep DEF RowCause, StartupSync, Timeout
<1>2. CASE held[s] = 0
  <2>1. PICK o \in Order : Fill(o) /\ order[o].spread = s
    BY <1>2, HeldStep DEF HeldMoved, Settle, CloseInTws, Reliable, IInv, late
  <2>2. order[o].state = "working"
    BY <2>1 DEF Fill, Calm
  <2>3. PICK r \in Row : Owner(o, r) /\ book[r].spread = s
    BY <2>1, <2>2 DEF LiveOwned
  <2>4. book[r].status \in Active
    <3>1. InPlay(r)
      BY <2>2, <2>3, OwnerRow DEF LiveOwned
    <3> QED
      BY <1>0, <3>1 DEF InPlay, NoneExpired
  <2> QED
    BY <2>1, <2>3, <2>4 DEF Fill, engine, store
<1> QED
  BY <1>1, <1>2

(* Until the market closes the account holds nothing that the database     *)
(* does not count as active, when orders fill whole and IBKR is reliable:  *)
(* a row is rolled back or closed only when IBKR holds nothing for it.     *)
THEOREM HoldingsAreBooked ==
    ASSUME Faults \subseteq {"lost", "db", "reject"}, Lots = 1
    PROVE  Spec => []HoldingsBooked
<1>0. Reliable
  BY DEF Reliable
<1>1. Init /\ AInv => HInv
  <2> SUFFICES ASSUME Init, AInv PROVE HInv
    OBVIOUS
  <2> USE DEF Init
  <2>1. EntriesWhole /\ PendingHeld
    BY DEF EntriesWhole, NoTicket, PendingHeld, BlankRow
  <2>2. ClosedHeld
    BY SentinelAssumption DEF ClosedHeld
  <2>3. HoldingsBooked
    BY DEF HoldingsBooked
  <2> QED
    BY <2>1, <2>2, <2>3 DEF HInv
<1>2. HInv /\ AInv' /\ [Next]_vars => HInv'
  <2> SUFFICES ASSUME HInv, AInv', [Next]_vars PROVE HInv'
    OBVIOUS
  <2>1. EntriesWhole'
    BY EntriesWholeStep DEF HInv
  <2>2. ASSUME ~late' PROVE PendingHeld' /\ ClosedHeld' /\ HoldingsBooked'
    BY <1>0, <2>2, PendingHeldStep, ClosedHeldStep, HoldingsStep
  <2> QED
    BY <2>1, <2>2 DEF HInv
<1>3. HInv => HoldingsBooked \/ late
  BY DEF HInv
<1>4. late => HoldingsBooked
  BY DEF HoldingsBooked
<1>5. Spec => []AInv
  BY <1>0, Account
<1> QED
  BY <1>1, <1>2, <1>3, <1>4, <1>5, PTL DEF Spec
=============================================================================
