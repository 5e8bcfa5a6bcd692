# A TLA+ model of the IBKR trader engine

The engine sells SPX 0DTE credit spreads through Interactive Brokers. It keeps a
record of its positions in `positions.db`, mirrors that record in memory, and
must keep both in step with an account that changes on its own: orders fill in
part, late, or not at all; IBKR rejects and cancels; a trader closes lots in
TWS; the process dies and is started again. This directory holds TLA+ models of
that, the TLC configurations that check them, and proofs about them.

Paths below are relative to the repository; `engine.py` without a directory is
`src/engine.py`.

## 1. Inventory

| Component | State it keeps | Operations | Talks to | What makes it correct |
|---|---|---|---|---|
| Tick loop and order lifecycle (`engine.py`) | `_pending_entries`, `_pending_exits` and their times, `_eod_expiry_done`, `_combo_sub_keys` | `tick`, `_poll_pending_orders`, `_check_pending_timeouts`, the five `_on_*` handlers, `_close_expired_positions`, `_on_exit_checked`, `_on_enter_approved`, `run` | every other component, by calls on one thread | every order is tracked until it is resolved, every resolved order is booked once, on its own row |
| Reconciliation (`engine.py`) | none of its own | `_sync_positions_with_ibkr`, at start-up (a call after a rejected exit is written but never reached) | account query, store | rows follow the account: gone means expired, present means open, unknown legs get a row, nothing twice |
| Position store (`position_store.py`) | `_positions`, a list of `TradePosition` | `load_open`, `add_position`, `rollback_position`, `close_position`, `get_open`, `get_open_strikes` | positions database; the engine also edits the list directly | the list is the set of active rows |
| Positions database (`trades_db.py`) | table `positions` (status, lots, order id, dates), table `signals` | insert-or-ignore, status, fill, lot and order-id updates, the two "active rows" queries | SQLite file, shared with a dashboard | a closed row is final; one row per position |
| Tick processor (`tick_processor.py`) | none | exits first, then at most one entry per tick | risk manager, engine callbacks | exits are checked on every tick that has data |
| Order execution (`executor.py`) | none | margin estimate, `execute_entry`, `execute_exit` | IBKR client | an order is for the lots of its position |
| IBKR client (`blocking_ib_client.py`) | request queue, connection events, combo tickers; one background thread | a blocking call per request with a time-out, reconnect loop, client-id collision exit | TWS/Gateway | a caller gets the answer to its own request or an error; market-data lines follow open positions |
| Launcher, watchdog, stop script (`scripts/*.sh`) | lock directory, pidfile, exit sentinel | start, restart, back off, stop | cron, each other | at most one engine; a collision backs off |
| Risk manager, VIX buckets (`risk_manager.py`, `vix_buckets.py`) | none | `evaluate_entry`, `evaluate_exit`, bucket lookup | combined snapshot | documented filters, boundaries |
| Day gate (`day_gate.py`) | a rolling buffer | pre-fill, update, evaluate | GEX database | blocks entries exactly under its rule |
| Combined reader, sources (`combined_reader.py`, `data_sources.py`, `*_reader.py`) | none | as-of join of scanner, GEX and TradingView data | three databases or Supabase | a stale or partial join is never used as fresh |
| Database retry (`db_utils.py`) | none | bounded retries | SQLite | gives up in bounded time |
| Notifications, Supabase writers, logging, backtest, entry points | - | output, replay, argument parsing | - | - |

The engine is **one thread**. Every hard behaviour comes from what moves while
that thread is inside a call: the account between two queries of one tick, the
IB thread's queue after a caller has given up, the clock that ages a pending
order, 16:00 ET, a crash at any point, another launcher.

`PROJECT.json` lists the components with their status, and the hazards with the
line each bites at.

## 2. Plan

| Order | Module | Subject | State |
|---|---|---|---|
| 1 | `OrderLifecycle` | tick loop, trackers, store, database, reconcile, account | done |
| 2 | `OrderLifecycle_proofs`, `OrderTracking_proofs`, `OrderAccount_proofs` | its inductive invariant; the safety theorems of rows and trackers; those of the account | done |
| 3 | `PositionLedger` | what the database promises of its rows, as an abstract state machine; `OrderLifecycle` implements it | done, proved |
| 4 | `IBClient`, `BrokerCall` | request queue, time-outs, reconnects, collision exit, combo lines; the abstract call OrderLifecycle uses (answered, failed, executed late) as the specification it implements | done, proved (`IBClient_proofs`) |
| 5 | `Launcher` | both forms of the launch lock, pidfile, reaper, sentinel, watchdog, stop | done, proved |
| 6 | `VixBuckets`, `EntryRules`, `ExitRules`, `DayGate` | entry and exit decisions over strikes and legs, buckets, rolling gate, as operators | done |
| 7 | `MarketTick` | extractors, the as-of join read by read, the fresh and the stale path of a tick; composes the four above | done, proved (`MarketTick_proofs`, `MarketGate_proofs`) |
| 8 | - | leg consumption and orphan pairing of the reconcile when spreads share a long strike | open |

Runs are few on purpose: one per question, and one per disagreement between the
code and what the repository says of it. Every safety property that a passing run
checks is also a theorem. Left for proofs: by how much the account can be oversold
under each of the faults that `NoOversell` excludes.

## 3. `OrderLifecycle`: the model

### State

| Variable | Code |
|---|---|
| `book` | the rows of `positions`: status, spread, `num_contracts`, `order_id`, and whether `order_time` carries today's date (orphans have none) |
| `memory` | `PositionStore._positions`, by row: how often the object is listed, its status and lots |
| `pendingEntries`, `pendingExits` | the engine's dictionaries, order id to row; an exit may be filed under `None` (`NoOrder`) |
| `aged` | ids whose entry in the `_pending_*_times` dictionaries is older than `PENDING_TIMEOUT_SECONDS` |
| `pc`, `todo`, `curRow`, `curOrder` | where in `tick()` the thread is, what the loop it is in has left, the row and order in hand |
| `eodDone` | today is in `_eod_expiry_done` |
| `order`, `held`, `day` | IBKR: orders, lots per spread, time of day (session, after 16:00, settled) |

### Steps

A step is what the thread does between two calls that take time. `PollEntry`,
`PollExit`, `TimeoutEntry`, `TimeoutExit`, `ExitCheck` are one iteration of the
loop they are named after, with the whole handler inside: the tracker it drops,
the row it writes, the list it filters. Placing an order is three steps (row and object, order, tracker and
`order_id`), because a crash or a fill can fall between them. IBKR's actions
interleave with all of these.

`PollInactive` is what happens to an order that IBKR has turned Inactive. The
poller is meant to call `_on_entry_rejected` or `_on_close_rejected`, but takes
two of their arguments from fields that the order's status does not have
(`engine.py:505`, `539`), and the exception ends the tick. So these two handlers
are no actions of the model, and neither is the reconcile that the second one
would run.

`ReconcileStore` is the reconcile in one step, as `run()` calls it at start-up:
no order is tracked yet, and the list has just been loaded, with every object
once. It reads the account once, and its three passes write nothing but rows and
the list; each pass is a set of rows because until the close an active row is
the only one of its spread (`OneActiveRowPerSpread`, proved).

### Faults

`Faults` selects what the environment may do in a run: `crash`, `slow` (orders
outlive ten minutes), `late` (a placement times out in the client and executes
afterwards), `reject` (an exit is refused, or an order turns Inactive after
acknowledgement), `lost` (a query or a
cancel fails), `manual` (lots closed in TWS), `db` (the database cannot be
opened). The refusal of an entry, cancellation by IBKR and partial fills need no
fault: they can always happen.

### Abstractions

* Decisions (`evaluate_entry`, `evaluate_exit`, day gate, margin, buckets) are
  nondeterministic choices; so is fresh or stale data. `MarketTick` has them.
* A spread is one value and spreads share no leg. `MarketTick` shows what the
  collision check makes sure of (`LegsNeverNet`); long legs may still share a
  strike, and what the reconcile makes of that is not modelled.
* Money, snapshots, signals and notifications are left out; nothing in the
  lifecycle branches on them.
* One trading day. The next day's rows are other rows.
* A failing database is modelled where a resolved order is booked, a position
  synced and a day swept. Not modelled: a failure of the very insert of a new
  row, of the write of `order_id`, or in the middle of a handler that has
  already committed something.

### The ledger it implements

`PositionLedger` forgets the engine. It has the status and the spread of every
row and whether the session lasts, and says which transitions a row may make:

| When | Transitions |
|---|---|
| always | none to open (an orphan), pending_open to open or deleted, open to expired or closed |
| in the session | none to pending_open; active rows have different spreads |
| after it | pending_open to expired, expired to open, closed or deleted |

None of the functions that write a status looks at the status that was there
(`update_position_status`, `update_position_fill`, `rollback_position`), so that
these are the only transitions follows from who is tracked when. The refinement
mapping takes `status` and `spread` from `book` and `session` from `day`. The
last line of the table is the price of the sweep: an entry still pending at
16:00 is booked expired, and its order may later confirm or delete that row.

### Bounds

| Bound | Where | Why it is enough |
|---|---|---|
| rows, orders, spreads | cfg | two of each are needed for two positions to disturb one another (an exit of one rejected while the other is pending); a third order lets an exit be repeated; the reliable run has a third row so that an orphan can be inserted beside two rows |
| `Lots` | cfg | 1, or 2 where half-filled orders matter; `config.yaml` trades 5 |
| copies of an object | `TypeOK` | the code can list one at most twice; proved |

The proofs have no bounds.

### Fairness

`FairSpec` assumes that the engine takes a step again and again (`run()` catches
every exception of a tick and ticks on; cron and the watchdog start a dead
engine) and that ten minutes pass over a pending order. IBKR is assumed to do
nothing at all: `PendingResolves` holds if no order is ever filled, cancelled or
found. Calls return because each has a time-out in the client. What it does not
survive is an order that IBKR has turned Inactive while it is tracked; this is
part of its statement, and `RejectedResolves` shows it under the same fairness.

## 4. `IBClient`: the model

The engine's thread and the IB thread share a queue and a few flags. The engine
puts a request with a fresh `ResultHolder` into the queue and waits for the
holder or for a time-out; the IB thread connects, serves the queue and pumps
its event loop. `IBClient` has both threads, IBKR's side of the session, and
the part of the engine that uses the market-data lines.

| Variable | Code |
|---|---|
| `requestQueue`, `holder`, `connected`, `shutdown`, `comboTickers` | the fields of `_IBThreadState`; a call id stands for a holder and is used again when no thread has it |
| `serving`, `thread` | the request in the IB thread's hands; whether the thread runs, died of `SystemExit` or ended |
| `at`, `mine`, `curKey` | where the engine's thread is, the call it waits for, the position it marks or sweeps |
| `comboSubKeys`, `pos` | `_combo_sub_keys`; each position's life |
| `session`, `lines`, `gateway`, `foreign` | IBKR: the session of the current `IB` instance, lines per position, whether it accepts connections, whether another session has the client id |

Taking a request and finishing it are two steps, because the event loop runs in
between and the caller may give up. The environment's faults: `outage`,
`collide`, `callback` (an event handler raises and clears `_connected`, the
session stays open at IBKR), `error` (a request raises), `slow` (a time-out
passes while the request could be served; without it a caller gives up only
when it cannot be).

A reconnect from `_on_disconnected` runs inside the event loop and fails; the
main loop connects. At shutdown the handler runs outside of it and may succeed,
which is the second branch of `StopThread`. Left out: `connect()` and
`_health_check()`, which the engine never calls, and the fill callback, which it
never registers. What a request asks is left to `OrderLifecycle`.

`BrokerCall` is what a caller may expect: a call is executed at most once and in
order, a caller that is answered is answered by its own call, and a call given
up on may still be executed, before anything asked later. The mapping reads a
call's phase from `mine`, `holder` and the queue. `OrderLifecycle` relies on
this: its orders "queued" are placements given up on.

Bounds: two holders (one given up on, one awaited, so a late answer can meet a
later call) and one position, as positions do not share lines. Three holders
were checked with the same result.

Fairness: both threads run, time-outs pass, and every tick visits each open
position and sweeps (strongly, since a visit waits for the tick to be free).
A request that the IB thread serves ends, with a result or an error. For most
requests the client sees to it, but `reqPositions()` and `reqAllOpenOrders()`
wait for IBKR without a time-out, so this presumes that IBKR answers them or the
connection breaks. `RequestsDrain` assumes in its premise that the gateway is
back for good and no other session has the client id. Deadlock is not checked:
the process may exit.

## 5. `Launcher`: the model

Three scripts share files in `/tmp` and `run.pid`, and know of one another only
by `kill -0`. An attempt is one watchdog tick with the run script it starts, or a
run script started by hand; watchdog and script can be killed apart. A step is
one command that reads or writes a shared file.

| Variable | Code |
|---|---|
| `lock` | the watchdog's and the run script's lock: who has the file locked, or what the lock directory's `pid` names (`NoPid` before it is written, `OldNoPid` when it is older than `LOCK_STALE_SECS`) |
| `at`, `watched`, `forked` | each attempt's next command, whether a live watchdog waits for it, its `NEW_PID` |
| `engines`, `pidfile`, `sentinel` | live `run.py` processes, `run.pid`, `/tmp/ibkr-engine.last_exit` |
| `stop`, `market`, `kills` | the stop script's next command, the market-hours test, killed scripts |
| `env` | the host, fixed: whether `flock` is installed, and its faults |

`acquire_lock` exists twice, with different paths, and is modelled once, for each
lock `l`. Where `flock` is installed it is one step. With a lock directory it is
look, clean, make, record, and that is what `v_two_engines` is about. The engine
inherits descriptor 9 of the run script (`run-ibkr-engine.sh:213`), so with
`flock` it holds the launch lock on when its script is killed, until it dies;
`UnnamedEngineExcludes` depends on it.

The reaper runs `wait` in a subshell for a process that is not the subshell's
child, so it writes 127 at once (`ReaperCode`). The engine's exit code 2 never
reaches the watchdog, `should_backoff_duplicate` never holds a restart back, and
`EngineComesUp` holds whatever the sentinel's age.

Bounds: two attempts (two ticks, or one beside a start by hand; a third behaves
like one of them that has ended and starts again), two engines, one kill in
`launcher` and two in `v_two_engines`: there one kill is not enough. A process id
is not used again while a file names it.

Fairness: cron fires the watchdog again and again (strongly: a tick needs a
moment at which the stop script is not running and no lock names its process id), scripts go on, a
minute passes over a directory without a pid. No engine need die and nobody need
stop or kill anything. Deadlock is not checked: with cron idle nothing need run.

## 6. `MarketTick`: the model

The extractors write rows at any time; a tick reads the scanner, GEX and
TradingView one after the other, so rows arrive in between. `MarketTick` has the
join, the two paths of `tick()`, the gate and the decisions. What becomes of an
order once it is sent is `OrderLifecycle`'s, and is up to the environment here
(`Filled`, `ExitCancelled`, `Gone`).

| Variable | Code |
|---|---|
| `rows`, `clock` | what each extractor has written; time in units of five minutes |
| `at`, `path`, `snap` | the read the tick is at, `tick()` or `_run_exit_checks_on_stale()`, what this pass has read so far |
| `gate` | `_day_gate`: the buffer and the timestamp seen last |
| `buckets` | what `parse_buckets` makes of the config |
| `positions` | the store's list: spreads with their baselines, pending, open or with an exit pending |
| `world` | fixed: the source (SQLite in two spellings of `received_at`, or Supabase), which extractors may miss a unit, the faults, what rows may say, the config's buckets |

`VixBuckets` has parsing and lookup, `EntryRules` the RSI side gate,
`evaluate_entry` and `check_strike_collision`, `ExitRules` `evaluate_exit` with
its hard stop and six votes, `DayGate` pre-fill, de-duplication, pruning and the
two-of-three rule. Prices are integers in one unit, multiples percentages,
averages sums.

What is worth knowing of the code when reading it:

* The stale path reads a second time. If that succeeds it runs the whole of
  `process_tick`, and the gate is not asked (`v_gate`).
* In the cloud `scan_at` ignores the timestamp and reads the latest scan, which
  may be later than the one the windows are taken from. `JoinAsOf` therefore
  bounds the age of the GEX row by the first read there.
* Local TradingView rows are compared as strings. The lower bound is written
  with a space and the upper bound with a `T` (`combined_reader.py:208-217`,
  `472-492`), so for each spelling of `received_at` one of the two bounds says
  nothing within a day: `TvInWindow`. A live tick cannot see rows from after it,
  but it may act on a TradingView row of any age.
* Nothing compares a scan with the clock. When the scanner stops, every tick
  joins the same old scan, and after thirty minutes the gate's buffer is empty,
  which counts as open.

Worlds (`MCMarketTick`): rules (strikes that collide, levels near and far, moving
marks), feeds (silent extractors, locked databases, crashes, all three sources),
gate (enough units for samples to leave the window), buckets (overlaps, gaps,
shared bounds, an order that differs from the sorted one).

Assumptions: what an extractor may say is undated until it is written and a world has
a horizon; the scanner's strikes are out of the money (`WorldsAssumption`; it
picks them at a delta of 0.03, and `evaluate_entry` takes the absolute distance);
a spread is sold at least one expected move from spot and from the major level
and one vote buys nothing back (`ThresholdsAssumption`; `config.yaml` has 300 %,
100 to 150 % and 3 votes, the code's default is 2). `enabled` of the gate is true.

Bounds: `MaxPositions` is two (a collision is between two spreads), a horizon of
a few units per world, one row per extractor and unit; `FreshWindow` is one unit
and `GateWindow` two, so a row and a sample can be just inside and just outside.

Fairness: the engine's loop goes on. Extractors, clock and IBKR owe nothing;
`CrossedIsExited` is about worlds without faults, in which the latest scan can be
joined, and fails with failing reads: a `RuntimeError` of the connect ends the
tick, exit checks included. It is about the market's side of a tick: the polling
of orders comes first, and one that raises (`PollInactive` of `OrderLifecycle`)
ends the tick before its exit checks too. Deadlock is not checked: a config whose buckets do
not parse never starts, and a world ends.

## 7. What is checked

| Run | Faults | Question | Size |
|---|---|---|---|
| `lifecycle_faults` | all seven | do trackers, rows, list and account agree whatever happens, and is the database a ledger | 993 819 states |
| `lifecycle_tracked` | reject, slow, manual; 2 lots | can an order or a pending row escape the trackers | 482 648 states |
| `lifecycle_reliable` | lost, db, reject | does the account ever go short, or hold lots no row stands for | 122 228 states |
| `lifecycle_liveness` | slow, lost, reject, late | is every pending order resolved, unless an Inactive one is pending | 36 452 states |
| `ibclient` | all five of `IBClient` | is a call answered by its own request, are the lines those the thread knows, does the queue drain | 34 242 states |
| `launcher` | a killed script, starts by hand, an overlapping stop script | does one engine run at most, is its pidfile kept, does an engine that is down come up | 756 662 states |
| `market` | silent extractors, locked databases, crashes, malformed buckets | what does a tick join, whom does the gate count, which spreads are sold and which bought back | 181 009 states |

`NoOversell` and `HoldingsBooked` are checked without time-outs and crashes on
purpose: with them the code does not have these properties. An order that times
out may still fill, and exits are not persisted. `HoldingsBooked` is checked with
orders that fill whole; at two lots it fails, because an entry cancelled half
filled loses its row (`engine.py:897`). Rejected exits do no harm to the account:
their trackers stay, and block the position.

Runs that expect a violation; each checks a sentence of the repository:

| Run | The repository says | The code does |
|---|---|---|
| `v_inactive` | the poller hands an order that IBKR reports inactive or rejected to a handler that drops its tracker (`engine.py:832`, `867`) | it raises before it calls the handler; the order stays tracked, and this tick and all later ones that find it end there |
| `v_restart` | pending orders are never lost across restarts (`engine.py:317`) | the recovery query compares a time of day with a date and selects nothing |
| `v_collision` | on a client-id collision the engine exits with 2 (`blocking_ib_client.py:26`) | `sys.exit` ends the IB thread only; the engine goes on without a broker |
| `v_two_engines` | two watchdog ticks cannot fork duplicate processes (`docs/CRON.md:66`) | two ticks that both find a stale lock directory remove each other's and both fork |
| `v_gate` | the gate blocks new entries (`engine.py:2201`) | the stale path sells without asking it |

`v_inactive` is the one that matters most. `engine.py:505-506` and `539-540` read
`trade.orderStatus.errorCode` and `.errorMessage`; the `OrderStatus` of ib-async
2.1.0, which `requirements.txt:15` pins, has neither (`errorCode` is an argument
of the library's error event), and no test polls an Inactive order. The library
is not part of the repository, so this rests on its documented fields. The only
`try` of `_poll_pending_orders` is around its first query; `run()` catches the
`AttributeError`, logs it and ticks on (`engine.py:2388`). From then on, and until
the engine is restarted or connects anew (when no query finds the order any
more, and it is timed out), no tick gets past that order: nothing behind it is
polled, nothing times out, no position is checked for exit, nothing is swept.

Other disagreements met while modelling, without a run of their own:

* A `NameError` at the first stale exit ends the tick with the others unchecked
  (`engine.py:624`; 554 says that all are).
* An exit rejected at acknowledgement is added to the pending exits
  (`engine.py:1578`; `blocking_ib_client.py:642` says never). With the id of an
  Inactive order it ends the ticks that follow, as above.
* A new position is appended to the list twice (`engine.py:1236`,
  `position_store.py:401`). Its second exit check finds what the first one did;
  Pass 1 of the reconcile would find no legs for the second copy and expire the
  row, but no reconcile runs after an entry.
* The sweep books an entry that never filled at full profit (`trades_db.py:668`;
  `engine.py:2002` says that what expires collected its credit).
* After a reconnect `_combo_sub_keys` still lists its keys, so an open position
  gets no fresh line (`engine.py:242`; `blocking_ib_client.py:246` says it does).
* The reconcile at start-up promotes a half filled entry, or one that has not
  filled when older lots of its spread are left (`engine.py:1710`); an entry cancelled half filled loses its row
  (`engine.py:897`).
* The third collision condition of `risk_manager.py:28-37` is not implemented.
* `day_gate.py:94-97` says that the gate de-duplicates by GEX reading; its key is
  the scan's timestamp, and the pre-fill's key a GEX timestamp. In a backtest the
  gate's window is wall-clock time (`day_gate.py:162`).
* `engine.py:171-172` says that a gate that starts empty is pre-filled on the
  first successful tick; nothing does.
* `risk_manager.py:495-498` says that two votes keep the protection positions had
  before; `config.yaml` asks for three.
* `tick_processor.py:57-59` says that outside the buckets no side passes the RSI
  gate; the top bucket's thresholds let one pass (`evaluate_entry` declines).
* `backtest.py:566-575` does not take the `current_debit` that
  `tick_processor.py:310-320` passes, so a replay ends with a `TypeError` at the
  first tick after an entry; behind that, `backtest.py:579` ignores the hard
  stop, which reports no conditions.

Symmetry over rows, orders and spreads is used in the safety runs only.

## 8. What is proved

`OrderLifecycle_proofs` proves, for any finite or infinite sets of rows, orders
and spreads, any number of lots and any set of faults:

* `TypeCorrect`: `Spec => []TypeOK`
* `EntriesBacked`, `ExitsBacked`: a tracker stands for its own row, and a row
  has one pending exit at most
* `MemoryMirrors`: the list agrees with the database
* `NoDoubledSpread`: until the close no spread has two active rows
* `ImplementsLedger`: `Spec => LedgerSpec`, the refinement of `PositionLedger`

from `LotsAssumption` and `SentinelAssumption` alone.

None of these is inductive by itself. `IInv` joins them with two facts:
`ControlInv` (what `pc` says of `todo`, `curRow` and `curOrder`: while an order
is being placed its row is pending, names no order and is in the list; a row
being closed is open and has no pending exit) and `Agreement` (the four
properties, plus that an active row has a spread and that one order is not both
an entry and an exit). They need one another: a confirmed or rolled back entry
leaves `PendingEntryBacked` of the others only because their rows name other
orders; a position opened by its fill is on the list for its exit checks
because the pending row was, which is `MemoryMirrorsBook`;
`OneActiveRowPerSpread` survives an orphan's insertion only because an active
row is listed; and that survives a reload because only active rows are loaded.
The reconcile itself meets no trackers, which is in `ControlInv` (before the
first tick there are none).

The proof has one lemma per action, grouped by what the action writes:
`OneRowWritten` covers the handlers that write a single row, `ReconcileAgrees`
the reconcile, `BrokerPreserves` and `ControlPreserves` the steps that write
none. `Inductive` combines them; the theorems follow from it. For the refinement
`RowStep` shows, action by action, that a row makes a legal transition (a row is
confirmed or deleted only from what `PendingEntryBacked` allows, closed only
from what `PendingExitBacked` allows), `SessionStep` that the close of the market
writes no row, and `LedgerStep` carries both over the mapping.

`IInv` was checked by TLC on the instance of `lifecycle_faults` before it was
proved.

`Launcher_proofs` proves, for any number of attempts, engines and kills and from
`EnvironmentAssumption` and `ProcessAssumption`:

* `TypeCorrect`: `Spec => []TypeOK`
* `NoSecondEngine`, `UnnamedExcludes`: `OneEngine` and `UnnamedEngineExcludes`
* `PidfileSurvives`: `PidfileKept`, from the invariant at both ends of a step

`IInv` is `TypeOK` and `Safe`, which says, where the lock holds, who owns it:
an attempt in the critical section holds the launch lock, a lock directory names
a living holder or one about to write its name, and an engine is named by the
pidfile, or holds the lock, or its launcher is about to name it. `OneEngine`
alone is not inductive: a fork keeps it only because an engine that the pidfile
does not name would hold the lock its launcher needs.

`MarketTick_proofs` proves, for any worlds, rows, thresholds and window, from
`WorldsAssumption`, `NumbersAssumption` and `ThresholdsAssumption`:

* `JoinsAsOf`: `Spec => []JoinAsOf`
* `NeverNets`: `Spec => []LegsNeverNet`
* `NotExitedAtOnce`: `Spec => EntryNotExited`. A spread just sold is a move from
  spot and from its level, so neither proximity nor `near_major` votes; its
  baselines are the snapshot's, so trend, vol and momentum do not; one vote, the
  premium's, is left
* `ExitIsMonotone`: `Spec => []ExitMonotone`. Coming closer adds votes
  (`NearerVotes`), and so does a mark (`MoreVotes`)
* `BucketsArePartition`: `Spec => []BucketsPartition`, by `HasLeast` and
  `HasLargest` on finite sets of integers

`IInv` joins `Recorded` (rows are the extractors', none from the future),
`Joined` (what each read of the pass has found), `Sold` (positions are spreads
with a side, a strike and an entry baseline, no two of which net) and `Parsed`
(sorted buckets that meet). `JoinAsOf` needs `Recorded` because in the cloud the
second scan is only known to be no earlier than the first.

`MarketGate_proofs` adds, from the same assumptions, `TypeCorrect` (`Spec =>
[]TypeOK`) and `GateIsOnWindow` (`Spec => GateOnWindow`). `GateInv` says that the
buffer is in the order of arrivals and of scans, that no scan in it is later than
the one the gate saw last, that this one was written and is no later than what
the pass has asked for, and that its sample, which has an RSI, is the last of the
buffer. The first of these makes pruning from the head right (`PrunedIsTail`);
the others say that a scan that differs from the last one is later than all
(`AppendedKeeps`), although only the last is compared. The pre-fill numbers its
rows by counting those before each (`Prefilled`), so that its proof needs no
theory of sorting.

`OrderTracking_proofs` and `OrderAccount_proofs` continue `OrderLifecycle_proofs`
with what holds under fewer faults. A theorem names the faults in its hypothesis;
everything else is left open, rows, orders, spreads and, but for one, lots.

| Theorem | Property | Hypothesis |
|---|---|---|
| `OrdersTracked` | `LiveOrdersTracked` | no `crash`, `late`, `lost` |
| `RowsAwaited` | `AwaitedRowsTracked` | no `crash`, `db` |
| `NeverOversells` | `NoOversell` | `lost`, `db` and `reject` at most |
| `HoldingsAreBooked` | `HoldingsBooked` | `lost`, `db` and `reject` at most, one lot |

Each hypothesis leaves out what the code does not survive: an unpersisted exit or
a broken recovery (`crash`), a placement or a cancel that the engine takes to be
done or undone wrongly (`late`, `lost`), a handler that forgets an order before it
fails (`db`).

* `Recorded` (no hypothesis) adds to `IInv` that an order id is written to one
  row only. `PendingEntryBacked` does not give this: it is silent about rows
  whose order is no longer tracked.
* The tracking theorems classify steps: what may happen to an order
  (`OrderStep`), to the id of a row (`RowOrderStep`), to a tracker
  (`EntryTrackerStep`, `ExitTrackerStep`), to the status of a row
  (`RowCauseStep`). An order that loses its tracker is dead or asked to cancel,
  and where the database opens its row is decided with it.
* `AInv`, for the account: nothing times out, crashes or reconciles, and no
  working order has been asked to cancel (`Calm`), rows that may still change differ in their spreads
  (`Apart`), a working order belongs to one of them (`LiveOwned`), and a working
  exit is for exactly the lots held (`ExitsExact`), as is the one about to be
  placed (`Placing`). `NoOversell` needs all of it: a fill takes a lot from the
  exit and from the account at once, and stays exact because no second order of
  that spread can work beside it.
* `HInv` adds that what a pending row has in the account came from its own entry
  (`PendingHeld`) and that a filled exit has left nothing (`ClosedHeld`).
* `AInv` and `HInv` were checked by TLC on the instance of `lifecycle_reliable`
  before they were proved.

`IBClient_proofs` proves, for any number of calls and positions and every set of
faults, from `ClientAssumption`:

* `TypeCorrect`: `Spec => []TypeOK`
* `StreamsAreTickers`: `Spec => []LinesAreTickers`
* `ImplementsBrokerCall`: `Spec => CallSpec`, the refinement of `BrokerCall`

`IInv` joins the types with `EngineInv` (which call and position each place of the
engine's thread has), `QueueInv` (the sentinel of `disconnect()` is the one
element that is no request, and is last) and `CallInv` (a call is in line at most
once, and the awaited call is in line exactly as long as its holder is empty).
The last tells the awaited answer from a late one. The refinement goes action by action: taking a request
stutters, finishing it removes the first of the line and answers its caller, if
it still waits.

Every invariant and action property that a passing run checks is thus a theorem
too. Only model-checked are the liveness properties `PendingResolves`,
`RequestsDrain`, `EngineComesUp` and `CrossedIsExited` (fairness and `ENABLED` are
outside the prover), and the violations, which are counterexamples. The averages
of the gate (`Sum`, a recursive function) are used in the runs and no theorem
says what they compute: that would be an induction over data.

## 9. Not modelled, and why

* Backtest. `backtest.py` stops at the first exit check (above); what
  `engine.run_backtest` replays is the tick of `MarketTick`, one row after the
  other with nothing in between.
* The retry loops of `db_utils.py` are bounded loops around one call;
  `ReadFails` is their outcome.
* Reuse of process ids: `kill -0` asks whether some process has the recorded id
  (`ibkr-engine-watchdog.sh:206`), so an unrelated process can stand in for an
  engine or for a lock's holder.
* Legs of the reconcile when two spreads share a long strike.
* A database that fails in the middle of a handler that has begun to write.
* Supabase writers, Telegram and logging (output only), contracts and schema
  records (no state) and the entry points.

## 10. Running

    tlc -workers 2 -config lifecycle_faults.cfg MCOrderLifecycle.tla
    tlc -workers 2 -config ibclient.cfg IBClient.tla
    tlc -workers 2 -config launcher.cfg MCLauncher.tla
    tlc -workers 2 -config market.cfg MCMarketTick.tla
    tlapm OrderLifecycle_proofs.tla
    tlapm Launcher_proofs.tla
    tlapm MarketTick_proofs.tla
    tlapm MarketGate_proofs.tla
    tlapm OrderTracking_proofs.tla
    tlapm OrderAccount_proofs.tla
    tlapm IBClient_proofs.tla
