----------------------------- MODULE MarketTick -----------------------------
(***************************************************************************)
(* One tick of the engine as the market sees it: the extractors write      *)
(* scanner, GEX and TradingView rows; the engine joins them, asks the day  *)
(* gate, checks every open position for its exit and may sell one spread   *)
(* (engine.tick, combined_reader.py, tick_processor.py).  The rules are in *)
(* EntryRules and ExitRules, the gate in DayGate; what becomes of an order *)
(* is OrderLifecycle's subject and is up to the environment here.          *)
(*                                                                         *)
(* The clock counts units of five minutes.  Each read of a tick is a step, *)
(* so extractors write in between.  Bounds: a world ends at its horizon;   *)
(* each extractor writes at most one row a unit; MaxPositions.             *)
(***************************************************************************)
EXTENDS ExitRules

CONSTANTS
    Worlds,         \* see Init
    FreshWindow,    \* FRESNESS_WINDOW_MIN
    GateWindow, GateCfg,
    MarketHours,    \* the units in which is_market_open() is true
    MaxPositions

VARIABLES
    world,          \* the world, fixed
    clock,
    rows,           \* per extractor: the rows it has written
    at,             \* what the engine reads or does next
    path,           \* tick(), or _run_exit_checks_on_stale()
    snap,           \* what has been read in this pass
    gate,           \* _day_gate
    buckets,        \* what vix_buckets.py makes of the config
    positions       \* the store's list, with what became of each

vars == <<world, clock, rows, at, path, snap, gate, buckets, positions>>

INSTANCE DayGate

(* A world says                                                            *)
(* source   "spaced", "iso": local SQLite with TradingView's received_at   *)
(*          written with a space or a T; "cloud": Supabase                 *)
(* silent   the extractors that may miss a unit                            *)
(* faults   "locked": local reads may fail; "crash"                        *)
(* data     per extractor: what a row may say                              *)
(* marks    the live debits a spread may have                              *)
(* keys     the vix_buckets of config.yaml                                 *)
(* horizon  its last unit                                                  *)
Feeds == {"scan", "gex", "tv"}
ASSUME WorldsAssumption ==
    \A w \in Worlds :
        /\ w.data["scan"] \subseteq ScanData /\ \A d \in w.data["scan"] : OutOfTheMoney(d)
        /\ w.data["gex"] \subseteq GexData /\ w.data["tv"] \subseteq TvData
        /\ w.keys \subseteq [lo: Int, hi: Int, params: EntryParams] /\ IsFiniteSet(w.keys)
        /\ \A f \in Feeds : \A d \in w.data[f] : d.ts = 0       \* WriteRow dates it
        /\ w.horizon \in Nat
ASSUME NumbersAssumption ==
    /\ None \notin Int \cup ScanData \cup GexData \cup TvData
    /\ FreshWindow \in Nat /\ GateWindow \in Nat /\ MaxPositions \in Nat
(* A spread is sold at least one expected move from spot and from the      *)
(* major level, and one vote alone buys nothing back.                      *)
ASSUME ThresholdsAssumption ==
    /\ ExitCfg.votes \in Nat /\ ExitCfg.votes >= 2
    /\ \A w \in Worlds : \A k \in w.keys : k.params.fromSpot >= 100 /\ k.params.fromGex >= 100
Sources == {"spaced", "iso", "cloud"}
ReadPlaces == {"scan", "row", "gex", "tv"}
NoSnap == [asked |-> None, scan |-> None, gex |-> None, tv |-> None]

Init ==
    /\ world \in Worlds
    /\ clock = 0
    /\ rows = [f \in Feeds |-> {}]
    /\ at = "start"
    /\ path = "fresh"
    /\ snap = NoSnap
    /\ gate = EmptyGate
    /\ buckets = <<>>
    /\ positions = {}

MarketOpen == clock \in MarketHours
OpenSpreads == {q.spread : q \in positions}

-----------------------------------------------------------------------------
(* The extractors, other programs.                                         *)

Written(f) == \E r \in rows[f] : r.ts = clock
WriteRow(f) ==
    /\ ~Written(f)
    /\ \E d \in world.data[f] : rows' = [rows EXCEPT ![f] = @ \cup {[d EXCEPT !.ts = clock]}]
    /\ UNCHANGED <<world, clock, at, path, snap, gate, buckets, positions>>

TimePasses ==
    /\ clock < world.horizon
    /\ \A f \in Feeds \ world.silent : Written(f)
    /\ clock' = clock + 1
    /\ UNCHANGED <<world, rows, at, path, snap, gate, buckets, positions>>

-----------------------------------------------------------------------------
(* combined_reader.py.                                                     *)

Latest(S) == CHOOSE r \in S : \A q \in S : q.ts <= r.ts

(* scan_at: the row of that timestamp; in the cloud the latest row,        *)
(* whatever the timestamp.                                                 *)
ScanAt(ts) == IF world.source = "cloud" THEN Latest(rows["scan"])
              ELSE CHOOSE r \in rows["scan"] : r.ts = ts

(* Mutant of GexInWindow: no upper bound.                                  *)
GexInWindow_Unbounded(ts) == {r \in rows["gex"] : ts - FreshWindow <= r.ts}
GexInWindow(ts) == {r \in rows["gex"] : ts - FreshWindow <= r.ts /\ r.ts <= ts}

(* Local timestamps are compared as strings.  The lower bound is written   *)
(* with a space and the upper one with a T: of one date, a row with a T is *)
(* above any lower bound, a row with a space below any upper one.          *)
TvInWindow(ts) ==
    {r \in rows["tv"] :
        /\ world.source = "iso" \/ ts - FreshWindow <= r.ts
        /\ world.source = "spaced" \/ r.ts <= ts}

(* ---- The engine starts ---- *)

(* __init__: the gate is filled from the GEX rows before the latest scan,  *)
(* if a snapshot can be joined.                                            *)
Joinable ==
    /\ rows["scan"] # {}
    /\ LET ts == Latest(rows["scan"]).ts IN GexInWindow(ts) # {} /\ TvInWindow(ts) # {}
GateRows == LET ts == Latest(rows["scan"]).ts
            IN  {r \in rows["gex"] : ts - GateWindow <= r.ts /\ r.ts <= ts}
StartEngine ==
    /\ at = "start"
    /\ buckets' \in Sorted(world.keys) /\ IsPartition(buckets')
    /\ \/ gate' = IF Joinable THEN Prefilled(GateRows, clock) ELSE EmptyGate
       \/ "locked" \in world.faults /\ gate' = EmptyGate
    /\ at' = "scan"
    /\ UNCHANGED <<world, clock, rows, path, snap, positions>>

Crash ==
    /\ "crash" \in world.faults /\ at # "start"
    /\ at' = "start" /\ path' = "fresh" /\ snap' = NoSnap /\ gate' = EmptyGate
    /\ UNCHANGED <<world, clock, rows, buckets, positions>>

(* ---- The reads of a pass ---- *)

EndTick == at' = "scan" /\ path' = "fresh" /\ snap' = NoSnap

(* Mutant of FallBack: the second pass keeps what the first has read.      *)
FallBack_KeepsSnap ==
    IF path = "fresh" THEN at' = "scan" /\ path' = "stale" /\ UNCHANGED snap ELSE EndTick
(* StaleDataError and OperationalError end the first pass; the stale path  *)
(* reads once more, and neither error gets it further.                     *)
FallBack ==
    IF path = "fresh" THEN at' = "scan" /\ path' = "stale" /\ snap' = NoSnap ELSE EndTick

ReadLatestScan ==
    /\ at = "scan"
    /\ IF rows["scan"] = {} THEN EndTick
       ELSE /\ snap' = [snap EXCEPT !.asked = Latest(rows["scan"]).ts]
            /\ at' = "row"
            /\ UNCHANGED path
    /\ UNCHANGED <<world, clock, rows, gate, buckets, positions>>

ReadScanRow ==
    /\ at = "row"
    /\ snap' = [snap EXCEPT !.scan = ScanAt(snap.asked)]
    /\ at' = "gex"
    /\ UNCHANGED <<world, clock, rows, path, gate, buckets, positions>>

ReadGex ==
    /\ at = "gex"
    /\ LET found == GexInWindow(snap.asked)
       IN  IF found = {} THEN FallBack
           ELSE snap' = [snap EXCEPT !.gex = Latest(found)] /\ at' = "tv" /\ UNCHANGED path
    /\ UNCHANGED <<world, clock, rows, gate, buckets, positions>>

ReadTv ==
    /\ at = "tv"
    /\ LET found == TvInWindow(snap.asked)
       IN  IF found = {} THEN FallBack
           ELSE snap' = [snap EXCEPT !.tv = Latest(found)] /\ at' = "act" /\ UNCHANGED path
    /\ UNCHANGED <<world, clock, rows, gate, buckets, positions>>

(* A database that stays locked through the retries is an OperationalError *)
(* of the query, or a RuntimeError of the connect, which tick() does not   *)
(* catch.                                                                  *)
ReadFails ==
    /\ "locked" \in world.faults /\ at \in ReadPlaces
    /\ FallBack \/ EndTick
    /\ UNCHANGED <<world, clock, rows, gate, buckets, positions>>

-----------------------------------------------------------------------------
(* tick() with a snapshot.                                                 *)

Sample == [time |-> clock, gex |-> snap.gex.oi, dist |-> snap.scan.spx - snap.gex.zero,
           rsi |-> snap.tv.rsi, scan |-> snap.scan.ts]

(* _run_exit_checks: every open position, with the mark it has or none; a  *)
(* position with a pending exit is not sent another.                       *)
ExitChecks(debit) ==
    {IF q.status = "open" /\ ShouldExit(q.spread, snap, debit[q])
     THEN [q EXCEPT !.status = "exiting"] ELSE q : q \in positions}
Debits == [positions -> world.marks \cup {None}]

(* process_tick after the exit checks.  An approved entry may still fail   *)
(* to be ordered.                                                          *)
NewSpreads ==
    LET side == TargetSide(buckets, snap.tv)
    IN  IF ~MarketOpen \/ side = None THEN {} ELSE Approved(snap, side, buckets, OpenSpreads)
ProcessTick ==
    \E debit \in Debits :
        \/ positions' = ExitChecks(debit)
        \/ \E n \in NewSpreads :
              /\ Cardinality(positions) < MaxPositions
              /\ positions' = ExitChecks(debit) \cup {[spread |-> n, status |-> "pending"]}

(* Mutant of TickFresh: a closed gate stops exit checks too.               *)
TickFresh_NoExits ==
    /\ at = "act" /\ path = "fresh"
    /\ gate' = Updated(gate, Sample, clock)
    /\ IF Blocked(gate'.buffer) THEN UNCHANGED positions ELSE ProcessTick
    /\ EndTick
    /\ UNCHANGED <<world, clock, rows, buckets>>
(* Fresh data: the gate sees it first; a closed gate leaves exit checks,   *)
(* while the market is open.                                               *)
TickFresh ==
    /\ at = "act" /\ path = "fresh"
    /\ gate' = Updated(gate, Sample, clock)
    /\ IF Blocked(gate'.buffer)
       THEN IF MarketOpen THEN \E debit \in Debits : positions' = ExitChecks(debit)
            ELSE UNCHANGED positions
       ELSE ProcessTick
    /\ EndTick
    /\ UNCHANGED <<world, clock, rows, buckets>>

(* _run_exit_checks_on_stale: the whole of process_tick, without the gate. *)
TickStale ==
    /\ at = "act" /\ path = "stale"
    /\ ProcessTick
    /\ EndTick
    /\ UNCHANGED <<world, clock, rows, gate, buckets>>

-----------------------------------------------------------------------------
(* What becomes of orders and positions: see OrderLifecycle.               *)

Filled == \E q \in positions :
    /\ q.status = "pending"
    /\ positions' = (positions \ {q}) \cup {[q EXCEPT !.status = "open"]}
    /\ UNCHANGED <<world, clock, rows, at, path, snap, gate, buckets>>
ExitCancelled == \E q \in positions :
    /\ q.status = "exiting"
    /\ positions' = (positions \ {q}) \cup {[q EXCEPT !.status = "open"]}
    /\ UNCHANGED <<world, clock, rows, at, path, snap, gate, buckets>>
Gone == \E q \in positions :
    /\ positions' = positions \ {q}
    /\ UNCHANGED <<world, clock, rows, at, path, snap, gate, buckets>>

Tick == ReadLatestScan \/ ReadScanRow \/ ReadGex \/ ReadTv \/ TickFresh \/ TickStale
Next ==
    \/ \E f \in Feeds : WriteRow(f)
    \/ TimePasses
    \/ StartEngine \/ Crash
    \/ Tick \/ ReadFails
    \/ Filled \/ ExitCancelled \/ Gone

Spec == Init /\ [][Next]_vars

(* The engine's loop goes on, whatever the extractors and the clock do.    *)
FairSpec == Spec /\ WF_vars(StartEngine) /\ WF_vars(Tick)

-----------------------------------------------------------------------------
(* Properties.                                                             *)

RowOf(f, r) == r = None \/ r \in rows[f]
Statuses == {"pending", "open", "exiting"}

(* Types; a tick holds rows the extractors wrote, in the order it reads    *)
(* them, and the store has at most MaxPositions (tick, combined_reader.py).*)
TypeOK ==
    /\ world \in Worlds /\ clock \in 0..world.horizon
    /\ at \in ReadPlaces \cup {"start", "act"} /\ path \in {"fresh", "stale"}
    /\ \A f \in Feeds : \A r \in rows[f] :
          /\ r.ts \in 0..clock /\ [r EXCEPT !.ts = 0] \in world.data[f]
          /\ \A q \in rows[f] : q.ts = r.ts => q = r
    /\ \A f \in Feeds : RowOf(f, snap[f])
    /\ snap.asked # None <=> at \in {"row", "gex", "tv", "act"}
    /\ snap.scan # None <=> at \in {"gex", "tv", "act"}
    /\ snap.gex # None <=> at \in {"tv", "act"}
    /\ snap.tv # None <=> at = "act"
    /\ Cardinality(positions) <= MaxPositions
    /\ \A q \in positions : q.status \in Statuses

(* No look-ahead: a tick acts on the GEX row as of its scan, none from     *)
(* after it; and none older than the window, except in the cloud, where    *)
(* the scan may be one written since the first read (get_combined_snapshot)*)
JoinAsOf ==
    at = "act" =>
        /\ snap.gex.ts <= snap.scan.ts
        /\ snap.gex.ts >= (IF world.source = "cloud" THEN snap.asked ELSE snap.scan.ts) - FreshWindow
        /\ world.source = "cloud" => snap.tv.ts <= snap.scan.ts

(* What a gate may be asked about: samples in the order of their arrival,  *)
(* none older than the window, no scan counted twice, and an RSI among     *)
(* them, as an average of none would be 0 and count as extreme.            *)
SoundBuffer(buffer, now) ==
    /\ \A i, j \in DOMAIN buffer : i < j => buffer[i].time <= buffer[j].time
    /\ \A i \in DOMAIN buffer : buffer[i].time >= now - GateWindow
    /\ \A i, j \in DOMAIN buffer :
          i # j /\ buffer[i].scan # None => buffer[i].scan # buffer[j].scan
    /\ buffer # <<>> => \E i \in DOMAIN buffer : buffer[i].rsi # None

(* Whenever the gate is evaluated its buffer is sound, though samples are  *)
(* dropped from the head only, a restart fills it anew and stale ticks     *)
(* pass it by (DayGate.update).                                            *)
GateOnWindow ==
    [][at = "act" /\ path = "fresh" /\ at' = "scan" => SoundBuffer(gate'.buffer, clock)]_vars

(* Selling one spread after another never puts a second short leg, or a    *)
(* long leg, at a strike that is short already, though exits may be        *)
(* pending or cancelled (check_strike_collision, get_open_strikes).        *)
LegsNeverNet ==
    \A p, q \in positions : p # q => p.spread.short \notin {q.spread.short, q.spread.long}

(* A spread is never sold on a snapshot on which evaluate_exit would buy   *)
(* it back at once, whatever its mark (evaluate_entry, evaluate_exit).     *)
EntryNotExited ==
    [][\A q \in positions' : q.status = "pending" /\ q \notin positions =>
          \A debit \in world.marks \cup {None} : ~ShouldExit(q.spread, snap, debit)]_vars

(* The exit decision is monotone: with SPX closer to or further beyond the *)
(* short strike, or with a mark where there was none, what was to be       *)
(* bought back still is (evaluate_exit).                                   *)
Nearer(p, s) == {t \in {[s EXCEPT !.scan.spx = d.spx] : d \in world.data["scan"]} :
                    IF p.side = "CALL" THEN t.scan.spx >= s.scan.spx ELSE t.scan.spx <= s.scan.spx}
ExitMonotone ==
    at = "act" =>
        \A q \in positions : \A debit \in world.marks \cup {None} :
            ShouldExit(q.spread, snap, None) =>
                /\ ShouldExit(q.spread, snap, debit)
                /\ \A t \in Nearer(q.spread, snap) : ShouldExit(q.spread, t, None)

(* While the engine runs, each VIX from the lowest to the highest bound is *)
(* in exactly one bucket, and the one classify returns; no other is in any *)
(* (parse_buckets, classify).                                              *)
BucketsPartition ==
    at # "start" => \A d \in {d \in world.data["tv"] : d.vix # None} :
        LET hits == {i \in DOMAIN buckets : InBucket(buckets, i, d.vix)}
        IN  /\ Cardinality(hits) <= 1
            /\ hits # {} <=> \E k, l \in world.keys : k.lo <= d.vix /\ d.vix <= l.hi
            /\ Classify(buckets, d.vix) = IF hits = {} THEN None ELSE buckets[CHOOSE i \in hits : TRUE]

(* If nothing fails, the engine does not stay in front of an open position *)
(* whose short strike SPX has crossed, as long as the market is open and   *)
(* the latest scan can be joined (L1 in evaluate_exit, run).  What the     *)
(* polling of orders does to a tick before its exit checks is not in here. *)
Unhandled ==
    /\ MarketOpen /\ Joinable
    /\ \E q \in positions :
          /\ q.status = "open"
          /\ Crossed(q.spread, [scan |-> Latest(rows["scan"])])
CrossedIsExited == world.faults = {} => []<>~Unhandled

-----------------------------------------------------------------------------
(* What the repository says and the code does not do.                      *)

(* engine.py, tick: the gate "blocks new entries, exits always run".       *)
GateBlocksEntries ==
    [][\A q \in positions' : q.status = "pending" /\ q \notin positions => ~Blocked(gate'.buffer)]_vars
=============================================================================
