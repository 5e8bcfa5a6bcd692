-------------------------- MODULE MarketGate_proofs --------------------------
(* The types of the market tick and the soundness of the buffer that the   *)
(* day gate is asked about, for any rows, any window and any hours.        *)
EXTENDS MarketTick_proofs, SequenceTheorems

-----------------------------------------------------------------------------
(* Types.                                                                  *)

(* The rows written are those of the world, one an extractor and unit.     *)
RowsTyped ==
    /\ clock <= world.horizon
    /\ \A f \in Feeds : IsFiniteSet(rows[f])
    /\ \A f \in Feeds : \A r \in rows[f] :
          /\ [r EXCEPT !.ts = 0] \in world.data[f]
          /\ \A q \in rows[f] : q.ts = r.ts => q = r

(* A pass holds the rows it has come to, and they are rows.                *)
PassTyped ==
    /\ at \in ReadPlaces \cup {"start", "act"} /\ path \in {"fresh", "stale"}
    /\ \A f \in Feeds : RowOf(f, snap[f])
    /\ snap.asked # None <=> at \in {"row", "gex", "tv", "act"}
    /\ snap.scan # None <=> at \in {"gex", "tv", "act"}
    /\ snap.gex # None <=> at \in {"tv", "act"}
    /\ snap.tv # None <=> at = "act"

(* The store is within its limit.                                          *)
StoreTyped ==
    /\ IsFiniteSet(positions) /\ Cardinality(positions) <= MaxPositions
    /\ \A q \in positions : q.status \in Statuses

TInv == RowsTyped /\ PassTyped /\ StoreTyped

(* The initial state is well typed.                                        *)
LEMMA InitTyped == Init => TInv
<1> SUFFICES ASSUME Init PROVE TInv
  OBVIOUS
<1> USE NumbersAssumption, WorldsAssumption
<1>1. IsFiniteSet({}) /\ Cardinality({}) = 0
  BY FS_EmptySet
<1>2. RowsTyped
  BY <1>1 DEF Init, RowsTyped, Feeds
<1>3. PassTyped
  BY DEF Init, PassTyped, NoSnap, Feeds, RowOf
<1>4. StoreTyped
  BY <1>1 DEF Init, StoreTyped
<1> QED
  BY <1>2, <1>3, <1>4 DEF TInv

(* What an extractor may say, with its date filled in, is a row: dated,    *)
(* and as it was but for the date.                                         *)
LEMMA Dated ==
    ASSUME Recorded, NEW f \in Feeds, NEW d \in world.data[f]
    PROVE  /\ [d EXCEPT !.ts = clock].ts = clock
           /\ [[d EXCEPT !.ts = clock] EXCEPT !.ts = 0] = d
           /\ [d EXCEPT !.ts = clock] # None
<1>1. d.ts = 0 /\ clock \in Nat /\ world \in Worlds
  BY WorldsAssumption DEF Recorded
<1>2. CASE f = "scan"
  <2>1. d \in ScanData
    BY <1>1, <1>2, WorldsAssumption
  <2>2. [d EXCEPT !.ts = clock] \in ScanData
    BY <1>1, <2>1 DEF ScanData
  <2> QED
    BY <1>1, <2>1, <2>2, NumbersAssumption DEF ScanData
<1>3. CASE f = "gex"
  <2>1. d \in GexData
    BY <1>1, <1>3, WorldsAssumption
  <2>2. [d EXCEPT !.ts = clock] \in GexData
    BY <1>1, <2>1 DEF GexData
  <2> QED
    BY <1>1, <2>1, <2>2, NumbersAssumption DEF GexData
<1>4. CASE f = "tv"
  <2>1. d \in TvData
    BY <1>1, <1>4, WorldsAssumption
  <2>2. [d EXCEPT !.ts = clock] \in TvData
    BY <1>1, <2>1 DEF TvData
  <2> QED
    BY <1>1, <2>1, <2>2, NumbersAssumption DEF TvData
<1> QED
  BY <1>2, <1>3, <1>4 DEF Feeds

(* An extractor writes once a unit, and time stops at the horizon.         *)
LEMMA RowsTypedStep == Recorded /\ RowsTyped /\ [Next]_vars => RowsTyped'
<1> SUFFICES ASSUME Recorded, RowsTyped, [Next]_vars PROVE RowsTyped'
  OBVIOUS
<1>1. ASSUME NEW f \in Feeds, WriteRow(f) PROVE RowsTyped'
  <2>1. PICK d \in world.data[f] : rows' = [rows EXCEPT ![f] = @ \cup {[d EXCEPT !.ts = clock]}]
    BY <1>1 DEF WriteRow
  <2> DEFINE r == [d EXCEPT !.ts = clock]
  <2>2. r.ts = clock /\ [r EXCEPT !.ts = 0] = d
    BY Dated
  <2>3. /\ world' = world /\ clock' = clock
        /\ \A q \in rows[f] : q.ts # clock
    BY <1>1 DEF WriteRow, Written
  <2>4. rows'[f] = rows[f] \cup {r} /\ \A g \in Feeds \ {f} : rows'[g] = rows[g]
    BY <2>1 DEF Recorded
  <2> HIDE DEF r
  <2>5. ASSUME NEW g \in Feeds PROVE IsFiniteSet(rows'[g])
    BY <2>4, FS_AddElement DEF RowsTyped
  <2>6. ASSUME NEW g \in Feeds, NEW x \in rows'[g]
        PROVE  /\ [x EXCEPT !.ts = 0] \in world.data[g]
               /\ \A q \in rows'[g] : q.ts = x.ts => q = x
    <3>1. CASE g = f
      BY <2>2, <2>3, <2>4, <2>6, <3>1 DEF RowsTyped
    <3>2. CASE g # f
      BY <2>4, <2>6, <3>2 DEF RowsTyped
    <3> QED
      BY <3>1, <3>2
  <2> QED
    BY <2>3, <2>5, <2>6 DEF RowsTyped
<1>2. CASE TimePasses
  <2>1. world.horizon \in Nat /\ clock \in Nat
    BY WorldsAssumption DEF Recorded
  <2> QED
    BY <1>2, <2>1 DEF TimePasses, RowsTyped
<1>3. CASE UNCHANGED <<world, clock, rows>>
  BY <1>3 DEF RowsTyped
<1> QED
  BY <1>1, <1>2, <1>3 DEF Next, vars, StartEngine, Crash, Tick, ReadLatestScan, ReadScanRow, ReadGex,
     ReadTv, TickFresh, TickStale, ReadFails, Filled, ExitCancelled, Gone

(* A pass that is begun anew holds nothing.                                *)
LEMMA NothingHeld ==
    ASSUME at' \in {"scan", "start"}, snap' = NoSnap, path' \in {"fresh", "stale"}
    PROVE  PassTyped'
BY DEF PassTyped, NoSnap, RowOf, Feeds, ReadPlaces

(* The row that a read picks is a row of its extractor.                    *)
LEMMA ReadsRow ==
    ASSUME Recorded, Joined
    PROVE  /\ rows["scan"] # {} => Latest(rows["scan"]) \in rows["scan"]
           /\ at = "row" => ScanAt(snap.asked) \in rows["scan"]
           /\ GexInWindow(snap.asked) # {} => Latest(GexInWindow(snap.asked)) \in rows["gex"]
           /\ TvInWindow(snap.asked) # {} => Latest(TvInWindow(snap.asked)) \in rows["tv"]
<1>0. "scan" \in Feeds /\ "gex" \in Feeds /\ "tv" \in Feeds
  BY DEF Feeds
<1>1. rows["scan"] # {} => Latest(rows["scan"]) \in rows["scan"]
  BY <1>0, LatestRow
<1>2. ASSUME at = "row" PROVE ScanAt(snap.asked) \in rows["scan"]
  <2>1. \E r \in rows["scan"] : r.ts = snap.asked
    BY <1>2 DEF Joined
  <2> QED
    BY <1>1, <2>1 DEF ScanAt
<1>3. GexInWindow(snap.asked) # {} => Latest(GexInWindow(snap.asked)) \in rows["gex"]
  <2>1. GexInWindow(snap.asked) \in SUBSET rows["gex"]
    BY DEF GexInWindow
  <2> QED
    BY <1>0, <2>1, LatestRow
<1>4. TvInWindow(snap.asked) # {} => Latest(TvInWindow(snap.asked)) \in rows["tv"]
  <2>1. TvInWindow(snap.asked) \in SUBSET rows["tv"]
    BY DEF TvInWindow
  <2> QED
    BY <1>0, <2>1, LatestRow
<1> QED
  BY <1>1, <1>2, <1>3, <1>4

(* Each read adds its own row to what the pass holds.                      *)
LEMMA ReadsTyped ==
    ASSUME Recorded, Joined, PassTyped, ReadLatestScan \/ ReadScanRow \/ ReadGex \/ ReadTv
    PROVE  PassTyped'
<1>0. /\ rows' = rows /\ snap = [asked |-> snap.asked, scan |-> snap.scan, gex |-> snap.gex, tv |-> snap.tv]
      /\ \A r \in rows["scan"] \cup rows["gex"] \cup rows["tv"] : r # None
      /\ \A r \in rows["scan"] : r.ts # None
      /\ path \in {"fresh", "stale"}
  BY NumbersAssumption DEF Recorded, Joined, PassTyped, ReadLatestScan, ReadScanRow, ReadGex, ReadTv, ScanData
<1>1. CASE ReadLatestScan
  <2>1. CASE rows["scan"] = {}
    BY <1>1, <2>1, NothingHeld DEF ReadLatestScan, EndTick
  <2>2. CASE rows["scan"] # {}
    <3>1. /\ at = "scan" /\ at' = "row" /\ path' = path
          /\ snap' = [snap EXCEPT !.asked = Latest(rows["scan"]).ts]
          /\ Latest(rows["scan"]) \in rows["scan"]
      BY <1>1, <2>2, ReadsRow DEF ReadLatestScan
    <3>2. /\ snap'.asked # None /\ snap'.scan = snap.scan /\ snap'.gex = snap.gex
          /\ snap'.tv = snap.tv /\ \A f \in Feeds : snap'[f] = snap[f]
      BY <1>0, <3>1 DEF Feeds
    <3> QED
      BY <1>0, <3>1, <3>2 DEF PassTyped, RowOf, ReadPlaces
  <2> QED
    BY <2>1, <2>2
<1>2. CASE ReadScanRow
  <2>1. /\ at = "row" /\ at' = "gex" /\ path' = path
        /\ snap' = [snap EXCEPT !.scan = ScanAt(snap.asked)]
        /\ ScanAt(snap.asked) \in rows["scan"]
    BY <1>2, ReadsRow DEF ReadScanRow
  <2>2. /\ snap'.asked = snap.asked /\ snap'.scan = ScanAt(snap.asked) /\ snap'.gex = snap.gex
        /\ snap'.tv = snap.tv /\ \A f \in Feeds \ {"scan"} : snap'[f] = snap[f]
    BY <1>0, <2>1 DEF Feeds
  <2> QED
    BY <1>0, <2>1, <2>2 DEF PassTyped, RowOf, ReadPlaces
<1>3. CASE ReadGex
  <2>1. CASE GexInWindow(snap.asked) = {}
    BY <1>3, <2>1, NothingHeld DEF ReadGex, FallBack, EndTick
  <2>2. CASE GexInWindow(snap.asked) # {}
    <3> DEFINE r == Latest(GexInWindow(snap.asked))
    <3>1. /\ at = "gex" /\ at' = "tv" /\ path' = path
          /\ snap' = [snap EXCEPT !.gex = r] /\ r \in rows["gex"]
      BY <1>3, <2>2, ReadsRow DEF ReadGex
    <3> HIDE DEF r
    <3>2. /\ snap'.asked = snap.asked /\ snap'.scan = snap.scan /\ snap'.gex = r
          /\ snap'.tv = snap.tv /\ \A f \in Feeds \ {"gex"} : snap'[f] = snap[f]
      BY <1>0, <3>1 DEF Feeds
    <3> QED
      BY <1>0, <3>1, <3>2 DEF PassTyped, RowOf, ReadPlaces
  <2> QED
    BY <2>1, <2>2
<1>4. CASE ReadTv
  <2>1. CASE TvInWindow(snap.asked) = {}
    BY <1>4, <2>1, NothingHeld DEF ReadTv, FallBack, EndTick
  <2>2. CASE TvInWindow(snap.asked) # {}
    <3> DEFINE r == Latest(TvInWindow(snap.asked))
    <3>1. /\ at = "tv" /\ at' = "act" /\ path' = path
          /\ snap' = [snap EXCEPT !.tv = r] /\ r \in rows["tv"]
      BY <1>4, <2>2, ReadsRow DEF ReadTv
    <3> HIDE DEF r
    <3>2. /\ snap'.asked = snap.asked /\ snap'.scan = snap.scan /\ snap'.gex = snap.gex
          /\ snap'.tv = r /\ \A f \in Feeds \ {"tv"} : snap'[f] = snap[f]
      BY <1>0, <3>1 DEF Feeds
    <3> QED
      BY <1>0, <3>1, <3>2 DEF PassTyped, RowOf, ReadPlaces
  <2> QED
    BY <2>1, <2>2
<1> QED
  BY <1>1, <1>2, <1>3, <1>4

(* Nothing else changes what a pass holds, but for ending it.              *)
LEMMA PassTypedStep == Recorded /\ Joined /\ PassTyped /\ [Next]_vars => PassTyped'
<1> SUFFICES ASSUME Recorded, Joined, PassTyped, [Next]_vars PROVE PassTyped'
  OBVIOUS
<1>1. ASSUME NEW f \in Feeds, WriteRow(f) PROVE PassTyped'
  <2>1. PICK d \in world.data[f] : rows' = [rows EXCEPT ![f] = @ \cup {[d EXCEPT !.ts = clock]}]
    BY <1>1 DEF WriteRow
  <2>2. \A g \in Feeds : rows[g] \subseteq rows'[g]
    BY <2>1 DEF Recorded
  <2>3. UNCHANGED <<at, path, snap>>
    BY <1>1 DEF WriteRow
  <2> QED
    BY <2>2, <2>3 DEF PassTyped, RowOf
<1>2. CASE UNCHANGED <<rows, at, path, snap>>
  BY <1>2 DEF PassTyped, RowOf
<1>3. CASE StartEngine
  <2>1. at = "start" /\ at' = "scan" /\ UNCHANGED <<rows, path, snap>>
    BY <1>3 DEF StartEngine
  <2> QED
    BY <2>1 DEF PassTyped, RowOf, ReadPlaces
<1>4. CASE Crash \/ TickFresh \/ TickStale
  BY <1>4, NothingHeld DEF Crash, TickFresh, TickStale, EndTick
<1>5. CASE ReadFails
  BY <1>5, NothingHeld DEF ReadFails, FallBack, EndTick
<1> QED
  BY <1>1, <1>2, <1>3, <1>4, <1>5, ReadsTyped
     DEF Next, vars, Tick, TimePasses, Filled, ExitCancelled, Gone

(* The exit checks list as many positions as before.                       *)
LEMMA ChecksTyped ==
    ASSUME Sold, StoreTyped, NEW debit
    PROVE  /\ IsFiniteSet(ExitChecks(debit))
           /\ Cardinality(ExitChecks(debit)) <= Cardinality(positions)
           /\ \A q \in ExitChecks(debit) : q.status \in Statuses
<1> DEFINE After(q) == IF q.status = "open" /\ ShouldExit(q.spread, snap, debit[q])
                       THEN [q EXCEPT !.status = "exiting"] ELSE q
           h == [q \in positions |-> After(q)]
<1>1. ExitChecks(debit) = {After(q) : q \in positions}
  BY DEF ExitChecks
<1>2. \A q \in positions : After(q).status \in Statuses
  BY DEF Sold, SoldIn, StoreTyped, Statuses
<1> HIDE DEF After
<1>3. h \in Surjection(positions, ExitChecks(debit))
  BY <1>1 DEF Surjection
<1>4. /\ IsFiniteSet(ExitChecks(debit))
      /\ Cardinality(ExitChecks(debit)) <= Cardinality(positions)
  <2> HIDE DEF h
  <2> QED
    BY <1>3, FS_Surjection DEF StoreTyped
<1> QED
  BY <1>1, <1>2, <1>4

(* A tick adds one position, if the store is not full.                     *)
LEMMA ProcessTyped ==
    ASSUME Sold, StoreTyped, ProcessTick
    PROVE  StoreTyped'
<1>1. PICK debit \in Debits :
          \/ positions' = ExitChecks(debit)
          \/ \E n \in NewSpreads :
                /\ Cardinality(positions) < MaxPositions
                /\ positions' = ExitChecks(debit) \cup {[spread |-> n, status |-> "pending"]}
  BY DEF ProcessTick
<1>2. /\ IsFiniteSet(ExitChecks(debit))
      /\ Cardinality(ExitChecks(debit)) <= Cardinality(positions)
      /\ \A q \in ExitChecks(debit) : q.status \in Statuses
  BY ChecksTyped
<1>3. /\ Cardinality(ExitChecks(debit)) \in Nat /\ Cardinality(positions) \in Nat
      /\ MaxPositions \in Nat /\ Cardinality(positions) <= MaxPositions
  BY <1>2, FS_CardinalityType, NumbersAssumption DEF StoreTyped
<1>4. CASE positions' = ExitChecks(debit)
  BY <1>2, <1>3, <1>4 DEF StoreTyped
<1>5. ASSUME NEW n \in NewSpreads, Cardinality(positions) < MaxPositions,
             positions' = ExitChecks(debit) \cup {[spread |-> n, status |-> "pending"]}
      PROVE  StoreTyped'
  <2> DEFINE p == [spread |-> n, status |-> "pending"]
  <2>1. p.status \in Statuses
    BY DEF Statuses
  <2> HIDE DEF p
  <2>2. positions' = ExitChecks(debit) \cup {p}
    BY <1>5 DEF p
  <2>3. /\ IsFiniteSet(positions')
        /\ Cardinality(positions') <= Cardinality(ExitChecks(debit)) + 1
    <3> DEFINE E == ExitChecks(debit)
    <3>1. IsFiniteSet(E) /\ Cardinality(E) \in Nat
      BY <1>2, <1>3
    <3> HIDE DEF E
    <3>2. /\ IsFiniteSet(E \cup {p})
          /\ Cardinality(E \cup {p}) = IF p \in E THEN Cardinality(E) ELSE Cardinality(E) + 1
      BY <3>1, FS_AddElement
    <3>3. Cardinality(E \cup {p}) <= Cardinality(E) + 1
      BY <3>1, <3>2
    <3> QED
      BY <2>2, <3>2, <3>3 DEF E
  <2>4. Cardinality(positions') \in Nat
    BY <2>3, FS_CardinalityType
  <2>5. Cardinality(positions') <= MaxPositions
    BY <1>2, <1>3, <1>5, <2>3, <2>4
  <2> QED
    BY <1>2, <2>1, <2>2, <2>3, <2>5 DEF StoreTyped
<1> QED
  BY <1>1, <1>4, <1>5

(* Orders that end or fill leave no more positions than there were.        *)
LEMMA StoreTypedStep == Sold /\ StoreTyped /\ [Next]_vars => StoreTyped'
<1> SUFFICES ASSUME Sold, StoreTyped, [Next]_vars PROVE StoreTyped'
  OBVIOUS
<1>0. Cardinality(positions) \in Nat /\ MaxPositions \in Nat
  BY FS_CardinalityType, NumbersAssumption DEF StoreTyped
<1>1. CASE UNCHANGED positions
  BY <1>1 DEF StoreTyped
<1>2. ASSUME NEW debit, positions' = ExitChecks(debit) PROVE StoreTyped'
  <2>1. /\ IsFiniteSet(ExitChecks(debit))
        /\ Cardinality(ExitChecks(debit)) <= Cardinality(positions)
        /\ \A q \in ExitChecks(debit) : q.status \in Statuses
    BY ChecksTyped
  <2>2. Cardinality(ExitChecks(debit)) \in Nat
    BY <2>1, FS_CardinalityType
  <2> QED
    BY <1>0, <1>2, <2>1, <2>2 DEF StoreTyped
<1>3. CASE TickFresh \/ TickStale
  BY <1>1, <1>2, <1>3, ProcessTyped DEF TickFresh, TickStale
<1>4. ASSUME NEW q \in positions, positions' = positions \ {q} PROVE StoreTyped'
  <2>1. IsFiniteSet(positions') /\ Cardinality(positions') <= Cardinality(positions)
    BY <1>4, FS_Subset DEF StoreTyped
  <2>2. Cardinality(positions') \in Nat
    BY <2>1, FS_CardinalityType
  <2> QED
    BY <1>0, <1>4, <2>1, <2>2 DEF StoreTyped
<1>5. CASE Filled \/ ExitCancelled
  <2>1. PICK q \in positions :
            positions' = (positions \ {q}) \cup {[q EXCEPT !.status = "open"]}
    BY <1>5 DEF Filled, ExitCancelled
  <2> DEFINE o == [q EXCEPT !.status = "open"]
             rest == positions \ {q}
  <2>2. o.status \in Statuses
    BY DEF Sold, SoldIn, Statuses
  <2>3. positions' = rest \cup {o}
    BY <2>1
  <2>4. IsFiniteSet(rest) /\ Cardinality(rest) = Cardinality(positions) - 1
    BY FS_RemoveElement DEF StoreTyped
  <2> HIDE DEF o
  <2>5. IsFiniteSet(rest \cup {o})
        /\ Cardinality(rest \cup {o}) = IF o \in rest THEN Cardinality(rest) ELSE Cardinality(rest) + 1
    <3> HIDE DEF rest
    <3> QED
      BY <2>4, FS_AddElement
  <2>6. Cardinality(positions') <= MaxPositions
    BY <1>0, <2>3, <2>4, <2>5 DEF StoreTyped
  <2> QED
    BY <2>2, <2>3, <2>5, <2>6 DEF StoreTyped
<1> QED
  BY <1>1, <1>3, <1>4, <1>5
     DEF Next, vars, WriteRow, TimePasses, StartEngine, Crash, Tick, ReadLatestScan, ReadScanRow,
     ReadGex, ReadTv, ReadFails, Gone

(* The types hold in every behaviour.                                      *)
THEOREM Typed == Spec => [](IInv /\ TInv)
<1>1. IInv /\ TInv /\ [Next]_vars => TInv'
  BY RowsTypedStep, PassTypedStep, StoreTypedStep DEF IInv, TInv
<1> QED
  BY <1>1, InitTyped, Inductive, PTL DEF Spec

(* Every variable keeps its type, a pass holds what it has read, and the   *)
(* store stays within its limit.                                           *)
THEOREM TypeCorrect == Spec => []TypeOK
<1>1. IInv /\ TInv => TypeOK
  <2> SUFFICES ASSUME IInv, TInv PROVE TypeOK
    OBVIOUS
  <2>1. world \in Worlds /\ clock \in Nat /\ world.horizon \in Nat
        /\ \A f \in Feeds : \A r \in rows[f] : r.ts \in 0..clock
    BY WorldsAssumption DEF IInv, Recorded
  <2> QED
    BY <2>1 DEF TInv, RowsTyped, PassTyped, StoreTyped, TypeOK
<1> QED
  BY <1>1, Typed, PTL

-----------------------------------------------------------------------------
(* The gate.                                                               *)

(* What the proof needs to know of a buffer: a sequence of samples, each   *)
(* with its arrival and the scan it came from, if any.                     *)
IsBuffer(b) ==
    /\ b \in Seq({b[i] : i \in DOMAIN b})
    /\ \A i \in DOMAIN b : b[i].time \in Nat /\ b[i].scan \in Nat \cup {None}

(* Samples stand in the order of their arrival and of their scans.         *)
Ordered(b) ==
    \A i, j \in DOMAIN b : i < j =>
        /\ b[i].time <= b[j].time
        /\ b[i].scan # None /\ b[j].scan # None => b[i].scan < b[j].scan

(* The timestamp last seen is a scan's (a GEX row's after a restart).      *)
ScanSeen == gate.last \in {"scan"} \X Nat

(* No scan in the buffer is later than the one last seen, which is none    *)
(* later than what the pass has asked for; and the sample of that scan,    *)
(* which has an RSI, is the last to leave.                                 *)
GateInv ==
    /\ gate = [buffer |-> gate.buffer, last |-> gate.last]
    /\ IsBuffer(gate.buffer) /\ Ordered(gate.buffer)
    /\ \A i \in DOMAIN gate.buffer :
          /\ gate.buffer[i].time <= clock
          /\ gate.buffer[i].scan # None => ScanSeen /\ gate.buffer[i].scan <= gate.last[2]
    /\ ScanSeen /\ gate.buffer # <<>> =>
          /\ gate.buffer[Len(gate.buffer)].rsi # None
          /\ \E r \in rows["scan"] : r.ts = gate.last[2]
          /\ at \in {"row", "gex", "tv", "act"} => gate.last[2] <= snap.asked

(* Pruning takes samples off the head, those that are out of the window;   *)
(* while the last one is in it there is something left.                    *)
LEMMA PrunedIsTail ==
    ASSUME NEW b, IsBuffer(b), Ordered(b), NEW now \in Nat
    PROVE  LET p == Pruned(b, now)
           IN  /\ IsBuffer(p)
               /\ \E k \in Nat :
                     /\ Len(p) = Len(b) - k
                     /\ \A i \in DOMAIN p : i + k \in DOMAIN b /\ p[i] = b[i + k]
               /\ \A i \in DOMAIN p : p[i].time >= now - GateWindow
               /\ b # <<>> /\ b[Len(b)].time >= now - GateWindow => p # <<>>
<1> DEFINE S == {b[i] : i \in DOMAIN b}
           fresh == {i \in DOMAIN b : b[i].time >= now - GateWindow}
           p == Pruned(b, now)
<1>1. /\ b \in Seq(S) /\ Len(b) \in Nat /\ DOMAIN b = 1..Len(b) /\ GateWindow \in Nat
      /\ \A i \in DOMAIN b : b[i].time \in Nat
  BY NumbersAssumption DEF IsBuffer
<1>2. CASE fresh = {}
  <2>1. p = <<>>
    BY <1>2 DEF Pruned
  <2>2. b # <<>> => ~(b[Len(b)].time >= now - GateWindow)
    BY <1>1, <1>2
  <2>3. Len(b) \in Nat /\ Len(p) = Len(b) - Len(b) /\ DOMAIN p = {}
    BY <1>1, <2>1
  <2>4. IsBuffer(p)
    BY <2>1 DEF IsBuffer
  <2> HIDE DEF p
  <2> QED
    BY <2>1, <2>2, <2>3, <2>4 DEF p
<1>3. CASE fresh # {}
  <2>1. fresh \in SUBSET Nat
    BY <1>1
  <2>2. PICK m \in fresh : \A j \in fresh : m <= j
    <3> HIDE DEF fresh
    <3> QED
      BY <1>3, <2>1, HasLeast
  <2> DEFINE h == CHOOSE i \in fresh : \A j \in fresh : i <= j
  <2>3. h \in fresh /\ \A j \in fresh : h <= j
    <3> HIDE DEF fresh
    <3> QED
      BY <2>2
  <2>4. p = SubSeq(b, h, Len(b))
    BY <1>3 DEF Pruned
  <2>5. h \in 1..Len(b) /\ b[h].time >= now - GateWindow
    BY <1>1, <2>3
  <2> HIDE DEF h, fresh, p
  <2>6. /\ p \in Seq(S) /\ Len(p) = Len(b) - h + 1
        /\ \A i \in 1..(Len(b) - h + 1) : p[i] = b[h + i - 1]
    <3>1. \A i \in h..Len(b) : b[i] \in S
      BY <1>1, <2>5
    <3>2. h \in Int /\ Len(b) \in Int /\ h <= Len(b)
      BY <1>1, <2>5
    <3> HIDE DEF S
    <3> QED
      BY <2>4, <3>1, <3>2, SubSeqProperties
  <2>7. DOMAIN p = 1..(Len(b) - h + 1)
    BY <2>6
  <2>8. ASSUME NEW i \in DOMAIN p
        PROVE  /\ i + (h - 1) \in DOMAIN b /\ p[i] = b[i + (h - 1)]
               /\ p[i].time >= now - GateWindow
    <3>0. h \in Int /\ Len(b) \in Int /\ i \in 1..(Len(b) - h + 1)
      BY <1>1, <2>5, <2>7
    <3>1. i \in Nat /\ i >= 1 /\ i <= Len(b) - h + 1
      BY <3>0
    <3>2. i + (h - 1) \in DOMAIN b /\ h + i - 1 = i + (h - 1)
      <4>1. h >= 1 /\ h <= Len(b)
        BY <1>1, <2>5
      <4>2. i + (h - 1) \in 1..Len(b) /\ h + i - 1 = i + (h - 1)
        BY <3>0, <3>1, <4>1
      <4> QED
        BY <1>1, <4>2
    <3>3. p[i] = b[i + (h - 1)]
      BY <2>6, <2>7, <2>8, <3>2
    <3>4. b[i + (h - 1)].time >= now - GateWindow
      <4>1. CASE i = 1
        BY <2>5, <3>1, <4>1
      <4>2. CASE i # 1
        <5>1. h < i + (h - 1) /\ h \in DOMAIN b
          BY <1>1, <2>5, <3>1, <4>2
        <5>2. b[h].time <= b[i + (h - 1)].time
          BY <3>2, <5>1 DEF Ordered
        <5>3. b[h].time \in Nat /\ b[i + (h - 1)].time \in Nat
          BY <1>1, <3>2, <5>1
        <5> QED
          BY <1>1, <2>5, <5>2, <5>3
      <4> QED
        BY <4>1, <4>2
    <3> QED
      BY <3>2, <3>3, <3>4
  <2>9. IsBuffer(p)
    <3>1. p \in Seq({p[i] : i \in DOMAIN p})
      BY <2>6
    <3> QED
      BY <2>8, <3>1 DEF IsBuffer
  <2>10. p # <<>>
    BY <1>1, <2>5, <2>6
  <2>11. h - 1 \in Nat /\ Len(p) = Len(b) - (h - 1)
    BY <1>1, <2>5, <2>6
  <2> QED
    BY <2>8, <2>9, <2>10, <2>11 DEF p
<1> QED
  BY <1>2, <1>3

(* The order of the buffer survives pruning.                               *)
LEMMA PrunedOrdered ==
    ASSUME NEW b, IsBuffer(b), Ordered(b), NEW now \in Nat
    PROVE  Ordered(Pruned(b, now))
<1> DEFINE p == Pruned(b, now)
<1>1. PICK k \in Nat : \A i \in DOMAIN p : i + k \in DOMAIN b /\ p[i] = b[i + k]
  BY PrunedIsTail
<1>2. DOMAIN p \subseteq Nat
  <2>1. IsBuffer(p)
    BY PrunedIsTail
  <2> HIDE DEF p
  <2> QED
    BY <2>1 DEF IsBuffer
<1> HIDE DEF p
<1>3. ASSUME NEW i \in DOMAIN p, NEW j \in DOMAIN p, i < j PROVE i + k < j + k
  BY <1>2, <1>3
<1>4. Ordered(p)
  BY <1>1, <1>3 DEF Ordered
<1> QED
  BY <1>4 DEF p

(* A restart fills the buffer with samples of the present, from no scan.   *)
LEMMA PrefilledIs ==
    ASSUME NEW R, IsFiniteSet(R), NEW now \in Nat
    PROVE  LET g == Prefilled(R, now)
           IN  /\ g = [buffer |-> g.buffer, last |-> g.last]
               /\ IsBuffer(g.buffer)
               /\ \A i \in DOMAIN g.buffer : g.buffer[i].time = now /\ g.buffer[i].scan = None
               /\ g.buffer # <<>> => g.last \notin {"scan"} \X Nat
<1> DEFINE g == Prefilled(R, now)
<1>1. CASE R = {}
  <2>1. g = [buffer |-> <<>>, last |-> None]
    BY <1>1 DEF Prefilled, EmptyGate
  <2> QED
    BY <2>1 DEF IsBuffer
<1>2. CASE R # {}
  <2> DEFINE n == Cardinality(R)
             nth(i) == CHOOSE r \in R : Cardinality({q \in R : q.ts <= r.ts}) = i
  <2>1. n \in Nat
    BY FS_CardinalityType
  <2>2. g = [buffer |-> [i \in 1..n |-> [time |-> now, gex |-> nth(i).oi, dist |-> nth(i).dist,
                                         rsi |-> None, scan |-> None]],
             last |-> <<"gex", nth(n).ts>>]
    BY <1>2 DEF Prefilled
  <2> HIDE DEF n, nth, g
  <2>3. g.buffer = [i \in 1..n |-> [time |-> now, gex |-> nth(i).oi, dist |-> nth(i).dist,
                                    rsi |-> None, scan |-> None]]
    BY <2>2
  <2>4. IsBuffer(g.buffer)
    BY <2>1, <2>3 DEF IsBuffer
  <2> QED
    BY <2>2, <2>3, <2>4 DEF g
<1> QED
  BY <1>1, <1>2

(* The initial gate is empty.                                              *)
LEMMA InitGate == Init => GateInv
BY DEF Init, GateInv, EmptyGate, IsBuffer, Ordered

(* A gate that a start or a crash leaves.                                  *)
LEMMA GateAnew ==
    ASSUME Recorded, RowsTyped, gate' = EmptyGate \/ gate' = Prefilled(GateRows, clock),
           clock' = clock
    PROVE  GateInv'
<1>1. CASE gate' = EmptyGate
  BY <1>1 DEF GateInv, EmptyGate, IsBuffer, Ordered
<1>2. CASE gate' = Prefilled(GateRows, clock)
  <2>1. IsFiniteSet(GateRows)
    <3>1. GateRows \in SUBSET rows["gex"] /\ IsFiniteSet(rows["gex"])
      BY DEF GateRows, RowsTyped, Feeds
    <3> QED
      BY <3>1, FS_Subset
  <2>2. clock \in Nat
    BY DEF Recorded
  <2> DEFINE b == gate'.buffer
  <2>3. /\ gate' = [buffer |-> gate'.buffer, last |-> gate'.last] /\ IsBuffer(b)
        /\ \A i \in DOMAIN b : b[i].time = clock /\ b[i].scan = None
        /\ b # <<>> => gate'.last \notin {"scan"} \X Nat
    BY <1>2, <2>1, <2>2, PrefilledIs
  <2> HIDE DEF b
  <2>4. Ordered(b)
    BY <2>2, <2>3 DEF Ordered
  <2>5. b = gate'.buffer
    BY DEF b
  <2> QED
    BY <2>2, <2>3, <2>4, <2>5 DEF GateInv, ScanSeen
<1> QED
  BY <1>1, <1>2

(* The sample of a pass, if its scan is a new one, goes to the end of the  *)
(* buffer: it is the last to arrive and from the latest scan.              *)
LEMMA AppendedKeeps ==
    ASSUME Recorded, Joined, PassTyped, GateInv, at = "act"
    PROVE  LET g == Appended(gate, Sample)
           IN  /\ g = [buffer |-> g.buffer, last |-> g.last]
               /\ IsBuffer(g.buffer) /\ Ordered(g.buffer)
               /\ \A i \in DOMAIN g.buffer :
                     /\ g.buffer[i].time <= clock
                     /\ g.buffer[i].scan # None =>
                           g.last \in {"scan"} \X Nat /\ g.buffer[i].scan <= g.last[2]
               /\ g.buffer # <<>> =>
                     /\ g.last = <<"scan", snap.scan.ts>>
                     /\ g.buffer[Len(g.buffer)].rsi # None
               /\ \E r \in rows["scan"] : r.ts = snap.scan.ts
<1> DEFINE g == Appended(gate, Sample)
           b == gate.buffer
           last == gate.last
           sample == Sample
           ts == snap.scan.ts
<1>0. /\ gate = [buffer |-> b, last |-> last] /\ IsBuffer(b) /\ Ordered(b)
      /\ \A i \in DOMAIN b :
            /\ b[i].time <= clock
            /\ b[i].scan # None => last \in {"scan"} \X Nat /\ b[i].scan <= last[2]
      /\ last \in {"scan"} \X Nat /\ b # <<>> => b[Len(b)].rsi # None /\ last[2] <= snap.asked
  BY DEF GateInv, ScanSeen
<1>1. /\ sample.time = clock /\ sample.rsi # None /\ sample.scan = ts
      /\ clock \in Nat /\ ts \in Nat /\ snap.asked \in Nat /\ snap.asked <= ts
  BY NumbersAssumption DEF Sample, Recorded, Joined, TvData, ScanData
<1>2. \E r \in rows["scan"] : r.ts = ts
  BY DEF PassTyped, RowOf, Feeds
<1>3. g = IF last = <<"scan", ts>> THEN gate
          ELSE [buffer |-> Append(b, sample), last |-> <<"scan", ts>>]
  BY <1>1 DEF Appended
<1>4. /\ b \in Seq({b[i] : i \in DOMAIN b}) /\ Len(b) \in Nat /\ DOMAIN b = 1..Len(b)
      /\ \A i \in DOMAIN b : b[i].time \in Nat /\ b[i].scan \in Nat \cup {None}
  BY <1>0 DEF IsBuffer
<1> HIDE DEF b, last, sample, ts, g
<1>5. CASE last = <<"scan", ts>>
  <2>1. g.buffer = b /\ g.last = last /\ g = [buffer |-> g.buffer, last |-> g.last]
    BY <1>0, <1>3, <1>5
  <2>2. last \in {"scan"} \X Nat
    BY <1>1, <1>5
  <2> QED
    BY <1>0, <1>2, <1>5, <2>1, <2>2 DEF g, ts
<1>6. CASE last # <<"scan", ts>>
  <2> DEFINE c == Append(b, sample)
  <2>1. g.buffer = c /\ g.last = <<"scan", ts>> /\ g = [buffer |-> g.buffer, last |-> g.last]
    BY <1>3, <1>6
  <2>2. /\ DOMAIN c = 1..(Len(b) + 1) /\ Len(c) = Len(b) + 1
        /\ c[Len(b) + 1] = sample /\ \A i \in DOMAIN b : c[i] = b[i]
        /\ c \in Seq({b[i] : i \in DOMAIN b} \cup {sample})
    BY <1>4
  <2> HIDE DEF c
  <2>3. IsBuffer(c)
    <3>1. c \in Seq({c[i] : i \in DOMAIN c})
      BY <2>2
    <3>2. ASSUME NEW i \in DOMAIN c PROVE c[i].time \in Nat /\ c[i].scan \in Nat \cup {None}
      <4>1. i \in DOMAIN b \/ i = Len(b) + 1
        BY <1>4, <2>2, <3>2
      <4> QED
        BY <1>1, <1>4, <2>2, <4>1
    <3> QED
      BY <3>1, <3>2 DEF IsBuffer
  <2>4. ASSUME NEW i \in DOMAIN b, b[i].scan # None PROVE b[i].scan < ts
    <3>1. last \in {"scan"} \X Nat /\ b[i].scan <= last[2] /\ b # <<>>
      BY <1>0, <1>4, <2>4
    <3>2. last[2] \in Nat /\ last = <<"scan", last[2]>> /\ last[2] <= snap.asked
      BY <1>0, <3>1
    <3>3. last[2] # ts
      BY <1>6, <3>2
    <3>4. b[i].scan \in Nat
      BY <1>4, <2>4
    <3> QED
      BY <1>1, <3>1, <3>2, <3>3, <3>4
  <2>5. Ordered(c)
    <3> SUFFICES ASSUME NEW i \in DOMAIN c, NEW j \in DOMAIN c, i < j
                 PROVE  /\ c[i].time <= c[j].time
                        /\ c[i].scan # None /\ c[j].scan # None => c[i].scan < c[j].scan
      BY DEF Ordered
    <3>1. i \in DOMAIN b /\ (j \in DOMAIN b \/ j = Len(b) + 1)
      BY <1>4, <2>2
    <3>2. CASE j \in DOMAIN b
      BY <1>0, <2>2, <3>1, <3>2 DEF Ordered
    <3>3. CASE j = Len(b) + 1
      BY <1>0, <1>1, <2>2, <2>4, <3>1, <3>3
    <3> QED
      BY <3>1, <3>2, <3>3
  <2>6. ASSUME NEW i \in DOMAIN c
        PROVE  c[i].time <= clock /\ (c[i].scan # None => c[i].scan <= ts)
    <3>1. CASE i \in DOMAIN b
      <4>1. b[i].scan # None => b[i].scan \in Nat /\ b[i].scan < ts
        BY <1>4, <2>4, <3>1
      <4> QED
        BY <1>0, <1>1, <2>2, <3>1, <4>1
    <3>2. CASE i = Len(b) + 1
      BY <1>1, <2>2, <3>2
    <3> QED
      BY <1>4, <2>2, <3>1, <3>2
  <2>7. <<"scan", ts>> \in {"scan"} \X Nat /\ <<"scan", ts>>[2] = ts
    BY <1>1
  <2>8. c[Len(c)].rsi # None
    BY <1>1, <2>2
  <2> QED
    BY <1>2, <2>1, <2>3, <2>5, <2>6, <2>7, <2>8 DEF g, ts
<1> QED
  BY <1>5, <1>6

(* A tick on fresh data leaves a sound buffer, its last sample being that  *)
(* of the scan of the pass.                                                *)
LEMMA UpdateKeeps ==
    ASSUME Recorded, Joined, PassTyped, GateInv, at = "act", gate' = Updated(gate, Sample, clock)
    PROVE  /\ gate' = [buffer |-> gate'.buffer, last |-> gate'.last]
           /\ IsBuffer(gate'.buffer) /\ Ordered(gate'.buffer)
           /\ \A i \in DOMAIN gate'.buffer :
                 /\ gate'.buffer[i].time <= clock
                 /\ gate'.buffer[i].scan # None =>
                       gate'.last \in {"scan"} \X Nat /\ gate'.buffer[i].scan <= gate'.last[2]
           /\ gate'.buffer # <<>> =>
                 /\ gate'.last = <<"scan", snap.scan.ts>>
                 /\ gate'.buffer[Len(gate'.buffer)].rsi # None
           /\ \E r \in rows["scan"] : r.ts = snap.scan.ts
           /\ SoundBuffer(gate'.buffer, clock)
<1> DEFINE g == Appended(gate, Sample)
           b == g.buffer
           p == Pruned(b, clock)
<1>1. /\ g = [buffer |-> b, last |-> g.last]
      /\ IsBuffer(b) /\ Ordered(b)
      /\ \A i \in DOMAIN b :
            /\ b[i].time <= clock
            /\ b[i].scan # None => g.last \in {"scan"} \X Nat /\ b[i].scan <= g.last[2]
      /\ b # <<>> => g.last = <<"scan", snap.scan.ts>> /\ b[Len(b)].rsi # None
      /\ \E r \in rows["scan"] : r.ts = snap.scan.ts
  BY AppendedKeeps
<1>2. gate' = [g EXCEPT !.buffer = Pruned(@, clock)]
  BY DEF Updated
<1> HIDE DEF g, b
<1>3. gate' = [buffer |-> p, last |-> g.last]
  BY <1>1, <1>2 DEF b
<1>4. /\ clock \in Nat /\ IsBuffer(p) /\ Ordered(p)
      /\ \A i \in DOMAIN p : p[i].time >= clock - GateWindow
  BY <1>1, PrunedIsTail, PrunedOrdered DEF Recorded
<1>5. PICK k \in Nat :
          /\ Len(p) = Len(b) - k
          /\ \A i \in DOMAIN p : i + k \in DOMAIN b /\ p[i] = b[i + k]
  BY <1>1, <1>4, PrunedIsTail
<1> HIDE DEF p
<1>6. /\ p \in Seq({p[i] : i \in DOMAIN p}) /\ Len(p) \in Nat /\ DOMAIN p = 1..Len(p)
      /\ Len(b) \in Nat /\ DOMAIN b = 1..Len(b)
      /\ \A i \in DOMAIN p : p[i].scan \in Nat \cup {None}
  BY <1>1, <1>4 DEF IsBuffer
<1>7. p # <<>> => /\ b # <<>> /\ Len(p) \in DOMAIN p /\ p[Len(p)].rsi # None
  <2>1. ASSUME p # <<>> PROVE Len(p) \in DOMAIN p
    BY <1>6, <2>1
  <2>2. ASSUME p # <<>> PROVE Len(p) + k \in DOMAIN b /\ p[Len(p)] = b[Len(p) + k] /\ Len(p) + k = Len(b)
    <3>1. Len(p) \in DOMAIN p
      BY <2>1, <2>2
    <3>2. Len(p) + k \in DOMAIN b /\ p[Len(p)] = b[Len(p) + k]
      BY <1>5, <3>1
    <3>3. Len(p) + k = Len(b)
      BY <1>5, <1>6
    <3> QED
      BY <3>2, <3>3
  <2> QED
    BY <1>1, <1>6, <2>1, <2>2
<1>8. \A i \in DOMAIN p :
         /\ p[i].time <= clock
         /\ p[i].scan # None => g.last \in {"scan"} \X Nat /\ p[i].scan <= g.last[2]
  BY <1>1, <1>5
<1>9. SoundBuffer(p, clock)
  <2>1. \A i, j \in DOMAIN p : i < j => p[i].time <= p[j].time
    BY <1>4 DEF Ordered
  <2>2. ASSUME NEW i \in DOMAIN p, NEW j \in DOMAIN p, i # j, p[i].scan # None
        PROVE  p[i].scan # p[j].scan
    <3>1. CASE p[j].scan = None
      BY <2>2, <3>1
    <3>2. CASE p[j].scan # None
      <4>1. p[i].scan \in Nat /\ p[j].scan \in Nat /\ i \in Nat /\ j \in Nat
        BY <1>6, <2>2, <3>2
      <4>2. i < j \/ j < i
        BY <2>2, <4>1
      <4>3. p[i].scan < p[j].scan \/ p[j].scan < p[i].scan
        BY <1>4, <2>2, <3>2, <4>2 DEF Ordered
      <4> QED
        BY <4>1, <4>3
    <3> QED
      BY <3>1, <3>2
  <2>3. p # <<>> => \E i \in DOMAIN p : p[i].rsi # None
    BY <1>7
  <2> QED
    BY <1>4, <2>1, <2>2, <2>3 DEF SoundBuffer
<1>10. gate'.buffer = p /\ gate'.last = g.last
  BY <1>3
<1> QED
  BY <1>1, <1>3, <1>4, <1>7, <1>8, <1>9, <1>10

(* Every step keeps the order of the gate and of the rows it has seen.     *)
LEMMA GateStep ==
    Recorded /\ Joined /\ RowsTyped /\ PassTyped /\ GateInv /\ [Next]_vars => GateInv'
<1> SUFFICES ASSUME Recorded, Joined, RowsTyped, PassTyped, GateInv, [Next]_vars PROVE GateInv'
  OBVIOUS
<1>0. clock \in Nat
  BY DEF Recorded
<1>1. CASE TickFresh
  <2>1. /\ at = "act" /\ gate' = Updated(gate, Sample, clock)
        /\ at' = "scan" /\ clock' = clock /\ rows' = rows
    BY <1>1 DEF TickFresh, EndTick
  <2>2. snap.scan.ts \in Nat /\ <<"scan", snap.scan.ts>>[2] = snap.scan.ts
    BY <2>1 DEF Joined, ScanData
  <2> QED
    BY <2>1, <2>2, UpdateKeeps DEF GateInv, ScanSeen
<1>2. CASE StartEngine \/ Crash
  BY <1>2, GateAnew DEF StartEngine, Crash
<1>3. ASSUME UNCHANGED gate, clock' \in Nat, clock <= clock',
             \A r \in rows["scan"] : \E q \in rows'["scan"] : q.ts = r.ts,
             ScanSeen /\ gate.buffer # <<>> /\ at' \in {"row", "gex", "tv", "act"} =>
                 gate.last[2] <= snap'.asked
      PROVE  GateInv'
  <2>1. \A i \in DOMAIN gate.buffer : gate.buffer[i].time <= clock'
    BY <1>0, <1>3 DEF GateInv, IsBuffer
  <2>2. gate' = gate /\ (ScanSeen' <=> ScanSeen)
    BY <1>3 DEF ScanSeen
  <2> QED
    BY <1>3, <2>1, <2>2 DEF GateInv
<1>4. CASE UNCHANGED <<clock, rows, at, snap, gate>>
  BY <1>0, <1>3, <1>4 DEF GateInv
<1>5. ASSUME NEW f \in Feeds, WriteRow(f) PROVE GateInv'
  <2>1. UNCHANGED <<clock, at, snap, gate>> /\ rows["scan"] \subseteq rows'["scan"]
    BY <1>5 DEF WriteRow, Recorded, Feeds
  <2> QED
    BY <1>0, <1>3, <2>1 DEF GateInv
<1>6. CASE TimePasses
  <2>1. clock' = clock + 1 /\ UNCHANGED <<rows, at, snap, gate>>
    BY <1>6 DEF TimePasses
  <2> QED
    BY <1>0, <1>3, <2>1 DEF GateInv
<1>7. CASE at' = "scan" /\ UNCHANGED <<clock, rows, gate>>
  BY <1>0, <1>3, <1>7
<1>8. CASE ReadLatestScan
  <2>1. CASE rows["scan"] = {}
    BY <1>7, <1>8, <2>1 DEF ReadLatestScan, EndTick
  <2>2. CASE rows["scan"] # {}
    <3>1. /\ UNCHANGED <<clock, rows, gate>> /\ snap'.asked = Latest(rows["scan"]).ts
          /\ \A q \in rows["scan"] : q.ts <= Latest(rows["scan"]).ts
      <4>1. "scan" \in Feeds
        BY DEF Feeds
      <4>2. snap' = [snap EXCEPT !.asked = Latest(rows["scan"]).ts]
        BY <1>8, <2>2 DEF ReadLatestScan
      <4> QED
        BY <1>8, <2>2, <4>1, <4>2, LatestRow DEF ReadLatestScan, Joined
    <3> QED
      BY <1>0, <1>3, <3>1 DEF GateInv
  <2> QED
    BY <2>1, <2>2
<1>9. CASE ReadScanRow
  <2>1. /\ at = "row" /\ UNCHANGED <<clock, rows, gate>>
        /\ snap' = [snap EXCEPT !.scan = ScanAt(snap.asked)]
    BY <1>9 DEF ReadScanRow
  <2>2. snap'.asked = snap.asked
    BY <2>1 DEF Joined
  <2> QED
    BY <1>0, <1>3, <2>1, <2>2 DEF GateInv
<1>10. CASE ReadGex \/ ReadTv
  <2>1. /\ at \in {"gex", "tv"} /\ UNCHANGED <<clock, rows, gate>>
        /\ at' = "scan" \/ \E r : snap' = [snap EXCEPT !.gex = r] \/ snap' = [snap EXCEPT !.tv = r]
    BY <1>10 DEF ReadGex, ReadTv, FallBack, EndTick
  <2>2. at' = "scan" \/ snap'.asked = snap.asked
    BY <2>1 DEF Joined
  <2> QED
    BY <1>0, <1>3, <1>7, <2>1, <2>2 DEF GateInv
<1>11. CASE TickStale \/ ReadFails
  BY <1>7, <1>11 DEF TickStale, ReadFails, FallBack, EndTick
<1> QED
  BY <1>1, <1>2, <1>4, <1>5, <1>6, <1>8, <1>9, <1>10, <1>11
     DEF Next, vars, Tick, Filled, ExitCancelled, Gone

(* Types and gate hold in every behaviour.                                 *)
THEOREM GateInductive == Spec => [](IInv /\ TInv /\ GateInv)
<1>1. IInv /\ TInv /\ GateInv /\ [Next]_vars => GateInv'
  BY GateStep DEF IInv, TInv
<1> QED
  BY <1>1, InitGate, Typed, PTL DEF Spec

(* Whenever the gate is evaluated its buffer is in order, within the       *)
(* window, without a scan counted twice and not without an RSI, however    *)
(* often the engine restarts or passes the gate by (DayGate.update).       *)
THEOREM GateIsOnWindow == Spec => GateOnWindow
<1>1. IInv /\ TInv /\ GateInv /\ [Next]_vars
         => (at = "act" /\ path = "fresh" /\ at' = "scan" => SoundBuffer(gate'.buffer, clock))
  <2> SUFFICES ASSUME IInv, TInv, GateInv, [Next]_vars,
                      at = "act", path = "fresh", at' = "scan"
               PROVE  SoundBuffer(gate'.buffer, clock)
    OBVIOUS
  <2>1. TickFresh
    BY DEF Next, vars, WriteRow, TimePasses, StartEngine, Crash, Tick, ReadLatestScan, ReadScanRow,
       ReadGex, ReadTv, TickStale, ReadFails, ReadPlaces, Filled, ExitCancelled, Gone
  <2>2. gate' = Updated(gate, Sample, clock)
    BY <2>1 DEF TickFresh
  <2> QED
    BY <2>2, UpdateKeeps DEF IInv, TInv
<1> QED
  BY <1>1, GateInductive, PTL DEF Spec, GateOnWindow
=============================================================================
