-------------------------- MODULE MarketTick_proofs --------------------------
(* The rules of the market tick, proved for any rows the extractors write, *)
(* any thresholds the assumptions of MarketTick allow, any hours and       *)
(* windows.                                                                *)
EXTENDS MarketTick, FiniteSetTheorems, WellFoundedInduction, TLAPS

(* A set of naturals has a least member.                                   *)
LEMMA HasLeast ==
    ASSUME NEW S \in SUBSET Nat, S # {}
    PROVE  \E m \in S : \A k \in S : m <= k
<1> DEFINE Less == {ss \in Nat \X Nat : ss[1] < ss[2]}
<1>1. IsWellFoundedOn(Less, Nat)
  BY NatLessThanWellFounded DEF OpToRel
<1>2. PICK m \in S : \A k \in S : <<k, m>> \notin Less
  <2> HIDE DEF Less
  <2> QED
    BY <1>1, WFMin
<1>3. ASSUME NEW k \in S PROVE m <= k
  <2>1. m \in Nat /\ k \in Nat /\ <<k, m>> \notin Less
    BY <1>2, <1>3
  <2> QED
    BY <2>1
<1> QED
  BY <1>3

(* A bounded one has a largest member.                                     *)
LEMMA HasLargest ==
    ASSUME NEW n \in Nat, NEW S \in SUBSET (0..n), S # {}
    PROVE  \E m \in S : \A k \in S : k <= m
<1> DEFINE T == {n - k : k \in S}
<1>1. T \in SUBSET Nat /\ T # {}
  <2>1. \A k \in S : n - k \in Nat
    OBVIOUS
  <2>2. PICK k \in S : TRUE
    OBVIOUS
  <2>3. n - k \in T
    BY <2>2
  <2> QED
    BY <2>1, <2>3
<1>2. PICK x \in T : \A y \in T : x <= y
  <2> HIDE DEF T
  <2> QED
    BY <1>1, HasLeast
<1>3. PICK m \in S : x = n - m
  BY <1>2
<1>4. ASSUME NEW k \in S PROVE k <= m
  <2>1. n - m <= n - k
    BY <1>2, <1>3, <1>4
  <2>2. m \in Int /\ k \in Int
    BY <1>3, <1>4
  <2> QED
    BY <2>1, <2>2
<1> QED
  BY <1>4

(* So the latest of some rows is one of them.                              *)
LEMMA LatestIs ==
    ASSUME NEW n \in Nat, NEW S, S # {}, \A r \in S : r.ts \in 0..n
    PROVE  Latest(S) \in S /\ \A q \in S : q.ts <= Latest(S).ts
<1> DEFINE T == {r.ts : r \in S}
<1>1. T \in SUBSET (0..n) /\ T # {}
  OBVIOUS
<1>2. PICK m \in T : \A k \in T : k <= m
  <2> HIDE DEF T
  <2> QED
    BY <1>1, HasLargest
<1>3. \E r \in S : \A q \in S : q.ts <= r.ts
  BY <1>2
<1> QED
  BY <1>3 DEF Latest

-----------------------------------------------------------------------------
(* The inductive invariant.                                                *)

(* What the extractors have written.                                       *)
Recorded ==
    /\ world \in Worlds /\ clock \in Nat
    /\ rows \in [Feeds -> SUBSET (ScanData \cup GexData \cup TvData)]
    /\ rows["scan"] \subseteq ScanData /\ rows["gex"] \subseteq GexData
    /\ rows["tv"] \subseteq TvData
    /\ \A r \in rows["scan"] : OutOfTheMoney(r)
    /\ \A f \in Feeds : \A r \in rows[f] : r.ts \in 0..clock

(* What a pass has read so far: asked is the timestamp of a scan, and each *)
(* row stands in the window to it.                                         *)
Joined ==
    /\ snap = [asked |-> snap.asked, scan |-> snap.scan, gex |-> snap.gex, tv |-> snap.tv]
    /\ at \in {"row", "gex", "tv", "act"} =>
          snap.asked \in Nat /\ \E r \in rows["scan"] : r.ts = snap.asked
    /\ at \in {"gex", "tv", "act"} =>
          /\ snap.scan \in ScanData /\ OutOfTheMoney(snap.scan)
          /\ snap.asked <= snap.scan.ts
          /\ world.source # "cloud" => snap.scan.ts = snap.asked
    /\ at \in {"tv", "act"} =>
          /\ snap.gex \in GexData
          /\ snap.asked - FreshWindow <= snap.gex.ts /\ snap.gex.ts <= snap.asked
    /\ at = "act" =>
          /\ snap.tv \in TvData
          /\ world.source = "cloud" => snap.tv.ts <= snap.asked

(* What the store lists, and that no leg of it nets with a short one.      *)
SoldIn(P) ==
    \A q \in P :
        /\ q = [spread |-> q.spread, status |-> q.status]
        /\ q.spread.side \in Sides /\ q.spread.short \in Int
        /\ q.spread.em \in Nat /\ q.spread.spx \in Int
NetFree(P) ==
    \A p, q \in P : p # q => p.spread.short \notin {q.spread.short, q.spread.long}
Sold == SoldIn(positions) /\ NetFree(positions)

(* The buckets of a running engine.                                        *)
Parsed == at # "start" => buckets \in Sorted(world.keys) /\ IsPartition(buckets)

IInv == Recorded /\ Joined /\ Sold /\ Parsed

(* The initial state satisfies it.                                         *)
LEMMA InitIInv == Init => IInv
<1> SUFFICES ASSUME Init PROVE IInv
  OBVIOUS
<1>1. Recorded
  BY DEF Init, Recorded, Feeds
<1>2. Joined
  BY DEF Init, Joined, NoSnap
<1>3. Sold /\ Parsed
  BY DEF Init, Sold, SoldIn, NetFree, Parsed
<1> QED
  BY <1>1, <1>2, <1>3 DEF IInv

(* Extractors write rows of their kind, dated now.                         *)
LEMMA RecordedStep == Recorded /\ [Next]_vars => Recorded'
<1> SUFFICES ASSUME Recorded, [Next]_vars PROVE Recorded'
  OBVIOUS
<1>1. ASSUME NEW f \in Feeds, WriteRow(f) PROVE Recorded'
  <2>1. PICK d \in world.data[f] : rows' = [rows EXCEPT ![f] = @ \cup {[d EXCEPT !.ts = clock]}]
    BY <1>1 DEF WriteRow
  <2>2. world' = world /\ clock' = clock /\ world \in Worlds /\ clock \in Nat
    BY <1>1 DEF WriteRow, Recorded
  <2> DEFINE r == [d EXCEPT !.ts = clock]
  <2>0. rows' = [rows EXCEPT ![f] = rows[f] \cup {r}]
    BY <2>1
  <2>3. CASE f = "scan"
    <3>1. d \in ScanData /\ OutOfTheMoney(d)
      BY <2>2, <2>3, WorldsAssumption
    <3>2. r \in ScanData /\ OutOfTheMoney(r) /\ r.ts = clock
      BY <2>2, <3>1 DEF ScanData, OutOfTheMoney
    <3> HIDE DEF r
    <3> QED
      BY <2>0, <2>2, <2>3, <3>2 DEF Recorded, Feeds
  <2>4. CASE f = "gex"
    <3>1. d \in GexData
      BY <2>2, <2>4, WorldsAssumption
    <3>2. r \in GexData /\ r.ts = clock
      BY <2>2, <3>1 DEF GexData
    <3> HIDE DEF r
    <3> QED
      BY <2>0, <2>2, <2>4, <3>2 DEF Recorded, Feeds
  <2>5. CASE f = "tv"
    <3>1. d \in TvData
      BY <2>2, <2>5, WorldsAssumption
    <3>2. r \in TvData /\ r.ts = clock
      BY <2>2, <3>1 DEF TvData
    <3> HIDE DEF r
    <3> QED
      BY <2>0, <2>2, <2>5, <3>2 DEF Recorded, Feeds
  <2> QED
    BY <2>3, <2>4, <2>5 DEF Feeds
<1>2. CASE TimePasses
  BY <1>2 DEF TimePasses, Recorded
<1>3. CASE UNCHANGED <<world, clock, rows>>
  BY <1>3 DEF Recorded
<1> QED
  BY <1>1, <1>2, <1>3 DEF Next, vars, StartEngine, Crash, Tick, ReadLatestScan, ReadScanRow, ReadGex,
     ReadTv, TickFresh, TickStale, ReadFails, Filled, ExitCancelled, Gone

(* Rows found in a window are rows, the latest of them too.                *)
LEMMA LatestRow ==
    ASSUME Recorded, NEW f \in Feeds, NEW S \in SUBSET rows[f], S # {}
    PROVE  Latest(S) \in S /\ \A q \in S : q.ts <= Latest(S).ts
BY LatestIs DEF Recorded

(* A pass that is begun anew has read nothing.                             *)
LEMMA NothingRead ==
    ASSUME EndTick \/ (at' = "scan" /\ snap' = NoSnap) \/ (at' = "start" /\ snap' = NoSnap)
    PROVE  Joined'
BY DEF EndTick, NoSnap, Joined

(* The reads of a pass.                                                    *)
LEMMA ReadsJoin ==
    ASSUME Recorded, Joined, ReadLatestScan \/ ReadScanRow \/ ReadGex \/ ReadTv
    PROVE  Joined'
<1> USE NumbersAssumption
<1>0. /\ world' = world /\ clock' = clock /\ rows' = rows /\ clock \in Nat
      /\ {"scan", "gex", "tv"} = Feeds
      /\ \A r \in rows["scan"] : r \in ScanData /\ r.ts \in Nat /\ OutOfTheMoney(r)
      /\ \A r \in rows["gex"] : r \in GexData /\ r.ts \in Nat
      /\ \A r \in rows["tv"] : r \in TvData /\ r.ts \in Nat
  BY DEF ReadLatestScan, ReadScanRow, ReadGex, ReadTv, Recorded, Feeds, ScanData, GexData, TvData
<1>1. CASE ReadLatestScan
  <2>1. CASE rows["scan"] = {}
    BY <1>1, <2>1, NothingRead DEF ReadLatestScan
  <2>2. CASE rows["scan"] # {}
    <3>1. Latest(rows["scan"]) \in rows["scan"]
      BY <1>0, <2>2, LatestRow
    <3>2. at' = "row" /\ snap' = [snap EXCEPT !.asked = Latest(rows["scan"]).ts]
      BY <1>1, <2>2 DEF ReadLatestScan
    <3>3. /\ snap'.asked \in Nat /\ \E r \in rows["scan"] : r.ts = snap'.asked
          /\ snap' = [asked |-> snap'.asked, scan |-> snap'.scan, gex |-> snap'.gex,
                      tv |-> snap'.tv]
      BY <1>0, <3>1, <3>2 DEF Joined
    <3> QED
      BY <1>0, <3>2, <3>3 DEF Joined
  <2> QED
    BY <2>1, <2>2
<1>2. CASE ReadScanRow
  <2>1. /\ at = "row" /\ at' = "gex" /\ snap' = [snap EXCEPT !.scan = ScanAt(snap.asked)]
        /\ snap.asked \in Nat /\ \E r \in rows["scan"] : r.ts = snap.asked
    BY <1>2 DEF ReadScanRow, Joined
  <2>2. /\ ScanAt(snap.asked) \in rows["scan"] /\ snap.asked <= ScanAt(snap.asked).ts
        /\ world.source # "cloud" => ScanAt(snap.asked).ts = snap.asked
    <3>1. CASE world.source = "cloud"
      <4>1. /\ Latest(rows["scan"]) \in rows["scan"]
            /\ \A q \in rows["scan"] : q.ts <= Latest(rows["scan"]).ts
        BY <1>0, <2>1, LatestRow
      <4> QED
        BY <2>1, <3>1, <4>1 DEF ScanAt
    <3>2. CASE world.source # "cloud"
      BY <2>1, <3>2 DEF ScanAt
    <3> QED
      BY <3>1, <3>2
  <2>3. /\ snap'.asked = snap.asked /\ snap'.scan = ScanAt(snap.asked)
        /\ snap' = [asked |-> snap'.asked, scan |-> snap'.scan, gex |-> snap'.gex,
                    tv |-> snap'.tv]
    BY <2>1 DEF Joined
  <2> QED
    BY <1>0, <2>1, <2>2, <2>3 DEF Joined
<1>3. CASE ReadGex
  <2> DEFINE found == GexInWindow(snap.asked)
  <2>1. CASE found = {}
    BY <1>3, <2>1, NothingRead DEF ReadGex, FallBack
  <2>2. CASE found # {}
    <3>1. /\ at = "gex" /\ at' = "tv" /\ snap' = [snap EXCEPT !.gex = Latest(found)]
      BY <1>3, <2>2 DEF ReadGex
    <3>2. Latest(found) \in found
      BY <1>0, <2>2, LatestRow DEF GexInWindow
    <3>3. /\ Latest(found) \in GexData
          /\ snap.asked - FreshWindow <= Latest(found).ts /\ Latest(found).ts <= snap.asked
      BY <1>0, <3>2 DEF GexInWindow
    <3>4. /\ snap'.asked = snap.asked /\ snap'.scan = snap.scan /\ snap'.gex = Latest(found)
          /\ snap' = [asked |-> snap'.asked, scan |-> snap'.scan, gex |-> snap'.gex,
                      tv |-> snap'.tv]
      BY <3>1 DEF Joined
    <3> HIDE DEF found
    <3> QED
      BY <1>0, <3>1, <3>3, <3>4 DEF Joined
  <2> QED
    BY <2>1, <2>2
<1>4. CASE ReadTv
  <2> DEFINE found == TvInWindow(snap.asked)
  <2>1. CASE found = {}
    BY <1>4, <2>1, NothingRead DEF ReadTv, FallBack
  <2>2. CASE found # {}
    <3>1. /\ at = "tv" /\ at' = "act" /\ snap' = [snap EXCEPT !.tv = Latest(found)]
      BY <1>4, <2>2 DEF ReadTv
    <3>2. Latest(found) \in found
      BY <1>0, <2>2, LatestRow DEF TvInWindow
    <3>3. /\ Latest(found) \in TvData
          /\ world.source = "cloud" => Latest(found).ts <= snap.asked
      BY <1>0, <3>2 DEF TvInWindow
    <3>4. /\ snap'.asked = snap.asked /\ snap'.scan = snap.scan /\ snap'.gex = snap.gex
          /\ snap'.tv = Latest(found)
          /\ snap' = [asked |-> snap'.asked, scan |-> snap'.scan, gex |-> snap'.gex,
                      tv |-> snap'.tv]
      BY <3>1 DEF Joined
    <3> HIDE DEF found
    <3> QED
      BY <1>0, <3>1, <3>3, <3>4 DEF Joined
  <2> QED
    BY <2>1, <2>2
<1> QED
  BY <1>1, <1>2, <1>3, <1>4

(* What has been read stays as it was read while others step.              *)
LEMMA JoinedStep == Recorded /\ Joined /\ [Next]_vars => Joined'
<1> SUFFICES ASSUME Recorded, Joined, [Next]_vars PROVE Joined'
  OBVIOUS
<1>1. ASSUME NEW f \in Feeds, WriteRow(f) PROVE Joined'
  <2>1. UNCHANGED <<world, at, snap>> /\ rows["scan"] \subseteq rows'["scan"]
    BY <1>1 DEF WriteRow, Recorded, Feeds
  <2> QED
    BY <2>1 DEF Joined
<1>2. CASE UNCHANGED <<world, rows, at, snap>>
  BY <1>2 DEF Joined
<1>3. CASE StartEngine
  BY <1>3 DEF StartEngine, Joined
<1>4. CASE Crash \/ TickFresh \/ TickStale \/ ReadFails
  BY <1>4, NothingRead DEF Crash, TickFresh, TickStale, ReadFails, FallBack
<1> QED
  BY <1>1, <1>2, <1>3, <1>4, ReadsJoin
     DEF Next, vars, Tick, TimePasses, Filled, ExitCancelled, Gone

(* Positions that change their status only: different ones still have      *)
(* different origins.                                                      *)
LEMMA StatusOnly ==
    ASSUME Sold, NEW P,
           \A x \in P : \E q \in positions : x = [spread |-> q.spread, status |-> x.status],
           \A x, y \in P : x # y => \E p, q \in positions :
               p # q /\ x.spread = p.spread /\ y.spread = q.spread
    PROVE  SoldIn(P) /\ NetFree(P)
<1>1. SoldIn(P)
  BY DEF Sold, SoldIn
<1>2. NetFree(P)
  BY DEF Sold, NetFree
<1> QED
  BY <1>1, <1>2

(* The exit checks change the status of positions only.                    *)
LEMMA ExitChecksKeep ==
    ASSUME Sold, NEW debit
    PROVE  /\ SoldIn(ExitChecks(debit)) /\ NetFree(ExitChecks(debit))
           /\ \A x \in ExitChecks(debit) : x.spread \in OpenSpreads
           /\ \A x \in ExitChecks(debit) : x.status = "pending" => x \in positions
<1> DEFINE After(q) == IF q.status = "open" /\ ShouldExit(q.spread, snap, debit[q])
                       THEN [q EXCEPT !.status = "exiting"] ELSE q
<1>1. \A q \in positions : /\ After(q) = [spread |-> q.spread, status |-> After(q).status]
                           /\ After(q).spread = q.spread
                           /\ After(q).status = "pending" => After(q) = q
  BY DEF Sold, SoldIn
<1>2. ExitChecks(debit) = {After(q) : q \in positions}
  BY DEF ExitChecks
<1> HIDE DEF After
<1>3. \A x \in ExitChecks(debit) : \E q \in positions : x = [spread |-> q.spread, status |-> x.status]
  BY <1>1, <1>2
<1>4. \A x, y \in ExitChecks(debit) : x # y => \E p, q \in positions :
          p # q /\ x.spread = p.spread /\ y.spread = q.spread
  BY <1>1, <1>2
<1>5. /\ \A x \in ExitChecks(debit) : x.spread \in OpenSpreads
      /\ \A x \in ExitChecks(debit) : x.status = "pending" => x \in positions
  BY <1>1, <1>2 DEF OpenSpreads
<1> QED
  BY <1>3, <1>4, <1>5, StatusOnly

(* A spread that is sold collides with none that is open, and is alone.    *)
LEMMA NewSpread ==
    ASSUME Recorded, Joined, at = "act", NEW n \in NewSpreads
    PROVE  /\ n.side \in Sides /\ n.short \in Int /\ n.em \in Nat /\ n.spx \in Int
           /\ \A o \in OpenSpreads : ~Collides(n, o)
           /\ \A m \in NewSpreads : m = n
<1> DEFINE side == TargetSide(buckets, snap.tv)
<1>1. side # None /\ n \in Approved(snap, side, buckets, OpenSpreads)
      /\ \A m \in NewSpreads : m \in Approved(snap, side, buckets, OpenSpreads)
  BY DEF NewSpreads
<1>2. side \in Sides
  BY <1>1 DEF TargetSide, Sides
<1> HIDE DEF side
<1>3. snap.scan \in ScanData
  BY DEF Joined
<1>4. PICK width : n = Spread(snap, side, width)
  BY <1>1 DEF Approved
<1>5. n.side = side /\ n.short = snap.scan.legs[side].strike /\ n.em = snap.scan.em
      /\ n.spx = snap.scan.spx
  BY <1>4 DEF Spread
<1>6. n.side \in Sides /\ n.short \in Int /\ n.em \in Nat /\ n.spx \in Int
  BY <1>2, <1>3, <1>5 DEF ScanData
<1>7. \A o \in OpenSpreads : ~Collides(n, o)
  BY <1>1 DEF Approved
<1>8. \A m \in NewSpreads : m = n
  BY <1>1 DEF Approved
<1> QED
  BY <1>6, <1>7, <1>8

(* process_tick sells at most one spread, beside those that are there.     *)
LEMMA ProcessTickKeeps ==
    ASSUME Recorded, Joined, Sold, at = "act", ProcessTick
    PROVE  Sold'
<1>1. PICK debit \in Debits, new \in SUBSET NewSpreads :
          positions' = ExitChecks(debit) \cup {[spread |-> n, status |-> "pending"] : n \in new}
  <2>1. PICK debit \in Debits :
            \/ positions' = ExitChecks(debit)
            \/ \E n \in NewSpreads :
                  positions' = ExitChecks(debit) \cup {[spread |-> n, status |-> "pending"]}
    BY DEF ProcessTick
  <2>2. CASE positions' = ExitChecks(debit)
    <3>1. positions' = ExitChecks(debit) \cup {[spread |-> n, status |-> "pending"] : n \in {}}
      BY <2>2
    <3> QED
      BY <3>1
  <2>3. ASSUME NEW n \in NewSpreads,
               positions' = ExitChecks(debit) \cup {[spread |-> n, status |-> "pending"]}
        PROVE  \E new \in SUBSET NewSpreads :
                   positions' = ExitChecks(debit) \cup {[spread |-> m, status |-> "pending"] : m \in new}
    <3>1. positions' = ExitChecks(debit) \cup {[spread |-> m, status |-> "pending"] : m \in {n}}
      BY <2>3
    <3> QED
      BY <3>1
  <2> QED
    BY <2>1, <2>2, <2>3
<1> DEFINE Olds == ExitChecks(debit)
           News == {[spread |-> n, status |-> "pending"] : n \in new}
<1>2. /\ SoldIn(Olds) /\ NetFree(Olds)
      /\ \A x \in Olds : x.spread \in OpenSpreads
  BY ExitChecksKeep
<1>3. \A x \in News : /\ x.spread \in NewSpreads
                      /\ x = [spread |-> x.spread, status |-> x.status]
                      /\ x.status = "pending"
  OBVIOUS
<1>4. \A x \in News : /\ x.spread.side \in Sides /\ x.spread.short \in Int
                      /\ x.spread.em \in Nat /\ x.spread.spx \in Int
  BY <1>3, NewSpread
<1>5. \A x \in News, y \in News : x = y
  <2>1. \A n \in NewSpreads, m \in NewSpreads : m = n
    BY NewSpread
  <2> QED
    BY <2>1
<1>6. \A x \in News, y \in Olds :
          x.spread.short \notin {y.spread.short, y.spread.long} /\ y.spread.short # x.spread.long
  BY <1>2, <1>3, NewSpread DEF Collides
<1>7. positions' = Olds \cup News
  BY <1>1
<1> HIDE DEF Olds, News
<1>8. SoldIn(Olds \cup News)
  BY <1>2, <1>3, <1>4 DEF SoldIn
<1>9. NetFree(Olds \cup News)
  <2> SUFFICES ASSUME NEW p \in Olds \cup News, NEW q \in Olds \cup News, p # q
               PROVE  p.spread.short \notin {q.spread.short, q.spread.long}
    BY DEF NetFree
  <2>1. CASE p \in Olds /\ q \in Olds
    BY <1>2, <2>1 DEF NetFree
  <2>2. CASE p \in News /\ q \in Olds
    BY <1>6, <2>2
  <2>3. CASE p \in Olds /\ q \in News
    BY <1>6, <2>3
  <2>4. CASE p \in News /\ q \in News
    BY <1>5, <2>4
  <2> QED
    BY <2>1, <2>2, <2>3, <2>4
<1> QED
  BY <1>7, <1>8, <1>9 DEF Sold, SoldIn, NetFree

(* Every step keeps the positions free of netting legs.                    *)
LEMMA SoldStep == Recorded /\ Joined /\ Sold /\ [Next]_vars => Sold'
<1> SUFFICES ASSUME Recorded, Joined, Sold, [Next]_vars PROVE Sold'
  OBVIOUS
<1>1. CASE UNCHANGED positions
  BY <1>1 DEF Sold, SoldIn, NetFree
<1>2. ASSUME NEW debit, positions' = ExitChecks(debit) PROVE Sold'
  BY <1>2, ExitChecksKeep DEF Sold, SoldIn, NetFree
<1>3. CASE TickFresh \/ TickStale
  BY <1>1, <1>2, <1>3, ProcessTickKeeps DEF TickFresh, TickStale
<1>4. CASE Filled \/ ExitCancelled
  <2>1. PICK q \in positions :
            /\ q.status \in {"pending", "exiting"}
            /\ positions' = (positions \ {q}) \cup {[q EXCEPT !.status = "open"]}
    BY <1>4 DEF Filled, ExitCancelled
  <2> DEFINE o == [q EXCEPT !.status = "open"]
  <2>2. o = [spread |-> q.spread, status |-> o.status] /\ o.spread = q.spread
    BY DEF Sold, SoldIn
  <2>3. positions' = (positions \ {q}) \cup {o}
    BY <2>1
  <2> HIDE DEF o
  <2>4. \A x \in positions' : \E p \in positions : x = [spread |-> p.spread, status |-> x.status]
    BY <2>2, <2>3 DEF Sold, SoldIn
  <2>5. \A x, y \in positions' : x # y => \E p, r \in positions :
            p # r /\ x.spread = p.spread /\ y.spread = r.spread
    BY <2>2, <2>3
  <2>6. SoldIn(positions') /\ NetFree(positions')
    BY <2>4, <2>5, StatusOnly
  <2> QED
    BY <2>6 DEF Sold, SoldIn, NetFree
<1>5. CASE Gone
  BY <1>5 DEF Gone, Sold, SoldIn, NetFree
<1> QED
  BY <1>1, <1>3, <1>4, <1>5
     DEF Next, vars, WriteRow, TimePasses, StartEngine, Crash, Tick, ReadLatestScan, ReadScanRow,
     ReadGex, ReadTv, ReadFails

(* The buckets of a running engine are those it was started with.          *)
LEMMA ParsedStep == Parsed /\ [Next]_vars => Parsed'
<1> SUFFICES ASSUME Parsed, [Next]_vars PROVE Parsed'
  OBVIOUS
<1>1. CASE StartEngine
  BY <1>1 DEF StartEngine, Parsed
<1>2. CASE Crash
  BY <1>2 DEF Crash, Parsed
<1>3. CASE UNCHANGED <<world, buckets>> /\ at # "start"
  BY <1>3 DEF Parsed
<1>4. CASE UNCHANGED <<world, buckets, at>>
  BY <1>4 DEF Parsed
<1> QED
  BY <1>1, <1>2, <1>3, <1>4
     DEF Next, vars, WriteRow, TimePasses, Tick, ReadLatestScan, ReadScanRow, ReadGex, ReadTv,
     TickFresh, TickStale, ReadFails, ReadPlaces, Filled, ExitCancelled, Gone

(* The invariant holds in every behaviour.                                 *)
THEOREM Inductive == Spec => []IInv
BY InitIInv, RecordedStep, JoinedStep, SoldStep, ParsedStep, PTL DEF Spec, IInv
-----------------------------------------------------------------------------
(* What follows from it.                                                   *)

(* A tick acts on a GEX row as of its scan (get_combined_snapshot).        *)
THEOREM JoinsAsOf == Spec => []JoinAsOf
<1>1. IInv => JoinAsOf
  <2> SUFFICES ASSUME IInv, at = "act" PROVE JoinAsOf
    BY DEF JoinAsOf
  <2>1. /\ snap.asked \in Nat /\ snap.scan.ts \in Nat /\ snap.gex.ts \in Nat /\ snap.tv.ts \in Nat
        /\ snap.asked <= snap.scan.ts
        /\ snap.asked - FreshWindow <= snap.gex.ts /\ snap.gex.ts <= snap.asked
        /\ world.source # "cloud" => snap.scan.ts = snap.asked
        /\ world.source = "cloud" => snap.tv.ts <= snap.asked
    BY DEF IInv, Joined, ScanData, GexData, TvData
  <2> QED
    BY <2>1, NumbersAssumption DEF JoinAsOf
<1> QED
  BY <1>1, Inductive, PTL

(* No sequence of sales gives legs that net (check_strike_collision).      *)
THEOREM NeverNets == Spec => []LegsNeverNet
<1>1. IInv => LegsNeverNet
  BY DEF IInv, Sold, NetFree, LegsNeverNet
<1> QED
  BY <1>1, Inductive, PTL

(* A bucket that is returned is one of the config.                         *)
LEMMA ClassifiedIsKey ==
    ASSUME Recorded, Parsed, at # "start", NEW vix, Classify(buckets, vix) # None
    PROVE  /\ Classify(buckets, vix) \in world.keys
           /\ Classify(buckets, vix).params \in EntryParams
           /\ Classify(buckets, vix).params.fromSpot >= 100
           /\ Classify(buckets, vix).params.fromGex >= 100
<1>1. /\ world \in Worlds /\ IsFiniteSet(world.keys)
      /\ world.keys \subseteq [lo: Int, hi: Int, params: EntryParams]
  BY WorldsAssumption DEF Recorded
<1>2. buckets \in [1..Cardinality(world.keys) -> world.keys] /\ Cardinality(world.keys) \in Nat
  BY <1>1, FS_CardinalityType DEF Parsed, Sorted
<1> DEFINE hits == {i \in DOMAIN buckets : InBucket(buckets, i, vix)}
<1>3. hits # {} /\ hits \in SUBSET Nat
  BY <1>2 DEF Classify
<1>4. PICK i \in hits : \A j \in hits : i <= j
  <2> HIDE DEF hits
  <2> QED
    BY <1>3, HasLeast
<1>5. Classify(buckets, vix) = buckets[CHOOSE k \in hits : \A j \in hits : k <= j]
  BY <1>3 DEF Classify
<1>6. (CHOOSE k \in hits : \A j \in hits : k <= j) \in hits
  <2> HIDE DEF hits
  <2> QED
    BY <1>4
<1>7. Classify(buckets, vix) \in world.keys
  BY <1>2, <1>5, <1>6
<1> QED
  BY <1>1, <1>7, ThresholdsAssumption

(* A multiple of at least 100 % of an expected move is at least that move. *)
LEMMA OneMove ==
    ASSUME NEW far \in Int, NEW em \in Nat, NEW pct \in Int, pct >= 100, far * 100 >= pct * em
    PROVE  far >= em
<1>1. pct * em >= 100 * em
  <2>1. (pct - 100) * em >= 0
    <3>1. \A x, y \in Nat : x * y >= 0
      OBVIOUS
    <3> QED
      BY <3>1
  <2>2. pct * em = (pct - 100) * em + 100 * em
    OBVIOUS
  <2>3. pct * em \in Int /\ (pct - 100) * em \in Int /\ 100 * em \in Int
    OBVIOUS
  <2> QED
    BY <2>1, <2>2, <2>3
<1> QED
  BY <1>1

(* What a sale is made on: a spread of the snapshot, out of the money, one *)
(* expected move or more from spot and from the level of its side.         *)
LEMMA SoldApart ==
    ASSUME Recorded, Joined, Parsed, at = "act", NEW n \in NewSpreads
    PROVE  /\ n.side \in Sides /\ n.short \in Int /\ n.em = snap.scan.em
           /\ n.spx = snap.scan.spx /\ n.rsi = snap.tv.rsi
           /\ IF n.side = "CALL" THEN n.short > snap.scan.spx ELSE n.short < snap.scan.spx
           /\ Distance(n.short, snap.scan.spx) >= n.em
           /\ snap.gex.major[n.side] \notin {None, 0} =>
                 Distance(n.short, snap.gex.major[n.side]) >= n.em
<1> DEFINE side == TargetSide(buckets, snap.tv)
           bucket == Classify(buckets, EffectiveVix(snap))
<1>1. side # None /\ n \in Approved(snap, side, buckets, OpenSpreads)
  BY DEF NewSpreads
<1>2. side \in Sides
  BY <1>1 DEF TargetSide, Sides
<1> HIDE DEF side
<1>3. PICK width : n = Spread(snap, side, width)
  BY <1>1 DEF Approved
<1>4. /\ n.side = side /\ n.short = snap.scan.legs[side].strike /\ n.em = snap.scan.em
      /\ n.spx = snap.scan.spx /\ n.rsi = snap.tv.rsi
  BY <1>3 DEF Spread
<1>5. bucket # None /\ FarFromSpot(snap, side, bucket.params) /\ FarFromLevel(snap, side, bucket.params)
  BY <1>1 DEF Approved
<1>6. bucket.params \in EntryParams /\ bucket.params.fromSpot >= 100 /\ bucket.params.fromGex >= 100
  BY <1>5, ClassifiedIsKey
<1> HIDE DEF bucket
<1>7. snap.scan \in ScanData /\ OutOfTheMoney(snap.scan) /\ snap.gex \in GexData
  BY DEF Joined
<1>8. /\ n.short \in Int /\ n.em \in Nat /\ snap.scan.spx \in Int
      /\ snap.gex.major[side] \in Quote
      /\ bucket.params.fromSpot \in Int /\ bucket.params.fromGex \in Int
  BY <1>2, <1>4, <1>6, <1>7 DEF ScanData, GexData, EntryParams
<1>9. IF n.side = "CALL" THEN n.short > snap.scan.spx ELSE n.short < snap.scan.spx
  BY <1>2, <1>4, <1>7 DEF OutOfTheMoney, Sides
<1>10. Distance(n.short, snap.scan.spx) >= n.em
  <2>1. Distance(n.short, snap.scan.spx) \in Int
    BY <1>8 DEF Distance
  <2>2. Distance(n.short, snap.scan.spx) * 100 >= bucket.params.fromSpot * n.em
    BY <1>4, <1>5 DEF FarFromSpot
  <2> QED
    BY <1>6, <1>8, <2>1, <2>2, OneMove
<1>11. ASSUME snap.gex.major[side] \notin {None, 0}
       PROVE  Distance(n.short, snap.gex.major[side]) >= n.em
  <2>1. snap.gex.major[side] \in Int /\ Level(snap, side) = snap.gex.major[side]
    BY <1>8, <1>11 DEF Quote, Level
  <2>2. Distance(n.short, snap.gex.major[side]) \in Int
    BY <1>8, <2>1 DEF Distance
  <2>3. Distance(n.short, snap.gex.major[side]) * 100 >= bucket.params.fromGex * n.em
    BY <1>4, <1>5, <1>11, <2>1 DEF FarFromLevel
  <2> QED
    BY <1>6, <1>8, <2>2, <2>3, OneMove
<1> QED
  BY <1>2, <1>4, <1>8, <1>9, <1>10, <1>11

(* Whatever its mark, at most one vote is for buying it back.              *)
LEMMA SoldStays ==
    ASSUME Recorded, Joined, Parsed, at = "act", NEW n \in NewSpreads, NEW debit
    PROVE  ~ShouldExit(n, snap, debit)
<1>1. /\ n.side \in Sides /\ n.short \in Int /\ n.em = snap.scan.em
      /\ n.spx = snap.scan.spx /\ n.rsi = snap.tv.rsi
      /\ IF n.side = "CALL" THEN n.short > snap.scan.spx ELSE n.short < snap.scan.spx
      /\ Distance(n.short, snap.scan.spx) >= n.em
      /\ snap.gex.major[n.side] \notin {None, 0} =>
            Distance(n.short, snap.gex.major[n.side]) >= n.em
  BY SoldApart
<1>2. /\ snap.scan.spx \in Int /\ snap.scan.em \in Nat /\ snap.tv.rsi \in Int
      /\ snap.gex.major[n.side] \in Quote
  BY <1>1 DEF Joined, ScanData, GexData, TvData
<1>3. ~Crossed(n, snap)
  BY <1>1, <1>2 DEF Crossed
<1>4. ~Adverse(n, snap)
  BY <1>1, <1>2, NumbersAssumption DEF Adverse
<1>5. ~Momentum(n, snap)
  BY <1>1, <1>2, NumbersAssumption DEF Momentum
<1>6. ~Proximity(n, snap)
  BY <1>1, <1>2 DEF Proximity, Distance
<1>7. ~NearMajor(n, snap)
  <2> SUFFICES ASSUME snap.gex.major[n.side] \notin {None, 0}
               PROVE  ~(Distance(n.short, snap.gex.major[n.side]) < snap.scan.em)
    BY DEF NearMajor
  <2>1. snap.gex.major[n.side] \in Int
    BY <1>2 DEF Quote
  <2> QED
    BY <1>1, <1>2, <2>1 DEF Distance
<1>8. Votes(n, snap, debit) \subseteq {"premium"}
  BY <1>4, <1>5, <1>6, <1>7 DEF Votes, Trend, Vol
<1>9. IsFiniteSet({"premium"}) /\ Cardinality({"premium"}) = 1
  BY FS_Singleton
<1>10. Cardinality(Votes(n, snap, debit)) <= 1 /\ Cardinality(Votes(n, snap, debit)) \in Nat
  BY <1>8, <1>9, FS_Subset, FS_CardinalityType
<1>11. ~(Cardinality(Votes(n, snap, debit)) >= ExitCfg.votes)
  BY <1>10, ThresholdsAssumption
<1> QED
  BY <1>3, <1>11 DEF ShouldExit

(* A spread is never sold on a snapshot on which it would be bought back   *)
(* at once (evaluate_entry, evaluate_exit).                                *)
THEOREM NotExitedAtOnce == Spec => EntryNotExited
<1> DEFINE Kept == \A q \in positions' : q.status = "pending" /\ q \notin positions =>
                       \A debit \in world.marks \cup {None} : ~ShouldExit(q.spread, snap, debit)
<1>1. IInv /\ Next => Kept
  <2> SUFFICES ASSUME IInv, Next, NEW q \in positions', q.status = "pending", q \notin positions,
                      NEW debit \in world.marks \cup {None}
               PROVE  ~ShouldExit(q.spread, snap, debit)
    OBVIOUS
  <2>1. ASSUME NEW d, q \in ExitChecks(d) PROVE FALSE
    BY <2>1, ExitChecksKeep DEF IInv
  <2>2. CASE TickFresh \/ TickStale
    <3>1. at = "act" /\ ProcessTick
      BY <2>1, <2>2 DEF TickFresh, TickStale
    <3>2. PICK d \in Debits, n \in NewSpreads :
              positions' = ExitChecks(d) \cup {[spread |-> n, status |-> "pending"]}
      BY <2>1, <3>1 DEF ProcessTick
    <3>3. q.spread \in NewSpreads
      BY <2>1, <3>2
    <3> QED
      BY <3>1, <3>3, SoldStays DEF IInv
  <2>3. CASE Filled \/ ExitCancelled \/ Gone
    BY <2>3 DEF Filled, ExitCancelled, Gone, IInv, Sold, SoldIn
  <2>4. CASE UNCHANGED positions
    BY <2>4
  <2> QED
    BY <2>2, <2>3, <2>4 DEF Next, WriteRow, TimePasses, StartEngine, Crash, Tick, ReadLatestScan,
       ReadScanRow, ReadGex, ReadTv, ReadFails
<1>2. Spec => [][Kept]_vars
  <2> HIDE DEF Kept
  <2> QED
    BY <1>1, Inductive, PTL DEF Spec
<1> QED
  BY <1>2 DEF EntryNotExited

(* More votes are enough if fewer are.                                     *)
LEMMA MoreVotes ==
    ASSUME NEW p, NEW s, NEW t, NEW d, NEW e, Votes(p, s, d) \subseteq Votes(p, t, e),
           Crossed(p, s) => Crossed(p, t), ShouldExit(p, s, d)
    PROVE  ShouldExit(p, t, e)
<1> DEFINE kinds == {"trend", "vol", "momentum", "proximity", "near_major", "premium"}
<1>1. IsFiniteSet(kinds)
  <2>1. IsFiniteSet({})
    BY FS_EmptySet
  <2>2. IsFiniteSet({} \cup {"trend"})
    BY <2>1, FS_AddElement
  <2>3. IsFiniteSet({} \cup {"trend"} \cup {"vol"})
    BY <2>2, FS_AddElement
  <2>4. IsFiniteSet({} \cup {"trend"} \cup {"vol"} \cup {"momentum"})
    BY <2>3, FS_AddElement
  <2>5. IsFiniteSet({} \cup {"trend"} \cup {"vol"} \cup {"momentum"} \cup {"proximity"})
    BY <2>4, FS_AddElement
  <2>6. IsFiniteSet({} \cup {"trend"} \cup {"vol"} \cup {"momentum"} \cup {"proximity"}
                    \cup {"near_major"})
    BY <2>5, FS_AddElement
  <2>7. IsFiniteSet({} \cup {"trend"} \cup {"vol"} \cup {"momentum"} \cup {"proximity"}
                    \cup {"near_major"} \cup {"premium"})
    BY <2>6, FS_AddElement
  <2>8. kinds = {} \cup {"trend"} \cup {"vol"} \cup {"momentum"} \cup {"proximity"}
                \cup {"near_major"} \cup {"premium"}
    OBVIOUS
  <2> QED
    BY <2>7, <2>8
<1>2. Votes(p, t, e) \subseteq kinds
  BY DEF Votes
<1>3. IsFiniteSet(Votes(p, t, e))
  <2> HIDE DEF kinds
  <2> QED
    BY <1>1, <1>2, FS_Subset
<1>4. /\ Cardinality(Votes(p, s, d)) <= Cardinality(Votes(p, t, e))
      /\ Cardinality(Votes(p, s, d)) \in Nat /\ Cardinality(Votes(p, t, e)) \in Nat
  BY <1>3, FS_Subset, FS_CardinalityType
<1> QED
  BY <1>4, ThresholdsAssumption DEF ShouldExit

(* With SPX nearer to the short strike, no vote is lost but to the hard    *)
(* stop.                                                                   *)
LEMMA NearerVotes ==
    ASSUME NEW p, p.side \in Sides, p.short \in Int, p.em \in Nat, p.spx \in Int,
           NEW s, s.scan \in ScanData, NEW spx \in Int,
           s = [asked |-> s.asked, scan |-> s.scan, gex |-> s.gex, tv |-> s.tv],
           IF p.side = "CALL" THEN spx >= s.scan.spx ELSE spx <= s.scan.spx,
           ~Crossed(p, [s EXCEPT !.scan.spx = spx])
    PROVE  /\ ~Crossed(p, s)
           /\ Votes(p, s, None) \subseteq Votes(p, [s EXCEPT !.scan.spx = spx], None)
<1> DEFINE t == [s EXCEPT !.scan.spx = spx]
<1>1. t.scan.spx = spx /\ t.scan.em = s.scan.em /\ t.tv = s.tv /\ t.gex = s.gex
  BY DEF ScanData
<1>2. s.scan.spx \in Int
  BY DEF ScanData
<1> HIDE DEF t
<1>3. ~Crossed(p, t)
  BY DEF t
<1>4. ~Crossed(p, s)
  BY <1>1, <1>2, <1>3 DEF Crossed
<1>5. Adverse(p, s) => Adverse(p, t)
  BY <1>1, <1>2, NumbersAssumption DEF Adverse
<1>6. Proximity(p, s) => Proximity(p, t)
  BY <1>1, <1>2, <1>3 DEF Crossed, Proximity, Distance
<1>7. (Trend(p, s) => Trend(p, t)) /\ (Vol(p, s) => Vol(p, t))
  BY <1>1, <1>5 DEF Trend, Vol
<1>8. (Momentum(p, s) <=> Momentum(p, t)) /\ (NearMajor(p, s) <=> NearMajor(p, t))
  BY <1>1 DEF Momentum, NearMajor
<1>9. Votes(p, s, None) \subseteq Votes(p, t, None)
  BY <1>6, <1>7, <1>8 DEF Votes
<1> QED
  BY <1>4, <1>9 DEF t

(* Closer to the short strike, or with a mark where there was none, what   *)
(* was to be bought back still is (evaluate_exit).                         *)
THEOREM ExitIsMonotone == Spec => []ExitMonotone
<1>1. IInv => ExitMonotone
  <2> SUFFICES ASSUME IInv, at = "act", NEW q \in positions, NEW debit \in world.marks \cup {None},
                      ShouldExit(q.spread, snap, None)
               PROVE  /\ ShouldExit(q.spread, snap, debit)
                      /\ \A t \in Nearer(q.spread, snap) : ShouldExit(q.spread, t, None)
    BY DEF ExitMonotone
  <2>1. /\ q.spread.side \in Sides /\ q.spread.short \in Int
        /\ q.spread.em \in Nat /\ q.spread.spx \in Int
    BY DEF IInv, Sold, SoldIn
  <2>2. /\ snap = [asked |-> snap.asked, scan |-> snap.scan, gex |-> snap.gex, tv |-> snap.tv]
        /\ snap.scan \in ScanData /\ snap.scan.spx \in Int
        /\ \A d \in world.data["scan"] : d.spx \in Int
    BY WorldsAssumption DEF IInv, Recorded, Joined, ScanData
  <2>3. ShouldExit(q.spread, snap, debit)
    <3>1. Votes(q.spread, snap, None) \subseteq Votes(q.spread, snap, debit)
      BY DEF Votes, Premium
    <3> QED
      BY <3>1, MoreVotes
  <2>4. ASSUME NEW t \in Nearer(q.spread, snap) PROVE ShouldExit(q.spread, t, None)
    <3>1. PICK d \in world.data["scan"] : t = [snap EXCEPT !.scan.spx = d.spx]
      BY <2>4 DEF Nearer
    <3>2. /\ t.scan.spx = d.spx
          /\ IF q.spread.side = "CALL" THEN d.spx >= snap.scan.spx ELSE d.spx <= snap.scan.spx
      BY <2>2, <2>4, <3>1 DEF Nearer, ScanData
    <3>3. CASE Crossed(q.spread, t)
      BY <3>3 DEF ShouldExit
    <3>4. CASE ~Crossed(q.spread, t)
      <4>1. /\ ~Crossed(q.spread, snap)
            /\ Votes(q.spread, snap, None) \subseteq Votes(q.spread, t, None)
        BY <2>1, <2>2, <3>1, <3>2, <3>4, NearerVotes
      <4> QED
        BY <4>1, MoreVotes
    <3> QED
      BY <3>3, <3>4
  <2> QED
    BY <2>3, <2>4
<1> QED
  BY <1>1, Inductive, PTL

(* The buckets of a running engine, as sequences.                          *)
LEMMA BucketsAre ==
    ASSUME Recorded, Parsed, at # "start"
    PROVE  /\ Len(buckets) \in Nat /\ DOMAIN buckets = 1..Len(buckets)
           /\ \A i \in 1..Len(buckets) :
                 /\ buckets[i] \in world.keys /\ buckets[i].lo \in Int /\ buckets[i].hi \in Int
                 /\ buckets[i].lo < buckets[i].hi
           /\ \A key \in world.keys : \E i \in 1..Len(buckets) : buckets[i] = key
           /\ \A i \in 1..(Len(buckets) - 1) : buckets[i].hi = buckets[i + 1].lo
           /\ \A i, j \in 1..Len(buckets) : i < j => buckets[i].hi <= buckets[j].lo
<1>1. /\ IsFiniteSet(world.keys)
      /\ world.keys \subseteq [lo: Int, hi: Int, params: EntryParams]
  BY WorldsAssumption DEF Recorded
<1> DEFINE N == Cardinality(world.keys)
<1>2. N \in Nat
  BY <1>1, FS_CardinalityType
<1>3. /\ buckets \in [1..N -> world.keys] /\ IsPartition(buckets)
      /\ \A key \in world.keys : \E i \in DOMAIN buckets : buckets[i] = key
      /\ \A i, j \in DOMAIN buckets : i < j => buckets[i].lo <= buckets[j].lo
  BY DEF Parsed, Sorted
<1> HIDE DEF N
<1>4. buckets \in Seq(world.keys) /\ Len(buckets) = N /\ DOMAIN buckets = 1..N
  BY <1>2, <1>3
<1>5. \A i \in 1..N : /\ buckets[i] \in world.keys /\ buckets[i].lo \in Int /\ buckets[i].hi \in Int
                      /\ buckets[i].lo < buckets[i].hi
  BY <1>1, <1>3, <1>4 DEF IsPartition
<1>6. \A i \in 1..(N - 1) : buckets[i].hi = buckets[i + 1].lo
  BY <1>3, <1>4 DEF IsPartition
<1>7. ASSUME NEW i \in 1..N, NEW j \in 1..N, i < j PROVE buckets[i].hi <= buckets[j].lo
  <2>1. i \in 1..(N - 1) /\ i + 1 \in 1..N /\ (i + 1 = j \/ i + 1 < j)
    BY <1>2, <1>7
  <2>2. buckets[i].hi = buckets[i + 1].lo
    BY <1>6, <2>1
  <2>3. buckets[i + 1].lo <= buckets[j].lo
    <3>1. CASE i + 1 = j
      BY <1>5, <1>7, <3>1
    <3>2. CASE i + 1 < j
      <4>1. i + 1 \in DOMAIN buckets /\ j \in DOMAIN buckets
        BY <1>4, <1>7, <2>1
      <4> QED
        BY <1>3, <3>2, <4>1
    <3> QED
      BY <2>1, <3>1, <3>2
  <2> QED
    BY <2>2, <2>3
<1> QED
  BY <1>2, <1>3, <1>4, <1>5, <1>6, <1>7

(* A VIX is in one bucket at most.                                         *)
LEMMA OneBucket ==
    ASSUME Recorded, Parsed, at # "start", NEW vix \in Int,
           NEW i \in DOMAIN buckets, NEW j \in DOMAIN buckets,
           InBucket(buckets, i, vix), InBucket(buckets, j, vix)
    PROVE  i = j
<1>1. ASSUME NEW a \in DOMAIN buckets, NEW b \in DOMAIN buckets, a < b,
             InBucket(buckets, a, vix), InBucket(buckets, b, vix)
      PROVE  FALSE
  <2>1. /\ a \in 1..Len(buckets) /\ b \in 1..Len(buckets) /\ Len(buckets) \in Nat
        /\ buckets[a].hi \in Int /\ buckets[b].lo \in Int /\ buckets[a].hi <= buckets[b].lo
    BY <1>1, BucketsAre
  <2>2. vix < buckets[a].hi /\ buckets[b].lo <= vix
    BY <1>1, <2>1 DEF InBucket
  <2> QED
    BY <2>1, <2>2
<1>2. i \in Int /\ j \in Int
  BY BucketsAre
<1> QED
  BY <1>1, <1>2

(* And in one from the lowest bound to the highest.                        *)
LEMMA SomeBucket ==
    ASSUME Recorded, Parsed, at # "start", NEW vix \in Int
    PROVE  (\E i \in DOMAIN buckets : InBucket(buckets, i, vix))
              <=> (\E k, l \in world.keys : k.lo <= vix /\ vix <= l.hi)
<1> DEFINE N == Len(buckets)
<1>0. /\ N \in Nat /\ DOMAIN buckets = 1..N
      /\ \A i \in 1..N :
            /\ buckets[i] \in world.keys /\ buckets[i].lo \in Int /\ buckets[i].hi \in Int
            /\ buckets[i].lo < buckets[i].hi
      /\ \A key \in world.keys : \E i \in 1..N : buckets[i] = key
      /\ \A i \in 1..(N - 1) : buckets[i].hi = buckets[i + 1].lo
      /\ \A i, j \in 1..N : i < j => buckets[i].hi <= buckets[j].lo
  BY BucketsAre
<1> HIDE DEF N
<1>1. ASSUME NEW i \in DOMAIN buckets, InBucket(buckets, i, vix)
      PROVE  \E k, l \in world.keys : k.lo <= vix /\ vix <= l.hi
  BY <1>0, <1>1 DEF InBucket
<1>2. ASSUME NEW k \in world.keys, NEW l \in world.keys, k.lo <= vix, vix <= l.hi
      PROVE  \E i \in DOMAIN buckets : InBucket(buckets, i, vix)
  <2> DEFINE S == {i \in 1..N : buckets[i].lo <= vix}
  <2>1. S \in SUBSET (0..N) /\ S # {}
    <3>1. PICK i \in 1..N : buckets[i] = k
      BY <1>0, <1>2
    <3>2. i \in S
      BY <1>2, <3>1
    <3>3. \A j \in 1..N : j \in 0..N
      BY <1>0
    <3> QED
      BY <3>2, <3>3
  <2>2. PICK m \in S : \A i \in S : i <= m
    <3> HIDE DEF S
    <3> QED
      BY <1>0, <2>1, HasLargest
  <2>3. m \in 1..N /\ buckets[m].lo <= vix
    BY <2>2
  <2>4. CASE m = N
    <3>1. PICK j \in 1..N : buckets[j] = l
      BY <1>0, <1>2
    <3>2. vix <= buckets[N].hi
      <4>1. CASE j = N
        BY <1>2, <3>1, <4>1
      <4>2. CASE j # N
        <5>1. j < N /\ N \in 1..N
          BY <1>0, <3>1, <4>2
        <5>2. buckets[j].hi <= buckets[N].lo /\ buckets[N].lo < buckets[N].hi
          BY <1>0, <5>1
        <5> QED
          BY <1>0, <1>2, <3>1, <5>1, <5>2
      <4> QED
        BY <4>1, <4>2
    <3>3. vix < buckets[N].hi \/ vix = buckets[N].hi
      BY <1>0, <2>3, <2>4, <3>2
    <3> QED
      BY <1>0, <2>3, <2>4, <3>3 DEF InBucket, N
  <2>5. CASE m # N
    <3>1. m \in 1..(N - 1) /\ m + 1 \in 1..N /\ m + 1 \notin S
      BY <1>0, <2>2, <2>3, <2>5
    <3>2. buckets[m].hi = buckets[m + 1].lo /\ ~(buckets[m + 1].lo <= vix)
      BY <1>0, <3>1
    <3>3. vix < buckets[m].hi
      BY <1>0, <3>1, <3>2
    <3> QED
      BY <1>0, <2>3, <3>3 DEF InBucket
  <2> QED
    BY <2>4, <2>5
<1> QED
  BY <1>1, <1>2

(* While the engine runs, each VIX from the lowest to the highest bound is *)
(* in exactly one bucket, the one classify returns (parse_buckets).        *)
THEOREM BucketsArePartition == Spec => []BucketsPartition
<1>1. IInv => BucketsPartition
  <2> SUFFICES ASSUME IInv, at # "start", NEW d \in world.data["tv"], d.vix # None
               PROVE  LET hits == {i \in DOMAIN buckets : InBucket(buckets, i, d.vix)}
                      IN  /\ Cardinality(hits) <= 1
                          /\ hits # {} <=> \E k, l \in world.keys : k.lo <= d.vix /\ d.vix <= l.hi
                          /\ Classify(buckets, d.vix)
                               = IF hits = {} THEN None ELSE buckets[CHOOSE i \in hits : TRUE]
    BY DEF BucketsPartition
  <2> DEFINE hits == {i \in DOMAIN buckets : InBucket(buckets, i, d.vix)}
  <2>1. d.vix \in Int
    BY WorldsAssumption DEF IInv, Recorded, TvData, Quote
  <2>2. \A i, j \in hits : i = j
    BY <2>1, OneBucket DEF IInv
  <2>3. hits # {} <=> \E k, l \in world.keys : k.lo <= d.vix /\ d.vix <= l.hi
    BY <2>1, SomeBucket DEF IInv
  <2>4. \A i \in hits : i \in Int
    BY BucketsAre DEF IInv
  <2>5. Classify(buckets, d.vix)
           = IF hits = {} THEN None ELSE buckets[CHOOSE i \in hits : \A j \in hits : i <= j]
    BY DEF Classify
  <2> HIDE DEF hits
  <2>6. Cardinality(hits) <= 1
    <3>1. CASE hits = {}
      <4>1. Cardinality({}) = 0
        BY FS_EmptySet
      <4> QED
        BY <3>1, <4>1
    <3>2. CASE hits # {}
      <4>1. PICK i \in hits : hits = {i}
        BY <2>2, <3>2
      <4>2. Cardinality({i}) = 1
        BY FS_Singleton
      <4> QED
        BY <4>1, <4>2
    <3> QED
      BY <3>1, <3>2
  <2>7. hits # {} => (CHOOSE i \in hits : \A j \in hits : i <= j) = (CHOOSE i \in hits : TRUE)
    <3>1. \A i \in hits : hits = {i} /\ i <= i
      BY <2>2, <2>4
    <3> QED
      BY <3>1
  <2>8. Classify(buckets, d.vix) = IF hits = {} THEN None ELSE buckets[CHOOSE i \in hits : TRUE]
    BY <2>5, <2>7
  <2> QED
    BY <2>3, <2>6, <2>8 DEF hits
<1> QED
  BY <1>1, Inductive, PTL
=============================================================================
