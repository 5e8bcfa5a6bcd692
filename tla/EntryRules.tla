----------------------------- MODULE EntryRules -----------------------------
(***************************************************************************)
(* When a new spread is sold: the RSI gate of tick_processor.py, the       *)
(* filters of risk_manager.evaluate_entry and the strike collision test of *)
(* position_store.py.                                                      *)
(*                                                                         *)
(* A snapshot s joins a scanner row s.scan, a GEX row s.gex and a          *)
(* TradingView row s.tv.  Prices are integers in one unit, multiples are   *)
(* percentages.                                                            *)
(***************************************************************************)
EXTENDS VixBuckets

CONSTANTS
    WidthPrimary, WidthFallback     \* spread_width_primary, spread_width_fallback

Sides == {"CALL", "PUT"}
Distance(a, b) == IF a >= b THEN a - b ELSE b - a

(* ---- What a row holds; major is the level of most volume on each side   *)
Quote == Int \cup {None}
ScanData ==
    [ts: Nat, spx: Int, em: Nat,
     legs: [Sides -> [strike: Int, mid: Quote, long10: Quote, long20: Quote]]]
GexData == [ts: Nat, oi: Int, zero: Int, dist: Int, major: [Sides -> Quote]]
TvData == [ts: Nat, rsi: Int, vix: Quote, adx: Quote, vix1d: Quote]
EntryParams == [minPremium: Int, rsiUpper: Int, rsiLower: Int, fromSpot: Int, fromGex: Int]

(* The scanner offers strikes out of the money.                            *)
OutOfTheMoney(scan) ==
    scan.legs["CALL"].strike > scan.spx /\ scan.legs["PUT"].strike < scan.spx

(* ---- The side to look at ---- *)

(* _get_rsi_gates: the VIX's bucket, else the top one; 70/30 without VIX   *)
(* or buckets.                                                             *)
RsiGates(buckets, vix) ==
    IF vix = None \/ buckets = <<>> THEN [rsiUpper |-> 70, rsiLower |-> 30]
    ELSE LET b == Classify(buckets, vix)
         IN  IF b # None THEN b.params ELSE buckets[Len(buckets)].params

TargetSide(buckets, tv) ==
    LET gates == RsiGates(buckets, tv.vix)
    IN  CASE tv.rsi > gates.rsiUpper -> "CALL"
          [] tv.rsi < gates.rsiLower -> "PUT"
          [] OTHER -> None

(* ---- evaluate_entry ---- *)

EffectiveVix(s) ==
    IF s.tv.vix # None THEN s.tv.vix
    ELSE IF s.scan.em > 0 THEN s.scan.em * 16 ELSE 0

(* The two widths: the first that is quoted on both legs and pays enough.  *)
LongMid(leg, width) == IF width = 10 THEN leg.long10 ELSE leg.long20
Credit(leg, width) == leg.mid - LongMid(leg, width)
Pays(leg, width, minPremium) ==
    /\ leg.mid # None /\ LongMid(leg, width) # None
    /\ Credit(leg, width) >= minPremium
Width(leg, minPremium) == IF Pays(leg, WidthPrimary, minPremium) THEN WidthPrimary ELSE WidthFallback

(* The spread sold, with the baselines that evaluate_exit compares with    *)
(* (store.add_position).                                                   *)
Spread(s, side, width) ==
    LET leg == s.scan.legs[side]
    IN  [side |-> side, short |-> leg.strike,
         long |-> IF side = "CALL" THEN leg.strike + width ELSE leg.strike - width,
         credit |-> Credit(leg, width), em |-> s.scan.em, spx |-> s.scan.spx,
         adx |-> s.tv.adx, rsi |-> s.tv.rsi, vix1d |-> s.tv.vix1d]

FarFromSpot(s, side, params) ==
    Distance(s.scan.legs[side].strike, s.scan.spx) * 100 >= params.fromSpot * s.scan.em

(* A missing level, and a level of 0, count as no distance at all.         *)
Level(s, side) == IF s.gex.major[side] = None THEN 0 ELSE s.gex.major[side]
FarFromLevel(s, side, params) ==
    LET level == Level(s, side)
        far == IF level = 0 THEN 0 ELSE Distance(s.scan.legs[side].strike, level)
    IN  far * 100 >= params.fromGex * s.scan.em

(* Mutant of Collides: the third comparison is missing.                    *)
Collides_LongNotRead(new, open) == new.short = open.short \/ new.long = open.short
(* check_strike_collision against one open spread.                         *)
Collides(new, open) ==
    \/ new.short = open.short
    \/ new.long = open.short
    \/ new.short = open.long

(* The spreads approved on the side that was asked for, at most one.       *)
Approved(s, side, buckets, openSpreads) ==
    LET bucket == Classify(buckets, EffectiveVix(s))
    IN  IF bucket = None THEN {}
        ELSE LET leg == s.scan.legs[side]
                 width == Width(leg, bucket.params.minPremium)
             IN  IF /\ Pays(leg, width, bucket.params.minPremium)
                    /\ FarFromSpot(s, side, bucket.params)
                    /\ FarFromLevel(s, side, bucket.params)
                    /\ \A o \in openSpreads : ~Collides(Spread(s, side, width), o)
                 THEN {Spread(s, side, width)} ELSE {}
=============================================================================
