---------------------------- MODULE MCMarketTick ----------------------------
(* TLC instances of MarketTick: its worlds.                                *)
EXTENDS MarketTick

Params(premium, upper, lower) ==
    [minPremium |-> premium, rsiUpper |-> upper, rsiLower |-> lower, fromSpot |-> 300, fromGex |-> 100]
TwoKeys == {Bucket(13, 17, Params(2, 50, 49)), Bucket(17, 19, Params(2, 55, 45))}
KeySets == {
    TwoKeys, {},
    TwoKeys \cup {Bucket(19, 25, Params(3, 55, 45))},
    TwoKeys \cup {Bucket(20, 25, Params(3, 55, 45))},   \* a gap
    TwoKeys \cup {Bucket(18, 25, Params(3, 55, 45))},   \* an overlap
    {Bucket(17, 13, Params(2, 50, 49))}}                \* upside down

Leg(strike, mid, long10, long20) ==
    [strike |-> strike, mid |-> mid, long10 |-> long10, long20 |-> long20]
Scan(spx, call, put) ==
    [ts |-> 0, spx |-> spx, em |-> 10, legs |-> [s \in {"CALL", "PUT"} |-> IF s = "CALL" THEN call ELSE put]]
Gex(oi, zero, dist, call, put) ==
    [ts |-> 0, oi |-> oi, zero |-> zero, dist |-> dist,
     major |-> [s \in {"CALL", "PUT"} |-> IF s = "CALL" THEN call ELSE put]]
Tv(rsi, vix, adx, vix1d) == [ts |-> 0, rsi |-> rsi, vix |-> vix, adx |-> adx, vix1d |-> vix1d]

(* Spot moves by the width of a spread; the ten-point call at 100 pays too *)
(* little, so that the wider one is sold.                                  *)
Calm == Scan(100, Leg(130, 3, 2, 1), Leg(70, 3, 1, None))
Up == Scan(110, Leg(140, 3, 1, None), Leg(80, 3, 1, 1))
Higher == Scan(120, Leg(150, 3, 1, 1), Leg(90, 3, 1, 1))
Crossing == Scan(140, Leg(170, 3, 1, 1), Leg(110, 3, 1, 1))
Unquoted == Scan(140, Leg(170, None, 1, 1), Leg(110, None, 1, 1))

Safe == Gex(5, 80, 20, 120, 80)
Danger == Gex(-6, 200, -100, 120, 80)
High == Tv(60, 15, 20, 10)
Low == Tv(40, 15, 20, 10)
Neutral == Tv(50, 15, 20, 10)
Extreme == Tv(90, 15, 30, 13)

World(source, silent, faults, scans, gexs, tvs, horizon) ==
    [source |-> source, silent |-> silent, faults |-> faults, marks |-> {6},
     data |-> [f \in Feeds |-> CASE f = "scan" -> scans [] f = "gex" -> gexs [] f = "tv" -> tvs],
     keys |-> TwoKeys, horizon |-> horizon]

(* Spreads are sold and bought back, nothing fails.                        *)
RuleWorlds == {World("cloud", {}, {}, {Calm, Higher}, {Safe}, {High}, 1),
               World("cloud", {}, {}, {Calm, Up}, {Safe}, {Low}, 1),
               World("cloud", {}, {}, {Calm, Crossing}, {Safe}, {High, Extreme}, 1),
               World("cloud", {}, {}, {Calm, Unquoted}, {Safe, Danger}, {High}, 1)}
(* Extractors fall silent, reads fail, the RSI is neutral.                 *)
FeedWorlds ==
    {World(s, {"tv"}, {}, {Calm}, {Safe}, {Neutral}, 2) : s \in Sources}
    \cup {World("spaced", {"gex"}, {"locked"}, {Calm}, {Safe}, {Neutral}, 2)}
(* The scanner falls silent and the engine restarts while the gate moves.  *)
GateWorlds == {World("spaced", {"scan"}, {"crash"}, {Calm}, {Danger}, {Neutral}, 3)}
BucketWorlds == {[World("spaced", {}, {}, {Calm}, {Safe}, {Tv(60, v, 20, 10) : v \in 12..26}, 0)
                     EXCEPT !.keys = k] : k \in KeySets}
TheWorlds == RuleWorlds \cup FeedWorlds \cup GateWorlds \cup BucketWorlds

(* Where a first read may fail and a second one succeed.                   *)
LockedWorlds == {World("spaced", {}, {"locked"}, {Calm}, {Danger}, {High}, 0)}

TheExitCfg == [votes |-> 2, adxFloor |-> 20, adxRise |-> 8, vix1dPct |-> 120,
               rsiPut |-> 35, rsiCall |-> 65, premiumMult |-> 3]
TheGateCfg == [gex |-> 0, dist |-> -15, rsiLow |-> 15, rsiHigh |-> 85]
Hours == 0..2
=============================================================================
