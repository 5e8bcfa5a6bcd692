------------------------------ MODULE ExitRules ------------------------------
(***************************************************************************)
(* When an open spread is bought back: risk_manager.evaluate_exit.  The    *)
(* hard stop (L1) ends it when SPX reaches the short strike; otherwise     *)
(* conditions are counted as votes (L2).  Snapshots and spreads as in      *)
(* EntryRules; debit is the live mark of the spread, None without one.     *)
(***************************************************************************)
EXTENDS EntryRules

CONSTANT
    ExitCfg     \* votes, adxFloor, adxRise, vix1dPct, rsiPut, rsiCall, premiumMult

(* L1.                                                                     *)
Crossed(p, s) == IF p.side = "CALL" THEN s.scan.spx >= p.short ELSE s.scan.spx <= p.short

(* Mutant of Adverse: the sides swapped.                                   *)
Adverse_Swapped(p, s) ==
    \/ p.spx = None
    \/ IF p.side = "CALL" THEN s.scan.spx < p.spx ELSE s.scan.spx > p.spx
(* Price against the short side since the entry; true without a baseline.  *)
Adverse(p, s) ==
    \/ p.spx = None
    \/ IF p.side = "CALL" THEN s.scan.spx > p.spx ELSE s.scan.spx < p.spx

Trend(p, s) ==
    /\ Adverse(p, s) /\ s.tv.adx # None /\ p.adx # None
    /\ s.tv.adx >= ExitCfg.adxFloor
    /\ s.tv.adx - p.adx >= ExitCfg.adxRise
Vol(p, s) ==
    /\ Adverse(p, s) /\ s.tv.vix1d \notin {None, 0} /\ p.vix1d # None
    /\ p.vix1d > 0
    /\ s.tv.vix1d * 100 >= p.vix1d * ExitCfg.vix1dPct

(* Mutant of Momentum: the entry's RSI is not compared with.               *)
Momentum_NoBaseline(p, s) ==
    IF p.side = "CALL" THEN s.tv.rsi >= ExitCfg.rsiCall ELSE s.tv.rsi <= ExitCfg.rsiPut
Momentum(p, s) ==
    IF p.side = "CALL"
    THEN s.tv.rsi >= ExitCfg.rsiCall /\ (p.rsi = None \/ s.tv.rsi > p.rsi)
    ELSE s.tv.rsi <= ExitCfg.rsiPut /\ (p.rsi = None \/ s.tv.rsi < p.rsi)

Proximity(p, s) == Distance(s.scan.spx, p.short) < p.em

(* The short strike within the current expected move of the major level.   *)
NearMajor(p, s) ==
    /\ s.gex.major[p.side] \notin {None, 0}
    /\ Distance(p.short, s.gex.major[p.side]) < s.scan.em
Premium(p, debit) ==
    /\ debit # None /\ p.credit > 0
    /\ debit >= p.credit * ExitCfg.premiumMult

Votes(p, s, debit) ==
    {v \in {"trend", "vol", "momentum", "proximity", "near_major", "premium"} :
        \/ v = "trend" /\ Trend(p, s)
        \/ v = "vol" /\ Vol(p, s)
        \/ v = "momentum" /\ Momentum(p, s)
        \/ v = "proximity" /\ Proximity(p, s)
        \/ v = "near_major" /\ NearMajor(p, s)
        \/ v = "premium" /\ Premium(p, debit)}

(* A spread without an expected move at entry has the hard stop only.      *)
ShouldExit(p, s, debit) ==
    \/ Crossed(p, s)
    \/ /\ p.em # None
       /\ p.em > 0
       /\ Cardinality(Votes(p, s, debit)) >= ExitCfg.votes
=============================================================================
