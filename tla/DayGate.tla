------------------------------- MODULE DayGate -------------------------------
(***************************************************************************)
(* The rolling volatility gate (day_gate.py).  A gate is a buffer of       *)
(* samples in the order of their arrival and the timestamp it last saw.    *)
(* A sample is [time, gex, dist, rsi, scan]: its arrival, what it says,    *)
(* and, for the reader only, the scan it came from (None if prefilled).    *)
(***************************************************************************)
EXTENDS Integers, Sequences, FiniteSets

CONSTANTS
    None,           \* no RSI, no timestamp
    GateWindow,     \* window_minutes
    GateCfg         \* gex, dist, rsiLow, rsiHigh

EmptyGate == [buffer |-> <<>>, last |-> None]

(* prefill_from_db: the GEX rows of the window before the scan, all with   *)
(* the current time as arrival and without RSI.  The last timestamp is     *)
(* that of a GEX row, which is not written the way a scan's is.            *)
Prefilled(rows, now) ==
    LET n == Cardinality(rows)
        nth(i) == CHOOSE r \in rows : Cardinality({q \in rows : q.ts <= r.ts}) = i
        sample(r) == [time |-> now, gex |-> r.oi, dist |-> r.dist, rsi |-> None, scan |-> None]
    IN  IF rows = {} THEN EmptyGate
        ELSE [buffer |-> [i \in 1..n |-> sample(nth(i))], last |-> <<"gex", nth(n).ts>>]

(* Mutant of Appended: the last timestamp is not kept.                     *)
Appended_NotKept(g, sample) ==
    IF g.last = <<"scan", sample.scan>> THEN g
    ELSE [g EXCEPT !.buffer = Append(@, sample)]
(* update: append unless the scan is the one seen last ...                 *)
Appended(g, sample) ==
    IF g.last = <<"scan", sample.scan>> THEN g
    ELSE [buffer |-> Append(g.buffer, sample), last |-> <<"scan", sample.scan>>]

(* ... then drop samples from the head while they are out of the window.   *)
Pruned(buffer, now) ==
    LET fresh == {i \in DOMAIN buffer : buffer[i].time >= now - GateWindow}
    IN  IF fresh = {} THEN <<>>
        ELSE SubSeq(buffer, CHOOSE i \in fresh : \A j \in fresh : i <= j, Len(buffer))

Updated(g, sample, now) ==
    LET appended == Appended(g, sample)
    IN  [appended EXCEPT !.buffer = Pruned(@, now)]

(* _evaluate, with sums for averages.  Without any RSI the average is 0.   *)
Sum(seq) ==
    LET sum[n \in 0..Len(seq)] == IF n = 0 THEN 0 ELSE sum[n - 1] + seq[n] IN sum[Len(seq)]
Blocked(buffer) ==
    LET n == Len(buffer)
        rsis == SelectSeq([i \in 1..n |-> buffer[i].rsi], LAMBDA r : r # None)
        gexDanger == Sum([i \in 1..n |-> buffer[i].gex]) < GateCfg.gex * n
        distDanger == Sum([i \in 1..n |-> buffer[i].dist]) < GateCfg.dist * n
        rsiDanger == IF rsis = <<>> THEN 0 < GateCfg.rsiLow \/ 0 > GateCfg.rsiHigh
                     ELSE \/ Sum(rsis) < GateCfg.rsiLow * Len(rsis)
                          \/ Sum(rsis) > GateCfg.rsiHigh * Len(rsis)
    IN  n > 0 /\ gexDanger /\ (distDanger \/ rsiDanger)
=============================================================================
