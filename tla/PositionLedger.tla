--------------------------- MODULE PositionLedger ---------------------------
(***************************************************************************)
(* What the positions database promises of a row, without the engine, its  *)
(* trackers and its list: the statuses a row goes through, when, and which *)
(* spread it stands for.  OrderLifecycle implements this specification.    *)
(*                                                                         *)
(*                 +-> deleted                                             *)
(*   none -> pending_open -> open -> closed                                *)
(*     +---------------------^ +---> expired                               *)
(*                                                                         *)
(* and, once the session is over, from pending_open to expired and from    *)
(* expired to open, closed or deleted: an order that outlives the          *)
(* end-of-day sweep takes its row back.                                    *)
(***************************************************************************)
CONSTANTS Row, Spread, NoSpread

VARIABLES
    status,     \* of every row
    spread,     \* the spread every row stands for
    session     \* FALSE once the market has closed

vars == <<status, spread, session>>

Status == {"none", "pending_open", "open", "closed", "expired", "deleted"}
Active == {"pending_open", "open"}

Init ==
    /\ status = [r \in Row |-> "none"]
    /\ spread = [r \in Row |-> NoSpread]
    /\ session = TRUE

Entered   == {<<"none", "pending_open">>}
Confirmed == {<<"none", "open">>, <<"pending_open", "open">>}
Ended     == {<<"pending_open", "deleted">>, <<"open", "expired">>,
              <<"open", "closed">>}
Overtaken == {<<"pending_open", "expired">>, <<"expired", "open">>,
              <<"expired", "deleted">>, <<"expired", "closed">>}

(* No position is entered after the session, and only then is an order     *)
(* overtaken by the sweep.                                                 *)
Moves == Confirmed \cup Ended \cup (IF session THEN Entered ELSE Overtaken)

(* A row is given its spread when it is first written, for good.           *)
Moved(r) ==
    \/ status'[r] = status[r] /\ spread'[r] = spread[r]
    \/ /\ <<status[r], status'[r]>> \in Moves
       /\ spread'[r] \in Spread
       /\ spread'[r] = spread[r] \/ status[r] = "none"

Distinct ==
    \A r, q \in Row :
        status[r] \in Active /\ status[q] \in Active /\ spread[r] = spread[q] => r = q

(* A reconcile and the sweep write many rows at once.                      *)
Write ==
    /\ status' \in [Row -> Status]
    /\ spread' \in [Row -> Spread \cup {NoSpread}]
    /\ \A r \in Row : Moved(r)
    /\ session => Distinct'
    /\ UNCHANGED session

EndSession == session /\ session' = FALSE /\ UNCHANGED <<status, spread>>

Next == Write \/ EndSession
Spec == Init /\ [][Next]_vars
=============================================================================
