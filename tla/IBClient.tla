------------------------------ MODULE IBClient ------------------------------
(***************************************************************************)
(* The IBKR client (src/blocking_ib_client.py) and the use that the engine *)
(* makes of it: the request queue between the engine's thread and the IB   *)
(* thread, time-outs, the connection and its loss, the client-id collision *)
(* and the market-data lines that mark open positions.                     *)
(*                                                                         *)
(* A request is taken from the queue in one step and finished in another:  *)
(* in between the IB thread spins its event loop and the engine's thread   *)
(* may give up.  A failed connect attempt changes only its own back-off    *)
(* and is no step.  The engine never calls connect() or _health_check(),   *)
(* and registers no fill callback: these are left out.                     *)
(*                                                                         *)
(* Bounds: Call is finite, so the queue is; a call id stands for a         *)
(* ResultHolder and is used again when no thread holds it any more.        *)
(***************************************************************************)
EXTENDS Sequences, FiniteSets, Integers

CONSTANTS
    Call,       \* ResultHolder objects
    Key,        \* db ids of positions, each opened and closed once
    NoCall, NoKey,
    Faults      \* the misbehaviours of the environment that a run allows

(* outage   the gateway goes away and comes back                           *)
(* collide  another session holds the client id (a second engine, or what  *)
(*          IBKR still keeps of a session that broke)                      *)
(* callback an event handler raises and clears _connected                  *)
(* error    a request raises in the IB thread                              *)
(* slow     a caller's time-out passes while its request could be served   *)
ASSUME ClientAssumption ==
    /\ NoCall \notin Call /\ NoKey \notin Key
    /\ Faults \subseteq {"outage", "collide", "callback", "error", "slow"}

VARIABLES
    requestQueue,   \* request_queue
    holder,         \* ResultHolder: what the IB thread has put into it
    serving,        \* the request in the IB thread's hands
    thread,         \* the IB thread: running, dead of SystemExit, or ended
    connected,      \* _connected
    shutdown,       \* _shutdown
    comboTickers,   \* keys of _combo_tickers
    at,             \* what the engine's thread is doing
    mine, curKey,   \* the call it waits for, the position it marks or sweeps
    comboSubKeys,   \* _combo_sub_keys
    pos,            \* the life of every position
    session,        \* IBKR: the session of state._ib
    lines,          \* IBKR: market-data lines per position
    gateway,        \* IBKR: accepts connections
    foreign         \* IBKR: another session has the client id

ibThread == <<serving, thread, connected, comboTickers>>
engine   == <<at, mine, curKey, comboSubKeys, pos>>
ibkr     == <<session, lines, gateway, foreign>>
vars     == <<requestQueue, holder, shutdown, ibThread, engine, ibkr>>

Kind == {"query", "order", "subscribe", "read", "unsubscribe"}
Request == [call: Call, kind: Kind, key: Key \cup {NoKey}]
None == [call |-> NoCall, kind |-> "none", key |-> NoKey]
NoLines == [k \in Key |-> 0]

Init ==
    /\ requestQueue = <<>> /\ serving = None
    /\ holder = [c \in Call |-> "empty"]
    /\ thread = "running" /\ connected = FALSE /\ shutdown = FALSE
    /\ comboTickers = {}
    /\ at = "waiting" /\ mine = NoCall /\ curKey = NoKey
    /\ comboSubKeys = {}
    /\ pos = [k \in Key |-> "none"]
    /\ session = "none" /\ lines = NoLines
    /\ gateway = TRUE /\ foreign = FALSE

-----------------------------------------------------------------------------
(* The engine's thread.                                                    *)

InHand == {requestQueue[i].call : i \in DOMAIN requestQueue} \cup {serving.call}

FreeCalls == Call \ (InHand \cup {mine})

(* _enqueue(): a new holder, whichever, and the caller waits on it.        *)
Enqueue(kind, k) ==
    /\ FreeCalls # {}
    /\ mine' = CHOOSE c \in FreeCalls : TRUE
    /\ requestQueue' = Append(requestQueue, [call |-> mine', kind |-> kind, key |-> k])
    /\ holder' = [holder EXCEPT ![mine'] = "empty"]

(* run() waits for the first connection.                                   *)
BeginTicks ==
    /\ at = "waiting" /\ connected
    /\ at' = "tick"
    /\ UNCHANGED <<requestQueue, holder, shutdown, ibThread, mine, curKey, comboSubKeys, pos, ibkr>>

OpenPosition(k) ==
    /\ at = "tick" /\ pos[k] = "none"
    /\ pos' = [pos EXCEPT ![k] = "open"]
    /\ UNCHANGED <<requestQueue, holder, shutdown, ibThread, at, mine, curKey, comboSubKeys, ibkr>>

ClosePosition(k) ==
    /\ at = "tick" /\ pos[k] = "open"
    /\ pos' = [pos EXCEPT ![k] = "closed"]
    /\ UNCHANGED <<requestQueue, holder, shutdown, ibThread, at, mine, curKey, comboSubKeys, ibkr>>

(* Queries are made without a look at the connection; orders and cancels   *)
(* are refused at once when there is none.                                 *)
OtherRequest(kind) ==
    /\ at = "tick"
    /\ kind = "order" => connected
    /\ Enqueue(kind, NoKey)
    /\ at' = "other"
    /\ UNCHANGED <<shutdown, ibThread, curKey, comboSubKeys, pos, ibkr>>

(* _position_debit(): subscribe on first use, then read the mark; either   *)
(* is skipped without a connection.                                        *)
PositionDebit(k) ==
    /\ at = "tick" /\ pos[k] = "open"
    /\ curKey' = k
    /\ IF k \notin comboSubKeys /\ connected
       THEN Enqueue("subscribe", k) /\ at' = "subscribe"
       ELSE at' = "toRead" /\ UNCHANGED <<requestQueue, holder, mine>>
    /\ UNCHANGED <<shutdown, ibThread, comboSubKeys, pos, ibkr>>

GetComboDebit ==
    /\ at = "toRead"
    /\ IF connected
       THEN /\ Enqueue("read", curKey) /\ at' = "other"
            /\ UNCHANGED curKey
       ELSE at' = "tick" /\ curKey' = NoKey /\ UNCHANGED <<requestQueue, holder, mine>>
    /\ UNCHANGED <<shutdown, ibThread, comboSubKeys, pos, ibkr>>

(* _sweep_combo_subs(): without a connection the key is just forgotten.    *)
SweepComboSub(k) ==
    /\ at = "tick" /\ k \in comboSubKeys /\ pos[k] = "closed"
    /\ IF connected
       THEN /\ Enqueue("unsubscribe", k) /\ at' = "unsubscribe" /\ curKey' = k
            /\ UNCHANGED comboSubKeys
       ELSE /\ comboSubKeys' = comboSubKeys \ {k}
            /\ UNCHANGED <<requestQueue, holder, mine, at, curKey>>
    /\ UNCHANGED <<shutdown, ibThread, pos, ibkr>>

(* The holder becomes garbage if the IB thread is done with it.            *)
Resume(ok) ==
    /\ mine' = NoCall
    /\ holder' = [holder EXCEPT ![mine] = "empty"]
    /\ at' = IF at = "subscribe" THEN "toRead" ELSE "tick"
    /\ comboSubKeys' = CASE at = "subscribe" /\ ok -> comboSubKeys \cup {curKey}
                         [] at = "unsubscribe"     -> comboSubKeys \ {curKey}
                         [] OTHER                  -> comboSubKeys
    /\ curKey' = IF at = "subscribe" THEN curKey ELSE NoKey
    /\ UNCHANGED <<requestQueue, shutdown, ibThread, pos, ibkr>>

(* ResultHolder.get(): an answer, or TimeoutError.                         *)
Return ==
    /\ mine # NoCall /\ holder[mine] # "empty"
    /\ Resume(holder[mine] = "value")

GiveUp ==
    /\ mine # NoCall /\ holder[mine] = "empty"
    /\ "slow" \in Faults \/ ~connected \/ thread # "running"
    /\ Resume(FALSE)

(* Ctrl+C or SIGTERM: disconnect(), whose join() waits ten seconds at most *)
(* for a thread that dies with the process anyway.                         *)
Disconnect ==
    /\ at \notin {"leaving", "gone"}
    /\ at' = "leaving" /\ mine' = NoCall /\ curKey' = NoKey
    /\ shutdown' = TRUE
    /\ requestQueue' = Append(requestQueue, None)
    /\ UNCHANGED <<holder, ibThread, comboSubKeys, pos, ibkr>>

Exit ==
    /\ at = "leaving" /\ at' = "gone"
    /\ thread' = "ended" /\ session' = "none" /\ lines' = NoLines
    /\ UNCHANGED <<requestQueue, holder, shutdown, serving, connected, comboTickers,
                   mine, curKey, comboSubKeys, pos, gateway, foreign>>

-----------------------------------------------------------------------------
(* The IB thread, _ib_thread_worker().                                     *)

AtLoopTop == thread = "running" /\ serving = None

TickersAfterConnect_Kept == comboTickers
(* A fresh IB instance: the tickers of the old one are dead.               *)
TickersAfterConnect == {}

CanConnect_NoSession == gateway /\ ~foreign /\ session = "none"
CanConnect == gateway /\ ~foreign /\ session # "open"

(* _do_connect() at start, in the retry loop or in the main loop.          *)
ConnectSucceeds ==
    /\ AtLoopTop /\ ~connected /\ ~shutdown
    /\ CanConnect
    /\ connected' = TRUE
    /\ session' = "open" /\ lines' = NoLines
    /\ comboTickers' = TickersAfterConnect
    /\ UNCHANGED <<requestQueue, holder, shutdown, serving, thread, engine, gateway, foreign>>

(* Error 326: sys.exit(2), in the thread that connects.                    *)
ConnectCollides ==
    /\ AtLoopTop /\ ~connected /\ ~shutdown
    /\ gateway /\ (foreign \/ session = "open")
    /\ thread' = "dead"
    /\ UNCHANGED <<requestQueue, holder, shutdown, serving, connected, comboTickers, engine, ibkr>>

(* disconnect() of a connected instance fires the disconnect handler,      *)
(* which may connect once more before the thread ends.                     *)
StopThread ==
    /\ AtLoopTop /\ shutdown
    /\ thread' = "ended" /\ lines' = NoLines
    /\ \/ session' = "none" /\ UNCHANGED comboTickers
       \/ connected /\ gateway /\ ~foreign /\ session' = "open" /\ comboTickers' = TickersAfterConnect
    /\ UNCHANGED <<requestQueue, holder, shutdown, serving, connected, engine, gateway, foreign>>

TakeRequest ==
    /\ AtLoopTop /\ connected
    /\ requestQueue # <<>> /\ Head(requestQueue) # None
    /\ serving' = Head(requestQueue)
    /\ requestQueue' = Tail(requestQueue)
    /\ UNCHANGED <<holder, shutdown, thread, connected, comboTickers, engine, ibkr>>

SubscribeCombo_Again(k) ==
    /\ comboTickers' = comboTickers \cup {k}
    /\ lines' = [lines EXCEPT ![k] = @ + 1]
(* _subscribe_combo_impl(): one line per key.                              *)
SubscribeCombo(k) ==
    /\ comboTickers' = comboTickers \cup {k}
    /\ lines' = IF k \in comboTickers THEN lines ELSE [lines EXCEPT ![k] = @ + 1]

(* _unsubscribe_combo_impl(): a failing cancelMktData() is ignored.        *)
UnsubscribeCombo(k) ==
    /\ comboTickers' = comboTickers \ {k}
    /\ lines' = IF k \in comboTickers /\ session = "open"
                THEN [lines EXCEPT ![k] = @ - 1] ELSE lines

(* What the request does, and what its holder receives.                    *)
Perform(r, result) ==
    \/ /\ r.kind = "unsubscribe" /\ result = "value"
       /\ UnsubscribeCombo(r.key)
    \/ /\ r.kind = "subscribe" /\ result = "value"
       /\ session = "open" \/ r.key \in comboTickers
       /\ SubscribeCombo(r.key)
    \/ /\ r.kind = "read" /\ result = "value"
       /\ UNCHANGED <<comboTickers, lines>>
    \/ /\ r.kind \in {"query", "order"} /\ result = "value"
       /\ session = "open"
       /\ UNCHANGED <<comboTickers, lines>>
    \/ /\ r.kind \in {"query", "order", "subscribe"} /\ result = "error"
       /\ "error" \in Faults \/ session # "open"
       /\ r.kind = "subscribe" => r.key \notin comboTickers
       /\ UNCHANGED <<comboTickers, lines>>

AnsweredHolder_Waiting(r) == IF mine # NoCall THEN mine ELSE r.call
(* Its own holder; nobody reads the one of a caller that has given up.     *)
AnsweredHolder(r) == r.call

FinishRequest ==
    /\ thread = "running" /\ serving # None
    /\ \E result \in {"value", "error"} :
        /\ Perform(serving, result)
        /\ holder' = IF AnsweredHolder(serving) = mine
                     THEN [holder EXCEPT ![mine] = result] ELSE holder
    /\ serving' = None
    /\ UNCHANGED <<requestQueue, shutdown, thread, connected, engine, session, gateway, foreign>>

(* The handler's own connect attempt, inside the running event loop, fails *)
(* ("event loop already running"); the main loop connects.                 *)
OnDisconnected ==
    /\ thread = "running" /\ connected /\ session = "lost"
    /\ connected' = FALSE
    /\ UNCHANGED <<requestQueue, holder, shutdown, serving, thread, comboTickers, engine, ibkr>>

(* The handlers of order, execution and position events clear _connected   *)
(* when they raise; the session stays open at IBKR.                        *)
CallbackRaises ==
    /\ "callback" \in Faults
    /\ thread = "running" /\ connected /\ session = "open"
    /\ connected' = FALSE
    /\ UNCHANGED <<requestQueue, holder, shutdown, serving, thread, comboTickers, engine, ibkr>>

-----------------------------------------------------------------------------
(* IBKR.                                                                   *)

Outage ==
    /\ "outage" \in Faults /\ gateway
    /\ gateway' = FALSE
    /\ session' = IF session = "open" THEN "lost" ELSE session
    /\ lines' = NoLines
    /\ UNCHANGED <<requestQueue, holder, shutdown, ibThread, engine, foreign>>

GatewayReturns ==
    /\ ~gateway /\ gateway' = TRUE
    /\ UNCHANGED <<requestQueue, holder, shutdown, ibThread, engine, session, lines, foreign>>

ForeignSession ==
    /\ "collide" \in Faults /\ session # "open"
    /\ foreign' = ~foreign
    /\ UNCHANGED <<requestQueue, holder, shutdown, ibThread, engine, session, lines, gateway>>

-----------------------------------------------------------------------------

ConnectionStep == ConnectSucceeds \/ ConnectCollides \/ StopThread \/ OnDisconnected
RequestStep == TakeRequest \/ FinishRequest
ThreadStep == ConnectionStep \/ RequestStep
WaitStep == BeginTicks \/ GetComboDebit \/ Return \/ GiveUp \/ Exit
PositionStep == \E k \in Key : OpenPosition(k) \/ ClosePosition(k)
MarkStep == \E k \in Key : PositionDebit(k) \/ SweepComboSub(k)
OtherCall == \E kind \in {"query", "order"} : OtherRequest(kind)
IbkrStep == Outage \/ GatewayReturns \/ ForeignSession \/ CallbackRaises

Next == ThreadStep \/ WaitStep \/ PositionStep \/ MarkStep \/ OtherCall \/ Disconnect \/ IbkrStep
Spec == Init /\ [][Next]_vars

(* Fairness: both threads run, time-outs pass, and every tick visits every *)
(* open position and sweeps.  A request that the IB thread serves ends,    *)
(* with a result or an error: reqPositions() and reqAllOpenOrders() wait   *)
(* for IBKR without a time-out, so IBKR answers or the connection breaks.  *)
Fairness ==
    /\ WF_vars(ConnectionStep) /\ WF_vars(RequestStep) /\ WF_vars(WaitStep)
    /\ \A k \in Key : SF_vars(PositionDebit(k)) /\ SF_vars(SweepComboSub(k))
FairSpec == Spec /\ Fairness

-----------------------------------------------------------------------------
(* Types: the engine's thread waits for one call at most, the IB thread    *)
(* holds one request at most, and a position is marked by one line at most *)
(* (_enqueue, _subscribe_combo_impl).                                      *)
TypeOK ==
    /\ requestQueue \in Seq(Request \cup {None})
    /\ holder \in [Call -> {"empty", "value", "error"}]
    /\ serving \in Request \cup {None}
    /\ thread \in {"running", "dead", "ended"}
    /\ connected \in BOOLEAN /\ shutdown \in BOOLEAN
    /\ comboTickers \subseteq Key /\ comboSubKeys \subseteq Key
    /\ at \in {"waiting", "tick", "other", "subscribe", "toRead", "unsubscribe",
               "leaving", "gone"}
    /\ mine \in Call \cup {NoCall}
    /\ curKey \in Key \cup {NoKey}
    /\ pos \in [Key -> {"none", "open", "closed"}]
    /\ session \in {"none", "open", "lost"}
    /\ lines \in [Key -> 0..1]
    /\ gateway \in BOOLEAN /\ foreign \in BOOLEAN

(* As long as the session lasts, the lines that IBKR streams are exactly   *)
(* the tickers the IB thread knows, so each can be read and cancelled,     *)
(* whatever requests are served late (_combo_tickers, cleared on connect). *)
LinesAreTickers ==
    session = "open" /\ thread = "running" => \A k \in Key : lines[k] = 1 <=> k \in comboTickers

(* Requests not yet executed; after disconnect() the sentinel is the last. *)
Line == (IF serving = None THEN <<>> ELSE <<serving>>) \o requestQueue
InLine == [i \in 1..(Len(Line) - IF shutdown THEN 1 ELSE 0) |-> Line[i].call]
PhaseOf(c) ==
    CASE mine = c /\ holder[c] = "empty" -> "asked"
      [] mine = c /\ holder[c] # "empty" -> holder[c]
      [] mine # c /\ c \in InHand        -> "late"
      [] OTHER                           -> "free"

(* The client keeps the promises of BrokerCall: a call is executed at most *)
(* once and in order, a caller is only ever answered by its own call, and  *)
(* what it gave up on is executed before what it asks next (_enqueue,      *)
(* ResultHolder and the request loop, over any loss of the connection).    *)
Calls == INSTANCE BrokerCall WITH phase <- [c \in Call |-> PhaseOf(c)], line <- InLine
CallSpec == Calls!Spec

(* Once the gateway is back for good and no other session holds the client *)
(* id, every request that was queued is served, those left from an outage  *)
(* included, unless the IB thread has died or ended.                       *)
RequestsDrain ==
    <>[](gateway /\ ~foreign) =>
        \A c \in Call : c \in InHand ~> (c \notin InHand \/ thread # "running")

-----------------------------------------------------------------------------
(* What the repository says of the client and the code does not do.        *)

(* blocking_ib_client.py:26-28: on a client-id collision the engine exits  *)
(* with code 2, so that the watchdog backs off.                            *)
CollisionExits == thread = "dead" ~> at = "gone"
=============================================================================
