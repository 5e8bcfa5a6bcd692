--------------------------- MODULE IBClient_proofs ---------------------------
(* The invariants of IBClient and its refinement of BrokerCall, proved for *)
(* any number of calls and positions and every combination of faults.      *)
EXTENDS IBClient, SequenceTheorems, TLAPS

(* What the engine's thread is doing, and the call and position in hand.   *)
EngineInv ==
    /\ mine = NoCall <=> at \in {"waiting", "tick", "toRead", "leaving", "gone"}
    /\ at \in {"subscribe", "toRead", "unsubscribe"} => curKey \in Key
    /\ shutdown <=> at \in {"leaving", "gone"}

(* A request that marks a position names it.                               *)
Named(r) == r.kind \in {"subscribe", "unsubscribe"} => r.key \in Key

(* Only the sentinel of disconnect() is no request, and it comes last.     *)
QueueInv ==
    /\ shutdown => requestQueue # <<>>
    /\ \A i \in 1..Len(requestQueue) : requestQueue[i] = None <=> shutdown /\ i = Len(requestQueue)
    /\ \A i \in 1..Len(Line) : Named(Line[i])

(* A call is in line at most once, and as long as it is not answered the   *)
(* engine's thread waits for one that is.                                  *)
CallInv ==
    /\ \A i, j \in 1..Len(InLine) : InLine[i] = InLine[j] => i = j
    /\ mine # NoCall =>
           (holder[mine] = "empty" <=> \E i \in 1..Len(InLine) : InLine[i] = mine)

IInv == TypeOK /\ EngineInv /\ QueueInv /\ CallInv /\ LinesAreTickers

-----------------------------------------------------------------------------

(* The sentinel is no request.                                             *)
LEMMA NoneIsNoRequest == None \notin Request /\ None.call \notin Call
BY ClientAssumption DEF None, Request

(* What stands in line: first the request being served, then the queue.    *)
LEMMA LineElements ==
    ASSUME TypeOK
    PROVE  /\ Line \in Seq(Request \cup {None})
           /\ serving = None => Line = requestQueue
           /\ serving # None =>
                /\ Len(Line) = Len(requestQueue) + 1
                /\ Line[1] = serving
                /\ \A i \in 1..Len(requestQueue) : Line[i + 1] = requestQueue[i]
<1> DEFINE R == Request \cup {None}
<1>1. requestQueue \in Seq(R) /\ serving \in R
  BY DEF TypeOK
<1>2. CASE serving = None
  BY <1>1, <1>2, ConcatEmptySeq DEF Line
<1>3. CASE serving # None
  <2>1. <<serving>> \in Seq(R) /\ Len(<<serving>>) = 1 /\ <<serving>>[1] = serving
    BY <1>1
  <2>2. Line = <<serving>> \o requestQueue
    BY <1>3 DEF Line
  <2> QED
    BY <1>1, <1>3, <2>1, <2>2, ConcatProperties, LenProperties
<1> QED
  BY <1>2, <1>3

(* The calls in line are those of the requests, the sentinel left out.     *)
LEMMA InLineElements ==
    ASSUME TypeOK, QueueInv
    PROVE  /\ InLine \in Seq(Call)
           /\ Len(InLine) = Len(Line) - (IF shutdown THEN 1 ELSE 0)
           /\ \A i \in 1..Len(InLine) : InLine[i] = Line[i].call /\ Line[i] \in Request
<1> DEFINE n == Len(Line) - IF shutdown THEN 1 ELSE 0
<1>1. Len(requestQueue) \in Nat /\ Len(Line) \in Nat /\ (shutdown => Len(requestQueue) > 0)
  BY LineElements, LenProperties, EmptySeq DEF TypeOK, QueueInv
<1>2. n \in Nat
  BY <1>1, LineElements
<1>3. ASSUME NEW i \in 1..n PROVE Line[i] # None
  <2>1. CASE serving = None
    BY <1>1, <1>3, <2>1, LineElements DEF QueueInv
  <2>2. CASE serving # None
    <3>1. CASE i = 1
      BY <2>2, <3>1, LineElements
    <3>2. CASE i # 1
      <4>1. i - 1 \in 1..Len(requestQueue) /\ (shutdown => i - 1 # Len(requestQueue))
        BY <1>1, <1>3, <2>2, <3>2, LineElements
      <4>2. Line[(i - 1) + 1] = requestQueue[i - 1] /\ (i - 1) + 1 = i
        BY <2>2, <4>1, LineElements
      <4> QED
        BY <4>1, <4>2 DEF QueueInv
    <3> QED
      BY <3>1, <3>2
  <2> QED
    BY <2>1, <2>2
<1>4. ASSUME NEW i \in 1..n PROVE Line[i] \in Request
  <2>1. i \in 1..Len(Line)
    BY <1>1, <1>2, <1>4
  <2> QED
    BY <1>3, <1>4, <2>1, LineElements, ElementOfSeq
<1>5. \A i \in 1..n : Line[i].call \in Call
  BY <1>4 DEF Request
<1>6. InLine = [i \in 1..n |-> Line[i].call]
  BY DEF InLine
<1>7. InLine \in Seq(Call) /\ Len(InLine) = n
  BY <1>2, <1>5, <1>6
<1> QED
  BY <1>4, <1>6, <1>7

(* A call is in somebody's hands just when it stands in line.              *)
LEMMA InHandIsInLine ==
    ASSUME TypeOK, QueueInv, NEW c \in Call
    PROVE  c \in InHand <=> \E i \in 1..Len(InLine) : InLine[i] = c
<1>0. /\ requestQueue \in Seq(Request \cup {None}) /\ DOMAIN requestQueue = 1..Len(requestQueue)
      /\ Len(requestQueue) \in Nat /\ Len(Line) \in Nat /\ Len(InLine) \in Nat
      /\ (shutdown => Len(requestQueue) > 0)
  BY LineElements, InLineElements, LenProperties, EmptySeq DEF TypeOK, QueueInv
<1>1. ASSUME NEW i \in 1..Len(InLine), InLine[i] = c PROVE c \in InHand
  <2>1. Line[i].call = c /\ i \in 1..Len(Line)
    BY <1>0, <1>1, InLineElements
  <2>2. CASE serving = None
    BY <1>0, <2>1, <2>2, LineElements DEF InHand
  <2>3. CASE serving # None /\ i = 1
    BY <2>1, <2>3, LineElements DEF InHand
  <2>4. CASE serving # None /\ i # 1
    <3>1. i - 1 \in 1..Len(requestQueue) /\ Line[(i - 1) + 1] = requestQueue[i - 1] /\ (i - 1) + 1 = i
      BY <1>0, <2>1, <2>4, LineElements
    <3> QED
      BY <1>0, <2>1, <3>1 DEF InHand
  <2> QED
    BY <2>2, <2>3, <2>4
<1>2. ASSUME c = serving.call PROVE \E i \in 1..Len(InLine) : InLine[i] = c
  <2>1. serving # None
    BY <1>2, NoneIsNoRequest
  <2>2. Line[1] = serving /\ 1 \in 1..Len(InLine)
    BY <1>0, <2>1, LineElements, InLineElements
  <2> QED
    BY <1>2, <2>2, InLineElements
<1>3. ASSUME NEW j \in 1..Len(requestQueue), requestQueue[j].call = c
      PROVE  \E i \in 1..Len(InLine) : InLine[i] = c
  <2>1. requestQueue[j] # None
    BY <1>3, NoneIsNoRequest
  <2>2. shutdown => j # Len(requestQueue)
    BY <2>1 DEF QueueInv
  <2> DEFINE n == Len(requestQueue) - IF shutdown THEN 1 ELSE 0
  <2>5. n \in Nat /\ j \in 1..n
    <3>1. CASE shutdown
      <4>1. n = Len(requestQueue) - 1
        BY <3>1
      <4>2. Len(requestQueue) \in Nat /\ j # Len(requestQueue)
        BY <1>0, <2>2, <3>1
      <4>3. j \in 1..Len(requestQueue)
        OBVIOUS
      <4> QED
        BY <4>1, <4>2, <4>3
    <3>2. CASE ~shutdown
      BY <1>0, <3>2
    <3> QED
      BY <3>1, <3>2
  <2>6. Len(InLine) = IF serving = None THEN n ELSE n + 1
    <3>1. Len(Line) = Len(requestQueue) + IF serving = None THEN 0 ELSE 1
      BY <1>0, LineElements
    <3>2. Len(InLine) = Len(Line) - IF shutdown THEN 1 ELSE 0
      BY InLineElements
    <3> DEFINE m == IF shutdown THEN 1 ELSE 0
    <3>3. m \in {0, 1} /\ n = Len(requestQueue) - m /\ Len(InLine) = Len(Line) - m
      BY <3>2
    <3> HIDE DEF m, n
    <3> QED
      BY <1>0, <3>1, <3>3
  <2> HIDE DEF n
  <2>3. CASE serving = None
    <3>1. j \in 1..Len(InLine) /\ Line[j] = requestQueue[j]
      BY <2>3, <2>5, <2>6, LineElements
    <3> QED
      BY <1>3, <3>1, InLineElements
  <2>4. CASE serving # None
    <3>1. j + 1 \in 1..Len(InLine) /\ Line[j + 1] = requestQueue[j]
      BY <1>0, <2>4, <2>5, <2>6, LineElements
    <3> QED
      BY <1>3, <3>1, InLineElements
  <2> QED
    BY <2>3, <2>4
<1> QED
  BY <1>0, <1>1, <1>2, <1>3 DEF InHand

-----------------------------------------------------------------------------
(* What the steps do to the line.                                          *)

(* Requests that stay where they are leave the line as it was.             *)
LEMMA LineStays ==
    ASSUME UNCHANGED <<requestQueue, serving, shutdown>>
    PROVE  Line' = Line /\ InLine' = InLine
BY DEF Line, InLine

(* A new request goes to the end of the line.                              *)
LEMMA LineGrows ==
    ASSUME TypeOK, QueueInv, ~shutdown, UNCHANGED <<serving, shutdown>>,
           NEW r \in Request, requestQueue' = Append(requestQueue, r)
    PROVE  Line' = Append(Line, r) /\ InLine' = Append(InLine, r.call)
<1> DEFINE R == Request \cup {None}
<1>1. Line \in Seq(R) /\ requestQueue \in Seq(R) /\ serving \in R /\ r \in R
  BY LineElements DEF TypeOK
<1>2. Line' = Append(Line, r)
  <2>1. CASE serving = None
    BY <1>1, <2>1, ConcatEmptySeq DEF Line
  <2>2. CASE serving # None
    <3>1. <<serving>> \in Seq(R) /\ <<r>> \in Seq(R)
      BY <1>1
    <3>2. Line' = <<serving>> \o (requestQueue \o <<r>>)
      BY <1>1, <2>2, AppendIsConcat DEF Line
    <3>3. Line' = (<<serving>> \o requestQueue) \o <<r>>
      BY <1>1, <3>1, <3>2, ConcatAssociative
    <3> QED
      BY <1>1, <2>2, <3>3, AppendIsConcat DEF Line
  <2> QED
    BY <2>1, <2>2
<1>3. InLine = [i \in 1..Len(Line) |-> Line[i].call] /\ InLine \in Seq(Call) /\ Len(InLine) = Len(Line)
  <2>1. Len(Line) \in Nat
    BY <1>1, LenProperties
  <2> QED
    BY <2>1, InLineElements DEF InLine
<1>4. Len(Line') = Len(Line) + 1 /\ Len(Line) \in Nat
  BY <1>1, <1>2, AppendProperties, LenProperties
<1>5. InLine' = [i \in 1..(Len(Line) + 1) |-> Line'[i].call]
  BY <1>4 DEF InLine
<1>6. ASSUME NEW i \in 1..(Len(Line) + 1)
      PROVE  Line'[i].call = Append(InLine, r.call)[i]
  BY <1>1, <1>2, <1>3, <1>4, AppendProperties DEF Request
<1>7. Append(InLine, r.call) = [i \in 1..(Len(Line) + 1) |-> Append(InLine, r.call)[i]]
  BY <1>3, <1>4
<1>8. InLine' = Append(InLine, r.call)
  BY <1>5, <1>6, <1>7
<1> QED
  BY <1>2, <1>8

(* The sentinel is not part of the line.                                   *)
LEMMA SentinelNotInLine ==
    ASSUME TypeOK, QueueInv, ~shutdown, shutdown', UNCHANGED serving,
           requestQueue' = Append(requestQueue, None)
    PROVE  Line' = Append(Line, None) /\ InLine' = InLine
<1> DEFINE R == Request \cup {None}
<1>1. Line \in Seq(R) /\ requestQueue \in Seq(R) /\ serving \in R /\ None \in R
  BY LineElements DEF TypeOK
<1>2. Line' = Append(Line, None)
  <2>1. CASE serving = None
    BY <1>1, <2>1, ConcatEmptySeq DEF Line
  <2>2. CASE serving # None
    <3>1. <<serving>> \in Seq(R) /\ <<None>> \in Seq(R)
      BY <1>1
    <3>2. Line' = <<serving>> \o (requestQueue \o <<None>>)
      BY <1>1, <2>2, AppendIsConcat DEF Line
    <3>3. Line' = (<<serving>> \o requestQueue) \o <<None>>
      BY <1>1, <3>1, <3>2, ConcatAssociative
    <3> QED
      BY <1>1, <2>2, <3>3, AppendIsConcat DEF Line
  <2> QED
    BY <2>1, <2>2
<1>3. Len(Line) \in Nat /\ Len(Line') = Len(Line) + 1 /\ \A i \in 1..Len(Line) : Line'[i] = Line[i]
  BY <1>1, <1>2, AppendProperties, LenProperties
<1>4. InLine' = [i \in 1..Len(Line) |-> Line'[i].call]
  BY <1>3 DEF InLine
<1>5. InLine = [i \in 1..Len(Line) |-> Line[i].call]
  BY <1>3 DEF InLine
<1> QED
  BY <1>2, <1>3, <1>4, <1>5

(* The request taken from the queue is the first in line.                  *)
LEMMA LineServed ==
    ASSUME TypeOK, TakeRequest
    PROVE  Line' = Line /\ InLine' = InLine
<1>1. /\ requestQueue # <<>> /\ serving = None /\ serving' # None
      /\ requestQueue' = Tail(requestQueue) /\ serving' = Head(requestQueue) /\ shutdown' = shutdown
  BY DEF TakeRequest, AtLoopTop
<1>2. Line = requestQueue
  BY <1>1, LineElements
<1>3. Line' = <<Head(requestQueue)>> \o Tail(requestQueue)
  BY <1>1 DEF Line
<1>4. requestQueue = <<Head(requestQueue)>> \o Tail(requestQueue)
  BY <1>1 DEF TypeOK
<1> QED
  BY <1>1, <1>2, <1>3, <1>4 DEF InLine

(* The request that is finished was the first in line.                     *)
LEMMA LineShrinks ==
    ASSUME TypeOK, QueueInv, FinishRequest
    PROVE  /\ Line' = requestQueue /\ InLine # <<>>
           /\ Head(InLine) = serving.call /\ InLine' = Tail(InLine)
<1>1. serving # None /\ serving' = None /\ requestQueue' = requestQueue /\ shutdown' = shutdown
  BY DEF FinishRequest
<1>2. Line' = requestQueue
  BY <1>1, ConcatEmptySeq DEF Line, TypeOK
<1>3. /\ Len(requestQueue) \in Nat /\ (shutdown => Len(requestQueue) > 0)
      /\ Len(Line) = Len(requestQueue) + 1
  BY <1>1, LineElements, EmptySeq, LenProperties DEF TypeOK, QueueInv
<1>4. InLine \in Seq(Call) /\ Len(InLine) > 0 /\ InLine[1] = serving.call
  BY <1>1, <1>3, LineElements, InLineElements
<1>5. InLine # <<>> /\ Head(InLine) = serving.call
  BY <1>4
<1> DEFINE n == Len(requestQueue) - IF shutdown THEN 1 ELSE 0
<1>6. n \in Nat /\ Len(InLine) = n + 1
  BY <1>3, InLineElements
<1>7. InLine' = [i \in 1..n |-> requestQueue[i].call]
  BY <1>1, <1>2 DEF InLine
<1>8. Tail(InLine) = [i \in 1..n |-> InLine[i + 1]]
  <2> HIDE DEF n
  <2>1. /\ Tail(InLine) \in Seq(Call) /\ Len(Tail(InLine)) = n
        /\ \A i \in 1..n : Tail(InLine)[i] = InLine[i + 1]
    BY <1>4, <1>5, <1>6, HeadTailProperties
  <2>2. Tail(InLine) = [i \in 1..n |-> Tail(InLine)[i]]
    BY <2>1, LenProperties
  <2> QED
    BY <2>1, <2>2
<1>9. ASSUME NEW i \in 1..n PROVE InLine[i + 1] = requestQueue[i].call
  <2>1. i + 1 \in 1..Len(InLine) /\ i \in 1..Len(requestQueue)
    BY <1>3, <1>6
  <2> QED
    BY <1>1, <2>1, LineElements, InLineElements
<1> QED
  BY <1>2, <1>5, <1>7, <1>8, <1>9

-----------------------------------------------------------------------------
(* What a step does to the calls.                                          *)

(* A call made takes a holder that nobody has.                             *)
LEMMA Enqueued ==
    ASSUME IInv, ~shutdown, UNCHANGED <<serving, shutdown>>,
           NEW kind \in Kind, NEW k \in Key \cup {NoKey}, Enqueue(kind, k),
           kind \in {"subscribe", "unsubscribe"} => k \in Key
    PROVE  /\ mine' \in Call /\ mine' \notin InHand
           /\ requestQueue' \in Seq(Request \cup {None})
           /\ holder' \in [Call -> {"empty", "value", "error"}]
           /\ holder' = [holder EXCEPT ![mine'] = "empty"]
           /\ InLine' = Append(InLine, mine')
           /\ QueueInv' /\ CallInv'
<1> DEFINE r == [call |-> mine', kind |-> kind, key |-> k]
           R == Request \cup {None}
<1>1. mine' \in Call /\ mine' \notin InHand
  BY DEF Enqueue, FreeCalls
<1>2. /\ requestQueue' = Append(requestQueue, r) /\ r \in Request /\ r.call = mine' /\ Named(r)
      /\ holder' = [holder EXCEPT ![mine'] = "empty"]
  BY <1>1 DEF Enqueue, Request, Named
<1> HIDE DEF r
<1>3. requestQueue' \in Seq(R) /\ holder' \in [Call -> {"empty", "value", "error"}]
  BY <1>1, <1>2 DEF IInv, TypeOK
<1>4. Line' = Append(Line, r) /\ InLine' = Append(InLine, mine')
  BY <1>2, LineGrows DEF IInv
<1>5. QueueInv'
  <2>1. requestQueue \in Seq(R) /\ r # None /\ ~shutdown'
    BY <1>2, NoneIsNoRequest DEF IInv, TypeOK
  <2>2. /\ Len(requestQueue') = Len(requestQueue) + 1 /\ Len(requestQueue) \in Nat
        /\ \A i \in 1..Len(requestQueue') :
              requestQueue'[i] = IF i <= Len(requestQueue) THEN requestQueue[i] ELSE r
    BY <1>2, <2>1, AppendProperties, LenProperties
  <2>3. \A i \in 1..Len(requestQueue') : requestQueue'[i] # None
    BY <2>1, <2>2 DEF IInv, QueueInv
  <2>4. /\ Len(Line') = Len(Line) + 1 /\ Len(Line) \in Nat
        /\ \A i \in 1..Len(Line') : Line'[i] = IF i <= Len(Line) THEN Line[i] ELSE r
    BY <1>2, <1>4, LineElements, AppendProperties, LenProperties DEF IInv
  <2>5. \A i \in 1..Len(Line') : Named(Line'[i])
    BY <1>2, <2>4 DEF IInv, QueueInv
  <2> QED
    BY <2>1, <2>3, <2>5 DEF QueueInv
<1>6. CallInv'
  <2>1. \A i \in 1..Len(InLine) : InLine[i] # mine'
    BY <1>1, InHandIsInLine DEF IInv
  <2>2. /\ Len(InLine') = Len(InLine) + 1 /\ Len(InLine) \in Nat
        /\ \A i \in 1..Len(InLine') : InLine'[i] = IF i <= Len(InLine) THEN InLine[i] ELSE mine'
    BY <1>1, <1>4, InLineElements, AppendProperties, LenProperties DEF IInv
  <2>3. \A i, j \in 1..Len(InLine') : InLine'[i] = InLine'[j] => i = j
    BY <2>1, <2>2 DEF IInv, CallInv
  <2>4. holder'[mine'] = "empty" /\ Len(InLine') \in 1..Len(InLine') /\ InLine'[Len(InLine')] = mine'
    BY <1>1, <1>2, <2>2 DEF IInv, TypeOK
  <2> QED
    BY <2>3, <2>4 DEF CallInv
<1> QED
  BY <1>1, <1>2, <1>3, <1>4, <1>5, <1>6

(* A step that leaves the calls alone, or only stops waiting for one.      *)
LEMMA CallsStay ==
    ASSUME IInv, UNCHANGED <<requestQueue, serving, shutdown>>,
           mine' = NoCall \/ UNCHANGED <<mine, holder>>
    PROVE  QueueInv' /\ CallInv'
<1>1. Line' = Line /\ InLine' = InLine
  BY LineStays
<1> QED
  BY <1>1 DEF IInv, QueueInv, CallInv

(* disconnect() puts the sentinel behind all requests.                     *)
LEMMA DisconnectKeeps ==
    ASSUME IInv, Disconnect
    PROVE  requestQueue' \in Seq(Request \cup {None}) /\ InLine' = InLine /\ QueueInv' /\ CallInv'
<1> DEFINE R == Request \cup {None}
<1>1. /\ ~shutdown /\ shutdown' /\ serving' = serving /\ mine' = NoCall
      /\ requestQueue' = Append(requestQueue, None)
      /\ requestQueue \in Seq(R) /\ None \in R
  BY DEF Disconnect, IInv, EngineInv, TypeOK, ibThread
<1>2. Line' = Append(Line, None) /\ InLine' = InLine
  BY <1>1, SentinelNotInLine DEF IInv
<1>3. CallInv'
  BY <1>1, <1>2 DEF IInv, CallInv
<1>4. QueueInv'
  <2>1. /\ Len(requestQueue') = Len(requestQueue) + 1 /\ Len(requestQueue) \in Nat
        /\ requestQueue' # <<>> /\ requestQueue'[Len(requestQueue) + 1] = None
        /\ \A i \in 1..Len(requestQueue) : requestQueue'[i] = requestQueue[i]
    BY <1>1, AppendProperties, LenProperties
  <2>2. \A i \in 1..Len(requestQueue) : requestQueue[i] # None
    BY <1>1 DEF IInv, QueueInv
  <2>3. ASSUME NEW i \in 1..Len(requestQueue')
        PROVE  requestQueue'[i] = None <=> i = Len(requestQueue')
    BY <2>1, <2>2
  <2>4. Len(Line) \in Nat /\ Len(Line') = Len(Line) + 1
        /\ \A i \in 1..Len(Line') : Line'[i] = IF i <= Len(Line) THEN Line[i] ELSE None
    BY <1>1, <1>2, LineElements, AppendProperties, LenProperties DEF IInv
  <2>5. Named(None)
    BY DEF Named, None
  <2>6. \A i \in 1..Len(Line') : Named(Line'[i])
    BY <2>4, <2>5 DEF IInv, QueueInv
  <2> QED
    BY <1>1, <2>1, <2>3, <2>6 DEF QueueInv
<1> QED
  BY <1>1, <1>2, <1>3, <1>4, AppendProperties

(* The IB thread takes a request from the head of the queue.               *)
LEMMA TakeKeeps ==
    ASSUME IInv, TakeRequest
    PROVE  /\ requestQueue' \in Seq(Request \cup {None}) /\ serving' \in Request
           /\ InLine' = InLine /\ QueueInv' /\ CallInv'
<1> DEFINE R == Request \cup {None}
<1>1. /\ requestQueue # <<>> /\ Head(requestQueue) # None /\ serving' = Head(requestQueue)
      /\ requestQueue' = Tail(requestQueue) /\ UNCHANGED <<shutdown, mine, holder>>
      /\ requestQueue \in Seq(R)
  BY DEF TakeRequest, IInv, TypeOK, engine
<1>2. Line' = Line /\ InLine' = InLine
  BY LineServed DEF IInv
<1>3. CallInv'
  BY <1>1, <1>2 DEF IInv, CallInv
<1>4. /\ Len(requestQueue') = Len(requestQueue) - 1 /\ Len(requestQueue) \in Nat
      /\ requestQueue' \in Seq(R) /\ serving' \in R /\ Head(requestQueue) = requestQueue[1]
      /\ \A i \in 1..Len(requestQueue') : requestQueue'[i] = requestQueue[i + 1]
  BY <1>1, HeadTailProperties, LenProperties
<1>5. QueueInv'
  <2>1. ASSUME shutdown PROVE Len(requestQueue) > 1
    <3>1. Len(requestQueue) > 0 /\ requestQueue[1] # None
      BY <1>1, <1>4, EmptySeq
    <3>2. requestQueue[Len(requestQueue)] = None
      BY <1>4, <2>1, <3>1 DEF IInv, QueueInv
    <3> QED
      BY <1>4, <3>1, <3>2
  <2>2. ASSUME shutdown' PROVE requestQueue' # <<>>
    <3>1. Len(requestQueue') > 0
      BY <1>1, <1>4, <2>1, <2>2
    <3> QED
      BY <3>1
  <2>3. ASSUME NEW i \in 1..Len(requestQueue')
        PROVE  requestQueue'[i] = None <=> shutdown' /\ i = Len(requestQueue')
    <3>1. i + 1 \in 1..Len(requestQueue) /\ (i + 1 = Len(requestQueue) <=> i = Len(requestQueue'))
      BY <1>4, <2>3
    <3> QED
      BY <1>1, <1>4, <3>1 DEF IInv, QueueInv
  <2> QED
    BY <1>2, <2>2, <2>3 DEF IInv, QueueInv
<1> QED
  BY <1>1, <1>2, <1>3, <1>4, <1>5

(* A request that is finished answers the caller that waits for it.        *)
LEMMA FinishKeeps ==
    ASSUME IInv, FinishRequest
    PROVE  QueueInv' /\ CallInv'
<1>1. /\ serving # None /\ serving \in Request /\ serving' = None
      /\ UNCHANGED <<requestQueue, shutdown, mine>>
  BY DEF FinishRequest, IInv, TypeOK, engine
<1>2. /\ Line' = requestQueue /\ InLine # <<>> /\ Head(InLine) = serving.call
      /\ InLine' = Tail(InLine)
  BY LineShrinks DEF IInv
<1>3. QueueInv'
  <2>1. \A i \in 1..Len(requestQueue) : Line[i + 1] = requestQueue[i] /\ i + 1 \in 1..Len(Line)
    BY <1>1, LineElements, LenProperties DEF IInv, TypeOK
  <2> QED
    BY <1>1, <1>2, <2>1 DEF IInv, QueueInv
<1>4. /\ Len(InLine) \in Nat /\ Len(InLine) > 0 /\ Len(InLine') = Len(InLine) - 1
      /\ InLine[1] = serving.call
      /\ \A i \in 1..Len(InLine') : InLine'[i] = InLine[i + 1]
  BY <1>2, InLineElements, HeadTailProperties, LenProperties, EmptySeq DEF IInv
<1>5. \A i \in 1..Len(InLine') : InLine'[i] # serving.call
  BY <1>4 DEF IInv, CallInv
<1>6. \A i, j \in 1..Len(InLine') : InLine'[i] = InLine'[j] => i = j
  BY <1>4 DEF IInv, CallInv
<1>7. ASSUME mine # NoCall
      PROVE  holder'[mine] = "empty" <=> \E i \in 1..Len(InLine') : InLine'[i] = mine
  <2>1. CASE serving.call = mine
    <3>1. holder'[mine] # "empty"
      BY <1>7, <2>1 DEF FinishRequest, AnsweredHolder, IInv, TypeOK
    <3> QED
      BY <1>5, <2>1, <3>1
  <2>2. CASE serving.call # mine
    <3>1. holder' = holder
      BY <2>2 DEF FinishRequest, AnsweredHolder
    <3>2. (\E i \in 1..Len(InLine) : InLine[i] = mine) <=> \E i \in 1..Len(InLine') : InLine'[i] = mine
      <4>1. ASSUME NEW i \in 1..Len(InLine), InLine[i] = mine
            PROVE  \E j \in 1..Len(InLine') : InLine'[j] = mine
        <5>1. i - 1 \in 1..Len(InLine') /\ (i - 1) + 1 = i
          BY <1>4, <2>2, <4>1
        <5> QED
          BY <1>4, <4>1, <5>1
      <4>2. ASSUME NEW j \in 1..Len(InLine'), InLine'[j] = mine
            PROVE  \E i \in 1..Len(InLine) : InLine[i] = mine
        <5>1. j + 1 \in 1..Len(InLine)
          BY <1>4
        <5> QED
          BY <1>4, <4>2, <5>1
      <4> QED
        BY <4>1, <4>2
    <3> QED
      BY <1>7, <3>1, <3>2 DEF IInv, CallInv
  <2> QED
    BY <2>1, <2>2
<1> QED
  BY <1>1, <1>3, <1>6, <1>7 DEF CallInv

-----------------------------------------------------------------------------
(* The inductive invariant.                                                *)

(* The initial state satisfies it.                                         *)
LEMMA InitIInv == Init => IInv
<1> SUFFICES ASSUME Init PROVE IInv
  OBVIOUS
<1> USE ClientAssumption DEF Init
<1>1. requestQueue \in Seq(Request \cup {None}) /\ Len(requestQueue) = 0 /\ serving = None
  OBVIOUS
<1>2. TypeOK
  <2>1. /\ holder \in [Call -> {"empty", "value", "error"}]
        /\ pos \in [Key -> {"none", "open", "closed"}]
        /\ lines \in [Key -> 0..1]
    BY DEF NoLines
  <2>2. thread = "running" /\ at = "waiting" /\ session = "none"
    OBVIOUS
  <2> QED
    BY <1>1, <2>1, <2>2 DEF TypeOK
<1>3. Line = <<>>
  BY <1>1, <1>2, LineElements
<1>4. InLine \in Seq(Call) /\ Len(InLine) = 0
  BY <1>3 DEF InLine
<1>5. QueueInv /\ CallInv
  BY <1>1, <1>3, <1>4 DEF QueueInv, CallInv
<1> QED
  BY <1>2, <1>5 DEF IInv, EngineInv, LinesAreTickers

(* Steps of the engine's thread.                                           *)
LEMMA EnginePreserves ==
    ASSUME IInv, WaitStep \/ PositionStep \/ MarkStep \/ OtherCall \/ Disconnect
    PROVE  IInv'
<1> USE ClientAssumption DEF IInv, engine, ibThread, ibkr
<1>1. CASE BeginTicks
  BY <1>1, CallsStay DEF BeginTicks, TypeOK, EngineInv, LinesAreTickers
<1>2. CASE GetComboDebit
  <2>1. ~shutdown /\ curKey \in Key /\ "read" \in Kind /\ mine = NoCall
    BY <1>2 DEF GetComboDebit, EngineInv, Kind
  <2>2. CASE connected
    <3>1. Enqueue("read", curKey) /\ UNCHANGED <<serving, shutdown>>
      BY <1>2, <2>2 DEF GetComboDebit
    <3>2. /\ mine' \in Call /\ requestQueue' \in Seq(Request \cup {None})
          /\ holder' \in [Call -> {"empty", "value", "error"}] /\ QueueInv' /\ CallInv'
      BY <2>1, <3>1, Enqueued
    <3> QED
      BY <1>2, <2>1, <2>2, <3>2 DEF GetComboDebit, TypeOK, EngineInv, LinesAreTickers
  <2>3. CASE ~connected
    BY <1>2, <2>1, <2>3, CallsStay DEF GetComboDebit, TypeOK, EngineInv, LinesAreTickers
  <2> QED
    BY <2>2, <2>3
<1>3. ASSUME NEW ok \in BOOLEAN, Resume(ok), mine # NoCall PROVE IInv'
  <2>1. QueueInv' /\ CallInv'
    BY <1>3, CallsStay DEF Resume
  <2>2. at \in {"other", "subscribe", "unsubscribe"} /\ mine \in Call
    BY <1>3 DEF EngineInv, TypeOK
  <2>3. holder' \in [Call -> {"empty", "value", "error"}]
    BY <1>3, <2>2 DEF Resume, TypeOK
  <2>4. comboSubKeys' \subseteq Key
    BY <1>3, <2>2 DEF Resume, TypeOK, EngineInv
  <2>5. at' \in {"toRead", "tick"} /\ mine' = NoCall /\ curKey' \in Key \cup {NoKey}
        /\ (at' = "toRead" => curKey' \in Key) /\ ~shutdown
    BY <1>3, <2>2 DEF Resume, TypeOK, EngineInv
  <2>6. UNCHANGED <<requestQueue, shutdown, serving, thread, connected, comboTickers, pos,
                    session, lines, gateway, foreign>>
    BY <1>3 DEF Resume
  <2>7. TypeOK'
    BY <2>3, <2>4, <2>5, <2>6 DEF TypeOK
  <2> QED
    BY <2>1, <2>5, <2>6, <2>7 DEF EngineInv, LinesAreTickers
<1>4. CASE Return
  <2>1. (holder[mine] = "value") \in BOOLEAN
    OBVIOUS
  <2> QED
    BY <1>3, <1>4, <2>1 DEF Return
<1>5. CASE GiveUp
  BY <1>3, <1>5 DEF GiveUp
<1>6. CASE Exit
  BY <1>6, CallsStay DEF Exit, TypeOK, EngineInv, LinesAreTickers, NoLines
<1>7. ASSUME NEW k \in Key, OpenPosition(k) \/ ClosePosition(k) PROVE IInv'
  BY <1>7, CallsStay DEF OpenPosition, ClosePosition, TypeOK, EngineInv, LinesAreTickers
<1>8. ASSUME NEW k \in Key, PositionDebit(k) PROVE IInv'
  <2>1. ~shutdown /\ "subscribe" \in Kind /\ mine = NoCall
    BY <1>8 DEF PositionDebit, EngineInv, Kind
  <2>2. CASE k \notin comboSubKeys /\ connected
    <3>1. Enqueue("subscribe", k) /\ UNCHANGED <<serving, shutdown>>
      BY <1>8, <2>2 DEF PositionDebit
    <3>2. /\ mine' \in Call /\ requestQueue' \in Seq(Request \cup {None})
          /\ holder' \in [Call -> {"empty", "value", "error"}] /\ QueueInv' /\ CallInv'
      BY <2>1, <3>1, Enqueued
    <3> QED
      BY <1>8, <2>1, <2>2, <3>2 DEF PositionDebit, TypeOK, EngineInv, LinesAreTickers
  <2>3. CASE ~(k \notin comboSubKeys /\ connected)
    BY <1>8, <2>1, <2>3, CallsStay DEF PositionDebit, TypeOK, EngineInv, LinesAreTickers
  <2> QED
    BY <2>2, <2>3
<1>9. ASSUME NEW k \in Key, SweepComboSub(k) PROVE IInv'
  <2>1. ~shutdown /\ "unsubscribe" \in Kind /\ mine = NoCall
    BY <1>9 DEF SweepComboSub, EngineInv, Kind
  <2>2. CASE connected
    <3>1. Enqueue("unsubscribe", k) /\ UNCHANGED <<serving, shutdown>>
      BY <1>9, <2>2 DEF SweepComboSub
    <3>2. /\ mine' \in Call /\ requestQueue' \in Seq(Request \cup {None})
          /\ holder' \in [Call -> {"empty", "value", "error"}] /\ QueueInv' /\ CallInv'
      BY <2>1, <3>1, Enqueued
    <3> QED
      BY <1>9, <2>1, <2>2, <3>2 DEF SweepComboSub, TypeOK, EngineInv, LinesAreTickers
  <2>3. CASE ~connected
    BY <1>9, <2>1, <2>3, CallsStay DEF SweepComboSub, TypeOK, EngineInv, LinesAreTickers
  <2> QED
    BY <2>2, <2>3
<1>10. ASSUME NEW kind \in {"query", "order"}, OtherRequest(kind) PROVE IInv'
  <2>1. ~shutdown /\ kind \in Kind /\ mine = NoCall /\ Enqueue(kind, NoKey)
    BY <1>10 DEF OtherRequest, EngineInv, Kind
  <2>2. UNCHANGED <<serving, shutdown>> /\ NoKey \in Key \cup {NoKey}
    BY <1>10 DEF OtherRequest
  <2>3. /\ mine' \in Call /\ requestQueue' \in Seq(Request \cup {None})
        /\ holder' \in [Call -> {"empty", "value", "error"}] /\ QueueInv' /\ CallInv'
    BY <1>10, <2>1, <2>2, Enqueued
  <2> QED
    BY <1>10, <2>1, <2>3 DEF OtherRequest, TypeOK, EngineInv, LinesAreTickers
<1>11. CASE Disconnect
  <2>1. requestQueue' \in Seq(Request \cup {None}) /\ QueueInv' /\ CallInv'
    BY <1>11, DisconnectKeeps
  <2> QED
    BY <1>11, <2>1 DEF Disconnect, TypeOK, EngineInv, LinesAreTickers
<1> QED
  BY <1>1, <1>2, <1>4, <1>5, <1>6, <1>7, <1>8, <1>9, <1>10, <1>11
     DEF WaitStep, PositionStep, MarkStep, OtherCall

(* Steps of the IB thread.                                                 *)
LEMMA ThreadPreserves ==
    ASSUME IInv, ThreadStep
    PROVE  IInv'
<1> USE DEF IInv, engine, ibThread, ibkr
<1>1. CASE ConnectSucceeds
  BY <1>1, CallsStay DEF ConnectSucceeds, TickersAfterConnect, NoLines, TypeOK, EngineInv,
     LinesAreTickers
<1>2. CASE ConnectCollides
  BY <1>2, CallsStay DEF ConnectCollides, TypeOK, EngineInv, LinesAreTickers
<1>3. CASE StopThread
  BY <1>3, CallsStay DEF StopThread, TickersAfterConnect, NoLines, TypeOK, EngineInv,
     LinesAreTickers
<1>4. CASE OnDisconnected
  BY <1>4, CallsStay DEF OnDisconnected, TypeOK, EngineInv, LinesAreTickers
<1>5. CASE TakeRequest
  <2>1. /\ requestQueue' \in Seq(Request \cup {None}) /\ serving' \in Request
        /\ QueueInv' /\ CallInv'
    BY <1>5, TakeKeeps
  <2> QED
    BY <1>5, <2>1 DEF TakeRequest, TypeOK, EngineInv, LinesAreTickers
<1>6. CASE FinishRequest
  <2>1. QueueInv' /\ CallInv'
    BY <1>6, FinishKeeps
  <2>2. thread = "running" /\ serving # None /\ serving' = None
        /\ UNCHANGED <<requestQueue, shutdown, thread, connected, at, mine, curKey, comboSubKeys,
                       pos, session, gateway, foreign>>
    BY <1>6 DEF FinishRequest
  <2>3. PICK result \in {"value", "error"} :
          /\ Perform(serving, result)
          /\ holder' = IF AnsweredHolder(serving) = mine
                       THEN [holder EXCEPT ![mine] = result] ELSE holder
    BY <1>6 DEF FinishRequest
  <2>4. holder' \in [Call -> {"empty", "value", "error"}]
    BY <2>3 DEF TypeOK
  <2>5. /\ comboTickers' \subseteq Key /\ lines' \in [Key -> 0..1]
        /\ LinesAreTickers'
    <3>1. Named(serving)
      <4>1. Line[1] = serving /\ Len(Line) \in Nat /\ Len(Line) >= 1
        BY <2>2, LineElements, LenProperties DEF TypeOK
      <4> QED
        BY <4>1 DEF QueueInv
    <3>2. CASE UNCHANGED <<comboTickers, lines>>
      BY <2>2, <3>2 DEF TypeOK, LinesAreTickers
    <3>3. CASE serving.kind = "subscribe" /\ SubscribeCombo(serving.key)
                 /\ (session = "open" \/ serving.key \in comboTickers)
      BY <2>2, <3>1, <3>3 DEF Named, SubscribeCombo, TypeOK, LinesAreTickers
    <3>4. CASE serving.kind = "unsubscribe" /\ UnsubscribeCombo(serving.key)
      BY <2>2, <3>1, <3>4 DEF Named, UnsubscribeCombo, TypeOK, LinesAreTickers
    <3> QED
      BY <2>3, <3>2, <3>3, <3>4 DEF Perform
  <2>6. TypeOK'
    BY <2>2, <2>4, <2>5 DEF TypeOK
  <2> QED
    BY <2>1, <2>2, <2>5, <2>6 DEF EngineInv
<1> QED
  BY <1>1, <1>2, <1>3, <1>4, <1>5, <1>6 DEF ThreadStep, ConnectionStep, RequestStep

(* Steps of IBKR.                                                          *)
LEMMA IbkrPreserves ==
    ASSUME IInv, IbkrStep
    PROVE  IInv'
<1> USE DEF IInv, engine, ibThread, ibkr
<1>1. CASE Outage
  <2>1. lines' \in [Key -> 0..1] /\ session' \in {"none", "lost"}
    BY <1>1 DEF Outage, NoLines, TypeOK
  <2>2. UNCHANGED <<requestQueue, holder, shutdown, ibThread, engine, foreign>> /\ gateway' = FALSE
    BY <1>1 DEF Outage
  <2>3. QueueInv' /\ CallInv'
    BY <2>2, CallsStay
  <2>4. TypeOK'
    BY <2>1, <2>2 DEF TypeOK
  <2> QED
    BY <2>1, <2>2, <2>3, <2>4 DEF EngineInv, LinesAreTickers
<1>2. CASE GatewayReturns
  BY <1>2, CallsStay DEF GatewayReturns, TypeOK, EngineInv, LinesAreTickers
<1>3. CASE ForeignSession
  BY <1>3, CallsStay DEF ForeignSession, TypeOK, EngineInv, LinesAreTickers
<1>4. CASE CallbackRaises
  BY <1>4, CallsStay DEF CallbackRaises, TypeOK, EngineInv, LinesAreTickers
<1> QED
  BY <1>1, <1>2, <1>3, <1>4 DEF IbkrStep

(* The engine's thread and the IB thread keep agreeing on the calls in     *)
(* line and on who is answered, and the IB thread and IBKR on the lines,   *)
(* whatever the connection does (blocking_ib_client.py).                   *)
THEOREM Inductive == Spec => []IInv
<1>1. ASSUME IInv, UNCHANGED vars PROVE IInv'
  BY <1>1, CallsStay DEF vars, IInv, engine, ibThread, ibkr, TypeOK, EngineInv, LinesAreTickers
<1>2. IInv /\ [Next]_vars => IInv'
  BY <1>1, EnginePreserves, ThreadPreserves, IbkrPreserves DEF Next
<1> QED
  BY <1>2, InitIInv, PTL DEF Spec

(* The engine's thread waits for one call at most, and no sequence of late *)
(* subscribes and unsubscribes marks a position by two lines.              *)
THEOREM TypeCorrect == Spec => []TypeOK
BY Inductive, PTL DEF IInv

(* While the session lasts, what IBKR streams is what _combo_tickers       *)
(* knows, however late a subscribe or an unsubscribe is executed.          *)
THEOREM StreamsAreTickers == Spec => []LinesAreTickers
BY Inductive, PTL DEF IInv

-----------------------------------------------------------------------------
(* The refinement of BrokerCall.                                           *)

InLineCall(c) == \E i \in 1..Len(InLine) : InLine[i] = c

(* The phase of a call, told from the line instead of the hands.           *)
PhasesAre ==
    \A c \in Call :
        /\ mine = c /\ InLineCall(c)  => PhaseOf(c) = "asked"
        /\ mine = c /\ ~InLineCall(c) => PhaseOf(c) = holder[c] /\ holder[c] \in {"value", "error"}
        /\ mine # c /\ InLineCall(c)  => PhaseOf(c) = "late"
        /\ mine # c /\ ~InLineCall(c) => PhaseOf(c) = "free"

(* Whoever waits for a call in line has not been answered.                 *)
LEMMA PhaseFacts == IInv => PhasesAre
<1> SUFFICES ASSUME IInv, NEW c \in Call
             PROVE  /\ mine = c /\ InLineCall(c)  => PhaseOf(c) = "asked"
                    /\ mine = c /\ ~InLineCall(c) => PhaseOf(c) = holder[c] /\ holder[c] \in {"value", "error"}
                    /\ mine # c /\ InLineCall(c)  => PhaseOf(c) = "late"
                    /\ mine # c /\ ~InLineCall(c) => PhaseOf(c) = "free"
  BY DEF PhasesAre
<1>1. c \in InHand <=> InLineCall(c)
  BY InHandIsInLine DEF IInv, InLineCall
<1>2. mine = c => (holder[c] = "empty" <=> InLineCall(c))
  BY ClientAssumption DEF IInv, CallInv, InLineCall
<1>3. holder[c] \in {"empty", "value", "error"}
  BY DEF IInv, TypeOK
<1> QED
  BY <1>1, <1>2, <1>3 DEF PhaseOf

(* The same of the next state.                                             *)
LEMMA PhaseFactsNext == IInv' => PhasesAre'
BY PhaseFacts, PTL

(* A step that leaves the line, the caller and its holder alone changes    *)
(* no phase.                                                               *)
LEMMA NothingAsked ==
    ASSUME IInv, IInv', UNCHANGED <<InLine, mine>>, mine # NoCall => UNCHANGED holder
    PROVE  UNCHANGED Calls!vars
<1>1. \A c \in Call : PhaseOf(c)' = PhaseOf(c)
  BY PhaseFacts, PhaseFactsNext, ClientAssumption DEF PhasesAre, InLineCall
<1> QED
  BY <1>1 DEF Calls!vars

(* A caller that stops waiting has been answered or gives up.              *)
LEMMA StopsWaiting ==
    ASSUME IInv, IInv', UNCHANGED InLine, mine' = NoCall
    PROVE  [Calls!Next]_Calls!vars
<1>1. CASE mine = NoCall
  BY <1>1, NothingAsked
<1>2. CASE mine # NoCall
  <2>1. PICK w \in Call : w = mine
    BY <1>2 DEF IInv, TypeOK
  <2>2. \A c \in Call \ {w} : PhaseOf(c)' = PhaseOf(c)
    BY <1>2, <2>1, PhaseFacts, PhaseFactsNext, ClientAssumption DEF PhasesAre, InLineCall
  <2>3. CASE InLineCall(w)
    <3>1. PhaseOf(w) = "asked" /\ PhaseOf(w)' = "late"
      BY <2>1, <2>3, PhaseFacts, PhaseFactsNext, ClientAssumption DEF PhasesAre, InLineCall
    <3>2. Calls!GiveUp(w)
      BY <2>1, <2>2, <3>1 DEF Calls!GiveUp
    <3> QED
      BY <2>1, <3>2 DEF Calls!Next
  <2>4. CASE ~InLineCall(w)
    <3>1. PhaseOf(w) \in {"value", "error"} /\ PhaseOf(w)' = "free"
      BY <2>1, <2>4, PhaseFacts, PhaseFactsNext, ClientAssumption DEF PhasesAre, InLineCall
    <3>2. Calls!Return(w)
      BY <2>1, <2>2, <3>1 DEF Calls!Return
    <3> QED
      BY <2>1, <3>2 DEF Calls!Next
  <2> QED
    BY <2>3, <2>4
<1> QED
  BY <1>1, <1>2

(* A request enqueued is a call asked.                                     *)
LEMMA EnqueueAsks ==
    ASSUME IInv, IInv', mine = NoCall, ~shutdown, UNCHANGED <<serving, shutdown>>,
           NEW kind \in Kind, NEW k \in Key \cup {NoKey}, Enqueue(kind, k),
           kind \in {"subscribe", "unsubscribe"} => k \in Key
    PROVE  Calls!Next
<1>1. PICK n \in Call : n = mine' /\ n \notin InHand /\ InLine' = Append(InLine, n)
  BY Enqueued
<1>2. ~InLineCall(n)
  BY <1>1, InHandIsInLine DEF IInv, InLineCall
<1>3. \A c \in Call : InLineCall(c)' <=> InLineCall(c) \/ c = n
  <2>1. /\ Len(InLine') = Len(InLine) + 1 /\ Len(InLine) \in Nat
        /\ \A i \in 1..Len(InLine') : InLine'[i] = IF i <= Len(InLine) THEN InLine[i] ELSE n
    BY <1>1, InLineElements, AppendProperties, LenProperties DEF IInv
  <2> QED
    BY <2>1 DEF InLineCall
<1>4. \A c \in Call : PhaseOf(c) \in {"free", "late"}
  BY PhaseFacts, ClientAssumption DEF PhasesAre
<1>5. PhaseOf(n) = "free" /\ PhaseOf(n)' = "asked"
  BY <1>1, <1>2, <1>3, PhaseFacts, PhaseFactsNext, ClientAssumption DEF PhasesAre
<1>6. \A c \in Call \ {n} : PhaseOf(c)' = PhaseOf(c)
  BY <1>1, <1>3, PhaseFacts, PhaseFactsNext, ClientAssumption DEF PhasesAre
<1>7. Calls!Ask(n)
  BY <1>1, <1>4, <1>5, <1>6 DEF Calls!Ask
<1> QED
  BY <1>7 DEF Calls!Next

(* A request finished is a call executed.                                  *)
LEMMA FinishExecutes ==
    ASSUME IInv, IInv', FinishRequest
    PROVE  Calls!Next
<1>1. PICK s \in Call : s = serving.call /\ s = Head(InLine) /\ InLine # <<>> /\ InLine' = Tail(InLine)
  BY LineShrinks DEF FinishRequest, IInv, TypeOK, Request
<1>2. /\ Len(InLine) \in Nat /\ Len(InLine) > 0 /\ Len(InLine') = Len(InLine) - 1 /\ InLine[1] = s
      /\ \A i \in 1..Len(InLine') : InLine'[i] = InLine[i + 1]
  BY <1>1, InLineElements, HeadTailProperties, LenProperties, EmptySeq DEF IInv
<1>3. InLineCall(s) /\ ~InLineCall(s)'
  BY <1>2 DEF InLineCall, IInv, CallInv
<1>4. \A c \in Call \ {s} : InLineCall(c)' <=> InLineCall(c)
  <2> SUFFICES ASSUME NEW c \in Call \ {s} PROVE InLineCall(c)' <=> InLineCall(c)
    OBVIOUS
  <2>1. ASSUME NEW i \in 1..Len(InLine), InLine[i] = c PROVE InLineCall(c)'
    <3>1. i - 1 \in 1..Len(InLine') /\ (i - 1) + 1 = i
      BY <1>2, <2>1
    <3> QED
      BY <1>2, <2>1, <3>1 DEF InLineCall
  <2>2. ASSUME NEW i \in 1..Len(InLine'), InLine'[i] = c PROVE InLineCall(c)
    <3>1. i + 1 \in 1..Len(InLine)
      BY <1>2
    <3> QED
      BY <1>2, <2>2, <3>1 DEF InLineCall
  <2> QED
    BY <2>1, <2>2 DEF InLineCall
<1>5. mine' = mine /\ \A c \in Call \ {s} : holder'[c] = holder[c]
  BY <1>1 DEF FinishRequest, engine, AnsweredHolder
<1>6. \A c \in Call \ {s} : PhaseOf(c)' = PhaseOf(c)
  BY <1>4, <1>5, PhaseFacts, PhaseFactsNext DEF PhasesAre
<1>7. \/ PhaseOf(s) = "asked" /\ PhaseOf(s)' \in {"value", "error"}
      \/ PhaseOf(s) = "late" /\ PhaseOf(s)' = "free"
  BY <1>3, <1>5, PhaseFacts, PhaseFactsNext DEF PhasesAre
<1>8. Calls!Execute
  BY <1>1, <1>6, <1>7 DEF Calls!Execute
<1> QED
  BY <1>8 DEF Calls!Next

(* Every step of the client is a step of BrokerCall, or none.              *)
LEMMA CallStep == IInv /\ IInv' /\ [Next]_vars => [Calls!Next]_Calls!vars
<1> SUFFICES ASSUME IInv, IInv', [Next]_vars PROVE [Calls!Next]_Calls!vars
  OBVIOUS
<1>1. ASSUME UNCHANGED <<requestQueue, serving, shutdown, mine>>, mine # NoCall => UNCHANGED holder
      PROVE  [Calls!Next]_Calls!vars
  BY <1>1, LineStays, NothingAsked
<1>2. ASSUME UNCHANGED <<requestQueue, serving, shutdown>>, mine' = NoCall
      PROVE  [Calls!Next]_Calls!vars
  BY <1>2, LineStays, StopsWaiting
<1>3. CASE UNCHANGED vars
  BY <1>1, <1>3 DEF vars, ibThread, engine
<1>4. CASE TakeRequest
  BY <1>4, TakeKeeps, NothingAsked DEF TakeRequest, engine
<1>5. CASE FinishRequest
  BY <1>5, FinishExecutes
<1>6. CASE ConnectionStep \/ IbkrStep \/ BeginTicks \/ PositionStep \/ Exit
  BY <1>1, <1>6 DEF ConnectionStep, ConnectSucceeds, ConnectCollides, StopThread, OnDisconnected,
     IbkrStep, Outage, GatewayReturns, ForeignSession, CallbackRaises, BeginTicks, PositionStep,
     OpenPosition, ClosePosition, Exit, engine, ibThread, ibkr
<1>7. CASE Return \/ GiveUp
  BY <1>2, <1>7 DEF Return, GiveUp, Resume, ibThread
<1>8. CASE Disconnect
  BY <1>8, DisconnectKeeps, StopsWaiting DEF Disconnect
<1>9. ASSUME at \in {"tick", "toRead"}, UNCHANGED <<serving, shutdown>>,
             NEW kind \in Kind, NEW k \in Key \cup {NoKey}, Enqueue(kind, k),
             kind \in {"subscribe", "unsubscribe"} => k \in Key
      PROVE  Calls!Next
  BY <1>9, EnqueueAsks DEF IInv, EngineInv
<1>10. CASE GetComboDebit
  <2>1. curKey \in Key /\ at = "toRead" /\ "read" \in Kind /\ UNCHANGED <<serving, shutdown>>
    BY <1>10 DEF GetComboDebit, IInv, EngineInv, Kind, ibThread
  <2>2. CASE connected
    BY <1>9, <1>10, <2>1, <2>2 DEF GetComboDebit
  <2>3. CASE ~connected
    BY <1>1, <1>10, <2>3 DEF GetComboDebit, ibThread
  <2> QED
    BY <2>2, <2>3
<1>11. CASE MarkStep
  <2>1. PICK k \in Key : PositionDebit(k) \/ SweepComboSub(k)
    BY <1>11 DEF MarkStep
  <2>2. at = "tick" /\ {"subscribe", "unsubscribe"} \subseteq Kind /\ UNCHANGED <<serving, shutdown>>
    BY <2>1 DEF PositionDebit, SweepComboSub, Kind, ibThread
  <2>3. \/ Enqueue("subscribe", k) \/ Enqueue("unsubscribe", k)
        \/ UNCHANGED <<requestQueue, holder, mine>>
    BY <2>1 DEF PositionDebit, SweepComboSub
  <2>4. CASE Enqueue("subscribe", k)
    BY <1>9, <2>2, <2>4
  <2>5. CASE Enqueue("unsubscribe", k)
    BY <1>9, <2>2, <2>5
  <2>6. CASE UNCHANGED <<requestQueue, holder, mine>>
    BY <1>1, <2>2, <2>6
  <2> QED
    BY <2>3, <2>4, <2>5, <2>6
<1>12. CASE OtherCall
  <2>1. PICK kind \in {"query", "order"} : OtherRequest(kind)
    BY <1>12 DEF OtherCall
  <2>2. /\ at = "tick" /\ kind \in Kind /\ kind \notin {"subscribe", "unsubscribe"}
        /\ Enqueue(kind, NoKey) /\ UNCHANGED <<serving, shutdown>>
    BY <2>1 DEF OtherRequest, Kind, ibThread
  <2> QED
    BY <1>9, <2>2
<1> QED
  BY <1>3, <1>4, <1>5, <1>6, <1>7, <1>8, <1>10, <1>11, <1>12
     DEF Next, ThreadStep, RequestStep, WaitStep

(* The client implements BrokerCall: whatever the connection does and      *)
(* however often a caller gives up, a call is executed at most once and in *)
(* order, and a caller is only ever answered by its own call.              *)
THEOREM ImplementsBrokerCall == Spec => CallSpec
<1>1. Init => Calls!Init
  <2> SUFFICES ASSUME Init PROVE Calls!Init
    OBVIOUS
  <2>1. IInv
    BY InitIInv
  <2>2. InLine = <<>>
    BY DEF Init, Line, InLine
  <2>3. \A c \in Call : PhaseOf(c) = "free"
    BY <2>1, <2>2, PhaseFacts, ClientAssumption DEF Init, PhasesAre, InLineCall
  <2> QED
    BY <2>2, <2>3 DEF Calls!Init
<1> QED
  BY <1>1, CallStep, Inductive, PTL DEF Spec, CallSpec, Calls!Spec
=============================================================================
