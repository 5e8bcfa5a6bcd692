----------------------------- MODULE BrokerCall -----------------------------
(***************************************************************************)
(* What one caller may expect of calls that another thread executes: every *)
(* call is executed at most once, in the order in which the calls were     *)
(* made; a caller that is answered is answered by its own call; a caller   *)
(* that gives up leaves its call behind, which may still be executed, and  *)
(* then before anything asked later.                                       *)
(*                                                                         *)
(* OrderLifecycle takes its calls of IBKR to be of this kind (a placement  *)
(* given up on and executed late is its order "queued"); IBClient          *)
(* implements it with a queue, a connection and a thread.                  *)
(***************************************************************************)
EXTENDS Sequences

CONSTANT Call           \* call ids; one that is free may be used again

VARIABLES
    phase,              \* of every call, as its caller sees it
    line                \* calls made and not yet executed, oldest first

vars == <<phase, line>>

Phase == {"free", "asked", "late", "value", "error"}

Init == phase = [c \in Call |-> "free"] /\ line = <<>>

(* There is one caller, and it waits for one call at a time.               *)
Ask(c) ==
    /\ \A d \in Call : phase[d] \in {"free", "late"}
    /\ phase[c] = "free"
    /\ phase' = [phase EXCEPT ![c] = "asked"]
    /\ line' = Append(line, c)

GiveUp(c) ==
    /\ phase[c] = "asked"
    /\ phase' = [phase EXCEPT ![c] = "late"]
    /\ UNCHANGED line

Execute ==
    /\ line # <<>>
    /\ LET c == Head(line)
       IN  \/ /\ phase[c] = "asked"
              /\ \E answer \in {"value", "error"} : phase' = [phase EXCEPT ![c] = answer]
           \/ /\ phase[c] = "late"
              /\ phase' = [phase EXCEPT ![c] = "free"]
    /\ line' = Tail(line)

Return(c) ==
    /\ phase[c] \in {"value", "error"}
    /\ phase' = [phase EXCEPT ![c] = "free"]
    /\ UNCHANGED line

Next == Execute \/ \E c \in Call : Ask(c) \/ GiveUp(c) \/ Return(c)
Spec == Init /\ [][Next]_vars
=============================================================================
