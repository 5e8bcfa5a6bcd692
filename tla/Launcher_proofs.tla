--------------------------- MODULE Launcher_proofs ---------------------------
(* The safety properties of Launcher, proved for any number of attempts    *)
(* and engines, any mix of hosts and any number of killed scripts.         *)
EXTENDS Launcher, TLAPS

(* An attempt is past the launch lock and has not let go of it.            *)
Inside == {"launch"} \X (Critical \cup {"release"})

(* Where the lock holds, it is owned: an attempt inside is the one it      *)
(* names, the one it names is inside, a directory without a pid has just   *)
(* been made, and no directory is ever found stale.                        *)
LockOwned ==
    /\ \A p \in Attempt :
          /\ at[p] \in Inside => lock["launch"] = p
          /\ at[p] = <<"launch", "record">> => lock["launch"] = NoPid
          /\ at[p] # <<"launch", "clean">>
          /\ at[p] \in {<<"launch", "make">>, <<"launch", "record">>} => env.lock = "lockdir"
    /\ \A p, q \in Attempt :
          at[p] = <<"launch", "record">> /\ at[q] = <<"launch", "record">> => p = q
    /\ lock["launch"] \in Attempt => at[lock["launch"]] \in Inside
    /\ lock["launch"] # OldNoPid
    /\ lock["launch"] = NoPid => \E p \in Attempt : at[p] = <<"launch", "record">>
    /\ lock["launch"] \in Engine => env.lock = "flock" /\ lock["launch"] \in engines

(* What each command of the critical section may rely on.                  *)
CriticalSection ==
    \A p \in Attempt :
        /\ at[p] = <<"launch", "fork">> => engines = {}
        /\ at[p] \in {<<"launch", "write">>, <<"launch", "settle">>} => engines \subseteq {forked[p]}
        /\ at[p] = <<"launch", "settle">> => pidfile = forked[p]

(* The stop script has the files to itself.                                *)
StopAlone ==
    /\ stop # "idle" => \A p \in Attempt : at[p] = Idle
    /\ stop \in {"look", "remove", "sentinel"} => engines = {}
    /\ stop = "unlink" => pidfile \notin engines

Safe ==
    LockHolds =>
        /\ LockOwned /\ CriticalSection /\ StopAlone
        /\ OneEngine /\ UnnamedEngineExcludes
IInv == TypeOK /\ Safe

-----------------------------------------------------------------------------
(* Types.                                                                  *)

(* Every place an attempt goes to is a place.                              *)
LEMMA PlacesOK ==
    /\ Idle \in Places
    /\ \A l \in Locks : /\ \A c \in Acquiring \cup {"release"} : <<l, c>> \in Places
                        /\ Entered(l) \in Places
    /\ \A c \in Critical : <<"launch", c>> \in Places
BY DEF Places, Idle, Locks, Acquiring, Critical, Entered

(* An attempt that holds no engine moves to a place where it holds none.   *)
LEMMA MoveTyped ==
    ASSUME TypeOK, NEW p \in Attempt, NEW x \in Places,
           x \notin {<<"launch", "write">>, <<"launch", "settle">>},
           at' = [at EXCEPT ![p] = x],
           NEW w \in BOOLEAN, watched' = [watched EXCEPT ![p] = w],
           \/ forked' = [forked EXCEPT ![p] = NoEngine]
           \/ forked' = forked /\ forked[p] = NoEngine,
           x[1] = "watchdog" => w, x = Idle => ~w
    PROVE  /\ at' \in [Attempt -> Places] /\ watched' \in [Attempt -> BOOLEAN]
           /\ forked' \in [Attempt -> Engine \cup {NoEngine}]
           /\ \A q \in Attempt :
                 /\ forked'[q] # NoEngine
                       <=> at'[q] \in {<<"launch", "write">>, <<"launch", "settle">>}
                 /\ at'[q][1] = "watchdog" => watched'[q]
                 /\ at'[q] = Idle => ~watched'[q]
BY DEF TypeOK

(* The script or the watchdog of an attempt ends: types.                   *)
LEMMA EndTyped ==
    ASSUME TypeOK, NEW p \in Attempt, NEW l \in Locks, at[p][1] = l, PartEnds(p, l)
    PROVE  /\ at' \in [Attempt -> Places] /\ watched' \in [Attempt -> BOOLEAN]
           /\ forked' \in [Attempt -> Engine \cup {NoEngine}]
           /\ \A q \in Attempt :
                 /\ forked'[q] # NoEngine
                       <=> at'[q] \in {<<"launch", "write">>, <<"launch", "settle">>}
                 /\ at'[q][1] = "watchdog" => watched'[q]
                 /\ at'[q] = Idle => ~watched'[q]
<1>1. CASE l = "launch"
  <2> DEFINE x == IF watched[p] THEN <<"watchdog", "release">> ELSE Idle
  <2>1. at' = [at EXCEPT ![p] = x] /\ x \in Places
    BY <1>1, PlacesOK DEF PartEnds, ScriptEnds, Locks
  <2>2. watched' = [watched EXCEPT ![p] = watched[p]] /\ watched[p] \in BOOLEAN
    BY <1>1 DEF PartEnds, ScriptEnds, TypeOK
  <2>3. forked' = [forked EXCEPT ![p] = NoEngine]
    BY <1>1 DEF PartEnds, ScriptEnds
  <2>4. /\ x[1] = "watchdog" => watched[p]
        /\ x = Idle => ~watched[p]
        /\ x \notin {<<"launch", "write">>, <<"launch", "settle">>}
    BY DEF Idle
  <2> HIDE DEF x
  <2> QED
    BY <2>1, <2>2, <2>3, <2>4, MoveTyped
<1>2. CASE l = "watchdog"
  <2>1. at' = [at EXCEPT ![p] = Idle] /\ watched' = [watched EXCEPT ![p] = FALSE]
        /\ forked' = forked
    BY <1>2 DEF PartEnds, WatchdogEnds
  <2>2. forked[p] = NoEngine
    BY <1>2 DEF TypeOK
  <2>3. Idle \notin {<<"launch", "write">>, <<"launch", "settle">>} /\ Idle[1] # "watchdog"
    BY DEF Idle
  <2> QED
    BY <2>1, <2>2, <2>3, PlacesOK, MoveTyped
<1> QED
  BY <1>1, <1>2 DEF Locks

(* A step of acquire_lock or release_lock keeps the types.                 *)
LEMMA LockStepTyped ==
    ASSUME TypeOK, NEW p \in Attempt, NEW l \in Locks,
           FlockAcquire(p, l) \/ LookAtDir(p, l) \/ CleanDir(p, l) \/ MakeDir(p, l)
             \/ RecordPid(p, l) \/ Release(p, l)
    PROVE  TypeOK'
<1>1. /\ env' = env /\ market' = market /\ engines' = engines /\ pidfile' = pidfile
      /\ sentinel' = sentinel /\ stop' = stop /\ kills' = kills
  BY DEF FlockAcquire, LookAtDir, CleanDir, MakeDir, RecordPid, Release
<1>2. lock' \in [Locks -> LockValues]
  BY DEF TypeOK, LockValues, FlockAcquire, LookAtDir, CleanDir, MakeDir, RecordPid, Release
<1>3. /\ at[p][1] = l /\ at[p] \notin {<<"launch", "write">>, <<"launch", "settle">>}
      /\ forked[p] = NoEngine /\ watched[p] \in BOOLEAN
      /\ l = "watchdog" => watched[p]
  BY DEF TypeOK, FlockAcquire, LookAtDir, CleanDir, MakeDir, RecordPid, Release
<1>4. ASSUME NEW x \in {<<l, "clean">>, <<l, "make">>, <<l, "record">>, Entered(l)}, Goto(p, x)
      PROVE  /\ at' \in [Attempt -> Places] /\ watched' \in [Attempt -> BOOLEAN]
             /\ forked' \in [Attempt -> Engine \cup {NoEngine}]
             /\ \A q \in Attempt :
                   /\ forked'[q] # NoEngine
                         <=> at'[q] \in {<<"launch", "write">>, <<"launch", "settle">>}
                   /\ at'[q][1] = "watchdog" => watched'[q]
                   /\ at'[q] = Idle => ~watched'[q]
  <2>1. x \in Places
    BY PlacesOK DEF Acquiring
  <2>2. at' = [at EXCEPT ![p] = x] /\ watched' = watched /\ forked' = forked
    BY <1>4 DEF Goto
  <2>3. watched' = [watched EXCEPT ![p] = watched[p]]
    BY <2>2 DEF TypeOK
  <2>4. /\ x \notin {<<"launch", "write">>, <<"launch", "settle">>}
        /\ x[1] = "watchdog" => watched[p]
        /\ x # Idle
    BY <1>3 DEF Entered, Idle, Locks
  <2> QED
    BY <1>3, <2>1, <2>2, <2>3, <2>4, MoveTyped
<1>5. PartEnds(p, l) \/ \E x \in {<<l, "clean">>, <<l, "make">>, <<l, "record">>, Entered(l)} : Goto(p, x)
  BY DEF FlockAcquire, LookAtDir, CleanDir, MakeDir, RecordPid, Release
<1> QED
  BY <1>1, <1>2, <1>3, <1>4, <1>5, EndTyped DEF TypeOK

(* The watchdog's tick, a start by hand and the critical section.          *)
LEMMA ScriptStepTyped ==
    ASSUME TypeOK, NEW p \in Attempt,
           WatchdogTick(p) \/ RunByHand(p) \/ CheckPidfile(p) \/ ForkEngine(p)
             \/ WritePidfile(p) \/ Settle(p)
    PROVE  TypeOK'
<1>1. at[p] \in Places /\ watched[p] \in BOOLEAN /\ forked[p] \in Engine \cup {NoEngine}
  BY DEF TypeOK
<1>2. CASE WatchdogTick(p)
  BY <1>1, <1>2, PlacesOK DEF WatchdogTick, TypeOK, Idle, Acquiring, Locks
<1>3. CASE RunByHand(p)
  BY <1>1, <1>3, PlacesOK DEF RunByHand, Goto, TypeOK, Idle, Acquiring, Locks
<1>4. CASE CheckPidfile(p)
  BY <1>1, <1>4, PlacesOK DEF CheckPidfile, Goto, TypeOK, Idle, Critical, Locks
<1>5. CASE ForkEngine(p)
  BY <1>1, <1>5, PlacesOK, ProcessAssumption DEF ForkEngine, TypeOK, Idle, Critical, Locks
<1>6. CASE WritePidfile(p)
  BY <1>1, <1>6, PlacesOK DEF WritePidfile, Goto, TypeOK, Idle, Critical, Locks
<1>7. CASE Settle(p)
  BY <1>1, <1>7, PlacesOK DEF Settle, TypeOK, Idle, Critical, Locks
<1> QED
  BY <1>2, <1>3, <1>4, <1>5, <1>6, <1>7

(* A killed script.                                                        *)
LEMMA KillTyped ==
    ASSUME TypeOK, NEW p \in Attempt, KillScript(p) \/ KillWatchdog(p)
    PROVE  TypeOK'
<1> USE EnvironmentAssumption
<1>1. kills' \in 0..MaxKills
  BY DEF TypeOK, KillScript, KillWatchdog
<1>2. CASE KillScript(p)
  <2>1. lock' \in [Locks -> LockValues]
    BY <1>2 DEF KillScript, TypeOK, LockValues, Inherits
  <2>2. PartEnds(p, "launch") /\ "launch" \in Locks /\ at[p][1] = "launch"
    BY <1>2 DEF KillScript, PartEnds, Locks
  <2> QED
    BY <1>1, <1>2, <2>1, <2>2, EndTyped DEF KillScript, TypeOK
<1>3. CASE KillWatchdog(p)
  <2>1. lock' \in [Locks -> LockValues]
    BY <1>3 DEF KillWatchdog, TypeOK, LockValues
  <2>2. CASE at[p][1] = "watchdog"
    <3>1. PartEnds(p, "watchdog") /\ "watchdog" \in Locks
      BY <1>3, <2>2 DEF KillWatchdog, PartEnds, WatchdogEnds, Locks
    <3> QED
      BY <1>1, <1>3, <2>1, <2>2, <3>1, EndTyped DEF KillWatchdog, TypeOK
  <2>3. CASE at[p][1] # "watchdog"
    BY <1>1, <1>3, <2>1, <2>3 DEF KillWatchdog, TypeOK
  <2> QED
    BY <2>2, <2>3
<1> QED
  BY <1>2, <1>3

(* The stop script and everything else.                                    *)
LEMMA RestTyped ==
    ASSUME TypeOK,
           \/ StopPidfile \/ StopStep
           \/ \E e \in Engine : EngineDies(e)
           \/ \E l \in Locks : LockDirAges(l)
           \/ MarketOpensOrCloses
    PROVE  TypeOK'
<1>1. lock' \in [Locks -> LockValues]
  BY DEF TypeOK, LockValues, ReleasedBy, StopPidfile, StopStep, StopUnlink, StopFallback, StopLook,
     StopRemove, StopSentinel, EngineDies, LockDirAges, MarketOpensOrCloses
<1>2. market' \in {"open", "closed"} /\ stop' \in StopPlaces /\ engines' \subseteq Engine
      /\ pidfile' \in Engine \cup {NoEngine} /\ sentinel' \in {"none", ReaperCode}
  BY DEF TypeOK, StopPlaces, StopPidfile, StopStep, StopUnlink, StopFallback, StopLook,
     StopRemove, StopSentinel, EngineDies, LockDirAges, MarketOpensOrCloses
<1>3. UNCHANGED <<env, at, watched, forked, kills>>
  BY DEF StopPidfile, StopStep, StopUnlink, StopFallback, StopLook,
     StopRemove, StopSentinel, EngineDies, LockDirAges, MarketOpensOrCloses
<1> QED
  BY <1>1, <1>2, <1>3 DEF TypeOK

(* The types are inductive.                                                *)
LEMMA InitTyped == Init => TypeOK
BY EnvironmentAssumption, PlacesOK DEF Init, TypeOK, LockValues, StopPlaces, Idle, ReaperCode

(* Every step keeps them.                                                  *)
LEMMA NextTyped == TypeOK /\ [Next]_vars => TypeOK'
<1> SUFFICES ASSUME TypeOK, [Next]_vars PROVE TypeOK'
  OBVIOUS
<1>1. CASE UNCHANGED vars
  BY <1>1 DEF vars, TypeOK
<1>2. CASE Next
  BY <1>2, LockStepTyped, ScriptStepTyped, KillTyped, RestTyped DEF Next, AttemptStep
<1> QED
  BY <1>1, <1>2

(* Every variable keeps its type; a script holds the engine it forked      *)
(* exactly from the fork until it has settled.                             *)
THEOREM TypeCorrect == Spec => []TypeOK
BY InitTyped, NextTyped, PTL DEF Spec

-----------------------------------------------------------------------------
(* Safety.                                                                 *)

(* A move outside the launch lock changes nothing that matters.            *)
LEMMA Outside ==
    ASSUME IInv, LockHolds, NEW p \in Attempt, NEW x,
           at' = [at EXCEPT ![p] = x], stop = "idle",
           at[p] \notin Inside \cup {<<"launch", "record">>},
           x \notin Inside \cup {<<"launch", "record">>, <<"launch", "clean">>},
           x = <<"launch", "make">> => env.lock = "lockdir",
           lock'["launch"] = lock["launch"],
           \A q \in Attempt \ {p} : forked'[q] = forked[q],
           UNCHANGED <<env, engines, pidfile, stop>>
    PROVE  Safe'
<1> USE DEF IInv, Safe
<1>1. /\ \A q \in Attempt \ {p} : at'[q] = at[q]
      /\ at'[p] = x
  BY DEF TypeOK
<1>2. LockOwned'
  <2>1. \A q \in Attempt : /\ at'[q] \in Inside <=> at[q] \in Inside
                           /\ at'[q] = <<"launch", "record">> <=> at[q] = <<"launch", "record">>
                           /\ at'[q] # <<"launch", "clean">>
                           /\ at'[q] \in {<<"launch", "make">>, <<"launch", "record">>} => env.lock = "lockdir"
    BY <1>1 DEF LockOwned
  <2> QED
    BY <2>1 DEF LockOwned
<1>3. CriticalSection'
  BY <1>1 DEF CriticalSection, Inside, Critical
<1>4. StopAlone' /\ OneEngine'
  BY DEF StopAlone, OneEngine
<1>5. UnnamedEngineExcludes'
  BY <1>1 DEF UnnamedEngineExcludes, LockHolds, Allowed, Inside, Critical
<1> QED
  BY <1>2, <1>3, <1>4, <1>5

(* A lock directory is never found stale, so nobody removes one.           *)
LEMMA NeverStale == IInv /\ LockHolds => ~Stale("launch")
BY DEF IInv, Safe, LockOwned, Stale, Alive, Inside

(* Inside the lock no engine but one's own can be there.                   *)
LEMMA InsideAlone ==
    ASSUME IInv, LockHolds, NEW p \in Attempt, at[p] \in Inside
    PROVE  /\ lock["launch"] = p /\ stop = "idle"
           /\ \A q \in Attempt \ {p} : at[q] \notin Inside \cup {<<"launch", "record">>}
           /\ \A e \in engines : pidfile = e \/ (forked[p] = e /\ at[p] = <<"launch", "write">>)
<1> USE DEF IInv, Safe
<1>1. lock["launch"] = p
  BY DEF LockOwned
<1>2. stop = "idle"
  BY DEF StopAlone, Inside, Idle
<1>3. \A q \in Attempt \ {p} : at[q] \notin Inside \cup {<<"launch", "record">>}
  BY <1>1, ProcessAssumption DEF LockOwned
<1>4. \A e \in engines : e # p
  BY ProcessAssumption DEF TypeOK
<1>5. \A e \in engines : pidfile = e \/ (forked[p] = e /\ at[p] = <<"launch", "write">>)
  BY <1>1, <1>4 DEF UnnamedEngineExcludes
<1> QED
  BY <1>1, <1>2, <1>3, <1>5

(* Whoever enters does so alone.                                           *)
LEMMA Enters ==
    ASSUME IInv, LockHolds, NEW p \in Attempt,
           at' = [at EXCEPT ![p] = <<"launch", "check">>],
           \/ lock["launch"] = Free /\ at[p] = <<"launch", "look">>
           \/ at[p] = <<"launch", "record">>,
           lock'["launch"] = p,
           UNCHANGED <<env, forked, engines, pidfile, stop>>
    PROVE  Safe'
<1> USE ProcessAssumption DEF IInv, Safe
<1>1. /\ \A q \in Attempt \ {p} : at'[q] = at[q]
      /\ at'[p] = <<"launch", "check">>
  BY DEF TypeOK
<1>2. /\ lock["launch"] \in {Free, NoPid} /\ lock["launch"] \notin Attempt \cup Engine
      /\ stop = "idle"
  BY DEF LockOwned, StopAlone, Idle
<1>3. \A q \in Attempt \ {p} : at[q] \notin Inside \cup {<<"launch", "record">>}
  BY <1>2 DEF LockOwned
<1>4. LockOwned'
  BY <1>1, <1>2, <1>3 DEF LockOwned, Inside, Critical
<1>5. CriticalSection'
  BY <1>1 DEF CriticalSection
<1>6. StopAlone' /\ OneEngine'
  BY <1>2 DEF StopAlone, OneEngine
<1>7. UnnamedEngineExcludes'
  BY <1>2 DEF UnnamedEngineExcludes, TypeOK
<1> QED
  BY <1>4, <1>5, <1>6, <1>7

(* The directory is made by one, who is then alone to record its pid.      *)
LEMMA Makes ==
    ASSUME IInv, LockHolds, NEW p \in Attempt, MakeDir(p, "launch"), lock["launch"] = Free
    PROVE  Safe'
<1> USE ProcessAssumption DEF IInv, Safe
<1>1. /\ at' = [at EXCEPT ![p] = <<"launch", "record">>] /\ lock'["launch"] = NoPid
      /\ at[p] = <<"launch", "make">> /\ UNCHANGED <<env, forked, engines, pidfile, stop>>
  BY DEF MakeDir, Goto, TypeOK, Locks
<1>2. /\ \A q \in Attempt \ {p} : at'[q] = at[q]
      /\ at'[p] = <<"launch", "record">>
  BY <1>1 DEF TypeOK
<1>3. stop = "idle" /\ env.lock = "lockdir"
  <2>1. stop = "idle"
    BY <1>1 DEF StopAlone, Idle
  <2>2. env.lock = "lockdir"
    BY <1>1 DEF LockOwned
  <2> QED
    BY <2>1, <2>2
<1>4. \A q \in Attempt : at[q] \notin Inside \cup {<<"launch", "record">>}
  BY DEF LockOwned
<1>5. LockOwned'
  <2>1. /\ <<"launch", "record">> \notin Inside
        /\ <<"launch", "record">> # <<"launch", "clean">>
    BY DEF Inside, Critical
  <2>2. \A q \in Attempt : at'[q] \notin Inside
    BY <1>2, <1>4, <2>1
  <2>3. \A q \in Attempt : at'[q] = <<"launch", "record">> <=> q = p
    BY <1>2, <1>4
  <2>4. \A q \in Attempt :
           /\ at'[q] # <<"launch", "clean">>
           /\ at'[q] \in {<<"launch", "make">>, <<"launch", "record">>} => env'.lock = "lockdir"
    BY <1>1, <1>2, <1>3, <2>1 DEF LockOwned
  <2> QED
    BY <1>1, <2>2, <2>3, <2>4 DEF LockOwned, Inside
<1>6. CriticalSection'
  BY <1>1, <1>2 DEF CriticalSection
<1>7. StopAlone' /\ OneEngine'
  BY <1>1, <1>3 DEF StopAlone, OneEngine
<1>8. UnnamedEngineExcludes'
  BY <1>1, <1>4 DEF UnnamedEngineExcludes, TypeOK
<1> QED
  BY <1>5, <1>6, <1>7, <1>8

(* The lock is let go of by its owner, or passes to the engine that a      *)
(* killed script has forked.                                               *)
LEMMA Leaves ==
    ASSUME IInv, LockHolds, NEW p \in Attempt, at[p] \in Inside,
           NEW x, at' = [at EXCEPT ![p] = x], x \in {Idle, <<"watchdog", "release">>},
           \/ lock'["launch"] = Free /\ (at[p] = <<"launch", "release">> \/ engines = {})
           \/ lock'["launch"] = Inherits(p) /\ env.lock = "flock",
           \A q \in Attempt \ {p} : forked'[q] = forked[q],
           UNCHANGED <<env, engines, pidfile, stop>>
    PROVE  Safe'
<1> USE ProcessAssumption DEF IInv, Safe
<1>1. /\ \A q \in Attempt \ {p} : at'[q] = at[q]
      /\ at'[p] = x
  BY DEF TypeOK
<1>2. /\ lock["launch"] = p /\ stop = "idle"
      /\ \A q \in Attempt \ {p} : at[q] \notin Inside \cup {<<"launch", "record">>}
      /\ \A e \in engines : pidfile = e \/ (forked[p] = e /\ at[p] = <<"launch", "write">>)
  BY InsideAlone
<1>3. x \notin Inside /\ x \notin {"launch"} \X {"clean", "make", "record"}
  BY DEF Inside, Idle
<1>4. \A q \in Attempt : at'[q] \notin Inside \cup {<<"launch", "record">>}
  BY <1>1, <1>2, <1>3
<1>5. lock'["launch"] \in {Free} \cup engines /\ (lock'["launch"] \in engines => env.lock = "flock")
  BY DEF Inherits, TypeOK
<1>6. LockOwned'
  <2>1. /\ lock'["launch"] \notin Attempt \cup {NoPid, OldNoPid}
        /\ lock'["launch"] \in Engine => env'.lock = "flock" /\ lock'["launch"] \in engines'
    BY <1>5 DEF TypeOK
  <2>2. \A q \in Attempt : /\ at'[q] # <<"launch", "clean">>
                           /\ at'[q] \in {<<"launch", "make">>, <<"launch", "record">>} => env'.lock = "lockdir"
    BY <1>1, <1>3 DEF LockOwned, Inside
  <2> QED
    BY <1>4, <2>1, <2>2 DEF LockOwned
<1>7. CriticalSection'
  BY <1>4 DEF CriticalSection, Inside, Critical
<1>8. StopAlone' /\ OneEngine'
  BY <1>2 DEF StopAlone, OneEngine
<1>9. UnnamedEngineExcludes'
  BY <1>2 DEF UnnamedEngineExcludes, Inherits
<1> QED
  BY <1>6, <1>7, <1>8, <1>9

(* Each command of acquire_lock and release_lock.                          *)
LEMMA LockStepSafe ==
    ASSUME IInv, LockHolds, NEW p \in Attempt, NEW l \in Locks,
           FlockAcquire(p, l) \/ LookAtDir(p, l) \/ CleanDir(p, l) \/ MakeDir(p, l)
             \/ RecordPid(p, l) \/ Release(p, l)
    PROVE  Safe'
<1> USE DEF IInv
<1>1. UNCHANGED <<env, engines, pidfile, stop>>
  BY DEF FlockAcquire, LookAtDir, CleanDir, MakeDir, RecordPid, Release
<1>2. at[p][1] = l /\ at[p] # Idle
  BY DEF FlockAcquire, LookAtDir, CleanDir, MakeDir, RecordPid, Release, Idle, Locks
<1>3. stop = "idle"
  BY <1>2 DEF Safe, StopAlone
<1>4. ASSUME PartEnds(p, l)
      PROVE  /\ \A q \in Attempt \ {p} : forked'[q] = forked[q]
             /\ \E x \in {Idle, <<"watchdog", "release">>} : at' = [at EXCEPT ![p] = x]
  BY <1>4 DEF PartEnds, ScriptEnds, WatchdogEnds, TypeOK
<1>5. /\ {Idle, <<"watchdog", "release">>} \cap Inside = {}
      /\ \A x \in {Idle, <<"watchdog", "release">>} : x[1] # "launch"
  BY DEF Inside, Idle
<1>6. CASE l = "watchdog"
  <2>1. lock'["launch"] = lock["launch"]
    BY <1>6 DEF FlockAcquire, LookAtDir, CleanDir, MakeDir, RecordPid, Release, TypeOK, Locks
  <2>2. at[p] \notin Inside \cup {<<"launch", "record">>}
    BY <1>2, <1>6 DEF Inside
  <2>3. CASE PartEnds(p, l)
    BY <1>1, <1>3, <1>4, <1>5, <2>1, <2>2, <2>3, Outside
  <2>4. ASSUME NEW c \in Acquiring, Goto(p, <<l, c>>) PROVE Safe'
    <3>1. <<l, c>> \notin Inside \cup {"launch"} \X Acquiring
      BY <1>6 DEF Inside
    <3> QED
      BY <1>1, <1>3, <2>1, <2>2, <2>4, <3>1, Outside DEF Goto, Acquiring
  <2>5. CASE Goto(p, Entered(l))
    <3>1. Entered(l) = <<"launch", "look">> /\ <<"launch", "look">> \notin Inside
      BY <1>6 DEF Entered, Inside, Critical
    <3> QED
      BY <1>1, <1>3, <2>1, <2>2, <2>5, <3>1, Outside DEF Goto
  <2> QED
    BY <2>3, <2>4, <2>5 DEF FlockAcquire, LookAtDir, CleanDir, MakeDir, RecordPid, Release, Acquiring
<1>7. CASE l = "launch"
  <2>1. Entered(l) = <<"launch", "check">> /\ l # "watchdog"
    BY <1>7 DEF Entered
  <2>2. ASSUME PartEnds(p, l), lock' = lock, at[p] \notin Inside \cup {<<"launch", "record">>}
        PROVE  Safe'
    BY <1>1, <1>3, <1>4, <1>5, <2>2, Outside
  <2>3. CASE FlockAcquire(p, l)
    <3>1. at[p] = <<"launch", "look">> /\ at[p] \notin Inside \cup {<<"launch", "record">>}
      BY <1>7, <2>3 DEF FlockAcquire, Inside, Critical
    <3>2. CASE lock[l] = Free
      <4>1. lock'["launch"] = p /\ Goto(p, Entered(l))
        BY <1>7, <2>3, <3>2 DEF FlockAcquire, TypeOK, Locks
      <4> QED
        BY <1>1, <1>7, <2>1, <3>1, <3>2, <4>1, Enters DEF Goto
    <3>3. CASE lock[l] # Free
      BY <2>2, <2>3, <3>1, <3>3 DEF FlockAcquire
    <3> QED
      BY <3>2, <3>3
  <2>4. CASE LookAtDir(p, l)
    <3>1. Goto(p, <<"launch", "make">>) /\ env.lock = "lockdir" /\ lock' = lock
      BY <1>7, <2>4, NeverStale DEF LookAtDir
    <3>2. at[p] \notin Inside \cup {<<"launch", "record">>} /\ <<"launch", "make">> \notin Inside
      BY <2>4, <1>7 DEF LookAtDir, Inside, Critical
    <3> QED
      BY <1>1, <1>3, <3>1, <3>2, Outside DEF Goto
  <2>5. ~CleanDir(p, l)
    BY <1>7 DEF CleanDir, Safe, LockOwned
  <2>6. CASE MakeDir(p, l)
    <3>1. at[p] \notin Inside \cup {<<"launch", "record">>}
      BY <1>7, <2>6 DEF MakeDir, Inside, Critical
    <3> QED
      BY <1>7, <2>2, <2>6, <3>1, Makes DEF MakeDir
  <2>7. CASE RecordPid(p, l)
    <3>1. /\ at[p] = <<"launch", "record">> /\ Goto(p, Entered(l))
          /\ lock["launch"] = NoPid /\ lock' = [lock EXCEPT !["launch"] = p]
      BY <1>7, <2>7, ProcessAssumption DEF RecordPid, Safe, LockOwned
    <3>2. lock'["launch"] = p
      BY <3>1 DEF TypeOK, Locks
    <3> QED
      BY <1>1, <2>1, <3>1, <3>2, Enters DEF Goto
  <2>8. CASE Release(p, l)
    <3>1. at[p] = <<"launch", "release">> /\ at[p] \in Inside /\ PartEnds(p, l)
      BY <1>7, <2>8 DEF Release, Inside
    <3>2. lock'["launch"] = Free
      BY <1>7, <2>8, <3>1, InsideAlone DEF Release, TypeOK, Locks
    <3> QED
      BY <1>1, <1>4, <3>1, <3>2, Leaves
  <2> QED
    BY <2>3, <2>4, <2>5, <2>6, <2>7, <2>8
<1> QED
  BY <1>6, <1>7 DEF Locks

(* A move inside the lock, if it leaves engines and pidfile in step.       *)
LEMMA Within ==
    ASSUME IInv, LockHolds, NEW p \in Attempt, at[p] \in Inside,
           NEW x \in Inside, at' = [at EXCEPT ![p] = x], at[p] # <<"launch", "release">>,
           UNCHANGED <<env, lock, stop>>,
           x = <<"launch", "fork">> => engines' = {},
           x \in {<<"launch", "write">>, <<"launch", "settle">>} => engines' \subseteq {forked'[p]},
           x = <<"launch", "settle">> => pidfile' = forked'[p],
           \A e \in engines' : pidfile' = e \/ (forked'[p] = e /\ x = <<"launch", "write">>),
           OneEngine'
    PROVE  Safe'
<1> USE ProcessAssumption DEF IInv, Safe
<1>1. /\ \A q \in Attempt \ {p} : at'[q] = at[q]
      /\ at'[p] = x
  BY DEF TypeOK
<1>2. /\ lock["launch"] = p /\ stop = "idle"
      /\ \A q \in Attempt \ {p} : at[q] \notin Inside \cup {<<"launch", "record">>}
  BY InsideAlone
<1>3. x \notin {"launch"} \X {"clean", "make", "record"}
  BY DEF Inside, Critical
<1>4. LockOwned'
  BY <1>1, <1>2, <1>3 DEF LockOwned, Inside
<1>5. CriticalSection'
  BY <1>1, <1>2 DEF CriticalSection, Inside, Critical
<1>6. StopAlone'
  BY <1>2 DEF StopAlone
<1>7. UnnamedEngineExcludes'
  BY <1>1, <1>2 DEF UnnamedEngineExcludes
<1> QED
  BY <1>4, <1>5, <1>6, <1>7

(* The commands between acquire_lock and release_lock.                     *)
LEMMA CriticalStepSafe ==
    ASSUME IInv, LockHolds, NEW p \in Attempt,
           CheckPidfile(p) \/ ForkEngine(p) \/ WritePidfile(p) \/ Settle(p)
    PROVE  Safe'
<1> USE DEF IInv
<1>1. /\ \A c \in Critical \cup {"release"} : <<"launch", c>> \in Inside
      /\ <<"launch", "release">> \notin
            {<<"launch", "fork">>, <<"launch", "write">>, <<"launch", "settle">>}
      /\ <<"launch", "fork">> \notin {<<"launch", "write">>, <<"launch", "settle">>}
      /\ <<"launch", "settle">> # <<"launch", "fork">>
  BY DEF Inside
<1>2. at[p] \in Inside /\ at[p] # <<"launch", "release">>
  BY <1>1 DEF CheckPidfile, ForkEngine, WritePidfile, Settle, Critical
<1>3. \A e \in engines : pidfile = e \/ (forked[p] = e /\ at[p] = <<"launch", "write">>)
  BY <1>2, InsideAlone
<1>4. UNCHANGED <<env, lock, stop>>
  BY DEF CheckPidfile, ForkEngine, WritePidfile, Settle
<1>5. CASE CheckPidfile(p)
  <2>1. at[p] = <<"launch", "check">> /\ engines' = engines /\ forked' = forked
    BY <1>5 DEF CheckPidfile, Goto
  <2>2. OneEngine'
    BY <1>4, <2>1 DEF Safe, OneEngine
  <2>3. CASE EngineAlive
    <3>1. at' = [at EXCEPT ![p] = <<"launch", "release">>] /\ pidfile' = pidfile
      BY <1>5, <2>3 DEF CheckPidfile, Goto
    <3>2. \A e \in engines : pidfile = e
      BY <1>3, <2>1
    <3> DEFINE x == <<"launch", "release">>
    <3>3. x \in Inside /\ x \notin {<<"launch", "fork">>, <<"launch", "write">>, <<"launch", "settle">>}
      BY <1>1
    <3> HIDE DEF x
    <3> QED
      BY <1>2, <1>4, <2>1, <2>2, <3>1, <3>2, <3>3, Within DEF x
  <2>4. CASE ~EngineAlive
    <3>1. at' = [at EXCEPT ![p] = <<"launch", "fork">>]
      BY <1>5, <2>4 DEF CheckPidfile, Goto
    <3>2. engines = {}
      BY <1>3, <2>1, <2>4 DEF EngineAlive
    <3> QED
      BY <1>1, <1>2, <1>4, <2>1, <2>2, <3>1, <3>2, Within DEF Critical
  <2> QED
    BY <2>3, <2>4
<1>6. CASE ForkEngine(p)
  <2>1. PICK e \in Engine : engines' = engines \cup {e} /\ forked' = [forked EXCEPT ![p] = e]
    BY <1>6 DEF ForkEngine
  <2>2. engines = {}
    BY <1>6 DEF ForkEngine, Safe, CriticalSection
  <2>3. engines' = {e} /\ forked'[p] = e /\ OneEngine'
    BY <2>1, <2>2 DEF TypeOK, OneEngine
  <2>4. at' = [at EXCEPT ![p] = <<"launch", "write">>]
    BY <1>6 DEF ForkEngine
  <2> QED
    BY <1>1, <1>2, <1>4, <2>3, <2>4, Within DEF Critical
<1>7. CASE WritePidfile(p)
  <2>1. /\ at' = [at EXCEPT ![p] = <<"launch", "settle">>]
        /\ engines' = engines /\ forked' = forked /\ pidfile' = forked[p]
    BY <1>7 DEF WritePidfile, Goto
  <2>2. engines \subseteq {forked[p]}
    BY <1>7 DEF WritePidfile, Safe, CriticalSection
  <2>3. OneEngine'
    BY <1>4, <2>1 DEF Safe, OneEngine
  <2>4. /\ engines' \subseteq {forked'[p]} /\ pidfile' = forked'[p]
        /\ \A e \in engines' : pidfile' = e
    BY <2>1, <2>2
  <2>5. <<"launch", "settle">> \in Inside
    BY <1>1 DEF Critical
  <2> QED
    BY <1>1, <1>2, <1>4, <2>1, <2>3, <2>4, <2>5, Within
<1>8. CASE Settle(p)
  <2>1. /\ at' = [at EXCEPT ![p] = <<"launch", "release">>] /\ engines' = engines
        /\ pidfile' = IF forked[p] \in engines THEN pidfile ELSE NoEngine
    BY <1>8 DEF Settle
  <2>2. engines \subseteq {forked[p]} /\ pidfile = forked[p]
    BY <1>8 DEF Settle, Safe, CriticalSection
  <2>3. OneEngine'
    BY <1>4, <2>1 DEF Safe, OneEngine
  <2>4. \A e \in engines' : pidfile' = e
    BY <2>1, <2>2
  <2> DEFINE x == <<"launch", "release">>
  <2>5. x \in Inside /\ x \notin {<<"launch", "fork">>, <<"launch", "write">>, <<"launch", "settle">>}
    BY <1>1
  <2> HIDE DEF x
  <2> QED
    BY <1>2, <1>4, <2>1, <2>3, <2>4, <2>5, Within DEF x
<1> QED
  BY <1>5, <1>6, <1>7, <1>8

(* Scripts start, and are killed: by the lock's kind, with an engine that  *)
(* inherits it, or not at all.                                             *)
LEMMA StartOrKillSafe ==
    ASSUME IInv, LockHolds, NEW p \in Attempt,
           WatchdogTick(p) \/ RunByHand(p) \/ KillScript(p) \/ KillWatchdog(p)
    PROVE  Safe'
<1> USE DEF IInv
<1>1. UNCHANGED <<env, engines, pidfile, stop>>
  BY DEF WatchdogTick, RunByHand, Goto, KillScript, KillWatchdog
<1>2. /\ Idle \notin Inside \cup {<<"launch", "record">>, <<"launch", "clean">>, <<"launch", "make">>}
      /\ \A c \in {"look", "release"} : <<"watchdog", c>> \notin
            Inside \cup {<<"launch", "record">>, <<"launch", "clean">>, <<"launch", "make">>}
      /\ <<"launch", "look">> \notin
            Inside \cup {<<"launch", "record">>, <<"launch", "clean">>, <<"launch", "make">>}
  BY DEF Idle, Inside, Critical
<1>3. CASE WatchdogTick(p)
  <2>1. /\ at[p] = Idle /\ stop = "idle" /\ lock' = lock /\ forked' = forked
        /\ at' = [at EXCEPT ![p] = <<"watchdog", "look">>]
    BY <1>3 DEF WatchdogTick, NoStopInTheWay, LockHolds
  <2> QED
    BY <1>1, <1>2, <2>1, Outside
<1>4. CASE RunByHand(p)
  <2>1. /\ at[p] = Idle /\ stop = "idle" /\ lock' = lock /\ forked' = forked
        /\ at' = [at EXCEPT ![p] = <<"launch", "look">>]
    BY <1>4 DEF RunByHand, Goto, NoStopInTheWay, LockHolds
  <2> QED
    BY <1>1, <1>2, <2>1, Outside
<1>5. CASE KillScript(p)
  <2>1. PICK x \in {Idle, <<"watchdog", "release">>} : at' = [at EXCEPT ![p] = x]
    BY <1>5 DEF KillScript, ScriptEnds
  <2>2. /\ \A q \in Attempt \ {p} : forked'[q] = forked[q]
        /\ env.lock = "flock" /\ stop = "idle" /\ at[p] # Idle
    BY <1>5 DEF KillScript, ScriptEnds, TypeOK, LockHolds, Safe, StopAlone, Idle
  <2>3. lock'["launch"] = IF lock["launch"] = p THEN Inherits(p) ELSE lock["launch"]
    BY <1>5, <2>2 DEF KillScript, TypeOK, Locks
  <2>4. CASE at[p] \in Inside
    BY <1>1, <2>1, <2>2, <2>3, <2>4, InsideAlone, Leaves
  <2>5. CASE at[p] \notin Inside
    <3>1. lock["launch"] # p /\ at[p] # <<"launch", "record">>
      BY <2>2, <2>5 DEF Safe, LockOwned
    <3> QED
      BY <1>1, <1>2, <2>1, <2>2, <2>3, <2>5, <3>1, Outside
  <2> QED
    BY <2>4, <2>5
<1>6. CASE KillWatchdog(p)
  <2>1. lock'["launch"] = lock["launch"] /\ forked' = forked
    BY <1>6 DEF KillWatchdog, TypeOK, Locks
  <2>2. CASE at[p][1] = "watchdog"
    <3>1. /\ at' = [at EXCEPT ![p] = Idle] /\ stop = "idle"
          /\ at[p] \notin Inside \cup {<<"launch", "record">>}
      BY <1>6, <2>2 DEF KillWatchdog, Inside, Safe, StopAlone, Idle
    <3> QED
      BY <1>1, <1>2, <2>1, <3>1, Outside
  <2>3. CASE at[p][1] # "watchdog"
    <3>1. at' = at
      BY <1>6, <2>3 DEF KillWatchdog, TypeOK
    <3>2. LockOwned'
      BY <1>1, <2>1, <3>1 DEF Safe, LockOwned, Inside
    <3>3. CriticalSection' /\ StopAlone' /\ OneEngine'
      BY <1>1, <2>1, <3>1 DEF Safe, CriticalSection, StopAlone, OneEngine
    <3>4. UnnamedEngineExcludes'
      BY <1>1, <2>1, <3>1 DEF Safe, UnnamedEngineExcludes
    <3> QED
      BY <3>2, <3>3, <3>4 DEF Safe
  <2> QED
    BY <2>2, <2>3
<1> QED
  BY <1>3, <1>4, <1>5, <1>6

(* Engines die, by themselves or by the stop script.                       *)
LEMMA EnginesGo ==
    ASSUME IInv, LockHolds, NEW gone \in SUBSET Engine,
           engines' = engines \ gone, lock' = ReleasedBy(gone \cap engines),
           \/ stop' = stop
           \/ /\ \A p \in Attempt : at[p] = Idle
              /\ stop' \in {"look", "remove", "sentinel"} => engines' = {}
              /\ stop' = "unlink" => pidfile \notin engines',
           UNCHANGED <<env, at, forked, pidfile>>
    PROVE  Safe'
<1> USE ProcessAssumption DEF IInv, Safe
<1>1. lock'["launch"] = IF lock["launch"] \in gone \cap engines THEN Free ELSE lock["launch"]
  BY DEF ReleasedBy, Locks
<1>2. LockOwned'
  <2>1. \A p \in Attempt : at[p] \in Inside => lock'["launch"] = p
    BY <1>1 DEF LockOwned, TypeOK
  <2>2. \A p \in Attempt : at[p] = <<"launch", "record">> => lock'["launch"] = NoPid
    BY <1>1 DEF LockOwned, TypeOK
  <2>3. /\ lock'["launch"] \in Attempt => at[lock'["launch"]] \in Inside
        /\ lock'["launch"] # OldNoPid
        /\ lock'["launch"] = NoPid => \E p \in Attempt : at[p] = <<"launch", "record">>
        /\ lock'["launch"] \in Engine => env.lock = "flock" /\ lock'["launch"] \in engines'
    BY <1>1 DEF LockOwned
  <2> QED
    BY <2>1, <2>2, <2>3 DEF LockOwned, Inside
<1>3. CriticalSection'
  BY DEF CriticalSection
<1>4. StopAlone' /\ OneEngine'
  BY DEF StopAlone, OneEngine, LockHolds, Allowed
<1>5. ASSUME NEW e \in engines'
      PROVE  \/ pidfile = e
             \/ lock'["launch"] = e
             \/ \E p \in Attempt : /\ forked[p] = e /\ at[p] = <<"launch", "write">>
                                  /\ lock'["launch"] = p
  <2>1. e \in engines /\ e \notin gone
    BY <1>5
  <2>2. \A p \in Attempt : p \notin gone
    OBVIOUS
  <2> QED
    BY <1>1, <2>1, <2>2 DEF UnnamedEngineExcludes
<1>6. UnnamedEngineExcludes'
  BY <1>5 DEF UnnamedEngineExcludes
<1> QED
  BY <1>2, <1>3, <1>4, <1>6

(* The stop script, where it has launchers out of its way.                 *)
LEMMA StopSafe == ASSUME IInv, LockHolds, StopPidfile \/ StopStep PROVE Safe'
<1> USE DEF IInv
<1>1. UNCHANGED <<env, at, forked>>
  BY DEF StopPidfile, StopStep, StopUnlink, StopFallback, StopLook, StopRemove, StopSentinel
<1>2. \A p \in Attempt : at[p] = Idle
  BY DEF StopPidfile, StopStep, StopUnlink, StopFallback, StopLook, StopRemove, StopSentinel,
     Safe, StopAlone, LockHolds
<1>3. \A p \in Attempt : at[p] \notin Inside \cup {<<"launch", c>> : c \in Acquiring}
  BY <1>2 DEF Inside, Idle
<1>4. lock["launch"] \in {Free} \cup engines
  <2>1. lock["launch"] \in LockValues
    BY DEF TypeOK, Locks
  <2>2. \A p \in Attempt : at[p] # <<"launch", "record">>
    BY <1>3 DEF Acquiring
  <2> QED
    BY <1>3, <2>1, <2>2 DEF Safe, LockOwned, LockValues
<1>5. CASE StopPidfile
  BY <1>1, <1>2, <1>5, EnginesGo DEF StopPidfile, TypeOK
<1>6. CASE StopFallback
  BY <1>1, <1>2, <1>6, EnginesGo DEF StopFallback, TypeOK
<1>7. CASE StopUnlink
  <2>1. /\ pidfile \notin engines /\ pidfile' = NoEngine /\ stop' = "fallback"
        /\ engines' = engines /\ lock' = lock
    BY <1>7 DEF StopUnlink, Safe, StopAlone
  <2> QED
    BY <1>1, <1>2, <1>3, <2>1 DEF Safe, LockOwned, CriticalSection, StopAlone, OneEngine,
       UnnamedEngineExcludes, LockHolds, Allowed, Idle
<1>8. CASE StopLook \/ StopRemove \/ StopSentinel
  <2>1. /\ engines = {} /\ engines' = {} /\ lock["launch"] = Free /\ lock'["launch"] = Free
        /\ pidfile' = pidfile /\ stop' \in {"remove", "sentinel", "idle"}
    BY <1>4, <1>8 DEF StopLook, StopRemove, StopSentinel, Safe, StopAlone, TypeOK, Locks
  <2>2. LockOwned'
    BY <1>1, <1>3, <2>1, ProcessAssumption DEF Safe, LockOwned, Inside, Acquiring
  <2>3. CriticalSection' /\ StopAlone' /\ OneEngine' /\ UnnamedEngineExcludes'
    BY <1>1, <1>2, <2>1 DEF CriticalSection, StopAlone, OneEngine, UnnamedEngineExcludes, Idle
  <2> QED
    BY <2>2, <2>3 DEF Safe
<1> QED
  BY <1>5, <1>6, <1>7, <1>8 DEF StopStep

(* Directories age, the market opens and closes.                           *)
LEMMA TimeSafe ==
    ASSUME IInv, LockHolds, (\E l \in Locks : LockDirAges(l)) \/ MarketOpensOrCloses
    PROVE  Safe'
<1> USE DEF IInv
<1>1. UNCHANGED <<env, at, forked, engines, pidfile, stop>>
  BY DEF LockDirAges, MarketOpensOrCloses
<1>2. lock'["launch"] = lock["launch"]
  <2>1. ~LockDirAges("launch")
    BY DEF LockDirAges, Safe, LockOwned
  <2> QED
    BY <2>1 DEF LockDirAges, MarketOpensOrCloses, TypeOK, Locks
<1>3. LockOwned'
  BY <1>1, <1>2 DEF Safe, LockOwned, Inside
<1>4. CriticalSection' /\ StopAlone' /\ OneEngine'
  BY <1>1 DEF Safe, CriticalSection, StopAlone, OneEngine
<1>5. UnnamedEngineExcludes'
  BY <1>1, <1>2 DEF Safe, UnnamedEngineExcludes
<1> QED
  BY <1>3, <1>4, <1>5 DEF Safe

(* The invariant is inductive.                                             *)
LEMMA InitSafe == Init => Safe
<1> SUFFICES ASSUME Init PROVE Safe
  OBVIOUS
<1> USE ProcessAssumption DEF Init
<1>1. \A p \in Attempt : at[p] = Idle
  OBVIOUS
<1>2. lock["launch"] = Free
  BY DEF Locks
<1>3. LockOwned
  BY <1>1, <1>2 DEF LockOwned, Inside, Idle
<1>4. CriticalSection /\ StopAlone /\ OneEngine /\ UnnamedEngineExcludes
  BY <1>1 DEF CriticalSection, StopAlone, OneEngine, UnnamedEngineExcludes, Idle
<1> QED
  BY <1>3, <1>4 DEF Safe

(* Every step keeps it: where the lock holds, it has held all along.       *)
LEMMA NextSafe == IInv /\ [Next]_vars => Safe'
<1> SUFFICES ASSUME IInv, [Next]_vars, LockHolds' PROVE Safe'
  BY DEF Safe
<1>1. env' = env
  BY DEF Next, vars, AttemptStep, FlockAcquire, LookAtDir, CleanDir, MakeDir, RecordPid, Release,
     CheckPidfile, ForkEngine, WritePidfile, Settle, WatchdogTick, RunByHand, KillScript,
     KillWatchdog, StopPidfile, StopStep, StopUnlink, StopFallback, StopLook, StopRemove,
     StopSentinel, EngineDies, LockDirAges, MarketOpensOrCloses
<1>2. LockHolds
  BY <1>1 DEF LockHolds, Allowed
<1>3. CASE UNCHANGED vars
  <2>1. LockOwned'
    BY <1>2, <1>3 DEF vars, IInv, Safe, LockOwned, Inside
  <2>2. CriticalSection' /\ StopAlone' /\ OneEngine'
    BY <1>2, <1>3 DEF vars, IInv, Safe, CriticalSection, StopAlone, OneEngine
  <2>3. UnnamedEngineExcludes'
    BY <1>2, <1>3 DEF vars, IInv, Safe, UnnamedEngineExcludes
  <2> QED
    BY <2>1, <2>2, <2>3 DEF Safe
<1>4. ASSUME NEW e \in Engine, EngineDies(e) PROVE Safe'
  BY <1>2, <1>4, EnginesGo DEF EngineDies
<1>5. CASE Next
  BY <1>2, <1>4, <1>5, LockStepSafe, CriticalStepSafe, StartOrKillSafe, StopSafe, TimeSafe
     DEF Next, AttemptStep
<1> QED
  BY <1>3, <1>5

(* Ownership of the lock, the commands' assumptions and the safety         *)
(* properties hold together in every behaviour.                            *)
THEOREM Inductive == Spec => []IInv
BY InitTyped, InitSafe, NextTyped, NextSafe, PTL DEF Spec, IInv

-----------------------------------------------------------------------------
(* The theorems.                                                           *)

(* Where the launch lock holds two engines never run at once.              *)
THEOREM NoSecondEngine == Spec => []OneEngine
<1>1. IInv => OneEngine
  BY DEF IInv, Safe, OneEngine
<1> QED
  BY <1>1, Inductive, PTL

(* An engine that the pidfile does not name keeps launchers out.           *)
THEOREM UnnamedExcludes == Spec => []UnnamedEngineExcludes
<1>1. IInv => UnnamedEngineExcludes
  BY DEF IInv, Safe, UnnamedEngineExcludes
<1> QED
  BY <1>1, Inductive, PTL

(* In each step the pidfile of an engine that lives on stays.              *)
LEMMA PidfileStep ==
    ASSUME IInv, [Next]_vars, LockHolds, pidfile \in engines, pidfile \in engines'
    PROVE  pidfile' = pidfile
<1> USE DEF IInv, Safe
<1>1. ASSUME NEW p \in Attempt, WritePidfile(p) \/ Settle(p) PROVE pidfile' = pidfile
  <2>1. engines \subseteq {forked[p]}
    BY <1>1 DEF WritePidfile, Settle, CriticalSection
  <2> QED
    BY <1>1, <2>1 DEF WritePidfile, Settle
<1>2. ASSUME NEW p \in Attempt, CheckPidfile(p) PROVE pidfile' = pidfile
  BY <1>2 DEF CheckPidfile, EngineAlive
<1>3. ~StopUnlink
  BY DEF StopUnlink, StopAlone
<1> QED
  BY <1>1, <1>2, <1>3
     DEF Next, vars, AttemptStep, FlockAcquire, LookAtDir, CleanDir, MakeDir, RecordPid, Release,
     ForkEngine, WatchdogTick, RunByHand, KillScript, KillWatchdog, StopPidfile, StopStep,
     StopFallback, StopLook, StopRemove, StopSentinel, EngineDies, LockDirAges, MarketOpensOrCloses

(* The pidfile of a live engine is neither removed nor overwritten.        *)
THEOREM PidfileSurvives == Spec => PidfileKept
<1>1. IInv /\ [Next]_vars =>
          [LockHolds /\ pidfile \in engines /\ pidfile \in engines' => pidfile' = pidfile]_vars
  BY PidfileStep
<1> QED
  BY <1>1, Inductive, PTL DEF Spec, PidfileKept
=============================================================================
