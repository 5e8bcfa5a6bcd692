------------------------------ MODULE Launcher ------------------------------
(***************************************************************************)
(* The scripts that start, restart and stop the engine: the watchdog that  *)
(* cron runs every five minutes, the run script it calls (or a person      *)
(* does), and the stop script.  Each is a process of its own; they share   *)
(* lock files, the pidfile and the exit sentinel, and test whether a       *)
(* process lives with kill -0.                                             *)
(*                                                                         *)
(* An attempt is one watchdog tick together with the run script it starts, *)
(* or a run script started by hand.  Either part can be killed alone.  A   *)
(* step is one command that reads or writes a shared file, or a test and   *)
(* the command that follows from it where nothing lies between.            *)
(*                                                                         *)
(* An attempt's or an engine's process id is not used again while a file   *)
(* names it.  Bounds: Attempt and Engine are finite, at most MaxKills      *)
(* scripts are killed.                                                     *)
(***************************************************************************)
EXTENDS Integers, FiniteSets

CONSTANTS
    Attempt,        \* process ids of scripts
    Engine,         \* process ids of engines
    Free,           \* no lock, no lock directory
    NoPid,          \* a lock directory without a pid file
    OldNoPid,       \* the same, older than LOCK_STALE_SECS
    NoEngine,       \* no pidfile; an attempt that has forked nothing
    Environments,   \* what the host is like: see Init
    MaxKills

(* An environment has a kind of lock ("flock" where flock(1) is installed, *)
(* else "lockdir") and faults:                                             *)
(* kill     SIGKILL of a script                                            *)
(* byhand   the run script is started without the watchdog                 *)
(* overlap  the stop script runs while a launch is under way               *)
LockKinds == {"flock", "lockdir"}
FaultKinds == {"kill", "byhand", "overlap"}
ASSUME EnvironmentAssumption ==
    /\ Environments \subseteq [lock : LockKinds, faults : SUBSET FaultKinds]
    /\ MaxKills \in Nat
ASSUME ProcessAssumption ==
    /\ Attempt \cap Engine = {}
    /\ {Free, NoPid, OldNoPid} \cap (Attempt \cup Engine) = {}
    /\ Free # NoPid /\ Free # OldNoPid /\ NoPid # OldNoPid
    /\ NoEngine \notin Engine

VARIABLES
    env,        \* the environment, fixed
    market,     \* is_market_open and the time check
    at,         \* per attempt: <<lock or script, next command>>
    watched,    \* per attempt: a live watchdog waits for it
    forked,     \* per attempt: NEW_PID
    lock,       \* the watchdog's and the run script's lock file or directory
    engines,    \* live run.py processes
    pidfile,    \* run.pid
    sentinel,   \* /tmp/ibkr-engine.last_exit: exit code, "none" if missing
    stop,       \* the stop script's next command
    kills       \* scripts killed so far

vars == <<env, market, at, watched, forked, lock, engines, pidfile, sentinel, stop, kills>>

Locks == {"watchdog", "launch"}
Idle == <<"none", "idle">>
Acquiring == {"look", "clean", "make", "record"}
Critical == {"check", "fork", "write", "settle"}
Places == {Idle} \cup (Locks \X (Acquiring \cup {"release"})) \cup ({"launch"} \X Critical)
StopPlaces == {"idle", "unlink", "fallback", "look", "remove", "sentinel"}
LockValues == Attempt \cup Engine \cup {Free, NoPid, OldNoPid}

Init ==
    /\ env \in Environments
    /\ market = "closed"
    /\ at = [p \in Attempt |-> Idle]
    /\ watched = [p \in Attempt |-> FALSE]
    /\ forked = [p \in Attempt |-> NoEngine]
    /\ lock = [l \in Locks |-> Free]
    /\ engines = {}
    /\ pidfile = NoEngine
    /\ sentinel = "none"
    /\ stop = "idle"
    /\ kills = 0

Allowed(fault) == fault \in env.faults

(* kill -0 on the pid that a lock directory records.                       *)
Alive(p, l) == IF l = "watchdog" THEN watched[p] ELSE at[p][1] = "launch"
EngineAlive == pidfile \in engines

-----------------------------------------------------------------------------
(* acquire_lock, which watchdog and run script each have a copy of, with   *)
(* different paths.                                                        *)

(* What an attempt does next once it has the lock: the watchdog starts the *)
(* run script, the run script enters its critical section.                 *)
Entered(l) == IF l = "watchdog" THEN <<"launch", "look">> ELSE <<"launch", "check">>

(* The run script ends; its watchdog, if it lives, goes on to release.     *)
ScriptEnds(p) ==
    /\ at' = [at EXCEPT ![p] = IF watched[p] THEN <<"watchdog", "release">> ELSE Idle]
    /\ forked' = [forked EXCEPT ![p] = NoEngine]
    /\ UNCHANGED watched
WatchdogEnds(p) ==
    /\ at' = [at EXCEPT ![p] = Idle]
    /\ watched' = [watched EXCEPT ![p] = FALSE]
    /\ UNCHANGED forked
PartEnds(p, l) == IF l = "launch" THEN ScriptEnds(p) ELSE WatchdogEnds(p)
Goto(p, place) == at' = [at EXCEPT ![p] = place] /\ UNCHANGED <<watched, forked>>

(* flock -n: the lock or "another invocation holds it", exit 0.            *)
FlockAcquire(p, l) ==
    /\ env.lock = "flock" /\ at[p] = <<l, "look">>
    /\ \/ /\ lock[l] = Free
          /\ lock' = [lock EXCEPT ![l] = p]
          /\ Goto(p, Entered(l))
       \/ /\ lock[l] # Free
          /\ PartEnds(p, l)
          /\ UNCHANGED lock
    /\ UNCHANGED <<env, market, engines, pidfile, sentinel, stop, kills>>

(* Mutant of Stale: only a directory without a pid file is ever stale.     *)
Stale_ByAge(l) == lock[l] = OldNoPid
(* The holder is gone: the recorded pid is dead, or none was ever recorded *)
(* and the directory is old.                                               *)
Stale(l) == lock[l] = OldNoPid \/ (lock[l] \in Attempt /\ ~Alive(lock[l], l))

LookAtDir(p, l) ==
    /\ env.lock = "lockdir" /\ at[p] = <<l, "look">>
    /\ Goto(p, <<l, IF Stale(l) THEN "clean" ELSE "make">>)
    /\ UNCHANGED <<env, market, lock, engines, pidfile, sentinel, stop, kills>>

(* rm -f pid; rmdir: removes whatever directory is there now.              *)
CleanDir(p, l) ==
    /\ at[p] = <<l, "clean">>
    /\ lock' = [lock EXCEPT ![l] = Free]
    /\ Goto(p, <<l, "make">>)
    /\ UNCHANGED <<env, market, engines, pidfile, sentinel, stop, kills>>

MakeDir(p, l) ==
    /\ at[p] = <<l, "make">>
    /\ \/ /\ lock[l] = Free
          /\ lock' = [lock EXCEPT ![l] = NoPid]
          /\ Goto(p, <<l, "record">>)
       \/ /\ lock[l] # Free
          /\ PartEnds(p, l)
          /\ UNCHANGED lock
    /\ UNCHANGED <<env, market, engines, pidfile, sentinel, stop, kills>>

(* echo $$ > pid, which fails silently when the directory has gone.        *)
RecordPid(p, l) ==
    /\ at[p] = <<l, "record">>
    /\ lock' = [lock EXCEPT ![l] = IF @ = Free THEN Free ELSE p]
    /\ Goto(p, Entered(l))
    /\ UNCHANGED <<env, market, engines, pidfile, sentinel, stop, kills>>

(* flock -u of its own descriptor, or the EXIT trap, which removes the     *)
(* directory without looking whose it is.                                  *)
Release(p, l) ==
    /\ at[p] = <<l, "release">>
    /\ lock' = [lock EXCEPT ![l] = IF env.lock = "lockdir" \/ @ = p THEN Free ELSE @]
    /\ PartEnds(p, l)
    /\ UNCHANGED <<env, market, engines, pidfile, sentinel, stop, kills>>

-----------------------------------------------------------------------------
(* The watchdog's tick and the run script's critical section.              *)

Unreferenced(p) == \A l \in Locks : lock[l] # p
NoStopInTheWay == stop = "idle" \/ Allowed("overlap")

(* should_backoff_duplicate: only exit code 2 holds a restart back.        *)
ShouldBackOff == sentinel = "2"

WatchdogTick(p) ==
    /\ at[p] = Idle /\ Unreferenced(p) /\ NoStopInTheWay
    /\ ~EngineAlive /\ market = "open" /\ ~ShouldBackOff
    /\ at' = [at EXCEPT ![p] = <<"watchdog", "look">>]
    /\ watched' = [watched EXCEPT ![p] = TRUE]
    /\ UNCHANGED <<env, market, forked, lock, engines, pidfile, sentinel, stop, kills>>

RunByHand(p) ==
    /\ Allowed("byhand")
    /\ at[p] = Idle /\ Unreferenced(p) /\ NoStopInTheWay
    /\ Goto(p, <<"launch", "look">>)
    /\ UNCHANGED <<env, market, lock, engines, pidfile, sentinel, stop, kills>>

(* Mutant of CheckPidfile: the pid in the file is not tested.              *)
CheckPidfile_Untested(p) ==
    /\ at[p] = <<"launch", "check">>
    /\ Goto(p, <<"launch", "fork">>)
    /\ pidfile' = NoEngine
    /\ UNCHANGED <<env, market, lock, engines, sentinel, stop, kills>>
(* A live pidfile ends the script; a stale one is removed.                 *)
CheckPidfile(p) ==
    /\ at[p] = <<"launch", "check">>
    /\ \/ /\ EngineAlive
          /\ Goto(p, <<"launch", "release">>)
          /\ UNCHANGED pidfile
       \/ /\ ~EngineAlive
          /\ Goto(p, <<"launch", "fork">>)
          /\ pidfile' = NoEngine
    /\ UNCHANGED <<env, market, lock, engines, sentinel, stop, kills>>

ForkEngine(p) ==
    /\ at[p] = <<"launch", "fork">>
    /\ \E e \in Engine \ engines :
          /\ e # pidfile /\ \A q \in Attempt : forked[q] # e
          /\ e \notin {lock[l] : l \in Locks}
          /\ engines' = engines \cup {e}
          /\ forked' = [forked EXCEPT ![p] = e]
    /\ at' = [at EXCEPT ![p] = <<"launch", "write">>]
    /\ UNCHANGED <<env, market, watched, lock, pidfile, sentinel, stop, kills>>

(* spawn_exit_reaper waits in a subshell for a process that is not the     *)
(* subshell's child: wait returns 127 at once, and 127 is what it writes.  *)
ReaperCode == "127"

(* Mutant of WritePidfile: no health check follows.                        *)
WritePidfile_Trusting(p) ==
    /\ at[p] = <<"launch", "write">>
    /\ pidfile' = forked[p] /\ sentinel' = ReaperCode
    /\ Goto(p, <<"launch", "release">>)
    /\ UNCHANGED <<env, market, lock, engines, stop, kills>>
WritePidfile(p) ==
    /\ at[p] = <<"launch", "write">>
    /\ pidfile' = forked[p]
    /\ sentinel' = ReaperCode
    /\ Goto(p, <<"launch", "settle">>)
    /\ UNCHANGED <<env, market, lock, engines, stop, kills>>

(* Mutant of Settle: the pidfile is removed when the engine lives.         *)
Settle_Inverted(p) ==
    /\ at[p] = <<"launch", "settle">>
    /\ pidfile' = IF forked[p] \in engines THEN NoEngine ELSE pidfile
    /\ at' = [at EXCEPT ![p] = <<"launch", "release">>]
    /\ forked' = [forked EXCEPT ![p] = NoEngine]
    /\ UNCHANGED <<env, market, watched, lock, engines, sentinel, stop, kills>>
(* Two seconds later: an engine that has died takes its pidfile along.     *)
Settle(p) ==
    /\ at[p] = <<"launch", "settle">>
    /\ pidfile' = IF forked[p] \in engines THEN pidfile ELSE NoEngine
    /\ at' = [at EXCEPT ![p] = <<"launch", "release">>]
    /\ forked' = [forked EXCEPT ![p] = NoEngine]
    /\ UNCHANGED <<env, market, watched, lock, engines, sentinel, stop, kills>>

AttemptStep(p) ==
    \/ \E l \in Locks :
          FlockAcquire(p, l) \/ LookAtDir(p, l) \/ CleanDir(p, l) \/ MakeDir(p, l)
            \/ RecordPid(p, l) \/ Release(p, l)
    \/ CheckPidfile(p) \/ ForkEngine(p) \/ WritePidfile(p) \/ Settle(p)

-----------------------------------------------------------------------------
(* stop-ibkr-engine.sh.                                                    *)

(* A lock file stays locked while a process has it open, so an engine that *)
(* dies lets go of what it inherited.                                      *)
ReleasedBy(gone) == [l \in Locks |-> IF lock[l] \in gone THEN Free ELSE lock[l]]

(* The pidfile is read and a live engine it names is killed (TERM, then    *)
(* KILL); the fallback kills every engine there is.                        *)
StopPidfile ==
    /\ stop = "idle"
    /\ Allowed("overlap") \/ \A p \in Attempt : at[p] = Idle
    /\ engines' = engines \ {pidfile}
    /\ lock' = ReleasedBy({pidfile} \cap engines)
    /\ stop' = IF pidfile = NoEngine THEN "fallback" ELSE "unlink"
    /\ UNCHANGED <<env, market, at, watched, forked, pidfile, sentinel, kills>>
StopUnlink ==
    /\ stop = "unlink"
    /\ pidfile' = NoEngine /\ stop' = "fallback"
    /\ UNCHANGED <<env, market, at, watched, forked, lock, engines, sentinel, kills>>
StopFallback ==
    /\ stop = "fallback"
    /\ engines' = {} /\ lock' = ReleasedBy(engines) /\ stop' = "look"
    /\ UNCHANGED <<env, market, at, watched, forked, pidfile, sentinel, kills>>

(* cleanup_launch_state: may the run script's lock be removed?  A lock     *)
(* directory, unless its recorded holder lives; a lock file nobody holds.  *)
Removable ==
    IF env.lock = "flock" THEN lock["launch"] = Free
    ELSE lock["launch"] \in Attempt => ~Alive(lock["launch"], "launch")

StopLook ==
    /\ stop = "look"
    /\ stop' = IF Removable THEN "remove" ELSE "sentinel"
    /\ UNCHANGED <<env, market, at, watched, forked, lock, engines, pidfile, sentinel, kills>>
(* A lock on a file that has been unlinked keeps nobody out.               *)
StopRemove ==
    /\ stop = "remove"
    /\ lock' = [lock EXCEPT !["launch"] = Free] /\ stop' = "sentinel"
    /\ UNCHANGED <<env, market, at, watched, forked, engines, pidfile, sentinel, kills>>
StopSentinel ==
    /\ stop = "sentinel"
    /\ sentinel' = "none" /\ stop' = "idle"
    /\ UNCHANGED <<env, market, at, watched, forked, lock, engines, pidfile, kills>>

StopStep == StopUnlink \/ StopFallback \/ StopLook \/ StopRemove \/ StopSentinel

-----------------------------------------------------------------------------
(* What else happens.                                                      *)

EngineDies(e) ==
    /\ e \in engines
    /\ engines' = engines \ {e}
    /\ lock' = ReleasedBy({e})
    /\ UNCHANGED <<env, market, at, watched, forked, pidfile, sentinel, stop, kills>>

(* Mutant of Inherits: the engine is started with descriptor 9 closed.     *)
Inherits_Closed(p) == Free
(* SIGKILL runs no trap.  A lock directory stays; a file lock passes to    *)
(* the engine the script forked, which has its descriptor, or is free.     *)
Inherits(p) == IF forked[p] \in engines THEN forked[p] ELSE Free
KillScript(p) ==
    /\ Allowed("kill") /\ kills < MaxKills
    /\ at[p][1] = "launch"
    /\ lock' = [lock EXCEPT !["launch"] = IF env.lock = "flock" /\ @ = p THEN Inherits(p) ELSE @]
    /\ ScriptEnds(p)
    /\ kills' = kills + 1
    /\ UNCHANGED <<env, market, engines, pidfile, sentinel, stop>>
KillWatchdog(p) ==
    /\ Allowed("kill") /\ kills < MaxKills
    /\ watched[p]
    /\ lock' = [lock EXCEPT !["watchdog"] = IF env.lock = "flock" /\ @ = p THEN Free ELSE @]
    /\ at' = [at EXCEPT ![p] = IF @[1] = "watchdog" THEN Idle ELSE @]
    /\ watched' = [watched EXCEPT ![p] = FALSE]
    /\ kills' = kills + 1
    /\ UNCHANGED <<env, market, forked, engines, pidfile, sentinel, stop>>

(* A minute passes over a directory whose maker was killed before it wrote *)
(* its pid; a living script takes no minute over that.                     *)
LockDirAges(l) ==
    /\ lock[l] = NoPid /\ \A p \in Attempt : at[p] # <<l, "record">>
    /\ lock' = [lock EXCEPT ![l] = OldNoPid]
    /\ UNCHANGED <<env, market, at, watched, forked, engines, pidfile, sentinel, stop, kills>>

MarketOpensOrCloses ==
    /\ market' \in {"open", "closed"} \ {market}
    /\ UNCHANGED <<env, at, watched, forked, lock, engines, pidfile, sentinel, stop, kills>>

Next ==
    \/ \E p \in Attempt :
          WatchdogTick(p) \/ RunByHand(p) \/ AttemptStep(p) \/ KillScript(p) \/ KillWatchdog(p)
    \/ StopPidfile \/ StopStep
    \/ \E e \in Engine : EngineDies(e)
    \/ \E l \in Locks : LockDirAges(l)
    \/ MarketOpensOrCloses

Spec == Init /\ [][Next]_vars

(* Cron fires the watchdog every five minutes whatever else runs; scripts  *)
(* that run go on; a minute passes.  Nobody need stop or kill anything,    *)
(* and an engine need not die.                                             *)
FairSpec ==
    /\ Spec
    /\ SF_vars(\E p \in Attempt : WatchdogTick(p))
    /\ \A p \in Attempt : WF_vars(AttemptStep(p))
    /\ WF_vars(StopStep)
    /\ \A l \in Locks : WF_vars(LockDirAges(l))

-----------------------------------------------------------------------------
(* Properties.                                                             *)

(* Types; a script remembers the engine it forked from the fork until it   *)
(* has settled, and a watchdog's own commands are run by a live watchdog   *)
(* (NEW_PID, $RUN_SCRIPT in run-ibkr-engine.sh and the watchdog).          *)
TypeOK ==
    /\ env \in Environments /\ market \in {"open", "closed"}
    /\ at \in [Attempt -> Places] /\ watched \in [Attempt -> BOOLEAN]
    /\ forked \in [Attempt -> Engine \cup {NoEngine}]
    /\ lock \in [Locks -> LockValues]
    /\ engines \subseteq Engine /\ pidfile \in Engine \cup {NoEngine}
    /\ sentinel \in {"none", ReaperCode} /\ stop \in StopPlaces
    /\ kills \in 0..MaxKills
    /\ \A p \in Attempt :
          /\ forked[p] # NoEngine <=> at[p] \in {<<"launch", "write">>, <<"launch", "settle">>}
          /\ at[p][1] = "watchdog" => watched[p]
          /\ at[p] = Idle => ~watched[p]

(* Where the launch lock does its work: no stop script overlaps a launch,  *)
(* and no script was killed if the lock is a directory.                    *)
LockHolds == ~Allowed("overlap") /\ (env.lock = "flock" \/ ~Allowed("kill"))

(* Two engines never run at once: neither two watchdog ticks nor a start   *)
(* by hand beside one fork a second engine, killed scripts included where  *)
(* the lock is flock (acquire_lock to release_lock in run-ibkr-engine.sh). *)
OneEngine == LockHolds => \A e, f \in engines : e = f

(* An engine that the pidfile does not name, and that watchdog and stop    *)
(* script would therefore take for dead, keeps launchers out: its launcher *)
(* is about to write the pidfile, or it holds the launch lock itself       *)
(* because its launcher was killed (descriptor 9 of run-ibkr-engine.sh).   *)
UnnamedEngineExcludes ==
    LockHolds => \A e \in engines :
        \/ pidfile = e
        \/ lock["launch"] = e
        \/ \E p \in Attempt : forked[p] = e /\ at[p] = <<"launch", "write">> /\ lock["launch"] = p

(* The pidfile of an engine that lives on is never removed or overwritten, *)
(* whichever scripts take it for stale (rm -f run.pid in both scripts).    *)
PidfileKept ==
    [][LockHolds /\ pidfile \in engines /\ pidfile \in engines' => pidfile' = pidfile]_vars

(* While the market is open an engine that is down comes up, even if       *)
(* scripts were killed and left their locks (the incident of 2026-06-30 in *)
(* run-ibkr-engine.sh: five ticks bailed on an orphaned directory).        *)
EngineComesUp == market = "open" /\ engines = {} ~> (engines # {} \/ market = "closed")

-----------------------------------------------------------------------------
(* What the repository says of the scripts and they do not do.             *)

(* docs/CRON.md:66-68: the launch mutex makes it impossible for two        *)
(* watchdog ticks that fire close together to fork duplicate processes.    *)
TicksExclusive ==
    \A p, q \in Attempt : {at[p], at[q]} \subseteq {"launch"} \X {"fork", "write"} => p = q
=============================================================================
