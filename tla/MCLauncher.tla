----------------------------- MODULE MCLauncher -----------------------------
(* TLC instances of Launcher: the hosts it is checked on.                  *)
EXTENDS Launcher, TLC

Host(l, f) == [lock |-> l, faults |-> f]

(* Where the lock holds, with every other fault; and lock directories with *)
(* every fault there is, for what must happen even there.                  *)
Hosts ==
    {Host("flock", {"kill", "byhand"}), Host("lockdir", {"byhand"}),
     Host("lockdir", FaultKinds)}

(* Lock directories, cron only: a script may be killed.                    *)
CronHosts == {Host("lockdir", {"kill"})}

Symmetry == Permutations(Attempt) \cup Permutations(Engine)
=============================================================================
