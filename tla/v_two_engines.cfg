SPECIFICATION Spec
CONSTANTS
  Attempt = {a1, a2, a3}
  Engine = {e1, e2}
  Free = Free
  NoPid = NoPid
  OldNoPid = OldNoPid
  NoEngine = NoEngine
  MaxKills = 2
  Environments <- CronHosts
INVARIANT TicksExclusive
SYMMETRY Symmetry
CHECK_DEADLOCK FALSE
