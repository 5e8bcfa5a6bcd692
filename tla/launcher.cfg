SPECIFICATION FairSpec
CONSTANTS
  Attempt = {a1, a2}
  Engine = {e1, e2}
  Free = Free
  NoPid = NoPid
  OldNoPid = OldNoPid
  NoEngine = NoEngine
  MaxKills = 1
  Environments <- Hosts
INVARIANTS TypeOK OneEngine UnnamedEngineExcludes
PROPERTIES PidfileKept EngineComesUp
CHECK_DEADLOCK FALSE
