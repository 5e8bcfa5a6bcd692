SPECIFICATION FairSpec
CONSTANTS
  Call = {c1, c2}
  Key = {k1}
  NoCall = NoCall
  NoKey = NoKey
  Faults = {"outage", "collide", "callback", "error", "slow"}
INVARIANTS TypeOK LinesAreTickers
PROPERTIES CallSpec RequestsDrain
CHECK_DEADLOCK FALSE
