SPECIFICATION FairSpec
CONSTANTS
  Call = {c1}
  Key = {k1}
  NoCall = NoCall
  NoKey = NoKey
  Faults = {"collide"}
PROPERTIES CollisionExits
CHECK_DEADLOCK FALSE
