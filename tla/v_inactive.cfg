SPECIFICATION FairSpec
CONSTANTS
  Row = {r1}
  Order = {o1}
  Spread = {s1}
  NoRow = NoRow
  NoOrder = NoOrder
  NoSpread = NoSpread
  Lots = 1
  Faults = {"reject", "slow"}
PROPERTIES RejectedResolves
