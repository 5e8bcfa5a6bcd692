SPECIFICATION FairSpec
CONSTANTS
  Row = {r1}
  Order = {o1, o2, o3}
  Spread = {s1}
  NoRow = NoRow
  NoOrder = NoOrder
  NoSpread = NoSpread
  Lots = 1
  Faults = {"slow", "lost", "reject", "late"}
PROPERTIES PendingResolves
