SPECIFICATION Spec
CONSTANTS
  Row = {r1, r2}
  Order = {o1, o2, o3}
  Spread = {s1, s2}
  NoRow = NoRow
  NoOrder = NoOrder
  NoSpread = NoSpread
  Lots = 2
  Faults = {"reject", "slow", "manual"}
SYMMETRY Symmetry
INVARIANTS LiveOrdersTracked AwaitedRowsTracked
