SPECIFICATION Spec
CONSTANTS
  Row = {r1}
  Order = {o1}
  Spread = {s1}
  NoRow = NoRow
  NoOrder = NoOrder
  NoSpread = NoSpread
  Lots = 1
  Faults = {"crash"}
SYMMETRY Symmetry
INVARIANTS AwaitedRowsTracked
