SPECIFICATION Spec
CONSTANTS
  Row = {r1, r2, r3}
  Order = {o1, o2, o3, o4}
  Spread = {s1, s2}
  NoRow = NoRow
  NoOrder = NoOrder
  NoSpread = NoSpread
  Lots = 1
  Faults = {"lost", "db", "reject"}
SYMMETRY Symmetry
INVARIANTS NoOversell HoldingsBooked
