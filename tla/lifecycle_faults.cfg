SPECIFICATION Spec
CONSTANTS
  Row = {r1, r2}
  Order = {o1, o2, o3}
  Spread = {s1, s2}
  NoRow = NoRow
  NoOrder = NoOrder
  NoSpread = NoSpread
  Lots = 1
  Faults = {"crash", "slow", "late", "reject", "lost", "manual", "db"}
SYMMETRY Symmetry
INVARIANTS TypeOK PendingEntryBacked PendingExitBacked MemoryMirrorsBook OneActiveRowPerSpread
PROPERTIES LedgerSpec
