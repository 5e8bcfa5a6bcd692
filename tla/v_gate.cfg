SPECIFICATION Spec
CONSTANTS
  None = None
  WidthPrimary = 10
  WidthFallback = 20
  ExitCfg <- TheExitCfg
  Worlds <- LockedWorlds
  FreshWindow = 1
  GateWindow = 2
  GateCfg <- TheGateCfg
  MarketHours <- Hours
  MaxPositions = 2
PROPERTIES GateBlocksEntries
CHECK_DEADLOCK FALSE
