SPECIFICATION FairSpec
CONSTANTS
  None = None
  WidthPrimary = 10
  WidthFallback = 20
  ExitCfg <- TheExitCfg
  Worlds <- TheWorlds
  FreshWindow = 1
  GateWindow = 2
  GateCfg <- TheGateCfg
  MarketHours <- Hours
  MaxPositions = 2
INVARIANTS TypeOK JoinAsOf LegsNeverNet ExitMonotone BucketsPartition
PROPERTIES GateOnWindow EntryNotExited CrossedIsExited
CHECK_DEADLOCK FALSE
