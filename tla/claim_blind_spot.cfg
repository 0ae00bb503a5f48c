SPECIFICATION DeviceSpec
CONSTANTS
  HighGlobs <- MCHigh
  LowGlobs <- MCLow
  SecurityRelevant <- MCSecurityRelevant
  NoName = NoName
  Digits <- MCDigits
  Tree <- MCTree
  RootIno = 1
  NoIno = 0
  Spare = 11
  PseudoRoots <- MCPseudoRoots
  SkipMounts <- MCSkipMounts
  Invocations <- MCInvocations
  Passwd <- MCPasswd
  GroupDb <- MCGroupDb
  Registry <- MCRegistry
  Providers <- MCProviders
  MaxSwaps = 1
  FwLayers <- MCFwLayers
  SafeLocales <- MCSafeLocales
  FrameworkCalls <- MCFrameworkCalls
INVARIANT
  NoBlindSpot
CHECK_DEADLOCK FALSE
