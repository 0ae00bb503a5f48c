SPECIFICATION HostSpec
CONSTANTS
  p1 = p1
  p2 = p2
  Procs <- MCProcs
  Inodes = {1, 2, 3, 4}
  NoInode = 0
  Values = {1, 2, 3}
  Rejected = {3}
  Kinds <- MCKinds
  MaxWrites = 2
  MaxCrashes = 1
  Users = {"ops"}
  Groups = {"net"}
  Kids <- MCKids
  Links = {"link"}
  Paths <- MCPaths
  Nowhere = "nowhere"
  Foreign <- MCForeign
  Targets <- MCTargets
  MaxRuns = 2
  MaxFileWrites = 1
  HighGlobs <- MCHigh
  LowGlobs <- MCLow
  SecurityRelevant <- MCSecurityRelevant
  NoName = NoName
  Digits <- MCDigits
  Tree <- MCTree
  RootIno = 1
  NoIno = 0
  Spare = 11
  PseudoRoots <- MCPseudoRoots
  SkipMounts <- MCSkipMounts
  Invocations <- MCInvocations
  Passwd <- MCPasswd
  GroupDb <- MCGroupDb
  Registry <- MCRegistry
  Providers <- MCProviders
  MaxSwaps = 1
  FwLayers <- MCFwLayers
  SafeLocales <- MCSafeLocales
  FrameworkCalls <- MCFrameworkCalls
INVARIANTS
  FloorKept
  NeverExposed
  GrantsInForce
  ListingKept
  BlindSpotsNamed
  ExposureExact
  PostureCovers
  FrameworksOrderFree
  TitleLintExact
PROPERTIES
  ReplaceImplements
  AccessRolledBack
CHECK_DEADLOCK FALSE
