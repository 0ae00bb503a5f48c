SPECIFICATION Spec
CONSTANTS
  Params <- MCParams
  DefaultMaxLen = 2
  PortableNames <- MCNames
  Ids <- MCIds
  Namespace <- MCNamespace
  Layers <- MCLayers
  NumRoots = 2
  MaxIncludeDepth = 3
  RootEquivalent <- MCRootEquivalent
  SecretPaths <- MCSecretPaths
  HostKeyDir <- MCHostKeyDir
  HostKeyNames <- MCHostKeyNames
  ShellSpawners <- MCShellSpawners
  ServiceName <- MCServiceName
  Systemctl <- MCSystemctl
  SystemctlVerbs <- MCSystemctlVerbs
  SecurityRelevant <- MCSecurityRelevant
  NonGrantable <- MCNonGrantable
  ServiceAdmin = "ops"
  CapabilityAdmin = "shell"
  ExcludedBins <- MCExcludedBins
  ExcludedGroups <- MCExcludedGroups
  Suggested <- MCSuggested
  Surface <- MCSurface
  SafeLocales <- MCSafeLocales
  Texts <- MCTexts
  Drafts <- MCDrafts
  Comps <- MCComps
  Values <- MCValues
  MaxFiles = 5
INVARIANTS
  TextsFinished
  CyclesRefused
  ClosureExact
  RiskHonest
  ValuesSanctioned
  PreviewSound
  DiffReplays
  WhichMirrors
  CoverageHonest
CHECK_DEADLOCK FALSE
