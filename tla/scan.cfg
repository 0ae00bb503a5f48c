SPECIFICATION Spec
CONSTANTS
  Params <- Empty
  DefaultMaxLen = 2
  PortableNames <- Empty
  Ids <- MCIds
  Namespace <- MCNamespace
  Layers <- MCLayers
  NumRoots = 2
  MaxIncludeDepth = 3
  RootEquivalent <- Empty
  SecretPaths <- Empty
  HostKeyDir = "none"
  HostKeyNames <- Empty
  ShellSpawners <- Empty
  ServiceName <- MCServiceName
  Systemctl <- MCSystemctl
  SystemctlVerbs <- MCVerbs
  SecurityRelevant <- MCSecurityRelevant
  NonGrantable <- MCNonGrantable
  ServiceAdmin = "services"
  CapabilityAdmin = "caps"
  ExcludedBins <- Empty
  ExcludedGroups <- Empty
  Suggested <- MCSuggested
  SafeLocales <- Empty
  Tools <- MCTools
  PipeCap = 1
  Timeout = 2
  Hosts <- MCHosts
  Root = "root"
  Chunk = 2
  Requested <- MCRequested
  Installed <- MCInstalled
  Slice <- MCSlice
  MinCoverage = 40
INVARIANTS
  CleanReturn
  GateSound
  WalkExact
  OwnersKept
PROPERTIES
  CaptureImplements
  ScanEnds
CHECK_DEADLOCK FALSE
