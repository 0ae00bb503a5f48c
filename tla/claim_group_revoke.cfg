SPECIFICATION FilesSpec
CONSTANTS
  p1 = p1
  p2 = p2
  Procs <- MCProcs
  Inodes = {1, 2, 3, 4}
  NoInode = 0
  Values = {1, 2, 3}
  Rejected = {3}
  Kinds <- MCKinds
  MaxWrites = 2
  MaxCrashes = 1
  Users = {"ops"}
  Groups = {"net"}
  Kids <- MCKids
  Links = {"link"}
  Paths <- MCPaths
  Nowhere = "nowhere"
  Foreign <- MCForeign
  Targets <- MCNested
  MaxRuns = 2
  MaxFileWrites = 1
INVARIANT
  GrantsInForce
CHECK_DEADLOCK FALSE
