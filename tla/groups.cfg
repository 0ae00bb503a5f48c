\* Groups: created and adopted, grants, members, a pin, role groups; runs end and
\* deferred deletions are made up for.
SPECIFICATION FairSpec
CONSTANTS
    ops = ops
    net = net
    alice = alice
    netdev = netdev
    wheel = wheel
    ls = ls
    etc = etc
    none = none
    None = none
    Users <- TeamUsers
    Groups <- MCGroups
    Uids = {1, 2}
    Gids <- MCGids
    Cmds <- MCCmds
    Paths <- MCPaths
    HostUsers <- TeamHostUsers
    HostGroups <- MCHostGroups
    HostMembers <- TeamHostMembers
    Declarations <- GroupDecls
    MaxFaults = 1
INVARIANTS
    GroupGrantsKnown
    ReapplyInSync
PROPERTIES
    RunsEnd
    DroppedRemoved
