SPECIFICATION ProgressSpec
CONSTANTS
    ops = ops
    net = net
    alice = alice
    netdev = netdev
    wheel = wheel
    ls = ls
    etc = etc
    none = none
    None = none
    Users <- MCUsers
    Groups <- MCGroups
    Uids <- MCUids
    Gids <- MCGids
    Cmds <- MCCmds
    Paths <- MCPaths
    HostUsers <- MCHostUsers
    HostGroups <- MCHostGroups
    HostMembers <- MCHostMembers
    Declarations <- ComeAndGo
    MaxFaults = 0
PROPERTY LiveNeverDeleted
