\* Accounts: creation, updates, removal, deferral, uid reuse, one fault at most.
SPECIFICATION Spec
CONSTANTS
    ops = ops
    net = net
    alice = alice
    netdev = netdev
    wheel = wheel
    ls = ls
    etc = etc
    none = none
    None = none
    Users <- MCUsers
    Groups <- MCGroups
    Uids <- MCUids
    Gids <- MCGids
    Cmds <- MCCmds
    Paths <- MCPaths
    HostUsers <- MCHostUsers
    HostGroups <- MCHostGroups
    HostMembers <- MCHostMembers
    Declarations <- AccountDecls
    MaxFaults = 1
INVARIANTS
    TypeOK
    AccountsAgree
    DeferredKept
    FloorBehindRegistry
    NoDowngrade
    ReapplyInSync
    DoctorAgrees
PROPERTIES
    HostUsersKept
    RollbackExact
    LoginSurvives
