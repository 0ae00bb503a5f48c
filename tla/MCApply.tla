------------------------------ MODULE MCApply -------------------------------
(***************************************************************************)
(* Small devices for TLC: two role accounts ops and net, one person of the *)
(* host, alice, or none; groups netdev and wheel.                          *)
(***************************************************************************)
EXTENDS ApplyClaims, Doctor

CONSTANTS ops, net, alice, netdev, wheel, ls, etc, none

MCUsers == {ops, net, alice}
MCGroups == {netdev, wheel}
MCUids == {1, 2, 9}
MCGids == {1, 2, 5}
MCCmds == {ls}
MCPaths == {etc}

\* alice, uid 9, is in wheel, gid 5, before Census comes.
MCHostUsers == [u \in MCUsers |-> IF u = alice
                    THEN [uid |-> 9, login |-> TRUE, census |-> FALSE] ELSE none]
MCHostGroups == [g \in MCGroups |-> IF g = wheel
                    THEN [gid |-> 5, census |-> FALSE] ELSE none]
MCHostMembers == [g \in MCGroups |-> IF g = wheel THEN {alice} ELSE {}]

Acct(id, shell, gs, cmds, paths) ==
    [uid |-> id, login |-> shell, groups |-> gs, sudo |-> cmds, files |-> paths]

Grp(provenance, pin, ms, cmds, paths) ==
    [prov |-> provenance, gid |-> pin, members |-> ms, sudo |-> cmds,
     files |-> paths]

NoAccts == [u \in MCUsers |-> none]
NoGroups == [g \in MCGroups |-> none]

Decl(v, accts, gs) ==
    [version |-> v, signed |-> TRUE, accounts |-> accts, adopted |-> {},
     groups |-> gs]

Unsigned(d) == [d EXCEPT !.signed = FALSE]

-----------------------------------------------------------------------------
\* Accounts alone: creation, every kind of update, removal, uid reuse.
OneAccount == Decl(1, [NoAccts EXCEPT ![ops] = Acct(1, TRUE, {netdev}, {ls}, {etc})],
                   NoGroups)
TwoAccounts == Decl(2, [NoAccts EXCEPT ![ops] = Acct(1, FALSE, {}, {}, {}),
                                       ![net] = Acct(2, TRUE, {netdev}, {ls}, {etc})],
                    NoGroups)
OtherAccount == Decl(2, [NoAccts EXCEPT ![net] = Acct(1, TRUE, {wheel}, {}, {etc})],
                     NoGroups)
Nobody == Decl(3, NoAccts, NoGroups)
TakesAlice == Unsigned(Decl(1, [NoAccts EXCEPT ![alice] = Acct(2, TRUE, {}, {ls}, {})],
                            NoGroups))

AccountDecls == {OneAccount, TwoAccounts, OtherAccount, Nobody, TakesAlice}

-----------------------------------------------------------------------------
\* One small history for each claim.
OpsIn(gs) == [NoAccts EXCEPT ![ops] = Acct(1, TRUE, gs, {}, {})]

\* wheel is declared without adopt, then dropped.
ClaimWheel == {Decl(1, NoAccts, [NoGroups EXCEPT ![wheel] = Grp("Created", none, {}, {ls}, {})]),
               Nobody}

\* A role with a supplementary group.
RoleGroup == {Decl(1, OpsIn({netdev}), NoGroups)}

\* A role account listed in a [[group]], then both are dropped.
TeamThenNobody == {Decl(1, OpsIn({}), [NoGroups EXCEPT ![netdev] = Grp("Created", none, {ops}, {}, {})]),
                   Nobody}

\* An account comes and goes.
ComeAndGo == {Decl(1, OpsIn({}), NoGroups), Nobody}

-----------------------------------------------------------------------------
\* Groups and liveness, on a device of their own: no person, and wheel, gid 5,
\* of the host.
TeamUsers == {ops, net}
TeamHostUsers == [u \in TeamUsers |-> none]
TeamHostMembers == [g \in MCGroups |-> {}]

TeamDecl(accts, gs) ==
    [version |-> 1, signed |-> TRUE, accounts |-> accts, adopted |-> {},
     groups |-> gs]

\* Groups created and adopted, with a member, commands and paths; against roles
\* in the same groups, one of them now pinned and the other no [[group]] any
\* more.  net comes and goes.
Teams == TeamDecl([TeamHostUsers EXCEPT ![ops] = Acct(1, TRUE, {}, {}, {})],
                  [NoGroups EXCEPT ![netdev] = Grp("Created", none, {ops}, {ls}, {etc}),
                                   ![wheel] = Grp("Adopted", none, {ops}, {ls}, {})])
RoleTeams == TeamDecl([TeamHostUsers EXCEPT ![ops] = Acct(1, TRUE, {netdev}, {}, {}),
                                            ![net] = Acct(2, TRUE, {wheel}, {}, {etc})],
                      [NoGroups EXCEPT ![wheel] = Grp("Created", 5, {}, {}, {etc})])

GroupDecls == {Teams, RoleTeams}

=============================================================================
