------------------------------ MODULE MCFiles -------------------------------
(***************************************************************************)
(* Two writers, two writes and one loss of power on each kind of file; and *)
(* two runs of apply on a small tree, with one file written at any moment. *)
(***************************************************************************)
EXTENDS HostFiles, TLC

CONSTANTS p1, p2

MCProcs == {p1, p2}
MCKinds == {"restore", "fragment", "registry", "floor"}

\* /srv holds the directory app, a file and a link; app holds a log, and a file
\* that is not there yet.  Paths lead to /srv, to /srv/app, to the same through
\* a symlinked parent, to the link, and nowhere.
MCKids == ("srv" :> {"app", "note", "link"}) @@ ("app" :> {"log", "new"})
MCPaths == [srv |-> "srv", app |-> "app", alias |-> "app", link |-> "link", void |-> "nowhere"]
Own(p) == [acc |-> [bob |-> p], def |-> <<>>, mask |-> p]
MCForeign == ("srv" :> NoAcl) @@ ("app" :> [acc |-> [bob |-> {"r", "x"}], def |-> [bob |-> {"r"}], mask |-> {"r", "x"}])
               @@ ("note" :> NoAcl) @@ ("log" :> Own({"r"}))
RO == {"r", "X"}
RWX == {"r", "w", "X"}
G(p, a) == [path |-> p, access |-> a, shape |-> "Dir"]
UserTargets == {<<>>, <<G("srv", RWX)>>, <<G("app", RO)>>, <<G("app", RWX), G("srv", RO)>>,
                <<G("srv", RO), G("app", RWX)>>, <<G("alias", RO)>>}
BadTargets == {<<G("link", RO)>>, <<G("void", RO)>>, <<[G("app", RO) EXCEPT !.shape = "File"]>>}
GroupTargets == {<<>>, <<G("srv", RO)>>, <<G("srv", RWX)>>}

\* A group whose grant on the inner directory comes when the outer one goes.
NestedTargets == {<<>>, <<G("srv", RO)>>, <<G("app", RO)>>}
MCTargets == {[ops |-> u, net |-> g] : u \in UserTargets, g \in GroupTargets} \cup {[ops |-> u, net |-> <<>>] : u \in BadTargets}
MCNested == {[ops |-> <<>>, net |-> g] : g \in NestedTargets}
=============================================================================
