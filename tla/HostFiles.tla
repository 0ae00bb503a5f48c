----------------------------- MODULE HostFiles ------------------------------
(***************************************************************************)
(* The files an apply changes: those it replaces (Durable) and the trees   *)
(* it gives access to (FileAccess).  The two have no file and no variable  *)
(* in common and no property of one speaks of the other, so a behaviour    *)
(* goes through either; interleaving them would show nothing new.          *)
(***************************************************************************)
EXTENDS Durable, FileAccess

VARIABLE side        \* replace or acl, for good

filesVars == <<side, durVars, aclVars>>

\* A behaviour of the ACLs has one, arbitrary, state of the replaced file.
FilesInit ==
    /\ DurableInit /\ AclInit
    /\ side \in {"replace", "acl"}
    /\ side = "acl" => kind = "floor" /\ meta.dest = NoInode

FilesNext ==
    \/ side = "replace" /\ DurableNext /\ UNCHANGED <<side, aclVars>>
    \/ side = "acl" /\ AclNext /\ UNCHANGED <<side, durVars>>

FilesSpec == FilesInit /\ [][FilesNext]_filesVars
=============================================================================
