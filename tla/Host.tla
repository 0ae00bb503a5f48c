-------------------------------- MODULE Host --------------------------------
(***************************************************************************)
(* The file system of a device as the commands meet it: those that change  *)
(* files (HostFiles) and those that only read what is there (Device).      *)
(* They have no variable in common and no property of one speaks of the    *)
(* other, so a behaviour goes through either.                              *)
(***************************************************************************)
EXTENDS HostFiles, Device

VARIABLE mode        \* change or read, for good

hostVars == <<mode, filesVars, auditVars>>

\* A behaviour that reads has one, arbitrary, state of the files it leaves alone.
HostInit ==
    /\ FilesInit /\ AuditInit
    /\ mode \in {"change", "read"}
    /\ mode = "read" => side = "acl"

HostNext ==
    \/ mode = "change" /\ FilesNext /\ UNCHANGED <<mode, auditVars>>
    \/ mode = "read" /\ DeviceNext /\ UNCHANGED <<mode, filesVars>>

HostSpec == HostInit /\ [][HostNext]_hostVars
=============================================================================
