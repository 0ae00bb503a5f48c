------------------------------- MODULE MCHost -------------------------------
(***************************************************************************)
(* The files of MCFiles and the small device of MCDevice.                  *)
(***************************************************************************)
EXTENDS Host, MCFiles, MCDevice
=============================================================================
