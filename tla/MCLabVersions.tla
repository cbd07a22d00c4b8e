--------------------------- MODULE MCLabVersions ---------------------------
(***************************************************************************)
(* Instance of LabVersions.                                                *)
(***************************************************************************)
EXTENDS LabVersions
=============================================================================
