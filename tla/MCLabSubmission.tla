--------------------------- MODULE MCLabSubmission ---------------------------
(* Instances of LabSubmission for TLC: every constant is given in the .cfg. *)
EXTENDS LabSubmission
=============================================================================
