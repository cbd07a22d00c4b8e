----------------------------- MODULE MCRoleSync -----------------------------
(* Instances of RoleSync for TLC. *)
EXTENDS RoleSync, TLC

\* Roles are interchangeable, and edits differ in nothing but their payloads.
Interchangeable == Permutations(Task) \cup Permutations(Role)
=============================================================================
