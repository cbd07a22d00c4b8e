--------------------------- MODULE MCContentIndex ---------------------------
(***************************************************************************)
(* Instances of ContentIndex: one content that is triggered or published   *)
(* and then triggered.                                                     *)
(***************************************************************************)
EXTENDS ContentIndex
=============================================================================
