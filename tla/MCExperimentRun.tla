--------------------------- MODULE MCExperimentRun ---------------------------
(* A definition that requires a simulation run and, for ITERATE, two trials. *)
EXTENDS ExperimentRun, TLC

\* Client ids and calls are interchangeable; no liveness is checked.
Interchangeable ==
    Permutations(Client) \cup Permutations(Appends) \cup Permutations(Complete)
=============================================================================
