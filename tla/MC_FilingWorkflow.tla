------------------------- MODULE MC_FilingWorkflow -------------------------
(***************************************************************************)
(* FilingWorkflow for TLC.                                                 *)
(***************************************************************************)
EXTENDS FilingWorkflow, TLC

\* Request slots and approval rows are interchangeable.
Symmetry == Permutations(Requests) \cup Permutations(Approvals)

=============================================================================
