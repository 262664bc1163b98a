-------------------------- MODULE MCToolExecution --------------------------
(* Instances of ToolExecution for TLC.                                     *)
EXTENDS ToolExecution, TLC

Symmetry == Permutations(Runs)

=============================================================================
