-------------------------- MODULE MCToolWorkerPool --------------------------
(* Small instances of ToolWorkerPool for TLC.                               *)
EXTENDS ToolWorkerPool, TLC

Symmetry == Permutations(Calls)
=============================================================================
