------------------------- MODULE MCPlannedManifests -------------------------
(* Small instances of PlannedManifests for TLC.                             *)
EXTENDS PlannedManifests, TLC

Symmetry == Permutations(Callers) \cup Permutations(Texts) \cup Permutations(Threads)
=============================================================================
