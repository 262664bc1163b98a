-------------------------- MODULE MCLiveDocument --------------------------
(* Small instances of LiveDocument for TLC.                                *)
EXTENDS LiveDocument, TLC

Symmetry == Permutations(Publishers) \cup Permutations(Documents)
                \cup Permutations(Layers)
=============================================================================
