---------------------------- MODULE MCModelRepo -----------------------------
(* Small instances of ModelRepo for TLC.                                   *)
EXTENDS ModelRepo, TLC

Symmetry == Permutations(Jobs)

\* Two versions whose files are of one length.
CONSTANTS v1, v2
OneSize == v1 :> 1 @@ v2 :> 1
=============================================================================
