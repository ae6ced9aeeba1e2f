--------------------------- MODULE MCOffTheRecord ---------------------------
(* Small instances of OffTheRecord for TLC. *)
EXTENDS OffTheRecord, TLC

\* No property tells one request from another.
Symmetry == Permutations(Requests)

=============================================================================
