----------------------------- MODULE Selections ------------------------------
(***************************************************************************)
(* Filtering a sequence and ranking a set, written so that proofs can      *)
(* unfold them: SelectSeq and SortSeq of the standard modules they cannot. *)
(***************************************************************************)
EXTENDS Integers, Sequences, FiniteSets

\* The elements of q that are in T, in their order.
Select(q, T) ==
    LET upTo[n \in 0 .. Len(q)] ==
            IF n = 0 THEN <<>>
            ELSE IF q[n] \in T THEN Append(upTo[n - 1], q[n]) ELSE upTo[n - 1]
    IN upTo[Len(q)]

\* The elements of a finite set in the order of Prior, a strict total order:
\* the i-th has i - 1 before it.
Sorted(S, Prior(_, _)) ==
    [i \in 1 .. Cardinality(S) |->
        CHOOSE m \in S : Cardinality({ n \in S : Prior(n, m) }) = i - 1]
=============================================================================
