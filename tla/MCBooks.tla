------------------------------ MODULE MCBooks -------------------------------
(* A small instance of Books for TLC.                                      *)
EXTENDS Books, TLC

Symmetry == Permutations(Requests) \cup Permutations(Time)

\* Either one document without hours, its amounts and its payments ...
Money ==
    /\ \A d \in Docs : d > 1 => docs[d].status = "none"
    /\ \A d \in Docs : docs[d].time = {}
    /\ \A r \in Requests : req[r].op # "bill" /\ req[r].time = {}
    /\ invoiced = {}

\* ... or several documents with hours, of one amount and not paid.
Hours ==
    /\ \A p \in Pays : payments[p].status = "none"
    /\ \A d \in Docs : docs[d].total <= 1 /\ receivable[d] \in -1 .. 1
    /\ \A r \in Requests : req[r].total <= 1 /\ req[r].op \notin {"pay", "unpay"}

\* Constraint: the run explores both, and of a mixture its first state.
MoneyOrHours == Money \/ Hours

=============================================================================
