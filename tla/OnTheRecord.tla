----------------------------- MODULE OnTheRecord -----------------------------
(***************************************************************************)
(* What the record switch promises about the disk, with no requests, no    *)
(* pool and no order: a message reaches the disk only while its            *)
(* conversation is on the record, and going off the record clears it.      *)
(***************************************************************************)
CONSTANTS Sessions, Message

VARIABLES status, record, disk

vars == <<status, record, disk>>

Init ==
    /\ status = [s \in Sessions |-> "new"]
    /\ record = [s \in Sessions |-> TRUE]
    /\ disk = [s \in Sessions |-> {}]

Create(s) ==
    /\ status[s] = "new"
    /\ status' = [status EXCEPT ![s] = "open"]
    /\ record' = [record EXCEPT ![s] = TRUE]
    /\ disk' = disk

\* A message is written only to an open conversation that is on the record.
Write(s) ==
    /\ status[s] = "open" /\ record[s]
    /\ \E m \in Message : disk' = [disk EXCEPT ![s] = @ \cup {m}]
    /\ UNCHANGED <<status, record>>

Erase(s) ==
    /\ status[s] = "open"
    /\ \E m \in disk[s] : disk' = [disk EXCEPT ![s] = @ \ {m}]
    /\ UNCHANGED <<status, record>>

GoOff(s) ==
    /\ status[s] = "open"
    /\ record' = [record EXCEPT ![s] = FALSE]
    /\ disk' = [disk EXCEPT ![s] = {}]
    /\ status' = status

\* Going back on commits nothing by itself.
GoOn(s) ==
    /\ status[s] = "open"
    /\ record' = [record EXCEPT ![s] = TRUE]
    /\ UNCHANGED <<status, disk>>

Discard(s) ==
    /\ status[s] = "open"
    /\ status' = [status EXCEPT ![s] = "gone"]
    /\ disk' = [disk EXCEPT ![s] = {}]
    /\ record' = record

Next == \E s \in Sessions :
            \/ Create(s) \/ Write(s) \/ Erase(s)
            \/ GoOff(s) \/ GoOn(s) \/ Discard(s)

Spec == Init /\ [][Next]_vars

=============================================================================
