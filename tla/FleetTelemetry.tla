--------------------------- MODULE FleetTelemetry ---------------------------
(***************************************************************************)
(* A fleet node and the server it reports to: NodeAgent and Rollup joined  *)
(* by a network that loses reports and replies, and delivers a report      *)
(* after the agent has given it up.                                        *)
(***************************************************************************)
EXTENDS NodeAgent, Rollup

CONSTANTS
    ReadingTimes,   \* bound: when a reading may be taken
    MaxTime,        \* bound: the clock stops here
    MaxWire         \* bound: reports on the wire at once

ASSUME FleetAssumption ==
    /\ ReadingTimes \subseteq Nat /\ MaxTime \in Nat /\ MaxWire \in Nat \ {0}

VARIABLES
    wire,   \* the reports on their way (the same batch twice is one)
    ok      \* a 200 is on its way back to the push the agent waits for

vars == <<agentVars, rollupVars, wire, ok>>

TypeOK ==
    /\ AgentTypeOK /\ RollupTypeOK
    /\ wire \in SUBSET SUBSET taken
    /\ ok \in BOOLEAN

Init == AgentInit /\ RollupInit /\ wire = {} /\ ok = FALSE

\* Time passes.
Clock ==
    /\ now < MaxTime
    /\ Tick
    /\ UNCHANGED <<agentVars, wire, ok>>

Read ==
    /\ now \in ReadingTimes
    /\ Collect(now)
    /\ UNCHANGED <<rollupVars, wire, ok>>

\* agent.send posts the backlog (bound: a full wire loses what it carried).
Send ==
    /\ BeginSend
    /\ wire' = {pending} \cup IF Cardinality(wire \ {pending}) < MaxWire
                              THEN wire ELSE {}
    /\ ok' = FALSE
    /\ UNCHANGED rollupVars

\* handleNodeReport stores the batch and answers 200, if anyone still listens.
Report(batch) ==
    /\ batch \in wire
    /\ Ingest(batch)
    /\ wire' = wire \ {batch}
    /\ ok' = (ok \/ (at = "sending" /\ batch = pending))
    /\ UNCHANGED agentVars

Lose ==
    /\ \E batch \in wire : wire' = wire \ {batch}
    /\ UNCHANGED <<agentVars, rollupVars, ok>>

Deliver == at = "sending" /\ Report(pending)

Delivered == ok /\ SendSucceeds /\ ok' = FALSE /\ UNCHANGED <<rollupVars, wire>>

\* The push fails, the spool is cleared, or the agent stops, with or without
\* warning: whatever reply is under way is not read.
Agent == AgentStep /\ ok' = FALSE /\ UNCHANGED <<rollupVars, wire>>

\* What the agent does next by itself: give a push up, or clear the spool.
Onward == (SendFails \/ ClearSpool) /\ Agent

Roller == Roll /\ UNCHANGED <<agentVars, wire, ok>>

\* The operator forgets the node.
ForgetNode ==
    /\ Forget
    /\ gone' = gone \cup (received \ received')
    /\ UNCHANGED <<pending, spool, at, taken, wire, ok>>

Next ==
    \/ Clock \/ Read \/ Send \/ Lose \/ Delivered \/ Agent \/ Roller
    \/ ForgetNode
    \/ \E batch \in wire : Report(batch)

Spec == Init /\ [][Next]_vars

\* The agent pushes on every tick of its push timer, gives a push up when its
\* client times out, and a server that is pushed to again and again answers in
\* the end.
FairSpec ==
    /\ Spec
    /\ WF_vars(Send)
    /\ WF_vars(Onward)
    /\ SF_vars(Deliver)

-----------------------------------------------------------------------------
(* Properties                                                              *)

\* No reading is lost between the node and the server but what the cap of the
\* backlog drops, what was in memory alone when the agent was killed, what a
\* power cut spoilt on disk, and what an operator forgot: an outage of the
\* network, and a restart in the middle of one that finds a spool it can parse,
\* are survived (main.go: run, saveSpool, loadSpool).
OutageSurvived == taken \subseteq pending \cup received \cup gone

\* Backlogs are dropped from their old end: whoever gives up a reading to the
\* cap holds more recent ones only (main.go: maxPending).
RecentKept ==
    [][Read => \A r \in gone' \ gone, q \in pending' : q > r]_vars

\* The minute buckets' own second, which the textual comparison takes for the
\* end of the minute before (see README).
EdgeOfMinute == { r \in received : r % Minute = 0 }

AgedOut == { r \in received : Floor(r, Minute) + MinuteKept < now }

\* A reading that arrived before its minute was folded is still there raw, or
\* a minute bucket stands for it until the bucket's own time is up, however
\* slow the roller, whichever of its steps fail, and however short raw is kept
\* (rollup.go: Once, prune).
SummarisedUnlessLate ==
    received \ (late \cup EdgeOfMinute) \subseteq raw \cup minutes \cup AgedOut

\* A reading the agent holds reaches the server, unless the agent loses it.
ReadingsArrive ==
    \A r \in ReadingTimes : r \in pending ~> r \in received \cup gone

=============================================================================
