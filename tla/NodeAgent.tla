----------------------------- MODULE NodeAgent ------------------------------
(***************************************************************************)
(* The reporting loop of a fleet node (cmd/wintermute-node/main.go): take  *)
(* a reading, keep it in memory, push what is held, spool to disk when a   *)
(* push fails, and start from the spool after a restart.                   *)
(*                                                                         *)
(* A reading is known by the instant it was taken, so the backlog, which   *)
(* the agent keeps in the order it was taken, is a set of instants.  What  *)
(* is on the wire and what the server answers belong to the composition,   *)
(* FleetTelemetry.                                                         *)
(***************************************************************************)
EXTENDS Naturals, FiniteSets

CONSTANT MaxPending     \* main.go: maxPending

ASSUME AgentAssumption == MaxPending \in Nat \ {0}

VARIABLES
    pending,    \* agent.pending: the readings held in memory
    spool,      \* the spool file; {} is none, or none that can be parsed
    at,         \* where run is: "idle", "sending" or "clear"
    taken,      \* history: every reading ever taken
    gone        \* history: what the agent itself gave up

agentVars == <<pending, spool, at, taken, gone>>

AgentTypeOK ==
    /\ taken \in SUBSET Nat
    /\ pending \in SUBSET taken /\ IsFiniteSet(pending)
    /\ Cardinality(pending) <= MaxPending
    /\ spool \in SUBSET taken /\ IsFiniteSet(spool)
    /\ Cardinality(spool) <= MaxPending
    /\ at \in {"idle", "sending", "clear"}
    /\ gone \in SUBSET taken

AgentInit ==
    /\ pending = {} /\ spool = {} /\ at = "idle"
    /\ taken = {} /\ gone = {}

\* The cap of the backlog: the oldest readings are dropped.
Newest(S) == { r \in S : Cardinality({ q \in S : q > r }) < MaxPending }

\* saveSpool: a temporary file and a rename, so it happens or it does not.  An
\* empty backlog writes nothing.
Saved == IF pending = {} THEN {spool} ELSE {spool, pending}

\* A reading is taken; never while a push is waited for.
Collect(now) ==
    /\ at = "idle" /\ now \notin taken
    /\ pending' = Newest(pending \cup {now})
    /\ taken' = taken \cup {now}
    /\ gone' = gone \cup ((pending \cup {now}) \ pending')
    /\ UNCHANGED <<spool, at>>

\* The whole backlog is pushed.
BeginSend ==
    /\ at = "idle" /\ pending # {}
    /\ at' = "sending"
    /\ UNCHANGED <<pending, spool, taken, gone>>

\* Mutant: the backlog is dropped once it is on disk.
SendFails_DropsBacklog ==
    /\ at = "sending"
    /\ spool' \in Saved
    /\ pending' = {}
    /\ at' = "idle"
    /\ UNCHANGED <<taken, gone>>

\* No answer in time, or not a 200: the backlog is kept and spooled.
SendFails ==
    /\ at = "sending"
    /\ spool' \in Saved
    /\ at' = "idle"
    /\ UNCHANGED <<pending, taken, gone>>

\* A 200, whether its body can be read or not.
SendSucceeds ==
    /\ at = "sending"
    /\ pending' = {}
    /\ at' = "clear"
    /\ UNCHANGED <<spool, taken, gone>>

\* clearSpool, after the backlog has been let go; the file may survive it.
ClearSpool ==
    /\ at = "clear"
    /\ spool' \in {{}, spool}
    /\ at' = "idle"
    /\ UNCHANGED <<pending, taken, gone>>

\* loadSpool on what the process left behind.
Reload(file) ==
    /\ spool' = file
    /\ pending' = file
    /\ at' = "idle"
    /\ gone' = gone \cup (pending \ file)
    /\ UNCHANGED taken

\* A signal: run saves the backlog and returns, and the agent is started again.
Stop == at # "clear" /\ \E file \in Saved : Reload(file)

\* A kill; or a power cut, after which a file that was never synced may be one
\* that does not parse, and an agent starts without it.
Crash == \E file \in {spool, {}} : Reload(file)

AgentStep == SendFails \/ ClearSpool \/ Stop \/ Crash

=============================================================================
