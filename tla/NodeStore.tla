----------------------------- MODULE NodeStore ------------------------------
(***************************************************************************)
(* A fleet node's library of model weights (internal/nodestore, reconcile  *)
(* in cmd/wintermute-node) and the server's assignments it works towards   *)
(* (internal/store/nodemodels.go, internal/api/nodes.go).                  *)
(*                                                                         *)
(* The server never tells a node what to do: each answer to a report names *)
(* what the node should hold, and one background job at a time fetches or  *)
(* imports what is missing.  Contents are as in ModelRepo: a length in     *)
(* chunks, and the versions the chunks came from.                          *)
(***************************************************************************)
EXTENDS Naturals, FiniteSets

CONSTANTS
    Files,          \* repository-relative names
    Name,           \* the name a runtime serves a file under (ModelName)
    Versions,       \* contents the repository may publish
    Size,           \* the length of a version, in chunks
    Undigested,     \* files whose digest was never published
    MaxAttempts,    \* fetch.go: fetchAttempts
    MaxTrouble      \* bound: faults, restarts, changes of a file or a mount

VARIABLES
    published,  \* the version of a file in the repository, or "none"
    recorded,   \* the version its provenance row describes, or "none"
    assigned,   \* node_models: what the node should hold
    store,      \* complete files on the node
    part,       \* their .part files
    mount,      \* the share of the repository, as the node sees it
    runtime,    \* what serves models on the node
    known,      \* LlamaCPPIngester.models
    serving,    \* files in llama-swap's config, or imported by Ollama
    up,         \* is the agent running?
    job,        \* the goroutine of reconcile
    trouble,    \* what happened so far of what MaxTrouble bounds
    under       \* history: the promise a stored file was fetched under

server == <<published, recorded, assigned>>
disk == <<store, part, mount>>
vars == <<server, disk, runtime, known, serving, up, job, trouble, under>>

Nothing == [len |-> 0, of |-> {}]
Whole(v) == [len |-> Size[v], of |-> {v}]
MaxSize == CHOOSE n \in { Size[v] : v \in Versions } : \A v \in Versions : Size[v] <= n
Contents == [len : 0 .. MaxSize, of : SUBSET Versions]
Sizes == { Size[v] : v \in Versions }
Promises == [file : Files, size : Sizes, sha : Versions \cup {"none"}]
NoPromise == [file |-> "none", size |-> 0, sha |-> "none"]
Idle == [at |-> "idle", todo |-> {}, want |-> NoPromise, attempt |-> 0, from |-> Nothing]

TypeOK ==
    /\ published \in [Files -> Versions \cup {"none"}]
    /\ recorded \in [Files -> Versions \cup {"none"}]
    /\ assigned \subseteq Files
    /\ store \in [Files -> Contents] /\ part \in [Files -> Contents]
    /\ mount \in [Files -> Contents]
    /\ runtime \in {"llamacpp", "ollama"}
    /\ known \subseteq Files /\ serving \subseteq Files
    /\ up \in BOOLEAN /\ trouble \in 0 .. MaxTrouble
    /\ job.at \in {"idle", "next", "copy", "connect", "stream", "verify", "install", "ingest"}
    /\ job.todo \subseteq Promises /\ job.want \in Promises \cup {NoPromise}
    /\ job.attempt \in 0 .. MaxAttempts /\ job.from \in Contents
    /\ under \in [Files -> Promises \cup {NoPromise}]

Init ==
    /\ published = [f \in Files |-> "none"] /\ recorded = published
    /\ assigned = {}
    /\ store = [f \in Files |-> Nothing] /\ part = store /\ mount = store
    /\ runtime \in {"llamacpp", "ollama"}
    /\ known = {} /\ serving = {}
    /\ up = TRUE /\ job = Idle
    /\ trouble = 0
    /\ under = [f \in Files |-> NoPromise]

Trouble == trouble < MaxTrouble /\ trouble' = trouble + 1

-----------------------------------------------------------------------------
(* The server                                                              *)

\* A file is installed under its name, or deleted ("none"); its row follows.
Publish(f, v) ==
    /\ Trouble /\ v # published[f]
    /\ published' = [published EXCEPT ![f] = v]
    /\ UNCHANGED <<recorded, assigned, disk, runtime, known, serving, up, job, under>>

Record(f) ==
    /\ recorded[f] # published[f]
    /\ recorded' = [recorded EXCEPT ![f] = published[f]]
    /\ UNCHANGED <<published, assigned, disk, runtime, known, serving, up, job, trouble, under>>

\* handleAssignModel refuses what the repository does not hold.
Assign(f) ==
    /\ published[f] # "none"
    /\ assigned' = assigned \cup {f}
    /\ UNCHANGED <<published, recorded, disk, runtime, known, serving, up, job, trouble, under>>

\* Nothing is deleted on the node.
Unassign(f) ==
    /\ f \in assigned
    /\ assigned' = assigned \ {f}
    /\ UNCHANGED <<published, recorded, disk, runtime, known, serving, up, job, trouble, under>>

\* assignmentsFor: size and digest are the row's, the size the file's if there
\* is no row; what the repository no longer holds is not sent.
Promise(f) ==
    LET row == recorded[f]
    IN [file |-> f,
        size |-> Size[IF row = "none" THEN published[f] ELSE row],
        sha  |-> IF f \in Undigested THEN "none" ELSE row]

Offer == { Promise(f) : f \in { g \in assigned : published[g] # "none" } }

-----------------------------------------------------------------------------
(* Reconciling                                                             *)

Has(f) == store[f] # Nothing

\* What the runtime says it serves: Ollama is asked, the llama.cpp ingester
\* answers from memory.
Servable == { Name[f] : f \in IF runtime = "ollama" THEN serving ELSE known }

\* Mutant: what is on the disk counts as served.
Pending_AbsentOnly(reachable) == { p \in Offer : ~Has(p.file) }

\* Store.Pending: what is absent, and what is here but not served; nothing of
\* the second kind when the runtime cannot be asked.
Pending(reachable) ==
    { p \in Offer : ~Has(p.file) \/ (reachable /\ Name[p.file] \notin Servable) }

StartJob(todo) ==
    /\ up /\ job.at = "idle" /\ todo # {}
    /\ job' = [Idle EXCEPT !.at = "next", !.todo = todo]

\* The agent reports and reads its assignments from the answer.  While a job
\* runs, an answer changes nothing.
Report ==
    /\ StartJob(Pending(TRUE))
    /\ UNCHANGED <<server, disk, runtime, known, serving, up, trouble, under>>

ReportUnreachable ==
    /\ runtime = "ollama" /\ Trouble
    /\ StartJob(Pending(FALSE))
    /\ UNCHANGED <<server, disk, runtime, known, serving, up, under>>

Go(at) == job' = [job EXCEPT !.at = at]

\* Fetch is called for the next assignment (the order of names is left open).
NextItem ==
    /\ job.at = "next" /\ job.todo # {}
    /\ \E p \in job.todo :
        LET item(at, from) == [Idle EXCEPT !.at = at, !.todo = job.todo \ {p},
                                           !.want = p, !.attempt = 1, !.from = from]
        IN CASE Has(p.file) -> job' = item("ingest", Nothing) /\ UNCHANGED part
             [] ~Has(p.file) /\ mount[p.file] # Nothing ->
                    /\ job' = item("copy", mount[p.file])
                    /\ part' = [part EXCEPT ![p.file] = Nothing]
             [] OTHER -> job' = item("connect", Nothing) /\ UNCHANGED part
    /\ UNCHANGED <<server, store, mount, runtime, known, serving, up, trouble, under>>

JobDone ==
    /\ job.at = "next" /\ job.todo = {}
    /\ job' = Idle
    /\ UNCHANGED <<server, disk, runtime, known, serving, up, trouble, under>>

\* The store is full, a directory cannot be made, a rename fails: the
\* assignment still stands, and a later report tries again.
ItemFails ==
    /\ job.at \in {"copy", "connect", "install"} /\ Trouble
    /\ Go("next")
    /\ UNCHANGED <<server, disk, runtime, known, serving, up, under>>

-----------------------------------------------------------------------------
(* Transferring                                                            *)

f0 == job.want.file

\* One more chunk of the source reaches the part.
Grow == part' = [part EXCEPT ![f0] = [len |-> @.len + 1, of |-> @.of \cup job.from.of]]

\* verify: the length, and the digest if there is one.
RightLength(c) == c.len = job.want.size
RightDigest(c) == job.want.sha = "none" \/ c = Whole(job.want.sha)

CopyChunk ==
    /\ job.at = "copy" /\ part[f0].len < job.from.len
    /\ Grow
    /\ UNCHANGED <<server, store, mount, runtime, known, serving, up, job, trouble, under>>

\* copyFromMount ends, by itself or by an error: what does not verify is
\* removed, and the server is asked.
CopyEnds ==
    /\ job.at = "copy"
    /\ \/ part[f0].len = job.from.len /\ UNCHANGED trouble
       \/ Trouble
    /\ IF part[f0].len = job.from.len /\ RightLength(part[f0]) /\ RightDigest(part[f0])
          /\ trouble' = trouble
       THEN Go("install") /\ UNCHANGED part
       ELSE Go("connect") /\ part' = [part EXCEPT ![f0] = Nothing]
    /\ UNCHANGED <<server, store, mount, runtime, known, serving, up, under>>

\* An attempt failed: try again, up to fetchAttempts.
Again ==
    job' = IF job.attempt < MaxAttempts
           THEN [job EXCEPT !.at = "connect", !.attempt = @ + 1, !.from = Nothing]
           ELSE [job EXCEPT !.at = "next"]

\* transfer: the range from what is there.  At or past the end of the file the
\* server answers 416, which is taken for "already complete"; without a file
\* it answers 404.
Connect ==
    /\ job.at = "connect"
    /\ LET v == published[f0]
       IN CASE v = "none" -> Again
            [] v # "none" /\ part[f0].len > 0 /\ part[f0].len >= Size[v] -> Go("verify")
            [] OTHER -> job' = [job EXCEPT !.at = "stream", !.from = Whole(v)]
    /\ UNCHANGED <<server, disk, runtime, known, serving, up, trouble, under>>

StreamChunk ==
    /\ job.at = "stream" /\ part[f0].len < job.from.len
    /\ Grow
    /\ UNCHANGED <<server, store, mount, runtime, known, serving, up, job, trouble, under>>

\* The body ends: what has another length than promised "ended early".
StreamEnds ==
    /\ job.at = "stream" /\ part[f0].len = job.from.len
    /\ IF RightLength(part[f0]) THEN Go("verify") ELSE Again
    /\ UNCHANGED <<server, disk, runtime, known, serving, up, trouble, under>>

TransferFails ==
    /\ job.at \in {"connect", "stream"} /\ Trouble
    /\ Again
    /\ UNCHANGED <<server, disk, runtime, known, serving, up, under>>

\* Mutant: a part that has its length is not hashed.
Verify_LengthOnly ==
    /\ job.at = "verify"
    /\ IF RightLength(part[f0]) THEN Go("install") ELSE Go("next")
    /\ UNCHANGED <<server, disk, runtime, known, serving, up, trouble, under>>

\* A part of the wrong digest is discarded; one of the wrong length is not.
Verify ==
    /\ job.at = "verify"
    /\ IF RightLength(part[f0]) /\ RightDigest(part[f0]) THEN Go("install") ELSE Go("next")
    /\ part' = IF RightLength(part[f0]) /\ ~RightDigest(part[f0])
               THEN [part EXCEPT ![f0] = Nothing] ELSE part
    /\ UNCHANGED <<server, store, mount, runtime, known, serving, up, trouble, under>>

Install ==
    /\ job.at = "install"
    /\ store' = [store EXCEPT ![f0] = part[f0]]
    /\ part' = [part EXCEPT ![f0] = Nothing]
    /\ under' = [under EXCEPT ![f0] = job.want]
    /\ Go("ingest")
    /\ UNCHANGED <<server, mount, runtime, known, serving, up, trouble>>

-----------------------------------------------------------------------------
(* Making it servable                                                      *)

Namesakes(f) == { g \in Files : Name[g] = Name[f] }

\* The llama.cpp ingester notes the file and writes its config from all it
\* knows; Ollama takes the bytes under the file's name.
Ingest ==
    /\ job.at = "ingest"
    /\ IF runtime = "llamacpp"
       THEN known' = known \cup {f0} /\ serving' = known'
       ELSE serving' = (serving \ Namesakes(f0)) \cup {f0} /\ UNCHANGED known
    /\ Go("next")
    /\ UNCHANGED <<server, disk, runtime, up, trouble, under>>

\* The config cannot be written, or the import fails: the file is known all
\* the same.
IngestFails ==
    /\ job.at = "ingest" /\ Trouble
    /\ known' = IF runtime = "llamacpp" THEN known \cup {f0} ELSE known
    /\ Go("next")
    /\ UNCHANGED <<server, disk, runtime, serving, up, under>>

-----------------------------------------------------------------------------
(* The node                                                                *)

\* The agent stops or dies: its job and what it knew are gone.
Stop ==
    /\ up /\ Trouble
    /\ up' = FALSE /\ job' = Idle /\ known' = {}
    /\ UNCHANGED <<server, disk, runtime, serving, under>>

\* What a scan of the store finds complete.
Adopted == { f \in Files : store[f] # Nothing }

\* New: adopt puts what the store holds into the config, unless that is
\* nothing; Ollama keeps its own catalogue.
Restart ==
    /\ ~up
    /\ up' = TRUE
    /\ IF runtime = "llamacpp"
       THEN known' = Adopted /\ serving' = IF Adopted = {} THEN serving ELSE Adopted
       ELSE UNCHANGED <<known, serving>>
    /\ UNCHANGED <<server, disk, runtime, job, trouble, under>>

\* The operator copies a file into the store.
CopyIn(f, v) ==
    /\ Trouble /\ store[f] = Nothing
    /\ store' = [store EXCEPT ![f] = Whole(v)]
    /\ UNCHANGED <<server, part, mount, runtime, known, serving, up, job, under>>

\* The share comes, goes, holds another version or half a file.
MountChanges(f) ==
    /\ Trouble
    /\ \E c \in {Nothing} \cup { Whole(v) : v \in Versions }
                 \cup { [len |-> 1, of |-> {v}] : v \in Versions } :
        /\ c # mount[f]
        /\ mount' = [mount EXCEPT ![f] = c]
    /\ UNCHANGED <<server, store, part, runtime, known, serving, up, job, under>>

-----------------------------------------------------------------------------
JobStep ==
    \/ NextItem \/ JobDone \/ CopyChunk \/ CopyEnds \/ Connect \/ StreamChunk
    \/ StreamEnds \/ Verify \/ Install \/ Ingest

Next ==
    \/ \E f \in Files :
        \/ Record(f) \/ Assign(f) \/ Unassign(f) \/ MountChanges(f)
        \/ \E v \in Versions : CopyIn(f, v)
        \/ \E v \in Versions \cup {"none"} : Publish(f, v)
    \/ Report \/ ReportUnreachable \/ JobStep \/ ItemFails \/ TransferFails \/ IngestFails
    \/ Stop \/ Restart

Spec == Init /\ [][Next]_vars

\* The agent reports on every tick, the goroutine goes on (a stalled transfer
\* is one that fails), and the service manager starts the agent again.
FairSpec == Spec /\ WF_vars(Report) /\ WF_vars(JobStep) /\ WF_vars(Restart)

-----------------------------------------------------------------------------
(* Properties                                                              *)

\* A name in the store is never on half a file, and never on another file than
\* the server promised: what was fetched has the promised length and, when a
\* digest was published, the promised content, whatever was resumed, copied
\* from a share or replaced meanwhile.  And nothing is served but complete
\* files (fetch.go: verify, install; ingest.go: adopt).
OnlyWholeFiles ==
    /\ \A f \in Files : under[f] # NoPromise =>
        /\ store[f].len = under[f].size
        /\ under[f].sha # "none" => store[f] = Whole(under[f].sha)
    /\ serving \cup known \subseteq { f \in Files : store[f] # Nothing }

\* What keeps an assignment from being met until something changes: the row
\* describes another file than the repository's; a part is longer than the
\* file (verify keeps it, and every transfer ends in 416); the config was not
\* written and the ingester believes it was; another file has the same name.
Stuck(f) ==
    \/ published[f] = "none" \/ recorded[f] \notin {"none", published[f]}
    \/ part[f].len > Size[published[f]]
    \/ f \in known \ serving
    \/ \E g \in Namesakes(f) \ {f} : g \in serving \cup known

\* An assignment is met in the end, through lost connections, restarts, a bad
\* share and a failing runtime, without anybody asking again (main.go:
\* reconcile; store.go: Pending).
AssignedIsServed ==
    \A f \in Files : f \in assigned ~> f \in serving \/ f \notin assigned \/ Stuck(f)

=============================================================================
