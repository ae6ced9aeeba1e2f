----------------------------- MODULE ModelRepo ------------------------------
(***************************************************************************)
(* The model repository: background jobs that fetch a published model file *)
(* (internal/modelrepo/download.go) or fetch a release shard by shard and  *)
(* convert it (convert.go), under the job registry (jobs.go), beside the   *)
(* operator's deletions (repo.go) and the provenance rows                  *)
(* (internal/store/modelrepo.go).                                          *)
(*                                                                         *)
(* A file is known by its length in chunks and by the versions its chunks  *)
(* came from, so a file that was resumed onto the bytes of another version *)
(* shows as a mixture.  A digest is as good as the file it was taken of.   *)
(* Every file has a .part beside it while it is being fetched; files,      *)
(* parts and rows survive a restart, jobs do not.                          *)
(***************************************************************************)
EXTENDS Naturals, FiniteSets

CONSTANTS
    Jobs,           \* background jobs, each started at most once
    Revisions,      \* what a request may be pinned to
    Versions,       \* the contents a revision may name
    Size,           \* the length of a version's files, in chunks
    Shards,         \* the files of a release
    Digests,        \* does the Hub publish a digest of a model file?
    MaxAttempts,    \* download.go: maxAttempts
    MaxUploads      \* bound: how often a revision is moved

\* "gguf" is a downloaded model, "f16" a converted one, "out" what the
\* converter writes in the staging directory.
Models  == {"gguf", "f16"}
Fetched == Shards \cup {"gguf"}
Files   == Shards \cup {"gguf", "f16", "out"}

VARIABLES
    hub,        \* the version each revision names now
    uploads,    \* bound: how often a revision has moved
    file,       \* the repository and staging files, by name
    part,       \* the .part files
    row,        \* store: the recorded digest of each model
    job,        \* the jobs and the goroutines behind them
    forgetting, \* Repo.Delete between the unlink and its store write
    torn        \* history: models whose record was interrupted

disk == <<file, part, row>>
vars == <<hub, uploads, file, part, row, job, forgetting, torn>>

File    == [there : BOOLEAN, len : Nat, from : SUBSET Versions]
Nothing == [there |-> FALSE, len |-> 0, from |-> {}]

Whole(v) == [there |-> TRUE, len |-> Size[v], from |-> {v}]

\* A row that records no digest.
Unverified == [there |-> TRUE, len |-> 0, from |-> {}]

Job == [state : {"none", "running", "done", "failed", "cancelled", "lost"},
        kind : {"download", "convert"}, rev : Revisions,
        step : {"none", "list", "pick", "connect", "copy", "verify",
                "convert", "install", "hash", "record"},
        todo : SUBSET Shards,   \* convert: the release files not looked at
        at : Fetched,           \* the file being fetched
        want : Versions,        \* convert: the version that was listed
        served : Versions,      \* the version this attempt is answered with
        sum : File,             \* the digest to record
        attempt : 0 .. MaxAttempts,
        stopped : BOOLEAN,      \* its context has been cancelled
        unlinked : BOOLEAN,     \* the open .part has been deleted under it
        installed : BOOLEAN]    \* history: it gave its model the real name

TypeOK ==
    /\ hub \in [Revisions -> Versions]
    /\ uploads \in 0 .. MaxUploads
    /\ file \in [Files -> File]
    /\ part \in [Fetched -> File]
    /\ row \in [Models -> File]
    /\ job \in [Jobs -> Job]
    /\ forgetting \subseteq Models
    /\ torn \subseteq Models

Alive(j) == job[j].state = "running"

Target(kind) == IF kind = "download" THEN "gguf" ELSE "f16"

Step(j, step) == job' = [job EXCEPT ![j].step = step]

\* What a goroutine starts from.
Fresh == [state |-> "none", kind |-> "download",
          rev |-> CHOOSE r \in Revisions : TRUE, step |-> "none",
          todo |-> {}, at |-> "gguf",
          want |-> CHOOSE v \in Versions : TRUE,
          served |-> CHOOSE v \in Versions : TRUE,
          sum |-> Nothing, attempt |-> 0, stopped |-> FALSE,
          unlinked |-> FALSE, installed |-> FALSE]

Ended(j, state) == [Fresh EXCEPT !.state = state, !.kind = job[j].kind,
                                 !.installed = job[j].installed]

\* Jobs.Finish: only the entry of the registry is left.
Finish(j, state) == job' = [job EXCEPT ![j] = Ended(j, state)]

-----------------------------------------------------------------------------
(* The registry                                                            *)

\* Jobs.Start: one running job per path.
Start(j, kind, rev, first) ==
    /\ job[j].state = "none"
    /\ \A k \in Jobs : ~(Alive(k) /\ job[k].kind = kind)
    /\ job' = [job EXCEPT ![j] = [job[j] EXCEPT
                 !.state = "running", !.kind = kind, !.rev = rev,
                 !.step = first, !.attempt = 1]]
    /\ UNCHANGED <<hub, uploads, disk, forgetting, torn>>

\* Downloader.Start, for a valid request.
BeginDownload(j, rev) == Start(j, "download", rev, "connect")

\* StartConvert does not convert onto a name that is taken.
BeginConvert(j, rev) == ~file["f16"].there /\ Start(j, "convert", rev, "list")

\* Mutant: the state is set by Cancel, not by the transfer as it unwinds.
Cancel_SetsState(j) ==
    /\ Alive(j) /\ ~job[j].stopped
    /\ job' = [job EXCEPT ![j] = [job[j] EXCEPT !.stopped = TRUE,
                                                !.state = "cancelled"]]
    /\ UNCHANGED <<hub, uploads, disk, forgetting, torn>>

\* Jobs.Cancel only cancels the context; the transfer sets the state.
Cancel(j) ==
    /\ Alive(j) /\ ~job[j].stopped
    /\ job' = [job EXCEPT ![j].stopped = TRUE]
    /\ UNCHANGED <<hub, uploads, disk, forgetting, torn>>

-----------------------------------------------------------------------------
(* One attempt at one file (transfer and copy)                             *)

\* The server answers with the whole file, or with the rest of it and the
\* part file is appended to.  Nothing left to send (416) is taken to mean that
\* the part file is complete.
Connect(j) ==
    /\ job[j].step = "connect" /\ ~job[j].stopped
    /\ LET f    == job[j].at
           v    == hub[job[j].rev]
           have == part[f].len
       IN \/ \E keep \in {0, have} :
                /\ keep < Size[v]
                /\ part' = [part EXCEPT ![f] =
                              [there |-> TRUE, len |-> keep,
                               from |-> IF keep = 0 THEN {} ELSE part[f].from]]
                /\ job' = [job EXCEPT ![j] = [job[j] EXCEPT
                             !.step = "copy", !.served = v,
                             !.unlinked = FALSE]]
          \/ /\ have > 0 /\ have >= Size[v]
             /\ job' = [job EXCEPT ![j] = [job[j] EXCEPT
                          !.step = "verify", !.served = v]]
             /\ UNCHANGED part
    /\ UNCHANGED <<hub, uploads, file, row, forgetting, torn>>

\* A chunk arrives.  Into a part file that was deleted under the transfer the
\* rest arrives unseen.
Copy(j) ==
    LET f    == job[j].at
        v    == job[j].served
        last == job[j].unlinked \/ part[f].len + 1 = Size[v]
    IN /\ job[j].step = "copy" /\ ~job[j].stopped
       /\ part' = IF job[j].unlinked THEN part
                  ELSE [part EXCEPT ![f] = [part[f] EXCEPT
                          !.len = part[f].len + 1, !.from = part[f].from \cup {v}]]
       /\ Step(j, IF last THEN "verify" ELSE "copy")
       /\ UNCHANGED <<hub, uploads, file, row, forgetting, torn>>

\* Mutant: attempts are not counted.
AttemptFails_Forever(j) ==
    /\ job[j].step \in {"connect", "copy"} /\ ~job[j].stopped
    /\ Step(j, "connect")
    /\ UNCHANGED <<hub, uploads, disk, forgetting, torn>>

\* The attempt fails: refused, dropped, ended early, no room.  The next one
\* starts from what is on disk; the last one ends the job.
AttemptFails(j) ==
    /\ job[j].step \in {"connect", "copy"} /\ ~job[j].stopped
    /\ IF job[j].attempt < MaxAttempts
       THEN job' = [job EXCEPT ![j] = [job[j] EXCEPT
                      !.attempt = job[j].attempt + 1, !.step = "connect"]]
       ELSE Finish(j, "failed")
    /\ UNCHANGED <<hub, uploads, disk, forgetting, torn>>

\* The cancelled context ends a transfer, the sleep before it or the
\* converter; the part files stay.
Unwind(j) ==
    /\ job[j].step \in {"pick", "connect", "copy", "convert"}
    /\ job[j].stopped
    /\ file' = IF job[j].step = "convert"
               THEN [file EXCEPT !["out"] = Nothing] ELSE file
    /\ Finish(j, "cancelled")
    /\ UNCHANGED <<hub, uploads, part, row, forgetting, torn>>

-----------------------------------------------------------------------------
(* A download (run)                                                        *)

Download(j, step) == job[j].step = step /\ job[j].kind = "download"

\* The digest the Hub sends along with a version, where it has one.
PublishedDigest(v) == IF Digests THEN Whole(v) ELSE Unverified

\* The published digest is compared with the bytes on disk, if there is one.
\* A mismatch discards them; a hash that a cancellation cuts short keeps them
\* and fails the job.
Verify(j) ==
    LET p      == part["gguf"]
        digest == PublishedDigest(job[j].served)
    IN /\ Download(j, "verify")
       /\ IF digest # Unverified /\ (job[j].stopped \/ p # digest)
          THEN /\ part' = IF job[j].stopped THEN part
                          ELSE [part EXCEPT !["gguf"] = Nothing]
               /\ Finish(j, "failed")
          ELSE /\ job' = [job EXCEPT ![j] = [job[j] EXCEPT
                             !.step = "install", !.sum = digest]]
               /\ UNCHANGED part
       /\ UNCHANGED <<hub, uploads, file, row, forgetting, torn>>

\* The rename.  It fails when the part file has been deleted.
Install(j) ==
    LET p == part["gguf"]
    IN /\ Download(j, "install")
       /\ IF p.there
          THEN /\ file' = [file EXCEPT !["gguf"] = p]
               /\ part' = [part EXCEPT !["gguf"] = Nothing]
               /\ job' = [job EXCEPT ![j] = [job[j] EXCEPT
                             !.step = "record", !.installed = TRUE]]
          ELSE /\ Finish(j, "failed")
               /\ UNCHANGED <<file, part>>
       /\ UNCHANGED <<hub, uploads, row, forgetting, torn>>

\* Mutant: a row that exists already is left alone.
Record_OnConflictNothing(j) ==
    LET m == Target(job[j].kind)
    IN /\ job[j].step = "record"
       /\ row' = IF row[m].there THEN row ELSE [row EXCEPT ![m] = job[j].sum]
       /\ torn' = torn \ {m}
       /\ Finish(j, "done")
       /\ UNCHANGED <<hub, uploads, file, part, forgetting>>

\* RecordRepoFile, on a context that cannot be cancelled; a failure is only
\* logged, and the job is done either way.
Record(j) ==
    LET m == Target(job[j].kind)
    IN /\ job[j].step = "record"
       /\ \/ row' = [row EXCEPT ![m] = job[j].sum] /\ torn' = torn \ {m}
          \/ torn' = torn \cup {m} /\ UNCHANGED row
       /\ Finish(j, "done")
       /\ UNCHANGED <<hub, uploads, file, part, forgetting>>

-----------------------------------------------------------------------------
(* A conversion (runConvert)                                               *)

\* The release is listed; a listing that fails, or is cancelled, fails the
\* job.
List(j) ==
    /\ job[j].step = "list"
    /\ \/ /\ ~job[j].stopped
          /\ job' = [job EXCEPT ![j] = [job[j] EXCEPT !.step = "pick",
                       !.todo = Shards, !.want = hub[job[j].rev]]]
       \/ Finish(j, "failed")
    /\ UNCHANGED <<hub, uploads, disk, forgetting, torn>>

\* A staged file of the listed size is kept, any other is fetched.
Pick(j) ==
    /\ job[j].step = "pick" /\ ~job[j].stopped
    /\ IF job[j].todo = {}
       THEN Step(j, "convert")
       ELSE \E s \in job[j].todo :
              job' = [job EXCEPT ![j] = [job[j] EXCEPT
                        !.todo = job[j].todo \ {s}, !.at = s, !.attempt = 1,
                        !.step = IF /\ file[s].there
                                    /\ file[s].len = Size[job[j].want]
                                 THEN "pick" ELSE "connect"]]
    /\ UNCHANGED <<hub, uploads, disk, forgetting, torn>>

\* fetchInto: no digest is published for a shard, so it is simply renamed.
NameShard(j) ==
    LET s == job[j].at
    IN /\ job[j].step = "verify" /\ job[j].kind = "convert"
       /\ file' = [file EXCEPT ![s] = part[s]]
       /\ part' = [part EXCEPT ![s] = Nothing]
       /\ Step(j, "pick")
       /\ UNCHANGED <<hub, uploads, row, forgetting, torn>>

\* The converter turns what is staged into one file, or fails.
Convert(j) ==
    /\ job[j].step = "convert" /\ ~job[j].stopped
    /\ \/ /\ file' = [file EXCEPT !["out"] =
                        [there |-> TRUE, len |-> 1,
                         from |-> UNION { file[s].from : s \in Shards }]]
          /\ Step(j, "install")
       \/ /\ file' = [file EXCEPT !["out"] = Nothing]
          /\ Finish(j, "failed")
    /\ UNCHANGED <<hub, uploads, part, row, forgetting, torn>>

Unstaged(f) == [x \in Files |-> IF x \in Shards \cup {"out"} THEN Nothing
                                ELSE f[x]]

\* The release is cleared away once the model it produced exists.
ClearStage(f) ==
    /\ file' = Unstaged(f)
    /\ part' = [x \in Fetched |-> IF x \in Shards THEN Nothing ELSE part[x]]

\* fileConverted: a rename, and the file is hashed in place; or, from another
\* filesystem, a copy that is hashed on the way and then renamed.
InstallConverted(j) ==
    /\ job[j].step = "install" /\ job[j].kind = "convert"
    /\ \/ /\ file' = [file EXCEPT !["f16"] = file["out"], !["out"] = Nothing]
          /\ job' = [job EXCEPT ![j] = [job[j] EXCEPT
                       !.step = "hash", !.installed = TRUE]]
          /\ UNCHANGED part
       \/ /\ ~job[j].stopped
          /\ ClearStage([file EXCEPT !["f16"] = file["out"]])
          /\ job' = [job EXCEPT ![j] = [job[j] EXCEPT !.step = "record",
                       !.sum = file["out"], !.installed = TRUE]]
       \/ /\ Finish(j, "failed")
          /\ UNCHANGED <<file, part>>
    /\ UNCHANGED <<hub, uploads, row, forgetting, torn>>

\* The hash of the file in place.  Cut short, it fails the job and leaves the
\* model where it is, with no row of its own.
Hash(j) ==
    /\ job[j].step = "hash"
    /\ IF job[j].stopped \/ ~file["f16"].there
       THEN /\ Finish(j, "failed")
            /\ torn' = torn \cup {"f16"}
            /\ UNCHANGED <<file, part>>
       ELSE /\ ClearStage(file)
            /\ job' = [job EXCEPT ![j] = [job[j] EXCEPT
                          !.step = "record", !.sum = file["f16"]]]
            /\ UNCHANGED torn
    /\ UNCHANGED <<hub, uploads, row, forgetting>>

-----------------------------------------------------------------------------
(* The operator, the publisher and the process                             *)

\* Repo.Delete removes the file first, if it is still there (bounds: one deletion
\* of a model at a time, and of a model the store or the disk knows) ...
Delete(m) ==
    /\ m \notin forgetting
    /\ file[m].there \/ row[m].there
    /\ file' = [file EXCEPT ![m] = Nothing]
    /\ forgetting' = forgetting \cup {m}
    /\ UNCHANGED <<hub, uploads, part, row, job, torn>>

\* ... and then what was recorded about it, if the store will.
Forget(m) ==
    /\ m \in forgetting
    /\ forgetting' = forgetting \ {m}
    /\ \/ row' = [row EXCEPT ![m] = Nothing] /\ UNCHANGED torn
       \/ torn' = torn \cup {m} /\ UNCHANGED row
    /\ UNCHANGED <<hub, uploads, file, part, job>>

\* Repo.Delete of a partial download, running or not.
DeletePart ==
    /\ part["gguf"].there
    /\ part' = [part EXCEPT !["gguf"] = Nothing]
    /\ job' = [j \in Jobs |->
                 IF job[j].step = "copy" /\ job[j].at = "gguf"
                 THEN [job[j] EXCEPT !.unlinked = TRUE] ELSE job[j]]
    /\ UNCHANGED <<hub, uploads, file, row, forgetting, torn>>

\* A publisher moves a revision.
Upload ==
    /\ uploads < MaxUploads
    /\ \E r \in Revisions, v \in Versions :
         v # hub[r] /\ hub' = [hub EXCEPT ![r] = v]
    /\ uploads' = uploads + 1
    /\ UNCHANGED <<disk, job, forgetting, torn>>

\* The process ends: jobs and half-done deletions are lost.
Restart ==
    /\ job' = [j \in Jobs |->
                 IF Alive(j) THEN Ended(j, "lost") ELSE job[j]]
    /\ forgetting' = {}
    /\ torn' = torn \cup forgetting
                \cup { Target(job[j].kind) :
                         j \in { k \in Jobs :
                                   job[k].step \in {"hash", "record"} } }
    /\ UNCHANGED <<hub, uploads, disk>>

-----------------------------------------------------------------------------
Init ==
    /\ hub \in [Revisions -> Versions]
    /\ uploads = 0
    /\ file = [f \in Files |-> Nothing]
    /\ part = [f \in Fetched |-> Nothing]
    /\ row = [m \in Models |-> Nothing]
    /\ job = [j \in Jobs |-> Fresh]
    /\ forgetting = {}
    /\ torn = {}

Transfer(j) == Connect(j) \/ Copy(j) \/ AttemptFails(j) \/ Unwind(j)

Run(j) == Transfer(j) \/ Verify(j) \/ Install(j) \/ Record(j)

RunConvert(j) ==
    \/ List(j) \/ Pick(j) \/ NameShard(j) \/ Convert(j)
    \/ InstallConverted(j) \/ Hash(j)

\* The steps of a job: each needs a place in its own kind.
Work(j) == Run(j) \/ RunConvert(j)

Next ==
    \/ \E j \in Jobs :
         \/ \E rev \in Revisions : BeginDownload(j, rev) \/ BeginConvert(j, rev)
         \/ Cancel(j)
         \/ Work(j)
    \/ \E m \in Models : Delete(m) \/ Forget(m)
    \/ DeletePart \/ Upload \/ Restart

Spec == Init /\ [][Next]_vars

\* A goroutine that can go on does; an attempt that hangs is ended by its
\* connection failing.
FairSpec == Spec /\ \A j \in Jobs : WF_vars(Work(j))

-----------------------------------------------------------------------------
(* Properties                                                              *)

\* A downloaded model that carries its real name is one version, complete:
\* whatever was resumed, moved, cancelled or deleted, a transfer that went
\* wrong never takes the name of a working model (run, verify).  Needs a
\* published digest.
NamedIsWhole ==
    file["gguf"].there => \E v \in Versions : file["gguf"] = Whole(v)

\* No two goroutines write the same file, not even while one that was
\* cancelled is still unwinding (Jobs.Start, Jobs.Cancel).
OneWriter ==
    \A j, k \in Jobs :
        /\ j # k
        /\ job[j].step # "none" /\ job[k].step # "none"
        => job[j].kind # job[k].kind

\* A download that put its file in place ends as done.
InstalledIsDone ==
    \A j \in Jobs :
        job[j].kind = "download" /\ job[j].installed =>
            job[j].state \in {"running", "done", "lost"}

\* What is on record is true.  The digest a fleet node is told to check a model
\* against is the digest of the file it will be served, except where a crash, a
\* failed store write or a hash cut short fell between the file and its row;
\* and an operator is never told that a download was cancelled or failed when
\* its file is in place.
RowsTruthful ==
    /\ InstalledIsDone
    /\ \A m \in Models \ (torn \cup forgetting) :
           /\ file[m].there /\ row[m].there /\ row[m] # Unverified
           /\ \A j \in Jobs :
                job[j].step \in {"hash", "record"} => Target(job[j].kind) # m
           => row[m] = file[m]

\* A job ends: attempts are bounded and a cancellation is always noticed.
JobsEnd == \A j \in Jobs : Alive(j) ~> ~Alive(j)

\* A converted model is made of one version of its release.
ConvertedFromOne == Cardinality(file["f16"].from) <= 1

=============================================================================
