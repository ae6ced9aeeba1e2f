------------------------------ MODULE Backups -------------------------------
(***************************************************************************)
(* Snapshots of the database (internal/utilities): written on a timer or   *)
(* on demand into a directory named by the second, reopened and checked,   *)
(* and, after those of the timer, thinned out to the newest few.           *)
(***************************************************************************)
EXTENDS Naturals, FiniteSets, FiniteSetsExt

CONSTANTS
    Seconds,        \* bound: the seconds a snapshot may be named by, 1 .. n
    Keep,           \* how many snapshots are retained (0: all)
    MaxTrouble      \* bound: failures, restarts

VARIABLES
    now,        \* the second it is
    copy,       \* what a directory holds: no directory, none, part, a copy
    manifest,   \* directories with a manifest
    task,       \* the backup of the timer, and one on demand
    trouble,    \* what happened so far of what MaxTrouble bounds
    reported,   \* history: was a backup ever reported as verified?
    sameSecond  \* history: was a backup begun over the directory of another?

vars == <<now, copy, manifest, task, trouble, reported, sameSecond>>

Callers == {"timer", "manual"}
Dirs == 1 .. Seconds
Idle == [at |-> "idle", dir |-> 1, doomed |-> {}]

TypeOK ==
    /\ now \in Dirs
    /\ copy \in [Dirs -> {"absent", "none", "part", "copy"}]
    /\ manifest \subseteq Dirs
    /\ task \in [Callers -> [at : {"idle", "vacuum", "writing", "check", "manifest", "list", "prune"},
                             dir : Dirs, doomed : SUBSET Dirs]]
    /\ trouble \in 0 .. MaxTrouble /\ reported \in BOOLEAN /\ sameSecond \in BOOLEAN

Init ==
    /\ now = 1
    /\ copy = [d \in Dirs |-> "absent"] /\ manifest = {}
    /\ task = [c \in Callers |-> Idle]
    /\ trouble = 0 /\ reported = FALSE /\ sameSecond = FALSE

Trouble == trouble < MaxTrouble /\ trouble' = trouble + 1
Present == { d \in Dirs : copy[d] # "absent" }
Go(c, at) == task' = [task EXCEPT ![c].at = at]
Return(c) == task' = [task EXCEPT ![c] = Idle]

Tick ==
    /\ now < Seconds
    /\ now' = now + 1
    /\ UNCHANGED <<copy, manifest, task, trouble, reported, sameSecond>>

RemoveAll(d) ==
    /\ copy' = [copy EXCEPT ![d] = "absent"]
    /\ manifest' = manifest \ {d}

-----------------------------------------------------------------------------
(* Backup                                                                  *)

\* MkdirAll does not mind a directory that is there.
Backup(c) ==
    /\ task[c].at = "idle"
    /\ task' = [task EXCEPT ![c] = [Idle EXCEPT !.at = "vacuum", !.dir = now]]
    /\ copy' = [copy EXCEPT ![now] = IF @ = "absent" THEN "none" ELSE @]
    /\ sameSecond' = (sameSecond \/ now \in Present)
    /\ UNCHANGED <<now, manifest, trouble, reported>>

\* BackupTo: VACUUM INTO refuses a file that is there, and then, as after any
\* other failure, the directory is removed - with the other's copy in it.
BackupTo(c) ==
    LET d == task[c].dir
    IN /\ task[c].at = "vacuum"
       /\ IF copy[d] = "none"
          THEN copy' = [copy EXCEPT ![d] = "part"] /\ Go(c, "writing") /\ UNCHANGED manifest
          ELSE RemoveAll(d) /\ Return(c)
       /\ UNCHANGED <<now, trouble, reported, sameSecond>>

Written(c) ==
    LET d == task[c].dir
    IN /\ task[c].at = "writing"
       /\ copy' = [copy EXCEPT ![d] = IF @ = "part" THEN "copy" ELSE @]
       /\ Go(c, "check")
       /\ UNCHANGED <<now, manifest, trouble, reported, sameSecond>>

\* A full disk, a cancelled request, a copy that does not verify: the
\* directory is removed.
BackupFails(c) ==
    /\ task[c].at \in {"vacuum", "writing", "check"} /\ Trouble
    /\ RemoveAll(task[c].dir) /\ Return(c)
    /\ UNCHANGED <<now, reported, sameSecond>>

\* A file that cannot be read back, or a manifest that cannot be written: the
\* error is returned and the directory left.
LeftBehind(c) ==
    /\ task[c].at \in {"check", "manifest"} /\ Trouble
    /\ Return(c)
    /\ UNCHANGED <<now, copy, manifest, reported, sameSecond>>

\* verifySnapshot; a file that is gone is an error.
VerifySnapshot(c) ==
    /\ task[c].at = "check"
    /\ IF copy[task[c].dir] = "copy" THEN Go(c, "manifest") ELSE Return(c)
    /\ UNCHANGED <<now, copy, manifest, trouble, reported, sameSecond>>

\* writeManifest: the backup is reported, and the timer's turns to retention.
WriteManifest(c) ==
    LET d == task[c].dir
    IN /\ task[c].at = "manifest"
       /\ IF copy[d] = "absent" THEN Return(c) /\ UNCHANGED <<manifest, reported>>
          ELSE /\ manifest' = manifest \cup {d} /\ reported' = TRUE
               /\ IF c = "timer" /\ Keep > 0 THEN Go(c, "list") ELSE Return(c)
       /\ UNCHANGED <<now, copy, trouble, sameSecond>>

-----------------------------------------------------------------------------
(* Retention                                                               *)

Newer(d) == { e \in Present : e > d }

\* Mutant: the names are sorted the other way round.
Doomed_Newest == { d \in Present : Cardinality(Present \ Newer(d)) > Keep }

\* All but the newest, by name, whatever they hold.
Doomed == { d \in Present : Cardinality(Newer(d)) >= Keep }

PruneBackups ==
    /\ task["timer"].at = "list"
    /\ task' = [task EXCEPT !["timer"].at = "prune", !["timer"].doomed = Doomed]
    /\ UNCHANGED <<now, copy, manifest, trouble, reported, sameSecond>>

\* One directory after the other, until one cannot be removed.
RemoveOld ==
    LET old == task["timer"].doomed
    IN /\ task["timer"].at = "prune"
       /\ IF old = {} THEN Return("timer") /\ UNCHANGED <<copy, manifest, trouble>>
          ELSE \/ /\ RemoveAll(Min(old)) /\ UNCHANGED trouble
                  /\ task' = [task EXCEPT !["timer"].doomed = old \ {Min(old)}]
               \/ Trouble /\ Return("timer") /\ UNCHANGED <<copy, manifest>>
       /\ UNCHANGED <<now, reported, sameSecond>>

\* The server stops in whatever it was doing, and starts again.
Restart ==
    /\ Trouble
    /\ task' = [c \in Callers |-> Idle]
    /\ UNCHANGED <<now, copy, manifest, reported, sameSecond>>

-----------------------------------------------------------------------------
Next ==
    \/ Tick \/ PruneBackups \/ RemoveOld \/ Restart
    \/ \E c \in Callers :
        \/ Backup(c) \/ BackupTo(c) \/ Written(c) \/ BackupFails(c) \/ LeftBehind(c)
        \/ VerifySnapshot(c) \/ WriteManifest(c)

Spec == Init /\ [][Next]_vars

-----------------------------------------------------------------------------
(* Properties                                                              *)

\* "Having no backup at all is worse": once a backup was reported as verified
\* there is always a complete copy, whatever was thinned out, failed, was cut
\* short or ran at once, unless two backups fell into the same second
\* (service.go: Backup; backup.go: PruneBackups).
NeverWithoutBackup == reported /\ ~sameSecond => \E d \in Dirs : copy[d] = "copy"

=============================================================================
