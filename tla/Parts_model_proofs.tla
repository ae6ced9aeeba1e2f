------------------------- MODULE Parts_model_proofs --------------------------
(***************************************************************************)
(* Theorems about four more parts, for every value of their constants:     *)
(* what the repository downloads, what the portfolio's ledger accounts     *)
(* for, what a grading promises of a machine and what a turn is told.      *)
(***************************************************************************)
EXTENDS Parts, Sequences, Collections

\* A step is one of the subject, and leaves the other parts as they are.
LEMMA OnlyMoves ==
    ASSUME NEW p, Only(p)
    PROVE  /\ p # "repo" => UNCHANGED repoVars
           /\ p # "trades" => UNCHANGED tradeVars
           /\ p # "fit" => UNCHANGED gradeVars
           /\ p # "search" => UNCHANGED searchVars
BY DEF Only

\* A step of the whole is, for each part of this module, one of its own or none.
LEMMA Steps ==
    ASSUME [Next]_vars
    PROVE  /\ Repo!Next \/ UNCHANGED repoVars
           /\ Trades!Next \/ UNCHANGED tradeVars
           /\ Grades!Next \/ UNCHANGED gradeVars
           /\ Searches!Next \/ UNCHANGED searchVars
<1>1. CASE UNCHANGED vars
  BY <1>1 DEF vars
<1>2. CASE Only("repo") /\ Repo!Next
  BY <1>2, OnlyMoves
<1>3. CASE Only("trades") /\ Trades!Next
  BY <1>3, OnlyMoves
<1>4. CASE Only("fit") /\ Grades!Next
  BY <1>4, OnlyMoves
<1>5. CASE Only("search") /\ Searches!Next
  BY <1>5, OnlyMoves
<1>6. CASE \E p \in {"alerts", "decoys", "libraries", "reviews",
                       "models", "nodes", "copies", "exports",
                       "todo", "treasury"} : Only(p)
  BY <1>6, OnlyMoves
<1> QED
  BY <1>1, <1>2, <1>3, <1>4, <1>5, <1>6 DEF Next

-----------------------------------------------------------------------------
(* The model repository.  Of the jobs of a kind one runs at a time, so      *)
(* what it has measured is still so when it acts on it, unless the file     *)
(* was deleted; and a row says what its file is, except where the two were  *)
(* changed and not recorded.                                                *)

JobFields == {"state", "kind", "rev", "step", "todo", "at", "want", "served", "sum",
              "attempt", "stopped", "unlinked", "installed"}

RepoTypes ==
    /\ hub \in [Revisions -> Versions]
    /\ repoFile = [f \in Repo!Files |-> repoFile[f]]
    /\ repoPart = [f \in Repo!Fetched |-> repoPart[f]]
    /\ repoRow = [m \in Repo!Models |-> repoRow[m]]
    /\ repoJob = [j \in Jobs |-> repoJob[j]]
    /\ \A j \in Jobs : JobFields \subseteq DOMAIN repoJob[j]

\* A job by itself.
JobOrder(q) ==
    /\ q.state = "running" <=> q.step # "none"
    /\ q.state = "none" => ~q.installed /\ q.at = "gguf"
    /\ q.kind \in {"download", "convert"}
    /\ q.step \in {"list", "pick", "convert", "hash"} => q.kind = "convert"
    /\ q.todo \subseteq Shards
    /\ q.kind = "download" => q.at = "gguf"
    /\ q.kind = "convert" /\ q.step \in {"connect", "copy", "verify"} => q.at \in Shards
    /\ q.step # "none" => q.rev \in Revisions
    /\ q.step \in {"copy", "verify"} => q.served \in Versions
    /\ q.kind = "download" /\ q.installed =>
           q.state \in {"done", "lost"} \/ q.step = "record"

\* A job and what it has measured: the part file before the rename, the model
\* after it.
Measured(q, files, parts) ==
    /\ q.kind = "download" /\ q.step = "install" =>
        /\ q.sum = Repo!Unverified \/ parts["gguf"] \in {q.sum, Repo!Nothing}
        /\ Digests => \E v \in Versions : q.sum = Repo!Whole(v)
    /\ q.step = "record" /\ q.sum # Repo!Unverified =>
        \A m \in {Repo!Target(q.kind)} : files[m].there => files[m] = q.sum

OneOfAKind ==
    \A j, k \in Jobs :
        repoJob[j].step # "none" /\ repoJob[k].step # "none"
        /\ repoJob[j].kind = repoJob[k].kind => j = k

\* A job has yet to tell of m.
Telling(m) ==
    \E j \in Jobs : repoJob[j].step \in {"hash", "record"} /\ Repo!Target(repoJob[j].kind) = m

RowTrue(m) ==
    /\ m \notin tornRows \cup forgetting /\ ~Telling(m)
    /\ repoFile[m].there /\ repoRow[m].there /\ repoRow[m] # Repo!Unverified
    => repoRow[m] = repoFile[m]

JobsInv == \A j \in Jobs : JobOrder(repoJob[j]) /\ Measured(repoJob[j], repoFile, repoPart)

RepoInv ==
    /\ RepoTypes /\ JobsInv /\ OneOfAKind
    /\ \A m \in Repo!Models : RowTrue(m)
    /\ Digests => Repo!NamedIsWhole

LEMMA RepoDigests ==
    /\ ~Repo!Nothing.there /\ Repo!Unverified.there /\ Repo!Unverified # Repo!Nothing
    /\ \A v \in Versions : Repo!Whole(v).there /\ Repo!Whole(v) # Repo!Unverified
<1>1. ASSUME NEW v \in Versions PROVE Repo!Whole(v) # Repo!Unverified
  <2>1. Size[v] # 0
    BY PartsAssumption
  <2>2. Repo!Whole(v).len = Size[v] /\ Repo!Unverified.len = 0
    BY DEF Repo!Whole, Repo!Unverified
  <2> QED
    BY <2>1, <2>2
<1> QED
  BY <1>1 DEF Repo!Nothing, Repo!Unverified, Repo!Whole

LEMMA RepoNames ==
    /\ Shards \subseteq Repo!Fetched /\ Shards \subseteq Repo!Files
    /\ Repo!Models \subseteq Repo!Files /\ "gguf" \in Repo!Fetched /\ "out" \in Repo!Files
    /\ \A s \in Shards : s \notin Repo!Models /\ s # "gguf"
    /\ "out" \notin Repo!Models /\ "gguf" # "f16"
    /\ \A k \in {"download", "convert"} : Repo!Target(k) \in Repo!Models
    /\ Repo!Target("download") = "gguf" /\ Repo!Target("convert") = "f16"
BY PartsAssumption DEF Repo!Fetched, Repo!Files, Repo!Models, Repo!Target

\* A job turns from what it was to what it is.
LEMMA JobTurns ==
    ASSUME RepoTypes, NEW j \in Jobs, NEW new, repoJob' = [repoJob EXCEPT ![j] = new]
    PROVE  /\ repoJob'[j] = new /\ \A k \in Jobs : k # j => repoJob'[k] = repoJob[k]
           /\ repoJob' = [k \in Jobs |-> repoJob'[k]]
           /\ JobFields \subseteq DOMAIN new =>
                  \A k \in Jobs : JobFields \subseteq DOMAIN repoJob'[k]
BY DEF RepoTypes

\* The step of a job that leaves the models and their rows alone.
LEMMA JobGoesOn ==
    ASSUME RepoInv, NEW j \in Jobs, NEW new, repoJob' = [repoJob EXCEPT ![j] = new],
           JobFields \subseteq DOMAIN new, JobOrder(new), Measured(new, repoFile', repoPart'),
           new.kind = repoJob[j].kind, repoJob[j].step # "none",
           repoJob[j].step \notin {"hash", "record"} \/ new.step = "record",
           UNCHANGED <<hub, repoRow, forgetting, tornRows>>,
           repoFile' = [f \in Repo!Files |-> repoFile'[f]],
           repoPart' = [f \in Repo!Fetched |-> repoPart'[f]],
           \A m \in Repo!Models : repoFile'[m] = repoFile[m],
           repoJob[j].kind = "download" \/ repoPart'["gguf"] = repoPart["gguf"]
    PROVE  RepoInv'
<1>1. /\ repoJob'[j] = new /\ \A k \in Jobs : k # j => repoJob'[k] = repoJob[k]
      /\ RepoTypes'
  BY JobTurns DEF RepoTypes, RepoInv
<1>2. OneOfAKind'
  BY <1>1 DEF RepoInv, OneOfAKind
<1>3. ASSUME NEW k \in Jobs
      PROVE  JobOrder(repoJob'[k]) /\ Measured(repoJob'[k], repoFile', repoPart')
  <2>1. CASE k = j
    BY <1>1, <2>1
  <2>2. CASE k # j
    <3>1. repoJob'[k] = repoJob[k] /\ JobOrder(repoJob[k])
          /\ Measured(repoJob[k], repoFile, repoPart)
      BY <1>1, <2>2 DEF RepoInv, JobsInv
    <3>2. repoJob[k].kind = "download" /\ repoJob[k].step = "install" =>
              repoPart'["gguf"] = repoPart["gguf"]
      BY <2>2 DEF RepoInv, OneOfAKind
    <3>3. Repo!Target(repoJob[k].kind) \in Repo!Models
      BY <3>1, RepoNames DEF JobOrder
    <3> QED
      BY <3>1, <3>2, <3>3 DEF Measured
  <2> QED
    BY <2>1, <2>2
<1>4. JobsInv'
  BY <1>3 DEF JobsInv
<1>5. ASSUME NEW m \in Repo!Models PROVE RowTrue(m)'
  <2>1. Telling(m) => Telling(m)'
    BY <1>1 DEF Telling
  <2> QED
    BY <2>1 DEF RepoInv, RowTrue
<1>6. Digests => Repo!NamedIsWhole'
  BY RepoNames DEF RepoInv, Repo!NamedIsWhole, Repo!Models
<1> QED
  BY <1>1, <1>2, <1>4, <1>5, <1>6 DEF RepoInv

LEMMA JobEnds ==
    ASSUME RepoInv, NEW j \in Jobs, NEW state \in {"failed", "cancelled"},
           Repo!Finish(j, state), repoJob[j].step \notin {"none", "hash", "record"},
           UNCHANGED <<hub, repoRow, forgetting, tornRows>>,
           repoFile' = [f \in Repo!Files |-> repoFile'[f]],
           repoPart' = [f \in Repo!Fetched |-> repoPart'[f]],
           \A m \in Repo!Models : repoFile'[m] = repoFile[m],
           repoJob[j].kind = "download" \/ repoPart'["gguf"] = repoPart["gguf"]
    PROVE  RepoInv'
<1>1. PICK new : new = Repo!Ended(j, state)
  OBVIOUS
<1>2. repoJob' = [repoJob EXCEPT ![j] = new]
  BY <1>1 DEF Repo!Finish
<1>3. /\ JobFields \subseteq DOMAIN new /\ new.step = "none" /\ new.state = state
      /\ new.kind = repoJob[j].kind /\ new.installed = repoJob[j].installed
      /\ new.at = "gguf" /\ new.todo = {}
  BY <1>1 DEF Repo!Ended, Repo!Fresh, JobFields
<1>4. JobOrder(repoJob[j])
  BY DEF RepoInv, JobsInv
<1>5. JobOrder(new) /\ Measured(new, repoFile', repoPart')
  BY <1>3, <1>4 DEF JobOrder, Measured
<1> QED
  BY <1>2, <1>3, <1>5, JobGoesOn

\* The registry starts what is not running yet.
LEMMA JobStarts ==
    ASSUME RepoInv, NEW j \in Jobs, NEW kind \in {"download", "convert"},
           NEW rev \in Revisions, NEW first \in {"connect", "list"},
           kind = "download" <=> first = "connect",
           Repo!Start(j, kind, rev, first)
    PROVE  RepoInv'
<1>1. PICK new : new = [repoJob[j] EXCEPT !.state = "running", !.kind = kind, !.rev = rev,
                                          !.step = first, !.attempt = 1]
  OBVIOUS
<1>2. /\ repoJob' = [repoJob EXCEPT ![j] = new] /\ repoJob[j].state = "none"
      /\ \A k \in Jobs : ~(repoJob[k].state = "running" /\ repoJob[k].kind = kind)
      /\ UNCHANGED <<hub, repoFile, repoPart, repoRow, forgetting, tornRows>>
  BY <1>1 DEF Repo!Start, Repo!Alive, Repo!disk
<1>3. /\ JobFields \subseteq DOMAIN new /\ new.step = first /\ new.state = "running"
      /\ new.kind = kind /\ new.rev = rev /\ new.installed = repoJob[j].installed
      /\ new.at = repoJob[j].at /\ new.todo = repoJob[j].todo
  BY <1>1 DEF RepoInv, RepoTypes, JobFields
<1>4. JobOrder(repoJob[j]) /\ repoJob[j].step = "none"
  BY <1>2 DEF RepoInv, JobsInv, JobOrder
<1>5. JobOrder(new) /\ Measured(new, repoFile, repoPart)
  BY <1>2, <1>3, <1>4 DEF JobOrder, Measured
<1>6. /\ repoJob'[j] = new /\ \A k \in Jobs : k # j => repoJob'[k] = repoJob[k]
      /\ RepoTypes'
  BY <1>2, <1>3, JobTurns DEF RepoTypes, RepoInv
<1>7. \A k \in Jobs : repoJob[k].step # "none" => repoJob[k].kind # kind
  BY <1>2 DEF RepoInv, JobsInv, JobOrder
<1>8. OneOfAKind'
  BY <1>3, <1>6, <1>7 DEF RepoInv, OneOfAKind
<1>9. JobsInv'
  BY <1>2, <1>5, <1>6 DEF RepoInv, JobsInv
<1>10. ASSUME NEW m \in Repo!Models PROVE RowTrue(m)'
  <2>1. Telling(m) => Telling(m)'
    BY <1>4, <1>6 DEF Telling
  <2> QED
    BY <1>2, <2>1 DEF RepoInv, RowTrue
<1>11. Digests => Repo!NamedIsWhole'
  BY <1>2 DEF RepoInv, Repo!NamedIsWhole
<1> QED
  BY <1>6, <1>8, <1>9, <1>10, <1>11 DEF RepoInv

LEMMA CancelKeeps ==
    ASSUME RepoInv, NEW j \in Jobs, Repo!Cancel(j)
    PROVE  RepoInv'
<1>1. PICK new : new = [repoJob[j] EXCEPT !.stopped = TRUE]
  OBVIOUS
<1>2. /\ repoJob' = [repoJob EXCEPT ![j] = new] /\ repoJob[j].state = "running"
      /\ UNCHANGED <<hub, repoFile, repoPart, repoRow, forgetting, tornRows>>
  BY <1>1 DEF Repo!Cancel, Repo!Alive, Repo!disk
<1>3. /\ JobFields \subseteq DOMAIN new
      /\ \A x \in JobFields \ {"stopped"} : new[x] = repoJob[j][x]
  BY <1>1 DEF RepoInv, RepoTypes
<1>4. /\ new.state = repoJob[j].state /\ new.kind = repoJob[j].kind
      /\ new.rev = repoJob[j].rev /\ new.todo = repoJob[j].todo
      /\ new.step = repoJob[j].step
      /\ new.at = repoJob[j].at /\ new.served = repoJob[j].served
      /\ new.sum = repoJob[j].sum /\ new.installed = repoJob[j].installed
  BY <1>3 DEF JobFields
<1>5. JobOrder(repoJob[j]) /\ Measured(repoJob[j], repoFile, repoPart)
  BY DEF RepoInv, JobsInv
<1>6. JobOrder(new) /\ Measured(new, repoFile', repoPart') /\ repoJob[j].step # "none"
  BY <1>2, <1>4, <1>5 DEF JobOrder, Measured
<1>7. /\ repoJob'[j] = new /\ \A k \in Jobs : k # j => repoJob'[k] = repoJob[k]
      /\ RepoTypes'
  BY <1>2, <1>3, JobTurns DEF RepoTypes, RepoInv
<1>8. OneOfAKind'
  BY <1>4, <1>7 DEF RepoInv, OneOfAKind
<1>9. JobsInv'
  BY <1>2, <1>6, <1>7 DEF RepoInv, JobsInv
<1>10. ASSUME NEW m \in Repo!Models PROVE RowTrue(m)'
  <2>1. Telling(m) => Telling(m)'
    BY <1>4, <1>7 DEF Telling
  <2> QED
    BY <1>2, <2>1 DEF RepoInv, RowTrue
<1>11. Digests => Repo!NamedIsWhole'
  BY <1>2 DEF RepoInv, Repo!NamedIsWhole
<1> QED
  BY <1>7, <1>8, <1>9, <1>10, <1>11 DEF RepoInv

\* The step of a transfer: it writes the part file of what is fetched.
LEMMA TransferGoesOn ==
    ASSUME RepoInv, NEW j \in Jobs, NEW new, repoJob' = [repoJob EXCEPT ![j] = new],
           JobFields \subseteq DOMAIN new, new.step \in {"connect", "copy", "verify"},
           new.state = "running", new.kind = repoJob[j].kind, new.rev = repoJob[j].rev,
           new.todo = repoJob[j].todo, new.at = repoJob[j].at, new.installed = repoJob[j].installed,
           new.served \in Versions \/ new.step = "connect",
           repoJob[j].step \in {"connect", "copy"},
           UNCHANGED <<hub, repoFile, repoRow, forgetting, tornRows>>,
           repoPart' = [f \in Repo!Fetched |-> repoPart'[f]],
           \A f \in Repo!Fetched : f # repoJob[j].at => repoPart'[f] = repoPart[f]
    PROVE  RepoInv'
<1>1. JobOrder(repoJob[j])
  BY DEF RepoInv, JobsInv
<1>2. JobOrder(new) /\ Measured(new, repoFile', repoPart')
  BY <1>1 DEF JobOrder, Measured
<1>3. repoJob[j].kind = "download" \/ repoPart'["gguf"] = repoPart["gguf"]
  BY <1>1, RepoNames DEF JobOrder
<1>4. repoFile' = [f \in Repo!Files |-> repoFile'[f]]
  BY DEF RepoInv, RepoTypes
<1> QED
  BY <1>2, <1>3, <1>4, JobGoesOn

LEMMA TransferKeeps ==
    ASSUME RepoInv, NEW j \in Jobs,
           Repo!Connect(j) \/ Repo!Copy(j) \/ Repo!AttemptFails(j)
    PROVE  RepoInv'
<1>0. JobOrder(repoJob[j]) /\ JobFields \subseteq DOMAIN repoJob[j]
  BY DEF RepoInv, JobsInv, RepoTypes
<1>1. UNCHANGED <<hub, repoFile, repoRow, forgetting, tornRows>>
      /\ repoJob[j].step \in {"connect", "copy"}
  BY DEF Repo!Connect, Repo!Copy, Repo!AttemptFails, Repo!disk
<1>2. repoJob[j].state = "running" /\ repoJob[j].rev \in Revisions
      /\ hub[repoJob[j].rev] \in Versions
  BY <1>0, <1>1 DEF JobOrder, RepoInv, RepoTypes
<1>3. CASE Repo!Connect(j)
  <2>1. PICK v : v = hub[repoJob[j].rev]
    OBVIOUS
  <2>2. CASE repoJob' = [repoJob EXCEPT ![j] = [repoJob[j] EXCEPT
                 !.step = "copy", !.served = v, !.unlinked = FALSE]]
             /\ \E keep : repoPart' = [repoPart EXCEPT ![repoJob[j].at] =
                   [there |-> TRUE, len |-> keep,
                    from |-> IF keep = 0 THEN {} ELSE repoPart[repoJob[j].at].from]]
    <3>1. PICK new : new = [repoJob[j] EXCEPT
                 !.step = "copy", !.served = v, !.unlinked = FALSE]
      OBVIOUS
    <3>2. /\ JobFields \subseteq DOMAIN new /\ new.step = "copy" /\ new.served = v
          /\ new.state = repoJob[j].state /\ new.kind = repoJob[j].kind
          /\ new.rev = repoJob[j].rev /\ new.todo = repoJob[j].todo
          /\ new.at = repoJob[j].at
          /\ new.installed = repoJob[j].installed
      BY <1>0, <3>1 DEF JobFields
    <3>3. /\ repoPart' = [f \in Repo!Fetched |-> repoPart'[f]]
          /\ \A f \in Repo!Fetched : f # repoJob[j].at => repoPart'[f] = repoPart[f]
      BY <2>2 DEF RepoInv, RepoTypes
    <3>4. repoJob' = [repoJob EXCEPT ![j] = new] /\ repoPart' = [f \in Repo!Fetched |-> repoPart'[f]]
      BY <2>2, <3>1, <3>3
    <3>5. new.step = "copy" /\ new.served \in Versions /\ new.state = "running"
      BY <1>2, <2>1, <3>2
    <3> QED
      BY <1>1, <3>2, <3>3, <3>4, <3>5, TransferGoesOn
  <2>3. CASE repoJob' = [repoJob EXCEPT ![j] = [repoJob[j] EXCEPT
                 !.step = "verify", !.served = v]]
             /\ UNCHANGED repoPart
    <3>1. PICK new : new = [repoJob[j] EXCEPT !.step = "verify", !.served = v]
      OBVIOUS
    <3>2. /\ JobFields \subseteq DOMAIN new /\ new.step = "verify" /\ new.served = v
          /\ new.state = repoJob[j].state /\ new.kind = repoJob[j].kind
          /\ new.rev = repoJob[j].rev /\ new.todo = repoJob[j].todo
          /\ new.at = repoJob[j].at
          /\ new.installed = repoJob[j].installed
      BY <1>0, <3>1 DEF JobFields
    <3>3. repoPart' = [f \in Repo!Fetched |-> repoPart'[f]]
      BY <2>3 DEF RepoInv, RepoTypes
    <3>4. repoJob' = [repoJob EXCEPT ![j] = new] /\ UNCHANGED repoPart
      BY <2>3, <3>1
    <3>5. new.step = "verify" /\ new.served \in Versions /\ new.state = "running"
      BY <1>2, <2>1, <3>2
    <3> QED
      BY <1>1, <3>2, <3>3, <3>4, <3>5, TransferGoesOn
  <2> QED
    BY <1>3, <2>1, <2>2, <2>3 DEF Repo!Connect
<1>4. CASE Repo!Copy(j)
  <2>1. PICK s \in {"verify", "copy"} : repoJob' = [repoJob EXCEPT ![j].step = s]
    BY <1>4 DEF Repo!Copy, Repo!Step
  <2>2. PICK new : new = [repoJob[j] EXCEPT !.step = s]
    OBVIOUS
  <2>3. /\ JobFields \subseteq DOMAIN new /\ new.step = s /\ new.served = repoJob[j].served
        /\ new.state = repoJob[j].state /\ new.kind = repoJob[j].kind
        /\ new.rev = repoJob[j].rev /\ new.todo = repoJob[j].todo
        /\ new.at = repoJob[j].at
        /\ new.installed = repoJob[j].installed
    BY <1>0, <2>2 DEF JobFields
  <2>4. /\ repoPart' = [f \in Repo!Fetched |-> repoPart'[f]]
        /\ \A f \in Repo!Fetched : f # repoJob[j].at => repoPart'[f] = repoPart[f]
    <3>1. \/ repoPart' = repoPart
          \/ \E c : repoPart' = [repoPart EXCEPT ![repoJob[j].at] = c]
      BY <1>4 DEF Repo!Copy
    <3> QED
      BY <3>1 DEF RepoInv, RepoTypes
  <2>5. repoJob' = [repoJob EXCEPT ![j] = new]
    BY <2>1, <2>2
  <2>6. repoJob[j].served \in Versions
    BY <1>0, <1>4 DEF Repo!Copy, JobOrder
  <2> QED
    BY <1>1, <1>2, <2>3, <2>4, <2>5, <2>6, TransferGoesOn
<1>5. CASE Repo!AttemptFails(j) /\ repoJob[j].attempt < MaxAttempts
  <2>1. PICK new : new = [repoJob[j] EXCEPT !.attempt = repoJob[j].attempt + 1,
                                            !.step = "connect"]
    OBVIOUS
  <2>2. /\ JobFields \subseteq DOMAIN new /\ new.step = "connect"
        /\ new.state = repoJob[j].state /\ new.kind = repoJob[j].kind
        /\ new.rev = repoJob[j].rev /\ new.todo = repoJob[j].todo
        /\ new.at = repoJob[j].at
        /\ new.installed = repoJob[j].installed
    BY <1>0, <2>1 DEF JobFields
  <2>3. repoJob' = [repoJob EXCEPT ![j] = new] /\ UNCHANGED repoPart
    BY <1>5, <2>1 DEF Repo!AttemptFails, Repo!disk
  <2>4. repoPart' = [f \in Repo!Fetched |-> repoPart'[f]]
    BY <2>3 DEF RepoInv, RepoTypes
  <2> QED
    BY <1>1, <1>2, <2>2, <2>3, <2>4, TransferGoesOn
<1>6. CASE Repo!AttemptFails(j) /\ ~(repoJob[j].attempt < MaxAttempts)
  <2>1. Repo!Finish(j, "failed") /\ UNCHANGED <<repoFile, repoPart>>
    BY <1>6 DEF Repo!AttemptFails, Repo!disk
  <2>2. repoFile' = [f \in Repo!Files |-> repoFile'[f]]
        /\ repoPart' = [f \in Repo!Fetched |-> repoPart'[f]]
    BY <2>1 DEF RepoInv, RepoTypes
  <2> QED
    BY <1>1, <2>1, <2>2, JobEnds
<1> QED
  BY <1>3, <1>4, <1>5, <1>6

LEMMA UnwindKeeps ==
    ASSUME RepoInv, NEW j \in Jobs, Repo!Unwind(j)
    PROVE  RepoInv'
<1>1. /\ Repo!Finish(j, "cancelled") /\ repoJob[j].step \notin {"none", "hash", "record"}
      /\ UNCHANGED <<hub, repoPart, repoRow, forgetting, tornRows>>
      /\ repoFile' = repoFile \/ repoFile' = [repoFile EXCEPT !["out"] = Repo!Nothing]
  BY DEF Repo!Unwind
<1>2. /\ repoFile' = [f \in Repo!Files |-> repoFile'[f]]
      /\ repoPart' = [f \in Repo!Fetched |-> repoPart'[f]]
      /\ \A m \in Repo!Models : repoFile'[m] = repoFile[m]
  BY <1>1, RepoNames DEF RepoInv, RepoTypes
<1> QED
  BY <1>1, <1>2, JobEnds

\* What passes the check is as published, and goes on to be renamed.
LEMMA VerifyKeeps ==
    ASSUME RepoInv, NEW j \in Jobs, Repo!Verify(j)
    PROVE  RepoInv'
<1>1. PICK digest : digest = Repo!PublishedDigest(repoJob[j].served)
  OBVIOUS
<1>2. /\ repoJob[j].step = "verify" /\ repoJob[j].kind = "download"
      /\ UNCHANGED <<hub, repoFile, repoRow, forgetting, tornRows>>
  BY DEF Repo!Verify, Repo!Download
<1>3. JobOrder(repoJob[j]) /\ JobFields \subseteq DOMAIN repoJob[j]
      /\ repoFile' = [f \in Repo!Files |-> repoFile'[f]]
  BY <1>2 DEF RepoInv, JobsInv, RepoTypes
<1>4. CASE digest # Repo!Unverified /\ (repoJob[j].stopped \/ repoPart["gguf"] # digest)
  <2>1. /\ Repo!Finish(j, "failed")
        /\ repoPart' = repoPart \/ repoPart' = [repoPart EXCEPT !["gguf"] = Repo!Nothing]
    BY <1>1, <1>4 DEF Repo!Verify
  <2>2. repoPart' = [f \in Repo!Fetched |-> repoPart'[f]]
    BY <2>1 DEF RepoInv, RepoTypes
  <2> QED
    BY <1>2, <1>3, <2>1, <2>2, JobEnds
<1>5. CASE ~(digest # Repo!Unverified /\ (repoJob[j].stopped \/ repoPart["gguf"] # digest))
  <2>1. PICK new : new = [repoJob[j] EXCEPT !.step = "install", !.sum = digest]
    OBVIOUS
  <2>2. repoJob' = [repoJob EXCEPT ![j] = new] /\ UNCHANGED repoPart
    BY <1>1, <1>5, <2>1 DEF Repo!Verify
  <2>3. /\ JobFields \subseteq DOMAIN new /\ new.step = "install" /\ new.sum = digest
        /\ new.state = repoJob[j].state /\ new.kind = repoJob[j].kind
        /\ new.rev = repoJob[j].rev /\ new.todo = repoJob[j].todo
        /\ new.at = repoJob[j].at
        /\ new.installed = repoJob[j].installed
    BY <1>3, <2>1 DEF JobFields
  <2>4. JobOrder(new)
    BY <1>2, <1>3, <2>3 DEF JobOrder
  <2>5. Digests => \E v \in Versions : digest = Repo!Whole(v)
    BY <1>1, <1>2, <1>3 DEF Repo!PublishedDigest, JobOrder
  <2>6. Measured(new, repoFile', repoPart')
    BY <1>2, <1>5, <2>2, <2>3, <2>5 DEF Measured
  <2>7. repoPart' = [f \in Repo!Fetched |-> repoPart'[f]]
    BY <2>2 DEF RepoInv, RepoTypes
  <2> QED
    BY <1>2, <1>3, <2>2, <2>3, <2>4, <2>6, <2>7, JobGoesOn
<1> QED
  BY <1>4, <1>5

\* A job that gives its model the real name tells of it next.
LEMMA ModelInstalled ==
    ASSUME RepoInv, NEW j \in Jobs, NEW new, repoJob' = [repoJob EXCEPT ![j] = new],
           JobFields \subseteq DOMAIN new, JobOrder(new), Measured(new, repoFile', repoPart'),
           new.kind = repoJob[j].kind, repoJob[j].step # "none",
           new.step \in {"hash", "record"},
           UNCHANGED <<hub, repoRow, forgetting, tornRows>>,
           repoFile' = [f \in Repo!Files |-> repoFile'[f]],
           repoPart' = [f \in Repo!Fetched |-> repoPart'[f]],
           \A m \in Repo!Models :
               m # Repo!Target(repoJob[j].kind) => repoFile'[m] = repoFile[m],
           repoJob[j].kind = "download" \/ repoPart'["gguf"] = repoPart["gguf"],
           Digests /\ repoJob[j].kind = "download" => Repo!NamedIsWhole'
    PROVE  RepoInv'
<1>1. /\ repoJob'[j] = new /\ \A k \in Jobs : k # j => repoJob'[k] = repoJob[k]
      /\ RepoTypes'
  BY JobTurns DEF RepoTypes, RepoInv
<1>2. OneOfAKind'
  BY <1>1 DEF RepoInv, OneOfAKind
<1>3. ASSUME NEW k \in Jobs
      PROVE  JobOrder(repoJob'[k]) /\ Measured(repoJob'[k], repoFile', repoPart')
  <2>1. CASE k = j
    BY <1>1, <2>1
  <2>2. CASE k # j
    <3>1. repoJob'[k] = repoJob[k] /\ JobOrder(repoJob[k]) /\ JobOrder(repoJob[j])
          /\ Measured(repoJob[k], repoFile, repoPart)
      BY <1>1, <2>2 DEF RepoInv, JobsInv
    <3>2. repoJob[k].step # "none" => repoJob[k].kind # repoJob[j].kind
      BY <2>2 DEF RepoInv, OneOfAKind
    <3>3. repoJob[k].step # "none" =>
              /\ Repo!Target(repoJob[k].kind) \in Repo!Models
              /\ Repo!Target(repoJob[k].kind) # Repo!Target(repoJob[j].kind)
      BY <3>1, <3>2, RepoNames DEF JobOrder
    <3>4. repoJob[k].kind = "download" /\ repoJob[k].step = "install" =>
              repoPart'["gguf"] = repoPart["gguf"]
      BY <3>2
    <3> QED
      BY <3>1, <3>3, <3>4 DEF Measured
  <2> QED
    BY <2>1, <2>2
<1>4. JobsInv'
  BY <1>3 DEF JobsInv
<1>5. ASSUME NEW m \in Repo!Models PROVE RowTrue(m)'
  <2>1. Telling(m) => Telling(m)'
    BY <1>1 DEF Telling
  <2>2. m = Repo!Target(repoJob[j].kind) => Telling(m)'
    BY <1>1 DEF Telling
  <2> QED
    BY <2>1, <2>2 DEF RepoInv, RowTrue
<1>6. Digests => Repo!NamedIsWhole'
  <2>1. repoJob[j].kind # "download" => repoFile'["gguf"] = repoFile["gguf"]
    <3>1. repoJob[j].kind \in {"download", "convert"}
      BY DEF RepoInv, JobsInv, JobOrder
    <3> QED
      BY <3>1, RepoNames DEF Repo!Models
  <2> QED
    BY <2>1 DEF RepoInv, Repo!NamedIsWhole
<1> QED
  BY <1>1, <1>2, <1>4, <1>5, <1>6 DEF RepoInv

LEMMA InstallKeepsRepo ==
    ASSUME RepoInv, NEW j \in Jobs, Repo!Install(j)
    PROVE  RepoInv'
<1>1. /\ repoJob[j].step = "install" /\ repoJob[j].kind = "download"
      /\ UNCHANGED <<hub, repoRow, forgetting, tornRows>>
  BY DEF Repo!Install, Repo!Download
<1>2. JobOrder(repoJob[j]) /\ JobFields \subseteq DOMAIN repoJob[j]
      /\ Measured(repoJob[j], repoFile, repoPart)
  BY DEF RepoInv, JobsInv, RepoTypes
<1>3. CASE repoPart["gguf"].there
  <2>1. PICK new : new = [repoJob[j] EXCEPT !.step = "record", !.installed = TRUE]
    OBVIOUS
  <2>2. /\ repoJob' = [repoJob EXCEPT ![j] = new]
        /\ repoFile' = [repoFile EXCEPT !["gguf"] = repoPart["gguf"]]
        /\ repoPart' = [repoPart EXCEPT !["gguf"] = Repo!Nothing]
    BY <1>3, <2>1 DEF Repo!Install
  <2>3. /\ JobFields \subseteq DOMAIN new /\ new.step = "record"
        /\ new.sum = repoJob[j].sum
        /\ new.state = repoJob[j].state /\ new.kind = repoJob[j].kind
        /\ new.rev = repoJob[j].rev /\ new.todo = repoJob[j].todo
        /\ new.at = repoJob[j].at
    BY <1>2, <2>1 DEF JobFields
  <2>4. JobOrder(new)
    BY <1>1, <1>2, <2>3 DEF JobOrder
  <2>5. /\ repoFile' = [f \in Repo!Files |-> repoFile'[f]]
        /\ repoPart' = [f \in Repo!Fetched |-> repoPart'[f]]
        /\ repoFile'["gguf"] = repoPart["gguf"]
        /\ \A m \in Repo!Models : m # "gguf" => repoFile'[m] = repoFile[m]
    BY <2>2, RepoNames DEF RepoInv, RepoTypes
  <2>6. repoJob[j].sum = Repo!Unverified \/ repoPart["gguf"] = repoJob[j].sum
    BY <1>1, <1>2, <1>3, RepoDigests DEF Measured
  <2>7. Measured(new, repoFile', repoPart')
    BY <1>1, <2>3, <2>5, <2>6, RepoNames DEF Measured
  <2>8. Digests => Repo!NamedIsWhole'
    BY <1>1, <1>2, <2>5, <2>6, RepoDigests DEF Measured, Repo!NamedIsWhole
  <2> QED
    BY <1>1, <2>2, <2>3, <2>4, <2>5, <2>7, <2>8, RepoNames, ModelInstalled, ZenonT(60)
<1>4. CASE ~repoPart["gguf"].there
  <2>1. Repo!Finish(j, "failed") /\ UNCHANGED <<repoFile, repoPart>>
    BY <1>4 DEF Repo!Install
  <2>2. /\ repoFile' = [f \in Repo!Files |-> repoFile'[f]]
        /\ repoPart' = [f \in Repo!Fetched |-> repoPart'[f]]
    BY <2>1 DEF RepoInv, RepoTypes
  <2> QED
    BY <1>1, <2>1, <2>2, JobEnds
<1> QED
  BY <1>3, <1>4

\* A job that ends with its row written, or with the file known to lack one.
LEMMA JobTold ==
    ASSUME RepoInv, NEW j \in Jobs, NEW state \in {"done", "failed"}, Repo!Finish(j, state),
           repoJob[j].step \in {"hash", "record"},
           state = "done" \/ repoJob[j].kind = "convert",
           UNCHANGED <<hub, repoFile, repoPart, forgetting>>,
           repoRow' = [x \in Repo!Models |-> repoRow'[x]],
           NEW m \in Repo!Models, m = Repo!Target(repoJob[j].kind),
           \A x \in Repo!Models : x # m => /\ repoRow'[x] = repoRow[x]
                                           /\ x \in tornRows => x \in tornRows',
           m \in tornRows' \/ (repoJob[j].step = "record" /\ repoRow'[m] = repoJob[j].sum)
    PROVE  RepoInv'
<1>1. PICK new : new = Repo!Ended(j, state)
  OBVIOUS
<1>2. repoJob' = [repoJob EXCEPT ![j] = new]
  BY <1>1 DEF Repo!Finish
<1>3. /\ JobFields \subseteq DOMAIN new /\ new.step = "none" /\ new.state = state
      /\ new.kind = repoJob[j].kind /\ new.at = "gguf" /\ new.todo = {}
  BY <1>1 DEF Repo!Ended, Repo!Fresh, JobFields
<1>4. JobOrder(repoJob[j]) /\ Measured(repoJob[j], repoFile, repoPart)
  BY DEF RepoInv, JobsInv
<1>5. JobOrder(new) /\ Measured(new, repoFile, repoPart)
  <2>1. new.kind = "download" => state = "done"
    BY <1>3
  <2> QED
    BY <1>3, <1>4, <2>1 DEF JobOrder, Measured
<1>6. /\ repoJob'[j] = new /\ \A k \in Jobs : k # j => repoJob'[k] = repoJob[k]
      /\ RepoTypes'
  BY <1>2, <1>3, JobTurns DEF RepoTypes, RepoInv
<1>7. OneOfAKind'
  BY <1>3, <1>6 DEF RepoInv, OneOfAKind
<1>8. JobsInv'
  BY <1>5, <1>6 DEF RepoInv, JobsInv
<1>9. ASSUME NEW x \in Repo!Models PROVE RowTrue(x)'
  <2>1. CASE x = m
    <3>1. CASE m \in tornRows'
      BY <2>1, <3>1 DEF RowTrue
    <3>2. CASE repoJob[j].step = "record" /\ repoRow'[m] = repoJob[j].sum
      <4>1. repoJob[j].sum # Repo!Unverified /\ repoFile[m].there =>
                repoFile[m] = repoJob[j].sum
        BY <1>4, <3>2 DEF Measured
      <4> QED
        BY <2>1, <3>2, <4>1 DEF RowTrue
    <3> QED
      BY <3>1, <3>2
  <2>2. CASE x # m
    <3>1. Telling(x) => Telling(x)'
      BY <1>6, <2>2 DEF Telling
    <3> QED
      BY <2>2, <3>1 DEF RepoInv, RowTrue
  <2> QED
    BY <2>1, <2>2
<1>10. Digests => Repo!NamedIsWhole'
  BY DEF RepoInv, Repo!NamedIsWhole
<1> QED
  BY <1>6, <1>7, <1>8, <1>9, <1>10 DEF RepoInv

LEMMA RecordKeeps ==
    ASSUME RepoInv, NEW j \in Jobs, Repo!Record(j)
    PROVE  RepoInv'
<1>1. PICK m : m = Repo!Target(repoJob[j].kind)
  OBVIOUS
<1>2. /\ repoJob[j].step = "record" /\ Repo!Finish(j, "done")
      /\ UNCHANGED <<hub, repoFile, repoPart, forgetting>>
      /\ \/ repoRow' = [repoRow EXCEPT ![m] = repoJob[j].sum] /\ tornRows' = tornRows \ {m}
         \/ tornRows' = tornRows \cup {m} /\ UNCHANGED repoRow
  BY <1>1 DEF Repo!Record
<1>3. m \in Repo!Models
  BY <1>1, RepoNames DEF RepoInv, JobsInv, JobOrder
<1>4. repoRow = [x \in Repo!Models |-> repoRow[x]]
  BY DEF RepoInv, RepoTypes
<1>5. /\ repoRow' = [x \in Repo!Models |-> repoRow'[x]]
      /\ \A x \in Repo!Models : x # m => /\ repoRow'[x] = repoRow[x]
                                         /\ x \in tornRows => x \in tornRows'
      /\ m \in tornRows' \/ repoRow'[m] = repoJob[j].sum
  BY <1>2, <1>3, <1>4
<1> QED
  BY <1>1, <1>2, <1>3, <1>5, JobTold

\* The steps of a conversion before there is a model.
LEMMA ReleaseKeeps ==
    ASSUME RepoInv, NEW j \in Jobs, Repo!List(j) \/ Repo!Pick(j)
    PROVE  RepoInv'
<1>0. JobOrder(repoJob[j]) /\ JobFields \subseteq DOMAIN repoJob[j]
  BY DEF RepoInv, JobsInv, RepoTypes
<1>1. UNCHANGED <<hub, repoFile, repoPart, repoRow, forgetting, tornRows>>
      /\ repoJob[j].step \in {"list", "pick"}
  <2>1. CASE Repo!List(j)
    BY <2>1 DEF Repo!List, Repo!disk
  <2>2. CASE Repo!Pick(j)
    BY <2>2, Zenon DEF Repo!Pick, Repo!disk
  <2> QED
    BY <2>1, <2>2
<1>2. /\ repoFile' = [f \in Repo!Files |-> repoFile'[f]]
      /\ repoPart' = [f \in Repo!Fetched |-> repoPart'[f]]
  BY <1>1 DEF RepoInv, RepoTypes
<1>3. CASE Repo!Finish(j, "failed")
  BY <1>1, <1>2, <1>3, JobEnds
<1>4. ASSUME NEW new, repoJob' = [repoJob EXCEPT ![j] = new], JobFields \subseteq DOMAIN new,
             new.step \in {"pick", "convert"} \/ (new.step = "connect" /\ new.at \in Shards),
             new.state = repoJob[j].state, new.kind = repoJob[j].kind,
             new.rev = repoJob[j].rev, new.installed = repoJob[j].installed,
             new.todo \subseteq Shards
      PROVE  RepoInv'
  <2>1. JobOrder(new) /\ Measured(new, repoFile', repoPart')
    BY <1>0, <1>1, <1>4 DEF JobOrder, Measured
  <2> QED
    BY <1>1, <1>2, <1>4, <2>1, JobGoesOn
<1>5. CASE Repo!List(j) /\ ~Repo!Finish(j, "failed")
  <2>1. PICK new : new = [repoJob[j] EXCEPT !.step = "pick", !.todo = Shards,
                                            !.want = hub[repoJob[j].rev]]
    OBVIOUS
  <2>2. repoJob' = [repoJob EXCEPT ![j] = new]
    BY <1>5, <2>1 DEF Repo!List
  <2>3. /\ JobFields \subseteq DOMAIN new /\ new.step = "pick"
        /\ new.state = repoJob[j].state /\ new.kind = repoJob[j].kind
        /\ new.rev = repoJob[j].rev /\ new.todo \subseteq Shards
        /\ new.installed = repoJob[j].installed
    BY <1>0, <2>1 DEF JobFields, JobOrder
  <2> QED
    BY <2>2, <2>3, <1>4
<1>6. CASE Repo!Pick(j) /\ repoJob[j].todo = {}
  <2>1. PICK new : new = [repoJob[j] EXCEPT !.step = "convert"]
    OBVIOUS
  <2>2. repoJob' = [repoJob EXCEPT ![j] = new]
    BY <1>6, <2>1 DEF Repo!Pick, Repo!Step
  <2>3. /\ JobFields \subseteq DOMAIN new /\ new.step = "convert"
        /\ new.state = repoJob[j].state /\ new.kind = repoJob[j].kind
        /\ new.rev = repoJob[j].rev /\ new.todo \subseteq Shards
        /\ new.installed = repoJob[j].installed
    BY <1>0, <2>1 DEF JobFields, JobOrder
  <2> QED
    BY <2>2, <2>3, <1>4
<1>7. CASE Repo!Pick(j) /\ repoJob[j].todo # {}
  <2>0. PICK s \in repoJob[j].todo :
            repoJob' = [repoJob EXCEPT ![j] = [repoJob[j] EXCEPT
                          !.todo = repoJob[j].todo \ {s}, !.at = s, !.attempt = 1,
                          !.step = IF repoFile[s].there
                                      /\ repoFile[s].len = Size[repoJob[j].want]
                                   THEN "pick" ELSE "connect"]]
    BY <1>7, Zenon DEF Repo!Pick
  <2>1. PICK t \in {"pick", "connect"} :
            repoJob' = [repoJob EXCEPT ![j] = [repoJob[j] EXCEPT
                          !.todo = repoJob[j].todo \ {s}, !.at = s, !.attempt = 1,
                          !.step = t]]
    BY <2>0
  <2>2. PICK new : new = [repoJob[j] EXCEPT !.todo = repoJob[j].todo \ {s}, !.at = s,
                                            !.attempt = 1, !.step = t]
    OBVIOUS
  <2>3. /\ JobFields \subseteq DOMAIN new /\ new.step = t /\ new.at = s
        /\ new.state = repoJob[j].state /\ new.kind = repoJob[j].kind
        /\ new.rev = repoJob[j].rev /\ new.todo \subseteq Shards
        /\ new.installed = repoJob[j].installed
    BY <1>0, <2>2 DEF JobFields, JobOrder
  <2>4. s \in Shards
    BY <2>0, <1>0 DEF JobOrder
  <2> QED
    BY <2>1, <2>2, <2>3, <2>4, <1>4
<1> QED
  BY <1>3, <1>5, <1>6, <1>7

\* A shard under its name, and the converter's output, are no models yet.
LEMMA StagingKeeps ==
    ASSUME RepoInv, NEW j \in Jobs, Repo!NameShard(j) \/ Repo!Convert(j)
    PROVE  RepoInv'
<1>0. JobOrder(repoJob[j]) /\ JobFields \subseteq DOMAIN repoJob[j]
  BY DEF RepoInv, JobsInv, RepoTypes
<1>1. ASSUME NEW f \in (Shards \cup {"out"}), NEW c, repoFile' = [repoFile EXCEPT ![f] = c]
      PROVE  /\ repoFile' = [x \in Repo!Files |-> repoFile'[x]]
             /\ \A m \in Repo!Models : repoFile'[m] = repoFile[m]
  BY <1>1, RepoNames DEF RepoInv, RepoTypes
<1>2. ASSUME NEW s \in {"pick", "install"}, Repo!Step(j, s), repoJob[j].kind = "convert",
             repoJob[j].step \in {"verify", "convert"}
      PROVE  \E new : /\ repoJob' = [repoJob EXCEPT ![j] = new]
                      /\ JobFields \subseteq DOMAIN new /\ new.kind = repoJob[j].kind
                      /\ JobOrder(new) /\ Measured(new, repoFile', repoPart')
                      /\ new.step = s
  <2>1. PICK new : new = [repoJob[j] EXCEPT !.step = s]
    OBVIOUS
  <2>2. repoJob' = [repoJob EXCEPT ![j] = new]
    BY <1>2, <2>1 DEF Repo!Step
  <2>3. /\ JobFields \subseteq DOMAIN new /\ new.step = s
        /\ new.state = repoJob[j].state /\ new.kind = repoJob[j].kind
        /\ new.rev = repoJob[j].rev /\ new.todo = repoJob[j].todo
        /\ new.at = repoJob[j].at /\ new.installed = repoJob[j].installed
    BY <1>0, <2>1 DEF JobFields
  <2>4. JobOrder(new) /\ Measured(new, repoFile', repoPart')
    BY <1>0, <1>2, <2>3 DEF JobOrder, Measured
  <2> QED
    BY <2>2, <2>3, <2>4
<1>3. CASE Repo!NameShard(j)
  <2>1. /\ repoJob[j].step = "verify" /\ repoJob[j].kind = "convert"
        /\ repoFile' = [repoFile EXCEPT ![repoJob[j].at] = repoPart[repoJob[j].at]]
        /\ repoPart' = [repoPart EXCEPT ![repoJob[j].at] = Repo!Nothing]
        /\ Repo!Step(j, "pick")
        /\ UNCHANGED <<hub, repoRow, forgetting, tornRows>>
    BY <1>3 DEF Repo!NameShard
  <2>2. repoJob[j].at \in Shards
    BY <1>0, <2>1 DEF JobOrder
  <2>3. /\ repoFile' = [x \in Repo!Files |-> repoFile'[x]]
        /\ \A m \in Repo!Models : repoFile'[m] = repoFile[m]
        /\ repoPart' = [x \in Repo!Fetched |-> repoPart'[x]]
        /\ repoPart'["gguf"] = repoPart["gguf"]
    BY <2>1, <2>2, RepoNames DEF RepoInv, RepoTypes
  <2>4. PICK new : /\ repoJob' = [repoJob EXCEPT ![j] = new]
                   /\ JobFields \subseteq DOMAIN new /\ new.kind = repoJob[j].kind
                   /\ JobOrder(new) /\ Measured(new, repoFile', repoPart')
    BY <2>1, <1>2
  <2> QED
    BY <2>1, <2>3, <2>4, JobGoesOn
<1>4. CASE Repo!Convert(j)
  <2>1. /\ repoJob[j].step = "convert" /\ \E c : repoFile' = [repoFile EXCEPT !["out"] = c]
        /\ UNCHANGED <<hub, repoPart, repoRow, forgetting, tornRows>>
    BY <1>4, Zenon DEF Repo!Convert
  <2>2. /\ repoFile' = [x \in Repo!Files |-> repoFile'[x]]
        /\ \A m \in Repo!Models : repoFile'[m] = repoFile[m]
        /\ repoPart' = [x \in Repo!Fetched |-> repoPart'[x]]
    BY <2>1, <1>1 DEF RepoInv, RepoTypes
  <2>3. CASE Repo!Finish(j, "failed")
    BY <2>1, <2>2, <2>3, JobEnds
  <2>4. CASE Repo!Step(j, "install")
    <3>1. repoJob[j].kind = "convert"
      BY <1>0, <2>1 DEF JobOrder
    <3>2. PICK new : /\ repoJob' = [repoJob EXCEPT ![j] = new]
                     /\ JobFields \subseteq DOMAIN new /\ new.kind = repoJob[j].kind
                     /\ JobOrder(new) /\ Measured(new, repoFile', repoPart')
      BY <2>1, <2>4, <3>1, <1>2
    <3> QED
      BY <2>1, <2>2, <3>2, JobGoesOn
  <2> QED
    BY <1>4, <2>3, <2>4, Zenon DEF Repo!Convert
<1> QED
  BY <1>3, <1>4

\* Clearing a release away leaves the models and the downloads.
LEMMA StageCleared ==
    ASSUME RepoTypes, NEW f, Repo!ClearStage(f)
    PROVE  /\ repoFile' = [x \in Repo!Files |-> repoFile'[x]]
           /\ repoPart' = [x \in Repo!Fetched |-> repoPart'[x]]
           /\ \A m \in Repo!Models : repoFile'[m] = f[m]
           /\ repoPart'["gguf"] = repoPart["gguf"]
BY RepoNames DEF RepoTypes, Repo!ClearStage, Repo!Unstaged

LEMMA ConvertedInstalled ==
    ASSUME RepoInv, NEW j \in Jobs, Repo!InstallConverted(j)
    PROVE  RepoInv'
<1>0. JobOrder(repoJob[j]) /\ JobFields \subseteq DOMAIN repoJob[j] /\ RepoTypes
  BY DEF RepoInv, JobsInv, RepoTypes
<1>1. /\ repoJob[j].step = "install" /\ repoJob[j].kind = "convert"
      /\ UNCHANGED <<hub, repoRow, forgetting, tornRows>>
  BY DEF Repo!InstallConverted
<1>2. CASE /\ repoFile' = [repoFile EXCEPT !["f16"] = repoFile["out"], !["out"] = Repo!Nothing]
           /\ repoJob' = [repoJob EXCEPT ![j] = [repoJob[j] EXCEPT
                            !.step = "hash", !.installed = TRUE]]
           /\ UNCHANGED repoPart
  <2>1. PICK new : new = [repoJob[j] EXCEPT !.step = "hash", !.installed = TRUE]
    OBVIOUS
  <2>2. /\ JobFields \subseteq DOMAIN new /\ new.step = "hash"
        /\ new.state = repoJob[j].state /\ new.kind = repoJob[j].kind
        /\ new.rev = repoJob[j].rev /\ new.todo = repoJob[j].todo
        /\ new.at = repoJob[j].at
    BY <1>0, <2>1 DEF JobFields
  <2>3. JobOrder(new) /\ Measured(new, repoFile', repoPart')
    BY <1>0, <1>1, <2>2 DEF JobOrder, Measured
  <2>4. /\ repoFile' = [x \in Repo!Files |-> repoFile'[x]]
        /\ repoPart' = [x \in Repo!Fetched |-> repoPart'[x]]
        /\ \A m \in Repo!Models : m # "f16" => repoFile'[m] = repoFile[m]
    BY <1>0, <1>2, RepoNames DEF RepoTypes
  <2>5. repoJob' = [repoJob EXCEPT ![j] = new] /\ Repo!Target(repoJob[j].kind) = "f16"
        /\ repoPart'["gguf"] = repoPart["gguf"] /\ repoJob[j].kind # "download"
    BY <1>1, <1>2, <2>1, RepoNames
  <2> QED
    BY <1>1, <2>2, <2>3, <2>4, <2>5, ModelInstalled
<1>3. CASE /\ Repo!ClearStage([repoFile EXCEPT !["f16"] = repoFile["out"]])
           /\ repoJob' = [repoJob EXCEPT ![j] = [repoJob[j] EXCEPT !.step = "record",
                            !.sum = repoFile["out"], !.installed = TRUE]]
  <2>1. PICK new : new = [repoJob[j] EXCEPT !.step = "record", !.sum = repoFile["out"],
                                            !.installed = TRUE]
    OBVIOUS
  <2>2. /\ JobFields \subseteq DOMAIN new /\ new.step = "record"
        /\ new.sum = repoFile["out"]
        /\ new.state = repoJob[j].state /\ new.kind = repoJob[j].kind
        /\ new.rev = repoJob[j].rev /\ new.todo = repoJob[j].todo
        /\ new.at = repoJob[j].at
    BY <1>0, <2>1 DEF JobFields
  <2>3. PICK f : f = [repoFile EXCEPT !["f16"] = repoFile["out"]]
    OBVIOUS
  <2>4. /\ repoFile' = [x \in Repo!Files |-> repoFile'[x]]
        /\ repoPart' = [x \in Repo!Fetched |-> repoPart'[x]]
        /\ \A m \in Repo!Models : repoFile'[m] = f[m]
        /\ repoPart'["gguf"] = repoPart["gguf"]
    BY <1>0, <1>3, <2>3, StageCleared
  <2>5. f["f16"] = repoFile["out"] /\ \A m \in Repo!Models : m # "f16" => f[m] = repoFile[m]
    BY <1>0, <2>3, RepoNames DEF RepoTypes, Repo!Models
  <2>6. JobOrder(new) /\ Measured(new, repoFile', repoPart')
    BY <1>0, <1>1, <2>2, <2>4, <2>5, RepoNames DEF JobOrder, Measured
  <2>7. repoJob' = [repoJob EXCEPT ![j] = new] /\ Repo!Target(repoJob[j].kind) = "f16"
        /\ repoJob[j].kind # "download"
    BY <1>1, <1>3, <2>1, RepoNames
  <2> QED
    BY <1>1, <2>2, <2>4, <2>5, <2>6, <2>7, ModelInstalled
<1>4. CASE Repo!Finish(j, "failed") /\ UNCHANGED <<repoFile, repoPart>>
  <2>1. /\ repoFile' = [x \in Repo!Files |-> repoFile'[x]]
        /\ repoPart' = [x \in Repo!Fetched |-> repoPart'[x]]
    BY <1>0, <1>4 DEF RepoTypes
  <2> QED
    BY <1>1, <1>4, <2>1, JobEnds
<1> QED
  BY <1>2, <1>3, <1>4, Zenon DEF Repo!InstallConverted

LEMMA HashKeeps ==
    ASSUME RepoInv, NEW j \in Jobs, Repo!Hash(j)
    PROVE  RepoInv'
<1>0. JobOrder(repoJob[j]) /\ JobFields \subseteq DOMAIN repoJob[j] /\ RepoTypes
  BY DEF RepoInv, JobsInv, RepoTypes
<1>1. repoJob[j].step = "hash" /\ UNCHANGED <<hub, repoRow, forgetting>>
  BY DEF Repo!Hash
<1>2. repoJob[j].kind = "convert"
  BY <1>0, <1>1 DEF JobOrder
<1>3. CASE repoJob[j].stopped \/ ~repoFile["f16"].there
  <2>1. /\ Repo!Finish(j, "failed") /\ tornRows' = tornRows \cup {"f16"}
        /\ UNCHANGED <<repoFile, repoPart>>
    BY <1>3 DEF Repo!Hash
  <2>2. repoRow' = [x \in Repo!Models |-> repoRow'[x]]
    BY <1>0, <1>1 DEF RepoTypes
  <2>3. "f16" \in Repo!Models /\ "f16" = Repo!Target(repoJob[j].kind)
    BY <1>2, RepoNames
  <2> QED
    BY <1>1, <1>2, <2>1, <2>2, <2>3, JobTold
<1>4. CASE ~(repoJob[j].stopped \/ ~repoFile["f16"].there)
  <2>1. PICK new : new = [repoJob[j] EXCEPT !.step = "record", !.sum = repoFile["f16"]]
    OBVIOUS
  <2>2. /\ repoJob' = [repoJob EXCEPT ![j] = new]
        /\ Repo!ClearStage(repoFile) /\ UNCHANGED tornRows
    BY <1>4, <2>1 DEF Repo!Hash
  <2>3. /\ JobFields \subseteq DOMAIN new /\ new.step = "record"
        /\ new.sum = repoFile["f16"]
        /\ new.state = repoJob[j].state /\ new.kind = repoJob[j].kind
        /\ new.rev = repoJob[j].rev /\ new.todo = repoJob[j].todo
        /\ new.at = repoJob[j].at /\ new.installed = repoJob[j].installed
    BY <1>0, <2>1 DEF JobFields
  <2>4. PICK f : f = repoFile
    OBVIOUS
  <2>5. /\ repoFile' = [x \in Repo!Files |-> repoFile'[x]]
        /\ repoPart' = [x \in Repo!Fetched |-> repoPart'[x]]
        /\ \A m \in Repo!Models : repoFile'[m] = repoFile[m]
        /\ repoPart'["gguf"] = repoPart["gguf"]
    BY <1>0, <2>2, <2>4, StageCleared
  <2>6. JobOrder(new) /\ Measured(new, repoFile', repoPart')
    BY <1>0, <1>1, <1>2, <2>3, <2>5, RepoNames DEF JobOrder, Measured
  <2> QED
    BY <1>1, <2>2, <2>3, <2>5, <2>6, JobGoesOn
<1> QED
  BY <1>3, <1>4

\* The operator takes a model, or what the store says of it, away.
LEMMA DeletionKeeps ==
    ASSUME RepoInv, NEW m \in Repo!Models, Repo!Delete(m) \/ Repo!Forget(m)
    PROVE  RepoInv'
<1>0. m \in Repo!Files /\ RepoTypes
  BY RepoNames DEF RepoInv
<1>1. CASE Repo!Delete(m)
  <2>1. /\ repoFile' = [repoFile EXCEPT ![m] = Repo!Nothing]
        /\ forgetting' = forgetting \cup {m}
        /\ UNCHANGED <<hub, repoPart, repoRow, repoJob, tornRows>>
    BY <1>1 DEF Repo!Delete
  <2>2. /\ RepoTypes' /\ ~repoFile'[m].there
        /\ \A x \in Repo!Files : x # m => repoFile'[x] = repoFile[x]
    BY <1>0, <2>1, RepoDigests DEF RepoTypes
  <2>3. ASSUME NEW j \in Jobs
        PROVE  JobOrder(repoJob'[j]) /\ Measured(repoJob'[j], repoFile', repoPart')
    <3>1. JobOrder(repoJob[j]) /\ Measured(repoJob[j], repoFile, repoPart)
      BY DEF RepoInv, JobsInv
    <3>2. Repo!Target(repoJob[j].kind) \in Repo!Files
      BY <3>1, RepoNames DEF JobOrder
    <3> QED
      BY <2>1, <2>2, <3>1, <3>2 DEF Measured
  <2>4. JobsInv' /\ OneOfAKind'
    BY <2>1, <2>3 DEF JobsInv, OneOfAKind, RepoInv
  <2>5. ASSUME NEW x \in Repo!Models PROVE RowTrue(x)'
    <3>1. x \in Repo!Files /\ (Telling(x)' <=> Telling(x))
      BY <2>1, RepoNames DEF Telling
    <3> QED
      BY <2>1, <2>2, <3>1 DEF RepoInv, RowTrue
  <2>6. Digests => Repo!NamedIsWhole'
    <3>1. "gguf" \in Repo!Files
      BY DEF Repo!Files
    <3> QED
      BY <2>2, <3>1 DEF RepoInv, Repo!NamedIsWhole
  <2> QED
    BY <2>2, <2>4, <2>5, <2>6 DEF RepoInv
<1>2. CASE Repo!Forget(m)
  <2>1. /\ UNCHANGED <<hub, repoFile, repoPart, repoJob>>
        /\ forgetting' = forgetting \ {m}
        /\ \/ repoRow' = [repoRow EXCEPT ![m] = Repo!Nothing] /\ UNCHANGED tornRows
           \/ tornRows' = tornRows \cup {m} /\ UNCHANGED repoRow
    BY <1>2 DEF Repo!Forget
  <2>2. /\ RepoTypes'
        /\ m \in tornRows' \/ ~repoRow'[m].there
        /\ \A x \in Repo!Models : x # m => repoRow'[x] = repoRow[x]
    BY <1>0, <2>1, RepoDigests DEF RepoTypes
  <2>3. JobsInv' /\ OneOfAKind' /\ (Digests => Repo!NamedIsWhole')
    BY <2>1 DEF JobsInv, OneOfAKind, RepoInv, Repo!NamedIsWhole
  <2>4. ASSUME NEW x \in Repo!Models PROVE RowTrue(x)'
    <3>1. Telling(x)' <=> Telling(x)
      BY <2>1 DEF Telling
    <3> QED
      BY <2>1, <2>2, <3>1 DEF RepoInv, RowTrue
  <2> QED
    BY <2>2, <2>3, <2>4 DEF RepoInv
<1> QED
  BY <1>1, <1>2

LEMMA DeletePartKeeps ==
    ASSUME RepoInv, Repo!DeletePart
    PROVE  RepoInv'
<1>1. /\ repoPart' = [repoPart EXCEPT !["gguf"] = Repo!Nothing]
      /\ repoJob' = [j \in Jobs |->
                       IF repoJob[j].step = "copy" /\ repoJob[j].at = "gguf"
                       THEN [repoJob[j] EXCEPT !.unlinked = TRUE] ELSE repoJob[j]]
      /\ UNCHANGED <<hub, repoFile, repoRow, forgetting, tornRows>>
  BY DEF Repo!DeletePart
<1>2. ASSUME NEW j \in Jobs
      PROVE  /\ JobFields \subseteq DOMAIN repoJob'[j]
             /\ repoJob'[j].state = repoJob[j].state /\ repoJob'[j].kind = repoJob[j].kind
             /\ repoJob'[j].rev = repoJob[j].rev /\ repoJob'[j].step = repoJob[j].step
             /\ repoJob'[j].todo = repoJob[j].todo /\ repoJob'[j].at = repoJob[j].at
             /\ repoJob'[j].served = repoJob[j].served /\ repoJob'[j].sum = repoJob[j].sum
             /\ repoJob'[j].installed = repoJob[j].installed
  <2>1. JobFields \subseteq DOMAIN repoJob[j]
    BY DEF RepoInv, RepoTypes
  <2>2. repoJob'[j] = repoJob[j] \/ repoJob'[j] = [repoJob[j] EXCEPT !.unlinked = TRUE]
    BY <1>1
  <2> QED
    BY <2>1, <2>2 DEF JobFields
<1>3. RepoTypes' /\ repoPart'["gguf"] = Repo!Nothing
  BY <1>1, <1>2, RepoNames DEF RepoInv, RepoTypes
<1>4. OneOfAKind'
  BY <1>2 DEF RepoInv, OneOfAKind
<1>5. ASSUME NEW j \in Jobs
      PROVE  JobOrder(repoJob'[j]) /\ Measured(repoJob'[j], repoFile', repoPart')
  <2>1. JobOrder(repoJob[j]) /\ Measured(repoJob[j], repoFile, repoPart)
    BY DEF RepoInv, JobsInv
  <2> QED
    BY <1>1, <1>2, <1>3, <2>1 DEF JobOrder, Measured
<1>6. JobsInv' /\ (Digests => Repo!NamedIsWhole')
  BY <1>1, <1>5 DEF JobsInv, RepoInv, Repo!NamedIsWhole
<1>7. ASSUME NEW x \in Repo!Models PROVE RowTrue(x)'
  <2>1. Telling(x)' <=> Telling(x)
    BY <1>2 DEF Telling
  <2> QED
    BY <1>1, <2>1 DEF RepoInv, RowTrue
<1> QED
  BY <1>3, <1>4, <1>6, <1>7 DEF RepoInv

\* What a restart cuts off before it was recorded is known to be.
LEMMA RestartKeeps ==
    ASSUME RepoInv, Repo!Restart
    PROVE  RepoInv'
<1>1. /\ repoJob' = [j \in Jobs |-> IF Repo!Alive(j) THEN Repo!Ended(j, "lost")
                                    ELSE repoJob[j]]
      /\ forgetting' = {}
      /\ forgetting \subseteq tornRows' /\ tornRows \subseteq tornRows'
      /\ \A x : Telling(x) => x \in tornRows'
      /\ UNCHANGED <<hub, repoFile, repoPart, repoRow>>
  BY DEF Repo!Restart, Repo!disk, Telling
<1>2. ASSUME NEW j \in Jobs
      PROVE  /\ JobFields \subseteq DOMAIN repoJob'[j]
             /\ repoJob'[j].step = "none" /\ JobOrder(repoJob'[j])
  <2>1. JobFields \subseteq DOMAIN repoJob[j] /\ JobOrder(repoJob[j])
    BY DEF RepoInv, RepoTypes, JobsInv
  <2>2. CASE Repo!Alive(j)
    <3>1. PICK new : new = Repo!Ended(j, "lost")
      OBVIOUS
    <3>2. /\ JobFields \subseteq DOMAIN new /\ new.step = "none" /\ new.state = "lost"
          /\ new.kind = repoJob[j].kind /\ new.at = "gguf" /\ new.todo = {}
      BY <3>1 DEF Repo!Ended, Repo!Fresh, JobFields
    <3>3. repoJob'[j] = new
      BY <1>1, <2>2, <3>1
    <3> QED
      BY <2>1, <3>2, <3>3 DEF JobOrder
  <2>3. CASE ~Repo!Alive(j)
    BY <1>1, <2>1, <2>3 DEF Repo!Alive, JobOrder
  <2> QED
    BY <2>2, <2>3
<1>3. RepoTypes'
  BY <1>1, <1>2 DEF RepoInv, RepoTypes
<1>4. JobsInv' /\ OneOfAKind'
  BY <1>2 DEF JobsInv, OneOfAKind, Measured
<1>5. ASSUME NEW x \in Repo!Models PROVE RowTrue(x)'
  BY <1>1 DEF RepoInv, RowTrue
<1>6. Digests => Repo!NamedIsWhole'
  BY <1>1 DEF RepoInv, Repo!NamedIsWhole
<1> QED
  BY <1>3, <1>4, <1>5, <1>6 DEF RepoInv

LEMMA RepoStep ==
    ASSUME RepoInv, [Next]_vars
    PROVE  RepoInv'
<1>1. CASE UNCHANGED repoVars
  <2>1. UNCHANGED <<hub, repoFile, repoPart, repoRow, repoJob, forgetting, tornRows>>
    BY <1>1 DEF repoVars
  <2>2. RepoTypes' /\ JobsInv' /\ OneOfAKind' /\ (Digests => Repo!NamedIsWhole')
    BY <2>1 DEF RepoInv, RepoTypes, JobsInv, OneOfAKind, Repo!NamedIsWhole
  <2>3. ASSUME NEW x \in Repo!Models PROVE RowTrue(x)'
    <3>1. Telling(x)' <=> Telling(x)
      BY <2>1 DEF Telling
    <3> QED
      BY <2>1, <3>1 DEF RepoInv, RowTrue
  <2> QED
    BY <2>2, <2>3 DEF RepoInv
<1>2. ASSUME NEW j \in Jobs, NEW rev \in Revisions,
             Repo!BeginDownload(j, rev) \/ Repo!BeginConvert(j, rev)
      PROVE  RepoInv'
  BY <1>2, JobStarts DEF Repo!BeginDownload, Repo!BeginConvert
<1>3. ASSUME NEW j \in Jobs, Repo!Cancel(j) PROVE RepoInv'
  BY <1>3, CancelKeeps
<1>4. ASSUME NEW j \in Jobs, Repo!Run(j) PROVE RepoInv'
  BY <1>4, TransferKeeps, UnwindKeeps, VerifyKeeps, InstallKeepsRepo, RecordKeeps
     DEF Repo!Run, Repo!Transfer
<1>5. ASSUME NEW j \in Jobs, Repo!RunConvert(j) PROVE RepoInv'
  BY <1>5, ReleaseKeeps, StagingKeeps, ConvertedInstalled, HashKeeps DEF Repo!RunConvert
<1>6. ASSUME NEW m \in Repo!Models, Repo!Delete(m) \/ Repo!Forget(m) PROVE RepoInv'
  BY <1>6, DeletionKeeps
<1>7. CASE Repo!DeletePart
  BY <1>7, DeletePartKeeps
<1>8. CASE Repo!Upload
  <2>1. hub' \in [Revisions -> Versions]
    BY <1>8 DEF Repo!Upload, RepoInv, RepoTypes
  <2>2. UNCHANGED <<repoFile, repoPart, repoRow, repoJob, forgetting, tornRows>>
    BY <1>8 DEF Repo!Upload, Repo!disk
  <2>3. RepoTypes' /\ JobsInv' /\ OneOfAKind' /\ (Digests => Repo!NamedIsWhole')
    BY <2>1, <2>2 DEF RepoInv, RepoTypes, JobsInv, OneOfAKind, Repo!NamedIsWhole
  <2>4. ASSUME NEW x \in Repo!Models PROVE RowTrue(x)'
    <3>1. Telling(x)' <=> Telling(x)
      BY <2>2 DEF Telling
    <3> QED
      BY <2>2, <3>1 DEF RepoInv, RowTrue
  <2> QED
    BY <2>3, <2>4 DEF RepoInv
<1>9. CASE Repo!Restart
  BY <1>9, RestartKeeps
<1> QED
  BY <1>1, <1>2, <1>3, <1>4, <1>5, <1>6, <1>7, <1>8, <1>9, Steps DEF Repo!Next, Repo!Work

LEMMA RepoBegins == Init => RepoInv
<1> SUFFICES ASSUME Init PROVE RepoInv
  OBVIOUS
<1>1. /\ hub \in [Revisions -> Versions]
      /\ repoFile = [f \in Repo!Files |-> Repo!Nothing]
      /\ repoPart = [f \in Repo!Fetched |-> Repo!Nothing]
      /\ repoRow = [m \in Repo!Models |-> Repo!Nothing]
      /\ repoJob = [j \in Jobs |-> Repo!Fresh]
  BY DEF Init, Repo!Init
<1>2. PICK new : new = Repo!Fresh
  OBVIOUS
<1>3. /\ JobFields \subseteq DOMAIN new /\ new.step = "none" /\ new.state = "none"
      /\ new.kind = "download" /\ new.at = "gguf" /\ new.todo = {} /\ new.installed = FALSE
  BY <1>2 DEF Repo!Fresh, JobFields
<1>4. \A j \in Jobs : repoJob[j] = new
  BY <1>1, <1>2
<1>5. RepoTypes
  BY <1>1, <1>3, <1>4 DEF RepoTypes
<1>6. JobsInv /\ OneOfAKind
  BY <1>3, <1>4 DEF JobsInv, JobOrder, Measured, OneOfAKind
<1>7. \A m \in Repo!Models : RowTrue(m)
  BY <1>1, RepoDigests DEF RowTrue
<1>8. Digests => Repo!NamedIsWhole
  BY <1>1, RepoDigests, RepoNames DEF Repo!NamedIsWhole, Repo!Models
<1> QED
  BY <1>5, <1>6, <1>7, <1>8 DEF RepoInv

\* For any number of jobs, releases and versions, and whatever is resumed,
\* moved, cancelled, deleted or cut off: where digests are published, a model
\* that was downloaded under its real name is one version, complete; and of a
\* kind of job one is at work at a time (modelrepo/download.go: run, verify;
\* jobs.go: Start).  Without a digest only the length is compared, and the
\* model may be a mixture.
THEOREM DownloadsAreWhole ==
    ASSUME Digests = TRUE
    PROVE  Spec => []DownloadsWhole
<1>1. RepoInv => DownloadsWhole
  BY DEF RepoInv, OneOfAKind, DownloadsWhole, Repo!OneWriter
<1> QED
  BY <1>1, RepoBegins, RepoStep, PTL DEF Spec

\* With or without digests: a row that records one records that of the file it
\* stands for, unless a crash, a failed write or a hash cut short is known to
\* have come between, and a download whose file is in place is not told of as
\* failed or cancelled (modelrepo/download.go: run; convert.go: fileConverted;
\* repo.go: Delete).
THEOREM RowsAreTruthful == Spec => []RowsTruthful
<1>1. RepoInv => RowsTruthful
  <2> SUFFICES ASSUME RepoInv PROVE RowsTruthful
    OBVIOUS
  <2>1. Repo!InstalledIsDone
    BY DEF RepoInv, JobsInv, JobOrder, Repo!InstalledIsDone
  <2>2. ASSUME NEW m \in Repo!Models \ (tornRows \cup forgetting),
               repoFile[m].there /\ repoRow[m].there /\ repoRow[m] # Repo!Unverified,
               \A j \in Jobs : repoJob[j].step \in {"hash", "record"} =>
                                   Repo!Target(repoJob[j].kind) # m
        PROVE  repoRow[m] = repoFile[m]
    <3>1. ~Telling(m)
      BY <2>2 DEF Telling
    <3> QED
      BY <2>2, <3>1 DEF RepoInv, RowTrue
  <2> QED
    BY <2>1, <2>2 DEF RowsTruthful, Repo!RowsTruthful
<1> QED
  BY <1>1, RepoBegins, RepoStep, PTL DEF Spec

-----------------------------------------------------------------------------
(* The portfolio: cash.  Any ledger accounts for its cash, row by row.      *)

Positions == [qty : Int, cost : Int, den : Nat \ {0}, realized : Int, sales : Nat]

\* What moved is in the cost or realized, up to half a cent for each sale.
Near(p, moved) ==
    LET gap == (p.realized - moved) * p.den - p.cost
    IN 2 * gap <= p.sales * p.den /\ -(2 * gap) <= p.sales * p.den

LEMMA RoundNear ==
    ASSUME NEW n \in Int, NEW d \in Nat \ {0}
    PROVE  \E R \in Int : /\ R = Trades!Round(n, d)
                          /\ 2 * n - 2 * (d * R) <= d /\ -(2 * n - 2 * (d * R)) <= d
<1>1. ASSUME NEW x \in Int
      PROVE  \E z \in Int : /\ z = (2 * x + d) \div (2 * d)
                            /\ 2 * (d * z) <= 2 * x + d /\ 2 * x + d < 2 * (d * z) + 2 * d
  <2>1. PICK y \in Int, e \in Nat \ {0} : y = 2 * x + d /\ e = 2 * d
    OBVIOUS
  <2>2. PICK z \in Int : z = y \div e
    BY <2>1
  <2>3. e * z <= y /\ y < e * z + e
    BY <2>1, <2>2
  <2>4. e * z = 2 * (d * z)
    BY <2>1
  <2> QED
    BY <2>1, <2>2, <2>3, <2>4
<1>2. CASE n >= 0
  <2>1. PICK z \in Int : /\ z = (2 * n + d) \div (2 * d)
                         /\ 2 * (d * z) <= 2 * n + d /\ 2 * n + d < 2 * (d * z) + 2 * d
    BY <1>1
  <2>2. Trades!Round(n, d) = z
    BY <1>2, <2>1 DEF Trades!Round
  <2>3. PICK w \in Int : w = d * z
    OBVIOUS
  <2> QED
    BY <2>1, <2>2, <2>3
<1>3. CASE ~(n >= 0)
  <2>1. PICK z \in Int : /\ z = (2 * (-n) + d) \div (2 * d)
                         /\ 2 * (d * z) <= 2 * (-n) + d /\ 2 * (-n) + d < 2 * (d * z) + 2 * d
    <3>1. -n \in Int
      OBVIOUS
    <3> QED
      BY <1>1, <3>1
  <2>2. Trades!Round(n, d) = -z
    <3>1. 2 * (-n) = -2 * n
      OBVIOUS
    <3> QED
      BY <1>3, <2>1, <3>1 DEF Trades!Round
  <2>3. PICK w \in Int : w = d * z /\ d * (-z) = -w
    OBVIOUS
  <2> QED
    BY <2>1, <2>2, <2>3
<1> QED
  BY <1>2, <1>3

LEMMA TotalType == ASSUME NEW t \in Trades!Trade PROVE Trades!Total(t) \in Int
<1>1. PICK x \in Nat, f \in Nat : x = t.qty * t.price /\ f = t.fee
  BY DEF Trades!Trade
<1> QED
  BY <1>1 DEF Trades!Total

\* One row is replayed.
LEMMA ReplayNear ==
    ASSUME NEW p \in Positions, NEW t \in Trades!Trade, NEW m \in Int
    PROVE  /\ Trades!Replay(p, t) \in Positions
           /\ Near(p, m) => Near(Trades!Replay(p, t), m + Trades!Total(t))
<1>1. PICK q \in Int, c \in Int, d \in Nat \ {0}, r \in Int, s \in Nat :
        p = [qty |-> q, cost |-> c, den |-> d, realized |-> r, sales |-> s]
  BY DEF Positions
<1>2. PICK T \in Int, b \in Nat \ {0} : T = Trades!Total(t) /\ b = t.qty
  BY TotalType DEF Trades!Trade
<1>3. PICK g \in Int : g = (r - m) * d - c
  OBVIOUS
<1>4. Near(p, m) => 2 * g <= s * d /\ -(2 * g) <= s * d
  BY <1>1, <1>3 DEF Near
<1>5. CASE t.side = "buy"
  <2>1. Trades!Replay(p, t) = [qty |-> q + b, cost |-> c - T * d, den |-> d, realized |-> r, sales |-> s]
    BY <1>1, <1>2, <1>5 DEF Trades!Replay
  <2>2. (r - (m + T)) * d - (c - T * d) = g
    BY <1>3
  <2>3. Trades!Replay(p, t) \in Positions
    BY <2>1 DEF Positions
  <2> QED
    BY <1>2, <1>4, <2>1, <2>2, <2>3 DEF Near
<1>6. CASE t.side # "buy" /\ ~(q > 0)
  <2>1. Trades!Replay(p, t) = [qty |-> q - b, cost |-> c, den |-> d, realized |-> r + T, sales |-> s]
    BY <1>1, <1>2, <1>6 DEF Trades!Replay
  <2>2. ((r + T) - (m + T)) * d - c = g
    <3>1. (r + T) - (m + T) = r - m
      OBVIOUS
    <3> QED
      BY <1>3, <3>1
  <2>3. Trades!Replay(p, t) \in Positions
    BY <2>1 DEF Positions
  <2> QED
    BY <1>2, <1>4, <2>1, <2>2, <2>3 DEF Near
<1>7. CASE t.side # "buy" /\ q > 0
  <2>1. PICK e \in Nat \ {0}, n \in Int, k \in Int : e = d * q /\ n = c * b /\ k = c * (q - b)
    BY <1>7
  <2>2. PICK R \in Int : /\ R = Trades!Round(n, e)
                         /\ 2 * n - 2 * (e * R) <= e /\ -(2 * n - 2 * (e * R)) <= e
    BY RoundNear
  <2>3. Trades!Replay(p, t) = [qty |-> q - b, cost |-> k, den |-> e, realized |-> r + T - R, sales |-> s + 1]
    BY <1>1, <1>2, <1>7, <2>1, <2>2 DEF Trades!Replay
  <2>4. ((r + T - R) - (m + T)) * e - k = q * g + (n - e * R)
    <3>1. PICK u \in Int : u = r - m /\ (r + T - R) - (m + T) = u - R
      OBVIOUS
    <3>2. (u - R) * e = u * e - e * R
      OBVIOUS
    <3>3. u * e = q * (u * d)
      BY <2>1
    <3>4. q * g = q * (u * d) - q * c
      BY <1>3, <3>1
    <3>5. k = q * c - n
      BY <2>1
    <3> QED
      BY <3>1, <3>2, <3>3, <3>4, <3>5
  <2>5. PICK x \in Int, y \in Int, z \in Int, w \in Int :
          x = q * g /\ y = n - e * R /\ z = s * d /\ w = s * e
    OBVIOUS
  <2>6. ASSUME Near(p, m) PROVE 2 * x <= w /\ -(2 * x) <= w
    <3>1. w = q * z
      BY <2>1, <2>5
    <3>2. 2 * x = q * (2 * g)
      BY <2>5
    <3>3. q * (2 * g) <= q * z /\ q * (-(2 * g)) <= q * z
      BY <1>4, <1>7, <2>5, <2>6
    <3> QED
      BY <3>1, <3>2, <3>3
  <2>7. (s + 1) * e = w + e
    BY <2>5
  <2>8. 2 * y <= e /\ -(2 * y) <= e
    BY <2>2, <2>5
  <2>9. Near(p, m) => 2 * (x + y) <= (s + 1) * e /\ -(2 * (x + y)) <= (s + 1) * e
    BY <2>6, <2>7, <2>8
  <2>10. Trades!Replay(p, t) \in Positions
    BY <2>3 DEF Positions
  <2> QED
    BY <1>2, <2>3, <2>4, <2>5, <2>9, <2>10 DEF Near
<1> QED
  BY <1>5, <1>6, <1>7

\* What moved with the first rows of a ledger of N.
TotalOf(N) == [i \in 1 .. N |-> Trades!Total(ledger[i].trade)]

LEMMA MovedIsSum ==
    ASSUME NEW N \in Nat, DOMAIN ledger = 1 .. N
    PROVE  Trades!Moved = Sum(TotalOf(N), 1 .. N)
<1> DEFINE F == TotalOf(N)
           S == 1 .. N
           Adds(h) == h = [s \in SUBSET S |-> IF s = {} THEN 0
                             ELSE LET x == CHOOSE x \in s : TRUE
                                  IN  Trades!Total(ledger[x].trade) + h[s \ {x}]]
           h == CHOOSE h : Adds(h)
<1>0. IsFiniteSet(S) /\ \A n \in S : F[n] = Trades!Total(ledger[n].trade)
  BY FS_Interval DEF TotalOf
<1>4. Trades!Moved = h[S]
  BY DEF Trades!Moved, Trades!MapThenSumSet, Trades!MapThenFoldSet
<1> HIDE DEF S, F
<1>1. ASSUME NEW g PROVE Adds(g) <=> Sums(F, S, g)
  BY <1>0 DEF Sums
<1>2. \E g : Adds(g)
  <2> HIDE DEF Adds
  <2> QED
    BY <1>0, <1>1, SumsExist
<1>3. Adds(h)
  <2> HIDE DEF Adds
  <2> QED
    BY <1>2
<1>5. Sums(F, S, h)
  <2> HIDE DEF Adds, h
  <2> QED
    BY <1>1, <1>3
<1> HIDE DEF h, Adds
<1> QED
  BY <1>0, <1>4, <1>5, SumOf DEF F, S

\* The position after each row, and after all.
LEMMA PositionIs ==
    ASSUME NEW N \in Nat, Len(ledger) = N,
           \A n \in 1 .. N : ledger[n].trade \in Trades!Trade
    PROVE  \E g \in [0 .. N -> Positions] :
              /\ g[0] = Trades!Flat /\ Trades!Position = g[N]
              /\ \A n \in 1 .. N : g[n] = Trades!Replay(g[n - 1], ledger[n].trade)
<1> DEFINE step == [n \in 1 .. N |-> [p \in Positions |-> Trades!Replay(p, ledger[n].trade)]]
<1>1. ASSUME NEW n \in 1 .. N, NEW p \in Positions
      PROVE  Trades!Replay(p, ledger[n].trade) \in Positions
  BY ReplayNear
<1>2. step \in [1 .. N -> [Positions -> Positions]]
  BY <1>1
<1>3. \A n \in 1 .. N, p \in Positions : step[n][p] = Trades!Replay(p, ledger[n].trade)
  OBVIOUS
<1> HIDE DEF step
<1>4. Trades!Flat \in Positions
  BY DEF Trades!Flat, Positions
<1>5. PICK D, first, st : D = Positions /\ first = Trades!Flat /\ st = step
  OBVIOUS
<1>6. PICK g : Iterates(g, D, first, N, st)
  <2>1. first \in D /\ st \in [1 .. N -> [D -> D]]
    BY <1>2, <1>4, <1>5
  <2> QED
    BY <2>1, Iterated
<1>7. /\ g \in [0 .. N -> Positions] /\ g[0] = Trades!Flat
      /\ \A n \in 1 .. N : g[n] = Trades!Replay(g[n - 1], ledger[n].trade)
  <2>1. g \in [0 .. N -> Positions] /\ g[0] = Trades!Flat
        /\ \A n \in 1 .. N : g[n] = step[n][g[n - 1]]
    BY <1>5, <1>6 DEF Iterates
  <2>2. \A n \in 1 .. N : g[n - 1] \in Positions
    BY <2>1
  <2> QED
    BY <1>3, <2>1, <2>2
<1> DEFINE Solves(h) == h = [n \in 0 .. N |-> IF n = 0 THEN Trades!Flat
                               ELSE Trades!Replay(h[n - 1], ledger[n].trade)]
           f == CHOOSE h : Solves(h)
<1>8. Trades!Position = f[N]
  BY DEF Trades!Position, Trades!PositionAfter
<1>9. Solves(g)
  BY <1>7
<1>10. Solves(f)
  <2> HIDE DEF Solves
  <2> QED
    BY <1>9
<1> HIDE DEF f
<1>11. \A n \in 0 .. N : f[n] = g[n]
  <2> DEFINE good == { n \in Nat : n <= N => f[n] = g[n] }
  <2>1. 0 \in good
    <3>1. 0 \in 0 .. N
      OBVIOUS
    <3>2. f[0] = Trades!Flat
      BY <1>10, <3>1
    <3> QED
      BY <1>7, <3>2
  <2>2. ASSUME NEW n \in Nat, n \in good, n + 1 <= N PROVE f[n + 1] = g[n + 1]
    <3>1. f[n] = g[n] /\ n + 1 \in 1 .. N /\ n + 1 \in 0 .. N /\ (n + 1) - 1 = n /\ n + 1 # 0
      BY <2>2
    <3>2. f[n + 1] = Trades!Replay(f[n], ledger[n + 1].trade)
      BY <1>10, <3>1
    <3> QED
      BY <1>7, <3>1, <3>2
  <2>3. \A n \in Nat : n \in good => n + 1 \in good
    BY <2>2
  <2> HIDE DEF good
  <2>4. \A n \in Nat : n \in good
    BY <2>1, <2>3, Climb
  <2> QED
    BY <2>4 DEF good
<1> HIDE DEF Solves
<1> QED
  BY <1>7, <1>8, <1>11

\* Whatever trades a ledger has.
LEMMA CashHolds ==
    ASSUME NEW N \in Nat, Len(ledger) = N, DOMAIN ledger = 1 .. N,
           \A n \in 1 .. N : ledger[n].trade \in Trades!Trade
    PROVE  Trades!CashAccounted
<1>1. PICK g \in [0 .. N -> Positions] :
          /\ g[0] = Trades!Flat /\ Trades!Position = g[N]
          /\ \A n \in 1 .. N : g[n] = Trades!Replay(g[n - 1], ledger[n].trade)
  BY PositionIs
<1> DEFINE F == TotalOf(N)
           good == { n \in Nat : n <= N => Near(g[n], Sum(F, 1 .. n)) }
<1>2. \A n \in 1 .. N : F[n] = Trades!Total(ledger[n].trade) /\ F[n] \in Int
  BY TotalType DEF TotalOf
<1> HIDE DEF F
<1>3. 0 \in good
  <2>1. 1 .. 0 = {}
    OBVIOUS
  <2>2. Sum(F, 1 .. 0) = 0
    BY <2>1, SumEmpty
  <2> QED
    BY <1>1, <2>2 DEF Near, Trades!Flat
<1>4. ASSUME NEW n \in Nat, n \in good, n + 1 <= N
      PROVE  Near(g[n + 1], Sum(F, 1 .. n + 1))
  <2>1. n \in 0 .. N /\ n + 1 \in 1 .. N /\ (n + 1) - 1 = n /\ Near(g[n], Sum(F, 1 .. n))
    BY <1>4
  <2>2. PICK S : S = 1 .. n
    OBVIOUS
  <2>3. /\ 1 .. n + 1 = S \cup {n + 1} /\ n + 1 \notin S /\ IsFiniteSet(S)
        /\ \A i \in S \cup {n + 1} : F[i] \in Int
    <3>1. 1 .. n + 1 = S \cup {n + 1} /\ n + 1 \notin S
      BY <2>2
    <3>2. 1 .. n + 1 \subseteq 1 .. N
      BY <1>4
    <3>3. IsFiniteSet(S)
      BY <2>2, FS_Interval
    <3> QED
      BY <1>2, <3>1, <3>2, <3>3
  <2>4. Sum(F, 1 .. n + 1) = F[n + 1] + Sum(F, S)
    <3>1. Sum(F, S \cup {n + 1}) = F[n + 1] + Sum(F, S)
      BY <2>3, SumAdd
    <3> QED
      BY <2>3, <3>1
  <2>5. Sum(F, S) \in Int
    BY <2>3, SumTake
  <2>6. PICK m \in Int, T \in Int : m = Sum(F, S) /\ T = F[n + 1]
    BY <1>2, <2>1, <2>5
  <2>7. Near(Trades!Replay(g[n], ledger[n + 1].trade), m + Trades!Total(ledger[n + 1].trade))
    <3>1. Near(g[n], m) /\ g[n] \in Positions /\ ledger[n + 1].trade \in Trades!Trade
      BY <2>1, <2>2, <2>6
    <3> QED
      BY <3>1, ReplayNear
  <2> QED
    BY <1>1, <1>2, <2>1, <2>4, <2>6, <2>7
<1>5. \A n \in Nat : n \in good => n + 1 \in good
  BY <1>4
<1>6. Near(g[N], Sum(F, 1 .. N))
  <2> HIDE DEF good
  <2>1. \A n \in Nat : n \in good
    BY <1>3, <1>5, Climb
  <2> QED
    BY <2>1 DEF good
<1>7. Trades!Moved = Sum(F, 1 .. N) /\ Sum(F, 1 .. N) \in Int
  <2>1. Trades!Moved = Sum(F, 1 .. N)
    BY MovedIsSum DEF F
  <2>2. PICK S : S = 1 .. N
    OBVIOUS
  <2>3. IsFiniteSet(S) /\ \A n \in S : F[n] \in Int
    BY <1>2, <2>2, FS_Interval
  <2>4. Sum(F, S) \in Int
    BY <2>3, SumTake
  <2> QED
    BY <2>1, <2>2, <2>4
<1>8. PICK m \in Int, p \in Positions : m = Trades!Moved /\ p = Trades!Position /\ Near(p, m)
  BY <1>1, <1>6, <1>7
<1>9. PICK c \in Int, d \in Nat, r \in Int, s \in Nat :
        c = p.cost /\ d = p.den /\ r = p.realized /\ s = p.sales
  BY DEF Positions
<1>10. PICK x \in Int, y \in Int : x = (r - m) * d - c /\ y = s * d
  OBVIOUS
<1>11. 2 * x <= y /\ -(2 * x) <= y
  BY <1>8, <1>9, <1>10 DEF Near
<1>12. 2 * (IF x >= 0 THEN x ELSE -x) <= s * (IF d >= 0 THEN d ELSE -d)
  BY <1>10, <1>11
<1>13. (Trades!Position.realized - Trades!Moved) * Trades!Position.den - Trades!Position.cost = x
       /\ Trades!Position.sales = s /\ Trades!Position.den = d
  BY <1>8, <1>9, <1>10
<1> QED
  BY <1>12, <1>13, Zenon DEF Trades!CashAccounted

-----------------------------------------------------------------------------
(* The portfolio: what is booked.                                           *)

Sources == {"manual", "csv_import", "kraken_sync", "paper"}
Externals == {""} \cup DOMAIN Exchange
Bookings == [trade : Trades!Trade, source : Sources, external : Externals]
TradeRows == { Trades!Row(b.trade, b.source, b.external) : b \in Bookings }
Readable == Trades!Trade \cup {Trades!Unreadable}

\* A row of the ledger tells what happened outside, and no two are hashed alike.
Happened(row) ==
    /\ row.source = "kraken_sync" => /\ row.external \in traded
                                     /\ row = Trades!Row(Exchange[row.external], "kraken_sync", row.external)
    /\ row.source = "paper" => \E o \in filled : row = Trades!Row(Orders[o], "paper", "")
Distinct(L) == \A i, j \in 1 .. Len(L) : L[i].hash = L[j].hash => i = j

JobStates == [at : {"idle", "booking", "placed", "given up", "booked"},
              rows : Seq(Readable) \cup Seq(DOMAIN Exchange)]
TradeJobs ==
    /\ jobs \in [Trades!Requests -> JobStates]
    /\ \A u \in UploadTokens : jobs[u].rows \in Seq(Readable)
    /\ jobs["sync"].rows \in Seq(traded)

LedgerInv ==
    /\ ledger \in Seq(TradeRows) /\ Distinct(ledger)
    /\ \A i \in 1 .. Len(ledger) : Happened(ledger[i])
    /\ \A c \in clean : c \in TradeRows /\ \E i \in 1 .. Len(ledger) : ledger[i].hash = c.hash

OutsideInv ==
    /\ uploads \in [UploadTokens -> DOMAIN Imports \cup {Trades!NoFile}]
    /\ traded \subseteq DOMAIN Exchange /\ IsFiniteSet(traded)
    /\ filled \subseteq DOMAIN Orders /\ IsFiniteSet(filled)

TradeInv == LedgerInv /\ TradeJobs /\ OutsideInv

LEMMA RowIs ==
    ASSUME NEW row \in TradeRows
    PROVE  /\ row.trade \in Trades!Trade /\ row.source \in Sources
           /\ row = Trades!Row(row.trade, row.source, row.external)
           /\ row.hash[5] = row.source /\ row.hash[6] = row.external
<1>1. PICK b \in Bookings : row = Trades!Row(b.trade, b.source, b.external)
  BY DEF TradeRows
<1>2. PICK t \in Trades!Trade, s \in Sources, e \in Externals :
        t = b.trade /\ s = b.source /\ e = b.external /\ row = Trades!Row(t, s, e)
  BY <1>1 DEF Bookings
<1>3. row.trade = t /\ row.source = s /\ row.external = e /\ row.hash = Trades!DedupeHash(t, s, e)
  BY <1>2 DEF Trades!Row
<1>4. PICK u, v, w, x : row.hash = <<u, v, w, x, s, e>>
  BY <1>3 DEF Trades!DedupeHash
<1>5. row = Trades!Row(row.trade, row.source, row.external)
  BY <1>2, <1>3, Zenon
<1>6. row.hash[5] = s /\ row.hash[6] = e
  <2>1. <<u, v, w, x, s, e>>[5] = s /\ <<u, v, w, x, s, e>>[6] = e
    OBVIOUS
  <2> QED
    BY <1>4, <2>1, Zenon
<1> QED
  BY <1>3, <1>5, <1>6, Zenon

LEMMA RowTyped ==
    ASSUME NEW t \in Trades!Trade, NEW s \in Sources, NEW e \in Externals,
           NEW row, row = Trades!Row(t, s, e)
    PROVE  row \in TradeRows /\ row.trade = t /\ row.source = s /\ row.external = e
<1>1. PICK b \in Bookings : b.trade = t /\ b.source = s /\ b.external = e
  <2>1. [trade |-> t, source |-> s, external |-> e] \in Bookings
    BY DEF Bookings
  <2> QED
    BY <2>1
<1>2. row \in TradeRows
  BY <1>1 DEF TradeRows
<1> QED
  BY <1>2 DEF Trades!Row

\* A row goes in at its place and moves those after it.
With(L, i, x) == SubSeq(L, 1, i - 1) \o <<x>> \o SubSeq(L, i, Len(L))
Shifted(M, L, i, x) ==
    \A j \in 1 .. Len(L) + 1 : M[j] = IF j < i THEN L[j] ELSE IF j = i THEN x ELSE L[j - 1]
LEMMA InsertedAt ==
    ASSUME NEW S, NEW L \in Seq(S), NEW x \in S, NEW i \in 1 .. Len(L) + 1,
           NEW M, M = With(L, i, x)
    PROVE  M \in Seq(S) /\ Len(M) = Len(L) + 1 /\ Shifted(M, L, i, x)
<1>1. PICK p, q, r : p = SubSeq(L, 1, i - 1) /\ q = <<x>> /\ r = SubSeq(L, i, Len(L))
  OBVIOUS
<1>2. p \in Seq(S) /\ q \in Seq(S) /\ r \in Seq(S)
  BY <1>1
<1>3. /\ Len(p) = i - 1 /\ Len(q) = 1 /\ Len(r) = Len(L) - i + 1 /\ q[1] = x
      /\ \A j \in 1 .. Len(p) : p[j] = L[j]
      /\ \A j \in 1 .. Len(r) : r[j] = L[i + j - 1]
  BY <1>1
<1>n. Len(L) \in Nat
  OBVIOUS
<1>4. PICK m : m = p \o q
  OBVIOUS
<1>5. /\ m \in Seq(S) /\ Len(m) = i
      /\ \A j \in 1 .. i : m[j] = IF j < i THEN L[j] ELSE x
  <2>1. /\ m \in Seq(S) /\ Len(m) = Len(p) + Len(q)
        /\ \A j \in 1 .. Len(m) : m[j] = IF j <= Len(p) THEN p[j] ELSE q[j - Len(p)]
    BY <1>2, <1>4, ConcatIs
  <2>2. Len(m) = i
    BY <1>3, <2>1
  <2>3. ASSUME NEW j \in 1 .. i PROVE m[j] = IF j < i THEN L[j] ELSE x
    <3>1. m[j] = IF j <= i - 1 THEN p[j] ELSE q[j - (i - 1)]
      BY <1>3, <2>1, <2>2
    <3> QED
      BY <1>3, <3>1
  <2> QED
    BY <2>1, <2>2, <2>3
<1>6. M = m \o r
  BY <1>1, <1>4 DEF With
<1>7. /\ M \in Seq(S) /\ Len(M) = Len(m) + Len(r)
      /\ \A j \in 1 .. Len(M) : M[j] = IF j <= Len(m) THEN m[j] ELSE r[j - Len(m)]
  <2>1. m \in Seq(S)
    BY <1>5
  <2>2. r \in Seq(S)
    BY <1>2
  <2> QED
    <3>1. PICK W : W = m \o r
      OBVIOUS
    <3>2. /\ W \in Seq(S) /\ Len(W) = Len(m) + Len(r)
          /\ \A j \in 1 .. Len(W) : W[j] = IF j <= Len(m) THEN m[j] ELSE r[j - Len(m)]
      BY <2>1, <2>2, <3>1, ConcatIs
    <3>3. W = M
      BY <3>1, <1>6, Zenon
    <3> QED
      BY <3>2, <3>3, Zenon
<1>l. Len(m) = i /\ Len(r) = Len(L) - i + 1
  BY <1>3, <1>5
<1>8. Len(M) = Len(L) + 1
  <2>1. PICK a \in Nat, b \in Nat : a = i /\ b = Len(L)
    BY <1>n
  <2>2. Len(M) = a + (b - a + 1)
    BY <1>l, <1>7, <2>1, Zenon
  <2>3. a + (b - a + 1) = b + 1
    OBVIOUS
  <2> QED
    BY <2>1, <2>2, <2>3, Zenon
<1>9. ASSUME NEW j \in 1 .. Len(L) + 1
      PROVE  M[j] = IF j < i THEN L[j] ELSE IF j = i THEN x ELSE L[j - 1]
  <2>1. M[j] = IF j <= i THEN m[j] ELSE r[j - i]
    BY <1>5, <1>7, <1>8
  <2>2. CASE j <= i
    <3>0. j \in 1 .. i
      BY <1>n, <2>2
    <3>1. j \in 1 .. i /\ M[j] = m[j]
      BY <3>0, <2>1, <2>2, Zenon
    <3>2. m[j] = IF j < i THEN L[j] ELSE x
      BY <1>5, <3>1, Zenon
    <3>3. j < i \/ j = i
      BY <1>n, <2>2
    <3>4. ~(i < i)
      OBVIOUS
    <3> QED
      BY <3>1, <3>2, <3>3, <3>4, Zenon
  <2>3. CASE ~(j <= i)
    <3>1. j - i \in 1 .. Len(r) /\ i + (j - i) - 1 = j - 1
      BY <1>3, <1>n, <2>3
    <3>2. r[j - i] = L[i + (j - i) - 1]
      BY <1>3, <3>1
    <3>3. M[j] = r[j - i]
      BY <2>1, <2>3, Zenon
    <3>4. M[j] = L[j - 1]
      BY <3>1, <3>2, <3>3, Zenon
    <3>5. ~(j < i) /\ ~(j = i)
      BY <1>n, <2>3
    <3> QED
      BY <3>4, <3>5, Zenon
  <2> QED
    BY <2>2, <2>3
<1> QED
  BY <1>7, <1>8, <1>9 DEF Shifted

\* A trade is recorded unless it is already there: either way it is, once.
LEMMA RecordBooks ==
    ASSUME ledger \in Seq(TradeRows), Distinct(ledger), NEW row \in TradeRows,
           \A i \in 1 .. Len(ledger) : Happened(ledger[i]), Happened(row),
           Trades!RecordTrade(row)
    PROVE  /\ ledger' \in Seq(TradeRows) /\ Distinct(ledger')
           /\ \A i \in 1 .. Len(ledger') : Happened(ledger'[i])
           /\ \A i \in 1 .. Len(ledger) : \E j \in 1 .. Len(ledger') : ledger'[j] = ledger[i]
           /\ \E j \in 1 .. Len(ledger') : ledger'[j].hash = row.hash
<1>0. Len(ledger) \in Nat /\ DOMAIN ledger = 1 .. Len(ledger)
  OBVIOUS
<1>1. CASE Trades!IsDuplicate(row)
  BY <1>0, <1>1 DEF Trades!RecordTrade, Trades!IsDuplicate
<1>2. CASE ~Trades!IsDuplicate(row)
  <2> DEFINE before == { i \in DOMAIN ledger : ledger[i].trade.time <= row.trade.time }
             at == 1 + Trades!Cardinality(before)
  <2>1. at \in 1 .. Len(ledger) + 1
    <3>1. IsFiniteSet(1 .. Len(ledger)) /\ Cardinality(1 .. Len(ledger)) = Len(ledger)
      BY <1>0, FS_Interval, SMTT(30)
    <3>2. before \subseteq 1 .. Len(ledger)
      BY <1>0
    <3>3. Cardinality(before) \in Nat /\ Cardinality(before) <= Len(ledger)
      BY <3>1, <3>2, FS_Subset, FS_CardinalityType
    <3>4. Trades!Cardinality(before) = Cardinality(before)
      BY DEF Trades!Cardinality, Cardinality
    <3> QED
      BY <1>0, <3>3, <3>4
  <2>2. ledger' = SubSeq(ledger, 1, at - 1) \o <<row>> \o SubSeq(ledger, at, Len(ledger))
    BY <1>2 DEF Trades!RecordTrade, Trades!Inserted, Trades!InsertAt
  <2> HIDE DEF at
  <2>3. PICK M : M = ledger'
    OBVIOUS
  <2>4. /\ M \in Seq(TradeRows) /\ Len(M) = Len(ledger) + 1
        /\ \A j \in 1 .. Len(ledger) + 1 :
             M[j] = IF j < at THEN ledger[j] ELSE IF j = at THEN row ELSE ledger[j - 1]
    <3>1. PICK S, L, a : S = TradeRows /\ L = ledger /\ a = at
      OBVIOUS
    <3>2. L \in Seq(S) /\ row \in S /\ a \in 1 .. Len(L) + 1
      BY <2>1, <3>1, Zenon
    <3>3. M = With(L, a, row)
      BY <2>2, <2>3, <3>1, Zenon DEF With
    <3>4. M \in Seq(S) /\ Len(M) = Len(L) + 1 /\ Shifted(M, L, a, row)
      BY <3>2, <3>3, InsertedAt
    <3> QED
      BY <3>1, <3>4, Zenon DEF Shifted
  <2>5. \A i \in 1 .. Len(ledger) : ledger[i].hash # row.hash
    BY <1>0, <1>2 DEF Trades!IsDuplicate
  <2>6. Distinct(M)
    <3>1. PICK from : from = [j \in 1 .. Len(M) |-> IF j < at THEN j ELSE j - 1]
      OBVIOUS
    <3>2. ASSUME NEW j \in 1 .. Len(M), j # at
          PROVE  from[j] \in 1 .. Len(ledger) /\ M[j] = ledger[from[j]]
      BY <1>0, <2>1, <2>4, <3>1, <3>2
    <3>3. \A j, k \in 1 .. Len(M) : j # at /\ k # at /\ from[j] = from[k] => j = k
      BY <1>0, <2>1, <2>4, <3>1
    <3>4. M[at] = row
      BY <1>0, <2>1, <2>4
    <3> SUFFICES ASSUME NEW j \in 1 .. Len(M), NEW k \in 1 .. Len(M), M[j].hash = M[k].hash
                 PROVE  j = k
      BY DEF Distinct
    <3>5. ASSUME j # at, k # at PROVE from[j] = from[k]
      <4>1. PICK p \in 1 .. Len(ledger), q \in 1 .. Len(ledger) : p = from[j] /\ q = from[k]
        BY <3>2, <3>5
      <4>2. ledger[p].hash = ledger[q].hash
        BY <3>2, <3>5, <4>1
      <4>3. p = q
        BY <4>2 DEF Distinct
      <4> QED
        BY <4>1, <4>3
    <3> QED
      BY <2>5, <3>2, <3>3, <3>4, <3>5
  <2>7. \A i \in 1 .. Len(M) : Happened(M[i])
    BY <1>0, <2>1, <2>4
  <2>8. ASSUME NEW i \in 1 .. Len(ledger) PROVE \E j \in 1 .. Len(M) : M[j] = ledger[i]
    <3>1. CASE i < at
      BY <1>0, <2>4, <3>1
    <3>2. CASE ~(i < at)
      <4>1. i + 1 \in 1 .. Len(M) /\ M[i + 1] = ledger[i]
        BY <1>0, <2>1, <2>4, <3>2
      <4> QED
        BY <4>1
    <3> QED
      BY <3>1, <3>2
  <2>9. at \in 1 .. Len(M) /\ M[at].hash = row.hash
    BY <1>0, <2>1, <2>4
  <2> QED
    BY <2>3, <2>4, <2>6, <2>7, <2>8, <2>9
<1> QED
  BY <1>1, <1>2

\* A trade is booked, and what was reported of it is so.
LEMMA BooksRow ==
    ASSUME LedgerInv, NEW row \in TradeRows, Happened(row), Trades!RecordTrade(row),
           UNCHANGED <<traded, filled>>, clean' = clean \/ clean' = clean \cup {row}
    PROVE  LedgerInv'
<1>1. /\ ledger' \in Seq(TradeRows) /\ Distinct(ledger')
      /\ \A i \in 1 .. Len(ledger') : Happened(ledger'[i])
      /\ \A i \in 1 .. Len(ledger) : \E j \in 1 .. Len(ledger') : ledger'[j] = ledger[i]
      /\ \E j \in 1 .. Len(ledger') : ledger'[j].hash = row.hash
  BY RecordBooks DEF LedgerInv
<1>2. \A i \in 1 .. Len(ledger') : Happened(ledger[i])'
  BY <1>1 DEF Happened
<1>3. ASSUME NEW c \in clean'
      PROVE  c \in TradeRows /\ \E i \in 1 .. Len(ledger') : ledger'[i].hash = c.hash
  BY <1>1, <1>3 DEF LedgerInv
<1>4. Distinct(ledger)'
  BY <1>1 DEF Distinct
<1> QED
  BY <1>1, <1>2, <1>3, <1>4 DEF LedgerInv

\* Nothing is booked; more may happen outside.
LEMMA LedgerStays ==
    ASSUME LedgerInv, UNCHANGED <<ledger, clean>>,
           traded \subseteq traded', filled \subseteq filled'
    PROVE  LedgerInv'
<1>1. ASSUME NEW i \in 1 .. Len(ledger) PROVE Happened(ledger[i])'
  BY DEF LedgerInv, Happened
<1>2. Distinct(ledger)'
  BY DEF LedgerInv, Distinct
<1> QED
  BY <1>1, <1>2 DEF LedgerInv

\* A request goes on to its next state.
LEMMA RequestGoes ==
    ASSUME TradeJobs, NEW r \in Trades!Requests, NEW new \in JobStates,
           jobs' = [jobs EXCEPT ![r] = new],
           r \in UploadTokens => new.rows \in Seq(Readable),
           r = "sync" => new.rows \in Seq(traded), UNCHANGED traded
    PROVE  TradeJobs'
<1>1. "sync" \in Trades!Requests /\ UploadTokens \subseteq Trades!Requests
  BY DEF Trades!Requests
<1>2. jobs' \in [Trades!Requests -> JobStates]
  BY DEF TradeJobs
<1>3. jobs'[r] = new /\ \A s \in Trades!Requests : s # r => jobs'[s] = jobs[s]
  BY DEF TradeJobs
<1>4. ASSUME NEW u \in UploadTokens PROVE jobs'[u].rows \in Seq(Readable)
  BY <1>1, <1>3 DEF TradeJobs
<1>5. jobs'["sync"].rows \in Seq(traded')
  BY <1>1, <1>3 DEF TradeJobs
<1> QED
  BY <1>2, <1>4, <1>5 DEF TradeJobs

\* Its state changes, and its rows stay as they are.
LEMMA RequestTurns ==
    ASSUME TradeJobs, NEW r \in Trades!Requests,
           NEW to \in {"idle", "booking", "placed", "given up", "booked"},
           jobs' = [jobs EXCEPT ![r].at = to], UNCHANGED traded
    PROVE  TradeJobs'
<1>1. PICK new : new = [jobs[r] EXCEPT !.at = to]
  OBVIOUS
<1>2. jobs[r] \in JobStates
  BY DEF TradeJobs
<1>3. new \in JobStates /\ new.rows = jobs[r].rows
  BY <1>1, <1>2 DEF JobStates
<1>4. jobs' = [jobs EXCEPT ![r] = new]
  BY <1>1, Zenon
<1> QED
  BY <1>3, <1>4, RequestGoes DEF TradeJobs

\* It is done with a row.
LEMMA RequestNext ==
    ASSUME TradeJobs, NEW r \in Trades!Requests, jobs[r].rows # <<>>,
           jobs' = [jobs EXCEPT ![r].rows = Tail(@)], UNCHANGED traded
    PROVE  TradeJobs'
<1>1. PICK new : new = [jobs[r] EXCEPT !.rows = Tail(jobs[r].rows)]
  OBVIOUS
<1>2. jobs[r] \in JobStates
  BY DEF TradeJobs
<1>3. PICK before, after : before = jobs[r].rows /\ after = Tail(before)
  OBVIOUS
<1>4. \A S : before \in Seq(S) => after \in Seq(S)
  BY <1>3
<1>5. new.rows = after /\ new.at = jobs[r].at /\ DOMAIN new = {"at", "rows"}
  BY <1>1, <1>2, <1>3 DEF JobStates
<1>6. new = [at |-> jobs[r].at, rows |-> after]
  BY <1>1, <1>2, <1>3 DEF JobStates
<1>7. after \in Seq(Readable) \cup Seq(DOMAIN Exchange)
  BY <1>2, <1>3, <1>4 DEF JobStates
<1>8. new \in JobStates
  BY <1>2, <1>6, <1>7 DEF JobStates
<1>9. jobs' = [jobs EXCEPT ![r] = new]
  BY <1>1, Zenon
<1>10. r \in UploadTokens => after \in Seq(Readable)
  BY <1>3, <1>4 DEF TradeJobs
<1>11. r = "sync" => after \in Seq(traded)
  BY <1>3, <1>4 DEF TradeJobs
<1> QED
  BY <1>5, <1>8, <1>9, <1>10, <1>11, RequestGoes

LEMMA RequestIdles ==
    ASSUME TradeJobs, NEW r \in Trades!Requests,
           jobs' = [jobs EXCEPT ![r] = Trades!Idle], UNCHANGED traded
    PROVE  TradeJobs'
<1>1. PICK new : new = Trades!Idle
  OBVIOUS
<1>2. \A S : <<>> \in Seq(S)
  OBVIOUS
<1>3. new \in JobStates /\ new.rows = <<>>
  BY <1>1, <1>2 DEF Trades!Idle, JobStates
<1> QED
  BY <1>1, <1>2, <1>3, RequestGoes

LEMMA ByHandKeeps ==
    ASSUME TradeInv, NEW t \in Manual, Trades!RecordByHand(t)
    PROVE  TradeInv'
<1>1. t \in Trades!Trade
  BY TradesAssumption DEF Trades!WellFormed
<1>2. PICK row : row = Trades!Row(t, "manual", "")
  OBVIOUS
<1>3. row \in TradeRows /\ row.source = "manual"
  <2>1. PICK s \in Sources : s = "manual"
    BY DEF Sources
  <2>2. PICK e \in Externals : e = ""
    BY DEF Externals
  <2>3. row = Trades!Row(t, s, e)
    BY <1>2, <2>1, <2>2, Zenon
  <2>0. s \in Sources /\ e \in Externals
    BY <2>1, <2>2
  <2>4. row \in TradeRows /\ row.source = s
    BY <1>1, <2>0, <2>3, RowTyped
  <2> QED
    BY <2>1, <2>4
<1>4. Happened(row)
  BY <1>3 DEF Happened
<1>5. /\ Trades!RecordTrade(row)
      /\ UNCHANGED <<uploads, jobs, traded, filled, trouble, clean>>
  BY <1>2 DEF Trades!RecordByHand
<1>6. LedgerInv'
  BY <1>3, <1>4, <1>5, BooksRow DEF TradeInv
<1>7. TradeJobs' /\ OutsideInv'
  BY <1>5 DEF TradeInv, TradeJobs, OutsideInv
<1> QED
  BY <1>6, <1>7 DEF TradeInv

LEMMA PreviewKeeps ==
    ASSUME TradeInv, NEW u \in UploadTokens, NEW f \in DOMAIN Imports, Trades!PreviewImport(u, f)
    PROVE  TradeInv'
<1>1. UNCHANGED <<ledger, jobs, traded, filled, clean>>
  BY DEF Trades!PreviewImport
<1>2. PICK expired, kept :
        /\ kept = [w \in UploadTokens |-> IF w \in expired THEN Trades!NoFile ELSE uploads[w]]
        /\ uploads' = IF Trades!Cardinality(Trades!Pending \ expired) >= MaxUploads THEN kept
                      ELSE [kept EXCEPT ![u] = f]
  BY Zenon DEF Trades!PreviewImport
<1>3. kept \in [UploadTokens -> DOMAIN Imports \cup {Trades!NoFile}]
  BY <1>2 DEF TradeInv, OutsideInv
<1>4. [kept EXCEPT ![u] = f] \in [UploadTokens -> DOMAIN Imports \cup {Trades!NoFile}]
  BY <1>3
<1>5. uploads' \in [UploadTokens -> DOMAIN Imports \cup {Trades!NoFile}]
  BY <1>2, <1>3, <1>4, Zenon
<1>6. LedgerInv'
  BY <1>1, LedgerStays DEF TradeInv
<1>7. TradeJobs' /\ OutsideInv'
  BY <1>1, <1>5 DEF TradeInv, TradeJobs, OutsideInv
<1> QED
  BY <1>6, <1>7 DEF TradeInv

LEMMA ConfirmKeeps ==
    ASSUME TradeInv, NEW u \in UploadTokens, Trades!ConfirmImport(u)
    PROVE  TradeInv'
<1>1. /\ uploads[u] # Trades!NoFile /\ UNCHANGED <<ledger, traded, filled, clean>>
      /\ uploads' = [uploads EXCEPT ![u] = Trades!NoFile]
  BY DEF Trades!ConfirmImport
<1>2. PICK new : /\ new = Trades!Booking(Imports[uploads[u]])
                 /\ jobs' = [jobs EXCEPT ![u] = new]
  BY DEF Trades!ConfirmImport
<1>3. uploads[u] \in DOMAIN Imports
  BY <1>1 DEF TradeInv, OutsideInv
<1>4. Imports[uploads[u]] \in Seq(Readable)
  BY <1>3, TradesAssumption DEF Trades!WellFormed, Readable
<1>5. new \in JobStates /\ new.rows \in Seq(Readable)
  BY <1>2, <1>4 DEF Trades!Booking, JobStates
<1>6. u \in Trades!Requests /\ u # "sync"
  BY TradesAssumption DEF Trades!WellFormed, Trades!Requests
<1>7. TradeJobs'
  BY <1>1, <1>2, <1>5, <1>6, RequestGoes DEF TradeInv
<1>8. LedgerInv'
  BY <1>1, LedgerStays DEF TradeInv
<1>9. OutsideInv'
  BY <1>1 DEF TradeInv, OutsideInv
<1> QED
  BY <1>7, <1>8, <1>9 DEF TradeInv

LEMMA ImportRowKeeps ==
    ASSUME TradeInv, NEW u \in UploadTokens, Trades!ImportRow(u)
    PROVE  TradeInv'
<1>1. /\ jobs[u].rows # <<>> /\ jobs' = [jobs EXCEPT ![u].rows = Tail(@)]
      /\ UNCHANGED <<uploads, traded, filled>>
  BY DEF Trades!ImportRow
<1>2. PICK trade, row :
        /\ trade = Head(jobs[u].rows) /\ row = Trades!Row(trade, "csv_import", "")
        /\ \/ UNCHANGED <<ledger, clean>>
           \/ trade # Trades!Unreadable /\ Trades!RecordTrade(row) /\ clean' = clean \cup {row}
  BY Zenon DEF Trades!ImportRow
<1>3. u \in Trades!Requests
  BY DEF Trades!Requests
<1>4. TradeJobs'
  BY <1>1, <1>3, RequestNext DEF TradeInv
<1>5. OutsideInv'
  BY <1>1 DEF TradeInv, OutsideInv
<1>6. CASE UNCHANGED <<ledger, clean>>
  <2>1. LedgerInv'
    BY <1>1, <1>6, LedgerStays DEF TradeInv
  <2> QED
    BY <1>4, <1>5, <2>1 DEF TradeInv
<1>7. CASE trade # Trades!Unreadable /\ Trades!RecordTrade(row) /\ clean' = clean \cup {row}
  <2>1. PICK before : before = jobs[u].rows /\ before \in Seq(Readable)
    BY DEF TradeInv, TradeJobs
  <2>2. Head(before) \in Readable
    BY <1>1, <2>1
  <2>3. trade \in Trades!Trade
    BY <1>2, <1>7, <2>1, <2>2 DEF Readable
  <2>4. row \in TradeRows /\ row.source = "csv_import"
    <3>1. PICK s \in Sources : s = "csv_import"
      BY DEF Sources
    <3>2. PICK e \in Externals : e = ""
      BY DEF Externals
    <3>3. row = Trades!Row(trade, s, e)
      BY <1>2, <3>1, <3>2, Zenon
    <3>0. s \in Sources /\ e \in Externals
      BY <3>1, <3>2
    <3>4. row \in TradeRows /\ row.source = s
      BY <2>3, <3>0, <3>3, RowTyped
    <3> QED
      BY <3>1, <3>4
  <2>5. Happened(row)
    BY <2>4 DEF Happened
  <2>6. LedgerInv'
    BY <1>1, <1>7, <2>4, <2>5, BooksRow DEF TradeInv
  <2> QED
    BY <1>4, <1>5, <2>6 DEF TradeInv
<1> QED
  BY <1>2, <1>6, <1>7

LEMMA FinishKeeps ==
    ASSUME TradeInv, NEW r \in Trades!Requests, jobs' = [jobs EXCEPT ![r] = Trades!Idle],
           UNCHANGED <<ledger, uploads, traded, filled, clean>>
    PROVE  TradeInv'
<1>1. TradeJobs'
  BY RequestIdles DEF TradeInv
<1>2. LedgerInv'
  BY LedgerStays DEF TradeInv
<1> QED
  BY <1>1, <1>2 DEF TradeInv, OutsideInv

LEMMA ExchangeKeeps ==
    ASSUME TradeInv, NEW id \in DOMAIN Exchange, Trades!TradeOnExchange(id)
    PROVE  TradeInv'
<1>1. traded' = traded \cup {id} /\ UNCHANGED <<ledger, uploads, jobs, filled, clean>>
  BY DEF Trades!TradeOnExchange
<1>2. LedgerInv'
  BY <1>1, LedgerStays DEF TradeInv
<1>3. IsFiniteSet(traded') /\ traded' \subseteq DOMAIN Exchange
  BY <1>1, FS_AddElement DEF TradeInv, OutsideInv
<1>4. OutsideInv'
  BY <1>1, <1>3 DEF TradeInv, OutsideInv
<1>5. \A s : s \in Seq(traded) => s \in Seq(traded')
  BY <1>1
<1>6. TradeJobs'
  BY <1>1, <1>5 DEF TradeInv, TradeJobs
<1> QED
  BY <1>2, <1>4, <1>6 DEF TradeInv

LEMMA BeginSyncKeeps ==
    ASSUME TradeInv, Trades!BeginSync
    PROVE  TradeInv'
<1>1. UNCHANGED <<ledger, uploads, traded, filled, clean>>
  BY DEF Trades!BeginSync
<1>2. PICK order \in Trades!SetToSeqs(traded) :
        jobs' = [jobs EXCEPT !["sync"] = Trades!Booking(order)]
  BY DEF Trades!BeginSync
<1>3. PICK n : n = Trades!Cardinality(traded)
  OBVIOUS
<1>4. n \in Nat
  <2>1. Trades!Cardinality(traded) = Cardinality(traded)
    BY DEF Trades!Cardinality, Cardinality
  <2> QED
    BY <1>3, <2>1, FS_CardinalityType DEF TradeInv, OutsideInv
<1>5. order \in [1 .. n -> traded]
  BY <1>2, <1>3 DEF Trades!SetToSeqs
<1>6. order \in Seq(traded) /\ order \in Seq(DOMAIN Exchange)
  BY <1>4, <1>5 DEF TradeInv, OutsideInv
<1>7. PICK new : new = Trades!Booking(order)
  OBVIOUS
<1>8. new \in JobStates /\ new.rows = order
  BY <1>6, <1>7 DEF Trades!Booking, JobStates
<1>9. "sync" \in Trades!Requests /\ "sync" \notin UploadTokens
  BY TradesAssumption DEF Trades!WellFormed, Trades!Requests
<1>10. TradeJobs'
  BY <1>1, <1>2, <1>6, <1>7, <1>8, <1>9, RequestGoes DEF TradeInv
<1>11. LedgerInv'
  BY <1>1, LedgerStays DEF TradeInv
<1> QED
  BY <1>1, <1>10, <1>11 DEF TradeInv, OutsideInv

LEMMA SyncTradeKeeps ==
    ASSUME TradeInv, Trades!SyncTrade
    PROVE  TradeInv'
<1>1. /\ jobs["sync"].rows # <<>> /\ jobs' = [jobs EXCEPT !["sync"].rows = Tail(@)]
      /\ UNCHANGED <<uploads, traded, filled>>
  BY DEF Trades!SyncTrade
<1>2. PICK id, row :
        /\ id = Head(jobs["sync"].rows) /\ row = Trades!Row(Exchange[id], "kraken_sync", id)
        /\ \/ UNCHANGED <<ledger, clean>>
           \/ Trades!RecordTrade(row) /\ clean' = clean \cup {row}
  BY Zenon DEF Trades!SyncTrade
<1>3. "sync" \in Trades!Requests
  BY DEF Trades!Requests
<1>4. TradeJobs'
  BY <1>1, <1>3, RequestNext DEF TradeInv
<1>5. OutsideInv'
  BY <1>1 DEF TradeInv, OutsideInv
<1>6. CASE UNCHANGED <<ledger, clean>>
  <2>1. LedgerInv'
    BY <1>1, <1>6, LedgerStays DEF TradeInv
  <2> QED
    BY <1>4, <1>5, <2>1 DEF TradeInv
<1>7. CASE Trades!RecordTrade(row) /\ clean' = clean \cup {row}
  <2>1. PICK before : before = jobs["sync"].rows /\ before \in Seq(traded)
    BY DEF TradeInv, TradeJobs
  <2>2. id \in traded
    BY <1>1, <1>2, <2>1, SMTT(30)
  <2>3. id \in DOMAIN Exchange /\ Exchange[id] \in Trades!Trade
    BY <2>2, TradesAssumption DEF Trades!WellFormed, TradeInv, OutsideInv
  <2>4. row \in TradeRows /\ row.source = "kraken_sync" /\ row.external = id
    <3>1. PICK s \in Sources : s = "kraken_sync"
      BY DEF Sources
    <3>2. PICK t \in Trades!Trade : t = Exchange[id]
      BY <2>3
    <3>3. row = Trades!Row(t, s, id)
      BY <1>2, <3>1, <3>2, Zenon
    <3>4. id \in Externals
      BY <2>3 DEF Externals
    <3> QED
      BY <3>1, <3>2, <3>3, <3>4, RowTyped
  <2>5. Happened(row)
    BY <1>2, <2>2, <2>4 DEF Happened
  <2>6. LedgerInv'
    BY <1>1, <1>7, <2>4, <2>5, BooksRow DEF TradeInv
  <2> QED
    BY <1>4, <1>5, <2>6 DEF TradeInv
<1> QED
  BY <1>2, <1>6, <1>7

LEMMA OrderTurns ==
    ASSUME TradeInv, NEW o \in DOMAIN Orders, NEW to \in {"placed", "given up"},
           jobs' = [jobs EXCEPT ![o].at = to],
           UNCHANGED <<ledger, uploads, traded, filled, clean>>
    PROVE  TradeInv'
<1>1. o \in Trades!Requests
  BY DEF Trades!Requests
<1>2. TradeJobs'
  BY <1>1, RequestTurns DEF TradeInv
<1>3. LedgerInv'
  BY LedgerStays DEF TradeInv
<1> QED
  BY <1>2, <1>3 DEF TradeInv, OutsideInv

LEMMA FillKeeps ==
    ASSUME TradeInv, NEW o \in DOMAIN Orders, Trades!Fill(o)
    PROVE  TradeInv'
<1>1. filled' = filled \cup {o} /\ UNCHANGED <<ledger, uploads, jobs, traded, clean>>
  BY DEF Trades!Fill
<1>2. LedgerInv'
  BY <1>1, LedgerStays DEF TradeInv
<1>3. IsFiniteSet(filled') /\ filled' \subseteq DOMAIN Orders
  BY <1>1, FS_AddElement DEF TradeInv, OutsideInv
<1> QED
  BY <1>1, <1>2, <1>3 DEF TradeInv, OutsideInv, TradeJobs

LEMMA BookFillKeeps ==
    ASSUME TradeInv, NEW o \in DOMAIN Orders, Trades!BookFill(o)
    PROVE  TradeInv'
<1>1. PICK row : /\ row = Trades!Row(Orders[o], "paper", "") /\ Trades!RecordTrade(row)
                 /\ jobs' = [jobs EXCEPT ![o].at = "booked"] /\ o \in filled
                 /\ UNCHANGED <<uploads, traded, filled, clean>>
  BY DEF Trades!BookFill
<1>2. Orders[o] \in Trades!Trade
  BY TradesAssumption DEF Trades!WellFormed
<1>3. row \in TradeRows /\ row.source = "paper"
  <2>1. PICK s \in Sources : s = "paper"
    BY DEF Sources
  <2>2. PICK e \in Externals : e = ""
    BY DEF Externals
  <2>3. PICK t \in Trades!Trade : t = Orders[o]
    BY <1>2
  <2>4. row = Trades!Row(t, s, e)
    BY <1>1, <2>1, <2>2, <2>3, Zenon
  <2>0. t \in Trades!Trade /\ s \in Sources /\ e \in Externals
    BY <2>1, <2>2, <2>3
  <2>5. row \in TradeRows /\ row.source = s
    BY <2>0, <2>4, RowTyped
  <2> QED
    BY <2>1, <2>5
<1>4. Happened(row)
  BY <1>1, <1>3 DEF Happened
<1>5. LedgerInv'
  BY <1>1, <1>3, <1>4, BooksRow DEF TradeInv
<1>6. o \in Trades!Requests
  BY DEF Trades!Requests
<1>7. TradeJobs'
  BY <1>1, <1>6, RequestTurns DEF TradeInv
<1> QED
  BY <1>1, <1>5, <1>7 DEF TradeInv, OutsideInv

LEMMA ServerRestartKeeps ==
    ASSUME TradeInv, Trades!Restart
    PROVE  TradeInv'
<1>1. /\ uploads' = [u \in UploadTokens |-> Trades!NoFile]
      /\ UNCHANGED <<ledger, traded, filled, clean>>
      /\ jobs' = [r \in Trades!Requests |->
                    IF jobs[r].at = "placed" THEN [jobs[r] EXCEPT !.at = "given up"]
                    ELSE IF jobs[r].at = "booking" THEN Trades!Idle ELSE jobs[r]]
  BY DEF Trades!Restart
<1>2. LedgerInv'
  BY <1>1, LedgerStays DEF TradeInv
<1>3. OutsideInv'
  BY <1>1 DEF TradeInv, OutsideInv
<1>4. \A S : <<>> \in Seq(S)
  OBVIOUS
<1>5. Trades!Idle \in JobStates /\ Trades!Idle.rows = <<>>
  BY <1>4 DEF Trades!Idle, JobStates
<1>6. ASSUME NEW r \in Trades!Requests
      PROVE  jobs'[r] \in JobStates /\ (jobs'[r].rows = jobs[r].rows \/ jobs'[r].rows = <<>>)
  <2>1. PICK was \in JobStates : was = jobs[r]
    BY DEF TradeInv, TradeJobs
  <2>2. PICK up : up = [was EXCEPT !.at = "given up"]
    OBVIOUS
  <2>3. up \in JobStates /\ up.rows = was.rows
    BY <2>2 DEF JobStates
  <2>4. jobs'[r] = IF was.at = "placed" THEN up
                   ELSE IF was.at = "booking" THEN Trades!Idle ELSE was
    BY <1>1, <2>1, <2>2, Zenon
  <2> QED
    BY <1>5, <2>1, <2>3, <2>4, Zenon
<1>7. jobs' \in [Trades!Requests -> JobStates]
  BY <1>1, <1>6
<1>8. "sync" \in Trades!Requests /\ UploadTokens \subseteq Trades!Requests
  BY DEF Trades!Requests
<1>9. TradeJobs'
  BY <1>1, <1>4, <1>6, <1>7, <1>8 DEF TradeInv, TradeJobs
<1> QED
  BY <1>2, <1>3, <1>9 DEF TradeInv

LEMMA TradeStep ==
    ASSUME TradeInv, Trades!Next \/ UNCHANGED tradeVars
    PROVE  TradeInv'
<1>1. CASE UNCHANGED tradeVars
  BY <1>1, LedgerStays DEF TradeInv, OutsideInv, TradeJobs, tradeVars
<1>2. ASSUME NEW t \in Manual, Trades!RecordByHand(t) PROVE TradeInv'
  BY <1>2, ByHandKeeps
<1>3. ASSUME NEW u \in UploadTokens, NEW f \in DOMAIN Imports, Trades!PreviewImport(u, f)
      PROVE  TradeInv'
  BY <1>3, PreviewKeeps
<1>4. ASSUME NEW u \in UploadTokens, Trades!ConfirmImport(u) PROVE TradeInv'
  BY <1>4, ConfirmKeeps
<1>5. ASSUME NEW u \in UploadTokens, Trades!ImportRow(u) PROVE TradeInv'
  BY <1>5, ImportRowKeeps
<1>6. ASSUME NEW u \in UploadTokens, Trades!FinishImport(u) PROVE TradeInv'
  <2>1. u \in Trades!Requests
    BY DEF Trades!Requests
  <2> QED
    BY <1>6, <2>1, FinishKeeps DEF Trades!FinishImport
<1>7. ASSUME NEW id \in DOMAIN Exchange, Trades!TradeOnExchange(id) PROVE TradeInv'
  BY <1>7, ExchangeKeeps
<1>8. CASE Trades!BeginSync
  BY <1>8, BeginSyncKeeps
<1>9. CASE Trades!SyncTrade
  BY <1>9, SyncTradeKeeps
<1>10. CASE Trades!FinishSync
  <2>1. "sync" \in Trades!Requests
    BY DEF Trades!Requests
  <2> QED
    BY <1>10, <2>1, FinishKeeps DEF Trades!FinishSync
<1>11. ASSUME NEW o \in DOMAIN Orders, Trades!PlaceOrder(o) PROVE TradeInv'
  BY <1>11, OrderTurns DEF Trades!PlaceOrder
<1>12. ASSUME NEW o \in DOMAIN Orders, Trades!Fill(o) PROVE TradeInv'
  BY <1>12, FillKeeps
<1>13. ASSUME NEW o \in DOMAIN Orders, Trades!BookFill(o) PROVE TradeInv'
  BY <1>13, BookFillKeeps
<1>14. ASSUME NEW o \in DOMAIN Orders, Trades!GiveUpOrder(o) PROVE TradeInv'
  BY <1>14, OrderTurns DEF Trades!GiveUpOrder
<1>15. CASE Trades!Restart
  BY <1>15, ServerRestartKeeps
<1>16. CASE Trades!Next
  BY <1>2, <1>3, <1>4, <1>5, <1>6, <1>7, <1>8, <1>9, <1>10, <1>11, <1>12, <1>13, <1>14,
     <1>15, <1>16, Zenon DEF Trades!Next
<1> QED
  BY <1>1, <1>16

LEMMA TradesBegin == Init => TradeInv
<1> SUFFICES ASSUME Trades!Init PROVE TradeInv
  BY DEF Init
<1>1. ledger = <<>> /\ clean = {} /\ traded = {} /\ filled = {}
  BY DEF Trades!Init
<1>2. \A S : <<>> \in Seq(S)
  OBVIOUS
<1>3. LedgerInv
  BY <1>1, <1>2 DEF LedgerInv, Distinct
<1>4. OutsideInv
  BY <1>1, FS_EmptySet DEF Trades!Init, OutsideInv
<1>5. Trades!Idle \in JobStates /\ Trades!Idle.rows = <<>>
  BY <1>2 DEF Trades!Idle, JobStates
<1>6. \A r \in Trades!Requests : jobs[r] = Trades!Idle
  BY DEF Trades!Init
<1>7. jobs \in [Trades!Requests -> JobStates]
  BY <1>5 DEF Trades!Init
<1>8. "sync" \in Trades!Requests /\ UploadTokens \subseteq Trades!Requests
  BY DEF Trades!Requests
<1>9. TradeJobs
  BY <1>2, <1>5, <1>6, <1>7, <1>8 DEF TradeJobs
<1> QED
  BY <1>3, <1>4, <1>9 DEF TradeInv

\* What is counted is one row, or none.
LEMMA OneOnly ==
    ASSUME NEW S, \A i, j \in S : i = j
    PROVE  IsFiniteSet(S) /\ Cardinality(S) \in {0, 1} /\ (S = {} <=> Cardinality(S) = 0)
<1>1. CASE S = {}
  BY <1>1, FS_EmptySet
<1>2. CASE S # {}
  <2>1. PICK x : S = {x}
    BY <1>2
  <2>2. IsFiniteSet({x}) /\ Cardinality({x}) = 1
    BY FS_Singleton, Zenon
  <2>3. IsFiniteSet(S) /\ Cardinality(S) = 1
    BY <2>1, <2>2, Zenon
  <2> QED
    BY <1>2, <2>3
<1> QED
  BY <1>1, <1>2

LEMMA TradesBookedOnce ==
    ASSUME TradeInv
    PROVE  Trades!BookedAsHappened
<1>0. Len(ledger) \in Nat /\ DOMAIN ledger = 1 .. Len(ledger)
  BY DEF TradeInv, LedgerInv
<1>t. \A i \in DOMAIN ledger : ledger[i] \in TradeRows /\ Happened(ledger[i])
  BY <1>0 DEF TradeInv, LedgerInv
<1>d. \A i, j \in DOMAIN ledger : ledger[i].hash = ledger[j].hash => i = j
  BY <1>0 DEF TradeInv, LedgerInv, Distinct
<1>c. \A S : Trades!Cardinality(S) = Cardinality(S)
  BY DEF Trades!Cardinality, Cardinality
<1>1. ASSUME NEW id \in DOMAIN Exchange
      PROVE  Trades!Booked(LAMBDA row : row.source = "kraken_sync" /\ row.external = id)
                 <= IF id \in traded THEN 1 ELSE 0
  <2> DEFINE S == { i \in DOMAIN ledger : ledger[i].source = "kraken_sync" /\ ledger[i].external = id }
  <2>1. ASSUME NEW i \in S, NEW j \in S PROVE i = j
    <3>1. ledger[i] = ledger[j]
      BY <1>t DEF Happened
    <3> QED
      BY <1>d, <3>1
  <2>2. S # {} => id \in traded
    BY <1>t DEF Happened
  <2>3. Cardinality(S) \in {0, 1} /\ (S = {} <=> Cardinality(S) = 0)
    BY <2>1, OneOnly
  <2>4. Trades!Booked(LAMBDA row : row.source = "kraken_sync" /\ row.external = id) = Cardinality(S)
    BY <1>c DEF Trades!Booked
  <2> HIDE DEF S
  <2> QED
    BY <2>2, <2>3, <2>4
<1>2. Trades!Booked(LAMBDA row : row.source = "paper") <= Trades!Cardinality(filled)
  <2> DEFINE S == { i \in DOMAIN ledger : ledger[i].source = "paper" }
             f == [i \in S |-> CHOOSE o \in filled : ledger[i] = Trades!Row(Orders[o], "paper", "")]
  <2>1. \A i \in S : f[i] \in filled /\ ledger[i] = Trades!Row(Orders[f[i]], "paper", "")
    BY <1>t DEF Happened
  <2>2. ASSUME NEW i \in S, NEW j \in S, f[i] = f[j] PROVE i = j
    <3>1. ledger[i] = ledger[j]
      BY <2>1, <2>2
    <3> QED
      BY <1>d, <3>1
  <2>3. f \in Injection(S, filled)
    BY <2>1, <2>2 DEF Injection, IsInjective
  <2>4. IsFiniteSet(filled)
    BY DEF TradeInv, OutsideInv
  <2>5. Cardinality(S) <= Cardinality(filled)
    BY <2>3, <2>4, FS_Injection
  <2>6. Trades!Booked(LAMBDA row : row.source = "paper") = Cardinality(S)
    BY <1>c DEF Trades!Booked
  <2> QED
    BY <1>c, <2>5, <2>6
<1>3. ASSUME NEW expected \in clean
      PROVE  Trades!Booked(LAMBDA row : /\ row.source = expected.source
                                       /\ row.external = expected.external
                                       /\ row.hash = expected.hash) = 1
  <2> DEFINE S == { i \in DOMAIN ledger : /\ ledger[i].source = expected.source
                                          /\ ledger[i].external = expected.external
                                          /\ ledger[i].hash = expected.hash }
  <2>1. expected \in TradeRows
    BY DEF TradeInv, LedgerInv
  <2>2. PICK i \in DOMAIN ledger : ledger[i].hash = expected.hash
    BY <1>0 DEF TradeInv, LedgerInv
  <2>3. expected.source = expected.hash[5] /\ expected.external = expected.hash[6]
    BY <2>1, RowIs
  <2>4. ledger[i].source = ledger[i].hash[5] /\ ledger[i].external = ledger[i].hash[6]
    <3>1. PICK row \in TradeRows : row = ledger[i]
      BY <1>t
    <3> QED
      BY <3>1, RowIs
  <2>5. i \in S
    BY <2>2, <2>3, <2>4
  <2>6. \A j, k \in S : j = k
    BY <1>d
  <2>7. Cardinality(S) = 1
    BY <2>5, <2>6, OneOnly
  <2>8. Trades!Booked(LAMBDA row : /\ row.source = expected.source
                                  /\ row.external = expected.external
                                  /\ row.hash = expected.hash) = Cardinality(S)
    BY <1>c DEF Trades!Booked
  <2> QED
    BY <2>7, <2>8
<1> QED
  BY <1>1, <1>2, <1>3 DEF Trades!BookedAsHappened

\* Whatever the requests do at once, and in whatever order rows come in, the
\* ledger holds what happened outside, once, and the position replayed from
\* it accounts for every cent (service.go: RecordTrade, holdingsFromLedger;
\* importer.go: ConfirmImport; kraken.go: SyncKraken; broker.go: PlaceOrder).
THEOREM TradesAreAccounted == Spec => []TradesAccounted
<1>1. TradeInv /\ [Next]_vars => TradeInv'
  BY Steps, TradeStep
<1>2. TradeInv => TradesAccounted
  <2> SUFFICES ASSUME TradeInv PROVE Trades!BookedAsHappened /\ Trades!CashAccounted
    BY DEF TradesAccounted
  <2>1. PICK N \in Nat : N = Len(ledger) /\ DOMAIN ledger = 1 .. N
    BY DEF TradeInv, LedgerInv
  <2>2. \A n \in 1 .. N : ledger[n].trade \in Trades!Trade
    BY <2>1, RowIs DEF TradeInv, LedgerInv
  <2> QED
    BY <2>1, <2>2, CashHolds, TradesBookedOnce
<1> QED
  BY <1>1, <1>2, TradesBegin, PTL DEF Spec

-----------------------------------------------------------------------------
(* Fit: what is promised of a machine.                                     *)

\* A card's sample: taken whole, or with nothing in use if it was blind.
Taken(n, r) ==
    /\ "at" \in DOMAIN r /\ r.at \in Nat
    /\ r.at > 0 =>
        /\ r.known /\ r.truth \in [DOMAIN Cards[n] -> Nat] /\ r.left \in Nat
        /\ ~r.blind => r.used = Grades!Sum(r.truth) /\ (Cards[n] # <<>> => r.cards)

FitInv ==
    /\ DOMAIN load = Grades!All
    /\ \A n \in Grades!All : load[n] \in [DOMAIN Cards[n] -> Nat]
    /\ nodeRow = [n \in Machines |-> nodeRow[n]] /\ \A n \in Machines : Taken(n, nodeRow[n])
    /\ clock \in Nat /\ declaredNodes \subseteq Machines
    /\ profile.at \in Nat
    /\ profile.at > 0 => profile.truth \in [DOMAIN Cards[Here] -> Nat] /\ profile.left \in Nat

LEMMA LargestOf ==
    ASSUME NEW N \in Nat \ {0}, NEW sizes \in [1 .. N -> Nat]
    PROVE  Grades!Largest(sizes) \in 1 .. N
<1> DEFINE S == 1 .. N
           B == [i \in S |-> { k \in S : sizes[k] > sizes[i] \/ (sizes[k] = sizes[i] /\ k < i) }]
<1>1. IsFiniteSet(S) /\ Cardinality(S) = N /\ DOMAIN sizes = S
  BY FS_Interval
<1>2. B \in [S -> SUBSET S]
  OBVIOUS
<1>3. TotalOrder(B, S)
  BY DEF TotalOrder
<1>4. 1 \in 1 .. Cardinality(S)
  BY <1>1
<1>5. \A x, y \in S : x \in B[y] <=> sizes[x] > sizes[y] \/ (sizes[x] = sizes[y] /\ x < y)
  OBVIOUS
<1> HIDE DEF B, S
<1>6. PICK m \in S : Cardinality(B[m]) = 1 - 1
  BY <1>1, <1>2, <1>3, <1>4, EveryPlace
<1>7. B[m] = {}
  <2>1. PICK A : A = B[m]
    OBVIOUS
  <2>2. IsFiniteSet(A) /\ Cardinality(A) = 0
    BY <1>1, <1>2, <1>6, <2>1, FS_Subset
  <2> QED
    BY <2>1, <2>2, FS_EmptySet
<1>8. \A k \in S : sizes[k] < sizes[m] \/ (sizes[k] = sizes[m] /\ m <= k)
  BY <1>5, <1>7 DEF S
<1>9. Grades!Largest(sizes) \in S
  BY <1>1, <1>8 DEF Grades!Largest
<1> QED
  BY <1>9 DEF S

LEMMA MaxOfTwo ==
    ASSUME NEW a \in Int, NEW b \in Int
    PROVE  Grades!Max({a, b}) = IF a >= b THEN a ELSE b
BY DEF Grades!Max

LEMMA MinOfTwo ==
    ASSUME NEW a \in Int, NEW b \in Int
    PROVE  Grades!Min({a, b}) = IF a <= b THEN a ELSE b
BY DEF Grades!Min

\* What is in use on a card is no more than what is reported for all.
LEMMA UsedSum ==
    ASSUME NEW N \in Nat, NEW truth \in [1 .. N -> Nat]
    PROVE  /\ Grades!Sum(truth) \in Nat /\ \A i \in 1 .. N : truth[i] <= Grades!Sum(truth)
           /\ N = 1 => Grades!Sum(truth) = truth[1]
<1> DEFINE S == 1 .. N
           Adds(h) == h = [s \in SUBSET S |-> IF s = {} THEN 0
                             ELSE LET x == CHOOSE x \in s : TRUE
                                  IN  truth[x] + h[s \ {x}]]
           h == CHOOSE h : Adds(h)
<1>0. IsFiniteSet(S) /\ DOMAIN truth = S
  BY FS_Interval
<1>4. Grades!Sum(truth) = h[S]
  BY <1>0 DEF Grades!Sum, Grades!MapThenSumSet, Grades!MapThenFoldSet
<1> HIDE DEF S
<1>1. ASSUME NEW g PROVE Adds(g) <=> Sums(truth, S, g)
  BY DEF Sums
<1>2. \E g : Adds(g)
  <2> HIDE DEF Adds
  <2> QED
    BY <1>0, <1>1, SumsExist
<1>3. Adds(h)
  <2> HIDE DEF Adds
  <2> QED
    BY <1>2
<1>5. Sums(truth, S, h)
  <2> HIDE DEF Adds, h
  <2> QED
    BY <1>1, <1>3
<1> HIDE DEF h, Adds
<1>6. Grades!Sum(truth) = Sum(truth, S)
  BY <1>0, <1>4, <1>5, SumOf
<1>7. \A x \in S : truth[x] \in Nat
  BY DEF S
<1>8. Sum(truth, S) \in Nat /\ \A x \in S : truth[x] <= Sum(truth, S)
  BY <1>0, <1>7, SumNat
<1>9. N = 1 => Sum(truth, S) = truth[1]
  <2> SUFFICES ASSUME N = 1 PROVE Sum(truth, S) = truth[1]
    OBVIOUS
  <2>1. S = {1} /\ S \ {1} = {}
    BY DEF S
  <2>2. Sum(truth, S) = truth[1] + Sum(truth, S \ {1})
    BY <1>0, <1>7, <2>1, SumTake
  <2>3. Sum(truth, S \ {1}) = 0
    BY <2>1, SumEmpty
  <2> QED
    BY <1>7, <2>1, <2>2, <2>3
<1> QED
  BY <1>6, <1>8, <1>9 DEF S

LEMMA Footprint ==
    ASSUME NEW p \in Weights, NEW c \in Contexts, NEW q \in DOMAIN Grades!QuantBPW
    PROVE  /\ Grades!Layers(p) \in Nat \ {0} /\ Grades!WeightsMB(p, q) \in Nat \ {0}
           /\ Grades!KVCacheMB(p, c) \in Nat /\ Grades!OverheadMB(c) \in Nat \ {0}
           /\ Grades!TotalMB(p, q, c) = Grades!WeightsMB(p, q) + Grades!KVCacheMB(p, c)
                                          + Grades!OverheadMB(c)
<1>0. p \in Nat \ {0} /\ c \in Nat
  BY FitAssumption DEF Grades!WellFormed
<1>1. Grades!Layers(p) \in Nat \ {0}
  <2> DEFINE bands == { i \in DOMAIN Grades!GeometryBands : p <= Grades!GeometryBands[i][1] }
  <2>1. DOMAIN Grades!GeometryBands = 1 .. 7
    BY DEF Grades!GeometryBands
  <2>2. \A i \in 1 .. 7 : Grades!GeometryBands[i][2] \in Nat \ {0}
    BY DEF Grades!GeometryBands
  <2>3. CASE bands = {}
    BY <2>3 DEF Grades!Layers
  <2>4. CASE bands # {}
    <3>1. PICK m \in bands : \A k \in bands : m <= k
      <4>1. bands \in SUBSET Nat
        BY <2>1
      <4> HIDE DEF bands
      <4> QED
        BY <2>4, <4>1, LeastOf
    <3>2. Grades!Min(bands) \in bands
      BY <3>1 DEF Grades!Min
    <3>3. Grades!Min(bands) \in 1 .. 7
      BY <2>1, <3>2
    <3>4. Grades!Layers(p) = Grades!GeometryBands[Grades!Min(bands)][2]
      BY <2>4 DEF Grades!Layers
    <3> QED
      BY <2>2, <3>3, <3>4
  <2> QED
    BY <2>3, <2>4
<1>2. Grades!WeightsMB(p, q) \in Nat \ {0}
  <2>1. PICK w \in Nat : w = Grades!QuantBPW[q] /\ w >= 390
    BY DEF Grades!QuantBPW
  <2>2. PICK x \in Nat : x = p * w /\ x >= 390
    <3>1. p * w \in Nat /\ p * w >= w
      BY <1>0, <2>1
    <3> QED
      BY <2>1, <3>1
  <2>3. (x * 1192) \div 10000 \in Nat \ {0}
    BY <2>2
  <2> QED
    BY <2>1, <2>2, <2>3 DEF Grades!WeightsMB
<1>3. Grades!KVCacheMB(p, c) \in Nat
  <2>1. PICK l \in Nat, h \in Nat : l = Grades!Layers(p) /\ h = Grades!HeadDim(p)
    BY <1>1 DEF Grades!HeadDim
  <2>2. PICK x \in Nat : x = 2 * l * 8 * h * c
    <3>1. 2 * l * 8 \in Nat
      BY <2>1
    <3>2. 2 * l * 8 * h \in Nat
      BY <2>1, <3>1
    <3> QED
      BY <1>0, <3>2
  <2>3. x \div 1024 \in Nat
    BY <2>2
  <2> QED
    BY <2>1, <2>2, <2>3 DEF Grades!KVCacheMB
<1>4. Grades!OverheadMB(c) \in Nat \ {0}
  BY <1>0 DEF Grades!OverheadMB
<1> QED
  BY <1>1, <1>2, <1>3, <1>4 DEF Grades!TotalMB

\* A share of the layers takes no more than the room there is for it.
Part(room, L, W) == Grades!Min({L, (room * L) \div W})

LEMMA ShareOfLayers ==
    ASSUME NEW room \in Nat, NEW L \in Nat \ {0}, NEW W \in Nat \ {0},
           NEW g, g = Part(room, L, W)
    PROVE  g \in Nat /\ g * W <= room * L /\ (room = 0 => g = 0)
<1>1. PICK y \in Nat : y = room * L /\ (room = 0 => y = 0)
  OBVIOUS
<1>2. PICK d \in Nat : d = y \div W /\ d * W <= y /\ (y = 0 => d = 0)
  <2>1. y \div W \in Nat /\ (y \div W) * W <= y /\ (y = 0 => y \div W = 0)
    OBVIOUS
  <2> QED
    BY <2>1
<1>3. g = IF L <= d THEN L ELSE d
  BY <1>1, <1>2, MinOfTwo DEF Part
<1>4. g \in Nat /\ g <= d
  <2>1. d \in Nat
    BY <1>2
  <2> QED
    BY <1>3, <2>1
<1>5. g * W <= d * W
  BY <1>2, <1>4
<1>6. g * W \in Nat /\ d * W \in Nat
  BY <1>2, <1>4
<1> QED
  BY <1>1, <1>2, <1>4, <1>5, <1>6

\* What a verdict says of the card it is about.
Verdict(f, hw, free, p, q, c) ==
    /\ f.host = hw.host /\ f.total = Grades!TotalMB(p, q, c)
    /\ f.verdict \in {"fits", "tight"} => Grades!HasGPU(hw) /\ free > 0 /\ free >= f.total
    /\ f.verdict = "partial" /\ f.layers > 0 =>
          /\ Grades!HasGPU(hw) /\ free > 0 /\ f.layers \in Nat
          /\ free * Grades!Layers(p) >=
                f.layers * Grades!WeightsMB(p, q)
                  + (Grades!KVCacheMB(p, c) + Grades!OverheadMB(c)) * Grades!Layers(p)
    /\ f.verdict = "fits" => ~(~hw.runs)
    /\ hw.runs /\ ~Grades!IsStale(hw) /\ Grades!HasGPU(hw)
          /\ 10 * Grades!TotalMB(p, q, c) <= 9 * free => f.verdict = "fits"

LEMMA Judged ==
    ASSUME NEW p \in Weights, NEW c \in Contexts, NEW q \in DOMAIN Grades!QuantBPW,
           NEW hw, NEW f, f = Grades!EstimateFit(p, q, c, hw),
           NEW free \in Int, Grades!HasGPU(hw) => free = Grades!PrimaryGPU(hw).free
    PROVE  Verdict(f, hw, free, p, q, c)
<1>1. PICK L \in Nat \ {0}, W \in Nat \ {0}, KV \in Nat, V \in Nat \ {0}, total \in Nat :
        /\ L = Grades!Layers(p) /\ W = Grades!WeightsMB(p, q)
        /\ KV = Grades!KVCacheMB(p, c) /\ V = Grades!OverheadMB(c)
        /\ total = Grades!TotalMB(p, q, c) /\ total = W + KV + V
  BY Footprint
<1>t. total \in Nat \ {0}
  BY <1>1
<1>2. PICK usable, onGPU :
        /\ usable = Grades!Max({0, Grades!PrimaryGPU(hw).free - V - KV})
        /\ onGPU = Grades!Min({L, (usable * L) \div W})
  OBVIOUS
<1>3. f = CASE ~hw.runs \/ Grades!IsStale(hw) -> Grades!Fits(hw, "unknown", 0, total)
          [] hw.runs /\ ~Grades!IsStale(hw) /\ ~Grades!HasGPU(hw) ->
                Grades!Fits(hw, IF hw.left > 0 /\ total > hw.left THEN "no" ELSE "partial",
                            0, total)
          [] OTHER ->
                IF 10 * total <= 9 * Grades!PrimaryGPU(hw).free THEN Grades!Fits(hw, "fits", L, total)
                ELSE IF total <= Grades!PrimaryGPU(hw).free THEN Grades!Fits(hw, "tight", L, total)
                ELSE IF onGPU > 0 THEN Grades!Fits(hw, "partial", onGPU, total)
                ELSE Grades!Fits(hw, "no", 0, total)
  BY <1>1, <1>2, Zenon DEF Grades!EstimateFit
<1>4. CASE ~hw.runs \/ Grades!IsStale(hw)
  <2>1. f = Grades!Fits(hw, "unknown", 0, total)
    BY <1>3, <1>4, Zenon
  <2>2. f.host = hw.host /\ f.verdict = "unknown" /\ f.total = total
    BY <2>1 DEF Grades!Fits
  <2> QED
    BY <1>1, <1>4, <2>2 DEF Verdict
<1>5. CASE ~(~hw.runs \/ Grades!IsStale(hw)) /\ ~Grades!HasGPU(hw)
  <2>1. PICK v \in {"no", "partial"} : f = Grades!Fits(hw, v, 0, total)
    BY <1>3, <1>5
  <2>2. f.host = hw.host /\ f.verdict = v /\ f.total = total /\ f.layers = 0
    BY <2>1 DEF Grades!Fits
  <2> QED
    BY <1>1, <1>5, <2>1, <2>2 DEF Verdict
<1>6. CASE ~(~hw.runs \/ Grades!IsStale(hw)) /\ Grades!HasGPU(hw)
  <2>1. f = IF 10 * total <= 9 * free THEN Grades!Fits(hw, "fits", L, total)
            ELSE IF total <= free THEN Grades!Fits(hw, "tight", L, total)
            ELSE IF onGPU > 0 THEN Grades!Fits(hw, "partial", onGPU, total)
            ELSE Grades!Fits(hw, "no", 0, total)
    BY <1>3, <1>6
  <2>2. CASE 10 * total <= 9 * free
    <3>1. f.host = hw.host /\ f.verdict = "fits" /\ f.total = total
      BY <2>1, <2>2 DEF Grades!Fits
    <3>2. free >= total /\ free > 0
      BY <1>t, <2>2
    <3> QED
      BY <1>1, <1>6, <3>1, <3>2 DEF Verdict
  <2>3. CASE ~(10 * total <= 9 * free) /\ total <= free
    <3>1. f.host = hw.host /\ f.verdict = "tight" /\ f.total = total
      BY <2>1, <2>3 DEF Grades!Fits
    <3>2. free >= total /\ free > 0
      BY <1>1, <2>3
    <3> QED
      BY <1>1, <1>6, <2>3, <3>1, <3>2 DEF Verdict
  <2>4. CASE ~(10 * total <= 9 * free) /\ ~(total <= free) /\ onGPU > 0
    <3>1. f.host = hw.host /\ f.verdict = "partial" /\ f.total = total /\ f.layers = onGPU
      BY <2>1, <2>4 DEF Grades!Fits
    <3>2. PICK left \in Int : left = free - V - KV
      OBVIOUS
    <3>3. usable = IF 0 >= left THEN 0 ELSE left
      BY <1>2, <1>6, <3>2, MaxOfTwo
    <3>4. usable \in Nat
      BY <3>2, <3>3
    <3>5. onGPU \in Nat /\ onGPU * W <= usable * L /\ (usable = 0 => onGPU = 0)
      <4>1. L \in Nat \ {0} /\ W \in Nat \ {0}
        BY <1>1
      <4>2. onGPU = Part(usable, L, W)
        BY <1>2 DEF Part
      <4> QED
        BY <3>4, <4>1, <4>2, ShareOfLayers
    <3>6. usable = left /\ free > 0
      BY <1>1, <2>4, <3>2, <3>3, <3>4, <3>5
    <3>7. free * L = left * L + (KV + V) * L
      <4>1. free = left + (KV + V)
        BY <1>1, <3>2
      <4>2. (left + (KV + V)) * L = left * L + (KV + V) * L
        BY <1>1, <3>2
      <4> QED
        BY <4>1, <4>2
    <3>8. PICK a \in Int, b \in Int, d \in Int : a = onGPU * W /\ b = left * L /\ d = (KV + V) * L
      BY <1>1, <3>2, <3>5
    <3>9. free * L >= onGPU * W + (KV + V) * L
      BY <3>5, <3>6, <3>7, <3>8
    <3> QED
      BY <1>1, <1>6, <2>4, <3>1, <3>5, <3>6, <3>9 DEF Verdict
  <2>5. CASE ~(10 * total <= 9 * free) /\ ~(total <= free) /\ ~(onGPU > 0)
    <3>1. f.host = hw.host /\ f.verdict = "no" /\ f.total = total
      BY <2>1, <2>5 DEF Grades!Fits
    <3> QED
      BY <1>1, <1>6, <2>5, <3>1 DEF Verdict
  <2> QED
    BY <2>2, <2>3, <2>4, <2>5
<1> QED
  BY <1>4, <1>5, <1>6

\* What a verdict says of the memory of a machine without a card.
LEMMA JudgedByMemory ==
    ASSUME NEW p, NEW c, NEW q, NEW hw, NEW f, f = Grades!EstimateFit(p, q, c, hw)
    PROVE  /\ f.host = hw.host
           /\ f.verdict = "partial" /\ f.layers = 0 => ~(hw.left > 0 /\ f.total > hw.left)
<1>1. PICK total, free, usable, onGPU :
        f = CASE ~hw.runs \/ Grades!IsStale(hw) -> Grades!Fits(hw, "unknown", 0, total)
            [] hw.runs /\ ~Grades!IsStale(hw) /\ ~Grades!HasGPU(hw) ->
                  Grades!Fits(hw, IF hw.left > 0 /\ total > hw.left THEN "no" ELSE "partial",
                              0, total)
            [] OTHER ->
                  IF 10 * total <= 9 * free THEN Grades!Fits(hw, "fits", Grades!Layers(p), total)
                  ELSE IF total <= free THEN Grades!Fits(hw, "tight", Grades!Layers(p), total)
                  ELSE IF onGPU > 0 THEN Grades!Fits(hw, "partial", onGPU, total)
                  ELSE Grades!Fits(hw, "no", 0, total)
  BY Zenon DEF Grades!EstimateFit
<1>2. CASE ~hw.runs \/ Grades!IsStale(hw)
  <2>1. f = Grades!Fits(hw, "unknown", 0, total)
    BY <1>1, <1>2, Zenon
  <2> QED
    BY <2>1 DEF Grades!Fits
<1>3. CASE ~(~hw.runs \/ Grades!IsStale(hw)) /\ ~Grades!HasGPU(hw)
  <2>1. f = Grades!Fits(hw, IF hw.left > 0 /\ total > hw.left THEN "no" ELSE "partial", 0, total)
    BY <1>1, <1>3
  <2> QED
    BY <2>1 DEF Grades!Fits
<1>4. CASE ~(~hw.runs \/ Grades!IsStale(hw)) /\ Grades!HasGPU(hw)
  <2>1. \/ \E v \in {"fits", "tight", "no"} : \E l : f = Grades!Fits(hw, v, l, total)
        \/ onGPU > 0 /\ f = Grades!Fits(hw, "partial", onGPU, total)
    BY <1>1, <1>4
  <2> QED
    BY <2>1 DEF Grades!Fits
<1> QED
  BY <1>2, <1>3, <1>4

\* One row of the store changes.
LEMMA RowTurns ==
    ASSUME nodeRow = [n \in Machines |-> nodeRow[n]],
           \A n \in Machines : Taken(n, nodeRow[n]),
           NEW n \in Machines, NEW r, Taken(n, r), nodeRow' = [nodeRow EXCEPT ![n] = r]
    PROVE  /\ nodeRow' = [k \in Machines |-> nodeRow'[k]]
           /\ \A k \in Machines : Taken(k, nodeRow'[k])
<1>1. nodeRow' = [k \in Machines |-> IF k = n THEN r ELSE nodeRow[k]]
  OBVIOUS
<1>2. ASSUME NEW k \in Machines PROVE Taken(k, nodeRow'[k])
  <2>1. nodeRow'[k] = IF k = n THEN r ELSE nodeRow[k]
    BY <1>1
  <2> QED
    BY <2>1
<1> QED
  BY <1>1, <1>2

LEMMA UseKeeps ==
    ASSUME FitInv, NEW n \in Grades!All, Grades!Use(n)
    PROVE  FitInv'
<1>1. PICK i \in DOMAIN Cards[n], l \in Loads : load' = [load EXCEPT ![n][i] = l]
  BY DEF Grades!Use
<1>2. UNCHANGED <<facts, nodeRow, declaredNodes, loopback, profile, clock>>
  BY DEF Grades!Use
<1>3. PICK S : S = DOMAIN Cards[n]
  OBVIOUS
<1>4. load[n] \in [S -> Nat] /\ i \in S /\ l \in Nat
  BY <1>1, <1>3, FitAssumption DEF FitInv, Grades!WellFormed
<1>5. PICK new : new = [load[n] EXCEPT ![i] = l]
  OBVIOUS
<1>6. new \in [S -> Nat]
  BY <1>4, <1>5
<1>7. load' = [load EXCEPT ![n] = new]
  BY <1>1, <1>5, Zenon
<1>8. DOMAIN load' = Grades!All
  BY <1>7 DEF FitInv
<1>9. ASSUME NEW k \in Grades!All PROVE load'[k] \in [DOMAIN Cards[k] -> Nat]
  <2>1. load'[k] = IF k = n THEN new ELSE load[k]
    BY <1>7 DEF FitInv
  <2> QED
    BY <1>3, <1>6, <2>1 DEF FitInv
<1> QED
  BY <1>2, <1>8, <1>9 DEF FitInv

LEMMA MemoryLeft ==
    ASSUME NEW n \in Grades!All, NEW left \in Grades!Available(n)
    PROVE  left \in Nat
<1>1. PICK l \in Nat : left = Grades!Max({0, Ram[n] - l})
  BY FitAssumption DEF Grades!Available, Grades!WellFormed
<1>2. PICK d \in Int : d = Ram[n] - l
  BY FitAssumption DEF Grades!WellFormed
<1> QED
  BY <1>1, <1>2, MaxOfTwo

LEMMA ReportKeeps ==
    ASSUME FitInv, NEW n \in Machines, NEW sees \in BOOLEAN, Grades!Report(n, sees)
    PROVE  FitInv'
<1>1. PICK left \in Grades!Available(n) :
        /\ nodeRow' = [nodeRow EXCEPT ![n] =
                         [known |-> TRUE, cards |-> n \in facts', at |-> clock,
                          used |-> IF sees THEN Grades!Sum(load[n]) ELSE 0, left |-> left,
                          truth |-> load[n], blind |-> ~sees]]
        /\ facts' = facts \cup IF sees /\ Cards[n] # <<>> THEN {n} ELSE {}
        /\ UNCHANGED <<load, declaredNodes, loopback, profile, clock>>
  BY DEF Grades!Report
<1> DEFINE r == [known |-> TRUE, cards |-> n \in facts', at |-> clock,
                 used |-> IF sees THEN Grades!Sum(load[n]) ELSE 0, left |-> left,
                 truth |-> load[n], blind |-> ~sees]
<1>2. /\ "at" \in DOMAIN r /\ r.at = clock /\ r.known /\ r.truth = load[n] /\ r.left = left
      /\ (~r.blind => sees) /\ (sees => r.used = Grades!Sum(load[n]))
      /\ (n \in facts' => r.cards)
  OBVIOUS
<1>r. nodeRow' = [nodeRow EXCEPT ![n] = r]
  BY <1>1
<1> HIDE DEF r
<1>3. load[n] \in [DOMAIN Cards[n] -> Nat] /\ clock \in Nat
  BY DEF FitInv, Grades!All
<1>4. sees /\ Cards[n] # <<>> => n \in facts'
  BY <1>1
<1>5. left \in Nat
  BY MemoryLeft DEF Grades!All
<1>t. Taken(n, r)
  BY <1>2, <1>3, <1>4, <1>5 DEF Taken
<1>6. /\ nodeRow' = [k \in Machines |-> nodeRow'[k]]
      /\ \A k \in Machines : Taken(k, nodeRow'[k])
  BY <1>r, <1>t, RowTurns DEF FitInv
<1> QED
  BY <1>1, <1>6 DEF FitInv

LEMMA PruneKeeps ==
    ASSUME FitInv, Grades!PruneRaw
    PROVE  FitInv'
<1>1. nodeRow' = [n \in Machines |->
                    IF clock - nodeRow[n].at > KeepRaw
                    THEN [nodeRow[n] EXCEPT !.at = 0, !.used = 0, !.left = 0,
                                            !.truth = <<>>, !.blind = FALSE]
                    ELSE nodeRow[n]]
  BY DEF Grades!PruneRaw
<1>2. UNCHANGED <<load, facts, declaredNodes, loopback, profile, clock>>
  BY DEF Grades!PruneRaw
<1>3. ASSUME NEW n \in Machines PROVE Taken(n, nodeRow'[n])
  <2>1. PICK was, pruned : was = nodeRow[n] /\ pruned = [was EXCEPT !.at = 0, !.used = 0, !.left = 0,
                                                        !.truth = <<>>, !.blind = FALSE]
    OBVIOUS
  <2>2. Taken(n, was)
    BY <2>1 DEF FitInv
  <2>3. DOMAIN pruned = DOMAIN was /\ pruned.at = 0
    BY <2>1, <2>2 DEF Taken
  <2>4. Taken(n, pruned)
    BY <2>2, <2>3 DEF Taken
  <2>5. nodeRow'[n] = was \/ nodeRow'[n] = pruned
    BY <1>1, <2>1
  <2> QED
    BY <2>2, <2>4, <2>5
<1>4. nodeRow' = [n \in Machines |-> nodeRow'[n]]
  BY <1>1
<1> QED
  BY <1>2, <1>3, <1>4 DEF FitInv

LEMMA FitStep ==
    ASSUME FitInv, Grades!Next \/ UNCHANGED gradeVars
    PROVE  FitInv'
<1>1. CASE UNCHANGED gradeVars
  BY <1>1 DEF FitInv, gradeVars, Taken
<1>2. ASSUME NEW n \in Grades!All, Grades!Use(n) PROVE FitInv'
  BY <1>2, UseKeeps
<1>3. ASSUME NEW n \in Machines, NEW sees \in BOOLEAN, Grades!Report(n, sees) PROVE FitInv'
  BY <1>3, ReportKeeps
<1>4. ASSUME NEW n \in Machines, Grades!RestartAgent(n) PROVE FitInv'
  BY <1>4 DEF FitInv, Grades!RestartAgent
<1>5. ASSUME NEW n \in Machines, Grades!Forget(n) PROVE FitInv'
  <2>1. /\ nodeRow' = [nodeRow EXCEPT ![n] = Grades!NoRow]
        /\ UNCHANGED <<load, facts, declaredNodes, loopback, profile, clock>>
    BY <1>5 DEF Grades!Forget
  <2>2. Taken(n, Grades!NoRow)
    BY DEF Taken, Grades!NoRow
  <2>3. /\ nodeRow' = [k \in Machines |-> nodeRow'[k]]
        /\ \A k \in Machines : Taken(k, nodeRow'[k])
    BY <2>1, <2>2, RowTurns DEF FitInv
  <2> QED
    BY <2>1, <2>3 DEF FitInv
<1>6. CASE Grades!PruneRaw
  BY <1>6, PruneKeeps
<1>7. CASE Grades!SetBackends
  <2>1. /\ profile'.at = 0 /\ UNCHANGED <<load, facts, nodeRow, clock>>
        /\ declaredNodes' \subseteq Machines
    BY <1>7 DEF Grades!SetBackends, Grades!NoProfile
  <2> QED
    BY <2>1 DEF FitInv
<1>8. CASE Grades!Hardware
  <2>1. /\ profile'.at = clock /\ profile'.truth = load[Here]
        /\ profile'.left \in Grades!Available(Here)
        /\ UNCHANGED <<load, facts, nodeRow, declaredNodes, loopback, clock>>
    BY <1>8 DEF Grades!Hardware
  <2>2. load[Here] \in [DOMAIN Cards[Here] -> Nat]
    BY DEF FitInv, Grades!All
  <2>3. profile'.left \in Nat
    BY <2>1, MemoryLeft DEF Grades!All
  <2> QED
    BY <2>1, <2>2, <2>3 DEF FitInv
<1>9. CASE Grades!Tick
  BY <1>9 DEF FitInv, Grades!Tick
<1>10. CASE Grades!Next
  BY <1>2, <1>3, <1>4, <1>5, <1>6, <1>7, <1>8, <1>9, <1>10, Zenon DEF Grades!Next
<1> QED
  BY <1>1, <1>10

LEMMA FitBegins == Init => FitInv
<1> SUFFICES ASSUME Grades!Init PROVE FitInv
  BY DEF Init
<1>1. /\ load = [n \in Grades!All |-> [i \in DOMAIN Cards[n] |-> 0]]
      /\ nodeRow = [n \in Machines |-> Grades!NoRow] /\ profile = Grades!NoProfile /\ clock = 1
      /\ declaredNodes \subseteq Machines
  BY DEF Grades!Init
<1>2. \A n : Taken(n, Grades!NoRow)
  BY DEF Taken, Grades!NoRow
<1>3. profile.at = 0
  BY <1>1 DEF Grades!NoProfile
<1> QED
  BY <1>1, <1>2, <1>3 DEF FitInv

\* The card a verdict is about is the largest one.
LEMMA PrimaryOf ==
    ASSUME NEW n \in Grades!All, NEW hw, NEW free \in [DOMAIN Cards[n] -> Int],
           hw.gpus = [i \in DOMAIN Cards[n] |-> [total |-> Cards[n][i], free |-> free[i]]],
           Grades!HasGPU(hw)
    PROVE  \E j \in DOMAIN Cards[n] :
              j = Grades!Largest(Cards[n]) /\ Grades!PrimaryGPU(hw).free = free[j]
<1>0. PICK sizes \in Seq(Nat) : sizes = Cards[n]
  BY FitAssumption DEF Grades!WellFormed
<1>1. PICK N \in Nat : /\ sizes = Cards[n] /\ DOMAIN sizes = 1 .. N
                       /\ sizes \in [1 .. N -> Nat]
  <2>1. PICK N \in Nat : N = Len(sizes)
    OBVIOUS
  <2>2. DOMAIN sizes = 1 .. N /\ sizes \in [1 .. N -> Nat]
    BY <2>1
  <2> QED
    BY <1>0, <2>2
<1>2. N # 0
  BY <1>1 DEF Grades!HasGPU
<1>3. Grades!Largest(sizes) \in 1 .. N
  BY <1>1, <1>2, LargestOf
<1>4. [i \in DOMAIN hw.gpus |-> hw.gpus[i].total] = sizes
  <2>1. PICK g : g = hw.gpus /\ g = [i \in 1 .. N |-> [total |-> sizes[i], free |-> free[i]]]
    BY <1>1
  <2>a. DOMAIN g = 1 .. N /\ \A i \in 1 .. N : g[i].total = sizes[i]
    BY <2>1
  <2>2. [i \in DOMAIN g |-> g[i].total] = sizes
    BY <1>1, <2>a
  <2> QED
    BY <2>1, <2>2, Zenon
<1>5. Grades!PrimaryGPU(hw) = hw.gpus[Grades!Largest(sizes)]
  BY <1>4, Zenon DEF Grades!PrimaryGPU
<1> QED
  BY <1>1, <1>3, <1>5

\* Where there is room for what is free on a machine's card.
Roomy(hw) ==
    \E j \in DOMAIN Cards[hw.host], free \in Int :
        /\ free = Grades!PrimaryGPU(hw).free /\ Grades!Room(hw.host, j) \in Int
        /\ free > 0 => Grades!Room(hw.host, j) >= free
        /\ (Len(Cards[hw.host]) = 1 /\ Grades!Room(hw.host, 1) > 0) => free = Grades!Room(hw.host, 1)

LEMMA LocalRoom ==
    ASSUME FitInv, profile.at > 0, Grades!HasGPU(Grades!Local)
    PROVE  Roomy(Grades!Local)
<1>1. PICK sizes, truth : sizes = Cards[Here] /\ truth = profile.truth
  OBVIOUS
<1>2. PICK N \in Nat : DOMAIN sizes = 1 .. N /\ N = Len(sizes)
  <2>1. sizes \in Seq(Nat)
    BY <1>1, FitAssumption DEF Grades!WellFormed, Grades!All
  <2> QED
    BY <2>1
<1>3. sizes \in [1 .. N -> Nat] /\ truth \in [1 .. N -> Nat]
  <2>1. sizes \in Seq(Nat)
    BY <1>1, FitAssumption DEF Grades!WellFormed, Grades!All
  <2> QED
    BY <1>1, <1>2, <2>1 DEF FitInv
<1>4. PICK free : free = [i \in 1 .. N |-> sizes[i] - truth[i]]
  OBVIOUS
<1>5. free \in [1 .. N -> Int]
  BY <1>3, <1>4
<1>6. PICK hw : hw = Grades!Local
  OBVIOUS
<1>7. hw.host = Here /\ hw.gpus = [i \in 1 .. N |-> [total |-> sizes[i], free |-> free[i]]]
  BY <1>1, <1>2, <1>4, <1>6 DEF Grades!Local
<1>8. Here \in Grades!All
  BY DEF Grades!All
<1>9. PICK j \in 1 .. N : Grades!PrimaryGPU(hw).free = free[j]
  <2>1. free \in [DOMAIN Cards[Here] -> Int]
    BY <1>1, <1>2, <1>5
  <2>2. hw.gpus = [i \in DOMAIN Cards[Here] |-> [total |-> Cards[Here][i], free |-> free[i]]]
    BY <1>1, <1>2, <1>7
  <2>3. Grades!HasGPU(hw)
    BY <1>6
  <2>4. PICK j \in DOMAIN Cards[Here] : Grades!PrimaryGPU(hw).free = free[j]
    BY <1>8, <2>1, <2>2, <2>3, PrimaryOf
  <2>5. j \in 1 .. N
    BY <1>1, <1>2, <2>4
  <2> QED
    BY <2>4, <2>5
<1>10. \A i \in 1 .. N : Grades!Room(Here, i) = free[i]
  BY <1>1, <1>4 DEF Grades!Room, Grades!Truth
<1>11. N = 1 => j = 1 /\ 1 \in 1 .. N
  BY <1>9
<1> QED
  BY <1>1, <1>2, <1>5, <1>6, <1>7, <1>9, <1>10, <1>11 DEF Roomy

LEMMA NodeRoom ==
    ASSUME FitInv, NEW n \in Machines, nodeRow[n].at > 0, ~nodeRow[n].blind,
           Grades!HasGPU(Grades!HardwareFromNode(n))
    PROVE  Roomy(Grades!HardwareFromNode(n))
<1>0. n \in Grades!All /\ n # Here
  BY FitAssumption DEF Grades!WellFormed, Grades!All
<1>1. PICK sizes, truth, used : sizes = Cards[n] /\ truth = nodeRow[n].truth /\ used = nodeRow[n].used
  OBVIOUS
<1>s. sizes \in Seq(Nat)
  BY <1>0, <1>1, FitAssumption DEF Grades!WellFormed
<1>2. PICK N \in Nat : DOMAIN sizes = 1 .. N /\ N = Len(sizes)
  BY <1>s
<1>3. sizes \in [1 .. N -> Nat] /\ truth \in [1 .. N -> Nat] /\ used = Grades!Sum(truth)
  BY <1>1, <1>2, <1>s DEF FitInv, Taken
<1>4. /\ used \in Nat /\ \A i \in 1 .. N : truth[i] <= used
      /\ N = 1 => used = truth[1]
  BY <1>3, UsedSum
<1>5. PICK top : top = Grades!Largest(sizes)
  OBVIOUS
<1>6. PICK free : free = [i \in 1 .. N |-> sizes[i] - (IF i = top THEN Grades!Min({used, sizes[i]}) ELSE 0)]
  OBVIOUS
<1>7. \A i \in 1 .. N : /\ free[i] \in Int
                        /\ i = top => free[i] = IF used <= sizes[i] THEN sizes[i] - used ELSE 0
  <2> SUFFICES ASSUME NEW i \in 1 .. N
               PROVE  /\ free[i] \in Int
                      /\ i = top => free[i] = IF used <= sizes[i] THEN sizes[i] - used ELSE 0
    OBVIOUS
  <2>1. PICK a \in Nat : a = sizes[i]
    BY <1>3
  <2>2. Grades!Min({used, a}) = IF used <= a THEN used ELSE a
    BY <1>4, <2>1, MinOfTwo
  <2>3. free[i] = a - (IF i = top THEN (IF used <= a THEN used ELSE a) ELSE 0)
    BY <1>6, <2>1, <2>2
  <2> QED
    BY <1>4, <2>1, <2>3
<1>8. free \in [1 .. N -> Int]
  BY <1>6, <1>7
<1>9. PICK hw : hw = Grades!HardwareFromNode(n)
  OBVIOUS
<1>10. nodeRow[n].cards
  BY DEF Grades!HasGPU, Grades!HardwareFromNode
<1>11. hw.host = n /\ hw.gpus = Grades!NodeGPUs(n)
  BY <1>9, <1>10 DEF Grades!HardwareFromNode
<1>12. Grades!NodeGPUs(n) = [i \in 1 .. N |-> [total |-> sizes[i], free |-> free[i]]]
  BY <1>1, <1>2, <1>5, <1>6 DEF Grades!NodeGPUs
<1>13. PICK j \in 1 .. N : j = top /\ Grades!PrimaryGPU(hw).free = free[j]
  <2>1. free \in [DOMAIN Cards[n] -> Int]
    BY <1>1, <1>2, <1>8
  <2>2. hw.gpus = [i \in DOMAIN Cards[n] |-> [total |-> Cards[n][i], free |-> free[i]]]
    BY <1>1, <1>2, <1>11, <1>12
  <2>3. Grades!HasGPU(hw)
    BY <1>9
  <2>4. PICK j \in DOMAIN Cards[n] : j = Grades!Largest(Cards[n]) /\ Grades!PrimaryGPU(hw).free = free[j]
    BY <1>0, <2>1, <2>2, <2>3, PrimaryOf
  <2>5. j \in 1 .. N /\ j = top
    BY <1>1, <1>2, <1>5, <2>4
  <2> QED
    BY <2>4, <2>5
<1>14. \A i \in 1 .. N : Grades!Room(n, i) = sizes[i] - truth[i]
  BY <1>0, <1>1 DEF Grades!Room, Grades!Truth
<1>15. PICK room \in Int : /\ room = Grades!Room(n, j) /\ (free[j] > 0 => room >= free[j])
                           /\ N = 1 /\ room > 0 => free[j] = room
  <2>1. PICK a \in Nat, b \in Nat : a = sizes[j] /\ b = truth[j] /\ b <= used /\ (N = 1 => used = b)
    <3>1. N = 1 => j = 1
      OBVIOUS
    <3> QED
      BY <1>3, <1>4, <3>1
  <2>2. free[j] = IF used <= a THEN a - used ELSE 0
    BY <1>7, <1>13, <2>1
  <2>3. Grades!Room(n, j) = a - b
    BY <1>14, <2>1
  <2> QED
    BY <1>4, <2>1, <2>2, <2>3
<1>16. N = 1 => j = 1
  OBVIOUS
<1> QED
  BY <1>1, <1>2, <1>8, <1>9, <1>11, <1>13, <1>15, <1>16 DEF Roomy

\* A machine to grade is this host, or a node of the fleet.
LEMMA GradedRoom ==
    ASSUME FitInv, profile.at > 0, NEW hw \in Grades!FitHosts, Grades!HasGPU(hw),
           Grades!Read(hw.host)
    PROVE  Roomy(hw)
<1>1. \/ hw = Grades!Local
      \/ \E n \in Machines : hw = Grades!HardwareFromNode(n)
      \/ \E n \in Machines : hw = Grades!NeverHeard(n)
  BY DEF Grades!FitHosts, Grades!Hosts, FitInv
<1>2. CASE hw = Grades!Local
  BY <1>2, LocalRoom
<1>3. ASSUME NEW n \in Machines, hw = Grades!HardwareFromNode(n) PROVE Roomy(hw)
  <2>1. hw.host = n /\ n # Here
    BY <1>3, FitAssumption DEF Grades!HardwareFromNode, Grades!WellFormed
  <2>2. nodeRow[n].at > 0 /\ ~nodeRow[n].blind
    BY <2>1 DEF Grades!Read
  <2> QED
    BY <1>3, <2>2, NodeRoom
<1>4. ASSUME NEW n \in Machines, hw = Grades!NeverHeard(n) PROVE FALSE
  <2>1. hw.gpus = <<>>
    BY <1>4 DEF Grades!NeverHeard
  <2> QED
    BY <2>1 DEF Grades!HasGPU
<1> QED
  BY <1>1, <1>2, <1>3, <1>4

\* A machine that was read and has the room is among those graded.
LEMMA OfferedGraded ==
    ASSUME FitInv, profile.at > 0, NEW n \in Grades!All, Grades!Read(n),
           NEW p, NEW q, NEW c, Grades!Offered(n, p, q, c)
    PROVE  \E hw \in Grades!FitHosts :
              hw.host = n /\ hw.runs /\ ~Grades!IsStale(hw) /\ Grades!HasGPU(hw)
<1>1. Len(Cards[n]) = 1 /\ Cards[n] \in Seq(Nat)
  BY FitAssumption DEF Grades!Offered, Grades!WellFormed
<1>2. DOMAIN Cards[n] = 1 .. 1 /\ Cards[n] # <<>>
  <2>1. PICK s : s = Cards[n]
    OBVIOUS
  <2>2. s \in Seq(Nat) /\ Len(s) = 1
    BY <1>1, <2>1
  <2>3. DOMAIN s = 1 .. 1 /\ s # <<>>
    BY <2>2
  <2> QED
    BY <2>1, <2>3
<1>3. CASE n = Here
  <2>1. PICK hw : hw = Grades!Local
    OBVIOUS
  <2>2. profile.runs
    BY <1>3 DEF Grades!Offered
  <2>3. hw \in Grades!FitHosts
    BY <2>1, <2>2 DEF Grades!FitHosts, Grades!Hosts
  <2>4. hw.host = n /\ hw.runs /\ hw.reportedAt = 0 /\ DOMAIN hw.gpus = 1 .. 1
    BY <1>2, <1>3, <2>1, <2>2 DEF Grades!Local
  <2>5. hw.gpus # <<>>
    <3>1. PICK g : g = hw.gpus /\ 1 \in DOMAIN g
      BY <2>4
    <3> QED
      BY <3>1
  <2> QED
    BY <2>3, <2>4, <2>5 DEF Grades!IsStale, Grades!HasGPU
<1>4. CASE n \in Machines
  <2>0. n # Here
    BY <1>4, FitAssumption DEF Grades!WellFormed
  <2>1. PICK hw : hw = Grades!HardwareFromNode(n)
    OBVIOUS
  <2>2. /\ nodeRow[n].at > 0 /\ ~nodeRow[n].blind /\ nodeRow[n].at \in Nat
        /\ clock - nodeRow[n].at <= FleetStale
    BY <1>4, <2>0 DEF Grades!Read, Grades!Offered, FitInv, Taken
  <2>3. nodeRow[n].known /\ nodeRow[n].cards
    BY <1>2, <1>4, <2>2 DEF FitInv, Taken
  <2>4. hw \in Grades!FitHosts
    <3>1. CASE n \in declaredNodes
      BY <2>1, <2>3, <3>1 DEF Grades!FitHosts, Grades!Hosts
    <3>2. CASE n \notin declaredNodes
      BY <1>4, <2>1, <2>2, <3>2 DEF Grades!FitHosts
    <3> QED
      BY <3>1, <3>2
  <2>5. /\ hw.host = n /\ hw.runs /\ hw.reportedAt = nodeRow[n].at
        /\ hw.gpus = Grades!NodeGPUs(n)
    BY <2>1, <2>3 DEF Grades!HardwareFromNode
  <2>6. DOMAIN hw.gpus = 1 .. 1
    BY <1>2, <2>5 DEF Grades!NodeGPUs
  <2>7. hw.gpus # <<>>
    <3>1. PICK g : g = hw.gpus /\ 1 \in DOMAIN g
      BY <2>6
    <3> QED
      BY <3>1
  <2>8. ~Grades!IsStale(hw)
    BY <2>2, <2>5, FitAssumption DEF Grades!IsStale, Grades!WellFormed, FitInv
  <2> QED
    BY <2>4, <2>5, <2>7, <2>8 DEF Grades!HasGPU
<1> QED
  BY <1>3, <1>4 DEF Grades!All

LEMMA PromisesKept ==
    ASSUME FitInv, profile.at > 0, NEW p \in Weights, NEW c \in Contexts,
           NEW q \in DOMAIN Grades!QuantBPW, NEW f \in Grades!EstimateFleetFit(p, q, c),
           Grades!Read(f.host)
    PROVE  Grades!Promised(f, p, q, c)
<1>1. CASE Grades!FitHosts = {}
  <2>1. f = Grades!Fits([host |-> Here], "unknown", 0, Grades!TotalMB(p, q, c))
    BY <1>1 DEF Grades!EstimateFleetFit
  <2>2. f.verdict = "unknown"
    BY <2>1 DEF Grades!Fits
  <2> QED
    BY <2>2 DEF Grades!Promised
<1>2. CASE Grades!FitHosts # {}
  <2>1. PICK hw \in Grades!FitHosts : f = Grades!EstimateFit(p, q, c, hw)
    BY <1>2 DEF Grades!EstimateFleetFit
  <2>2. CASE ~Grades!HasGPU(hw)
    <3>1. Verdict(f, hw, 0, p, q, c)
      BY <2>1, <2>2, Judged
    <3> QED
      BY <2>2, <3>1 DEF Verdict, Grades!Promised
  <2>3. CASE Grades!HasGPU(hw)
    <3>1. f.host = hw.host
      <4>1. PICK free : free = 0
        OBVIOUS
      <4> QED
        BY <2>1 DEF Grades!EstimateFit, Grades!Fits
    <3>2. Roomy(hw)
      BY <2>3, <3>1, GradedRoom
    <3>3. PICK j \in DOMAIN Cards[hw.host], free \in Int :
            /\ free = Grades!PrimaryGPU(hw).free /\ Grades!Room(hw.host, j) \in Int
            /\ free > 0 => Grades!Room(hw.host, j) >= free
      BY <3>2 DEF Roomy
    <3>4. Verdict(f, hw, free, p, q, c)
      BY <2>1, <3>3, Judged
    <3>5. PICK room \in Int : room = Grades!Room(f.host, j) /\ (free > 0 => room >= free)
      BY <3>1, <3>3
    <3>6. j \in DOMAIN Cards[f.host]
      BY <3>1, <3>3
    <3>7. ASSUME f.verdict \in {"fits", "tight"} PROVE room >= f.total
      <4>1. PICK total \in Nat : total = f.total
        BY <3>4, Footprint DEF Verdict
      <4> QED
        BY <3>3, <3>4, <3>5, <3>7, <4>1 DEF Verdict
    <3>8. ASSUME f.verdict = "partial", f.layers > 0
          PROVE  room * Grades!Layers(p) >=
                    f.layers * Grades!WeightsMB(p, q)
                      + (Grades!KVCacheMB(p, c) + Grades!OverheadMB(c)) * Grades!Layers(p)
      <4>1. PICK L \in Nat : L = Grades!Layers(p)
        BY Footprint
      <4>2. PICK need : need = f.layers * Grades!WeightsMB(p, q)
                      + (Grades!KVCacheMB(p, c) + Grades!OverheadMB(c)) * L
        OBVIOUS
      <4>3. free > 0 /\ free * L >= need
        BY <3>4, <3>8, <4>1, <4>2 DEF Verdict
      <4>4. room >= free
        BY <3>5, <4>3
      <4>5. room * L >= free * L
        BY <3>3, <3>5, <4>1, <4>4
      <4>6. need \in Int
        <5>1. PICK k \in Nat, W \in Nat, x \in Nat :
                k = f.layers /\ W = Grades!WeightsMB(p, q)
                  /\ x = Grades!KVCacheMB(p, c) + Grades!OverheadMB(c)
          BY <3>4, <3>8, Footprint DEF Verdict
        <5>2. k * W \in Int /\ x * L \in Int
          BY <4>1, <5>1
        <5> QED
          BY <4>2, <5>1, <5>2
      <4>7. room * L \in Int /\ free * L \in Int
        BY <3>3, <3>5, <4>1
      <4>8. room * L >= need
        BY <4>3, <4>5, <4>6, <4>7
      <4> QED
        BY <4>1, <4>2, <4>8
    <3> QED
      BY <3>5, <3>6, <3>7, <3>8 DEF Grades!Promised
  <2> QED
    BY <2>2, <2>3
<1> QED
  BY <1>1, <1>2

\* A machine that was heard is judged by the memory it was read to have left.
LEMMA MemoryIsHeld ==
    ASSUME FitInv, profile.at > 0, NEW p \in Weights, NEW c \in Contexts,
           NEW q \in DOMAIN Grades!QuantBPW, NEW f \in Grades!EstimateFleetFit(p, q, c),
           f.host = Here \/ nodeRow[f.host].at > 0
    PROVE  Grades!Held(f)
<1>1. CASE Grades!FitHosts = {}
  <2>1. f = Grades!Fits([host |-> Here], "unknown", 0, Grades!TotalMB(p, q, c))
    BY <1>1 DEF Grades!EstimateFleetFit
  <2>2. f.verdict = "unknown"
    BY <2>1 DEF Grades!Fits
  <2> QED
    BY <2>2 DEF Grades!Held
<1>2. CASE Grades!FitHosts # {}
  <2>1. PICK hw \in Grades!FitHosts : f = Grades!EstimateFit(p, q, c, hw)
    BY <1>2 DEF Grades!EstimateFleetFit
  <2>2. /\ f.host = hw.host /\ f.total = Grades!TotalMB(p, q, c)
        /\ f.verdict = "partial" /\ f.layers = 0 => ~(hw.left > 0 /\ f.total > hw.left)
    BY <2>1, JudgedByMemory DEF Grades!EstimateFit, Grades!Fits
  <2>3. hw.left \in Nat /\ hw.left = Grades!Left(hw.host)
    <3>1. \/ hw = Grades!Local
          \/ \E n \in Machines : hw = Grades!HardwareFromNode(n)
          \/ \E n \in Machines : hw = Grades!NeverHeard(n) /\ ~nodeRow[n].known
      BY DEF Grades!FitHosts, Grades!Hosts, FitInv
    <3>2. CASE hw = Grades!Local
      <4>1. hw.host = Here /\ hw.left = profile.left
        BY <3>2 DEF Grades!Local
      <4> QED
        BY <4>1 DEF FitInv, Grades!Left
    <3>3. ASSUME NEW n \in Machines, hw = Grades!HardwareFromNode(n)
          PROVE  hw.left \in Nat /\ hw.left = Grades!Left(hw.host)
      <4>1. hw.host = n /\ hw.left = nodeRow[n].left /\ n # Here
        BY <3>3, FitAssumption DEF Grades!HardwareFromNode, Grades!WellFormed
      <4> QED
        BY <2>2, <4>1 DEF FitInv, Taken, Grades!Left
    <3>4. ASSUME NEW n \in Machines, hw = Grades!NeverHeard(n), ~nodeRow[n].known PROVE FALSE
      <4>1. hw.host = n /\ n # Here
        BY <3>4, FitAssumption DEF Grades!NeverHeard, Grades!WellFormed
      <4> QED
        BY <2>2, <3>4, <4>1 DEF FitInv, Taken
    <3> QED
      BY <3>1, <3>2, <3>3, <3>4
  <2>4. PICK left \in Nat, total \in Nat : left = hw.left /\ total = f.total
    BY <2>2, <2>3, Footprint
  <2> QED
    BY <2>2, <2>3, <2>4 DEF Grades!Held
<1> QED
  BY <1>1, <1>2

LEMMA RankOf ==
    /\ Grades!Rank("fits") = 4
    /\ \A v : Grades!Rank(v) \in 0 .. 4 /\ (Grades!Rank(v) >= 4 => v = "fits")
<1>1. Grades!Rank("fits") = 4
  BY DEF Grades!Rank
<1>2. ASSUME NEW v PROVE Grades!Rank(v) \in 0 .. 4 /\ (Grades!Rank(v) >= 4 => v = "fits")
  BY DEF Grades!Rank
<1> QED
  BY <1>1, <1>2

LEMMA OffersTaken ==
    ASSUME FitInv, profile.at > 0, NEW p \in Weights, NEW c \in Contexts,
           NEW q \in DOMAIN Grades!QuantBPW,
           NEW n \in Grades!All, Grades!Read(n), Grades!Offered(n, p, q, c)
    PROVE  Grades!BestFit(Grades!EstimateFleetFit(p, q, c)).verdict = "fits"
<1>1. PICK hw \in Grades!FitHosts :
        hw.host = n /\ hw.runs /\ ~Grades!IsStale(hw) /\ Grades!HasGPU(hw)
  BY OfferedGraded
<1>2. Roomy(hw)
  BY <1>1, GradedRoom
<1>3. PICK free \in Int :
        /\ free = Grades!PrimaryGPU(hw).free
        /\ (Len(Cards[n]) = 1 /\ Grades!Room(n, 1) > 0) => free = Grades!Room(n, 1)
        /\ Len(Cards[n]) = 1 => Grades!Room(n, 1) \in Int
  <2>1. PICK j \in DOMAIN Cards[n], free \in Int :
        /\ free = Grades!PrimaryGPU(hw).free /\ Grades!Room(n, j) \in Int
        /\ (Len(Cards[n]) = 1 /\ Grades!Room(n, 1) > 0) => free = Grades!Room(n, 1)
    BY <1>1, <1>2 DEF Roomy
  <2>2. ASSUME Len(Cards[n]) = 1 PROVE j = 1
    <3>1. PICK s \in Seq(Nat) : s = Cards[n]
      BY FitAssumption DEF Grades!WellFormed
    <3>2. DOMAIN s = 1 .. 1
      BY <2>2, <3>1
    <3> QED
      BY <2>1, <3>1, <3>2
  <2> QED
    BY <2>1, <2>2
<1>4. 10 * Grades!TotalMB(p, q, c) <= 9 * free
  <2>1. PICK total \in Nat \ {0} : total = Grades!TotalMB(p, q, c)
    BY Footprint
  <2>2. PICK room \in Int : room = Grades!Room(n, 1)
    BY <1>3 DEF Grades!Offered
  <2>3. Len(Cards[n]) = 1 /\ 10 * total <= 9 * room
    BY <2>1, <2>2 DEF Grades!Offered
  <2>4. room > 0
    BY <2>1, <2>2, <2>3
  <2> QED
    BY <1>3, <2>1, <2>2, <2>3, <2>4
<1>5. PICK f : f = Grades!EstimateFit(p, q, c, hw)
  OBVIOUS
<1>6. Verdict(f, hw, free, p, q, c)
  BY <1>3, <1>5, Judged
<1>7. f.verdict = "fits"
  BY <1>1, <1>4, <1>6 DEF Verdict
<1>8. PICK fits : fits = Grades!EstimateFleetFit(p, q, c)
  OBVIOUS
<1>9. f \in fits
  BY <1>1, <1>5, <1>8 DEF Grades!EstimateFleetFit
<1>10. \A k \in fits : Grades!Rank(k.verdict) <= Grades!Rank(f.verdict)
  BY <1>7, RankOf
<1>11. \A k \in fits : Grades!Rank(k.verdict) <= Grades!Rank(Grades!BestFit(fits).verdict)
  BY <1>9, <1>10 DEF Grades!BestFit
<1>12. Grades!Rank(Grades!BestFit(fits).verdict) >= 4
  BY <1>7, <1>9, <1>11, RankOf
<1> QED
  BY <1>8, <1>12, RankOf

\* The planner takes the most faithful of the quantizations that fit.
LEMMA PlanFits ==
    ASSUME NEW p \in Weights, NEW c \in Contexts, NEW q \in DOMAIN Grades!QuantBPW, NEW hw,
           Grades!EstimateFit(p, q, c, hw).verdict = "fits", NEW pick, pick = Grades!PickQuant(p, c, hw)
    PROVE  /\ Grades!EstimateFit(p, pick, c, hw).verdict = "fits"
           /\ Grades!WeightsMB(p, q) <= Grades!WeightsMB(p, pick)
<1> DEFINE fitting == { i \in DOMAIN Grades!Candidates :
                          Grades!EstimateFit(p, Grades!Candidates[i], c, hw).verdict = "fits" }
<1>1. /\ DOMAIN Grades!Candidates = 1 .. 4
      /\ \A r \in DOMAIN Grades!QuantBPW : \E i \in 1 .. 4 : r = Grades!Candidates[i]
      /\ \A i \in 1 .. 4 : Grades!Candidates[i] \in DOMAIN Grades!QuantBPW
      /\ \A i, k \in 1 .. 4 : i <= k => /\ Grades!QuantBPW[Grades!Candidates[i]] \in Nat
                                        /\ Grades!QuantBPW[Grades!Candidates[k]] \in Nat
                                        /\ Grades!QuantBPW[Grades!Candidates[k]]
                                             <= Grades!QuantBPW[Grades!Candidates[i]]
  BY DEF Grades!Candidates, Grades!QuantBPW
<1>2. PICK k \in 1 .. 4 : q = Grades!Candidates[k]
  BY <1>1
<1>3. k \in fitting
  BY <1>1, <1>2
<1>4. PICK m \in fitting : \A i \in fitting : m <= i
  <2>1. fitting \in SUBSET Nat
    BY <1>1
  <2> HIDE DEF fitting
  <2> QED
    BY <1>3, <2>1, LeastOf
<1>5. Grades!Min(fitting) \in fitting /\ \A i \in fitting : Grades!Min(fitting) <= i
  BY <1>4 DEF Grades!Min
<1>6. PICK best \in 1 .. 4 : best = Grades!Min(fitting) /\ best <= k
  BY <1>1, <1>3, <1>5
<1>7. ~(~hw.runs) /\ Grades!HasGPU(hw)
  <2>1. PICK f : f = Grades!EstimateFit(p, q, c, hw) /\ f.verdict = "fits"
    OBVIOUS
  <2>2. CASE ~hw.runs \/ Grades!IsStale(hw)
    <3>1. f = Grades!Fits(hw, "unknown", 0, Grades!TotalMB(p, q, c))
      BY <2>1, <2>2, Zenon DEF Grades!EstimateFit
    <3> QED
      BY <2>1, <3>1 DEF Grades!Fits
  <2>3. CASE ~(~hw.runs \/ Grades!IsStale(hw)) /\ ~Grades!HasGPU(hw)
    <3>1. PICK v \in {"no", "partial"} : f = Grades!Fits(hw, v, 0, Grades!TotalMB(p, q, c))
      BY <2>1, <2>3 DEF Grades!EstimateFit
    <3> QED
      BY <2>1, <3>1 DEF Grades!Fits
  <2> QED
    BY <2>2, <2>3
<1>8. pick = Grades!Candidates[best]
  BY <1>3, <1>6, <1>7 DEF Grades!PickQuant
<1>9. Grades!EstimateFit(p, pick, c, hw).verdict = "fits"
  BY <1>5, <1>6, <1>8
<1>10. Grades!WeightsMB(p, q) <= Grades!WeightsMB(p, pick)
  <2>1. PICK a \in Nat, b \in Nat : a = Grades!QuantBPW[q] /\ b = Grades!QuantBPW[pick] /\ a <= b
    BY <1>1, <1>2, <1>6, <1>8
  <2>2. PICK w \in Nat : w = p
    BY FitAssumption DEF Grades!WellFormed
  <2>3. w * a <= w * b
    BY <2>1, <2>2
  <2>4. PICK x \in Nat, y \in Nat : x = w * a /\ y = w * b /\ x <= y
    BY <2>1, <2>2, <2>3
  <2>5. (x * 1192) \div 10000 <= (y * 1192) \div 10000
    BY <2>4
  <2> QED
    BY <2>1, <2>2, <2>4, <2>5 DEF Grades!WeightsMB
<1> QED
  BY <1>9, <1>10

\* Whatever the machines run, report and lose, a verdict promises only what
\* a machine was read to have, on its cards or without one in its memory, finds what it was read to have room for, and
\* the planner steps down no further than it must (fit.go: EstimateFit,
\* finishCPUOnly, BestFit; plan.go: PickQuant, Recommend; fleet.go: nodeGPUs,
\* HardwareFromNode).
THEOREM VerdictsAreKept == Spec => []VerdictsHold
<1>1. FitInv /\ [Next]_vars => FitInv'
  BY Steps, FitStep
<1>2. FitInv => VerdictsHold
  <2> SUFFICES ASSUME FitInv PROVE Grades!VerdictsHold
    BY DEF VerdictsHold
  <2> SUFFICES ASSUME Grades!Fresh, NEW p \in Weights, NEW c \in Contexts
      PROVE /\ \A q \in DOMAIN Grades!QuantBPW :
                 /\ \A f \in Grades!EstimateFleetFit(p, q, c) :
                       /\ Grades!Read(f.host) => Grades!Promised(f, p, q, c)
                       /\ f.host = Here \/ nodeRow[f.host].at > 0 => Grades!Held(f)
                 /\ (\E n \in Grades!All : Grades!Read(n) /\ Grades!Offered(n, p, q, c)) =>
                       Grades!BestFit(Grades!EstimateFleetFit(p, q, c)).verdict = "fits"
            /\ \A q \in DOMAIN Grades!QuantBPW :
                 Grades!EstimateFit(p, q, c, Grades!PrimaryHost).verdict = "fits" =>
                    /\ Grades!Recommend(p, c).fit.verdict = "fits"
                    /\ Grades!WeightsMB(p, q) <= Grades!WeightsMB(p, Grades!Recommend(p, c).quant)
    BY DEF Grades!VerdictsHold
  <2>1. profile.at > 0
    BY DEF Grades!Fresh
  <2>2. ASSUME NEW q \in DOMAIN Grades!QuantBPW,
               Grades!EstimateFit(p, q, c, Grades!PrimaryHost).verdict = "fits"
        PROVE  /\ Grades!Recommend(p, c).fit.verdict = "fits"
               /\ Grades!WeightsMB(p, q) <= Grades!WeightsMB(p, Grades!Recommend(p, c).quant)
    <3>1. PICK hw, pick : hw = Grades!PrimaryHost /\ pick = Grades!PickQuant(p, c, hw)
      OBVIOUS
    <3>2. /\ Grades!EstimateFit(p, pick, c, hw).verdict = "fits"
          /\ Grades!WeightsMB(p, q) <= Grades!WeightsMB(p, pick)
      BY <2>2, <3>1, PlanFits
    <3> QED
      BY <3>1, <3>2 DEF Grades!Recommend
  <2> QED
    BY <2>1, <2>2, PromisesKept, MemoryIsHeld, OffersTaken
<1> QED
  BY <1>1, <1>2, FitBegins, PTL DEF Spec

-----------------------------------------------------------------------------
(* Search: the one-way mirror.                                             *)

AgentNames == {Searches!Closed, NoAgent} \cup { Profile[t] : t \in Talks }
Excerpt == [of : Said, agent : AgentNames, bytes : Nat]
Depth == Searches!Max({CandidateDepth, RecentTurns})

IndexInv ==
    /\ agent = [t \in Talks |-> agent[t]]
    /\ \A t \in Talks : agent[t] \in {Searches!Closed, NoAgent, Profile[t]}
    /\ text \in [Said -> {"none", "stored", "gone"}]
    /\ saidTo = [m \in Said |-> saidTo[m]] /\ vector = [m \in Said |-> vector[m]]
    /\ \A m \in Said : text[m] # "none" =>
          /\ agent[Talk[m]] # Searches!Closed
          /\ agent[Talk[m]] # NoAgent => saidTo[m] = agent[Talk[m]]
    /\ \A m \in Said : vector[m] # Searches!NoVector =>
          text[m] # "none" /\ (vector[m] # NoAgent => saidTo[m] = vector[m])
    /\ claimed # Searches!NoClaim =>
          /\ claimed.of \in Said /\ text[claimed.of] # "none"
          /\ claimed.agent # NoAgent => saidTo[claimed.of] = claimed.agent

\* What a turn may be told of.
Visible(m) ==
    /\ Owner[Talk[m]] = Owner[search.talk] /\ Talk[m] # search.talk
    /\ search.agent # NoAgent => saidTo[m] = search.agent
    /\ text[m] # "none"

ListsInv ==
    /\ search.lists \in Seq(Seq(Said))
    /\ \A i \in 1 .. Len(search.lists) :
          /\ Len(search.lists[i]) <= Depth
          /\ \A k \in 1 .. Len(search.lists[i]) : Visible(search.lists[i][k])

\* The lists that a message is in.
Likes(m, ranks) == { i \in 1 .. Len(ranks) : Searches!Contains(ranks[i], m) }

\* What Weighed says, of what is told of lists within a budget.
WeighedIn(told, ranks, budget) ==
    /\ \A i, j \in 1 .. Len(told) : i < j =>
          /\ told[i].of # told[j].of
          /\ Cardinality(Likes(told[i].of, ranks)) = 1 =>
                Cardinality(Likes(told[j].of, ranks)) = 1
    /\ Searches!Tokens(told) <= budget + 1
    /\ Len(told) > 1 => Searches!Tokens(told) <= budget

HitsInv ==
    /\ search.hits \in Seq(Excerpt)
    /\ \A i \in 1 .. Len(search.hits) : Visible(search.hits[i].of)
    /\ WeighedIn(search.hits, search.lists, Searches!BudgetFor(Window[search.talk]))

SearchTypes ==
    /\ search = [at |-> search.at, talk |-> search.talk, agent |-> search.agent,
                 asked |-> search.asked, lists |-> search.lists, hits |-> search.hits]
    /\ search.talk \in Talks /\ (search.at # "idle" => search.asked \in Asked)
    /\ search.at # "done" => search.hits = <<>>

SearchInv == IndexInv /\ SearchTypes /\ ListsInv /\ HitsInv

LEMMA SelectsSame ==
    ASSUME NEW q, NEW T
    PROVE  Searches!Select(q, T) = Select(q, T)
BY DEF Searches!Select, Select

LEMMA CountsSame == ASSUME NEW S PROVE Searches!Cardinality(S) = Cardinality(S)
BY DEF Searches!Cardinality, Cardinality

LEMMA DepthIs ==
    /\ K \in Nat /\ Depth \in Nat /\ Depth <= K + 1
    /\ CandidateDepth \in Nat /\ CandidateDepth <= Depth
    /\ RecentTurns \in Nat /\ RecentTurns <= Depth
<1>1. PICK a \in Nat, b \in Nat :
        a = CandidateDepth /\ b = RecentTurns /\ K \in Nat /\ a <= K + 1 /\ b <= K + 1
  BY SearchAssumption DEF Searches!WellFormed
<1>2. Searches!Max({a, b}) = IF a >= b THEN a ELSE b
  BY DEF Searches!Max
<1> QED
  BY <1>1, <1>2 DEF Depth

LEMMA FirstOf ==
    ASSUME NEW S, NEW s \in Seq(S), NEW n \in Nat, NEW f, f = Searches!First(n, s)
    PROVE  /\ f \in Seq(S) /\ Len(f) <= n /\ Len(f) <= Len(s)
           /\ \A i \in 1 .. Len(f) : f[i] = s[i]
<1>1. PICK l \in Nat : l = Len(s)
  OBVIOUS
<1>2. Searches!Min({n, l}) = IF n <= l THEN n ELSE l
  BY DEF Searches!Min
<1>3. PICK k \in Nat : k = Searches!Min({n, l}) /\ k <= n /\ k <= l
  BY <1>2
<1>4. f = SubSeq(s, 1, k)
  BY <1>1, <1>3 DEF Searches!First
<1>5. f \in Seq(S)
  <2>1. k \in Nat /\ k <= Len(s)
    BY <1>1, <1>3
  <2>2. SubSeq(s, 1, k) \in Seq(S)
    BY <2>1
  <2> QED
    BY <1>4, <2>2
<1>6. Len(f) = k
  BY <1>1, <1>3, <1>4
<1>7. ASSUME NEW i \in 1 .. Len(f) PROVE f[i] = s[i]
  BY <1>1, <1>3, <1>4, <1>6
<1> QED
  BY <1>1, <1>3, <1>5, <1>6, <1>7

\* A ranker lists messages that are indexed and in scope.
LEMMA RankedScanned ==
    ASSUME NEW order \in Seq(Said), NEW list, list = Searches!Ranked(order)
    PROVE  /\ list \in Seq(Said) /\ Len(list) <= Depth
           /\ \A i \in 1 .. Len(list) : list[i] \in Searches!Scanned
<1>0. CandidateDepth \in Nat /\ CandidateDepth <= Depth /\ Depth \in Nat
  BY DepthIs
<1>1. PICK sel : sel = Select(order, Searches!Scanned)
  OBVIOUS
<1>2. sel \in Seq(Said) /\ \A i \in 1 .. Len(sel) : sel[i] \in Searches!Scanned
  <2>1. PICK T : T = Searches!Scanned
    OBVIOUS
  <2>2. sel \in Seq(Said)
    BY <1>1, <2>1, SelectType
  <2>3. Drawn(sel, order, Len(order), T)
    BY <1>1, <2>1, SelectDrawn
  <2> QED
    BY <2>1, <2>2, <2>3 DEF Drawn
<1>3. list = Searches!First(CandidateDepth, sel)
  BY <1>1, SelectsSame DEF Searches!Ranked
<1>4. /\ list \in Seq(Said) /\ Len(list) <= CandidateDepth /\ Len(list) <= Len(sel)
      /\ \A i \in 1 .. Len(list) : list[i] = sel[i]
  BY <1>0, <1>2, <1>3, FirstOf
<1>5. Len(list) \in Nat /\ Len(sel) \in Nat
  BY <1>2, <1>4
<1> QED
  BY <1>0, <1>2, <1>4, <1>5

LEMMA NewestScanned ==
    ASSUME NEW list, list = Searches!Newest
    PROVE  /\ list \in Seq(Said) /\ Len(list) <= Depth
           /\ \A i \in 1 .. Len(list) : list[i] \in Searches!Scanned
<1>0. RecentTurns \in Nat /\ RecentTurns <= Depth /\ Depth \in Nat
  BY DepthIs
<1>1. PICK S : S = Searches!Scanned /\ S \subseteq Said /\ S \subseteq Nat /\ IsFiniteSet(S)
  <2>1. Searches!Scanned \subseteq Said
    BY DEF Searches!Scanned
  <2>2. IsFiniteSet(Said) /\ Said \subseteq Nat
    BY SearchAssumption DEF Searches!WellFormed, Searches!IsFiniteSet, IsFiniteSet
  <2> QED
    BY <2>1, <2>2, FS_Subset
<1>2. PICK n \in Nat : n = Cardinality(S)
  BY <1>1, FS_CardinalityType
<1>3. PICK r : r = Searches!Sorted(S, >)
  OBVIOUS
<1> DEFINE B == [m \in S |-> { x \in S : x > m }]
<1>4. TotalOrder(B, S) /\ B \in [S -> SUBSET S]
  BY <1>1 DEF TotalOrder
<1>5. r = [i \in 1 .. n |-> CHOOSE m \in S : Searches!Cardinality({ x \in S : x > m }) = i - 1]
  BY <1>2, <1>3, CountsSame DEF Searches!Sorted
<1>6. ASSUME NEW i \in 1 .. n PROVE r[i] \in S
  <2>1. i \in 1 .. Cardinality(S)
    BY <1>2
  <2>2. PICK m \in S : Cardinality(B[m]) = i - 1
    <3> HIDE DEF B
    <3> QED
      BY <1>1, <1>4, <2>1, EveryPlace
  <2>3. PICK A : A = { x \in S : x > m } /\ Cardinality(A) = i - 1
    BY <2>2
  <2>4. Searches!Cardinality({ x \in S : x > m }) = i - 1
    BY <2>3, CountsSame
  <2> QED
    BY <1>5, <2>4
<1>7. r \in Seq(S) /\ Len(r) = n
  <2>1. r \in [1 .. n -> S]
    BY <1>5, <1>6, Zenon
  <2> QED
    BY <1>2, <2>1
<1>8. list = Searches!First(RecentTurns, r)
  BY <1>1, <1>3 DEF Searches!Newest
<1>9. list \in Seq(S) /\ Len(list) <= RecentTurns
  BY <1>0, <1>7, <1>8, FirstOf
<1>10. list \in Seq(Said) /\ Len(list) \in Nat /\ \A i \in 1 .. Len(list) : list[i] \in S
  <2>1. Len(list) \in Nat /\ \A i \in 1 .. Len(list) : list[i] \in S
    BY <1>9
  <2>2. \A T : S \subseteq T => list \in Seq(T)
    BY <1>9
  <2> QED
    BY <1>1, <2>1, <2>2
<1> QED
  BY <1>0, <1>1, <1>9, <1>10

-----------------------------------------------------------------------------
(* Search: the fusion.                                                     *)

\* The fractions of the fusion are whole parts of its scale.
LEMMA ScaleIs ==
    /\ Scale \in Nat \ {0}
    /\ \A r \in 1 .. Depth : \E x \in Nat \ {0} : Scale = (K + r) * x
<1>1. Scale \in Nat \ {0}
  BY SearchAssumption DEF Searches!WellFormed
<1>2. \A r \in 1 .. Depth : \E x \in 1 .. Scale : Scale = (K + r) * x
  BY SearchAssumption DEF Searches!WellFormed, Depth
<1> QED
  BY <1>1, <1>2

LEMMA PlaceOf ==
    ASSUME NEW list \in Seq(Said), NEW m, NEW r, r = Searches!Rank(m, list)
    PROVE  /\ r \in 0 .. Len(list) /\ (r = 0 <=> ~Searches!Contains(list, m))
           /\ r # 0 => list[r] = m
<1> DEFINE I == { i \in 1 .. Len(list) : list[i] = m }
<1>0. Len(list) \in Nat
  OBVIOUS
<1>1. Searches!Contains(list, m) <=> I # {}
  BY DEF Searches!Contains
<1>2. r = IF I # {} THEN Searches!Min(I) ELSE 0
  BY DEF Searches!Rank, Searches!SelectInSeq
<1>3. CASE I = {}
  BY <1>0, <1>1, <1>2, <1>3
<1>4. CASE I # {}
  <2>1. PICK k \in I : \A i \in I : k <= i
    <3>1. I \in SUBSET Nat
      OBVIOUS
    <3> HIDE DEF I
    <3> QED
      BY <1>4, <3>1, LeastOf
  <2>2. Searches!Min(I) \in I
    BY <2>1 DEF Searches!Min
  <2>3. r \in I
    BY <1>2, <1>4, <2>2
  <2> QED
    BY <1>0, <1>1, <1>4, <2>3
<1> QED
  BY <1>3, <1>4

\* One vote weighs no more than the first place, and more than half of it.
LEMMA ShareOf ==
    ASSUME NEW list \in Seq(Said), Len(list) <= Depth, NEW m, NEW u, u = Searches!Share(m, list)
    PROVE  /\ u \in Nat
           /\ ~Searches!Contains(list, m) => u = 0
           /\ Searches!Contains(list, m) =>
                (K + 1) * u <= Scale /\ Scale < 2 * ((K + 1) * u)
<1>0. K \in Nat /\ Depth \in Nat /\ Depth <= K + 1 /\ Len(list) \in Nat
  BY DepthIs
<1>1. PICK r : r = Searches!Rank(m, list)
  OBVIOUS
<1>2. r \in 0 .. Len(list) /\ (r = 0 <=> ~Searches!Contains(list, m))
  BY <1>1, PlaceOf
<1>3. u = IF r = 0 THEN 0 ELSE Scale \div (K + r)
  BY <1>1 DEF Searches!Share
<1>4. CASE r = 0
  BY <1>2, <1>3, <1>4
<1>5. CASE r # 0
  <2>1. r \in 1 .. Depth
    BY <1>0, <1>2, <1>5
  <2>2. PICK x \in Nat \ {0} : Scale = (K + r) * x
    BY <2>1, ScaleIs
  <2>3. PICK a \in Nat \ {0} : a = K + r /\ a >= K + 1 /\ a < 2 * (K + 1)
    BY <1>0, <2>1
  <2>4. (a * x) \div a = x
    BY <2>2, <2>3
  <2>5. u = x
    BY <1>3, <1>5, <2>2, <2>3, <2>4
  <2>6. PICK c \in Nat : c = K + 1 /\ a >= c /\ a < 2 * c
    BY <1>0, <2>3
  <2>7. c * x <= a * x
    BY <2>2, <2>3, <2>6
  <2>8. a * x < (2 * c) * x
    BY <2>2, <2>3, <2>6
  <2>9. (2 * c) * x = 2 * (c * x)
    BY <2>2, <2>6
  <2> QED
    BY <1>2, <1>5, <2>2, <2>3, <2>5, <2>6, <2>7, <2>8, <2>9
<1> QED
  BY <1>4, <1>5

ShareIn(m, ranks) == [i \in 1 .. Len(ranks) |-> Searches!Share(m, ranks[i])]

LEMMA ScoreIsSum ==
    ASSUME NEW N \in Nat, NEW m, NEW ranks, Len(ranks) = N, DOMAIN ranks = 1 .. N
    PROVE  Searches!Score(m, ranks) = Sum(ShareIn(m, ranks), 1 .. N)
<1> DEFINE F == ShareIn(m, ranks)
           S == 1 .. N
           Adds(h) == h = [s \in SUBSET S |-> IF s = {} THEN 0
                             ELSE LET x == CHOOSE x \in s : TRUE
                                  IN  Searches!Share(m, ranks[x]) + h[s \ {x}]]
           h == CHOOSE h : Adds(h)
<1>0. IsFiniteSet(S) /\ \A n \in S : F[n] = Searches!Share(m, ranks[n])
  BY FS_Interval DEF ShareIn
<1>4. Searches!Score(m, ranks) = h[S]
  BY DEF Searches!Score, Searches!MapThenSumSet, Searches!MapThenFoldSet
<1> HIDE DEF S, F
<1>1. ASSUME NEW g PROVE Adds(g) <=> Sums(F, S, g)
  BY <1>0 DEF Sums
<1>2. \E g : Adds(g)
  <2> HIDE DEF Adds
  <2> QED
    BY <1>0, <1>1, SumsExist
<1>3. Adds(h)
  <2> HIDE DEF Adds
  <2> QED
    BY <1>2
<1>5. Sums(F, S, h)
  <2> HIDE DEF Adds, h
  <2> QED
    BY <1>1, <1>3
<1> HIDE DEF h, Adds
<1> QED
  BY <1>0, <1>4, <1>5, SumOf DEF F, S

Rankings == Seq(Seq(Said))
Shallow(ranks) == \A i \in 1 .. Len(ranks) : Len(ranks[i]) <= Depth

LEMMA ScoreTyped ==
    ASSUME NEW ranks \in Rankings, Shallow(ranks), NEW m
    PROVE  /\ Searches!Score(m, ranks) \in Nat
           /\ \A i \in Likes(m, ranks) :
                Likes(m, ranks) = {i} => (K + 1) * Searches!Score(m, ranks) <= Scale
           /\ \A i, k \in Likes(m, ranks) :
                i # k => Scale < (K + 1) * Searches!Score(m, ranks)
<1>0. PICK N \in Nat : N = Len(ranks) /\ DOMAIN ranks = 1 .. N
  BY DEF Rankings
<1>1. PICK F, S : F = ShareIn(m, ranks) /\ S = 1 .. N
  OBVIOUS
<1>2. IsFiniteSet(S) /\ Likes(m, ranks) \subseteq S
  BY <1>0, <1>1, FS_Interval DEF Likes
<1>c. PICK C \in Nat \ {0}, Z \in Nat \ {0} : C = K + 1 /\ Z = Scale
  BY ScaleIs, DepthIs
<1>3. ASSUME NEW i \in S
      PROVE  /\ F[i] \in Nat
             /\ i \notin Likes(m, ranks) => F[i] = 0
             /\ i \in Likes(m, ranks) => C * F[i] <= Z /\ Z < 2 * (C * F[i])
  <2>1. PICK list \in Seq(Said) : list = ranks[i] /\ Len(list) <= Depth
    BY <1>0, <1>1 DEF Rankings, Shallow
  <2>2. PICK u : u = Searches!Share(m, list) /\ F[i] = u
    BY <1>0, <1>1, <2>1 DEF ShareIn
  <2>3. i \in Likes(m, ranks) <=> Searches!Contains(list, m)
    BY <1>0, <1>1, <2>1 DEF Likes
  <2> QED
    BY <1>c, <2>1, <2>2, <2>3, ShareOf
<1>4. PICK score : score = Searches!Score(m, ranks) /\ score = Sum(F, S)
  BY <1>0, <1>1, ScoreIsSum
<1>5. score \in Nat /\ \A x \in S : F[x] <= score
  BY <1>2, <1>3, <1>4, SumNat
<1>6. ASSUME NEW i \in Likes(m, ranks), Likes(m, ranks) = {i}
      PROVE  C * score <= Z
  <2>1. {i} \subseteq S /\ \A x \in {i} : F[x] \in Int
    BY <1>2, <1>3
  <2>2. \A x \in S \ {i} : F[x] = 0
    BY <1>3, <1>6
  <2>3. Sum(F, S) = Sum(F, {i})
    BY <1>2, <2>1, <2>2, SumWithin
  <2>4. IsFiniteSet({i}) /\ {i} \ {i} = {}
    BY <1>2, <2>1, FS_Subset
  <2>5. Sum(F, {i}) = F[i] + Sum(F, {i} \ {i})
    BY <2>1, <2>4, SumTake
  <2>6. Sum(F, {i} \ {i}) = 0
    BY <2>4, SumEmpty
  <2>7. PICK x \in Nat : x = F[i] /\ C * x <= Z
    BY <1>2, <1>3
  <2>8. score = x
    BY <1>4, <2>3, <2>5, <2>6, <2>7
  <2> QED
    BY <2>7, <2>8
<1>7. ASSUME NEW i \in Likes(m, ranks), NEW k \in Likes(m, ranks), i # k
      PROVE  Z < C * score
  <2>1. i \in S /\ k \in S \ {i} /\ IsFiniteSet(S \ {i})
    BY <1>2, <1>7, FS_RemoveElement
  <2>2. \A x \in S : F[x] \in Int
    BY <1>3
  <2>3. Sum(F, S) = F[i] + Sum(F, S \ {i})
    BY <1>2, <2>1, <2>2, SumTake
  <2>4. PICK R : R = S \ {i}
    OBVIOUS
  <2>5. \A x \in R : F[x] \in Nat
    BY <1>3, <2>4
  <2>6. Sum(F, R) \in Nat /\ F[k] <= Sum(F, R)
    BY <2>1, <2>4, <2>5, SumNat
  <2>7. PICK x \in Nat, y \in Nat, z \in Nat :
          x = F[i] /\ y = F[k] /\ z = Sum(F, R) /\ Z < 2 * (C * x) /\ Z < 2 * (C * y) /\ y <= z
    BY <1>2, <1>3, <2>6
  <2>8. score = x + z
    BY <1>4, <2>3, <2>4, <2>7
  <2>9. C * score = C * x + C * z
    BY <2>7, <2>8
  <2>10. C * y <= C * z
    BY <2>7
  <2>11. PICK a \in Nat, b \in Nat, d \in Nat : a = C * x /\ b = C * y /\ d = C * z
    BY <2>7
  <2> QED
    BY <2>7, <2>9, <2>10, <2>11
<1> QED
  BY <1>4, <1>5, <1>6, <1>7, <1>c

\* What two rankers like comes before what one of them does.
LEMMA TwoOutvote ==
    ASSUME NEW ranks \in Rankings, Shallow(ranks), NEW m, NEW n,
           Cardinality(Likes(m, ranks)) = 1, Cardinality(Likes(n, ranks)) # 1, Likes(n, ranks) # {}
    PROVE  Searches!Score(n, ranks) > Searches!Score(m, ranks)
<1>1. PICK V, U : V = Likes(m, ranks) /\ U = Likes(n, ranks)
  OBVIOUS
<1>2. IsFiniteSet(V) /\ IsFiniteSet(U)
  <2>1. PICK N \in Nat : N = Len(ranks)
    BY DEF Rankings
  <2>2. V \subseteq 1 .. N /\ U \subseteq 1 .. N
    BY <1>1, <2>1 DEF Likes
  <2>3. IsFiniteSet(1 .. N)
    BY FS_Interval
  <2> QED
    BY <2>2, <2>3, FS_Subset
<1>3. PICK i : V = {i}
  BY <1>1, <1>2, FS_Singleton
<1>4. PICK j \in U, k \in U : j # k
  <2>1. PICK j \in U : TRUE
    BY <1>1
  <2>2. Cardinality({j}) = 1
    BY FS_Singleton
  <2>3. U # {j}
    BY <1>1, <2>2
  <2> QED
    BY <2>1, <2>3
<1>5. PICK C \in Nat \ {0}, Z \in Nat, s \in Nat, t \in Nat :
        /\ C = K + 1 /\ Z = Scale
        /\ s = Searches!Score(m, ranks) /\ t = Searches!Score(n, ranks)
  <2>1. K + 1 \in Nat \ {0}
    BY DepthIs
  <2>2. Scale \in Nat
    BY ScaleIs
  <2>3. Searches!Score(m, ranks) \in Nat /\ Searches!Score(n, ranks) \in Nat
    BY ScoreTyped
  <2> QED
    BY <2>1, <2>2, <2>3
<1>6. C * s <= Z
  BY <1>1, <1>3, <1>5, ScoreTyped
<1>7. Z < C * t
  BY <1>1, <1>4, <1>5, ScoreTyped
<1>8. ~(t <= s)
  <2> SUFFICES ASSUME t <= s PROVE FALSE
    OBVIOUS
  <2>1. C * t <= C * s
    BY <1>5
  <2>2. PICK a \in Nat, b \in Nat : a = C * s /\ b = C * t
    BY <1>5
  <2> QED
    BY <1>5, <1>6, <1>7, <2>1, <2>2
<1> QED
  BY <1>5, <1>8

\* What is in a list.
Listed(ranks) == UNION { Searches!Range(ranks[i]) : i \in DOMAIN ranks }

LEMMA ListedIs ==
    ASSUME NEW ranks \in Rankings, NEW m \in Listed(ranks)
    PROVE  /\ m \in Said /\ Likes(m, ranks) # {} /\ Searches!FirstRank(m, ranks) \in Nat
           /\ \E i \in 1 .. Len(ranks) : \E k \in 1 .. Len(ranks[i]) : m = ranks[i][k]
<1>0. Len(ranks) \in Nat /\ DOMAIN ranks = 1 .. Len(ranks)
      /\ \A i \in 1 .. Len(ranks) : ranks[i] \in Seq(Said)
  BY DEF Rankings
<1>1. PICK i \in 1 .. Len(ranks) : m \in Searches!Range(ranks[i])
  BY <1>0 DEF Listed
<1>2. PICK list \in Seq(Said) : list = ranks[i]
  BY <1>0
<1>3. PICK k \in 1 .. Len(list) : m = list[k]
  <2>1. DOMAIN list = 1 .. Len(list)
    OBVIOUS
  <2> QED
    BY <1>1, <1>2, <2>1 DEF Searches!Range
<1>4. i \in Likes(m, ranks)
  BY <1>2, <1>3 DEF Likes, Searches!Contains
<1> DEFINE I == { n \in 1 .. Len(ranks) : Searches!Contains(ranks[n], m) }
<1>5. I = Likes(m, ranks)
  BY DEF Likes
<1>6. PICK f : f = Searches!SelectInSeq(ranks, LAMBDA list_1 : Searches!Contains(list_1, m))
  OBVIOUS
<1>7. f = Searches!Min(I)
  BY <1>4, <1>5, <1>6 DEF Searches!SelectInSeq
<1>8. f \in 1 .. Len(ranks)
  <2>1. I \in SUBSET Nat /\ I # {} /\ \A n \in I : n \in 1 .. Len(ranks)
    BY <1>4, <1>5
  <2> HIDE DEF I
  <2>2. PICK n \in I : \A l \in I : n <= l
    BY <2>1, LeastOf
  <2>3. Searches!Min(I) \in I
    BY <2>2 DEF Searches!Min
  <2> QED
    BY <1>7, <2>1, <2>3
<1>9. Searches!FirstRank(m, ranks) \in Nat
  <2>1. PICK top \in Seq(Said) : top = ranks[f]
    BY <1>0, <1>8
  <2>2. Searches!FirstRank(m, ranks) = Searches!Rank(m, top)
    BY <1>6, <2>1 DEF Searches!FirstRank
  <2>3. Searches!Rank(m, top) \in 0 .. Len(top) /\ Len(top) \in Nat
    BY PlaceOf
  <2> QED
    BY <2>2, <2>3
<1>10. m \in Said
  BY <1>3
<1> QED
  BY <1>2, <1>3, <1>4, <1>9, <1>10

\* In the order of what is said for them, and each once.
Ranking(r, ranks) ==
    /\ r \in Seq(Said)
    /\ \A i \in 1 .. Len(r) : r[i] \in Listed(ranks)
    /\ \A i, j \in 1 .. Len(r) : i < j =>
          Searches!Score(r[i], ranks) >= Searches!Score(r[j], ranks) /\ r[i] # r[j]

LEMMA FusedInOrder ==
    ASSUME NEW ranks \in Rankings, Shallow(ranks), NEW r, r = Searches!Fuse(ranks)
    PROVE  Ranking(r, ranks)
<1>1. PICK S : S = Listed(ranks) /\ S \subseteq Said /\ S \subseteq Nat /\ IsFiniteSet(S)
  <2>1. Listed(ranks) \subseteq Said
    BY ListedIs
  <2>2. IsFiniteSet(Said) /\ Said \subseteq Nat
    BY SearchAssumption DEF Searches!WellFormed, Searches!IsFiniteSet, IsFiniteSet
  <2> QED
    BY <2>1, <2>2, FS_Subset
<1>2. PICK l \in Nat : l = Cardinality(S)
  BY <1>1, FS_CardinalityType
<1>3. PICK sc \in [S -> Nat] : \A x \in S : sc[x] = Searches!Score(x, ranks)
  <2>1. \A x \in S : Searches!Score(x, ranks) \in Nat
    BY ScoreTyped
  <2> DEFINE a == [x \in S |-> Searches!Score(x, ranks)]
  <2>2. a \in [S -> Nat] /\ \A x \in S : a[x] = Searches!Score(x, ranks)
    BY <2>1
  <2> QED
    BY <2>2, Zenon
<1>4. PICK fr \in [S -> Nat] : \A x \in S : fr[x] = Searches!FirstRank(x, ranks)
  <2>1. \A x \in S : Searches!FirstRank(x, ranks) \in Nat
    BY <1>1, ListedIs
  <2> DEFINE a == [x \in S |-> Searches!FirstRank(x, ranks)]
  <2>2. a \in [S -> Nat] /\ \A x \in S : a[x] = Searches!FirstRank(x, ranks)
    BY <2>1
  <2> QED
    BY <2>2, Zenon
<1> DEFINE Prior(x, y) == \/ sc[x] > sc[y]
                          \/ /\ sc[x] = sc[y]
                             /\ \/ fr[x] < fr[y]
                                \/ fr[x] = fr[y] /\ x < y
           B == [m \in S |-> { x \in S : Prior(x, m) }]
<1>5. \A x, y \in S : Searches!Before(x, y, ranks) <=> Prior(x, y)
  BY <1>3, <1>4 DEF Searches!Before
<1>6. TotalOrder(B, S) /\ B \in [S -> SUBSET S]
  <2>1. \A x \in S : sc[x] \in Nat /\ fr[x] \in Nat /\ x \in Nat
    BY <1>1
  <2>2. \A x \in S : ~ Prior(x, x)
    BY <2>1
  <2>3. \A x, y, z \in S : Prior(x, y) /\ Prior(y, z) => Prior(x, z)
    BY <2>1
  <2>4. \A x, y \in S : x = y \/ Prior(x, y) \/ Prior(y, x)
    BY <2>1
  <2> HIDE DEF Prior
  <2> QED
    BY <2>2, <2>3, <2>4 DEF TotalOrder
<1>7. r = [i \in 1 .. l |->
             CHOOSE m \in S : Searches!Cardinality({ x \in S : Searches!Before(x, m, ranks) }) = i - 1]
  BY <1>1, <1>2, CountsSame DEF Searches!Fuse, Searches!Sorted, Listed
<1>8. \A m \in S : { x \in S : Searches!Before(x, m, ranks) } = B[m]
  BY <1>5
<1> HIDE DEF B, Prior
<1>9. ASSUME NEW i \in 1 .. l PROVE r[i] \in S /\ Cardinality(B[r[i]]) = i - 1
  <2>1. PICK m \in S : Cardinality(B[m]) = i - 1
    BY <1>1, <1>2, <1>6, EveryPlace
  <2>2. \A x \in S : Searches!Cardinality({ y \in S : Searches!Before(y, x, ranks) }) = Cardinality(B[x])
    BY <1>8, CountsSame
  <2>3. r[i] = CHOOSE x \in S : Searches!Cardinality({ y \in S : Searches!Before(y, x, ranks) }) = i - 1
    BY <1>7
  <2> QED
    BY <2>1, <2>2, <2>3
<1>10. \A i, j \in 1 .. l : i < j => r[i] \in B[r[j]] /\ r[i] # r[j]
  BY <1>1, <1>2, <1>6, <1>9, InPlaceOrder
<1>11. r \in Seq(S) /\ Len(r) = l
  <2>1. r \in [1 .. l -> S]
    BY <1>7, <1>9, Zenon
  <2> QED
    BY <2>1
<1>12. r \in Seq(Said)
  <2>1. \A T : S \subseteq T => r \in Seq(T)
    BY <1>11
  <2> QED
    BY <1>1, <2>1
<1>13. ASSUME NEW i \in 1 .. l, NEW j \in 1 .. l, i < j
       PROVE  Searches!Score(r[i], ranks) >= Searches!Score(r[j], ranks) /\ r[i] # r[j]
  <2>1. PICK x \in S, y \in S : x = r[i] /\ y = r[j] /\ x \in B[y] /\ x # y
    BY <1>9, <1>10, <1>13
  <2>2. Prior(x, y)
    BY <2>1 DEF B
  <2>3. sc[x] >= sc[y]
    <3>1. sc[x] \in Nat /\ sc[y] \in Nat
      OBVIOUS
    <3> QED
      BY <2>2, <3>1 DEF Prior
  <2> QED
    BY <1>3, <2>1, <2>3
<1> QED
  BY <1>1, <1>9, <1>11, <1>12, <1>13 DEF Ranking

-----------------------------------------------------------------------------
(* Search: the budget.                                                     *)

LEMMA BudgetIs ==
    ASSUME NEW t \in Talks
    PROVE  Searches!BudgetFor(Window[t]) \in Nat /\ Searches!BudgetFor(Window[t]) > 4
<1>1. PICK w \in Nat : w = Window[t]
  BY SearchAssumption DEF Searches!WellFormed
<1>2. PICK b \in Nat : b = (w * 12) \div 100
  OBVIOUS
<1>3. Searches!Max({256, b}) = IF 256 >= b THEN 256 ELSE b
  BY DEF Searches!Max
<1>4. Fallback \in Nat /\ Fallback > 4
  BY SearchAssumption DEF Searches!WellFormed
<1> QED
  BY <1>1, <1>2, <1>3, <1>4 DEF Searches!BudgetFor

Weight(found) == [i \in 1 .. Len(found) |-> Searches!EstimateTokens(found[i].bytes)]

LEMMA WeightIs ==
    ASSUME NEW found \in Seq(Excerpt)
    PROVE  /\ Len(found) \in Nat /\ DOMAIN found = 1 .. Len(found)
           /\ \A i \in 1 .. Len(found) :
                Weight(found)[i] \in Nat /\ Weight(found)[i] = Searches!EstimateTokens(found[i].bytes)
<1>1. Len(found) \in Nat /\ DOMAIN found = 1 .. Len(found)
  OBVIOUS
<1>2. ASSUME NEW i \in 1 .. Len(found)
      PROVE  Weight(found)[i] \in Nat /\ Weight(found)[i] = Searches!EstimateTokens(found[i].bytes)
  <2>0. PICK e \in Excerpt : e = found[i]
    OBVIOUS
  <2>1. PICK b \in Nat : b = found[i].bytes
    BY <2>0 DEF Excerpt
  <2>2. Searches!EstimateTokens(b) \in Nat
    BY DEF Searches!EstimateTokens
  <2> QED
    BY <2>1, <2>2 DEF Weight
<1> QED
  BY <1>1, <1>2

LEMMA TokensAre ==
    ASSUME NEW found \in Seq(Excerpt)
    PROVE  Searches!Tokens(found) = Sum(Weight(found), 1 .. Len(found))
<1> DEFINE F == Weight(found)
           S == 1 .. Len(found)
           Adds(h) == h = [s \in SUBSET S |-> IF s = {} THEN 0
                             ELSE LET x == CHOOSE x \in s : TRUE
                                  IN  Searches!EstimateTokens(found[x].bytes) + h[s \ {x}]]
           h == CHOOSE h : Adds(h)
<1>0. /\ IsFiniteSet(S) /\ DOMAIN found = S
      /\ \A n \in S : F[n] = Searches!EstimateTokens(found[n].bytes)
  <2>1. Len(found) \in Int
    BY WeightIs
  <2> QED
    BY <2>1, FS_Interval, WeightIs
<1>4. Searches!Tokens(found) = h[S]
  BY <1>0 DEF Searches!Tokens, Searches!MapThenSumSet, Searches!MapThenFoldSet
<1> HIDE DEF S, F
<1>1. ASSUME NEW g PROVE Adds(g) <=> Sums(F, S, g)
  <2>1. ASSUME NEW s \in SUBSET S, s # {}
        PROVE  LET x == CHOOSE x \in s : TRUE
               IN  F[x] = Searches!EstimateTokens(found[x].bytes)
    <3>1. (CHOOSE x \in s : TRUE) \in S
      BY <2>1
    <3> QED
      BY <1>0, <3>1
  <2>2. [s \in SUBSET S |-> IF s = {} THEN 0
           ELSE LET x == CHOOSE x \in s : TRUE
                IN  Searches!EstimateTokens(found[x].bytes) + g[s \ {x}]]
      = [s \in SUBSET S |-> IF s = {} THEN 0
           ELSE LET x == CHOOSE x \in s : TRUE
                IN  F[x] + g[s \ {x}]]
    BY <2>1
  <2> QED
    BY <2>2 DEF Sums
<1>2. \E g : Adds(g)
  <2> HIDE DEF Adds
  <2> QED
    BY <1>0, <1>1, SumsExist
<1>3. Adds(h)
  <2> HIDE DEF Adds
  <2> QED
    BY <1>2
<1>5. Sums(F, S, h)
  <2> HIDE DEF Adds, h
  <2> QED
    BY <1>1, <1>3
<1> HIDE DEF h, Adds
<1> QED
  BY <1>0, <1>4, <1>5, SumOf DEF F, S

LEMMA TokensTyped ==
    ASSUME NEW found \in Seq(Excerpt)
    PROVE  /\ Searches!Tokens(found) \in Nat
           /\ Len(found) = 0 => Searches!Tokens(found) = 0
           /\ Len(found) = 1 => Searches!Tokens(found) = Searches!EstimateTokens(found[1].bytes)
<1>0. PICK F : F = Weight(found)
  OBVIOUS
<1>1. PICK N \in Nat : N = Len(found) /\ \A i \in 1 .. N :
        F[i] \in Nat /\ F[i] = Searches!EstimateTokens(found[i].bytes)
  BY <1>0, WeightIs
<1>2. IsFiniteSet(1 .. N)
  BY FS_Interval
<1>3. Sum(F, 1 .. N) \in Nat
  BY <1>1, <1>2, SumNat
<1>4. Searches!Tokens(found) = Sum(F, 1 .. N)
  BY <1>0, <1>1, TokensAre
<1>5. ASSUME N = 0 PROVE Sum(F, 1 .. N) = 0
  <2>1. 1 .. N = {}
    BY <1>5
  <2> QED
    BY <1>2, <2>1, SumEmpty
<1>6. ASSUME N = 1 PROVE Sum(F, 1 .. N) = F[1]
  <2>1. 1 .. N = {1} /\ {1} \ {1} = {} /\ F[1] \in Nat
    BY <1>1, <1>6
  <2>2. IsFiniteSet({1})
    BY <1>2, <2>1
  <2>3. \A x \in {1} : F[x] \in Int
    BY <2>1
  <2>4. Sum(F, {1}) = F[1] + Sum(F, {1} \ {1})
    BY <2>2, <2>3, SumTake
  <2>5. Sum(F, {1} \ {1}) = 0
    BY <2>1, <2>2, SumEmpty
  <2> QED
    <3>1. Sum(F, {1}) = F[1]
      BY <2>1, <2>4, <2>5
    <3> QED
      BY <2>1, <3>1
<1>7. N = 1 => F[1] = Searches!EstimateTokens(found[1].bytes)
  BY <1>1
<1> QED
  BY <1>1, <1>3, <1>4, <1>5, <1>6, <1>7

\* A shortened text is at most a token over.
LEMMA Shortened ==
    ASSUME NEW b \in Nat, NEW budget \in Nat, budget > 4, NEW c,
           c = Searches!TruncateToTokens(b, budget)
    PROVE  c \in Nat /\ Searches!EstimateTokens(c) <= budget + 1
<1>1. c \in Nat /\ c <= 4 * budget
  BY DEF Searches!TruncateToTokens
<1>2. c \div 4 <= budget
  BY <1>1
<1> QED
  BY <1>1, <1>2 DEF Searches!EstimateTokens

\* What of the found is told.
Fitted(told, found, budget) ==
    /\ told \in Seq(Excerpt) /\ Len(told) <= Len(found)
    /\ \A i \in 1 .. Len(told) : told[i].of = found[i].of
    /\ Searches!Tokens(told) <= budget + 1
    /\ Len(told) > 1 => Searches!Tokens(told) <= budget

LEMMA BudgetKept ==
    ASSUME NEW found \in Seq(Excerpt), NEW budget \in Nat, budget > 4, NEW told,
           told = Searches!WithinBudget(found, budget)
    PROVE  Fitted(told, found, budget)
<1> DEFINE I == { i \in 0 .. Len(found) : Searches!Tokens(SubSeq(found, 1, i)) <= budget }
<1>0. PICK N \in Nat : N = Len(found)
  OBVIOUS
<1>1. 0 \in I
  <2>1. SubSeq(found, 1, 0) \in Seq(Excerpt) /\ Len(SubSeq(found, 1, 0)) = 0
    OBVIOUS
  <2>2. Searches!Tokens(SubSeq(found, 1, 0)) = 0
    BY <2>1, TokensTyped
  <2> QED
    BY <1>0, <2>2
<1>2. PICK n \in I : n = Searches!Max(I)
  <2> DEFINE J == { x \in Nat : \E i \in I : x = N - i }
  <2>1. \A i \in I : i \in 0 .. N
    BY <1>0
  <2> HIDE DEF I
  <2>2. J \in SUBSET Nat /\ J # {}
    <3>1. N \in J
      BY <1>1
    <3> QED
      BY <3>1
  <2>3. PICK x \in J : \A y \in J : x <= y
    <3> HIDE DEF J
    <3> QED
      BY <2>2, LeastOf
  <2>4. PICK i \in I : x = N - i
    OBVIOUS
  <2>5. ASSUME NEW k \in I PROVE k <= i
    <3>1. N - k \in Nat /\ k \in 0 .. N /\ i \in 0 .. N
      BY <2>1
    <3>2. N - k \in J
      BY <3>1
    <3>3. x <= N - k
      BY <2>3, <3>2
    <3> QED
      BY <2>4, <3>1, <3>3
  <2>6. \E m \in I : \A k \in I : m >= k
    <3>1. \A k \in I : i >= k
      BY <2>1, <2>5
    <3> QED
      BY <3>1
  <2>7. Searches!Max(I) \in I
    BY <2>6 DEF Searches!Max
  <2> QED
    BY <2>7
<1>3. n \in 0 .. N /\ Searches!Tokens(SubSeq(found, 1, n)) <= budget
  BY <1>0, <1>2
<1>4. told = IF found = <<>> \/ n > 0 THEN SubSeq(found, 1, n)
             ELSE <<[found[1] EXCEPT !.bytes = Searches!TruncateToTokens(@, budget)]>>
  BY <1>2 DEF Searches!WithinBudget
<1> HIDE DEF I
<1>5. CASE found = <<>> \/ n > 0
  <2>1. told = SubSeq(found, 1, n)
    BY <1>4, <1>5
  <2>2. told \in Seq(Excerpt)
    <3>1. n \in Nat /\ n <= Len(found)
      BY <1>0, <1>3
    <3>2. SubSeq(found, 1, n) \in Seq(Excerpt)
      BY <3>1
    <3> QED
      BY <2>1, <3>2
  <2>3. Len(told) = n /\ \A i \in 1 .. n : told[i] = found[i]
    BY <1>0, <1>3, <2>1
  <2>4. Searches!Tokens(told) \in Nat /\ Searches!Tokens(told) <= budget
    BY <1>3, <2>1, <2>2, TokensTyped
  <2> QED
    BY <1>0, <1>3, <2>2, <2>3, <2>4 DEF Fitted
<1>6. CASE ~ (found = <<>> \/ n > 0)
  <2>1. PICK e \in Excerpt : e = found[1]
    BY <1>6
  <2>2. PICK c : c = Searches!TruncateToTokens(e.bytes, budget)
    OBVIOUS
  <2>3. PICK d : d = [e EXCEPT !.bytes = c]
    OBVIOUS
  <2>4. told = <<d>>
    BY <1>4, <1>6, <2>1, <2>2, <2>3
  <2>5. c \in Nat /\ Searches!EstimateTokens(c) <= budget + 1
    <3>1. PICK b \in Nat : b = e.bytes
      BY DEF Excerpt
    <3> QED
      BY <2>2, <3>1, Shortened
  <2>6. d \in Excerpt /\ d.of = e.of /\ d.bytes = c
    BY <2>3, <2>5 DEF Excerpt
  <2>7. told \in Seq(Excerpt) /\ Len(told) = 1 /\ told[1] = d
    BY <2>4, <2>6
  <2>8. Searches!Tokens(told) = Searches!EstimateTokens(told[1].bytes)
    BY <2>7, TokensTyped
  <2>9. Len(found) >= 1
    BY <1>6
  <2> QED
    BY <2>1, <2>5, <2>6, <2>7, <2>8, <2>9 DEF Fitted
<1> QED
  BY <1>5, <1>6

-----------------------------------------------------------------------------
(* Search: what is told.                                                   *)

\* The texts read of the best.
Read(ranks) ==
    LET best == Searches!Select(Searches!First(TopK, Searches!Fuse(ranks)),
                                { m \in Said : text[m] = "stored" })
    IN [i \in DOMAIN best |->
          [of |-> best[i], agent |-> agent[Talk[best[i]]], bytes |-> TextLength[best[i]]]]

Ordered(found, ranks) ==
    /\ found \in Seq(Excerpt)
    /\ \A i \in 1 .. Len(found) : found[i].of \in Listed(ranks)
    /\ \A i, j \in 1 .. Len(found) : i < j =>
          /\ Searches!Score(found[i].of, ranks) >= Searches!Score(found[j].of, ranks)
          /\ found[i].of # found[j].of

LEMMA ReadInOrder ==
    ASSUME IndexInv, NEW ranks \in Rankings, Shallow(ranks)
    PROVE  Ordered(Read(ranks), ranks)
<1> DEFINE T == { m \in Said : text[m] = "stored" }
<1>1. PICK r \in Seq(Said) : r = Searches!Fuse(ranks) /\ Ranking(r, ranks)
  BY FusedInOrder DEF Ranking
<1>2. TopK \in Nat
  BY SearchAssumption DEF Searches!WellFormed
<1>3. PICK f \in Seq(Said) : /\ f = Searches!First(TopK, r) /\ Len(f) <= Len(r)
                             /\ \A i \in 1 .. Len(f) : f[i] = r[i]
  BY <1>2, FirstOf
<1>4. PICK best : best = Select(f, T)
  OBVIOUS
<1>5. best \in Seq(Said) /\ Drawn(best, f, Len(f), T)
  BY <1>4, SelectType, SelectDrawn
<1>6. \A k \in 1 .. Len(f) : k \in 1 .. Len(r) /\ f[k] = r[k]
  <2>1. Len(f) \in Nat /\ Len(r) \in Nat
    OBVIOUS
  <2> QED
    BY <1>3, <2>1
<1>7. ASSUME NEW i \in 1 .. Len(best) PROVE best[i] \in Listed(ranks)
  <2>1. PICK k \in 1 .. Len(f) : best[i] = f[k]
    BY <1>5 DEF Drawn
  <2> QED
    BY <1>1, <1>6, <2>1 DEF Ranking
<1>8. ASSUME NEW i \in 1 .. Len(best), NEW j \in 1 .. Len(best), i < j
      PROVE  /\ Searches!Score(best[i], ranks) >= Searches!Score(best[j], ranks)
             /\ best[i] # best[j]
  <2>1. PICK k \in 1 .. Len(f), l \in 1 .. Len(f) : k < l /\ best[i] = f[k] /\ best[j] = f[l]
    BY <1>5, <1>8 DEF Drawn
  <2> QED
    BY <1>1, <1>6, <2>1 DEF Ranking
<1>9. PICK found : found = Read(ranks)
  OBVIOUS
<1>10. found = [i \in DOMAIN best |->
          [of |-> best[i], agent |-> agent[Talk[best[i]]], bytes |-> TextLength[best[i]]]]
  BY <1>1, <1>3, <1>4, <1>9, SelectsSame DEF Read
<1>11. DOMAIN best = 1 .. Len(best) /\ Len(best) \in Nat
  BY <1>5
<1>12. ASSUME NEW i \in 1 .. Len(best) PROVE found[i] \in Excerpt /\ found[i].of = best[i]
  <2>1. PICK m \in Said : m = best[i]
    BY <1>5
  <2>2. TextLength[m] \in Nat /\ Talk[m] \in Talks
    BY SearchAssumption DEF Searches!WellFormed
  <2>3. agent[Talk[m]] \in AgentNames
    BY <2>2 DEF IndexInv, AgentNames
  <2>4. found[i] = [of |-> m, agent |-> agent[Talk[m]], bytes |-> TextLength[m]]
    BY <1>10, <1>11, <2>1
  <2> QED
    BY <2>1, <2>2, <2>3, <2>4 DEF Excerpt
<1>13. found \in Seq(Excerpt) /\ Len(found) = Len(best)
  <2>1. found \in [1 .. Len(best) -> Excerpt]
    BY <1>10, <1>11, <1>12
  <2> QED
    BY <1>11, <2>1
<1> QED
  BY <1>7, <1>8, <1>9, <1>12, <1>13 DEF Ordered

LEMMA ToldWeighed ==
    ASSUME NEW ranks \in Rankings, Shallow(ranks), NEW found, Ordered(found, ranks),
           NEW told, NEW budget, Fitted(told, found, budget)
    PROVE  /\ WeighedIn(told, ranks, budget)
           /\ \A i \in 1 .. Len(told) : told[i].of \in Listed(ranks)
<1>1. \A i \in 1 .. Len(told) : i \in 1 .. Len(found) /\ told[i].of = found[i].of
  <2>1. found \in Seq(Excerpt) /\ told \in Seq(Excerpt)
    BY DEF Ordered, Fitted
  <2>2. Len(found) \in Nat /\ Len(told) \in Nat
    BY <2>1
  <2> QED
    BY <2>2 DEF Fitted
<1>2. \A i \in 1 .. Len(told) : told[i].of \in Listed(ranks)
  BY <1>1 DEF Ordered
<1>3. ASSUME NEW i \in 1 .. Len(told), NEW j \in 1 .. Len(told), i < j
      PROVE  /\ told[i].of # told[j].of
             /\ Cardinality(Likes(told[i].of, ranks)) = 1 =>
                   Cardinality(Likes(told[j].of, ranks)) = 1
  <2>1. PICK m, n : /\ m = told[i].of /\ n = told[j].of /\ m # n
                    /\ Searches!Score(m, ranks) >= Searches!Score(n, ranks)
    BY <1>1, <1>3 DEF Ordered
  <2>2. Likes(n, ranks) # {}
    BY <1>2, <2>1, ListedIs
  <2>3. ASSUME Cardinality(Likes(m, ranks)) = 1, Cardinality(Likes(n, ranks)) # 1 PROVE FALSE
    <3>1. Searches!Score(n, ranks) > Searches!Score(m, ranks)
      BY <2>2, <2>3, TwoOutvote
    <3>2. Searches!Score(n, ranks) \in Nat /\ Searches!Score(m, ranks) \in Nat
      BY ScoreTyped
    <3> QED
      BY <2>1, <3>1, <3>2
  <2> QED
    BY <2>1, <2>3
<1> QED
  BY <1>2, <1>3 DEF WeighedIn, Fitted

-----------------------------------------------------------------------------
(* Search: the conversations and the index.                                *)

\* What was said stays said, to whom it was.
Remembers ==
    \A m \in Said : text[m] # "none" => text'[m] # "none" /\ saidTo'[m] = saidTo[m]

LEMMA TableTypes ==
    /\ \A m \in Said : Talk[m] \in Talks /\ m \in Nat \ {0}
    /\ \A t \in Talks : Profile[t] # Searches!Closed /\ Profile[t] # Searches!NoVector
    /\ NoAgent # Searches!Closed /\ NoAgent # Searches!NoVector
BY SearchAssumption DEF Searches!WellFormed

LEMMA CreateStep ==
    ASSUME IndexInv, NEW t \in Talks, Searches!CreateSession(t)
    PROVE  IndexInv' /\ Remembers
<1>1. /\ agent[t] = Searches!Closed /\ agent' = [agent EXCEPT ![t] = Profile[t]]
      /\ text' = text /\ saidTo' = saidTo /\ claimed' = claimed /\ vector' = vector
  BY DEF Searches!CreateSession
<1>2. /\ agent' = [u \in Talks |-> agent'[u]]
      /\ \A u \in Talks : agent'[u] = IF u = t THEN Profile[t] ELSE agent[u]
  BY <1>1 DEF IndexInv
<1>3. \A m \in Said : text[m] # "none" => Talk[m] # t
  BY <1>1 DEF IndexInv
<1>4. \A m \in Said : text'[m] # "none" =>
          /\ agent'[Talk[m]] # Searches!Closed
          /\ agent'[Talk[m]] # NoAgent => saidTo'[m] = agent'[Talk[m]]
  BY <1>1, <1>2, <1>3, TableTypes DEF IndexInv
<1> QED
  BY <1>1, <1>2, <1>4 DEF IndexInv, Remembers

LEMMA AppendStep ==
    ASSUME IndexInv, NEW m \in Said, Searches!AppendMessage(m)
    PROVE  IndexInv' /\ Remembers
<1>1. /\ agent[Talk[m]] # Searches!Closed /\ text[m] = "none"
      /\ text' = [text EXCEPT ![m] = "stored"]
      /\ saidTo' = [saidTo EXCEPT ![m] = agent[Talk[m]]]
      /\ agent' = agent /\ claimed' = claimed /\ vector' = vector
  BY DEF Searches!AppendMessage
<1>2. /\ text' \in [Said -> {"none", "stored", "gone"}] /\ saidTo' = [n \in Said |-> saidTo'[n]]
      /\ \A n \in Said : text'[n] = IF n = m THEN "stored" ELSE text[n]
      /\ \A n \in Said : saidTo'[n] = IF n = m THEN agent[Talk[m]] ELSE saidTo[n]
  BY <1>1 DEF IndexInv
<1>3. Remembers
  BY <1>1, <1>2 DEF Remembers
<1>4. \A n \in Said : text'[n] # "none" =>
          /\ agent'[Talk[n]] # Searches!Closed
          /\ agent'[Talk[n]] # NoAgent => saidTo'[n] = agent'[Talk[n]]
  BY <1>1, <1>2 DEF IndexInv
<1>5. \A n \in Said : vector'[n] # Searches!NoVector =>
          text'[n] # "none" /\ (vector'[n] # NoAgent => saidTo'[n] = vector'[n])
  BY <1>1, <1>3 DEF IndexInv, Remembers
<1>6. claimed' # Searches!NoClaim =>
          /\ claimed'.of \in Said /\ text'[claimed'.of] # "none"
          /\ claimed'.agent # NoAgent => saidTo'[claimed'.of] = claimed'.agent
  BY <1>1, <1>3 DEF IndexInv, Remembers
<1> QED
  BY <1>1, <1>2, <1>3, <1>4, <1>5, <1>6 DEF IndexInv

LEMMA ClaimStep ==
    ASSUME IndexInv, NEW m \in Said, Searches!Claim(m)
    PROVE  IndexInv' /\ Remembers
<1>1. /\ text[m] = "stored" /\ claimed' = [of |-> m, agent |-> agent[Talk[m]]]
      /\ agent' = agent /\ text' = text /\ saidTo' = saidTo /\ vector' = vector
  BY DEF Searches!Claim
<1>2. /\ claimed'.of \in Said /\ text'[claimed'.of] # "none"
      /\ claimed'.agent # NoAgent => saidTo'[claimed'.of] = claimed'.agent
  BY <1>1 DEF IndexInv
<1> QED
  BY <1>1, <1>2 DEF IndexInv, Remembers

LEMMA IndexStep ==
    ASSUME IndexInv, Searches!Index
    PROVE  IndexInv' /\ Remembers
<1>1. /\ claimed # Searches!NoClaim /\ claimed' = Searches!NoClaim
      /\ vector' = IF text[claimed.of] = "stored"
                   THEN [vector EXCEPT ![claimed.of] = claimed.agent] ELSE vector
      /\ agent' = agent /\ text' = text /\ saidTo' = saidTo
  BY DEF Searches!Index
<1>2. PICK m \in Said : /\ m = claimed.of /\ text[m] # "none"
                        /\ claimed.agent # NoAgent => saidTo[m] = claimed.agent
  BY <1>1 DEF IndexInv
<1>3. /\ vector' = [n \in Said |-> vector'[n]]
      /\ \A n \in Said : vector'[n] = IF text[m] = "stored" /\ n = m THEN claimed.agent
                                             ELSE vector[n]
  BY <1>1, <1>2 DEF IndexInv
<1>4. \A n \in Said : vector'[n] # Searches!NoVector =>
          text'[n] # "none" /\ (vector'[n] # NoAgent => saidTo'[n] = vector'[n])
  BY <1>1, <1>2, <1>3 DEF IndexInv
<1> QED
  BY <1>1, <1>3, <1>4 DEF IndexInv, Remembers

LEMMA DeleteStep ==
    ASSUME IndexInv, NEW m \in Said, Searches!DeleteMessage(m)
    PROVE  IndexInv' /\ Remembers
<1>1. /\ text[m] = "stored" /\ text' = [text EXCEPT ![m] = "gone"]
      /\ vector' = [vector EXCEPT ![m] = Searches!NoVector]
      /\ agent' = agent /\ saidTo' = saidTo /\ claimed' = claimed
  BY DEF Searches!DeleteMessage
<1>2. /\ text' \in [Said -> {"none", "stored", "gone"}] /\ vector' = [n \in Said |-> vector'[n]]
      /\ \A n \in Said : text'[n] = IF n = m THEN "gone" ELSE text[n]
      /\ \A n \in Said : vector'[n] = IF n = m THEN Searches!NoVector ELSE vector[n]
  BY <1>1 DEF IndexInv
<1>3. \A n \in Said : text'[n] # "none" <=> text[n] # "none"
  BY <1>1, <1>2
<1>4. \A n \in Said : text'[n] # "none" =>
          /\ agent'[Talk[n]] # Searches!Closed
          /\ agent'[Talk[n]] # NoAgent => saidTo'[n] = agent'[Talk[n]]
  BY <1>1, <1>3 DEF IndexInv
<1>5. \A n \in Said : vector'[n] # Searches!NoVector =>
          text'[n] # "none" /\ (vector'[n] # NoAgent => saidTo'[n] = vector'[n])
  BY <1>1, <1>2, <1>3 DEF IndexInv
<1>6. claimed' # Searches!NoClaim =>
          /\ claimed'.of \in Said /\ text'[claimed'.of] # "none"
          /\ claimed'.agent # NoAgent => saidTo'[claimed'.of] = claimed'.agent
  BY <1>1, <1>3 DEF IndexInv
<1> QED
  BY <1>1, <1>2, <1>3, <1>4, <1>5, <1>6 DEF IndexInv, Remembers

LEMMA DetachStep ==
    ASSUME IndexInv, NEW t \in Talks, Searches!DetachSessions(Profile[t])
    PROVE  IndexInv' /\ Remembers
<1>1. /\ agent' = [u \in Talks |-> IF agent[u] = Profile[t] THEN NoAgent ELSE agent[u]]
      /\ text' = text /\ saidTo' = saidTo /\ claimed' = claimed /\ vector' = vector
  BY DEF Searches!DetachSessions
<1>2. /\ agent' = [u \in Talks |-> agent'[u]]
      /\ \A u \in Talks : agent'[u] = NoAgent \/ agent'[u] = agent[u]
  BY <1>1
<1>3. \A u \in Talks : agent'[u] \in {Searches!Closed, NoAgent, Profile[u]}
  BY <1>2 DEF IndexInv
<1>4. \A m \in Said : text'[m] # "none" =>
          /\ agent'[Talk[m]] # Searches!Closed
          /\ agent'[Talk[m]] # NoAgent => saidTo'[m] = agent'[Talk[m]]
  <2> SUFFICES ASSUME NEW m \in Said, text[m] # "none"
               PROVE  /\ agent'[Talk[m]] # Searches!Closed
                      /\ agent'[Talk[m]] # NoAgent => saidTo[m] = agent'[Talk[m]]
    BY <1>1
  <2>1. PICK u \in Talks : u = Talk[m]
    BY TableTypes
  <2>2. agent[u] # Searches!Closed /\ (agent[u] # NoAgent => saidTo[m] = agent[u])
    BY <2>1 DEF IndexInv
  <2> QED
    BY <1>2, <2>1, <2>2, TableTypes
<1> QED
  BY <1>1, <1>2, <1>3, <1>4 DEF IndexInv, Remembers

\* The tables stay as the mirror needs them, and a retrieval leaves them be.
LEMMA TablesStep ==
    ASSUME IndexInv, Searches!Next \/ UNCHANGED searchVars
    PROVE  IndexInv' /\ Remembers
<1>1. ASSUME UNCHANGED <<agent, text, saidTo, claimed, vector>> PROVE IndexInv' /\ Remembers
  BY <1>1 DEF IndexInv, Remembers
<1>2. ASSUME NEW t \in Talks, NEW q \in Asked, Searches!Recall(t, q) PROVE IndexInv' /\ Remembers
  BY <1>1, <1>2 DEF Searches!Recall, Searches!tables
<1>3. CASE Searches!Semantic \/ Searches!Lexical \/ Searches!Recent
  <2>1. ASSUME NEW at, NEW list, NEW next, Searches!Rankers(at, list, next)
        PROVE  IndexInv' /\ Remembers
    BY <1>1, <2>1 DEF Searches!Rankers, Searches!tables
  <2> QED
    BY <1>3, <2>1 DEF Searches!Semantic, Searches!Lexical, Searches!Recent
<1>4. CASE Searches!Hydrate
  BY <1>1, <1>4 DEF Searches!Hydrate, Searches!tables
<1>5. CASE Searches!Render
  BY <1>1, <1>5 DEF Searches!Render, Searches!tables
<1>6. CASE Searches!SetEnabled
  BY <1>1, <1>6 DEF Searches!SetEnabled
<1>7. CASE UNCHANGED searchVars
  BY <1>1, <1>7 DEF searchVars
<1> QED
  BY <1>2, <1>3, <1>4, <1>5, <1>6, <1>7, CreateStep, AppendStep, ClaimStep, IndexStep,
     DeleteStep, DetachStep DEF Searches!Next

-----------------------------------------------------------------------------
(* Search: a retrieval.                                                    *)

LEMMA VisibleStays ==
    ASSUME Remembers, search'.talk = search.talk, search'.agent = search.agent,
           NEW m \in Said, Visible(m)
    PROVE  Visible(m)'
BY DEF Remembers, Visible

LEMMA QuietStep ==
    ASSUME SearchInv, Remembers, search' = search
    PROVE  SearchTypes' /\ ListsInv' /\ HitsInv'
<1>1. SearchTypes'
  BY DEF SearchInv, SearchTypes
<1>2. \A m \in Said : Visible(m) => Visible(m)'
  BY VisibleStays
<1>3. PICK ranks \in Rankings : ranks = search.lists /\ ranks = search'.lists
  BY DEF SearchInv, ListsInv, Rankings
<1>4. ASSUME NEW i \in 1 .. Len(ranks)
      PROVE  Len(ranks[i]) <= Depth /\ \A k \in 1 .. Len(ranks[i]) : Visible(ranks[i][k])'
  <2>1. PICK list \in Seq(Said) : list = ranks[i]
    BY DEF Rankings
  <2>2. Len(list) <= Depth /\ \A k \in 1 .. Len(list) : Visible(list[k])
    BY <1>3, <2>1 DEF SearchInv, ListsInv
  <2>3. \A k \in 1 .. Len(list) : list[k] \in Said
    OBVIOUS
  <2> QED
    BY <1>2, <2>1, <2>2, <2>3
<1>5. ListsInv'
  BY <1>3, <1>4 DEF ListsInv, Rankings
<1>6. PICK found \in Seq(Excerpt) : found = search.hits /\ found = search'.hits
  BY DEF SearchInv, HitsInv
<1>7. ASSUME NEW i \in 1 .. Len(found) PROVE Visible(found[i].of)'
  <2>1. PICK e \in Excerpt : e = found[i]
    OBVIOUS
  <2>2. e.of \in Said
    BY DEF Excerpt
  <2>3. Visible(e.of)
    BY <1>6, <2>1 DEF SearchInv, HitsInv
  <2> QED
    BY <1>2, <2>1, <2>2, <2>3
<1>8. WeighedIn(found, search'.lists, Searches!BudgetFor(Window[search'.talk]))
  BY <1>6 DEF SearchInv, HitsInv
<1>9. HitsInv'
  BY <1>6, <1>7, <1>8 DEF HitsInv
<1> QED
  BY <1>1, <1>5, <1>9

LEMMA NothingFound ==
    ASSUME search'.hits = <<>>, search'.talk \in Talks
    PROVE  HitsInv'
<1>1. PICK found : found = <<>>
  OBVIOUS
<1>2. found \in Seq(Excerpt) /\ Len(found) = 0 /\ DOMAIN found = {} /\ 1 .. 0 = {}
  BY <1>1
<1>3. Searches!Tokens(found) = 0
  BY <1>2, TokensTyped
<1>4. PICK t \in Talks : t = search'.talk
  OBVIOUS
<1>5. PICK b \in Nat : b = Searches!BudgetFor(Window[t])
  BY BudgetIs
<1>6. found = search'.hits
  BY <1>1
<1>7. \A ranks : WeighedIn(found, ranks, b)
  BY <1>2, <1>3 DEF WeighedIn
<1> QED
  BY <1>2, <1>4, <1>5, <1>6, <1>7 DEF HitsInv

LEMMA IdleIs ==
    /\ Searches!Idle.at = "idle" /\ Searches!Idle.talk \in Talks
    /\ Searches!Idle.lists = <<>> /\ Searches!Idle.hits = <<>> /\ Searches!Idle.agent = NoAgent
    /\ Searches!Idle = [at |-> Searches!Idle.at, talk |-> Searches!Idle.talk,
                        agent |-> Searches!Idle.agent, asked |-> Searches!Idle.asked,
                        lists |-> Searches!Idle.lists, hits |-> Searches!Idle.hits]
BY SearchAssumption DEF Searches!WellFormed, Searches!Idle

LEMMA NothingListed == ASSUME search'.lists = <<>> PROVE ListsInv'
<1>1. PICK ranks : ranks = <<>>
  OBVIOUS
<1>2. ranks \in Seq(Seq(Said)) /\ Len(ranks) = 0 /\ 1 .. 0 = {}
  BY <1>1
<1> QED
  BY <1>1, <1>2 DEF ListsInv

LEMMA RecallStep ==
    ASSUME SearchInv, NEW t \in Talks, NEW q \in Asked, Searches!Recall(t, q)
    PROVE  SearchTypes' /\ ListsInv' /\ HitsInv'
<1>1. search' = [Searches!Idle EXCEPT !.at = "semantic", !.talk = t, !.agent = agent[t], !.asked = q]
  BY DEF Searches!Recall
<1>2. search' = [at |-> "semantic", talk |-> t, agent |-> agent[t], asked |-> q,
                 lists |-> <<>>, hits |-> <<>>]
  BY <1>1 DEF Searches!Idle
<1>3. SearchTypes'
  BY <1>2 DEF SearchTypes
<1>4. ListsInv'
  BY <1>2, NothingListed
<1>5. HitsInv'
  BY <1>2, NothingFound
<1> QED
  BY <1>3, <1>4, <1>5

LEMMA RenderStep ==
    ASSUME SearchInv, Searches!Render
    PROVE  SearchTypes' /\ ListsInv' /\ HitsInv'
<1>1. search' = Searches!Idle
  BY DEF Searches!Render
<1>2. SearchTypes'
  BY <1>1, IdleIs DEF SearchTypes
<1>3. ListsInv'
  BY <1>1, IdleIs, NothingListed
<1>4. HitsInv'
  BY <1>1, IdleIs, NothingFound
<1> QED
  BY <1>2, <1>3, <1>4

LEMMA ScannedVisible ==
    ASSUME SearchInv, NEW m \in Searches!Scanned
    PROVE  m \in Said /\ Visible(m)
<1>1. /\ m \in Said /\ vector[m] # Searches!NoVector
      /\ Owner[Talk[m]] = Owner[search.talk] /\ Talk[m] # search.talk
      /\ search.agent # NoAgent => vector[m] = search.agent
  BY DEF Searches!Scanned, Searches!InScope
<1>2. text[m] # "none" /\ (vector[m] # NoAgent => saidTo[m] = vector[m])
  BY <1>1 DEF SearchInv, IndexInv
<1> QED
  BY <1>1, <1>2 DEF Visible

LEMMA RankerStep ==
    ASSUME SearchInv, NEW at \in {"semantic", "lexical", "recent"}, NEW list,
           NEW next \in {"lexical", "recent", "hydrate"}, Searches!Rankers(at, list, next),
           list \in Seq(Said), Len(list) <= Depth,
           \A i \in 1 .. Len(list) : list[i] \in Searches!Scanned
    PROVE  SearchTypes' /\ ListsInv' /\ HitsInv'
<1>1. PICK found \in {<<>>, list} :
        /\ search.at = at
        /\ search' = [search EXCEPT !.at = next,
                       !.lists = IF found = <<>> THEN @ ELSE Append(@, found)]
        /\ UNCHANGED <<agent, text, saidTo, claimed, vector>>
  BY DEF Searches!Rankers, Searches!tables
<1>2. PICK ranks \in Rankings : ranks = search.lists
  BY DEF SearchInv, ListsInv, Rankings
<1>3. PICK more : more = IF found = <<>> THEN ranks ELSE Append(ranks, found)
  OBVIOUS
<1>4. /\ search'.at = next /\ search'.lists = more /\ search'.hits = search.hits
      /\ search'.talk = search.talk /\ search'.agent = search.agent /\ search'.asked = search.asked
      /\ search' = [at |-> search'.at, talk |-> search'.talk, agent |-> search'.agent,
                    asked |-> search'.asked, lists |-> search'.lists, hits |-> search'.hits]
  BY <1>1, <1>2, <1>3 DEF SearchInv, SearchTypes
<1>5. search.hits = <<>> /\ search.talk \in Talks /\ search.asked \in Asked
  BY <1>1 DEF SearchInv, SearchTypes
<1>6. SearchTypes'
  BY <1>4, <1>5 DEF SearchTypes
<1>7. HitsInv'
  BY <1>4, <1>5, NothingFound
<1>8. Remembers
  BY <1>1 DEF Remembers
<1>9. \A m \in Said : Visible(m) => Visible(m)'
  BY <1>4, <1>8, VisibleStays
<1>10. ASSUME NEW one \in Seq(Said), \A k \in 1 .. Len(one) : Visible(one[k])
       PROVE  \A k \in 1 .. Len(one) : Visible(one[k])'
  <2>1. \A k \in 1 .. Len(one) : one[k] \in Said
    OBVIOUS
  <2> QED
    BY <1>9, <1>10, <2>1
<1>11. \A i \in 1 .. Len(ranks) : /\ ranks[i] \in Seq(Said) /\ Len(ranks[i]) <= Depth
                                  /\ \A k \in 1 .. Len(ranks[i]) : Visible(ranks[i][k])'
  <2> SUFFICES ASSUME NEW i \in 1 .. Len(ranks)
               PROVE  /\ ranks[i] \in Seq(Said) /\ Len(ranks[i]) <= Depth
                      /\ \A k \in 1 .. Len(ranks[i]) : Visible(ranks[i][k])'
    OBVIOUS
  <2>1. PICK one \in Seq(Said) : one = ranks[i]
    BY DEF Rankings
  <2>2. Len(one) <= Depth /\ \A k \in 1 .. Len(one) : Visible(one[k])
    BY <1>2, <2>1 DEF SearchInv, ListsInv
  <2> QED
    BY <1>10, <2>1, <2>2
<1>12. found = <<>> \/ (found = list /\ found \in Seq(Said) /\ Len(found) <= Depth)
  OBVIOUS
<1>13. found = list => \A k \in 1 .. Len(found) : Visible(found[k])'
  <2>1. \A k \in 1 .. Len(list) : Visible(list[k])
    BY ScannedVisible
  <2> QED
    BY <1>10, <2>1
<1>14. /\ more \in Rankings
       /\ \A i \in 1 .. Len(more) : /\ Len(more[i]) <= Depth
                                    /\ \A k \in 1 .. Len(more[i]) : Visible(more[i][k])'
  <2>1. CASE found = <<>>
    BY <1>3, <1>11, <2>1
  <2>2. CASE found # <<>>
    <3>1. more = Append(ranks, found) /\ found \in Seq(Said)
      BY <1>3, <1>12, <2>2
    <3>2. more \in Rankings
      BY <3>1 DEF Rankings
    <3>3. /\ Len(ranks) \in Nat /\ Len(more) = Len(ranks) + 1 /\ more[Len(ranks) + 1] = found
          /\ \A i \in 1 .. Len(ranks) : more[i] = ranks[i]
      BY <3>1 DEF Rankings
    <3>4. \A i \in 1 .. Len(more) : i \in 1 .. Len(ranks) \/ i = Len(ranks) + 1
      BY <3>3
    <3>5. \A i \in 1 .. Len(more) : more[i] = found \/ (i \in 1 .. Len(ranks) /\ more[i] = ranks[i])
      BY <3>3, <3>4
    <3> QED
      BY <1>11, <1>12, <1>13, <2>2, <3>2, <3>5
  <2> QED
    BY <2>1, <2>2
<1>15. ListsInv'
  BY <1>4, <1>14 DEF ListsInv, Rankings
<1> QED
  BY <1>6, <1>7, <1>15

LEMMA HydrateStep ==
    ASSUME SearchInv, Searches!Hydrate
    PROVE  SearchTypes' /\ ListsInv' /\ HitsInv'
<1>1. PICK ranks \in Rankings : ranks = search.lists /\ Shallow(ranks)
  BY DEF SearchInv, ListsInv, Rankings, Shallow
<1>2. PICK t \in Talks : t = search.talk
  BY DEF SearchInv, SearchTypes
<1>3. PICK budget \in Nat : budget = Searches!BudgetFor(Window[t]) /\ budget > 4
  BY BudgetIs
<1>4. PICK read \in {<<>>, Read(ranks)} :
        search' = [search EXCEPT !.at = "done", !.hits = Searches!WithinBudget(read, budget)]
  BY <1>1, <1>2, <1>3 DEF Searches!Hydrate, Read
<1>5. PICK told : told = Searches!WithinBudget(read, budget)
  OBVIOUS
<1>6. Ordered(read, ranks)
  <2>1. IndexInv
    BY DEF SearchInv
  <2>2. Ordered(Read(ranks), ranks)
    BY <1>1, <2>1, ReadInOrder
  <2>3. \A none : none = <<>> => Ordered(none, ranks)
    BY DEF Ordered
  <2> QED
    BY <2>2, <2>3
<1>7. Fitted(told, read, budget)
  <2>1. read \in Seq(Excerpt)
    BY <1>6 DEF Ordered
  <2> QED
    BY <1>3, <1>5, <2>1, BudgetKept
<1>8. WeighedIn(told, ranks, budget) /\ \A i \in 1 .. Len(told) : told[i].of \in Listed(ranks)
  BY <1>1, <1>6, <1>7, ToldWeighed
<1>9. /\ search'.at = "done" /\ search'.hits = told /\ search'.lists = search.lists
      /\ search'.talk = search.talk /\ search'.agent = search.agent /\ search'.asked = search.asked
      /\ search' = [at |-> search'.at, talk |-> search'.talk, agent |-> search'.agent,
                    asked |-> search'.asked, lists |-> search'.lists, hits |-> search'.hits]
  BY <1>4, <1>5 DEF SearchInv, SearchTypes
<1>10. search.at # "idle" /\ UNCHANGED <<agent, text, saidTo, claimed, vector>>
  BY DEF Searches!Hydrate, Searches!tables
<1>11. SearchTypes'
  BY <1>9, <1>10 DEF SearchInv, SearchTypes
<1>12. Remembers
  BY <1>10 DEF Remembers
<1>13. \A m \in Said : Visible(m) => Visible(m)'
  BY <1>9, <1>12, VisibleStays
<1>14. ASSUME NEW i \in 1 .. Len(ranks)
       PROVE  \A k \in 1 .. Len(ranks[i]) : Visible(ranks[i][k])'
  <2>1. PICK one \in Seq(Said) : one = ranks[i]
    BY DEF Rankings
  <2>2. \A k \in 1 .. Len(one) : Visible(one[k]) /\ one[k] \in Said
    BY <1>1, <2>1 DEF SearchInv, ListsInv
  <2> QED
    BY <1>13, <2>1, <2>2
<1>15. ListsInv'
  BY <1>1, <1>9, <1>14 DEF ListsInv, Rankings, Shallow
<1>16. ASSUME NEW i \in 1 .. Len(told) PROVE Visible(told[i].of)'
  <2>1. PICK m : m = told[i].of /\ m \in Listed(ranks)
    BY <1>8
  <2>2. PICK l \in 1 .. Len(ranks) : \E k \in 1 .. Len(ranks[l]) : m = ranks[l][k]
    BY <2>1, ListedIs
  <2>3. PICK k \in 1 .. Len(ranks[l]) : m = ranks[l][k]
    BY <2>2
  <2>4. Visible(ranks[l][k])'
    BY <1>14
  <2> QED
    BY <2>1, <2>3, <2>4
<1>17. HitsInv'
  <2>1. told \in Seq(Excerpt)
    BY <1>7 DEF Fitted
  <2> QED
    BY <1>1, <1>2, <1>3, <1>8, <1>9, <1>16, <2>1 DEF HitsInv
<1> QED
  BY <1>11, <1>15, <1>17

LEMMA SearchStep ==
    ASSUME SearchInv, Searches!Next \/ UNCHANGED searchVars
    PROVE  SearchInv'
<1>1. IndexInv' /\ Remembers
  <2>1. IndexInv
    BY DEF SearchInv
  <2> QED
    BY <2>1, TablesStep
<1> SUFFICES SearchTypes' /\ ListsInv' /\ HitsInv'
  BY <1>1 DEF SearchInv
<1>2. ASSUME search' = search PROVE SearchTypes' /\ ListsInv' /\ HitsInv'
  BY <1>1, <1>2, QuietStep
<1>3. ASSUME NEW t \in Talks, Searches!CreateSession(t) PROVE search' = search
  BY <1>3 DEF Searches!CreateSession
<1>4. ASSUME NEW m \in Said, Searches!AppendMessage(m) \/ Searches!Claim(m)
                               \/ Searches!DeleteMessage(m)
      PROVE  search' = search
  BY <1>4 DEF Searches!AppendMessage, Searches!Claim, Searches!DeleteMessage
<1>5. ASSUME NEW a, Searches!DetachSessions(a) PROVE search' = search
  BY <1>5 DEF Searches!DetachSessions
<1>6. Searches!Index \/ Searches!SetEnabled \/ UNCHANGED searchVars => search' = search
  BY DEF Searches!Index, Searches!SetEnabled, searchVars
<1>7. search.at # "idle" => search.asked \in Asked
  BY DEF SearchInv, SearchTypes
<1>8. \A q \in Asked : Likeness[q] \in Seq(Said) /\ Wording[q] \in Seq(Said)
  BY SearchAssumption DEF Searches!WellFormed
<1>9. CASE Searches!Semantic
  <2>1. PICK list : list = Searches!Ranked(Likeness[search.asked])
    OBVIOUS
  <2>2. Searches!Rankers("semantic", list, "lexical")
    BY <1>9, <2>1 DEF Searches!Semantic
  <2>3. search.asked \in Asked
    BY <1>7, <2>2 DEF Searches!Rankers
  <2>4. PICK order \in Seq(Said) : order = Likeness[search.asked]
    BY <1>8, <2>3
  <2>5. /\ list \in Seq(Said) /\ Len(list) <= Depth
        /\ \A i \in 1 .. Len(list) : list[i] \in Searches!Scanned
    BY <2>1, <2>4, RankedScanned
  <2> QED
    BY <2>2, <2>5, RankerStep
<1>10. CASE Searches!Lexical
  <2>1. PICK list : list = Searches!Ranked(Wording[search.asked])
    OBVIOUS
  <2>2. Searches!Rankers("lexical", list, "recent")
    BY <1>10, <2>1 DEF Searches!Lexical
  <2>3. search.asked \in Asked
    BY <1>7, <2>2 DEF Searches!Rankers
  <2>4. PICK order \in Seq(Said) : order = Wording[search.asked]
    BY <1>8, <2>3
  <2>5. /\ list \in Seq(Said) /\ Len(list) <= Depth
        /\ \A i \in 1 .. Len(list) : list[i] \in Searches!Scanned
    BY <2>1, <2>4, RankedScanned
  <2> QED
    BY <2>2, <2>5, RankerStep
<1>11. CASE Searches!Recent
  <2>1. PICK list : list = Searches!Newest
    OBVIOUS
  <2>2. Searches!Rankers("recent", list, "hydrate")
    BY <1>11, <2>1 DEF Searches!Recent
  <2>3. /\ list \in Seq(Said) /\ Len(list) <= Depth
        /\ \A i \in 1 .. Len(list) : list[i] \in Searches!Scanned
    BY <2>1, NewestScanned
  <2> QED
    BY <2>2, <2>3, RankerStep
<1> QED
  BY <1>2, <1>3, <1>4, <1>5, <1>6, <1>9, <1>10, <1>11, RecallStep, HydrateStep, RenderStep
     DEF Searches!Next

LEMMA SearchBegins == Searches!Init => SearchInv
<1> SUFFICES ASSUME Searches!Init PROVE SearchInv
  OBVIOUS
<1>1. /\ agent = [t \in Talks |-> Searches!Closed] /\ text = [m \in Said |-> "none"]
      /\ saidTo = [m \in Said |-> NoAgent] /\ claimed = Searches!NoClaim
      /\ vector = [m \in Said |-> Searches!NoVector] /\ search = Searches!Idle
  BY DEF Searches!Init
<1>2. IndexInv
  BY <1>1 DEF IndexInv
<1>3. SearchTypes
  BY <1>1, IdleIs DEF SearchTypes
<1>4. PICK none : none = <<>>
  OBVIOUS
<1>5. /\ none \in Seq(Seq(Said)) /\ none \in Seq(Excerpt) /\ Len(none) = 0 /\ 1 .. 0 = {}
      /\ search.lists = none /\ search.hits = none
  BY <1>1, <1>4, IdleIs
<1>6. ListsInv
  BY <1>5 DEF ListsInv
<1>7. PICK b \in Nat : b = Searches!BudgetFor(Window[search.talk])
  BY <1>1, IdleIs, BudgetIs
<1>8. Searches!Tokens(none) = 0
  BY <1>5, TokensTyped
<1>9. HitsInv
  BY <1>5, <1>7, <1>8 DEF HitsInv, WeighedIn
<1> QED
  BY <1>2, <1>3, <1>6, <1>9 DEF SearchInv

\* However conversations, agents and the index come and go, a turn is told
\* only of its client's conversations, never of its own, and with an agent
\* only of what was said to that agent; what two rankers like comes before
\* what one does, nothing comes twice, and the excerpts keep to the budget
\* (search.go: Scope.where, fuse; inject.go: withinBudget).
THEOREM RecallIsScoped == Spec => []RecallKeepsScope
<1>1. SearchInv /\ [Next]_vars => SearchInv'
  BY Steps, SearchStep
<1>2. SearchInv => RecallKeepsScope
  <2> SUFFICES ASSUME SearchInv PROVE Searches!Mirrored /\ Searches!Weighed
    BY DEF RecallKeepsScope, Searches!RecallKeepsScope
  <2>1. PICK found \in Seq(Excerpt) : found = search.hits
    BY DEF SearchInv, HitsInv
  <2>2. DOMAIN found = 1 .. Len(found)
    OBVIOUS
  <2>3. \A i \in 1 .. Len(found) : Visible(found[i].of)
    BY <2>1 DEF SearchInv, HitsInv
  <2>4. ASSUME NEW h \in Searches!Range(found) PROVE Visible(h.of)
    BY <2>2, <2>3 DEF Searches!Range
  <2>5. Searches!Mirrored
    BY <2>1, <2>4 DEF Searches!Mirrored, Visible
  <2>6. PICK ranks \in Rankings : ranks = search.lists
    BY DEF SearchInv, ListsInv, Rankings
  <2>7. DOMAIN ranks = 1 .. Len(ranks)
    BY DEF Rankings
  <2>8. PICK budget : budget = Searches!BudgetFor(Window[search.talk])
    OBVIOUS
  <2>9. WeighedIn(found, ranks, budget)
    BY <2>1, <2>6, <2>8 DEF SearchInv, HitsInv
  <2>10. \A m : Searches!Cardinality({ i \in DOMAIN ranks : Searches!Contains(ranks[i], m) })
                  = Cardinality(Likes(m, ranks))
    BY <2>7, CountsSame DEF Likes
  <2> DEFINE Votes(m) == Searches!Cardinality({ i \in DOMAIN search.lists :
                                                  Searches!Contains(search.lists[i], m) })
  <2>11. \A m : Votes(m) = Cardinality(Likes(m, ranks))
    BY <2>6, <2>10
  <2> HIDE DEF Votes
  <2>12. \A i, j \in DOMAIN search.hits : i < j =>
           /\ search.hits[i].of # search.hits[j].of
           /\ Votes(search.hits[i].of) = 1 => Votes(search.hits[j].of) = 1
    BY <2>1, <2>2, <2>9, <2>11 DEF WeighedIn
  <2>13. /\ Searches!Tokens(search.hits) <= budget + 1
         /\ Len(search.hits) > 1 => Searches!Tokens(search.hits) <= budget
    BY <2>1, <2>9 DEF WeighedIn
  <2>14. Searches!Weighed
    BY <2>8, <2>12, <2>13, Zenon DEF Searches!Weighed, Votes
  <2> QED
    BY <2>5, <2>14
<1>3. Init => SearchInv
  BY SearchBegins DEF Init
<1> QED
  BY <1>1, <1>2, <1>3, PTL DEF Spec
=============================================================================
