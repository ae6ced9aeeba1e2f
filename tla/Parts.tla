------------------------------- MODULE Parts --------------------------------
(***************************************************************************)
(* The parts of the system that are modelled without state in common: the  *)
(* node's model store, the reviews and the ledger of the portfolio, the    *)
(* canaries and their alarms, the backends, the backups, the archive of    *)
(* the memory, the tasks, the agents' libraries, the company's books of    *)
(* funding and expenses, the model repository, the grading of machines and *)
(* the retrieval of earlier conversations.  What a part takes from another *)
(* in the program it takes as a step of its own, in any order.  No step of *)
(* one then reads or writes what another keeps, a behaviour of all of them *)
(* is one of each, and it is enough to let one part, the subject, move and *)
(* leave the others where they begin.                                      *)
(***************************************************************************)
EXTENDS Integers

CONSTANTS
    ModelFiles, Name, Versions, Size, Undigested, MaxAttempts, MaxNodeTrouble,
    Symbols, Cycles, Cap, ReviewRows, Forecasts, Day, Windows, MaxReviewTrouble,
    Imports, Exchange, Orders, Manual, UploadTokens, MaxUploads, MaxTradeTrouble,
    Catalog, Customs, Switches, MaxCanaryTrouble,
    Traps, Cooldown, Secrets, MaxAlarmTrouble,
    Names, Home, Definitions, Handlers, Stale, MaxBackendTrouble,
    Seconds, KeptCopies, MaxBackupTrouble,
    Clients, Conversations, Seqs, Texts, MaxArchiveTrouble,
    Routes, MaxTasks, MaxLists,
    Agents, Papers, Sessions, Uploads, MaxDocuments,
    Clerks, Offers, ByHand, Periods, LastDay, MaxRecords, MaxEntries, MaxBooksTrouble,
    Jobs, Revisions, Shards, Digests, MaxMoves,
    Machines, Here, Cards, Ram, Loads, Weights, Contexts, FleetStale, HardwareTTL,
    KeepRaw, LastTick, MaxFitTrouble,
    Said, TextLength, Talks, Talk, Owner, Profile, NoAgent, Asked, Likeness, Wording,
    K, CandidateDepth, TopK, RecentTurns, Scale, Window, Fallback, MaxSearchTrouble,
    Subjects        \* the parts a run looks at

Parts == {"nodes", "reviews", "trades", "decoys", "alerts", "models", "copies",
          "exports", "todo", "libraries", "treasury", "repo", "fit", "search"}

ASSUME PartsAssumption ==
    /\ Subjects \subseteq Parts
    /\ Undigested \subseteq ModelFiles /\ Size \in [Versions -> Nat \ {0}]
    /\ MaxAttempts \in Nat \ {0} /\ "none" \notin Versions \cup Clients
    /\ Revisions # {} /\ Digests \in BOOLEAN /\ MaxMoves \in Nat
    /\ Shards \cap {"gguf", "f16", "out"} = {}
    /\ Home \in Names /\ Cap \in Nat \ {0} /\ KeptCopies \in Nat /\ Seconds \in Nat \ {0}
    /\ Cooldown \in Nat \ {0} /\ "none" \notin Catalog \cup Customs

VARIABLES
    subject,    \* the part that moves
    trouble,    \* what happened to it of what its bound counts
    published, recorded, assigned, store, part, mount, runtime, known, serving,
    nodeUp, job, under,
    watchlist, forecasts, rows, pass, config,
    ledger, uploads, jobs, traded, filled, clean,
    enabled, custom, profiles, listening, failed, switch, serverUp, astray,
    lastAlert, saved, editing, mails, hits, attempted,
    file, declared, live, listed, health, actor, crossed,
    now, copy, manifest, task, reported, sameSecond,
    home, away, archive, refused, torn,
    lists, tasks, nextList, nextTask, request,
    agents, documents, passages, nextDoc, session, turn, upload, detaching,
    today, journal, records, nextRecord, locked, clerk, unsure,
    hub, moves, repoFile, repoPart, repoRow, repoJob, forgetting, tornRows,
    load, facts, nodeRow, declaredNodes, loopback, profile, clock,
    agent, text, saidTo, claimed, vector, recallOn, search

Nodes == INSTANCE NodeStore WITH
    Files <- ModelFiles, up <- nodeUp, MaxTrouble <- MaxNodeTrouble
Revs == INSTANCE Reviews WITH Rows <- ReviewRows, MaxTrouble <- MaxReviewTrouble
Trades == INSTANCE Portfolio WITH
    Files <- Imports, Uploads <- UploadTokens, MaxTrouble <- MaxTradeTrouble
Decoys == INSTANCE Canaries WITH
    Requests <- Switches, MaxTrouble <- MaxCanaryTrouble,
    known <- profiles, request <- switch, up <- serverUp
Alerts == INSTANCE Alarms WITH recorded <- hits, MaxTrouble <- MaxAlarmTrouble
Models == INSTANCE Backends WITH MaxTrouble <- MaxBackendTrouble
Copies == INSTANCE Backups WITH Keep <- KeptCopies, MaxTrouble <- MaxBackupTrouble
Exports == INSTANCE Archive WITH
    Sessions <- Conversations, MaxTrouble <- MaxArchiveTrouble
Todo == INSTANCE Tasks WITH Requests <- Routes
Libraries == INSTANCE Library WITH Contents <- Papers
Funds == INSTANCE Treasury WITH MaxTrouble <- MaxBooksTrouble, astray <- unsure
Repo == INSTANCE ModelRepo WITH
    MaxUploads <- MaxMoves, uploads <- moves, file <- repoFile, part <- repoPart,
    row <- repoRow, job <- repoJob, torn <- tornRows
Grades == INSTANCE Fit WITH
    MaxTrouble <- MaxFitTrouble, row <- nodeRow, declared <- declaredNodes
Searches == INSTANCE Search WITH
    Messages <- Said, Length <- TextLength, MaxTrouble <- MaxSearchTrouble, enabled <- recallOn

\* Amounts are positive, and an entry by hand is refused unless it balances.
ASSUME FundsAssumption ==
    /\ LastDay \in Nat \ {0} /\ MaxRecords \in Nat /\ Offers \subseteq Funds!Offer
    /\ \A lines \in ByHand : lines \in [Funds!Accounts -> Int] /\ Funds!Balanced(lines)

\* What is booked is valid (service.go: RecordTrade).
ASSUME TradesAssumption == Trades!WellFormed

\* Sizes are sizes: what nvidia-smi tells, and the models' (fit.go).
ASSUME FitAssumption == Grades!WellFormed

\* The constants of the search are as search.go and inject.go have them.
ASSUME SearchAssumption == Searches!WellFormed

nodeVars == <<published, recorded, assigned, store, part, mount, runtime, known,
              serving, nodeUp, job, under>>
reviewVars == <<watchlist, forecasts, rows, pass, config>>
tradeVars == <<ledger, uploads, jobs, traded, filled, clean>>
decoyVars == <<enabled, custom, profiles, listening, failed, switch, serverUp, astray>>
alertVars == <<lastAlert, saved, editing, mails, hits, attempted>>
modelVars == <<file, declared, live, listed, health, actor, crossed>>
copyVars == <<now, copy, manifest, task, reported, sameSecond>>
exportVars == <<home, away, archive, refused, torn>>
todoVars == <<lists, tasks, nextList, nextTask, request>>
libraryVars == <<agents, documents, passages, nextDoc, session, turn, upload, detaching>>
fundVars == <<today, journal, records, nextRecord, locked, clerk, unsure>>
repoVars == <<hub, moves, repoFile, repoPart, repoRow, repoJob, forgetting, tornRows>>
gradeVars == <<load, facts, nodeRow, declaredNodes, loopback, profile, clock>>
searchVars == <<agent, text, saidTo, claimed, vector, recallOn, search>>
vars == <<subject, trouble, nodeVars, reviewVars, tradeVars, decoyVars, alertVars,
          modelVars, copyVars, exportVars, todoVars, libraryVars, fundVars, repoVars, gradeVars,
          searchVars>>

\* A part that does not move has one beginning.
Init ==
    /\ subject \in Subjects
    /\ Nodes!Init /\ Revs!Init /\ Trades!Init /\ Decoys!Init /\ Alerts!Init
    /\ Models!Init /\ Copies!Init /\ Exports!Init /\ Todo!Init /\ Libraries!Init
    /\ Funds!Init /\ Repo!Init /\ Grades!Init /\ Searches!Init
    /\ subject # "nodes" => runtime = "llamacpp"
    /\ subject # "reviews" => config.window = CHOOSE w \in Windows : TRUE
    /\ subject # "models" => file = Names
    /\ subject # "repo" => \A r \in Revisions : hub[r] = CHOOSE v \in Versions : TRUE
    /\ subject # "fit" => declaredNodes = {} /\ loopback

\* The subject is p, and all else stays.
Only(p) ==
    /\ subject = p /\ UNCHANGED subject
    /\ IF p = "nodes" THEN TRUE ELSE UNCHANGED nodeVars
    /\ IF p = "reviews" THEN TRUE ELSE UNCHANGED reviewVars
    /\ IF p = "trades" THEN TRUE ELSE UNCHANGED tradeVars
    /\ IF p = "decoys" THEN TRUE ELSE UNCHANGED decoyVars
    /\ IF p = "alerts" THEN TRUE ELSE UNCHANGED alertVars
    /\ IF p = "models" THEN TRUE ELSE UNCHANGED modelVars
    /\ IF p = "copies" THEN TRUE ELSE UNCHANGED copyVars
    /\ IF p = "exports" THEN TRUE ELSE UNCHANGED exportVars
    /\ IF p = "todo" THEN TRUE ELSE UNCHANGED todoVars
    /\ IF p = "libraries" THEN TRUE ELSE UNCHANGED libraryVars
    /\ IF p = "treasury" THEN TRUE ELSE UNCHANGED fundVars
    /\ IF p = "repo" THEN TRUE ELSE UNCHANGED repoVars
    /\ IF p = "fit" THEN TRUE ELSE UNCHANGED gradeVars
    /\ IF p = "search" THEN TRUE ELSE UNCHANGED searchVars

Next ==
    \/ Only("nodes") /\ Nodes!Next
    \/ Only("reviews") /\ Revs!Next
    \/ Only("trades") /\ Trades!Next
    \/ Only("decoys") /\ Decoys!Next
    \/ Only("alerts") /\ Alerts!Next
    \/ Only("models") /\ Models!Next
    \/ Only("copies") /\ Copies!Next
    \/ Only("exports") /\ Exports!Next
    \/ Only("todo") /\ Todo!Next /\ UNCHANGED trouble
    \/ Only("libraries") /\ Libraries!Next /\ UNCHANGED trouble
    \/ Only("treasury") /\ Funds!Next
    \/ Only("repo") /\ Repo!Next /\ UNCHANGED trouble
    \/ Only("fit") /\ Grades!Next
    \/ Only("search") /\ Searches!Next

Spec == Init /\ [][Next]_vars

\* The fairness of each part, as its module gives it.
FairNodes ==
    /\ WF_nodeVars(subject = "nodes" /\ Nodes!Report)
    /\ WF_nodeVars(subject = "nodes" /\ Nodes!JobStep)
    /\ WF_nodeVars(subject = "nodes" /\ Nodes!Restart)
FairReviews ==
    \A c \in Cycles : /\ WF_reviewVars(subject = "reviews" /\ Revs!CycleStep(c))
                      /\ SF_reviewVars(subject = "reviews" /\ Revs!ComposeDigest(c))
FairModels ==
    /\ WF_modelVars(subject = "models" /\ Models!Watch)
    /\ \A h \in Handlers : WF_modelVars(subject = "models" /\ Models!Handle(h))

FairRepo == \A j \in Jobs : WF_repoVars(subject = "repo" /\ Repo!Work(j))

FairSpec == Spec /\ FairNodes /\ FairReviews /\ FairModels /\ FairRepo

-----------------------------------------------------------------------------
(* Properties: those of the parts.  The costly ones are asked of their     *)
(* subject alone, as a part that does not move stays as it began.          *)

\* A name in a node's store is never on half a file or another file than was
\* promised, and only complete files are served (nodestore: verify, install).
OnlyWholeFiles == Nodes!OnlyWholeFiles

\* What is assigned to a node is served by it in the end (reconcile).
AssignedIsServed == Nodes!AssignedIsServed

\* A review is stamped as reported only after it was sent (review.go).
StampedWasSent == Revs!StampedWasSent

\* No review and no matured forecast waits for ever (review.go, scheduler.go).
PassesFinish == Revs!PassesFinish

\* Trades are booked once, and all that were reported as booked (importer.go,
\* kraken.go, broker.go); costs and realized gains account for all cash
\* (holdingsFromLedger).
TradesAccounted == subject = "trades" => Trades!BookedAsHappened /\ Trades!CashAccounted

\* A canary listens exactly when it is stored as enabled (twire/service.go).
ListensAsStored == Decoys!ListensAsStored

\* A pair of canary and source has one mail per cooldown (shouldAlert).
OneMailPerCooldown == Alerts!OneMailPerCooldown

\* The router serves what file and database declare (reloadBackends).
ServedAsDeclared == Models!ServedAsDeclared

\* No verdict of another definition is shown for ever (catalog.go).
VerdictsConverge == Models!VerdictsConverge

\* Once there is a verified backup there always is one (PruneBackups).
NeverWithoutBackup == Copies!NeverWithoutBackup

\* A complete archive can be imported, and an import loses nothing (export.go).
ArchiveSafe == Exports!CompleteIsImportable /\ Exports!MergeIsSafe

\* Routes for notes change notes only, tools for tasks no notes (requireNote,
\* requireTask), and a task is stamped exactly when it is done (UpdateTask).
TasksSafe == Todo!RoutesKeepToTheirKind /\ Todo!DoneIsStamped

\* A turn reads its own agent's documents only (ReadDocument).
OwnLibraryOnly == Libraries!OwnLibraryOnly

\* The ledger holds what the records of funding and expenses say (funding.go,
\* expense.go).
LedgerFollowsRecords == subject = "treasury" => Funds!LedgerFollowsRecords

\* No checked step leaves the owner owing the business (RecordFunding,
\* DeleteFunding).
LoanNotOverdrawn == Funds!LoanNotOverdrawn

\* A downloaded model under its real name is one version, complete, and no two
\* goroutines write the same file (download.go, jobs.go).
DownloadsWhole == Repo!NamedIsWhole /\ Repo!OneWriter

\* The recorded digests are those of the files (download.go, repo.go).
RowsTruthful == Repo!RowsTruthful

\* Every job ends (download.go, convert.go).
JobsEnd == Repo!JobsEnd

\* A verdict promises what the machine was read to have, and rules out nothing
\* else (fit.go, fleet.go, plan.go).
VerdictsHold == subject = "fit" => Grades!VerdictsHold

\* A node that went quiet is graded as unknown (fleet.go).
QuietIsUnknown == Grades!QuietIsUnknown

\* A turn is told of what its client, and its agent, may know, in the order and
\* within the budget the fusion promises (search.go).
RecallKeepsScope == subject = "search" => Searches!RecallKeepsScope

=============================================================================
