# Wintermute: a TLA+ model

Wintermute is a self-hosted assistant: a Go server (`cmd/wintermuted`) that
holds conversations, runs an agent loop over a language model and keeps a
workspace (accounts, tasks, knowledge, fleet telemetry, model files) in one
SQLite database; a terminal client (`cmd/wintermute`) that executes file actions
on the operator's machine after asking; and an agent (`cmd/wintermute-node`)
that runs on the machines of the fleet.

These modules model the parts of it in which goroutines, processes and machines
meet, or in which several steps keep two pieces of state in agreement: what a
conversation keeps, the tool loop between server and client, model files on the
server and on the nodes, fleet telemetry and what is concluded from it, the
backends, the accounts, the investment ledger and its reviews, the canaries, the
tasks, the agents' libraries, backups and archives, the retrieval index and
retrieval itself. TLC checks them on small instances; the theorems in the
`*_proofs` modules hold for every value of the constants.

    tlc -config OffTheRecord_sequential.cfg MCOffTheRecord    (and so on, see "Runs")
    tlapm OffTheRecord_proofs.tla                             (and so on, see "Proofs")

`PROJECT.json` maps each definition to the lines it translates and lists runs,
mutants, hazards and theorems.

## 1. Inventory

Sizes are lines of Go without tests. "Hard" is what a test hardly reaches.

**Conversation memory** (`internal/agent/transcript.go`, `internal/store/sessions.go`,
handlers in `internal/api`). *State*: sessions and messages in the store; a pool of
transcripts in memory for conversations that are off the record, bounded in number
and age. *Operations*: create and delete a session, a turn, PATCH memory (the switch),
read and delete messages. *Interaction*: a turn reads its session row once and appends
through a transcript chosen from it; the switch seeds the pool from the store, then
deletes the rows. *Hard*: turns and switches of one conversation are not serialised;
the pool evicts in the middle of a turn; a restart empties it. *Correct if*: what is
said off the record is never on disk, nothing is duplicated or lost by the switch, the
browser shows what the model is told.

**Agent loop and turn API** (`internal/agent` 1028, `internal/api/turn.go`,
`internal/tool`, `internal/store/audit.go`). *State*: transcript, audit table (muninn),
and per request the round, the last failure and its repeats. *Operations*: Advance,
runServerTool, handleToolResults. *Interaction*: the model is asked; server tools run
here; client tools go back in the reply, and their results come as the next request.
*Hard*: a client that goes away while its handler runs on; errors between two writes;
one budget for four kinds of round. *Correct if*: no call stays unanswered when the model
goes on, what ran is audited once and truthfully, a request ends.

**Client harness, approval, actions** (`internal/client` 697, actions 543,
`cmd/wintermute`). *State*: pending calls, answers given so far, tools allowed for the
session. *Operations*: Ask, handle, Evaluate, Confirm, the actions. *Hard*: lost replies,
consent that outlives what it was given for. *Correct if*: nothing runs without consent,
nothing runs twice, "quit" holds.

**Model repository** (`internal/modelrepo` 2150, `internal/store/modelrepo.go`, API).
*State*: files, `.part` files and a staging directory; provenance rows; the job registry.
*Operations*: start, cancel and finish of a job, transfer with resume and retry, verify,
install, record, convert, delete, upload, restart. *Hard*: a goroutine outlives its
cancellation; the publisher moves a revision between a transfer and its resume; a crash
between rename and record. *Correct if*: a model's name is never on something that is
not that model; a recorded digest is the file's; jobs end.

**Fleet telemetry** (`cmd/wintermute-node`, `internal/node` 1178, `internal/api/nodes.go`,
`internal/hostmetrics`). *State*: the agent's backlog and spool; raw readings, buckets per
tier, watermarks. *Operations*: collect, send, spool, reload; ingest, fold, prune, forget.
*Interaction*: one HTTP report with the whole backlog. *Hard*: lost and repeated reports,
kills, a backlog that comes late, a roller that fails between tiers. *Correct if*: readings
arrive, and are summarised before they are pruned.

**Node model store** (`internal/nodestore` 1156, `internal/store/nodemodels.go`, the node's
`reconcile`). *State*: files and parts on the node, what the local runtime serves,
assignments and provenance rows on the server. *Operations*: assign, unassign, report and
reconcile, fetch with resume or copy from a share, verify, ingest into Ollama or
llama.cpp. *Interaction*: the answer to a report names what the node should hold; one
background job at a time works on it. *Hard*: the job is under way when the next report
comes; resume of a file that was replaced; ingest that fails half way. *Correct if*: only
complete, promised files take their names, only complete files are served, assignments
are met.

**Sales ledger** (`internal/accounting` 4838, `internal/api/accounting.go`, the invoiced
flag of `internal/crm`). *State*: documents and lines, payments, journal, sequences, locked
periods, the flag of a time entry. *Operations*: draft, update, delete, issue, credit, void,
pay, unpay, bill hours, lock. *Hard*: handlers check first and write in one or several
transactions later. *Correct if*: numbers have no gaps, what has gone out stands, the
ledger agrees with the documents, hours are billed once, locked periods take nothing.

**Owner funding, expenses, reports** (same package). *State*: funding and expense rows and
their journal entries. *Operations*: record, delete (a reversal and then the row), entries
and reversals by hand, balance sheet, VAT summary. *Hard*: the two halves of a deletion; a
loan checked before it is posted. *Correct if*: each account holds what the rows say, the
balance sheet balances on every day, the loan is not overdrawn.

**Recall** (`internal/recall` 1562, `internal/app/recall.go`). *State*: a queue, vectors and
terms per message, the embedder pin, the master switch. *Operations*: enqueue, index a
batch, backfill, reindex, forget everything; search by three rankers, fuse, cut to a
budget. *Hard*: deletion between claim and write; an embedder that is away; a reindex
beside a running server; owners that change under the index. *Correct if*: nothing erased
stays findable, every recorded message is indexed in the end, all vectors are of the
pinned model, no search crosses clients or agents.

**Backends** (`internal/llm` 1253, `internal/app/app.go`, `internal/models/catalog.go`,
`internal/config/backends.go`). *State*: the names of a file, rows, the router's set, the
catalogue's set, verdicts of probes. *Operations*: declare, change, remove, test, refresh,
sweep. *Hard*: two handlers rebuild the set at once; a sweep works on a snapshot. *Correct
if*: router and catalogue hold what is declared, verdicts catch up.

**Machines and fit** (`internal/models` 4878). *State*: hardware profiles of this host and
of the nodes, their latest sample, the cache of this host's profile. *Operations*: report,
prune, refresh, estimate, choose a machine and a quantisation. *Hard*: profile and sample
are of different moments and either may be missing. *Correct if*: a verdict promises only
what a machine was read to have, rules out nothing else, and old figures are not used.

**Fintech** (`internal/fintech` 4779). *State*: the ledger, pending uploads, orders;
watchlist, forecasts, reviews, settings. *Operations*: book a trade (by hand, CSV, exchange,
paper broker), replay positions; scan, score, review in capped cycles, digest. *Hard*: the
same trade by several ways; cycles of the timer and of the operator at once; a digest held
in quiet hours. *Correct if*: trades are booked once and account for all cash; what is
stamped as reported was sent; passes end.

**Canaries** (`internal/twire` 1301). *State*: stored switches, live listeners, errors of
their ports, stamps of alerts, alert settings. *Operations*: enable, disable, create,
delete, start, stop, a hit, an alert. *Hard*: rows first, listeners later, the lock on the
second only. *Correct if*: a canary listens exactly when it is on; a source has one mail per
cooldown.

**Utilities** (1794). *State*: snapshot directories with manifests; archives. *Operations*:
back up, verify, prune; export, import. *Hard*: backups that break off count for
retention; an export of four reads beside a live server. *Correct if*: there always is a
verified backup once there was one; an archive can be imported, and an import loses nothing.

**Tasks** (2499). *State*: lists and tasks, notes being tasks of a list of their own.
*Operations*: create, edit, move, delete by web, tools and quick capture. *Hard*: the check of
the kind and the change are two statements. *Correct if*: routes and tools keep to their kind.

**Knowledge** (1316). *State*: agents, documents and passages, the agent of a conversation.
*Operations*: create and delete an agent, upload, delete, read. *Hard*: documents and agents
come and go during a turn. *Correct if*: a turn reads its own agent's library.

**The rest.** **Company**, **grc** (plain rows), **scratch**, **websearch**, **tabular**
(stateless requests), **store** (1763; its transactions are the steps of the modules),
**api** (6687; its handlers are in the modules of what they call), **app** (1063),
**config** (862), **web** (JavaScript), `wintermuted`, `deploy`, `scripts`: plumbing.
`PROJECT.json` gives the reason for each.

## 2. Plan

Done: `OnTheRecord` and `OffTheRecord`; `ToolLoop`; `ModelRepo`; `NodeAgent` and `Rollup`,
composed by `FleetTelemetry`; `Books`; `Recall`; then the fourteen parts that `Parts` puts
together (`NodeStore`, `Reviews`, `Portfolio`, `Canaries`, `Alarms`, `Backends`, `Backups`,
`Archive`, `Tasks`, `Library`, `Treasury`, `ModelRepo`, `Fit`, `Search`). Proved: the
safety properties of all of them: every invariant and action property that a run checks is a
theorem, and what remains to TLC alone is liveness.

To come: what `PROJECT.json` calls left out, where it keeps two pieces of state in agreement,
which is calendar events beside tasks, moving the model repository, pruning of old rows.

Runs are few on purpose: one per question, each property where it is hardest to keep.

## 3. Modules

A goroutine of the server may be interleaved with any other between two of its calls to
the store, the pool or the network; such a call is one step. Transactions of the store are
atomic (`store.go` opens them with `_txlock=immediate`).

### OnTheRecord, OffTheRecord

`OnTheRecord` is the promise: a conversation has a switch, the words said, and the words
on disk; going off erases the disk, nothing said while off is written.

`OffTheRecord` has `status`, `record`, `rows` for the store, `held` and `lru` for
`agent.Ephemeral`, and `req` for the handlers. `Begin` is the session lookup, whose result
(`rec`) the handler keeps. A turn is `PickTranscript` (transcriptFor), then `AppendMemory`
and `PersistMemory` (dualTranscript) or `AppendStore`, `ReadHistory`, and `EndTurn`; a toggle
is `ReadRows`, `SeedPool` (SetMemory) and `CommitToggle` (SetSessionMemory). `Abort` is an
error or a client that left; `Restart` loses pool and handlers. `Keep` installs a transcript
and evicts as evictLocked does: what exceeds the limit and possibly more, by age.
`said`, `erased`, `forgotten`, `reseeded` are history variables.

The server does not serialise the requests of a conversation, and the browser's switch is
not disabled during a turn: `Overlap = TRUE`. `Overlap = FALSE` is a caller that waits for
each answer, as `Harness.Ask` does.

### ToolLoop

One conversation across the network. `req` is the server's handler of each request:
`AuditResult` and `AppendIncoming` for results that came, then per round `AskModel`,
`AnswerUnknown`, `RunServerTool`, `RecordServerTool`, `AnswerServerTool`, `EndRound`, and
`Exhausted` at the end of the budget. `client` is the harness: `Ask`, `ReceiveReply`,
`GiveUp` (time-out or a lost reply), `HandleSettled` (the policy decides), `ConfirmEarlier`,
`SayYes`, `SayAlways`, `SayNo`, `SendResults`, `Exit`. `audit` and `answers` are what the
store holds; `ran` and `yes` are history. `Faults` lets store and model calls fail, `Lossy`
lets replies be lost and clients time out while their handlers run on.

### ModelRepo

Files are a length in chunks and the set of versions their chunks came from, so a resume
onto another version shows as a mixture. A job goes `Connect`, `Copy`, `Verify`, `Install`,
`Hash`, `Record`, with `AttemptFails` (retry) and `Unwind` (end of a cancelled goroutine),
or `List`, `Pick`, `NameShard`, `Convert`, `InstallConverted` for a conversion (`Transfer` is
what both share). The look at the target and the entry into the job registry are one
step. Beside it run
`Cancel`, `Delete` and `Forget` (two steps of Repo.Delete), `DeletePart`, `Upload` (the
publisher) and `Restart`.

### NodeAgent, Rollup, FleetTelemetry

`NodeAgent` is the agent: `Collect`, `BeginSend`, `SendFails`, `SendSucceeds`, the spool,
`Stop`, `Crash`. `Rollup` is the store's side: `Ingest`, `FoldRawToMinutes`, `FoldUp`,
`PruneRaw`, `PruneMinutes`, one per step of Roller.Once, `RollFails` between any two, `Forget`.
`FleetTelemetry` joins them by a wire that loses, delays and repeats. A `Crash` finds the spool that was
last written or, as it is written without fsync and one that does not parse is dropped
(`main.go:488`), none.

Time is in ticks. Timestamps are compared as RFC 3339 text, where `12:00:00.5Z` is less
than `12:00:00Z`: the first second of a minute belongs to the minute for the grouping and
lies before it for the comparison. The model has it so, and the folds, which read the
clock twice (`rollup.go:104`), are checked under it. Hours stand for every tier above
minutes: days are folded by the same function.

### Books

Every handler of the ledger is a small program: `BeginIssue` reads, checks and builds the
entry, `Issue` is the transaction; `BeginPayment`, `RecordPayment`, then `SumPayments` and
`StorePaid` (RecalcInvoicePayments reads and writes in two statements, after the
transaction); `BeginVoid` or `BeginDeletePayment`, `CheckReversal`, `Reverse`, then
`StampVoid` or `RemovePayment`; `BeginUpdate` and `UpdateDraft`; `BeginBill` and `Bill`.
`Fail` ends a handler at any step. Deleting a draft, a credit note and a draft by hand are
one step: nothing that happens between their read and their write changes what they write.
An entry of the journal is kept as its effect on the receivables account. An update sends
back lines as it got them or without them: a caller that makes up the id of a time entry
is outside the model.

Three history variables say where the code promises nothing, so that the properties can
claim everything else: `crossed` are documents on which two handlers worked at once, or
that one left half done; `contested` are hours that two drafts were prepared from at once;
`surprised` are days locked under a handler in flight. Each is as small as it can be:
without any one of them TLC finds the property violated.

### Recall

`vectors`, `terms`, `queue` with `attempts`, and `pin` are the tables; `session` and `message`
are what they are derived from. The server (`model["server"]`, or `"down"`) and the command
`-backfill-memory` / `-reindex-memory` each have a place in IndexBatch (`index`): `Claim`,
`Embed` or `EmbedFails`, `SetPin`, `ReadPin`, then `Write` or `Rollback`, with a statement
failing at any of them (`StoreFails`). Against them run the write path (`AppendMessages`,
then `Enqueue` or `EnqueueFails`), the deletions (`DeleteMessage`, `Purge`, `DeleteSession`,
each one transaction with its cascades and the trigger of `0014_recall.sql`, which is
`Erase`), the two handlers of several statements (`Rebuild`, `Requeue`; `Forget`, `Sweep`,
`Unpin`) and the processes' starts and ends, with CheckPin as the guard of `StartServer`
and of the backfill. A message is spoken, or silent (a tool's result, an empty text): the
second kind is claimed and dropped.

Two history variables say where the code promises nothing. `owed` are messages that only
a backfill picks up: queueing them failed and was logged, the process ended between the
commit and the queueing, a sweep took them, or the index was cleared and what follows has
not queued them again. `mixed` holds once the pin was removed under
vectors or under a batch that had read it, or once two processes ran with different
models. In what order the queue is served is left open, which allows every order of
`enqueued_at` and more; the pin's dimension is that of its model (`Width`).

### Parts

Fourteen parts of the server and its nodes have modules of their own and no state in
common: what one takes from another in the program (a file that is published, an agent
that is deleted, a reading that arrives) it takes as a step of its own, in any order, which
allows every order the other part can produce and more. So no step of one reads or writes
a variable of another, each behaviour of the whole is, variable by variable, one of each
part, and an invariant of a part holds of the whole exactly if it holds when this part
alone moves. `Parts` has them side by side as instances, with their variables disjoint;
`subject` is the part that moves, and the others stay where they begin. The lemma `Steps`
of `Parts_proofs` and of `Parts_model_proofs` is this argument for the parts with theorems. `trouble` counts, in every part, the failures,
stops and changes of mind that the part's bound allows.

**NodeStore** (`nodestore`, `reconcile`). `Report` brings the assignments to the node and
starts a job if none is under way; `JobStep` is the job: `NextItem`, the copy from the share
(`CopyChunk`, `CopyEnds`) or the transfer (`Connect`, `StreamChunk`, `StreamEnds`), `Verify`,
`Install`, `Ingest`. `Publish`, `Record`, `CopyIn` and
`MountChanges` are the repository as the node meets it. Contents are as in `ModelRepo`.
`under` is the promise a stored file was fetched under; `Stuck` lists what the code cannot
get out of by itself.

**Reviews** (`fintech/review.go`, `scheduler.go`, `forecast.go`, `watchlist.go`). `CycleStep` is a cycle of
the timer or of `POST /reviews/run`: score what is due, collect the targets and cap them,
rate one after the other, `ComposeDigest` unless it is night, send, stamp. `ScanStep` is the
scan of the watchlist. A row is followed until it is stamped. In the shipped wiring no
alerter is configured until the operator sets one up (`app.go`), which is `config.alert`.

**Portfolio** (`fintech/service.go`, `importer.go`, `kraken.go`, `broker.go`). All ways end in
`RecordTrade`, which refuses a duplicate by the hash; `DedupeHash` keeps that amounts are
hashed as digits without a separator. `Position` is holdingsFromLedger in exact fractions. `Trade` is
what RecordTrade accepts, and `WellFormed` that what files, exchange and broker bring is either that or an
`Unreadable` line: the code refuses the rest before it is booked.

**Canaries, Alarms** (`twire`). A handler writes the rows (`SetCanaryEnabled`,
`InsertCustomCanary`, `DeleteCustomCanary`, the last in two statements) and then the
listeners (`Enable`, `Disable`, `CreateCustom`, `DeleteCustom`). `astray` are the canaries on
which two handlers worked at once, or that were defined again over the switch a half-done
deletion left. In `Alarms` a trap is a pair of a canary and a source.

**Backends** (`app.go`, `api/models.go`, `catalog.go`, `config/backends.go`). `Begin` and `Handle`
are a handler that changes a row and reloads (`BackendSet`, router, catalogue); `Watch` the
sweep, `RefreshBackend` the probe of one. `crossed` holds once two handlers changed the set at
once or a reload failed: reloadBackends takes no lock.

**Backups** (`utilities/backup.go`, `service.go`). The backup of the timer and one on demand:
`Backup`, `BackupTo`, `Written` or `BackupFails` or `LeftBehind`, `VerifySnapshot`, `WriteManifest`;
then `PruneBackups` and `RemoveOld`, one directory at a time.

**Archive** (`utilities/export.go`). Two databases; `ExportTable` reads one table of the first,
in the order of the code, while `AtHome` goes on; `ImportMemory` merges into the second by natural keys.
The export may be a command beside a running server (`cmd/wintermuted/main.go`).

**Tasks** (`todo`, `api/workspace.go`). Every route is a chain of statements: `Start` says which
kind it is for, `Step` is the next statement. Of the three statuses two are kept.

**Library** (`knowledge`, `api/agents.go`, `app/scope.go`). A turn keeps the tools of the agent it
began with; `OpenDocument` is the check of ReadDocument and `ReadPassages` its second
statement; `DeleteAgent` and `Detach` are two statements.

**Treasury** (`accounting/funding.go`, `expense.go`, `reports.go`). `Request` checks and `Write` is a
transaction, for recording, for each half of a deletion, and for entries and reversals by
hand. Entries keep their lines (`Move`), taxes are rounded as RoundHalfUp does. `astray` are records
reversed by hand, taken back twice, or left half taken back. Reverse looks up the lock and
writes in one step.

**Fit** (`models/fit.go`, `fleet.go`, `hardware.go`, `plan.go`). `Report` stores hardware and the newest
sample, `PruneRaw` removes the sample, `Hardware` refreshes the cached profile of this host.
`EstimateFit`, `NodeGPUs`, `EstimateFleetFit`, `BestFit` and `Recommend` are the calculator, in MB
with the constants of the code. `truth` is what was in use on the cards when a machine was read, and
`left` the memory it had available, by which one without a card is graded.
Clocks are assumed to agree.

**Search** (`recall/search.go`, `inject.go`, `app/recall.go`). A retrieval is `Recall` (the switch and the
budget), `Semantic`, `Lexical`, `Recent`, fused by `Fuse`, then `Hydrate` and `Render`: separate
reads without a transaction; a ranker that fails counts as empty. `Claim` and `Index` are the
indexer, which stores with a vector the agent it read when it claimed; `DetachSessions` is
what a deleted agent leaves. `WellFormed` has `rrfK`, the depths and the fallback as the program and its
settings have them (60, 40, 4 and 1500 unless changed): the depths are at most 61, as a second vote at that
depth still outweighs the first place of another list, and the fallback has room for the marker of a cut.

### Selections, Collections

`Selections` are the filter and the sort that `OffTheRecord` and `Search` use, written as a recursive
function and as a choice by rank, so that they can be unfolded in proofs. `Collections` has the facts about
them and about sums (§5).

### MC modules

`MCOffTheRecord`, `MCModelRepo`, `MCBooks`, `MCRecall` add symmetry, sizes and homes;
`MCToolLoop` extends `ToolLoop`; `MCParts` gives the parts their files, trades, offers, cards and
conversations. `FleetTelemetry` is run as it is.

## 4. Runs

| run | asks | bounds |
| --- | --- | --- |
| `record_sequential` | With a caller that waits: a conversation keeps its whole context until it is seeded anew, what is shown is known to the model (`ContextKept`); `AbstractSpec` is implemented. | one conversation, 4 requests, 2 messages a turn, a pool of 1 |
| `record_concurrent` | With requests that overlap: what a turn said off the record is never on disk; no message is twice in the pool, which keeps its limit (`PoolSound`). | 2 conversations (so that one evicts the other), 3 requests |
| `record_straggler` (violation) | A turn in flight writes rows after the switch. | one conversation, 3 requests |
| `loop_exchange` | Reliable network: consent, and after a "quit" nothing but what the policy approves by itself (`OperatorDecides`), answers before the model goes on, an audit row for all that ran, the harness returns. | one tool of each risk and list, 3 calls, 2 an answer, 2 rounds |
| `loop_lossy` | Lost replies, time-outs, failing calls: nothing runs or is recorded twice; no record lies. | 3 calls, 2 asks, failures anywhere |
| `repo_mixture` (violation) | A conversion of a mixture of two revisions. | 2 jobs, 2 shards, pinned revisions |
| `fit_quiet` (violation) | A quiet node, its samples pruned, graded as idle. | 1 node with 2 cards, this host, 4 moments |
| `telemetry_outage` | What the agent holds arrives, the cap drops the oldest, what came in time is summarised before it is pruned. | 3 readings, cap 2, minutes of 2 ticks, 5 ticks |
| `books` | Receivables, payments, stored totals and statuses agree; numbers, immutability, periods, hours billed once; for two overlapping handlers that may break off. | 2 documents of total up to 2, 2 payments, 1 hour, 1 day; money or hours, not both (`MoneyOrHours`) |
| `recall_index` | Nothing erased is findable, no message unaccounted for, each indexed at last. | 2 messages of 2 conversations, one of them rejected by the embedder; 2 models of one width; batches of 2, 2 attempts; 2 faults, clearings, ends and commands in all |
| `parts_safe` | The sixteen safety properties of `Parts`. | see below |
| `parts_live` | An assignment is met; held-back reviews are sent and due forecasts scored; verdicts catch up; jobs end. | four of the parts as in `parts_safe`, with one job, one backend definition, one review row and 2 troubles of the nodes |

*The parts in `parts_safe`.* Nodes: 2 files, one without a digest, 2 versions of different
length, 2 attempts, 3 troubles. Reviews: one symbol, two cycles at once, a cap of 1, 2 rows, a
night that wraps around midnight and none. Trades: a file with two lines of one hash and an
unreadable one, two trades of the exchange alike in all but their id, an order before them, a
second manual buy, two uploads. Canaries: one of the catalogue and one by hand, two handlers,
2 troubles. Alarms: two sources, a cooldown of 2 moments. Backends: 2 names, 2 definitions,
two handlers and the sweep. Backups: 3 seconds, 2 kept, the timer's and another. Archive: one
client, one conversation, 2 messages and 2 texts. Tasks: two routes, 2 tasks, 2 lists. Library:
2 agents, 2 contents, one turn, one upload. Treasury: two clerks, 2 records, 3 entries, 2 days, a tax
that rounds. Model files: two jobs, one revision that moves. Fit: a node with two cards of which the
second is the larger and whose memory holds the largest footprint only when nothing is in use, this host with a card
and no reading of its memory, 2 loads, 2 sizes of model, 2 contexts. Search: three messages of
two conversations of one agent, one without agent and one of another client.

The properties of trades, treasury, fit and search are asked of their subject alone, which loses
nothing, as a part that is not the subject stays as it began.

*Why the bounds are enough.* The hazards are between two actors: two handlers, two jobs,
a turn and a toggle, and each instance has two, or a third to disturb them. A repeated
toggle, a retry, a second payment need two of a thing, and have it. In `recall_index` the
two models have one width, as only then the check at the write lets a foreign vector
through; two troubles are a rebuild beside a command, or a stop in the middle of either.
The invariants were also checked with four troubles, and with three messages and three. A
backlog over its cap needs one reading more than the cap. In `books` one day is enough for
`PeriodsHold`, as a period is locked or not for the one day the entry is for; the entry
of a reversal is for today and that of a payment for its day, and here both are that day.
Money and hours meet in no action, so an instance has either. `MaxBalance` bounds a number
that double reversals drive up without end; a document whose balance would pass it takes no
further entry. `fit_quiet` needs one node and the retention (2 moments, `KeepRaw`) longer than
the age at which a sample is stale (1, `FleetStale`), as in the code (two hours, five minutes).

*Fairness.* `FairSpec` of ToolLoop: handlers run on, replies arrive or the request is given
up, and an operator who was asked answers; nothing makes the operator ask. That the
harness returns rests on the bound on calls as well: across requests the budget of rounds
starts again (`agent.go:261`), so only a model that stops proposing calls ends an
exchange. `FairSpec` of FleetTelemetry: the agent's loop goes on (its ticker),
and strong fairness of delivery, as a network that loses reports over and over
but not for ever is what the agent's retry is for. `FairSpec` of Recall: a handler that
committed a message goes on to queue it (that it fails is the fault `EnqueueFails`), and the
server's indexer goes on, as its ticker and nudges make it; nothing makes the command, the
handlers or a start happen.

`FairSpec` of Parts is that of four parts. Nodes: the agent reports on its ticker, its job goes on, and an
agent that stopped is started again (its unit does it after a failure, whoever stopped it
otherwise). Reviews: a cycle goes on,
being a timer's; strong fairness of `ComposeDigest`, as night comes and goes. Backends: the watch
goes on, and a handler finishes. Model files: a goroutine that can go on does; a transfer that hangs
is an `AttemptFails`.

*Deadlock* is not checked where the system may stop: an operator who has left, jobs that
have ended, a clock at its bound, a ledger with no document left to draft, an index that
is up to date.

*Types.* Each module has its `TypeOK`. Those of `OffTheRecord`, `ToolLoop`, `FleetTelemetry`, `Books` and
`Recall` are proved; the others hold on the instances above and are kept out of the runs, where every
property is about something a type does not say.

*Mutants.* Each property has one: a change of the modelled code (a dropped guard, a
skipped re-check, a swapped sign, an off-by-one) under which TLC finds it violated.

## 5. Proofs

Checked by tlapm, for any number of sessions, requests, readings, documents and so on;
assumed are only the named `ASSUME`s on the constants, which TLC evaluates. Every invariant and every
action property of a passing run is stated by one of these theorems.

`OffTheRecord_proofs`. *TypeCorrect*: `TypeInv`, which adds to the types that the messages
anywhere are of turns that began (`HasMessage`). *RecordedTurnsOnly*: `RecordInv` adds
`WritersOnRecord` (a request about to write a row has a snapshot that is on the record) and
`RowsOnRecord`. *WaitingLeavesNothing* and *WaitingRefines*, for `Overlap = FALSE`:
`WaitingInv` adds `Alone` (one request of a conversation at a time), `Current` (its snapshot
is the row) and `Clean` (no rows off the record); the refinement maps each step to one of
`OnTheRecord` or to none. *PoolStaysSound*: `PoolInv` (the order of use lists a held session once,
within the limit, and nothing is held that it does not list) and `OneTime` (every transcript,
on disk, in memory or copied by a toggle, has a message once and none its turn has
not counted yet, and what a turn is about to persist is not on disk). *WaitingKeepsContext*, for
`Overlap = FALSE`: `ContextInv` adds to both, for each conversation, `Fresh` (a conversation nobody began holds
nothing), `Remembered` (what the
model is told, less what was erased, is what was said, less that: unless it was forgotten or seeded anew) and
`Carried` (what is in memory of a conversation on the record is all that is on disk), and for each request `Serves`:
the transcript a turn chose is still the right one, and a toggle carries the rows as they are. Its steps rest on what `Select` makes of a
sequence that grows or loses a message, and `ConversationSpared` on that a step for one conversation changes
another at most by evicting it.

`FleetTelemetry_proofs`. *NothingLost*: `ArrivalInv`, `OutageSurvived` with `AnswerInv` (a 200
on its way means the batch is stored). *CapKeepsRecent* is a step property.
*Summarised*: `RollInv`, with `FoldedInv` (a reading below the minute mark is in its bucket,
late, or gone by age) and `SummaryInv` (nothing raw is pruned above the mark).

`Books_proofs`. *TypeCorrect*: `TypeInv` is `TypeOK` with `Refs` (a handler past its first
step names a document or a payment that fits the step). *NumbersGapFree* and
*IssuedStays*: `OutInv` says that handlers that void, pay or unpay, and payments, name
documents that have gone out, and that a status about to be stored is one of those; hence
(`QuietSteps`) every step but `Issue` leaves alone which documents are out and what they
say, and `Issue` gives the next number to a draft. The other three share `Marked`: two handlers at
work on one document have put it in `crossed`. *NothingIntoLocked* adds `CheckedFor`: the day
a handler is about to post on was open when it looked, and is open or in `surprised` now.
*HoursBilledOnce* adds `Apart` (two drafts under way share an hour only if it is in `contested`) and
`ReadBy` (an hour about to be billed is on no document that is not void). *AccountsAgree* adds, for each document,
`InOrder`: its terms are those of its entry; with nobody at work its account is `Settled`, which is
the property; and a handler at work owes it exactly what its next writes will make good (`Owes`: after the
reversal the receivables are off by the entry or the payment, after the row they are right and only the
stored total is old). `LedgerInv` is inductive, and says where each handler may break off.

`Collections` has the facts that such proofs need. Sums over finite sets: the fold of the community modules is
a recursive function on subsets, which exists (`SumsExist`) and does not depend on the order of
elements (`SumsAgree`, by a smallest counterexample, as the induction theorems cannot be used); hence what one more
element adds (`SumAdd`), that sums add up element by element (`SumPlus`) and that a sum may be taken group by
group (`SumGroups`), both by `SetsGrow`, which is induction over a finite set for a set of subsets. Recursion
along the naturals: a recursive function on an interval exists when its steps are given as a function
(`Iterated`), and a set of naturals that is closed under successors is climbed (`Climb`). Selections: what `Select` yields of
a sequence that is extended, shortened or selected from twice, and that its elements are drawn in order
(`SelectDrawn`). Rankings: in a total order of a finite set every place has one element (`EveryPlace`), so the
sequence by places is in order (`InPlaceOrder`).

`Recall_proofs`, for any messages, models, widths, batches and limits. *TypeCorrect*: `TypeInv`
is `TypeOK` with `Spare` (a message in a batch is at most at the limit, and below it when two
processes hold it: hence `MaxAttempts + 1`) and `Busy` (only a running process has a batch). *ErasedNotFound*: `FoundInv` adds `Batched` (a batch holds messages to be
indexed, or deleted since, and a deleted message never comes back: so the foreign key is
what stands between a batch and what was erased). *PinNamesTheModel*: `PinInv` (unless
`mixed`, a running process is configured for the pin, if there is one, and a batch past
`SetPin` has read its own model). *NothingLost*: `Accounted` is inductive with the types.

`Parts_proofs`, under `PartsAssumption` and `FundsAssumption`. `Steps`: a step is one of a part and leaves the others as
they are. *OneMail*: `MailInv` is `OneMailPerCooldown` with types, and inductive. *SwitchedIsListening*:
`DecoyInv` says what the one handler at work on a canary owes it (`Owed`: before its rows are
written rows and listener agree; after, the row is as the handler wants it, and the listener
is still to follow), that no handler is at work when the server is down, and that two at work
on one canary are in `astray`. *OwnLibrary*: `LibraryInv` adds that ids below the next are all that
were ever given out, so that a deleted document's id stands for nothing again.
*ReportedWasSent*: a pass that stamps carries no row that is new
(`ReviewInv`). *AlwaysABackup*, for `KeptCopies # 1`: `BackupShape` says that once a backup was reported
there is a complete copy which neither the timer's list nor a failing backup will remove; when the
timer makes its list there are, among the newest, its own copy and at most one more directory
that is not a copy (the other caller's), so two kept are enough and one is not (§6). The
argument counts sets (`OneIsKept`). *RoutesAreSafe*: `TaskInv` says of every route what its
last check still guarantees: ids are given out once and a task never becomes a note, so that what was
checked stays so or is gone. *ArchiveIsSafe*: `ArchiveInv` says that rows have
what they refer to, that the messages of a conversation are numbered from 1 without a gap (so that the
merge, which compares numbers, loses none), and that what an export has written covers what it
names, unless `torn`: something it may miss was begun while it was written.
*LedgerFollows* and *LoanIsGuarded*: `FundInv` follows each record through the ledger (`InLedger`): while it is
booked its entry is the only one made of it, and afterwards its entries add up to nothing on every account
and its original has been reversed, so that whoever reverses it again is seen to. The first
theorem adds this up: the entries of all records, record by record (`SumGroups`), are the postings of the rows that
are left, and each sum over the rows is one of the same postings; every line posted is balanced, hence every balance
sheet. For the second, `CoveredFor`: what a handler is about to take from the loan was owed on its day, unless something
was posted since it looked; and with no entries of a later day that balance is the one of every day
it touches (`LoanStands`).
*RouterServesDeclared*: `ServeInv` follows the one handler that changes the set
through rows, router and catalogue. *OnlyWholeFilesServed*: `StoreInv` says that the part about to be
installed has the promised length and digest (`JobShape`). `FundsAssumption` asks of the constants that amounts are positive and the lines
entered by hand balanced, which is what the code validates.

`ToolLoop_proofs`. `Inv` is `TypeOK` with five parts: `CallsOnce` (a call has at most one answer and
one audit row, and they say whether it ran), `HandlerInv` (what a handler holds of the calls it
still has to run, answer or record), `ClientInv` (the same of the client), `Apart` (no two
requests hold the same call: a reply that is lost leaves a handler at work while the client asks anew) and
`Handed` (only calls of the client's tools are handed to it). *TypeCorrect* and *CallsHappenOnce* follow.
*OperatorIsObeyed* adds that "always" is never given for a destructive tool (`Consent`).
*EveryCallIsAnswered* and *EveryRunIsAudited* add `Quiet`: no request but the current one is at work,
every call made since the operator spoke is answered or held by somebody, and what ran is recorded or is
in the hands of one who will record it. Both assume a network that loses nothing (`~Lossy`), the second
also that no write fails (`~Faults`). The code promises no more: with lost replies TLC finds the
first violated, by a handler that goes on after its client left, and with failing writes the second.

`Parts_model_proofs`. *DownloadsAreWhole* and *RowsAreTruthful*: `RepoInv` is
made of `OneOfAKind` (of each kind of job one is at work), `Measured` (the part to be renamed
is as it was hashed, or deleted; a model about to be recorded is as it was hashed, or deleted) and
`RowTrue`. A job that was cancelled holds its place until it has unwound, and `Measured` rests on that. The first
assumes that digests are published: without one only the length is compared, and TLC finds a
mixture. The second does not.

*TradesAreAccounted*, under `TradesAssumption`. That cash is accounted for holds of any ledger: row by row the
replayed position keeps within half a cent for each sale of what moved (`ReplayNear`), and what a position
is after n rows and what moved with them are followed along the ledger (`CashHolds`). That trades are booked once and none
is lost is `TradeInv`: `LedgerInv` (the rows have different hashes, each is a trade that happened where its source
says, and what was reported as booked has its hash in the ledger), `TradeJobs` (what a request is about to book was
read from its file or seen on the exchange) and `OutsideInv`. The index keeps hashes apart; that rows of
different hashes are different happenings, and one happening is booked once, is `TradesBookedOnce`.

*VerdictsAreKept*, under `FitAssumption` (sizes are naturals). The inductive part, `FitInv`, is small: a row
or a profile, when it was taken, had in use what the machine then had (`Taken`), and a natural left of its memory. The rest is the calculator, for every
size, context and quantisation: `Judged` says what each verdict of `EstimateFit` promises of the free memory it was
given, `Roomy` that the card graded is one of the machine's and its free memory what was read (`NodeRoom`, `LocalRoom`), and
*PromisesKept* puts the two together; `MemoryIsHeld` is the promise of a machine graded without a card; `OffersTaken` is the converse, that a machine with room is found, and `PlanFits` that
the planner takes the best candidate that fits, as `Min` of those is the first.

*RecallIsScoped*, under `SearchAssumption`. `IndexInv` says what the tables keep: whatever is stored in a conversation that
still has its agent was said to that agent, and so was what a vector or the indexer's claim
names; deletion and detaching only take away (`Remembers`). So what a ranker lists is
`Visible`, stays so while the turn goes on, and is what is told (`ListsInv`, `HitsInv`). For the order: every
share 1/(k + rank) is a whole part of `Scale`, a constant that every k + rank divides (`ScaleIs`), one vote weighs at most the first place and, with ranks
up to k + 1, at least half of it and a little more (`ShareOf`), hence `TwoOutvote`; the comparison of scores, first ranks and ids is a
total order, so what is fused is in its order and has nothing twice (`FusedInOrder`); the
cut keeps that and the budget (`ReadInOrder`, `BudgetKept`).

*Only model-checked*: liveness (`HarnessReturns`, `JobsEnd`, `ReadingsArrive`, `IndexedAtLast`,
`AssignedIsServed`, `PassesFinish`, `VerdictsConverge`), which the prover cannot do.

## 6. What the checks found

With a run: a turn in flight writes after the switch (`record_straggler`); a conversion can
mix two revisions (`repo_mixture`); a quiet node whose samples were pruned is graded as
idle (`fit_quiet`).

Seen while modelling and kept in the models as the code has it:

- Off, on, off again: Seed replaces the pool's fuller transcript by what the store holds
  (`transcript.go:296`, against the comment at 288). Hence `reseeded`.
- A deleted message stays in the pool and is replayed to the model (`sessions.go:228`).
- Results whose post is lost leave client actions without an audit row (`turn.go:129`,
  against `README.md:66`); an unknown name is never audited; deleting a session deletes its
  audit rows (`sessions.go:122`, against `README.md:68`). A server tool whose request was
  cancelled is audited with the cancelled context (`agent.go:481`).
- `AlwaysAllow` skips the prompt for destructive tools (`approval.go:64`, against
  `approval.go:34` and `README.md:117`), and "quit" does not stop calls that the policy
  approves (`harness.go:103`, against `README.md:120`).
- The budget of rounds starts again with every post of results (`agent.go:261`); a turn
  stopped by a repeated failure leaves the other calls of its answer without results
  (`agent.go:341`).
- A cancel while a download is hashed ends as failed; a converted model then stays without
  a row. A crash between rename and record leaves the row of the file before. Without a
  published digest a resumed download may mix revisions. Two files of one base name
  share a path and a part.
- A backlog delivered after its minutes were folded is stored below the watermark, never
  summarised, and pruned (`node/rollup.go:166`, against `rollup.go:26`); hence `late`.
- The rename of saveSpool keeps the previous spool from a crash of the agent, not of the machine:
  nothing is synced (`main.go:512`), and what a power cut spoils counts as given up.
- Forgetting a node leaves its buckets (`node/store.go:332`); the minute watermark is one
  for all nodes.
- Ledger: two payments at once can overpay; RecalcInvoicePayments can lose an update and
  can bring back a void document (against `payment.go:50`), and runs after the
  transaction that its comment has it in (`payment.go:225`); two voids at once, or a void
  that stops half way and is repeated, reverse twice; deleting a payment checks the
  payment's period and posts today; a payment on a credit note posts in an invoice's
  direction; voiding never clears the flag of the hours it billed (`crm_bridge.go:46` and
  `docs/accounting.md:75` say the hours are released); a backdated repayment of an owner
  loan is checked against its own day only.
- Recall: an embedder that is away for five sweeps costs the messages of the first batch
  their attempts, and neither the queue nor the backfill, whose INSERT OR IGNORE leaves
  the count as it is, tries them again (`recall/index.go:292`, against `index.go:316` and
  `main.go:177`); only clearing the index does. A rebuild in the middle of a batch leaves vectors
  without a pin, and at the write only widths are compared, so a server and a reindex with
  different models of one width mix their vectors (`recall.go:91`, `index.go:206`). The
  sweep of the queue after forgetting everything drops what was queued since
  (`recall.go:304`).
- AgedReceivables adds the positive outstanding amount of credit notes
  (`accounting/reports.go:298`, against `reports.go:276` and `invoice.go:67`).
- Node store: a part longer than its file is never discarded (`nodestore/fetch.go:299`, `367`); an
  interrupted copy from a share is resumed over HTTP; a failed write of llama-swap's
  configuration leaves the file known (`ingest.go:354`); a node does not fetch again when the
  server's file is replaced; two files of one base name collide.
- Reviews: targets beyond the cap are cut from the same end each time (`review.go:367`; its
  comment at 29 accepts it); the scan skips entries stamped after its cut-off; a review of a deleted
  forecast is refused by its key; a digest is sent at least once, not exactly once.
- Portfolio: price and fee are hashed as digits next to each other, so a trade can be refused
  as the duplicate of another (`service.go:386`); two equal trades in one file count once; the
  broker's order id is not hashed; an order given up may fill and is never booked.
- Canaries: Enable against Disable can leave a disabled canary listening; a deletion cut short,
  or one against Enable, leaves the switch on for a canary created later (against "disabled by
  default", `service.go:187`); a table that cannot be read at the start leaves canaries off.
  SetAlertConfig reads and writes back and can lose a changed password; a failed mail suppresses the next
  for the cooldown.
- Backends: a file's definition is not recognised under a name whose row came first
  (`api/models.go:112`); a just removed backend that is still live is refused as the file's.
- Backups: two in one second share a directory; broken-off directories count for retention. With one
  kept (`KeptCopies` = 1, where TLC refutes `NeverWithoutBackup`) the timer's retention deletes the only
  finished backup while one asked for by a request is being written beside it (`backup.go:117`).
- Archive: beside a live server, a client or conversation that begins while the tables are
  read makes the archive unimportable; a session's `tools` and `web` are not exported; a deleted
  conversation can come back by an import.
- Tasks: edits read and write back and can lose one another; an archived inbox still receives
  tasks; two first requests can make the default list twice; the web can rename the list of
  notes, which the tool refuses; a note beyond 4000 runes is refused although noteFields keeps all of it.
- Library: equal uploads at once are both stored; a deletion cut short, or a conversation opened during it,
  stays pinned to an agent that is gone and is adopted by the next of the same id.
- Treasury: a repayment dated before later entries overdraws the loan (`funding.go:145`, against
  the comment at 137); two deletions at once reverse twice, and one cut short leaves a row
  whose entry is reversed; an expense deleted in a later period makes the note of the VAT summary
  speak of manual activity (`reports.go:355`); the server never sets what RebilledOn stands for.
- Fit: a declared node never heard from is graded on no evidence as "partial", and so is a machine
  without a card whose memory is all in use (`fit.go:387` takes 0 for not known; `Held` exempts it); one failed reading of
  nvidia-smi leaves the list of cards and reports nothing in use, so they look free
  (`cmd/wintermute-node/main.go:297`; exempt as `blind`); a card that was removed is not noticed when it was the last;
  a stale node may come first in the plan, which then answers unknown.
- Search: vectors keep the agent of claim time and DeleteAgent detaches only sessions, so an agent
  created again under an id recalls the conversations of the deleted one; a hit is labelled
  with the conversation's present agent. TruncateToTokens may exceed the budget by a token, and cuts nothing
  for a budget of 1 to 4 (`search.go:441`). With `WINTERMUTE_RECALL_RECENT_TURNS` above 96 the fortieth match that is also the
  97th newest scores less than the best match alone, against "a result that two rankers both like beats one that
  a single ranker loves" (`search.go:34`).

## 7. Not modelled

Plain rows and stateless requests (company, grc, scratch, web search, tables), the formats of
providers and protocols, the Hub's catalogue, rendering in the browser, the units and scripts.
Within the modelled parts: two look-ups of a completion and its fallback (`llm/router.go:185`, which
answers the race itself); a server tool whose request is cancelled while it runs; what other
programs do to the operator's files between the two calls of rename_file
(`client/actions/fs.go:273`); the time an hour's flag stays set after its document was voided
(`accounting/invoice.go:398`), as clearing it is the operator's; calendar events; pruning of old
rows by age. That every vector is of the pinned model (`recall.go:106`) and that the agent's cap keeps the
newest readings (`cmd/wintermute-node/main.go:251`) no run asks: they are theorems (`PinNamesTheModel`, `CapKeepsRecent`).
