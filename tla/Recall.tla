------------------------------- MODULE Recall -------------------------------
(***************************************************************************)
(* The retrieval index over the stored conversations (internal/recall):    *)
(* vectors and lexical terms derived from messages, the queue of messages  *)
(* still to index, the embedder the index is pinned to, and the operations *)
(* that clear them.                                                        *)
(*                                                                         *)
(* Two processes index: the server, behind its write path, and the command *)
(* -backfill-memory / -reindex-memory, which opens the same database and   *)
(* may run beside it.  A statement or a transaction is one step; an        *)
(* indexer embeds between two of them, with nothing locked.                *)
(*                                                                         *)
(* Which message a query finds is not modelled, only what can be found.    *)
(***************************************************************************)
EXTENDS Naturals, FiniteSets

CONSTANTS
    Messages,       \* messages ever written
    Sessions,       \* conversations
    Home,           \* the conversation of a message
    Bad,            \* messages the embedder rejects, with the whole request
    Models,         \* embedding models
    Width,          \* how wide the vectors of a model are
    Batch,          \* messages embedded per request (16)
    MaxAttempts,    \* failures after which a message is left alone (5)
    MaxTrouble      \* bound: faults, process ends, clearings and commands in all

ASSUME RecallAssumption ==
    /\ Home \in [Messages -> Sessions]
    /\ Bad \subseteq Messages
    /\ Width \in [Models -> Nat]
    /\ Batch \in Nat \ {0} /\ MaxAttempts \in Nat \ {0} /\ MaxTrouble \in Nat
    /\ "none" \notin Models /\ "down" \notin Models

Processes == {"server", "command"}

VARIABLES
    session,    \* sessions: none yet, open, gone
    message,    \* messages: none yet, spoken, silent (a tool's result or an
                \* empty text, not to be indexed), gone
    unqueued,   \* messages committed by a turn that has not queued them yet
    queue,      \* recall_queue; in what order it was filled is left open
    attempts,   \* recall_queue.attempts
    vectors,    \* recall_vectors: the model that made the message's vector
    terms,      \* recall_fts: messages with a lexical entry
    pin,        \* recall_meta.embedding_model
    model,      \* the model each process is configured with
    index,      \* where each process is in IndexBatch
    admin,      \* what the rebuild or forget handler does next
    command,    \* what the command does next
    trouble,    \* those that happened so far
    owed,       \* history: messages that only a backfill will pick up
    mixed       \* history: the pin was removed under vectors or a batch, or
                \* two processes ran with different models

store == <<session, message, vectors, terms, pin>>
work == <<unqueued, queue, attempts>>
procs == <<model, index, admin, command>>
vars == <<store, work, procs, trouble, owed, mixed>>

Idle == [at |-> "idle", items |-> {}, pin |-> "none"]

TypeOK ==
    /\ session \in [Sessions -> {"none", "open", "gone"}]
    /\ message \in [Messages -> {"none", "spoken", "silent", "gone"}]
    /\ unqueued \subseteq Messages
    /\ queue \subseteq Messages
    /\ attempts \in [Messages -> 0 .. MaxAttempts + 1]  \* two processes may fail at once
    /\ vectors \in [Messages -> Models \cup {"none"}]
    /\ terms \subseteq Messages
    /\ pin \in Models \cup {"none"}
    /\ model \in [Processes -> Models \cup {"down"}]
    /\ index \in [Processes -> [at : {"idle", "embed", "pin", "read", "write"},
                                items : SUBSET Messages,
                                pin : Models \cup {"none"}]]
    /\ admin \in {"none", "requeue", "sweep", "unpin"}
    /\ command \in {"off", "clear", "requeue", "drain"}
    /\ trouble \in 0 .. MaxTrouble
    /\ owed \subseteq Messages /\ mixed \in BOOLEAN

Init ==
    /\ session = [s \in Sessions |-> "none"]
    /\ message = [m \in Messages |-> "none"]
    /\ unqueued = {} /\ queue = {}
    /\ attempts = [m \in Messages |-> 0]
    /\ vectors = [m \in Messages |-> "none"]
    /\ terms = {} /\ pin = "none"
    /\ model = [p \in Processes |-> "down"]
    /\ index = [p \in Processes |-> Idle]
    /\ admin = "none" /\ command = "off"
    /\ trouble = 0 /\ owed = {} /\ mixed = FALSE

-----------------------------------------------------------------------------
(* The tables                                                              *)

Indexed == { m \in Messages : vectors[m] # "none" }
Spoken == { m \in Messages : message[m] = "spoken" }
Kept == { m \in Messages : message[m] \in {"spoken", "silent"} }
Up == model["server"] # "down"

\* Rows leave the queue; a row that comes back starts at no attempts.
Dequeue(ms) ==
    /\ queue' = queue \ ms
    /\ attempts' = [m \in Messages |-> IF m \in ms THEN 0 ELSE attempts[m]]

\* INSERT OR IGNORE, of messages that exist.
AddToQueue(ms) == queue' = queue \cup ms /\ UNCHANGED attempts

\* Messages are deleted: their vectors and queue rows go by foreign key, their
\* terms by the trigger.
Erase(ms) ==
    /\ message' = [m \in Messages |-> IF m \in ms THEN "gone" ELSE message[m]]
    /\ vectors' = [m \in Messages |-> IF m \in ms THEN "none" ELSE vectors[m]]
    /\ terms' = terms \ ms
    /\ Dequeue(ms)
    /\ owed' = owed \ ms

Trouble == trouble < MaxTrouble /\ trouble' = trouble + 1

-----------------------------------------------------------------------------
(* Conversations                                                           *)

CreateSession(s) ==
    /\ Up /\ session[s] = "none"
    /\ session' = [session EXCEPT ![s] = "open"]
    /\ UNCHANGED <<message, vectors, terms, pin, work, procs, trouble, owed, mixed>>

\* The turn commits; a transcript with an indexer goes on to queue.
AppendMessages(m) ==
    /\ Up /\ session[Home[m]] = "open" /\ message[m] = "none"
    /\ \E kind \in {"spoken", "silent"} : message' = [message EXCEPT ![m] = kind]
    /\ unqueued' = unqueued \cup {m}
    /\ UNCHANGED <<session, vectors, terms, pin, queue, attempts, procs, trouble, owed, mixed>>

\* Indexer.Enqueue; the foreign key refuses a message deleted meanwhile.
Enqueue(m) ==
    /\ m \in unqueued
    /\ unqueued' = unqueued \ {m}
    /\ AddToQueue({m} \cap Kept)
    /\ UNCHANGED <<store, procs, trouble, owed, mixed>>

\* The failure is only logged: the message is left to a backfill.
EnqueueFails(m) ==
    /\ m \in unqueued /\ Trouble
    /\ unqueued' = unqueued \ {m}
    /\ owed' = owed \cup ({m} \cap Spoken)
    /\ UNCHANGED <<store, queue, attempts, procs, mixed>>

DeleteMessage(m) ==
    /\ Up /\ m \in Kept
    /\ Erase({m})
    /\ UNCHANGED <<session, pin, unqueued, procs, trouble, mixed>>

\* SetSessionMemory off the record.
Purge(s) ==
    /\ Up /\ session[s] = "open"
    /\ Erase({ m \in Kept : Home[m] = s })
    /\ UNCHANGED <<session, pin, unqueued, procs, trouble, mixed>>

DeleteSession(s) ==
    /\ Up /\ session[s] = "open"
    /\ session' = [session EXCEPT ![s] = "gone"]
    /\ Erase({ m \in Kept : Home[m] = s })
    /\ UNCHANGED <<pin, unqueued, procs, trouble, mixed>>

-----------------------------------------------------------------------------
(* IndexBatch                                                              *)

Runs(p) == IF p = "server" THEN Up ELSE command = "drain"

\* What is left of the queue to try.
Claimable == { m \in queue : attempts[m] < MaxAttempts }

Batches(rows) ==
    { b \in SUBSET rows : Cardinality(b) =
        IF Cardinality(rows) < Batch THEN Cardinality(rows) ELSE Batch }

\* The pass is over: the server waits for a nudge or its next tick, the
\* command ends (at once with an error, or with a batch that held nothing).
EndPass(p) ==
    /\ index' = [index EXCEPT ![p] = Idle]
    /\ IF p = "server"
       THEN UNCHANGED <<model, command>>
       ELSE command' = "off" /\ model' = [model EXCEPT ![p] = "down"]

Take(p, items) ==
    IF items = {} THEN EndPass(p)
    ELSE /\ index' = [index EXCEPT ![p] = [Idle EXCEPT !.at = "embed", !.items = items]]
         /\ UNCHANGED <<model, command>>

\* claim: the first rows - the oldest in the code, any here - of which those
\* that are not to be indexed are dropped.
Claim(p) ==
    \E rows \in Batches(Claimable) :
        /\ Runs(p) /\ index[p].at = "idle" /\ (p = "server" => rows # {})
        /\ Dequeue(rows \ Spoken)
        /\ Take(p, rows \cap Spoken)
        /\ UNCHANGED <<store, unqueued, admin, trouble, owed, mixed>>

Embed(p) ==
    /\ index[p].at = "embed" /\ index[p].items \cap Bad = {}
    /\ index' = [index EXCEPT ![p].at = "pin"]
    /\ UNCHANGED <<store, work, model, admin, command, trouble, owed, mixed>>

\* Mutant: a failed batch is not counted.
EmbedFails_Uncounted(p) ==
    /\ index[p].at = "embed"
    /\ EndPass(p)
    /\ UNCHANGED <<store, work, admin, trouble, owed, mixed>>

\* Mutant: a row is deleted with its last attempt.
EmbedFails_Drops(p) ==
    /\ index[p].at = "embed"
    /\ LET last == { m \in index[p].items : attempts[m] + 1 = MaxAttempts }
       IN /\ queue' = queue \ last
          /\ attempts' = [m \in Messages |-> IF m \in last THEN 0
                            ELSE IF m \in index[p].items \cap queue THEN attempts[m] + 1
                            ELSE attempts[m]]
    /\ EndPass(p)
    /\ UNCHANGED <<store, unqueued, admin, trouble, owed, mixed>>

\* The embedder is down, or rejects one input and with it the request.  Every
\* message of the batch that is still queued counts a failure.
EmbedFails(p) ==
    /\ index[p].at = "embed"
    /\ attempts' = [m \in Messages |->
           IF m \in index[p].items \cap queue THEN attempts[m] + 1 ELSE attempts[m]]
    /\ EndPass(p)
    /\ UNCHANGED <<store, unqueued, queue, admin, trouble, owed, mixed>>

\* SetPin: ON CONFLICT DO NOTHING.
SetPin(p) ==
    /\ index[p].at = "pin"
    /\ pin' = IF pin = "none" THEN model[p] ELSE pin
    /\ index' = [index EXCEPT ![p].at = "read"]
    /\ UNCHANGED <<session, message, vectors, terms, work, model, admin, command,
                   trouble, owed, mixed>>

ReadPin(p) ==
    /\ index[p].at = "read"
    /\ index' = [index EXCEPT ![p] = [@ EXCEPT !.at = "write", !.pin = pin]]
    /\ UNCHANGED <<store, work, model, admin, command, trouble, owed, mixed>>

\* The width of every vector is that of the pin that was read.
Fits(p) == index[p].pin # "none" => Width[index[p].pin] = Width[model[p]]

\* Mutant: terms first, in a statement of their own.
Write_TermsApart(p) ==
    LET i == index[p]
    IN /\ i.at = "write" /\ Fits(p)
       /\ terms' = terms \cup i.items
       /\ vectors' = [m \in Messages |-> IF m \in i.items \cap Kept THEN model[p] ELSE vectors[m]]
       /\ Dequeue(i.items)
       /\ index' = [index EXCEPT ![p] = Idle]
       /\ UNCHANGED <<session, message, pin, unqueued, model, admin, command, trouble, owed, mixed>>

\* The transaction: the width is checked, vectors and terms replaced, the rows
\* dequeued.
Write(p) ==
    LET i == index[p]
    IN /\ i.at = "write" /\ Fits(p) /\ i.items \subseteq Kept
       /\ vectors' = [m \in Messages |-> IF m \in i.items THEN model[p] ELSE vectors[m]]
       /\ terms' = terms \cup i.items
       /\ Dequeue(i.items)
       /\ index' = [index EXCEPT ![p] = Idle]
       /\ UNCHANGED <<session, message, pin, unqueued, model, admin, command, trouble, owed, mixed>>

\* It is rolled back: a vector of another width, or a message that is gone.
\* The failure is not counted.
Rollback(p) ==
    LET i == index[p]
    IN /\ i.at = "write" /\ ~(Fits(p) /\ i.items \subseteq Kept)
       /\ EndPass(p)
       /\ UNCHANGED <<store, work, admin, trouble, owed, mixed>>

\* Any statement may fail on the store; that is not counted either.
StoreFails(p) ==
    /\ index[p].at # "idle" /\ Trouble
    /\ EndPass(p)
    /\ UNCHANGED <<store, work, admin, owed, mixed>>

IndexBatch(p) ==
    \/ Claim(p) \/ Embed(p) \/ EmbedFails(p) \/ SetPin(p) \/ ReadPin(p)
    \/ Write(p) \/ Rollback(p)

-----------------------------------------------------------------------------
(* Clearing and queueing again                                             *)

\* Is there a batch whose process has set the pin and not yet written?
Pinned == \E p \in Processes : index[p].at \in {"read", "write"}

\* One transaction.  What is stored waits for the QueueEverything that follows.
ClearIndex ==
    /\ vectors' = [m \in Messages |-> "none"]
    /\ terms' = {} /\ pin' = "none"
    /\ queue' = {} /\ attempts' = [m \in Messages |-> 0]
    /\ owed' = Spoken
    /\ mixed' = (mixed \/ Pinned)
    /\ UNCHANGED <<session, message>>

\* One statement: what is to be indexed and is not.  Rows already queued keep
\* their attempts, so that a message left alone is not tried again.  (A text of
\* line breaks alone passes SQL's TRIM, is queued, and dropped again by claim.)
QueueEverything ==
    /\ AddToQueue(Spoken \ Indexed)
    /\ owed' = {}

\* handleRebuildMemoryIndex
Rebuild ==
    /\ Up /\ admin = "none" /\ Trouble
    /\ ClearIndex
    /\ admin' = "requeue"
    /\ UNCHANGED <<unqueued, model, index, command>>

Requeue ==
    /\ admin = "requeue"
    /\ QueueEverything
    /\ admin' = "none"
    /\ UNCHANGED <<store, unqueued, model, index, command, trouble, mixed>>

\* handleForgetEverything: three statements.  The first deletes every session,
Forget ==
    /\ Up /\ admin = "none" /\ Trouble
    /\ session' = [s \in Sessions |-> IF session[s] = "open" THEN "gone" ELSE session[s]]
    /\ Erase(Kept)
    /\ admin' = "sweep"
    /\ UNCHANGED <<pin, unqueued, model, index, command, mixed>>

\* the second the queue, with what a turn queued since,
Sweep ==
    /\ admin = "sweep"
    /\ queue' = {} /\ attempts' = [m \in Messages |-> 0]
    /\ owed' = owed \cup (queue \cap Spoken)
    /\ admin' = "unpin"
    /\ UNCHANGED <<store, unqueued, model, index, command, trouble, mixed>>

\* the third the pin.
Unpin ==
    /\ admin = "unpin"
    /\ pin' = "none"
    /\ mixed' = (mixed \/ Pinned \/ Indexed # {})
    /\ admin' = "none"
    /\ UNCHANGED <<session, message, vectors, terms, work, model, index, command, trouble, owed>>

AdminFails ==
    /\ admin # "none" /\ Trouble
    /\ admin' = "none"
    /\ UNCHANGED <<store, work, model, index, command, owed, mixed>>

-----------------------------------------------------------------------------
(* Processes                                                               *)

\* app.New: CheckPin.
StartServer(m) ==
    /\ ~Up /\ pin \in {"none", m}
    /\ model' = [model EXCEPT !["server"] = m]
    /\ mixed' = (mixed \/ model["command"] \notin {"down", m})
    /\ UNCHANGED <<store, work, index, admin, command, trouble, owed>>

\* Its handlers, its indexer and what they still had to do are gone.
StopServer ==
    /\ Up /\ Trouble
    /\ model' = [model EXCEPT !["server"] = "down"]
    /\ index' = [index EXCEPT !["server"] = Idle]
    /\ admin' = "none" /\ unqueued' = {}
    /\ owed' = owed \cup (unqueued \cap Spoken)
    /\ UNCHANGED <<store, queue, attempts, command, mixed>>

\* maintainIndex: a backfill checks the pin, a reindex is about to clear it.
StartCommand(m) ==
    /\ command = "off" /\ Trouble
    /\ \/ pin \in {"none", m} /\ command' = "requeue"
       \/ command' = "clear"
    /\ model' = [model EXCEPT !["command"] = m]
    /\ mixed' = (mixed \/ model["server"] \notin {"down", m})
    /\ UNCHANGED <<store, work, index, admin, owed>>

CommandClears ==
    /\ command = "clear"
    /\ ClearIndex
    /\ command' = "requeue"
    /\ UNCHANGED <<unqueued, model, index, admin, trouble>>

CommandQueues ==
    /\ command = "requeue"
    /\ QueueEverything
    /\ command' = "drain"
    /\ UNCHANGED <<store, unqueued, model, index, admin, trouble, mixed>>

\* An error, or an interrupt.
CommandEnds ==
    /\ command # "off" /\ Trouble
    /\ EndPass("command")
    /\ UNCHANGED <<store, work, admin, owed, mixed>>

-----------------------------------------------------------------------------
Next ==
    \/ \E m \in Messages : AppendMessages(m) \/ Enqueue(m) \/ EnqueueFails(m) \/ DeleteMessage(m)
    \/ \E s \in Sessions : CreateSession(s) \/ Purge(s) \/ DeleteSession(s)
    \/ \E p \in Processes : IndexBatch(p) \/ StoreFails(p)
    \/ Rebuild \/ Requeue \/ Forget \/ Sweep \/ Unpin \/ AdminFails
    \/ \E m \in Models : StartServer(m) \/ StartCommand(m)
    \/ StopServer \/ CommandClears \/ CommandQueues \/ CommandEnds

Spec == Init /\ [][Next]_vars

\* Handlers queue what they committed, and the server's loop goes on with its
\* queue on every nudge and tick.
FairSpec ==
    /\ Spec
    /\ \A m \in Messages : WF_vars(Enqueue(m))
    /\ WF_vars(IndexBatch("server"))

-----------------------------------------------------------------------------
(* Properties                                                              *)

\* What can be retrieved is what is stored: a message that was deleted, with
\* its conversation or when that went off the record, has neither a vector nor
\* terms, though a batch that holds it may be on its way; and the two halves
\* of the index hold the same messages (index.go: IndexBatch; 0014_recall.sql).
NothingErasedFound ==
    terms = Indexed /\ Indexed \subseteq Spoken

\* Every vector was made by the pinned model, unless the pin was removed under
\* vectors or a batch, or two processes ran with different models at once
\* (recall.go: SetPin, CheckPin, ClearIndex, ForgetEverything).
OneModel == mixed \/ \A m \in Indexed : vectors[m] = pin

\* No message falls between the conversation and the index: it is indexed, or
\* queued, or about to be, or a backfill is owed for it - after a failure that
\* was only logged, a process that ended, or a queue that was swept.
Accounted ==
    Spoken \ owed \subseteq Indexed \cup queue \cup unqueued

\* While the server is up, every message written gets into the index, unless
\* it is deleted, left to a backfill, or has failed MaxAttempts times: a
\* message the embedder rejects does not hold up those behind it for good
\* (index.go: drain, recordFailure).
IndexedAtLast ==
    \A m \in Messages :
        message[m] = "spoken" ~>
            \/ vectors[m] # "none" \/ message[m] = "gone"
            \/ m \in owed \/ attempts[m] >= MaxAttempts
            \/ ~Up \/ mixed

=============================================================================
