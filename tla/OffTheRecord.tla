---------------------------- MODULE OffTheRecord ----------------------------
(***************************************************************************)
(* The record switch of a conversation: where its turns are kept and what  *)
(* happens to them when the operator goes off the record and back on.      *)
(*                                                                         *)
(* A conversation has a row in the store (status, record), its persisted   *)
(* messages (rows) and, once it has been off the record, a transcript in   *)
(* the process's memory (held, ordered by last use in lru).  A request is  *)
(* one HTTP handler: a turn (POST messages or tool results) or a toggle    *)
(* (PATCH memory).  A handler looks the session up ONCE and keeps that     *)
(* snapshot (rec) while other handlers run, so a turn and a toggle are     *)
(* modelled one store or pool call at a time.                              *)
(*                                                                         *)
(* The server does not serialise the requests of one conversation:         *)
(* Overlap = TRUE is its own behaviour.  Overlap = FALSE restricts the     *)
(* environment to a caller that waits for each answer, as the terminal     *)
(* harness does (internal/client/harness.go).                              *)
(***************************************************************************)
EXTENDS Naturals, Sequences, FiniteSets, Selections

CONSTANTS
    Sessions,   \* conversations
    Requests,   \* handler invocations, each used at most once
    MaxHeld,    \* Ephemeral.maxSessions: transcripts the pool keeps
    MaxMsgs,    \* bound: messages appended by one turn
    Overlap     \* may two requests of one conversation be in flight at once?

ASSUME ConstantsAssumption ==
    /\ Sessions # {}
    /\ MaxHeld \in Nat \ {0}
    /\ MaxMsgs \in Nat \ {0}
    /\ Overlap \in BOOLEAN

VARIABLES
    status,     \* store: "new" (not created), "open" or "gone" (deleted)
    record,     \* store: sessions.record
    rows,       \* store: the messages of the session, in seq order
    held,       \* pool: the transcript in memory
    lru,        \* pool: the sessions held, least recently used first
    req,        \* the requests and their local state
    said,       \* history: every message the conversation accepted, in order
    erased,     \* history: the messages an operator deleted
    forgotten,  \* history: the pool dropped this transcript at some point
    reseeded    \* history: a transcript already held was replaced by Seed

store == <<status, record, rows>>
pool  == <<held, lru>>
ghost == <<said, erased, forgotten, reseeded>>
vars  == <<status, record, rows, held, lru, req, said, erased, forgotten,
           reseeded>>

Message == [turn : Requests, n : 1 .. MaxMsgs]

Phase == {"idle", "begun", "append", "persist", "between",
          "seed", "commit", "done"}

Request == [phase : Phase, kind : {"turn", "toggle"}, s : Sessions,
            rec : BOOLEAN, want : BOOLEAN, dual : BOOLEAN,
            n : 0 .. MaxMsgs, hist : Seq(Message)]

TypeOK ==
    /\ status \in [Sessions -> {"new", "open", "gone"}]
    /\ record \in [Sessions -> BOOLEAN]
    /\ rows \in [Sessions -> Seq(Message)]
    /\ held \in [Sessions -> Seq(Message)]
    /\ lru \in Seq(Sessions)
    /\ req \in [Requests -> Request]
    /\ said \in [Sessions -> Seq(Message)]
    /\ erased \in [Sessions -> SUBSET Message]
    /\ forgotten \in [Sessions -> BOOLEAN]
    /\ reseeded \in [Sessions -> BOOLEAN]

-----------------------------------------------------------------------------
(* Helpers                                                                 *)

Elems(q) == { q[i] : i \in 1 .. Len(q) }

\* The sequence without its i-th element.
Without(q, i) == SubSeq(q, 1, i - 1) \o SubSeq(q, i + 1, Len(q))

Has(s) == s \in Elems(lru)

Running(r) == req[r].phase \notin {"idle", "done"}

Busy(s) == \E r \in Requests : Running(r) /\ req[r].s = s

\* A caller that waits for its answers sends nothing to a busy conversation.
MayCall(s) == Overlap \/ ~Busy(s)

-----------------------------------------------------------------------------
(* The pool (Ephemeral)                                                    *)

\* The pool's order after s has been used.
Touch(q, s) ==
    IF s \in Elems(q)
    THEN Append(Without(q, CHOOSE i \in 1 .. Len(q) : q[i] = s), s)
    ELSE Append(q, s)

\* How many of the coldest transcripts evictLocked may drop from q: at least
\* the excess over MaxHeld, and any more that have outlived the ttl.  The
\* transcript that was just used is the last of q and has not.
Evictable(q) ==
    { d \in 0 .. Len(q) - 1 : Len(q) - d <= MaxHeld }

\* Install transcript h for s, then evict: the pool is trimmed against its
\* true size.
Keep(s, h) ==
    LET q == Touch(lru, s)
    IN \E d \in Evictable(q) :
        LET dropped == { q[i] : i \in 1 .. d }
        IN /\ lru' = SubSeq(q, d + 1, Len(q))
           /\ held' = [x \in Sessions |->
                         IF x \in dropped THEN <<>>
                         ELSE IF x = s THEN h ELSE held[x]]
           /\ forgotten' = [x \in Sessions |->
                              forgotten[x] \/ x \in dropped]

-----------------------------------------------------------------------------
(* Requests                                                                *)

IdleRequest ==
    [phase |-> "idle", kind |-> "turn", s |-> CHOOSE s \in Sessions : TRUE,
     rec |-> TRUE, want |-> TRUE, dual |-> FALSE, n |-> 0, hist |-> <<>>]

Init ==
    /\ status = [s \in Sessions |-> "new"]
    /\ record = [s \in Sessions |-> TRUE]
    /\ rows = [s \in Sessions |-> <<>>]
    /\ held = [s \in Sessions |-> <<>>]
    /\ lru = <<>>
    /\ req = [r \in Requests |-> IdleRequest]
    /\ said = [s \in Sessions |-> <<>>]
    /\ erased = [s \in Sessions |-> {}]
    /\ forgotten = [s \in Sessions |-> FALSE]
    /\ reseeded = [s \in Sessions |-> FALSE]

\* A new conversation is on the record.
CreateSession(s) ==
    /\ status[s] = "new"
    /\ status' = [status EXCEPT ![s] = "open"]
    /\ record' = [record EXCEPT ![s] = TRUE]
    /\ UNCHANGED <<rows, pool, req, ghost>>

\* A handler starts: it looks the session up and keeps what it read.
Begin(r, s, kind, want) ==
    /\ req[r].phase = "idle"
    /\ status[s] = "open"
    /\ MayCall(s)
    /\ req' = [req EXCEPT ![r] =
                 [@ EXCEPT !.phase = "begun", !.kind = kind, !.s = s,
                           !.rec = record[s], !.want = want]]
    /\ UNCHANGED <<store, pool, ghost>>

BeginTurn(r, s) == Begin(r, s, "turn", TRUE)

BeginToggle(r, s) == \E want \in BOOLEAN : Begin(r, s, "toggle", want)

-----------------------------------------------------------------------------
(* A turn                                                                  *)

\* transcriptFor: memory when the snapshot is off the record or the pool
\* holds the session, otherwise straight through to the store.
PickTranscript(r) ==
    /\ req[r].phase = "begun" /\ req[r].kind = "turn"
    /\ req' = [req EXCEPT ![r] =
                 [@ EXCEPT !.phase = "append",
                           !.dual = ~req[r].rec \/ Has(req[r].s)]]
    /\ UNCHANGED <<store, pool, ghost>>

\* The turn has something to append: the incoming message, the answer to the
\* history it read, or a tool result following an answer.
Speaking(r) ==
    /\ req[r].kind = "turn"
    /\ req[r].n < MaxMsgs
    /\ \/ req[r].phase = "append"
       \/ req[r].phase = "between" /\ req[r].n >= 2

NextMessage(r) == [turn |-> r, n |-> req[r].n + 1]

\* Mutant: the dual transcript persists whatever the switch says.
AppendMemory_AlwaysPersists(r) ==
    LET s == req[r].s
        m == NextMessage(r)
    IN /\ Speaking(r)
       /\ req[r].dual
       /\ Keep(s, Append(held[s], m))
       /\ said' = [said EXCEPT ![s] = Append(@, m)]
       /\ req' = [req EXCEPT ![r].n = @ + 1, ![r].phase = "persist"]
       /\ UNCHANGED <<store, erased, reseeded>>

\* dualTranscript.Append, first half: memory.  persist is the snapshot's
\* record switch.
AppendMemory(r) ==
    LET s == req[r].s
        m == NextMessage(r)
    IN /\ Speaking(r)
       /\ req[r].dual
       /\ Keep(s, Append(held[s], m))
       /\ said' = [said EXCEPT ![s] = Append(@, m)]
       /\ req' = [req EXCEPT ![r].n = @ + 1,
                             ![r].phase = IF req[r].rec THEN "persist"
                                                        ELSE "between"]
       /\ UNCHANGED <<store, erased, reseeded>>

\* dualTranscript.Append, second half: the store.  A session that is gone
\* fails the foreign key and the turn ends with the error (Abort).
PersistMemory(r) ==
    LET s == req[r].s
    IN /\ req[r].phase = "persist"
       /\ status[s] = "open"
       /\ rows' = [rows EXCEPT ![s] =
                     Append(@, [turn |-> r, n |-> req[r].n])]
       /\ req' = [req EXCEPT ![r].phase = "between"]
       /\ UNCHANGED <<status, record, pool, ghost>>

\* storeTranscript.Append.
AppendStore(r) ==
    LET s == req[r].s
        m == NextMessage(r)
    IN /\ Speaking(r)
       /\ ~req[r].dual
       /\ status[s] = "open"
       /\ rows' = [rows EXCEPT ![s] = Append(@, m)]
       /\ said' = [said EXCEPT ![s] = Append(@, m)]
       /\ req' = [req EXCEPT ![r].n = @ + 1, ![r].phase = "between"]
       /\ UNCHANGED <<status, record, pool, erased, forgotten, reseeded>>

\* Reading the history for the next completion refreshes the pool entry.
ReadHistory(r) ==
    /\ req[r].phase = "between"
    /\ req[r].n < MaxMsgs
    /\ lru' = IF req[r].dual /\ Has(req[r].s) THEN Touch(lru, req[r].s)
                                              ELSE lru
    /\ req' = [req EXCEPT ![r].phase = "append"]
    /\ UNCHANGED <<store, held, ghost>>

\* The model answered, or asked for a tool the client runs.
EndTurn(r) ==
    /\ req[r].phase = "between"
    /\ req[r].n >= 2
    /\ req' = [req EXCEPT ![r].phase = "done"]
    /\ UNCHANGED <<store, pool, ghost>>

-----------------------------------------------------------------------------
(* A toggle: SetMemory                                                     *)

\* Going off the record, as the snapshot sees it: read the rows so far ...
ReadRows(r) ==
    /\ req[r].phase = "begun" /\ req[r].kind = "toggle"
    /\ ~req[r].want /\ req[r].rec
    /\ req' = [req EXCEPT ![r] = [@ EXCEPT !.phase = "seed",
                                           !.hist = rows[req[r].s]]]
    /\ UNCHANGED <<store, pool, ghost>>

\* Mutant: the rows are added to what memory already holds.
SeedPool_Appends(r) ==
    LET s == req[r].s
    IN /\ req[r].phase = "seed"
       /\ Keep(s, held[s] \o req[r].hist)
       /\ reseeded' = [reseeded EXCEPT ![s] = @ \/ Has(s)]
       /\ req' = [req EXCEPT ![r] = [@ EXCEPT !.phase = "commit",
                                              !.hist = <<>>]]
       /\ UNCHANGED <<store, said, erased>>

\* ... carry them into memory ...
SeedPool(r) ==
    LET s == req[r].s
    IN /\ req[r].phase = "seed"
       /\ Keep(s, req[r].hist)
       /\ reseeded' = [reseeded EXCEPT ![s] = @ \/ Has(s)]
       /\ req' = [req EXCEPT ![r] = [@ EXCEPT !.phase = "commit",
                                              !.hist = <<>>]]
       /\ UNCHANGED <<store, said, erased>>

\* Mutant: the switch is flipped without carrying the rows into memory.
CommitToggle_Unseeded(r) ==
    LET s == req[r].s
    IN /\ req[r].kind = "toggle"
       /\ req[r].phase \in {"begun", "commit"}
       /\ IF status[s] = "open"
          THEN /\ record' = [record EXCEPT ![s] = req[r].want]
               /\ rows' = IF req[r].want THEN rows
                                         ELSE [rows EXCEPT ![s] = <<>>]
          ELSE UNCHANGED <<record, rows>>
       /\ req' = [req EXCEPT ![r].phase = "done"]
       /\ UNCHANGED <<status, pool, ghost>>

\* Mutant: the switch is flipped and the rows stay.
CommitToggle_KeepsRows(r) ==
    LET s == req[r].s
    IN /\ req[r].kind = "toggle"
       /\ \/ req[r].phase = "commit"
          \/ req[r].phase = "begun" /\ (req[r].want \/ ~req[r].rec)
       /\ record' = IF status[s] = "open"
                    THEN [record EXCEPT ![s] = req[r].want] ELSE record
       /\ req' = [req EXCEPT ![r].phase = "done"]
       /\ UNCHANGED <<status, rows, pool, ghost>>

\* ... and flip the switch, deleting the rows in the same transaction.  Any
\* other toggle comes straight here.  A session that is gone matches no row.
CommitToggle(r) ==
    LET s == req[r].s
    IN /\ req[r].kind = "toggle"
       /\ \/ req[r].phase = "commit"
          \/ req[r].phase = "begun" /\ (req[r].want \/ ~req[r].rec)
       /\ IF status[s] = "open"
          THEN /\ record' = [record EXCEPT ![s] = req[r].want]
               /\ rows' = IF req[r].want THEN rows
                                         ELSE [rows EXCEPT ![s] = <<>>]
          ELSE UNCHANGED <<record, rows>>
       /\ req' = [req EXCEPT ![r].phase = "done"]
       /\ UNCHANGED <<status, pool, ghost>>

-----------------------------------------------------------------------------
(* Everything else                                                         *)

\* A request fails at any point: the caller hangs up and cancels its context,
\* the completion fails, the store refuses.  What it already did stays.
Abort(r) ==
    /\ Running(r)
    /\ req' = [req EXCEPT ![r] = [@ EXCEPT !.phase = "done", !.hist = <<>>]]
    /\ UNCHANGED <<store, pool, ghost>>

\* The browser displays an off-the-record conversation from the pool, which
\* refreshes its entry.
ShowMessages(s) ==
    /\ status[s] = "open" /\ MayCall(s)
    /\ ~record[s] /\ Has(s)
    /\ lru' = Touch(lru, s)
    /\ UNCHANGED <<store, held, req, ghost>>

\* One message is deleted, from the store alone.
DeleteMessage(s) ==
    /\ status[s] = "open" /\ MayCall(s)
    /\ \E i \in 1 .. Len(rows[s]) :
         /\ erased' = [erased EXCEPT ![s] = @ \cup {rows[s][i]}]
         /\ rows' = [rows EXCEPT ![s] = Without(@, i)]
    /\ UNCHANGED <<status, record, pool, req, said, forgotten, reseeded>>

\* The conversation is deleted; its rows go by cascade, its entry in the pool
\* stays until it is evicted.
DeleteSession(s) ==
    /\ status[s] = "open" /\ MayCall(s)
    /\ status' = [status EXCEPT ![s] = "gone"]
    /\ rows' = [rows EXCEPT ![s] = <<>>]
    /\ UNCHANGED <<record, pool, req, ghost>>

\* The process restarts: every request and the whole pool are lost.
Restart ==
    /\ held' = [s \in Sessions |-> <<>>]
    /\ lru' = <<>>
    /\ forgotten' = [s \in Sessions |-> forgotten[s] \/ Has(s)]
    /\ req' = [r \in Requests |->
                 IF Running(r)
                 THEN [req[r] EXCEPT !.phase = "done", !.hist = <<>>]
                 ELSE req[r]]
    /\ UNCHANGED <<store, said, erased, reseeded>>

Turn(r) ==
    \/ \E s \in Sessions : BeginTurn(r, s)
    \/ PickTranscript(r)
    \/ AppendMemory(r)
    \/ PersistMemory(r)
    \/ AppendStore(r)
    \/ ReadHistory(r)
    \/ EndTurn(r)

Toggle(r) ==
    \/ \E s \in Sessions : BeginToggle(r, s)
    \/ ReadRows(r)
    \/ SeedPool(r)
    \/ CommitToggle(r)

Next ==
    \/ \E r \in Requests : Turn(r) \/ Toggle(r) \/ Abort(r)
    \/ \E s \in Sessions : \/ CreateSession(s)
                           \/ ShowMessages(s)
                           \/ DeleteMessage(s)
                           \/ DeleteSession(s)
    \/ Restart

Spec == Init /\ [][Next]_vars

-----------------------------------------------------------------------------
(* What the switch promises                                                *)

\* The transcript the next turn would hand to the model.
View(s) == IF ~record[s] \/ Has(s) THEN held[s] ELSE rows[s]

\* The transcript the browser displays (handleMessages).
Shown(s) == IF record[s] THEN rows[s] ELSE held[s]

Kept(q, s) == Select(q, Message \ erased[s])

\* A conversation that is off the record has nothing on disk.
OffRecordLeavesNothing ==
    \A s \in Sessions : ~record[s] => rows[s] = <<>>

\* A row on disk was written by a turn that began on the record: what is said
\* in a turn that began off it is never committed, not when the switch goes
\* back on and not by a handler that was overtaken by a toggle.
UnrecordedStaysUnrecorded ==
    \A s \in Sessions : \A m \in Elems(rows[s]) : req[m.turn].rec

\* Between requests the next turn sees everything said, in order, until the
\* pool drops the transcript (eviction, ttl, restart) or Seed replaces one that
\* it held: a conversation keeps its context through every toggle, including
\* one that failed halfway.
WholeUntilReseeded ==
    \A s \in Sessions :
        status[s] = "open" /\ ~Busy(s) /\ ~forgotten[s] /\ ~reseeded[s]
            => Kept(View(s), s) = Kept(said[s], s)

\* The browser never shows, between requests, a message that the model will
\* not be given, unless the pool dropped the transcript.
ShownIsKnown ==
    \A s \in Sessions :
        status[s] = "open" /\ ~Busy(s) /\ ~forgotten[s]
            => Elems(Shown(s)) \subseteq Elems(View(s))

\* Both: what is said, shown and given to the model stays one conversation.
ContextKept == WholeUntilReseeded /\ ShownIsKnown

\* No message is in a transcript twice, on disk or in memory, however turns,
\* toggles and restarts interleave.
NoMessageTwice ==
    \A s \in Sessions :
        /\ Cardinality(Elems(rows[s])) = Len(rows[s])
        /\ Cardinality(Elems(held[s])) = Len(held[s])

\* The pool never settles over its limit, and holds nothing for a session it
\* does not list.
PoolWithinLimit ==
    /\ Len(lru) <= MaxHeld
    /\ Cardinality(Elems(lru)) = Len(lru)
    /\ \A s \in Sessions : ~Has(s) => held[s] = <<>>

\* Whatever order turns and toggles take, the pool keeps its limit, and neither
\* it nor the store holds a message twice (Ephemeral.Seed, evictLocked).
PoolSound == NoMessageTwice /\ PoolWithinLimit

\* The same promise at the level of the store: see OnTheRecord.
Disk == [s \in Sessions |-> Elems(rows[s])]

Abstract == INSTANCE OnTheRecord WITH disk <- Disk

AbstractSpec == Abstract!Spec

=============================================================================
