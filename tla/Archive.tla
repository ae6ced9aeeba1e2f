------------------------------- MODULE Archive ------------------------------
(***************************************************************************)
(* The portable history (internal/utilities/export.go): one server writes  *)
(* its conversations to an archive, table by table while it goes on        *)
(* serving, and another merges archives into its own, as often as anybody  *)
(* likes.                                                                  *)
(***************************************************************************)
EXTENDS Naturals, FiniteSets

CONSTANTS
    Clients,        \* by name
    Sessions,       \* by id
    Seqs,           \* bound: the places of messages in a conversation, 1 .. n
    Texts,          \* contents of messages
    MaxTrouble      \* bound: removals, failures

VARIABLES
    home,       \* the database of the server that exports
    away,       \* the database of the server that imports
    archive,    \* what is written so far, and which table is next
    refused,    \* did the last import fail?
    trouble,    \* what happened so far of what MaxTrouble bounds
    torn        \* history: was something begun while this archive was written?

vars == <<home, away, archive, refused, trouble, torn>>

Messages == [of : Sessions, seq : Seqs, text : Texts]
\* owner: the client of each session; audit: the sessions with an audited call
Databases == [clients : SUBSET Clients, owner : [Sessions -> Clients \cup {"none"}],
              messages : SUBSET Messages, audit : SUBSET Sessions]
Empty == [clients |-> {}, owner |-> [s \in Sessions |-> "none"], messages |-> {}, audit |-> {}]
NoArchive == [next |-> "none", data |-> Empty]
Tables == {"clients", "sessions", "messages", "audit"}

TypeOK ==
    /\ home \in Databases /\ away \in Databases
    /\ archive.next \in Tables \cup {"none", "done"} /\ archive.data \in Databases
    /\ refused \in BOOLEAN /\ torn \in BOOLEAN /\ trouble \in 0 .. MaxTrouble

Init ==
    /\ home = Empty /\ away = Empty
    /\ archive = NoArchive /\ refused = FALSE
    /\ trouble = 0 /\ torn = FALSE

Trouble == trouble < MaxTrouble /\ trouble' = trouble + 1
Writing == archive.next \in Tables
Held(db) == { s \in Sessions : db.owner[s] # "none" }

-----------------------------------------------------------------------------
(* The two servers (internal/store)                                        *)

\* Every change of a database, and whether it begins something.
AddClient(db, new) ==
    \E c \in Clients \ db.clients : new = [db EXCEPT !.clients = @ \cup {c}]

CreateSession(db, new) ==
    \E s \in Sessions \ Held(db), c \in db.clients : new = [db EXCEPT !.owner[s] = c]

AppendMessage(db, new) ==
    \E s \in Held(db), t \in Texts :
        LET n == Cardinality({ m \in db.messages : m.of = s }) + 1
        IN /\ n \in Seqs
           /\ new = [db EXCEPT !.messages = @ \cup {[of |-> s, seq |-> n, text |-> t]}]

AuditCall(db, new) ==
    \E s \in Held(db) \ db.audit : new = [db EXCEPT !.audit = @ \cup {s}]

\* What refers to a session goes with it (ON DELETE CASCADE): one is deleted,
\* or those that were not touched for long are pruned.
Without(db, gone) ==
    [db EXCEPT !.owner = [s \in Sessions |-> IF s \in gone THEN "none" ELSE db.owner[s]],
               !.messages = { m \in @ : m.of \notin gone },
               !.audit = @ \ gone]

DeleteSessions(db, new) ==
    \E gone \in SUBSET Held(db) \ {{}} : new = Without(db, gone)

DeleteClient(db, new) ==
    \E c \in db.clients :
        new = [Without(db, { s \in Sessions : db.owner[s] = c }) EXCEPT !.clients = @ \ {c}]

\* PruneMuninn: the audit alone.
PruneAudit(db, new) ==
    \E s \in db.audit : new = [db EXCEPT !.audit = @ \ {s}]

Serve(db, new) == AppendMessage(db, new) \/ AuditCall(db, new)
Start(db, new) == AddClient(db, new) \/ CreateSession(db, new)
Drop(db, new) == DeleteSessions(db, new) \/ DeleteClient(db, new) \/ PruneAudit(db, new)

AtHome ==
    /\ \/ Serve(home, home') /\ UNCHANGED <<trouble, torn>>
       \/ Start(home, home') /\ torn' = (torn \/ Writing) /\ UNCHANGED trouble
       \/ Drop(home, home') /\ Trouble /\ UNCHANGED torn
    /\ UNCHANGED <<away, archive, refused>>

Elsewhere ==
    /\ \/ (Serve(away, away') \/ Start(away, away')) /\ UNCHANGED trouble
       \/ Drop(away, away') /\ Trouble
    /\ UNCHANGED <<home, archive, refused, torn>>

-----------------------------------------------------------------------------
(* ExportMemory                                                            *)

ExportBegins ==
    /\ ~Writing
    /\ archive' = [next |-> "clients", data |-> Empty]
    /\ torn' = FALSE
    /\ UNCHANGED <<home, away, refused, trouble>>

\* Mutant: the messages are read before the conversations.
After_MessagesFirst(table) ==
    CASE table = "clients" -> "messages" [] table = "messages" -> "sessions"
      [] table = "sessions" -> "audit" [] OTHER -> "done"

\* The order of the queries.
After(table) ==
    CASE table = "clients" -> "sessions" [] table = "sessions" -> "messages"
      [] table = "messages" -> "audit" [] OTHER -> "done"

\* writeJSONL: one table, as it is now.  The manifest and its checksums come
\* last.
ExportTable ==
    /\ Writing
    /\ archive' =
        [next |-> After(archive.next),
         data |-> CASE archive.next = "clients" -> [archive.data EXCEPT !.clients = home.clients]
                    [] archive.next = "sessions" -> [archive.data EXCEPT !.owner = home.owner]
                    [] archive.next = "messages" -> [archive.data EXCEPT !.messages = home.messages]
                    [] archive.next = "audit" -> [archive.data EXCEPT !.audit = home.audit]]
    /\ UNCHANGED <<home, away, refused, trouble, torn>>

\* A half-written archive is removed, or has no manifest; a damaged one fails
\* its checksums.
ArchiveLost ==
    /\ archive.next # "none" /\ Trouble
    /\ archive' = NoArchive
    /\ UNCHANGED <<home, away, refused, torn>>

-----------------------------------------------------------------------------
(* ImportMemory                                                            *)

\* What is there is left alone: clients by name, sessions by id, messages by
\* their place in a session.
Merged(a, db) ==
    [clients |-> a.clients \cup db.clients,
     owner |-> [s \in Sessions |-> IF db.owner[s] # "none" THEN db.owner[s] ELSE a.owner[s]],
     messages |-> db.messages \cup
         { m \in a.messages : \A k \in db.messages : <<k.of, k.seq>> # <<m.of, m.seq>> },
     audit |-> a.audit \cup db.audit]

\* A session must name a client of the archive, and the rows of a session
\* refer to it.
Accepted(a, db) ==
    /\ \A s \in Held(a) : a.owner[s] \in a.clients
    /\ { m.of : m \in a.messages } \cup a.audit \subseteq Held(a) \cup Held(db)

\* One transaction: everything, or nothing.
ImportMemory ==
    /\ archive.next = "done"
    /\ refused' = ~Accepted(archive.data, away)
    /\ away' = IF Accepted(archive.data, away) THEN Merged(archive.data, away) ELSE away
    /\ UNCHANGED <<home, archive, trouble, torn>>

-----------------------------------------------------------------------------
Next == AtHome \/ Elsewhere \/ ExportBegins \/ ExportTable \/ ArchiveLost \/ ImportMemory

Spec == Init /\ [][Next]_vars

-----------------------------------------------------------------------------
(* Properties                                                              *)

\* An archive that was written to its end can be imported, whatever was said,
\* deleted or pruned while its tables were read one after the other, if no
\* client and no conversation was begun meanwhile (export.go: ExportMemory's
\* jobs, importSessions, importMessages).
CompleteIsImportable ==
    [][ImportMemory /\ refused' => torn]_vars

\* An import overwrites nothing and leaves no row without its session, and the
\* same archive imported again changes nothing more (export.go: ImportMemory).
MergeIsSafe ==
    [][ImportMemory =>
        /\ away.clients \subseteq away'.clients /\ away.messages \subseteq away'.messages
        /\ \A s \in Held(away) : away'.owner[s] = away.owner[s]
        /\ { m.of : m \in away'.messages } \cup away'.audit \subseteq Held(away')
        /\ \A m, k \in away'.messages : m.of = k.of /\ m.seq = k.seq => m = k]_vars

=============================================================================
