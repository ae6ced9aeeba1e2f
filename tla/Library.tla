------------------------------ MODULE Library ------------------------------
(***************************************************************************)
(* The agents of internal/knowledge, the documents each may read and the   *)
(* conversations scoped to them.  An agent's id is a slug its creator      *)
(* chooses, and may be taken again once the agent is deleted.  Documents   *)
(* and their passages come and go while a turn's tools read them, each     *)
(* read a statement of its own.                                            *)
(***************************************************************************)
EXTENDS Naturals, FiniteSetsExt, Functions

CONSTANTS
    Agents,         \* ids an agent may have
    Contents,       \* files somebody may upload
    Sessions,       \* conversations
    Uploads,        \* uploads that may run at once
    MaxDocuments    \* bound: document ids given out

VARIABLES
    agents,     \* the agents table
    documents,  \* agent_documents: id -> [agent, content]
    passages,   \* agent_document_chunks: id -> what its text was read from
    nextDoc,    \* its AUTOINCREMENT
    session,    \* sessions: the agent_id of each conversation
    turn,       \* what the tools of each conversation's turn are doing
    upload,     \* what each upload is doing
    detaching   \* agents deleted whose conversations are not detached yet

library == <<documents, passages, nextDoc>>
vars == <<agents, library, session, turn, upload, detaching>>

DocIds == 1 .. MaxDocuments
NoTurn == [agent |-> "none", doc |-> 0, opened |-> "none", at |-> "none"]
NoUpload == [agent |-> "none", content |-> "none", at |-> "none"]

TypeOK ==
    /\ agents \subseteq Agents /\ detaching \subseteq Agents
    /\ DOMAIN documents \subseteq 1 .. nextDoc - 1 /\ nextDoc \in 1 .. MaxDocuments + 1
    /\ \A d \in DOMAIN documents : documents[d] \in [agent : agents, content : Contents]
    /\ DOMAIN passages = DOMAIN documents
    /\ session \in [Sessions -> Agents \cup {"unopened", "none"}]
    /\ turn \in [Sessions -> {NoTurn} \cup
           [agent : Agents, doc : {0} \cup DocIds, opened : {"none"} \cup Contents,
            at : {"opening", "tools", "passages"}]]
    /\ upload \in [Uploads -> {NoUpload} \cup
           [agent : Agents, content : Contents, at : {"look", "add"}]]

Init ==
    /\ agents = {} /\ documents = <<>> /\ passages = <<>> /\ nextDoc = 1
    /\ session = [s \in Sessions |-> "unopened"]
    /\ turn = [s \in Sessions |-> NoTurn]
    /\ upload = [u \in Uploads |-> NoUpload]
    /\ detaching = {}

Of(a) == {d \in DOMAIN documents : documents[d].agent = a}

\* Documents go with their passages (ON DELETE CASCADE).
Keep(docs) ==
    /\ documents' = Restrict(documents, docs)
    /\ passages' = Restrict(passages, docs)
    /\ nextDoc' = nextDoc

-----------------------------------------------------------------------------
(* Agents and conversations                                                *)

\* CreateAgent: the id is the table's key.
CreateAgent(a) ==
    /\ a \notin agents
    /\ agents' = agents \cup {a}
    /\ UNCHANGED <<library, session, turn, upload, detaching>>

\* DeleteAgent: the agent goes, its library with it, ...
DeleteAgent(a) ==
    /\ a \in agents
    /\ agents' = agents \ {a}
    /\ Keep(DOMAIN documents \ Of(a))
    /\ detaching' = detaching \cup {a}
    /\ UNCHANGED <<session, turn, upload>>

\* ... and its conversations fall back to the assistant without one, if this
\* second statement is reached.
Detach(a) ==
    /\ a \in detaching
    /\ detaching' = detaching \ {a}
    /\ \/ session' = [s \in Sessions |-> IF session[s] = a THEN "none" ELSE session[s]]
       \/ UNCHANGED session
    /\ UNCHANGED <<agents, library, turn, upload>>

Turn(s, next) == turn' = [turn EXCEPT ![s] = next]

\* handleCreateSession: the agent is resolved, ...
Resolve(s, a) ==
    /\ session[s] = "unopened" /\ turn[s] = NoTurn /\ a \in agents
    /\ Turn(s, [NoTurn EXCEPT !.agent = a, !.at = "opening"])
    /\ UNCHANGED <<agents, library, session, upload, detaching>>

\* ... then named in the row, be it there still or not.
Open(s) ==
    /\ turn[s].at = "opening"
    /\ session' = [session EXCEPT ![s] = turn[s].agent]
    /\ Turn(s, NoTurn)
    /\ UNCHANGED <<agents, library, upload, detaching>>

\* Scope: a turn gets the tools of its conversation's agent, none when there is
\* no such agent, and keeps them to its end.
BeginTurn(s) ==
    /\ turn[s] = NoTurn /\ session[s] \in agents
    /\ Turn(s, [NoTurn EXCEPT !.agent = session[s], !.at = "tools"])
    /\ UNCHANGED <<agents, library, session, upload, detaching>>

EndTurn(s) ==
    /\ turn[s].at = "tools"
    /\ Turn(s, NoTurn)
    /\ UNCHANGED <<agents, library, session, upload, detaching>>

\* ReadDocument: any document id, refused unless it is the agent's own, ...
OpenDocument(s, d) ==
    /\ turn[s].at = "tools" /\ d \in Of(turn[s].agent)
    /\ Turn(s, [turn[s] EXCEPT !.doc = d, !.opened = documents[d].content, !.at = "passages"])
    /\ UNCHANGED <<agents, library, session, upload, detaching>>

\* ... then the passages under that id.
ReadPassages(s) ==
    /\ turn[s].at = "passages"
    /\ Turn(s, [turn[s] EXCEPT !.doc = 0, !.opened = "none", !.at = "tools"])
    /\ UNCHANGED <<agents, library, session, upload, detaching>>

-----------------------------------------------------------------------------
(* Documents                                                               *)

Step(u, next) == upload' = [upload EXCEPT ![u] = next]

\* Upload: the agent exists, ...
BeginUpload(u, a, c) ==
    /\ upload[u] = NoUpload /\ a \in agents
    /\ Step(u, [agent |-> a, content |-> c, at |-> "look"])
    /\ UNCHANGED <<agents, library, session, turn, detaching>>

\* ... has no document with this sha256 yet, ...
LookForDuplicate(u) ==
    /\ upload[u].at = "look"
    /\ Step(u, IF \E d \in Of(upload[u].agent) : documents[d].content = upload[u].content
               THEN NoUpload ELSE [upload[u] EXCEPT !.at = "add"])
    /\ UNCHANGED <<agents, library, session, turn, detaching>>

\* Mutant: the id of a deleted document is given out again.
NextDocument_Reused == IF DOMAIN documents = {} THEN 1 ELSE 1 + Max(DOMAIN documents)

NextDocument == nextDoc

\* ... and gets document and passages in one transaction, which its key refuses
\* once the agent is gone.
AddDocument(u) ==
    LET new == NextDocument
        what == upload[u]
        With(table, row) ==
            [d \in DOMAIN table \cup {new} |-> IF d = new THEN row ELSE table[d]] IN
    /\ what.at = "add"
    /\ Step(u, NoUpload)
    /\ \/ /\ what.agent \in agents /\ nextDoc <= MaxDocuments
          /\ documents' = With(documents, [agent |-> what.agent, content |-> what.content])
          /\ passages' = With(passages, what.content)
          /\ nextDoc' = nextDoc + 1
       \/ UNCHANGED library
    /\ UNCHANGED <<agents, session, turn, detaching>>

DeleteDocument(d) ==
    /\ Keep(DOMAIN documents \ {d})
    /\ UNCHANGED <<agents, session, turn, upload, detaching>>

-----------------------------------------------------------------------------
Next ==
    \/ \E a \in Agents : CreateAgent(a) \/ DeleteAgent(a) \/ Detach(a)
    \/ \E s \in Sessions :
           \/ Open(s) \/ BeginTurn(s) \/ EndTurn(s) \/ ReadPassages(s)
           \/ \E a \in Agents : Resolve(s, a)
           \/ \E d \in DOMAIN documents : OpenDocument(s, d)
    \/ \E u \in Uploads :
           \/ LookForDuplicate(u) \/ AddDocument(u)
           \/ \E a \in Agents, c \in Contents : BeginUpload(u, a, c)
    \/ \E d \in DOMAIN documents : DeleteDocument(d)

Spec == Init /\ [][Next]_vars

-----------------------------------------------------------------------------
(* Properties                                                              *)

\* Between the check of ReadDocument and its read of the passages documents
\* and agents come and go; still what is read under the checked id is the
\* text of the checked document, of the turn's own agent, or nothing.
OwnLibraryOnly ==
    \A s \in Sessions : turn[s].at = "passages" /\ turn[s].doc \in DOMAIN passages =>
        /\ documents[turn[s].doc].agent = turn[s].agent
        /\ passages[turn[s].doc] = turn[s].opened

=============================================================================
