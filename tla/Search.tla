------------------------------- MODULE Search --------------------------------
(***************************************************************************)
(* What a turn is given of earlier conversations (internal/recall/         *)
(* search.go, internal/app/recall.go): three rankers over the index, each  *)
(* a query of its own, their fusion, and the texts read last, while        *)
(* messages are written, indexed and deleted and agents are removed.       *)
(*                                                                         *)
(* How near a message is to a query, and how its words match, are          *)
(* constants.  A score 1/(k + rank) is exact, as a part of the scale.  The *)
(* index keeps, with each vector, the client and the agent of its          *)
(* conversation as they were when the indexer read them.                   *)
(***************************************************************************)
EXTENDS Integers, Sequences, FiniteSetsExt, SequencesExt, Selections

CONSTANTS
    Messages,       \* numbers: a later message has a higher one
    Length,         \* message -> the bytes of its text
    Talks,          \* the conversations
    Talk,           \* message -> its conversation
    Owner,          \* conversation -> its client
    Profile,        \* conversation -> the agent it is opened with, or NoAgent
    NoAgent,
    Asked,          \* what a turn is asked
    Likeness,       \* query -> the messages whose vectors are near, nearest first
    Wording,        \* query -> the messages with its words, the best match first
    K,              \* search.go: rrfK
    CandidateDepth,
    TopK, RecentTurns,
    Scale,          \* a number that every k + rank divides
    Window,         \* conversation -> the context window of its model, or 0
    Fallback,       \* tokens, where the window is unknown
    MaxTrouble      \* bound: deletions, and changes of the switch

VARIABLES
    agent,          \* sessions.agent_id of the open conversations, or Closed
    text,           \* the messages: "none", "stored", "gone"
    saidTo,         \* history: the agent its conversation had, when it was said
    claimed,        \* what the indexer is embedding, with the agent it read
    vector,         \* recall_vectors.agent_id, or NoVector
    enabled,        \* recall_config.recall_enabled
    search,         \* the retrieval of one turn
    trouble

vars == <<agent, text, saidTo, claimed, vector, enabled, search, trouble>>
tables == <<agent, text, saidTo, claimed, vector, enabled>>

Closed == "closed"
NoVector == "none"
NoClaim == [of |-> 0, agent |-> NoAgent]

\* What the program and its settings have (40 deep, 4 recent turns, 1500 tokens
\* unless changed): no ranker looks deeper than a second vote makes up for, and
\* the fallback has room for the marker of a cut.
WellFormed ==
    /\ Messages \subseteq Nat \ {0} /\ IsFiniteSet(Messages) /\ Talks # {}
    /\ Talk \in [Messages -> Talks] /\ Length \in [Messages -> Nat]
    /\ Window \in [Talks -> Nat] /\ \A t \in Talks : Profile[t] \notin {Closed, NoVector}
    /\ NoAgent \notin {Closed, NoVector}
    /\ \A q \in Asked : Likeness[q] \in Seq(Messages) /\ Wording[q] \in Seq(Messages)
    /\ K \in Nat /\ CandidateDepth \in 0 .. K + 1 /\ RecentTurns \in 0 .. K + 1
    /\ Scale \in Nat \ {0}
    /\ \A r \in 1 .. Max({CandidateDepth, RecentTurns}) : \E x \in 1 .. Scale : Scale = (K + r) * x
    /\ TopK \in Nat /\ Fallback \in Nat /\ Fallback > 4

Idle == [at |-> "idle", talk |-> CHOOSE t \in Talks : TRUE, agent |-> NoAgent,
         asked |-> CHOOSE q \in Asked : TRUE, lists |-> <<>>, hits |-> <<>>]

TypeOK ==
    /\ agent \in [Talks -> { Profile[t] : t \in Talks } \cup {NoAgent, Closed}]
    /\ text \in [Messages -> {"none", "stored", "gone"}]
    /\ \A m \in Messages : vector[m] # NoVector => text[m] = "stored"
    /\ claimed.of \in Messages \cup {0} /\ enabled \in BOOLEAN
    /\ search.at \in {"idle", "semantic", "lexical", "recent", "hydrate", "done"}
    /\ trouble \in 0 .. MaxTrouble

Init ==
    /\ agent = [t \in Talks |-> Closed] /\ text = [m \in Messages |-> "none"]
    /\ saidTo = [m \in Messages |-> NoAgent]
    /\ claimed = NoClaim /\ vector = [m \in Messages |-> NoVector]
    /\ enabled = TRUE /\ search = Idle /\ trouble = 0

-----------------------------------------------------------------------------
(* Ranking                                                                 *)

\* Mutant: a conversation's own agent, or none, "tidied" into one clause.
InScope_Tidied(m) ==
    /\ Owner[Talk[m]] = Owner[search.talk]
    /\ vector[m] \in {search.agent, NoAgent} \/ search.agent = NoAgent
    /\ Talk[m] # search.talk

\* The client is a hard boundary; an agent sees its own history, and the
\* assistant without one all of the client's; never the conversation itself.
InScope(m) ==
    /\ Owner[Talk[m]] = Owner[search.talk]
    /\ search.agent # NoAgent => vector[m] = search.agent
    /\ Talk[m] # search.talk

Scanned == { m \in Messages : vector[m] # NoVector /\ InScope(m) }

First(n, s) == SubSeq(s, 1, Min({n, Len(s)}))

Ranked(order) == First(CandidateDepth, Select(order, Scanned))

Newest == First(RecentTurns, Sorted(Scanned, >))

\* Position in a list, 0 where it is not in it.
Rank(m, list) == SelectInSeq(list, LAMBDA x : x = m)

\* 1/(k + rank), times the scale.
Share(m, list) == IF Rank(m, list) = 0 THEN 0 ELSE Scale \div (K + Rank(m, list))
Score(m, lists) == MapThenSumSet(LAMBDA i : Share(m, lists[i]), DOMAIN lists)

\* The rank in the first list it is in.
FirstRank(m, lists) ==
    Rank(m, lists[SelectInSeq(lists, LAMBDA list : Contains(list, m))])

Before(m, n, lists) ==
    \/ Score(m, lists) > Score(n, lists)
    \/ /\ Score(m, lists) = Score(n, lists)
       /\ \/ FirstRank(m, lists) < FirstRank(n, lists)
          \/ FirstRank(m, lists) = FirstRank(n, lists) /\ m < n

Fuse(lists) ==
    Sorted(UNION { Range(lists[i]) : i \in DOMAIN lists },
           LAMBDA m, n : Before(m, n, lists))

-----------------------------------------------------------------------------
(* The budget                                                              *)

\* An eighth or so of the window, in tokens of four bytes.
BudgetFor(window) == IF window = 0 THEN Fallback ELSE Max({256, (window * 12) \div 100})

EstimateTokens(bytes) == IF bytes = 0 THEN 0 ELSE bytes \div 4 + 1

\* The marker of the cut is 16 bytes long.
TruncateToTokens(bytes, tokens) ==
    IF 4 * tokens <= 16 \/ bytes <= 4 * tokens THEN bytes ELSE 4 * tokens

Tokens(hits) == MapThenSumSet(LAMBDA i : EstimateTokens(hits[i].bytes), DOMAIN hits)

\* As many from the front as fit; the first is shortened rather than dropped.
WithinBudget(hits, budget) ==
    LET n == Max({ i \in 0 .. Len(hits) : Tokens(SubSeq(hits, 1, i)) <= budget })
    IN IF hits = <<>> \/ n > 0 THEN SubSeq(hits, 1, n)
       ELSE <<[hits[1] EXCEPT !.bytes = TruncateToTokens(@, budget)]>>

-----------------------------------------------------------------------------
(* Conversations and the index                                             *)

Trouble == trouble < MaxTrouble /\ trouble' = trouble + 1

CreateSession(t) ==
    /\ agent[t] = Closed
    /\ agent' = [agent EXCEPT ![t] = Profile[t]]
    /\ UNCHANGED <<text, saidTo, claimed, vector, enabled, search, trouble>>

AppendMessage(m) ==
    /\ agent[Talk[m]] # Closed /\ text[m] = "none"
    /\ text' = [text EXCEPT ![m] = "stored"]
    /\ saidTo' = [saidTo EXCEPT ![m] = agent[Talk[m]]]
    /\ UNCHANGED <<agent, claimed, vector, enabled, search, trouble>>

\* The indexer reads a message with its conversation, and embeds it.
Claim(m) ==
    /\ claimed = NoClaim /\ text[m] = "stored" /\ vector[m] = NoVector
    /\ claimed' = [of |-> m, agent |-> agent[Talk[m]]]
    /\ UNCHANGED <<agent, text, saidTo, vector, enabled, search, trouble>>

\* It stores what came back; the foreign key refuses what was deleted.
Index ==
    /\ claimed # NoClaim
    /\ vector' = IF text[claimed.of] = "stored"
                 THEN [vector EXCEPT ![claimed.of] = claimed.agent] ELSE vector
    /\ claimed' = NoClaim
    /\ UNCHANGED <<agent, text, saidTo, enabled, search, trouble>>

\* A deleted message takes its vector and its terms with it.
DeleteMessage(m) ==
    /\ text[m] = "stored" /\ Trouble
    /\ text' = [text EXCEPT ![m] = "gone"]
    /\ vector' = [vector EXCEPT ![m] = NoVector]
    /\ UNCHANGED <<agent, saidTo, claimed, enabled, search>>

\* The conversations of an agent that is removed fall back to the assistant;
\* what was indexed of them keeps the agent's name.
DetachSessions(a) ==
    /\ \E t \in Talks : agent[t] = a
    /\ Trouble
    /\ agent' = [t \in Talks |-> IF agent[t] = a THEN NoAgent ELSE agent[t]]
    /\ UNCHANGED <<text, saidTo, claimed, vector, enabled, search>>

SetEnabled ==
    /\ Trouble /\ enabled' = ~enabled
    /\ UNCHANGED <<agent, text, saidTo, claimed, vector, search>>

-----------------------------------------------------------------------------
(* A retrieval                                                             *)

\* A turn begins with its conversation as it was loaded.
Recall(t, q) ==
    /\ search = Idle /\ agent[t] # Closed /\ enabled
    /\ search' = [Idle EXCEPT !.at = "semantic", !.talk = t, !.agent = agent[t], !.asked = q]
    /\ UNCHANGED <<tables, trouble>>

\* A ranker adds its list, if it found anything and did not fail.
Rankers(at, list, next) ==
    /\ search.at = at
    /\ \E found \in {<<>>, list} :
          search' = [search EXCEPT !.at = next,
                       !.lists = IF found = <<>> THEN @ ELSE Append(@, found)]
    /\ UNCHANGED <<tables, trouble>>

Semantic == Rankers("semantic", Ranked(Likeness[search.asked]), "lexical")
Lexical == Rankers("lexical", Ranked(Wording[search.asked]), "recent")
Recent == Rankers("recent", Newest, "hydrate")

\* The texts of the best are read, of those that are still there; who they
\* belong to is read afresh.  A failure is as good as having found nothing.
Hydrate ==
    /\ search.at = "hydrate"
    /\ LET best == Select(First(TopK, Fuse(search.lists)), { m \in Messages : text[m] = "stored" })
           hits == [i \in DOMAIN best |->
                      [of |-> best[i], agent |-> agent[Talk[best[i]]], bytes |-> Length[best[i]]]]
       IN \E read \in {<<>>, hits} :
            search' = [search EXCEPT !.at = "done",
                         !.hits = WithinBudget(read, BudgetFor(Window[search.talk]))]
    /\ UNCHANGED <<tables, trouble>>

\* The block is put before the user's message.
Render ==
    /\ search.at = "done" /\ search' = Idle
    /\ UNCHANGED <<tables, trouble>>

Next ==
    \/ \E t \in Talks : CreateSession(t) \/ \E q \in Asked : Recall(t, q)
    \/ \E m \in Messages : AppendMessage(m) \/ Claim(m) \/ DeleteMessage(m)
    \/ Index
    \/ \E t \in Talks : Profile[t] # NoAgent /\ DetachSessions(Profile[t])
    \/ SetEnabled \/ Semantic \/ Lexical \/ Recent \/ Hydrate \/ Render

Spec == Init /\ [][Next]_vars

-----------------------------------------------------------------------------
(* Properties                                                              *)

\* The one-way mirror: a turn is told only of its client's conversations, never
\* of its own, and with an agent only of what was said to that agent - however
\* the index was filled while agents came and went (Scope.where, IndexBatch).
Mirrored ==
    \A h \in Range(search.hits) :
        /\ Owner[Talk[h.of]] = Owner[search.talk] /\ Talk[h.of] # search.talk
        /\ search.agent # NoAgent => saidTo[h.of] = search.agent

\* A result that two rankers both like beats one that a single ranker loves,
\* nothing is found twice, and the excerpts keep to the budget, to a token
\* (fuse, withinBudget).
Weighed ==
    LET Votes(m) == Cardinality({ i \in DOMAIN search.lists : Contains(search.lists[i], m) })
        hits == search.hits
    IN /\ \A i, j \in DOMAIN hits : i < j =>
              /\ hits[i].of # hits[j].of
              /\ Votes(hits[i].of) = 1 => Votes(hits[j].of) = 1
       /\ Tokens(hits) <= BudgetFor(Window[search.talk]) + 1
       /\ Len(hits) > 1 => Tokens(hits) <= BudgetFor(Window[search.talk])

RecallKeepsScope == Mirrored /\ Weighed
=============================================================================
