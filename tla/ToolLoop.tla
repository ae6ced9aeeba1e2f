------------------------------ MODULE ToolLoop ------------------------------
(***************************************************************************)
(* One conversation's tool loop, across the network: the server's agent    *)
(* loop (internal/agent/agent.go behind internal/api/turn.go), the         *)
(* terminal harness with its approval policy (internal/client) and the     *)
(* audit table (internal/store/audit.go).                                  *)
(*                                                                         *)
(* Ask posts the operator's words as request 1, 2, ...; the handler of a   *)
(* request writes them to the transcript, asks the model, answers unknown  *)
(* names, runs the server's tools and stops at the first answer that       *)
(* needs the client.  The harness decides and runs those calls and posts   *)
(* their results as the next request.  Calls are numbered in the order the *)
(* model proposed them, so a batch of calls is a set and its order is the  *)
(* order of the numbers.  A handler whose client has gone keeps running    *)
(* until one of its store or model calls notices.                          *)
(***************************************************************************)
EXTENDS Naturals, Sequences, FiniteSets

CONSTANTS
    ServerTools,    \* tools the server executes
    Reads, Writes, Destructive,     \* the client's tools, by declared risk
    Unknown,        \* names a model may invent
    NeverAllow, AlwaysAllow,        \* Policy: client tools, by configuration
    AutoReads, AssumeYes,           \* Policy: auto_approve_reads and -yes
    Errors,         \* the error texts a tool may return
    MaxIterations,  \* WINTERMUTE_MAX_TOOL_ITERATIONS
    FailLimit,      \* repeatedToolFailureLimit
    MaxAsks,        \* bound: messages the operator sends
    MaxCalls,       \* bound: calls the model proposes in all
    MaxPerAnswer,   \* bound: calls in one answer
    Faults,         \* may a store or model call fail?
    Lossy           \* may the client time out, or a reply be lost?

ClientTools == Reads \cup Writes \cup Destructive
Tools       == ServerTools \cup ClientTools \cup Unknown

ASSUME ToolAssumption ==
    /\ ServerTools \cap (ClientTools \cup Unknown) = {}
    /\ ClientTools \cap Unknown = {}
    /\ Reads \cap (Writes \cup Destructive) = {}
    /\ Writes \cap Destructive = {}
    /\ NeverAllow \subseteq ClientTools
    /\ AlwaysAllow \subseteq ClientTools
    /\ "ok" \notin Errors

ASSUME BoundAssumption ==
    /\ MaxIterations \in Nat \ {0}
    /\ FailLimit \in Nat \ {0}
    /\ MaxAsks \in Nat /\ MaxCalls \in Nat /\ MaxPerAnswer \in Nat
    /\ {AutoReads, AssumeYes, Faults, Lossy} \subseteq BOOLEAN

VARIABLES
    req,        \* the handlers, by request number
    made,       \* calls proposed so far; the ids are 1 .. made
    tool,       \* transcript: the tool each call names
    answers,    \* transcript: the tool results written for each call
    audit,      \* store: the decisions recorded for each call (muninn)
    client,     \* the harness
    denyRest,   \* Prompter.denyRest
    allowed,    \* Prompter.sessionAllow
    ran,        \* history: how often each call was executed
    yes         \* history: the calls the operator said yes to

server == <<req, made, tool, answers, audit>>
vars   == <<req, made, tool, answers, audit, client, denyRest, allowed, ran,
            yes>>

Ids      == 1 .. MaxCalls
Requests == 1 .. MaxAsks + MaxCalls   \* every post of results answers a call
Decision == {"auto", "approved", "denied", "blocked"}
Outcome  == [id : Ids, decision : Decision, did : BOOLEAN]

Handler == [phase : {"unsent", "audit", "append", "model", "tools", "ran",
                     "complete", "awaiting", "error"},
            gone : BOOLEAN,         \* the client has stopped waiting
            results : SUBSET Outcome, audited : SUBSET Ids,
            i : 0 .. MaxIterations,
            todo : SUBSET Ids, ask : SUBSET Ids,
            out : Errors \cup {"ok"},
            last : {<<>>} \cup (ServerTools \X Errors),
            repeats : 0 .. FailLimit]

Client == [phase : {"prompt", "waiting", "handling", "stopped"},
           cur : 0 .. MaxAsks + MaxCalls, asks : 0 .. MaxAsks,
           from : 0 .. MaxCalls,
           pending : SUBSET Ids, results : SUBSET Outcome]

TypeOK ==
    /\ req \in [Requests -> Handler]
    /\ made \in 0 .. MaxCalls
    /\ tool \in [Ids -> Tools \cup {"none"}]
    /\ answers \in [Ids -> Seq({"did", "refused", "unknown"})]
    /\ audit \in [Ids -> Seq(Decision)]
    /\ client \in Client
    /\ denyRest \in BOOLEAN
    /\ allowed \subseteq ClientTools
    /\ ran \in [Ids -> Nat]
    /\ yes \subseteq Ids

-----------------------------------------------------------------------------
(* Helpers                                                                 *)

First(S) == CHOOSE x \in S : \A y \in S : x <= y

Fresh == [phase |-> "unsent", gone |-> FALSE, results |-> {}, audited |-> {},
          i |-> 0, todo |-> {}, ask |-> {}, out |-> "ok", last |-> <<>>,
          repeats |-> 0]

Active(r) == req[r].phase \in {"audit", "append", "model", "tools", "ran"}

\* The call the loop answers next: unknown names first, then server calls.
NextCall(todo) ==
    LET lost == { x \in todo : tool[x] \in Unknown }
    IN First(IF lost # {} THEN lost ELSE todo)

\* What the model is told of a call the client reported.
Report(o) == IF o.did THEN "did" ELSE "refused"

OutcomeOf(S, x) == CHOOSE o \in S : o.id = x

-----------------------------------------------------------------------------
(* The server: one handler of a request                                    *)

\* handleToolResults records the client's verdicts one by one.
AuditResult(r) ==
    /\ req[r].phase = "audit"
    /\ LET left == { o.id : o \in req[r].results } \ req[r].audited
           x    == First(left)
       IN /\ audit' = [audit EXCEPT ![x] =
                         Append(@, OutcomeOf(req[r].results, x).decision)]
          /\ req' = [req EXCEPT ![r] = [req[r] EXCEPT
                       !.audited = @ \cup {x},
                       !.phase = IF left = {x} THEN "append" ELSE "audit"]]
    /\ UNCHANGED <<made, tool, answers, client, denyRest, allowed, ran, yes>>

\* Advance begins: the incoming messages reach the transcript in one write.
AppendIncoming(r) ==
    /\ req[r].phase = "append"
    /\ answers' = [x \in Ids |->
                     IF \E o \in req[r].results : o.id = x
                     THEN Append(answers[x],
                                 Report(OutcomeOf(req[r].results, x)))
                     ELSE answers[x]]
    /\ req' = [req EXCEPT ![r] = [req[r] EXCEPT !.phase = "model"]]
    /\ UNCHANGED <<made, tool, audit, client, denyRest, allowed, ran, yes>>

\* One completion: the model answers in words (no calls) or proposes calls,
\* which are split by the side that owns them.
AskModel(r) ==
    /\ req[r].phase = "model"
    /\ req[r].i < MaxIterations
    /\ \E n \in 0 .. MaxPerAnswer : \E names \in [1 .. n -> Tools] :
        LET calls == made + 1 .. made + n
            ours  == { x \in calls : names[x - made] \notin ClientTools }
        IN /\ made + n <= MaxCalls
           /\ made' = made + n
           /\ tool' = [x \in Ids |->
                         IF x \in calls THEN names[x - made] ELSE tool[x]]
           /\ req' = [req EXCEPT ![r] = [req[r] EXCEPT
                        !.phase = IF n = 0 THEN "complete" ELSE "tools",
                        !.i = @ + 1,
                        !.todo = ours,
                        !.ask = calls \ ours]]
    /\ UNCHANGED <<answers, audit, client, denyRest, allowed, ran, yes>>

\* A name no side knows is answered with an error result.
AnswerUnknown(r) ==
    /\ req[r].phase = "tools"
    /\ req[r].todo # {}
    /\ LET x == NextCall(req[r].todo)
       IN /\ tool[x] \in Unknown
          /\ answers' = [answers EXCEPT ![x] = Append(@, "unknown")]
          /\ req' = [req EXCEPT ![r] = [req[r] EXCEPT !.todo = @ \ {x}]]
    /\ UNCHANGED <<made, tool, audit, client, denyRest, allowed, ran, yes>>

\* runServerTool calls the handler; it succeeds or returns an error.
RunServerTool(r) ==
    /\ req[r].phase = "tools"
    /\ req[r].todo # {}
    /\ LET x == NextCall(req[r].todo)
       IN /\ tool[x] \in ServerTools
          /\ ran' = [ran EXCEPT ![x] = @ + 1]
    /\ \E out \in Errors \cup {"ok"} :
        req' = [req EXCEPT ![r] = [req[r] EXCEPT !.phase = "ran", !.out = out]]
    /\ UNCHANGED <<made, tool, answers, audit, client, denyRest, allowed, yes>>

\* How often in a row the failure of a call has now been seen, unchanged.
Repeats(h, key) == IF key = h.last THEN h.repeats + 1 ELSE 1

\* Mutant: a tool that failed leaves no row.
RecordServerTool_SuccessOnly(r, x) ==
    \/ /\ req[r].out = "ok"
       /\ audit' = [audit EXCEPT ![x] = Append(@, "auto")]
    \/ (Faults \/ req[r].gone \/ req[r].out # "ok") /\ UNCHANGED audit

\* RecordTool, whose failure is only logged.
RecordServerTool(r, x) ==
    \/ audit' = [audit EXCEPT ![x] = Append(@, "auto")]
    \/ (Faults \/ req[r].gone) /\ UNCHANGED audit

\* The outcome is audited and written to the transcript; the same failure
\* FailLimit times in a row ends the turn.
AnswerServerTool(r) ==
    /\ req[r].phase = "ran"
    /\ LET x    == NextCall(req[r].todo)
           fail == req[r].out # "ok"
           key  == <<tool[x], req[r].out>>
           n    == IF fail THEN Repeats(req[r], key) ELSE 0
       IN /\ RecordServerTool(r, x)
          /\ answers' = [answers EXCEPT ![x] = Append(@, "did")]
          /\ req' = [req EXCEPT ![r] = [req[r] EXCEPT
                       !.phase = IF n >= FailLimit THEN "error" ELSE "tools",
                       !.todo = @ \ {x},
                       !.last = IF fail THEN key ELSE <<>>,
                       !.repeats = n]]
    /\ UNCHANGED <<made, tool, client, denyRest, allowed, ran, yes>>

\* Everything the server can answer is answered: hand the client its calls,
\* or go round again.
EndRound(r) ==
    /\ req[r].phase = "tools"
    /\ req[r].todo = {}
    /\ req' = [req EXCEPT ![r] = [req[r] EXCEPT
                 !.phase = IF req[r].ask # {} THEN "awaiting" ELSE "model"]]
    /\ UNCHANGED <<made, tool, answers, audit, client, denyRest, allowed, ran,
                   yes>>

\* Mutant: the budget is never found exhausted.
Exhausted_OffByOne(r) ==
    /\ req[r].phase = "model"
    /\ req[r].i > MaxIterations
    /\ req' = [req EXCEPT ![r] = [req[r] EXCEPT !.phase = "error"]]
    /\ UNCHANGED <<made, tool, answers, audit, client, denyRest, allowed, ran,
                   yes>>

\* ErrTooManyIterations.
Exhausted(r) ==
    /\ req[r].phase = "model"
    /\ req[r].i = MaxIterations
    /\ req' = [req EXCEPT ![r] = [req[r] EXCEPT !.phase = "error"]]
    /\ UNCHANGED <<made, tool, answers, audit, client, denyRest, allowed, ran,
                   yes>>

\* A store or model call of the handler fails, or finds its context cancelled:
\* the handler returns the error and leaves everything as it is.  A tool that
\* has run may still be recorded before the write that fails.
Fail(r) ==
    /\ Active(r)
    /\ Faults \/ req[r].gone
    /\ IF req[r].phase = "ran"
       THEN RecordServerTool(r, NextCall(req[r].todo))
       ELSE UNCHANGED audit
    /\ req' = [req EXCEPT ![r] = [req[r] EXCEPT !.phase = "error"]]
    /\ UNCHANGED <<made, tool, answers, client, denyRest, allowed, ran, yes>>

Serve(r) ==
    \/ AuditResult(r) \/ AppendIncoming(r) \/ AskModel(r) \/ AnswerUnknown(r)
    \/ RunServerTool(r) \/ AnswerServerTool(r) \/ EndRound(r) \/ Exhausted(r)
    \/ Fail(r)

-----------------------------------------------------------------------------
(* The harness: Ask, handle and the approval of one call                   *)

\* Post the next request: its results, or none for the operator's words.
Post(results, next) ==
    /\ client' = [next EXCEPT !.phase = "waiting", !.cur = @ + 1]
    /\ req' = [req EXCEPT ![client.cur + 1] = [@ EXCEPT
                 !.phase = IF results = {} THEN "append" ELSE "audit",
                 !.results = results]]

\* Ask: the operator speaks, which also ends an earlier "quit".
Ask ==
    /\ client.phase = "prompt"
    /\ client.asks < MaxAsks
    /\ denyRest' = FALSE
    /\ Post({}, [client EXCEPT !.asks = @ + 1, !.from = made,
                               !.pending = {}, !.results = {}])
    /\ UNCHANGED <<made, tool, answers, audit, allowed, ran, yes>>

\* The answer to the request in flight arrives.
ReceiveReply ==
    /\ client.phase = "waiting"
    /\ LET h == req[client.cur]
       IN \/ /\ h.phase = "awaiting"
             /\ client' = [client EXCEPT !.phase = "handling",
                             !.pending = h.ask, !.results = {}]
          \/ /\ h.phase \in {"complete", "error"}
             /\ client' = [client EXCEPT !.phase = "prompt"]
    /\ UNCHANGED <<server, denyRest, allowed, ran, yes>>

\* Mutant: a request that got no answer is posted again.
GiveUp_Retries ==
    /\ Lossy
    /\ client.phase = "waiting"
    /\ client.cur < MaxAsks + MaxCalls
    /\ client.results # {}
    /\ req' = [req EXCEPT ![client.cur].gone = TRUE,
                 ![client.cur + 1] = [@ EXCEPT !.phase = "audit",
                                               !.results = client.results]]
    /\ client' = [client EXCEPT !.cur = @ + 1]
    /\ UNCHANGED <<made, tool, answers, audit, denyRest, allowed, ran, yes>>

\* The request is lost, its answer is lost or the client's timeout expires:
\* Ask returns the error and what was pending is forgotten.
GiveUp ==
    /\ Lossy
    /\ client.phase = "waiting"
    /\ client' = [client EXCEPT !.phase = "prompt"]
    /\ req' = [req EXCEPT ![client.cur].gone = TRUE]
    /\ UNCHANGED <<made, tool, answers, audit, denyRest, allowed, ran, yes>>

\* The pending call the harness is at.
Call == First(client.pending)

Settle(decision, did) ==
    client' = [client EXCEPT
                 !.pending = @ \ {Call},
                 !.results = @ \cup {[id |-> Call, decision |-> decision,
                                      did |-> did]}]

\* actions.Execute: whatever it returns, the action has been attempted.
Execute(decision) ==
    /\ Settle(decision, TRUE)
    /\ ran' = [ran EXCEPT ![Call] = @ + 1]

Refuse(decision) ==
    /\ Settle(decision, FALSE)
    /\ UNCHANGED ran

\* Policy.Evaluate: the verdict of the configuration alone.
Evaluate(t) ==
    IF t \in NeverAllow THEN "blocked"
    ELSE IF \/ t \in AlwaysAllow
            \/ t \in Reads /\ AutoReads
            \/ t \in Writes /\ AssumeYes
         THEN "auto"
         ELSE "ask"

Handling == client.phase = "handling" /\ client.pending # {}

HandleSettled ==
    /\ Handling
    /\ \/ Evaluate(tool[Call]) = "blocked" /\ Refuse("blocked")
       \/ Evaluate(tool[Call]) = "auto" /\ Execute("auto")
    /\ UNCHANGED <<server, denyRest, allowed, yes>>

\* Mutant: "always this tool" outlives a "quit".
ConfirmEarlier_AllowedFirst ==
    /\ Handling
    /\ Evaluate(tool[Call]) = "ask"
    /\ \/ tool[Call] \in allowed /\ Execute("approved")
       \/ denyRest /\ tool[Call] \notin allowed /\ Refuse("denied")
    /\ UNCHANGED <<server, denyRest, allowed, yes>>

\* Prompter.Confirm, settled by an earlier answer.
ConfirmEarlier ==
    /\ Handling
    /\ Evaluate(tool[Call]) = "ask"
    /\ \/ denyRest /\ Refuse("denied")
       \/ ~denyRest /\ tool[Call] \in allowed /\ Execute("approved")
    /\ UNCHANGED <<server, denyRest, allowed, yes>>

AsksOperator ==
    /\ Handling
    /\ Evaluate(tool[Call]) = "ask"
    /\ ~denyRest
    /\ tool[Call] \notin allowed

SayYes ==
    /\ AsksOperator
    /\ Execute("approved")
    /\ yes' = yes \cup {Call}
    /\ UNCHANGED <<server, denyRest, allowed>>

\* "always" is refused for a destructive tool: the prompt comes again.
SayAlways ==
    /\ AsksOperator
    /\ tool[Call] \notin Destructive
    /\ Execute("approved")
    /\ yes' = yes \cup {Call}
    /\ allowed' = allowed \cup {tool[Call]}
    /\ UNCHANGED <<server, denyRest>>

\* "no", an empty line, or the end of the input; "quit" also denies the rest.
SayNo ==
    /\ AsksOperator
    /\ Refuse("denied")
    /\ denyRest' \in BOOLEAN
    /\ UNCHANGED <<server, allowed, yes>>

Confirm == SayYes \/ SayAlways \/ SayNo

\* Mutant: only what was executed is reported.
SendResults_OnlyDone ==
    /\ client.phase = "handling"
    /\ client.pending = {}
    /\ Post({ o \in client.results : o.did }, client)
    /\ UNCHANGED <<made, tool, answers, audit, denyRest, allowed, ran, yes>>

\* Every pending call has its result: post them all.
SendResults ==
    /\ client.phase = "handling"
    /\ client.pending = {}
    /\ Post(client.results, client)
    /\ UNCHANGED <<made, tool, answers, audit, denyRest, allowed, ran, yes>>

\* The operator leaves (/exit or end of input at the prompt).
Exit ==
    /\ client.phase = "prompt"
    /\ client' = [client EXCEPT !.phase = "stopped"]
    /\ UNCHANGED <<server, denyRest, allowed, ran, yes>>

Harness == ReceiveReply \/ HandleSettled \/ ConfirmEarlier \/ Confirm
           \/ SendResults

-----------------------------------------------------------------------------
Init ==
    /\ req = [r \in Requests |-> Fresh]
    /\ made = 0
    /\ tool = [x \in Ids |-> "none"]
    /\ answers = [x \in Ids |-> <<>>]
    /\ audit = [x \in Ids |-> <<>>]
    /\ client = [phase |-> "prompt", cur |-> 0, asks |-> 0, from |-> 0,
                 pending |-> {}, results |-> {}]
    /\ denyRest = FALSE
    /\ allowed = {}
    /\ ran = [x \in Ids |-> 0]
    /\ yes = {}

Next ==
    \/ \E r \in Requests : Serve(r)
    \/ Ask \/ GiveUp \/ Exit
    \/ Harness

Spec == Init /\ [][Next]_vars

\* Handlers run, replies arrive, and an operator who was asked answers.
FairSpec ==
    /\ Spec
    /\ \A r \in Requests : WF_vars(Serve(r))
    /\ WF_vars(Harness)

-----------------------------------------------------------------------------
(* Properties                                                              *)

\* A call of the client was executed only if its tool is not on the never
\* list and either the configuration approves it, or the operator said yes to
\* this very call, or said "always" to its tool, which no destructive tool can
\* be given.  (Policy.Evaluate, Prompter.Confirm and handle together.)
ConsentedOnly ==
    \A x \in Ids : (tool[x] \in ClientTools /\ ran[x] > 0) =>
        /\ tool[x] \notin NeverAllow
        /\ \/ x \in yes
           \/ tool[x] \in AlwaysAllow
           \/ tool[x] \in Reads /\ AutoReads
           \/ tool[x] \in Writes /\ AssumeYes
           \/ tool[x] \in allowed \ Destructive

\* After "quit", nothing that would have needed the operator runs until the
\* operator speaks again, not even a tool that was allowed for the session.
QuitHolds ==
    [][denyRest /\ denyRest' =>
         \A x \in Ids : (tool[x] \in ClientTools /\ ran'[x] # ran[x]) =>
             Evaluate(tool[x]) = "auto"]_vars

\* The operator decides: on what runs, and on when it may run again.
OperatorDecides == []ConsentedOnly /\ QuitHolds

\* No call is executed, answered or audited twice, however replies are lost
\* and handlers outlive their clients.
AtMostOnce ==
    \A x \in Ids :
        ran[x] <= 1 /\ Len(answers[x]) <= 1 /\ Len(audit[x]) <= 1

\* The transcript and the audit table never claim an execution that did not
\* happen, nor a refusal of a call that was executed.
ToldTheTruth ==
    \A x \in Ids :
        /\ \A k \in 1 .. Len(answers[x]) :
               (answers[x][k] = "did") <=> (ran[x] > 0)
        /\ \A k \in 1 .. Len(audit[x]) :
               (audit[x][k] \in {"auto", "approved"}) <=> (ran[x] > 0)

\* Every call happens at most once, and is reported as what it was.
OnceAndAsTold == AtMostOnce /\ ToldTheTruth

\* The model is never asked to go on while a call it made since the operator
\* last spoke has no result: a refusal, an unknown name and a failed tool are
\* all answered before the next completion (handle, Advance).
AllAnswered ==
    LET h == req[client.cur]
    IN (client.phase = "waiting" /\ h.phase = "model" /\ ~h.gone) =>
           \A x \in client.from + 1 .. made : Len(answers[x]) = 1

\* Back at the prompt, whatever was executed has its audit row.
ExecutedIsAudited ==
    (client.phase = "prompt" /\ \A r \in Requests : ~Active(r)) =>
        \A x \in Ids : ran[x] > 0 => audit[x] # <<>>

\* The harness always gets back to its prompt: every request is answered
\* within the iteration budget and every pending call is settled.
HarnessReturns ==
    client.phase \in {"waiting", "handling"} ~> client.phase = "prompt"

=============================================================================
