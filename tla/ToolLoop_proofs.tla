--------------------------- MODULE ToolLoop_proofs ---------------------------
(***************************************************************************)
(* Theorems about ToolLoop, for every set of tools, every policy and every *)
(* number of messages, calls and iterations: the operator decides what     *)
(* runs; whatever is lost, no call runs, is answered or is audited twice,  *)
(* and both accounts of it are true; and where nothing is lost no call is  *)
(* left without its answer or its audit row.                               *)
(***************************************************************************)
EXTENDS ToolLoop, WellFoundedInduction, TLAPS

(* Lemmas on the operators                                                 *)

\* A nonempty set of calls has a first one.
LEMMA FirstIn ==
    ASSUME NEW S \in SUBSET Nat, S # {}
    PROVE  First(S) \in S
<1>1. PICK m \in S : \A q \in S : ~ (<<q, m>> \in OpToRel(<, Nat))
  BY NatLessThanWellFounded, WFMin, Zenon
<1>2. \A q \in S : ~ (q < m)
  BY <1>1 DEF OpToRel
<1>3. \A q \in S : m <= q
  BY <1>2
<1> QED
  BY <1>3 DEF First

\* The loop answers one of the calls it has to answer, ...
LEMMA NextCallIn ==
    ASSUME NEW S \in SUBSET Nat, S # {}
    PROVE  NextCall(S) \in S
<1> DEFINE lost == { x \in S : tool[x] \in Unknown }
<1>1. CASE lost = {}
  BY <1>1, FirstIn DEF NextCall
<1>2. CASE lost # {}
  <2>1. lost \in SUBSET Nat
    OBVIOUS
  <2>2. First(lost) \in lost
    BY <1>2, <2>1, FirstIn
  <2> QED
    BY <1>2, <2>2 DEF NextCall
<1> QED
  BY <1>1, <1>2

\* ... and the same one while their names stay.
LEMMA NextCallStays ==
    ASSUME NEW S, \A x \in S : tool'[x] = tool[x]
    PROVE  NextCall(S)' = NextCall(S)
<1>1. { x \in S : tool'[x] \in Unknown } = { x \in S : tool[x] \in Unknown }
  OBVIOUS
<1> QED
  BY <1>1 DEF NextCall

-----------------------------------------------------------------------------
(* The invariant.  A call is in one place at a time: with the handler that *)
(* proposed it, with the client, or with the handler its result is posted  *)
(* to, and whoever has it knows whether it ran.                            *)

IdsOf(S) == { o.id : o \in S }
Untouched(x) == ran[x] = 0 /\ answers[x] = <<>> /\ audit[x] = <<>>
Done(d) == d \in {"auto", "approved"}

CallsOnce ==
    \A x \in Ids :
        /\ x > made => Untouched(x)
        /\ ran[x] \in {0, 1}
        /\ answers[x] = <<>> \/ \E a \in {"did", "refused", "unknown"} :
                answers[x] = <<a>> /\ (a = "did" <=> ran[x] = 1)
        /\ audit[x] = <<>> \/ \E d \in Decision :
                audit[x] = <<d>> /\ (Done(d) <=> ran[x] = 1)

\* Results, one for each of some calls, that tell what happened and are not
\* in the transcript yet.
Settled(S) ==
    /\ \A o, p \in S : o.id = p.id => o = p
    /\ \A o \in S : /\ Done(o.decision) <=> o.did
                    /\ ran[o.id] = IF o.did THEN 1 ELSE 0
                    /\ answers[o.id] = <<>>

\* What a handler is doing, ...
HandlerShape(r) ==
    LET h == req[r] IN
    /\ r > client.cur => h = Fresh
    /\ Active(r) => h.repeats < FailLimit
    /\ h.todo \cup h.ask \subseteq 1 .. made
    /\ h.todo \cap h.ask = {}
    /\ h.phase \in {"unsent", "audit", "append", "model"} => h.todo = {} /\ h.ask = {}
    /\ h.phase = "awaiting" => h.ask # {} /\ h.todo = {}
    /\ h.audited \subseteq IdsOf(h.results)
    /\ h.phase = "audit" => h.audited # IdsOf(h.results)
    /\ h.phase = "append" => h.audited = IdsOf(h.results)

\* ... the calls it has to answer or to hand on, which nobody has touched, ...
HandlerCalls(r) ==
    LET h == req[r] IN
    /\ h.phase = "tools" => \A x \in h.todo \cup h.ask : Untouched(x)
    /\ h.phase = "ran" =>
        /\ h.todo # {} /\ tool[NextCall(h.todo)] \in ServerTools
        /\ \A x \in h.todo \cup h.ask :
              IF x = NextCall(h.todo)
              THEN ran[x] = 1 /\ answers[x] = <<>> /\ audit[x] = <<>>
              ELSE Untouched(x)

\* ... and the results it was sent, of calls the request before it handed on.
HandlerResults(r) ==
    LET h == req[r] IN
    /\ h.results # {} =>
        /\ r - 1 \in Requests /\ req[r - 1].phase = "awaiting"
        /\ IdsOf(h.results) \subseteq req[r - 1].ask
    /\ h.phase \in {"audit", "append"} =>
        /\ Settled(h.results)
        /\ \A o \in h.results :
              audit[o.id] = IF o.id \in h.audited THEN <<o.decision>> ELSE <<>>

HandlerInv(r) == HandlerShape(r) /\ HandlerCalls(r) /\ HandlerResults(r)

Apart ==
    \A r, s \in Requests : r # s =>
        (req[r].todo \cup req[r].ask) \cap (req[s].todo \cup req[s].ask) = {}

\* Every request after an answer posts results of calls of its own, which is
\* why there are requests enough.
ClientInv ==
    /\ client.cur <= client.asks + made
    /\ client.from <= made
    /\ client.cur \in Requests =>
        \A x \in req[client.cur].ask : client.cur < client.asks + x
    /\ client.phase = "waiting" =>
        /\ client.cur \in Requests /\ req[client.cur].phase # "unsent"
        /\ req[client.cur].phase = "awaiting" =>
              \A x \in req[client.cur].ask : Untouched(x)
    /\ client.phase = "handling" =>
        /\ client.cur \in Requests /\ req[client.cur].phase = "awaiting"
        /\ client.pending \cup IdsOf(client.results) = req[client.cur].ask
        /\ client.pending \cap IdsOf(client.results) = {}
        /\ \A x \in client.pending : Untouched(x)
        /\ Settled(client.results)
        /\ \A o \in client.results : audit[o.id] = <<>>

\* Only calls of the client's tools are handed to it.
Handed == \A r \in Requests : \A x \in req[r].ask : tool[x] \in ClientTools

Inv ==
    /\ TypeOK /\ CallsOnce
    /\ \A r \in Requests : HandlerInv(r)
    /\ Apart /\ Handed /\ ClientInv

LEMMA InitInv == Init => Inv
<1> SUFFICES ASSUME Init PROVE Inv
  OBVIOUS
<1> USE BoundAssumption DEF Init, Fresh
<1>1. TypeOK
  <2>1. req \in [Requests -> Handler]
    BY DEF Handler
  <2>2. /\ made \in 0 .. MaxCalls /\ client \in Client
        /\ tool \in [Ids -> Tools \cup {"none"}] /\ ran \in [Ids -> Nat]
    BY DEF Client
  <2>3. <<>> \in Seq({"did", "refused", "unknown"}) /\ <<>> \in Seq(Decision)
    OBVIOUS
  <2> QED
    BY <2>1, <2>2, <2>3 DEF TypeOK
<1>2. CallsOnce
  BY DEF CallsOnce, Untouched
<1>3. ASSUME NEW r \in Requests PROVE HandlerInv(r)
  BY DEF HandlerInv, HandlerShape, HandlerCalls, HandlerResults, IdsOf, Requests, Active
<1>4. Apart /\ Handed
  BY DEF Apart, Handed
<1>5. ClientInv
  BY DEF ClientInv, Requests
<1> QED
  BY <1>1, <1>2, <1>3, <1>4, <1>5 DEF Inv

-----------------------------------------------------------------------------
(* Types                                                                   *)

\* A new request is one that may be posted, and so far unsent.
LEMMA RoomToAsk ==
    ASSUME Inv, Ask
    PROVE  client.cur + 1 \in Requests
BY BoundAssumption DEF Ask, Inv, ClientInv, TypeOK, Client, Requests

LEMMA RoomToSend ==
    ASSUME Inv, SendResults
    PROVE  /\ client.cur + 1 \in Requests /\ client.results # {}
           /\ \A o \in client.results : client.cur + 1 <= client.asks + o.id
<1>1. /\ client.cur \in Requests /\ IdsOf(client.results) = req[client.cur].ask
      /\ req[client.cur].phase = "awaiting"
      /\ \A x \in req[client.cur].ask : client.cur < client.asks + x
  BY DEF SendResults, Inv, ClientInv
<1>2. /\ req[client.cur].ask # {} /\ req[client.cur].ask \subseteq 1 .. made
  BY <1>1 DEF Inv, HandlerInv, HandlerShape
<1>3. PICK o \in client.results : o.id \in req[client.cur].ask
  BY <1>1, <1>2 DEF IdsOf
<1>4. client.asks \in 0 .. MaxAsks /\ made \in 0 .. MaxCalls /\ client.cur \in Nat
  BY BoundAssumption DEF Inv, TypeOK, Client
<1>5. client.cur + 1 <= client.asks + o.id /\ o.id <= MaxCalls /\ o.id \in Nat
  BY <1>1, <1>2, <1>3, <1>4, BoundAssumption
<1>6. \A p \in client.results : p.id \in req[client.cur].ask
  BY <1>1 DEF IdsOf
<1>7. ASSUME NEW p \in client.results PROVE client.cur + 1 <= client.asks + p.id
  BY <1>1, <1>2, <1>4, <1>6
<1> QED
  BY <1>3, <1>4, <1>5, <1>7, BoundAssumption DEF Requests

LEMMA HandlerTypes ==
    ASSUME TypeOK, NEW r \in Requests
    PROVE  /\ req[r] \in Handler
           /\ req[r].results \in SUBSET Outcome /\ req[r].audited \in SUBSET Ids
           /\ req[r].i \in 0 .. MaxIterations
           /\ req[r].todo \in SUBSET Ids /\ req[r].ask \in SUBSET Ids
           /\ req[r].out \in Errors \cup {"ok"} /\ req[r].repeats \in 0 .. FailLimit
BY DEF TypeOK, Handler

\* A step of a handler writes its own record.
LEMMA WithHandler ==
    ASSUME TypeOK, NEW r \in Requests, NEW h \in Handler, req' = [req EXCEPT ![r] = h]
    PROVE  /\ req' \in [Requests -> Handler]
           /\ req'[r] = h /\ \A s \in Requests \ {r} : req'[s] = req[s]
BY DEF TypeOK

\* What is written of a call is written at the end of what there is.
LEMMA WithAnswer ==
    ASSUME TypeOK, NEW x \in Ids, NEW told \in {"did", "refused", "unknown"},
           answers' = [answers EXCEPT ![x] = Append(@, told)]
    PROVE  answers' \in [Ids -> Seq({"did", "refused", "unknown"})]
<1>1. Append(answers[x], told) \in Seq({"did", "refused", "unknown"})
  BY DEF TypeOK
<1> QED
  BY <1>1 DEF TypeOK

LEMMA WithRow ==
    ASSUME TypeOK, NEW x \in Ids, NEW decision \in Decision,
           audit' = [audit EXCEPT ![x] = Append(@, decision)]
    PROVE  audit' \in [Ids -> Seq(Decision)]
<1>1. Append(audit[x], decision) \in Seq(Decision)
  BY DEF TypeOK
<1> QED
  BY <1>1 DEF TypeOK

\* A handler with calls to answer is at one of them.
LEMMA AtACall ==
    ASSUME TypeOK, NEW r \in Requests, req[r].todo # {}
    PROVE  NextCall(req[r].todo) \in req[r].todo /\ NextCall(req[r].todo) \in Ids
BY HandlerTypes, NextCallIn DEF Ids

\* Results left to audit have a first one.
LEMMA AtAResult ==
    ASSUME TypeOK, NEW r \in Requests, req[r].audited \subseteq IdsOf(req[r].results),
           req[r].audited # IdsOf(req[r].results)
    PROVE  LET left == { o.id : o \in req[r].results } \ req[r].audited
           IN /\ left # {} /\ left \in SUBSET Ids /\ First(left) \in left
              /\ OutcomeOf(req[r].results, First(left)) \in req[r].results
              /\ OutcomeOf(req[r].results, First(left)).id = First(left)
<1> DEFINE left == { o.id : o \in req[r].results } \ req[r].audited
<1>1. left # {} /\ left \in SUBSET Ids
  BY HandlerTypes DEF IdsOf, Outcome
<1>2. First(left) \in left
  <2>1. left \in SUBSET Nat
    BY <1>1 DEF Ids
  <2> HIDE DEF left
  <2> QED
    BY <1>1, <2>1, FirstIn
<1>3. \E o \in req[r].results : o.id = First(left)
  BY <1>2
<1> QED
  BY <1>1, <1>2, <1>3 DEF OutcomeOf

LEMMA ServeTypes ==
    ASSUME Inv, NEW r \in Requests, Serve(r)
    PROVE  TypeOK'
<1>0. TypeOK /\ HandlerInv(r) /\ req[r] \in Handler
  BY HandlerTypes DEF Inv
<1>1. CASE AuditResult(r)
  <2> DEFINE left == { o.id : o \in req[r].results } \ req[r].audited
             x == First(left)
             h == [req[r] EXCEPT !.audited = @ \cup {x},
                                 !.phase = IF left = {x} THEN "append" ELSE "audit"]
  <2>1. /\ x \in Ids /\ OutcomeOf(req[r].results, x) \in Outcome
    BY <1>0, <1>1, AtAResult, HandlerTypes DEF AuditResult, HandlerInv, HandlerShape
  <2>2. /\ req' = [req EXCEPT ![r] = h]
        /\ audit' = [audit EXCEPT ![x] = Append(@, OutcomeOf(req[r].results, x).decision)]
        /\ UNCHANGED <<made, tool, answers, client, denyRest, allowed, ran, yes>>
    BY <1>1 DEF AuditResult
  <2>3. h \in Handler
    BY <1>0, <2>1 DEF Handler
  <2>4. OutcomeOf(req[r].results, x).decision \in Decision
    BY <2>1 DEF Outcome
  <2> HIDE DEF x, h
  <2>5. audit' \in [Ids -> Seq(Decision)]
    BY <1>0, <2>1, <2>2, <2>4, WithRow
  <2> QED
    BY <1>0, <2>2, <2>3, <2>5, WithHandler DEF TypeOK
<1>2. CASE AppendIncoming(r)
  <2> DEFINE h == [req[r] EXCEPT !.phase = "model"]
  <2>1. req' = [req EXCEPT ![r] = h]
    BY <1>2 DEF AppendIncoming
  <2>2. h \in Handler
    BY <1>0 DEF Handler
  <2>3. ASSUME NEW x \in Ids
        PROVE  Append(answers[x], Report(OutcomeOf(req[r].results, x)))
                   \in Seq({"did", "refused", "unknown"})
    BY <1>0 DEF TypeOK, Report
  <2>4. answers' \in [Ids -> Seq({"did", "refused", "unknown"})]
    BY <1>0, <1>2, <2>3 DEF AppendIncoming, TypeOK
  <2> HIDE DEF h
  <2> QED
    BY <1>0, <1>2, <2>1, <2>2, <2>4, WithHandler DEF AppendIncoming, TypeOK
<1>3. CASE AskModel(r)
  <2>0. PICK n \in 0 .. MaxPerAnswer : \E names \in [1 .. n -> Tools] :
        LET calls == made + 1 .. made + n
            ours  == { x \in calls : names[x - made] \notin ClientTools }
        IN /\ made + n <= MaxCalls
           /\ made' = made + n
           /\ tool' = [x \in Ids |->
                         IF x \in calls THEN names[x - made] ELSE tool[x]]
           /\ req' = [req EXCEPT ![r] = [req[r] EXCEPT
                        !.phase = IF n = 0 THEN "complete" ELSE "tools",
                        !.i = @ + 1,
                        !.todo = ours,
                        !.ask = calls \ ours]]
    BY <1>3 DEF AskModel
  <2>1. PICK names \in [1 .. n -> Tools] :
        LET calls == made + 1 .. made + n
            ours  == { x \in calls : names[x - made] \notin ClientTools }
        IN /\ made + n <= MaxCalls
           /\ made' = made + n
           /\ tool' = [x \in Ids |->
                         IF x \in calls THEN names[x - made] ELSE tool[x]]
           /\ req' = [req EXCEPT ![r] = [req[r] EXCEPT
                        !.phase = IF n = 0 THEN "complete" ELSE "tools",
                        !.i = @ + 1,
                        !.todo = ours,
                        !.ask = calls \ ours]]
    BY <2>0
  <2> DEFINE ours == { x \in made + 1 .. made + n : names[x - made] \notin ClientTools }
             h == [req[r] EXCEPT !.phase = IF n = 0 THEN "complete" ELSE "tools",
                                 !.i = @ + 1, !.todo = ours,
                                 !.ask = (made + 1 .. made + n) \ ours]
  <2>2. made \in 0 .. MaxCalls /\ made' \in 0 .. MaxCalls /\ (made + 1 .. made + n) \subseteq Ids
    BY <1>0, <2>1, BoundAssumption DEF Ids, TypeOK
  <2>3. tool' \in [Ids -> Tools \cup {"none"}]
    BY <1>0, <2>1, <2>2 DEF TypeOK
  <2>4. req[r].i + 1 \in 0 .. MaxIterations
    BY <1>0, <1>3, HandlerTypes, BoundAssumption, SMTT(30) DEF AskModel
  <2>5. h \in Handler
    BY <1>0, <2>2, <2>4 DEF Handler
  <2>6. req' = [req EXCEPT ![r] = h]
    BY <2>1
  <2> HIDE DEF h
  <2>7. req' \in [Requests -> Handler]
    BY <1>0, <2>5, <2>6, WithHandler
  <2> QED
    BY <1>0, <1>3, <2>2, <2>3, <2>7 DEF AskModel, TypeOK
<1>4. CASE AnswerUnknown(r)
  <2> DEFINE x == NextCall(req[r].todo)
             h == [req[r] EXCEPT !.todo = @ \ {x}]
  <2>1. x \in Ids
    BY <1>0, <1>4, AtACall DEF AnswerUnknown
  <2>2. h \in Handler
    BY <1>0 DEF Handler
  <2>3. req' = [req EXCEPT ![r] = h] /\ answers' = [answers EXCEPT ![x] = Append(@, "unknown")]
    BY <1>4 DEF AnswerUnknown
  <2> HIDE DEF h, x
  <2>4. answers' \in [Ids -> Seq({"did", "refused", "unknown"})]
    BY <1>0, <2>1, <2>3, WithAnswer
  <2> QED
    BY <1>0, <1>4, <2>2, <2>3, <2>4, WithHandler DEF AnswerUnknown, TypeOK
<1>5. CASE RunServerTool(r)
  <2>1. PICK out \in Errors \cup {"ok"} :
            req' = [req EXCEPT ![r] = [req[r] EXCEPT !.phase = "ran", !.out = out]]
    BY <1>5 DEF RunServerTool
  <2> DEFINE h == [req[r] EXCEPT !.phase = "ran", !.out = out]
  <2>2. h \in Handler
    BY <1>0 DEF Handler
  <2>3. req' = [req EXCEPT ![r] = h]
    BY <2>1
  <2> HIDE DEF h
  <2>4. ran' \in [Ids -> Nat]
    BY <1>0, <1>5, AtACall DEF RunServerTool, TypeOK
  <2>5. req' \in [Requests -> Handler]
    BY <1>0, <2>2, <2>3, WithHandler
  <2> QED
    BY <1>0, <1>5, <2>4, <2>5 DEF RunServerTool, TypeOK
<1>6. CASE AnswerServerTool(r)
  <2> DEFINE x == NextCall(req[r].todo)
             n == IF req[r].out # "ok" THEN Repeats(req[r], <<tool[x], req[r].out>>) ELSE 0
             l == IF req[r].out # "ok" THEN <<tool[x], req[r].out>> ELSE <<>>
             h == [req[r] EXCEPT !.phase = IF n >= FailLimit THEN "error" ELSE "tools",
                                 !.todo = @ \ {x}, !.last = l, !.repeats = n]
  <2>1. tool[x] \in ServerTools /\ req[r].repeats < FailLimit /\ x \in Ids
    BY <1>0, <1>6, AtACall DEF AnswerServerTool, HandlerInv, HandlerShape, HandlerCalls, Active
  <2>2. n \in 0 .. FailLimit
    BY <1>0, <2>1, HandlerTypes, BoundAssumption DEF Repeats
  <2>3. l \in {<<>>} \cup (ServerTools \X Errors)
    BY <1>0, <2>1, HandlerTypes
  <2>4. req' = [req EXCEPT ![r] = h] /\ RecordServerTool(r, x)
        /\ answers' = [answers EXCEPT ![x] = Append(@, "did")]
    BY <1>6 DEF AnswerServerTool
  <2> HIDE DEF n, l, x
  <2>5. h \in Handler
    BY <1>0, <2>2, <2>3, ZenonT(60) DEF Handler
  <2> HIDE DEF h
  <2>6. answers' \in [Ids -> Seq({"did", "refused", "unknown"})]
    BY <1>0, <2>1, <2>4, WithAnswer
  <2>7. audit' \in [Ids -> Seq(Decision)]
    BY <1>0, <2>1, <2>4, WithRow DEF RecordServerTool, Decision, TypeOK
  <2> QED
    BY <1>0, <1>6, <2>4, <2>5, <2>6, <2>7, WithHandler DEF AnswerServerTool, TypeOK
<1>7. CASE EndRound(r) \/ Exhausted(r)
  <2>1. PICK at \in {"awaiting", "model", "error"} : req' = [req EXCEPT ![r] = [req[r] EXCEPT !.phase = at]]
    BY <1>7 DEF EndRound, Exhausted
  <2> DEFINE h == [req[r] EXCEPT !.phase = at]
  <2>2. h \in Handler
    BY <1>0 DEF Handler
  <2>3. req' = [req EXCEPT ![r] = h]
    BY <2>1
  <2> HIDE DEF h
  <2> QED
    BY <1>0, <1>7, <2>2, <2>3, WithHandler DEF EndRound, Exhausted, TypeOK
<1>8. CASE Fail(r)
  <2> DEFINE h == [req[r] EXCEPT !.phase = "error"]
             x == NextCall(req[r].todo)
  <2>1. h \in Handler
    BY <1>0 DEF Handler
  <2>2. req' = [req EXCEPT ![r] = h]
    BY <1>8 DEF Fail
  <2>3. CASE audit' = audit
    BY <1>0, <1>8, <2>1, <2>2, <2>3, WithHandler DEF Fail, TypeOK
  <2>4. CASE audit' # audit
    <3>1. req[r].phase = "ran" /\ audit' = [audit EXCEPT ![x] = Append(@, "auto")]
      BY <1>8, <2>4 DEF Fail, RecordServerTool
    <3>2. x \in Ids
      BY <1>0, <3>1, AtACall DEF HandlerInv, HandlerCalls
    <3> HIDE DEF h, x
    <3>3. audit' \in [Ids -> Seq(Decision)]
      BY <1>0, <3>1, <3>2, WithRow DEF Decision
    <3> QED
      BY <1>0, <1>8, <2>1, <2>2, <3>3, WithHandler DEF Fail, TypeOK
  <2> QED
    BY <2>3, <2>4
<1> QED
  BY <1>1, <1>2, <1>3, <1>4, <1>5, <1>6, <1>7, <1>8 DEF Serve

-----------------------------------------------------------------------------
(* A step of a handler                                                     *)

\* The calls a handler may touch: those whose results it was sent, until they
\* are in the transcript, and then those of the model that are the server's.
Mine(r) == IF req[r].phase \in {"audit", "append"} THEN IdsOf(req[r].results)
                                                   ELSE req[r].todo

\* All that a step of a handler may do.
Moved(r) ==
    /\ Active(r)
    /\ \A s \in Requests \ {r} : req'[s] = req[s]
    /\ UNCHANGED <<client, denyRest, allowed, yes>>
    /\ made' \in Nat /\ made <= made' /\ \A x \in 1 .. made : tool'[x] = tool[x]
    /\ \A x \in Ids \ Mine(r) :
           ran'[x] = ran[x] /\ answers'[x] = answers[x] /\ audit'[x] = audit[x]
    /\ req'[r].phase # "unsent"
    /\ \A x \in req'[r].todo \cup req'[r].ask :
           x \in req[r].todo \cup req[r].ask \/ x \in made + 1 .. made'
    /\ \A x \in req'[r].ask :
           x \in req[r].ask \/ (x \in made + 1 .. made' /\ tool'[x] \in ClientTools)
    /\ req'[r].phase = "awaiting" => \A x \in req'[r].ask : Untouched(x)'

\* The calls a handler still has to see answered, and those that were executed
\* and that it still has to record.
Open(r) == req[r].todo \cup req[r].ask \cup
           (IF req[r].phase \in {"audit", "append"} THEN IdsOf(req[r].results) ELSE {})
Owed(r) == IF req[r].phase = "audit" THEN IdsOf(req[r].results) \ req[r].audited
           ELSE IF req[r].phase = "ran" THEN { NextCall(req[r].todo) } ELSE {}

\* How a step of a handler accounts for its calls and for the new ones.
Accounts(r) ==
    /\ req'[r].gone = req[r].gone
    /\ \A x \in Ids : /\ answers[x] # <<>> => answers'[x] # <<>>
                      /\ audit[x] # <<>> => audit'[x] # <<>>
    /\ req'[r].phase \notin {"complete", "error"} =>
           \A x \in Open(r) \cup (made + 1 .. made') : x \in Open(r)' \/ answers'[x] # <<>>
    /\ ~ Faults /\ ~ req[r].gone =>
           \A x \in Ids : (ran'[x] # ran[x] \/ x \in Owed(r)) =>
               x \in Owed(r)' \/ audit'[x] # <<>>

\* What a handler may touch no other handler holds, except the one whose
\* answer is being settled.
LEMMA NotMine ==
    ASSUME Inv, NEW r \in Requests, Active(r), NEW s \in Requests, s # r,
           ~ (s = r - 1 /\ req[s].phase = "awaiting")
    PROVE  Mine(r) \cap (req[s].todo \cup req[s].ask) = {}
<1>1. HandlerInv(r) /\ Apart
  BY DEF Inv
<1>2. CASE Mine(r) = req[r].todo
  BY <1>1, <1>2 DEF Apart
<1>3. CASE Mine(r) = IdsOf(req[r].results) /\ req[r].results # {}
  <2>1. r - 1 \in Requests /\ req[r - 1].phase = "awaiting"
        /\ IdsOf(req[r].results) \subseteq req[r - 1].ask
    BY <1>1, <1>3 DEF HandlerInv, HandlerResults
  <2>2. s # r - 1
    BY <2>1
  <2> QED
    BY <1>1, <1>3, <2>1, <2>2 DEF Apart
<1>4. CASE req[r].results = {} /\ Mine(r) = IdsOf(req[r].results)
  BY <1>4 DEF IdsOf
<1> QED
  BY <1>2, <1>3, <1>4 DEF Mine

LEMMA CallIsReal ==
    ASSUME Inv
    PROVE  /\ made \in 0 .. MaxCalls /\ 1 .. made \subseteq Ids
           /\ \A r \in Requests : /\ req[r].todo \cup req[r].ask \subseteq 1 .. made
                                  /\ IdsOf(req[r].results) \subseteq 1 .. made
                                  /\ Mine(r) \subseteq 1 .. made
<1>1. made \in 0 .. MaxCalls /\ 1 .. made \subseteq Ids
  BY BoundAssumption DEF Inv, TypeOK, Ids
<1>2. ASSUME NEW r \in Requests
      PROVE  /\ req[r].todo \cup req[r].ask \subseteq 1 .. made
             /\ IdsOf(req[r].results) \subseteq 1 .. made
  <2>1. HandlerInv(r)
    BY DEF Inv
  <2>2. CASE req[r].results = {}
    BY <2>1, <2>2 DEF HandlerInv, HandlerShape, IdsOf
  <2>3. CASE req[r].results # {}
    <3>1. r - 1 \in Requests /\ IdsOf(req[r].results) \subseteq req[r - 1].ask
      BY <2>1, <2>3 DEF HandlerInv, HandlerResults
    <3>2. HandlerInv(r - 1)
      BY <3>1 DEF Inv
    <3> QED
      BY <2>1, <3>1, <3>2 DEF HandlerInv, HandlerShape
  <2> QED
    BY <2>2, <2>3
<1> QED
  BY <1>1, <1>2 DEF Mine

\* The others keep their part of the invariant, and so does the client.
LEMMA OthersKeep ==
    ASSUME Inv, NEW r \in Requests, Moved(r), NEW s \in Requests, s # r
    PROVE  HandlerInv(s)'
<1>1. /\ HandlerInv(s) /\ Active(r) /\ req'[s] = req[s] /\ client' = client
      /\ made' \in Nat /\ made <= made' /\ \A x \in 1 .. made : tool'[x] = tool[x]
  BY DEF Inv, Moved
<1>2. /\ req[s].todo \cup req[s].ask \subseteq 1 .. made /\ 1 .. made \subseteq Ids
      /\ made \in Nat /\ IdsOf(req[s].results) \subseteq 1 .. made
  BY CallIsReal
<1>3. ASSUME NEW x \in 1 .. made, x \notin Mine(r)
      PROVE  /\ ran'[x] = ran[x] /\ answers'[x] = answers[x] /\ audit'[x] = audit[x]
             /\ Untouched(x)' <=> Untouched(x)
  BY <1>2, <1>3 DEF Moved, Untouched
<1>4. HandlerShape(s)'
  <2>1. 1 .. made \subseteq 1 .. made'
    BY <1>1, <1>2
  <2> QED
    BY <1>1, <2>1 DEF HandlerInv, HandlerShape, Active
<1>5. HandlerCalls(s)'
  <2>1. SUFFICES ASSUME req[s].phase \in {"tools", "ran"} PROVE HandlerCalls(s)'
    BY <1>1 DEF HandlerCalls
  <2>2. \A x \in req[s].todo \cup req[s].ask : x \notin Mine(r)
    BY <1>1, <2>1, NotMine
  <2>3. NextCall(req[s].todo)' = NextCall(req[s].todo)
    BY <1>1, <1>2, NextCallStays
  <2>4. tool'[NextCall(req[s].todo)] = tool[NextCall(req[s].todo)] \/ req[s].todo = {}
    BY <1>1, <1>2, NextCallIn
  <2> QED
    BY <1>1, <1>2, <1>3, <2>2, <2>3, <2>4 DEF HandlerInv, HandlerCalls
<1>6. HandlerResults(s)'
  <2>1. SUFFICES ASSUME req[s].results # {} PROVE HandlerResults(s)'
    BY <1>1 DEF HandlerInv, HandlerResults, Settled
  <2>2. /\ s - 1 \in Requests /\ req[s - 1].phase = "awaiting"
        /\ IdsOf(req[s].results) \subseteq req[s - 1].ask
    BY <1>1, <2>1 DEF HandlerInv, HandlerResults
  <2>3. s - 1 # r /\ req'[s - 1] = req[s - 1]
    BY <1>1, <2>2 DEF Active, Moved
  <2>4. s - 1 # r - 1
    BY <2>2 DEF Requests
  <2>5. \A x \in IdsOf(req[s].results) : x \notin Mine(r)
    BY <1>1, <2>2, <2>3, <2>4, NotMine
  <2>6. \A o \in req[s].results : /\ ran'[o.id] = ran[o.id] /\ answers'[o.id] = answers[o.id]
                                  /\ audit'[o.id] = audit[o.id]
    BY <1>2, <1>3, <2>5 DEF IdsOf
  <2> QED
    BY <1>1, <2>2, <2>3, <2>6 DEF HandlerInv, HandlerResults, Settled
<1> QED
  BY <1>4, <1>5, <1>6 DEF HandlerInv

LEMMA ApartKeeps ==
    ASSUME Inv, NEW r \in Requests, Moved(r)
    PROVE  Apart'
<1>1. ASSUME NEW s \in Requests \ {r}
      PROVE  (req'[r].todo \cup req'[r].ask) \cap (req'[s].todo \cup req'[s].ask) = {}
  BY CallIsReal DEF Inv, Apart, Moved
<1>2. ASSUME NEW s \in Requests \ {r}, NEW t \in Requests \ {r}, s # t
      PROVE  (req'[t].todo \cup req'[t].ask) \cap (req'[s].todo \cup req'[s].ask) = {}
  BY <1>2 DEF Inv, Apart, Moved
<1> QED
  BY <1>1, <1>2 DEF Apart

LEMMA HandedKeeps ==
    ASSUME Inv, NEW r \in Requests, Moved(r)
    PROVE  Handed'
<1>1. \A s \in Requests : req[s].ask \subseteq 1 .. made
  BY CallIsReal
<1> QED
  BY <1>1 DEF Inv, Handed, Moved

LEMMA ClientKeeps ==
    ASSUME Inv, NEW r \in Requests, Moved(r)
    PROVE  ClientInv'
<1> DEFINE c == client.cur
<1>1. /\ ClientInv /\ TypeOK /\ client' = client /\ Active(r)
      /\ made' \in Nat /\ made <= made'
      /\ client.asks \in Nat /\ client.cur \in Nat /\ client.from \in Nat /\ r <= c
  <2>1. ClientInv /\ client \in Client /\ HandlerShape(r) /\ Moved(r)
    BY DEF Inv, TypeOK, HandlerInv
  <2>2. client.asks \in Nat /\ client.cur \in Nat /\ client.from \in Nat /\ r \in Nat
    BY <2>1, BoundAssumption DEF Client, Requests
  <2>3. r <= c
    BY <2>1, <2>2 DEF Moved, Active, HandlerShape, Fresh
  <2> QED
    BY <2>1, <2>2, <2>3 DEF Inv, Moved
<1>2. made \in Nat /\ 1 .. made \subseteq Ids
  BY CallIsReal
<1>3. ASSUME NEW x \in 1 .. made, x \notin Mine(r)
      PROVE  /\ ran'[x] = ran[x] /\ answers'[x] = answers[x] /\ audit'[x] = audit[x]
             /\ Untouched(x)' <=> Untouched(x)
  BY <1>2, <1>3 DEF Moved, Untouched
<1>4. c \in Requests => \A x \in req'[c].ask : c < client.asks + x
  <2>1. ASSUME c \in Requests, NEW x \in req'[c].ask PROVE c < client.asks + x
    <3>1. CASE x \in req[c].ask
      BY <1>1, <2>1, <3>1 DEF ClientInv
    <3>2. CASE x \notin req[c].ask
      <4>1. c = r /\ x \in made + 1 .. made'
        BY <2>1, <3>2 DEF Moved
      <4>2. c <= client.asks + made
        BY <1>1 DEF ClientInv
      <4> QED
        BY <1>1, <1>2, <4>1, <4>2
    <3> QED
      BY <3>1, <3>2
  <2> QED
    BY <2>1
<1>5. ASSUME client.phase = "waiting"
      PROVE  /\ c \in Requests /\ req'[c].phase # "unsent"
             /\ req'[c].phase = "awaiting" => \A x \in req'[c].ask : Untouched(x)'
  <2>1. /\ c \in Requests /\ req[c].phase # "unsent"
        /\ req[c].phase = "awaiting" => \A x \in req[c].ask : Untouched(x)
    BY <1>1, <1>5 DEF ClientInv
  <2>2. CASE c = r
    BY <2>1, <2>2 DEF Moved
  <2>3. CASE c # r
    <3>1. req'[c] = req[c]
      BY <2>1, <2>3 DEF Moved
    <3>2. c # r - 1
      BY <1>1 DEF Requests
    <3>3. \A x \in req[c].ask : x \in 1 .. made /\ x \notin Mine(r)
      BY <1>1, <2>1, <2>3, <3>2, NotMine, CallIsReal
    <3> QED
      BY <1>3, <2>1, <3>1, <3>3
  <2> QED
    BY <2>2, <2>3
<1>6. ASSUME client.phase = "handling"
      PROVE  /\ c \in Requests /\ req'[c].phase = "awaiting"
             /\ client.pending \cup IdsOf(client.results) = req'[c].ask
             /\ client.pending \cap IdsOf(client.results) = {}
             /\ \A x \in client.pending : Untouched(x)'
             /\ Settled(client.results)'
             /\ \A o \in client.results : audit'[o.id] = <<>>
  <2>1. /\ c \in Requests /\ req[c].phase = "awaiting"
        /\ client.pending \cup IdsOf(client.results) = req[c].ask
        /\ client.pending \cap IdsOf(client.results) = {}
        /\ \A x \in client.pending : Untouched(x)
        /\ Settled(client.results)
        /\ \A o \in client.results : audit[o.id] = <<>>
    BY <1>1, <1>6 DEF ClientInv
  <2>2. c # r /\ req'[c] = req[c] /\ c # r - 1
    BY <1>1, <2>1 DEF Active, Moved, Requests
  <2>3. \A x \in req[c].ask : x \in 1 .. made /\ x \notin Mine(r)
    BY <1>1, <2>1, <2>2, NotMine, CallIsReal
  <2>4. \A o \in client.results : o.id \in req[c].ask
    BY <2>1 DEF IdsOf
  <2>5. \A o \in client.results : /\ ran'[o.id] = ran[o.id] /\ answers'[o.id] = answers[o.id]
                                  /\ audit'[o.id] = audit[o.id]
    BY <1>3, <2>3, <2>4
  <2>6. Settled(client.results)'
    BY <1>1, <2>1, <2>5 DEF Settled
  <2> QED
    BY <1>1, <1>3, <2>1, <2>2, <2>3, <2>5, <2>6
<1> QED
  BY <1>1, <1>2, <1>4, <1>5, <1>6 DEF ClientInv, Moved

-----------------------------------------------------------------------------
(* The handler's own part, step by step                                    *)

\* What a call may have been through, when one of its accounts is written.
LEMMA CallsOnceKeeps ==
    ASSUME Inv, NEW x, made' \in Nat, made <= made', x \in 1 .. made,
           \A y \in Ids \ {x} : ran'[y] = ran[y] /\ answers'[y] = answers[y]
                                /\ audit'[y] = audit[y],
           ran'[x] \in {0, 1},
           answers'[x] = <<>> \/ \E a \in {"did", "refused", "unknown"} :
               answers'[x] = <<a>> /\ (a = "did" <=> ran'[x] = 1),
           audit'[x] = <<>> \/ \E d \in Decision :
               audit'[x] = <<d>> /\ (Done(d) <=> ran'[x] = 1)
    PROVE  CallsOnce'
<1>1. made \in Nat /\ CallsOnce
  BY CallIsReal DEF Inv
<1>2. ASSUME NEW y \in Ids, y # x
      PROVE  /\ ran'[y] = ran[y] /\ answers'[y] = answers[y] /\ audit'[y] = audit[y]
             /\ y > made' => y > made
  BY <1>1, <1>2 DEF Ids
<1> QED
  BY <1>1, <1>2 DEF CallsOnce, Untouched

LEMMA AuditResultKeeps ==
    ASSUME Inv, NEW r \in Requests, AuditResult(r)
    PROVE  Moved(r) /\ Accounts(r) /\ HandlerInv(r)' /\ CallsOnce'
<1> DEFINE results == req[r].results
           left == { o.id : o \in results } \ req[r].audited
           x == First(left)
           v == OutcomeOf(results, x)
<1>1. /\ TypeOK /\ CallsOnce /\ HandlerInv(r) /\ req[r] \in Handler /\ r \in Nat
      /\ req[r].phase = "audit" /\ results \in SUBSET Outcome
      /\ req'[r] = [req[r] EXCEPT !.audited = @ \cup {x},
                      !.phase = IF left = {x} THEN "append" ELSE "audit"]
      /\ \A s \in Requests \ {r} : req'[s] = req[s]
      /\ audit' = [audit EXCEPT ![x] = Append(@, v.decision)]
      /\ UNCHANGED <<made, tool, answers, client, denyRest, allowed, ran, yes>>
  BY HandlerTypes DEF Inv, AuditResult, TypeOK, Requests
<1>2. left # {} /\ x \in left /\ v \in results /\ v.id = x /\ x \in Ids
  <2>1. req[r].audited \subseteq IdsOf(results) /\ req[r].audited # IdsOf(results)
    BY <1>1 DEF HandlerInv, HandlerShape
  <2> QED
    BY <1>1, <2>1, AtAResult
<1> HIDE DEF v, x
<1>3. /\ Settled(results) /\ req[r].todo = {} /\ req[r].ask = {} /\ x \in 1 .. made
      /\ audit[x] = <<>> /\ x \in IdsOf(results) /\ x \notin req[r].audited
  <2>1. x \in IdsOf(results) /\ x \notin req[r].audited
    BY <1>2 DEF IdsOf
  <2>2. Settled(results) /\ req[r].todo = {} /\ req[r].ask = {} /\ audit[v.id] = <<>>
    BY <1>1, <1>2, <2>1 DEF HandlerInv, HandlerShape, HandlerResults
  <2> QED
    BY <1>2, <2>1, <2>2, CallIsReal
<1>4. audit'[x] = <<v.decision>> /\ \A y \in Ids \ {x} : audit'[y] = audit[y]
  BY <1>1, <1>2, <1>3 DEF TypeOK
<1>5. /\ req'[r].phase = (IF left = {x} THEN "append" ELSE "audit")
      /\ req'[r].audited = req[r].audited \cup {x} /\ req'[r].results = results
      /\ req'[r].todo = {} /\ req'[r].ask = {} /\ req'[r].repeats = req[r].repeats
  BY <1>1, <1>3 DEF Handler
<1>6. Moved(r)
  BY <1>1, <1>3, <1>4, <1>5, CallIsReal DEF Moved, Mine, Active
<1>7. HandlerShape(r)'
  <2>1. ~ (r > client.cur) /\ req[r].repeats < FailLimit
    BY <1>1 DEF HandlerInv, HandlerShape, Active, Fresh
  <2>2. req'[r].audited \subseteq IdsOf(results) /\ (left = {x} <=> req'[r].audited = IdsOf(results))
    BY <1>1, <1>2, <1>3, <1>5 DEF HandlerInv, HandlerShape, IdsOf
  <2> QED
    BY <1>1, <1>5, <2>1, <2>2 DEF HandlerShape, Active
<1>8. HandlerCalls(r)'
  BY <1>5 DEF HandlerCalls
<1>9. HandlerResults(r)'
  <2>1. \A o \in results : o.id = x => o = v
    BY <1>2, <1>3 DEF Settled
  <2>2. \A o \in results : o.id \in Ids
    BY <1>1 DEF Outcome
  <2>3. r - 1 \in Requests => r - 1 # r /\ req'[r - 1] = req[r - 1]
    BY <1>1
  <2>4. \A o \in results : audit'[o.id] = IF o.id \in req'[r].audited THEN <<o.decision>> ELSE <<>>
    BY <1>1, <1>4, <1>5, <2>1, <2>2, ZenonT(60) DEF HandlerInv, HandlerResults
  <2>5. Settled(results)'
    BY <1>1, <1>3 DEF Settled
  <2> QED
    BY <1>1, <1>5, <2>3, <2>4, <2>5 DEF HandlerInv, HandlerResults
<1>10. CallsOnce'
  <2>1. v.decision \in Decision /\ (Done(v.decision) <=> ran[x] = 1)
    BY <1>1, <1>2, <1>3 DEF Settled, Outcome
  <2>2. answers[x] = <<>> /\ ran[x] \in {0, 1} /\ made \in Nat
    BY <1>1, <1>2, <1>3, CallIsReal DEF Settled, CallsOnce
  <2> QED
    BY <1>1, <1>3, <1>4, <2>1, <2>2, CallsOnceKeeps
<1>11. Accounts(r)
  <2>1. \A y \in IdsOf(results) \ req[r].audited : y \in IdsOf(results) \ req'[r].audited \/ y = x
    BY <1>5
  <2>2. left = IdsOf(results) \ req[r].audited
    BY DEF IdsOf
  <2>3. left = {x} \/ req'[r].phase = "audit"
    BY <1>5
  <2>4. /\ Open(r) = IdsOf(results) /\ Open(r)' = IdsOf(results)
        /\ \A y \in Owed(r) : y \in Owed(r)' \/ y = x
    BY <1>1, <1>3, <1>5, <2>1, <2>2, <2>3 DEF Open, Owed
  <2>5. req'[r].gone = req[r].gone /\ made \in Nat
    BY <1>1, CallIsReal DEF Handler
  <2> QED
    <3>1. \A y \in Ids : audit'[y] # <<>> \/ (y # x /\ audit'[y] = audit[y])
      BY <1>4
    <3>2. made + 1 .. made' = {}
      BY <1>1, <2>5
    <3> HIDE DEF left, results
    <3> QED
      BY <1>1, <2>4, <2>5, <3>1, <3>2 DEF Accounts
<1> QED
  BY <1>6, <1>7, <1>8, <1>9, <1>10, <1>11 DEF HandlerInv

LEMMA ActiveIs ==
    ASSUME Inv, NEW r \in Requests, Active(r)
    PROVE  /\ TypeOK /\ CallsOnce /\ HandlerInv(r) /\ req[r] \in Handler /\ r \in Nat
           /\ ~ (r > client.cur) /\ req[r].repeats < FailLimit /\ r - 1 # r
           /\ req[r].todo \cap req[r].ask = {}
           /\ req[r].todo \cup req[r].ask \subseteq 1 .. made
           /\ 1 .. made \subseteq Ids /\ made \in Nat
BY HandlerTypes, CallIsReal DEF Inv, HandlerInv, HandlerShape, Active, Fresh, Requests

\* Results stay what they are while the calls they are of are not touched.
LEMMA SameResults ==
    ASSUME Inv, NEW r \in Requests, Moved(r), req'[r].results = req[r].results,
           req'[r].phase \notin {"audit", "append"}
    PROVE  HandlerResults(r)'
<1>1. /\ HandlerResults(r) /\ r - 1 # r
      /\ r - 1 \in Requests => req'[r - 1] = req[r - 1]
  BY ActiveIs DEF Moved, HandlerInv
<1> QED
  BY <1>1 DEF HandlerResults

LEMMA AppendIncomingKeeps ==
    ASSUME Inv, NEW r \in Requests, AppendIncoming(r)
    PROVE  Moved(r) /\ Accounts(r) /\ HandlerInv(r)' /\ CallsOnce'
<1> DEFINE results == req[r].results
<1>1. /\ Active(r) /\ req[r].phase = "append"
      /\ req'[r] = [req[r] EXCEPT !.phase = "model"]
      /\ \A s \in Requests \ {r} : req'[s] = req[s]
      /\ answers' = [x \in Ids |->
                        IF \E o \in results : o.id = x
                        THEN Append(answers[x], Report(OutcomeOf(results, x)))
                        ELSE answers[x]]
      /\ UNCHANGED <<made, tool, audit, client, denyRest, allowed, ran, yes>>
  BY DEF Inv, AppendIncoming, TypeOK, Active
<1>2. /\ TypeOK /\ CallsOnce /\ HandlerInv(r) /\ req[r] \in Handler /\ r \in Nat
      /\ ~ (r > client.cur) /\ req[r].repeats < FailLimit
  BY <1>1, ActiveIs
<1>3. /\ Settled(results) /\ req[r].todo = {} /\ req[r].ask = {}
  BY <1>1, <1>2 DEF HandlerInv, HandlerShape, HandlerResults
<1>4. /\ req'[r].phase = "model" /\ req'[r].audited = req[r].audited
      /\ req'[r].results = results /\ req'[r].todo = {} /\ req'[r].ask = {}
      /\ req'[r].repeats = req[r].repeats
  BY <1>1, <1>2, <1>3 DEF Handler
<1>5. \A y \in Ids \ IdsOf(results) : answers'[y] = answers[y]
  BY <1>1 DEF IdsOf
<1>6. ASSUME NEW o \in results, o.id \in Ids
      PROVE  answers'[o.id] = <<Report(o)>> /\ answers[o.id] = <<>>
             /\ (Report(o) = "did" <=> ran[o.id] = 1)
  <2>1. OutcomeOf(results, o.id) = o
    BY <1>3 DEF OutcomeOf, Settled
  <2>2. answers[o.id] = <<>> /\ ran[o.id] = IF o.did THEN 1 ELSE 0
    BY <1>3 DEF Settled
  <2>3. answers'[o.id] = Append(<<>>, Report(o))
    BY <1>1, <1>6, <2>1, <2>2
  <2>4. Append(<<>>, Report(o)) = <<Report(o)>>
    OBVIOUS
  <2> QED
    BY <2>2, <2>3, <2>4 DEF Report
<1>7. Moved(r)
  BY <1>1, <1>4, <1>5, CallIsReal DEF Moved, Mine
<1>8. HandlerShape(r)' /\ HandlerCalls(r)'
  BY <1>1, <1>2, <1>4 DEF HandlerInv, HandlerShape, HandlerCalls, Active
<1>9. HandlerResults(r)'
  BY <1>4, <1>7, SameResults
<1>10. CallsOnce'
  <2>1. ASSUME NEW y \in Ids
        PROVE  answers'[y] = <<>> \/ \E a \in {"did", "refused", "unknown"} :
                   answers'[y] = <<a>> /\ (a = "did" <=> ran[y] = 1)
    <3>1. CASE y \in IdsOf(results)
      <4>1. PICK o \in results : o.id = y
        BY <3>1 DEF IdsOf
      <4>2. answers'[y] = <<Report(o)>> /\ (Report(o) = "did" <=> ran[y] = 1)
        BY <1>6, <4>1
      <4>3. Report(o) \in {"did", "refused", "unknown"}
        BY DEF Report
      <4> QED
        BY <4>2, <4>3
    <3>2. CASE y \notin IdsOf(results)
      BY <1>2, <1>5, <3>2 DEF CallsOnce
    <3> QED
      BY <3>1, <3>2
  <2>2. \A y \in Ids : y > made => y \notin IdsOf(results)
    BY CallIsReal
  <2> QED
    BY <1>1, <1>2, <1>5, <2>1, <2>2, ZenonT(60) DEF CallsOnce, Untouched
<1>11. Accounts(r)
  <2>1. /\ Open(r) = IdsOf(results) /\ Owed(r) = {} /\ made \in Nat /\ req'[r].gone = req[r].gone
    BY <1>1, <1>2, <1>3, CallIsReal DEF Open, Owed, Handler
  <2>2. ASSUME NEW y \in Ids PROVE answers'[y] # <<>> \/ (y \notin IdsOf(results) /\ answers'[y] = answers[y])
    <3>1. CASE y \in IdsOf(results)
      <4>1. PICK o \in results : o.id = y
        BY <3>1 DEF IdsOf
      <4> QED
        BY <1>6, <4>1, SMTT(30)
    <3>2. CASE y \notin IdsOf(results)
      BY <1>5, <3>2
    <3> QED
      BY <3>1, <3>2
  <2>3. IdsOf(results) \subseteq Ids
    BY CallIsReal
  <2>4. \A y \in Ids : answers[y] # <<>> => answers'[y] # <<>>
    BY <2>2
  <2>5. \A y \in IdsOf(results) : answers'[y] # <<>>
    BY <2>2, <2>3
  <2> QED
    BY <1>1, <2>1, <2>4, <2>5 DEF Accounts
<1> QED
  BY <1>7, <1>8, <1>9, <1>10, <1>11 DEF HandlerInv

LEMMA AskModelKeeps ==
    ASSUME Inv, NEW r \in Requests, AskModel(r), TypeOK'
    PROVE  Moved(r) /\ Accounts(r) /\ HandlerInv(r)' /\ CallsOnce'
<1>1. Active(r) /\ req[r].phase = "model"
  BY DEF AskModel, Active
<1>2. /\ TypeOK /\ CallsOnce /\ HandlerInv(r) /\ req[r] \in Handler /\ r \in Nat
      /\ ~ (r > client.cur) /\ req[r].repeats < FailLimit /\ made \in Nat
  BY <1>1, ActiveIs
<1>3. PICK n \in 0 .. MaxPerAnswer : \E names \in [1 .. n -> Tools] :
        LET calls == made + 1 .. made + n
            ours  == { x \in calls : names[x - made] \notin ClientTools }
        IN /\ made + n <= MaxCalls
           /\ made' = made + n
           /\ tool' = [x \in Ids |->
                         IF x \in calls THEN names[x - made] ELSE tool[x]]
           /\ req' = [req EXCEPT ![r] = [req[r] EXCEPT
                        !.phase = IF n = 0 THEN "complete" ELSE "tools",
                        !.i = @ + 1,
                        !.todo = ours,
                        !.ask = calls \ ours]]
  BY DEF AskModel
<1>4. PICK names \in [1 .. n -> Tools] :
        LET calls == made + 1 .. made + n
            ours  == { x \in calls : names[x - made] \notin ClientTools }
        IN /\ made + n <= MaxCalls
           /\ made' = made + n
           /\ tool' = [x \in Ids |->
                         IF x \in calls THEN names[x - made] ELSE tool[x]]
           /\ req' = [req EXCEPT ![r] = [req[r] EXCEPT
                        !.phase = IF n = 0 THEN "complete" ELSE "tools",
                        !.i = @ + 1,
                        !.todo = ours,
                        !.ask = calls \ ours]]
  BY <1>3
<1> DEFINE calls == made + 1 .. made + n
           ours  == { x \in calls : names[x - made] \notin ClientTools }
           h     == [req[r] EXCEPT !.phase = IF n = 0 THEN "complete" ELSE "tools",
                                   !.i = @ + 1, !.todo = ours, !.ask = calls \ ours]
<1>5. /\ ours \subseteq calls
      /\ \A x \in Ids : x \in calls \/ tool'[x] = tool[x]
      /\ \A x \in calls \ ours : x \in Ids => tool'[x] \in ClientTools
      /\ req'[r] = h /\ \A s \in Requests \ {r} : req'[s] = req[s]
  <2>1. req' = [req EXCEPT ![r] = h]
    BY <1>4
  <2>2. tool' = [x \in Ids |-> IF x \in calls THEN names[x - made] ELSE tool[x]]
    BY <1>4
  <2> HIDE DEF h
  <2> QED
    BY <1>2, <2>1, <2>2 DEF TypeOK
<1> HIDE DEF ours
<1>6. /\ req'[r].phase \in {"complete", "tools"} /\ req'[r].audited = req[r].audited
      /\ req'[r].results = req[r].results /\ req'[r].todo = ours
      /\ req'[r].ask = calls \ ours /\ req'[r].repeats = req[r].repeats
  BY <1>2, <1>5 DEF Handler
<1>7. /\ made' = made + n /\ made' \in Nat /\ made <= made' /\ 1 .. made \subseteq Ids
      /\ \A x \in calls : x \in Ids /\ x > made /\ x \in 1 .. made'
      /\ UNCHANGED <<answers, audit, client, denyRest, allowed, ran, yes>>
  BY <1>2, <1>4, CallIsReal, BoundAssumption DEF AskModel, Ids
<1>8. \A x \in calls : Untouched(x)
  BY <1>2, <1>7 DEF CallsOnce
<1>9. Moved(r)
  <2>1. \A x \in 1 .. made : x \in Ids /\ x \notin calls
    BY <1>2, <1>7
  <2>2. calls = made + 1 .. made'
    BY <1>7
  <2> QED
    BY <1>1, <1>5, <1>6, <1>7, <2>1, <2>2 DEF Moved
<1>10. HandlerShape(r)'
  <2>1. ours \cup (calls \ ours) \subseteq 1 .. made' /\ ours \cap (calls \ ours) = {}
    BY <1>5, <1>7
  <2> HIDE DEF calls
  <2> QED
    BY <1>1, <1>2, <1>6, <1>7, <2>1 DEF HandlerInv, HandlerShape, Active
<1>13. HandlerCalls(r)'
  <2>1. \A x \in ours \cup (calls \ ours) : Untouched(x)'
    BY <1>5, <1>7, <1>8 DEF Untouched
  <2> HIDE DEF calls
  <2> QED
    BY <1>6, <2>1 DEF HandlerCalls
<1>11. HandlerResults(r)'
  BY <1>6, <1>9, SameResults
<1>12. CallsOnce'
  <2>1. \A x \in Ids : x > made' => x > made
    BY <1>2, <1>7 DEF Ids
  <2> QED
    BY <1>2, <1>7, <2>1 DEF CallsOnce, Untouched
<1>14. Accounts(r)
  <2>1. /\ Open(r) = {} /\ Owed(r) = {} /\ req'[r].gone = req[r].gone
    BY <1>1, <1>2, <1>5 DEF HandlerInv, HandlerShape, Open, Owed, Handler
  <2>2. made + 1 .. made' \subseteq Open(r)'
    <3>1. calls = made + 1 .. made'
      BY <1>7
    <3>2. Open(r)' = calls
      BY <1>5, <1>6 DEF Open
    <3> QED
      BY <3>1, <3>2
  <2> QED
    BY <1>7, <2>1, <2>2 DEF Accounts
<1> QED
  BY <1>9, <1>10, <1>11, <1>12, <1>13, <1>14 DEF HandlerInv

LEMMA AnswerUnknownKeeps ==
    ASSUME Inv, NEW r \in Requests, AnswerUnknown(r)
    PROVE  Moved(r) /\ Accounts(r) /\ HandlerInv(r)' /\ CallsOnce'
<1> DEFINE x == NextCall(req[r].todo)
<1>1. /\ Active(r) /\ req[r].phase = "tools" /\ req[r].todo # {}
      /\ req'[r] = [req[r] EXCEPT !.todo = @ \ {x}]
      /\ \A s \in Requests \ {r} : req'[s] = req[s]
      /\ answers' = [answers EXCEPT ![x] = Append(@, "unknown")]
      /\ UNCHANGED <<made, tool, audit, client, denyRest, allowed, ran, yes>>
  BY DEF Inv, AnswerUnknown, TypeOK, Active
<1>2. /\ TypeOK /\ CallsOnce /\ HandlerInv(r) /\ req[r] \in Handler /\ r \in Nat
      /\ ~ (r > client.cur) /\ req[r].repeats < FailLimit
      /\ req[r].todo \cap req[r].ask = {} /\ made \in Nat
      /\ req[r].todo \cup req[r].ask \subseteq 1 .. made /\ 1 .. made \subseteq Ids
  BY <1>1, ActiveIs
<1>3. x \in req[r].todo /\ x \in Ids /\ Untouched(x)
  BY <1>1, <1>2, AtACall DEF HandlerInv, HandlerCalls
<1> HIDE DEF x
<1>4. answers'[x] = <<"unknown">> /\ \A y \in Ids \ {x} : answers'[y] = answers[y]
  <2>1. answers'[x] = Append(<<>>, "unknown") /\ \A y \in Ids \ {x} : answers'[y] = answers[y]
    BY <1>1, <1>2, <1>3 DEF TypeOK, Untouched
  <2> QED
    BY <2>1
<1>5. /\ req'[r].phase = "tools" /\ req'[r].audited = req[r].audited
      /\ req'[r].results = req[r].results /\ req'[r].todo = req[r].todo \ {x}
      /\ req'[r].ask = req[r].ask /\ req'[r].repeats = req[r].repeats
  BY <1>1, <1>2 DEF Handler
<1>6. Moved(r)
  BY <1>1, <1>2, <1>3, <1>4, <1>5 DEF Moved, Mine
<1>7. HandlerShape(r)'
  BY <1>1, <1>2, <1>5 DEF HandlerInv, HandlerShape, Active
<1>8. HandlerCalls(r)'
  BY <1>1, <1>2, <1>3, <1>4, <1>5 DEF HandlerInv, HandlerCalls, Untouched
<1>9. HandlerResults(r)'
  BY <1>5, <1>6, SameResults
<1>10. CallsOnce'
  BY <1>1, <1>2, <1>3, <1>4, CallsOnceKeeps DEF Untouched
<1>11. Accounts(r)
  <2>1. /\ Owed(r) = {} /\ req'[r].gone = req[r].gone
        /\ \A y \in Open(r) : y \in Open(r)' \/ y = x
    BY <1>1, <1>2, <1>5 DEF Open, Owed, Handler
  <2> QED
    BY <1>1, <1>2, <1>4, <2>1 DEF Accounts
<1> QED
  BY <1>6, <1>7, <1>8, <1>9, <1>10, <1>11 DEF HandlerInv

LEMMA RunServerToolKeeps ==
    ASSUME Inv, NEW r \in Requests, RunServerTool(r)
    PROVE  Moved(r) /\ Accounts(r) /\ HandlerInv(r)' /\ CallsOnce'
<1> DEFINE x == NextCall(req[r].todo)
<1>0. PICK result \in Errors \cup {"ok"} :
          req' = [req EXCEPT ![r] = [req[r] EXCEPT !.phase = "ran", !.out = result]]
  BY DEF RunServerTool
<1>1. /\ Active(r) /\ req[r].phase = "tools" /\ req[r].todo # {}
      /\ req'[r] = [req[r] EXCEPT !.phase = "ran", !.out = result]
      /\ \A s \in Requests \ {r} : req'[s] = req[s]
      /\ tool[x] \in ServerTools /\ ran' = [ran EXCEPT ![x] = @ + 1]
      /\ UNCHANGED <<made, tool, answers, audit, client, denyRest, allowed, yes>>
  BY <1>0 DEF Inv, RunServerTool, TypeOK, Active
<1>2. /\ TypeOK /\ CallsOnce /\ HandlerInv(r) /\ req[r] \in Handler /\ r \in Nat
      /\ ~ (r > client.cur) /\ req[r].repeats < FailLimit
      /\ req[r].todo \cap req[r].ask = {} /\ made \in Nat
      /\ req[r].todo \cup req[r].ask \subseteq 1 .. made /\ 1 .. made \subseteq Ids
  BY <1>1, ActiveIs
<1>3. x \in req[r].todo /\ x \in Ids /\ Untouched(x) /\ NextCall(req[r].todo)' = x
  BY <1>1, <1>2, AtACall, NextCallStays DEF HandlerInv, HandlerCalls
<1> HIDE DEF x
<1>4. ran'[x] = 1 /\ \A y \in Ids \ {x} : ran'[y] = ran[y]
  BY <1>1, <1>2, <1>3 DEF TypeOK, Untouched
<1>5. /\ req'[r].phase = "ran" /\ req'[r].audited = req[r].audited
      /\ req'[r].results = req[r].results /\ req'[r].todo = req[r].todo
      /\ req'[r].ask = req[r].ask /\ req'[r].repeats = req[r].repeats
  BY <1>1, <1>2 DEF Handler
<1>6. Moved(r)
  BY <1>1, <1>2, <1>3, <1>4, <1>5 DEF Moved, Mine
<1>7. HandlerShape(r)'
  BY <1>1, <1>2, <1>5 DEF HandlerInv, HandlerShape, Active
<1>8. HandlerCalls(r)'
  BY <1>1, <1>2, <1>3, <1>4, <1>5 DEF HandlerInv, HandlerCalls, Untouched
<1>9. HandlerResults(r)'
  BY <1>5, <1>6, SameResults
<1>10. CallsOnce'
  BY <1>1, <1>2, <1>3, <1>4, CallsOnceKeeps DEF Untouched
<1>11. Accounts(r)
  <2>1. /\ Owed(r) = {} /\ Owed(r)' = {x} /\ req'[r].gone = req[r].gone
        /\ \A y \in Open(r) : y \in Open(r)'
    BY <1>1, <1>2, <1>3, <1>5 DEF Open, Owed, Handler
  <2> QED
    BY <1>1, <1>2, <1>4, <2>1 DEF Accounts
<1> QED
  BY <1>6, <1>7, <1>8, <1>9, <1>10, <1>11 DEF HandlerInv

\* The row of the call that just ran, or none.
LEMMA RecordedAtMostOnce ==
    ASSUME TypeOK, NEW r \in Requests, NEW x \in Ids, audit[x] = <<>>,
           RecordServerTool(r, x) \/ audit' = audit
    PROVE  /\ audit'[x] \in {<<>>, <<"auto">>}
           /\ \A y \in Ids \ {x} : audit'[y] = audit[y]
<1>1. audit' = audit \/ audit' = [audit EXCEPT ![x] = Append(@, "auto")]
  BY DEF RecordServerTool
<1>2. Append(<<>>, "auto") = <<"auto">>
  OBVIOUS
<1> QED
  BY <1>1, <1>2 DEF TypeOK

LEMMA AnswerServerToolKeeps ==
    ASSUME Inv, NEW r \in Requests, AnswerServerTool(r), TypeOK'
    PROVE  Moved(r) /\ Accounts(r) /\ HandlerInv(r)' /\ CallsOnce'
<1> DEFINE x == NextCall(req[r].todo)
           fail == req[r].out # "ok"
           key  == <<tool[x], req[r].out>>
           n    == IF fail THEN Repeats(req[r], key) ELSE 0
<1>1. /\ Active(r) /\ req[r].phase = "ran"
      /\ req'[r] = [req[r] EXCEPT !.phase = IF n >= FailLimit THEN "error" ELSE "tools",
                      !.todo = @ \ {x}, !.last = IF fail THEN key ELSE <<>>,
                      !.repeats = n]
      /\ \A s \in Requests \ {r} : req'[s] = req[s]
      /\ answers' = [answers EXCEPT ![x] = Append(@, "did")]
      /\ RecordServerTool(r, x)
      /\ UNCHANGED <<made, tool, client, denyRest, allowed, ran, yes>>
  BY DEF Inv, AnswerServerTool, TypeOK, Active
<1>2. /\ TypeOK /\ CallsOnce /\ HandlerInv(r) /\ req[r] \in Handler /\ r \in Nat
      /\ ~ (r > client.cur) /\ req[r].repeats < FailLimit
      /\ req[r].todo \cap req[r].ask = {} /\ made \in Nat
      /\ req[r].todo \cup req[r].ask \subseteq 1 .. made /\ 1 .. made \subseteq Ids
  BY <1>1, ActiveIs
<1>3. /\ x \in req[r].todo /\ x \in Ids
      /\ ran[x] = 1 /\ answers[x] = <<>> /\ audit[x] = <<>>
      /\ \A y \in (req[r].todo \cup req[r].ask) \ {x} : Untouched(y)
  <2>1. HandlerCalls(r) /\ req[r].todo # {}
    BY <1>1, <1>2 DEF HandlerInv, HandlerCalls
  <2>2. x \in req[r].todo /\ x \in Ids
    BY <1>2, <2>1, AtACall
  <2> QED
    BY <1>1, <2>1, <2>2 DEF HandlerCalls
<1> HIDE DEF x
<1>4. n >= 0 /\ (n >= FailLimit \/ n < FailLimit)
  <2>1. n \in Nat
    BY <1>2, HandlerTypes, BoundAssumption DEF Repeats
  <2> QED
    BY <2>1, BoundAssumption
<1> HIDE DEF n
<1>5. /\ answers'[x] = <<"did">> /\ \A y \in Ids \ {x} : answers'[y] = answers[y]
      /\ audit'[x] \in {<<>>, <<"auto">>} /\ \A y \in Ids \ {x} : audit'[y] = audit[y]
  <2>1. answers'[x] = Append(<<>>, "did") /\ \A y \in Ids \ {x} : answers'[y] = answers[y]
    BY <1>1, <1>2, <1>3 DEF TypeOK
  <2>2. answers'[x] = <<"did">>
    BY <2>1
  <2> QED
    BY <1>1, <1>2, <1>3, <2>1, <2>2, RecordedAtMostOnce
<1>6. /\ req'[r].phase = (IF n >= FailLimit THEN "error" ELSE "tools")
      /\ req'[r].audited = req[r].audited
      /\ req'[r].results = req[r].results /\ req'[r].todo = req[r].todo \ {x}
      /\ req'[r].ask = req[r].ask /\ req'[r].repeats = n
  BY <1>1, <1>2 DEF Handler
<1>7. Moved(r)
  BY <1>1, <1>2, <1>3, <1>5, <1>6 DEF Moved, Mine
<1>8. HandlerShape(r)'
  BY <1>1, <1>2, <1>4, <1>6 DEF HandlerInv, HandlerShape, Active
<1>9. HandlerCalls(r)'
  BY <1>1, <1>2, <1>3, <1>5, <1>6 DEF HandlerCalls, Untouched
<1>10. HandlerResults(r)'
  BY <1>6, <1>7, SameResults
<1>11. CallsOnce'
  <2>1. x \in 1 .. made
    BY <1>2, <1>3
  <2> QED
    BY <1>1, <1>2, <1>3, <1>5, <2>1, CallsOnceKeeps DEF Done, Decision
<1>12. Accounts(r)
  <2>1. /\ Owed(r) = {x} /\ req'[r].gone = req[r].gone
        /\ \A y \in Open(r) : y \in Open(r)' \/ y = x
    BY <1>1, <1>2, <1>6 DEF Open, Owed, Handler, x
  <2>2. ~ Faults /\ ~ req[r].gone => audit'[x] # <<>>
    <3>1. SUFFICES ASSUME ~ Faults, ~ req[r].gone PROVE audit'[x] # <<>>
      OBVIOUS
    <3>2. audit' = [audit EXCEPT ![x] = Append(@, "auto")]
      BY <1>1, <3>1 DEF RecordServerTool
    <3>3. audit'[x] = Append(<<>>, "auto")
      BY <1>2, <1>3, <3>2 DEF TypeOK
    <3> QED
      BY <3>3
  <2>3. \A y \in Ids : audit[y] # <<>> => audit'[y] # <<>>
    BY <1>3, <1>5
  <2> QED
    BY <1>1, <1>2, <1>5, <2>1, <2>2, <2>3 DEF Accounts
<1> QED
  BY <1>7, <1>8, <1>9, <1>10, <1>11, <1>12 DEF HandlerInv

LEMMA EndingKeeps ==
    ASSUME Inv, NEW r \in Requests, EndRound(r) \/ Exhausted(r)
    PROVE  Moved(r) /\ Accounts(r) /\ HandlerInv(r)' /\ CallsOnce'
<1>1. PICK at \in {"awaiting", "model", "error"} :
          /\ req'[r] = [req[r] EXCEPT !.phase = at]
          /\ \A s \in Requests \ {r} : req'[s] = req[s]
          /\ at = "awaiting" => req[r].phase = "tools" /\ req[r].todo = {} /\ req[r].ask # {}
          /\ at = "model" => req[r].phase = "tools" /\ req[r].todo = {} /\ req[r].ask = {}
  BY DEF EndRound, Exhausted, Inv, TypeOK
<1>2. /\ Active(r) /\ req[r].phase \in {"tools", "model"}
      /\ UNCHANGED <<made, tool, answers, audit, client, denyRest, allowed, ran, yes>>
  BY DEF EndRound, Exhausted, Active
<1>3. /\ TypeOK /\ CallsOnce /\ HandlerInv(r) /\ req[r] \in Handler /\ r \in Nat
      /\ ~ (r > client.cur) /\ req[r].repeats < FailLimit /\ made \in Nat
  BY <1>2, ActiveIs
<1>4. /\ req'[r].phase = at /\ req'[r].audited = req[r].audited
      /\ req'[r].results = req[r].results /\ req'[r].todo = req[r].todo
      /\ req'[r].ask = req[r].ask /\ req'[r].repeats = req[r].repeats
  BY <1>1, <1>3 DEF Handler
<1>5. Moved(r)
  BY <1>1, <1>2, <1>3, <1>4 DEF Moved, HandlerInv, HandlerCalls, Untouched
<1>6. HandlerShape(r)' /\ HandlerCalls(r)'
  BY <1>1, <1>2, <1>3, <1>4 DEF HandlerInv, HandlerShape, HandlerCalls, Active
<1>7. HandlerResults(r)'
  BY <1>1, <1>4, <1>5, SameResults
<1>8. CallsOnce'
  BY <1>2, <1>3 DEF CallsOnce, Untouched
<1>9. Accounts(r)
  <2>1. /\ Owed(r) = {} /\ req'[r].gone = req[r].gone /\ Open(r)' = Open(r)
    BY <1>1, <1>2, <1>3, <1>4 DEF Open, Owed, Handler
  <2> QED
    BY <1>2, <1>3, <2>1 DEF Accounts
<1> QED
  BY <1>5, <1>6, <1>7, <1>8, <1>9 DEF HandlerInv

LEMMA FailKeeps ==
    ASSUME Inv, NEW r \in Requests, Fail(r)
    PROVE  Moved(r) /\ Accounts(r) /\ HandlerInv(r)' /\ CallsOnce'
<1> DEFINE x == NextCall(req[r].todo)
<1>1. /\ Active(r) /\ req'[r] = [req[r] EXCEPT !.phase = "error"]
      /\ \A s \in Requests \ {r} : req'[s] = req[s]
      /\ IF req[r].phase = "ran" THEN RecordServerTool(r, x) ELSE audit' = audit
      /\ UNCHANGED <<made, tool, answers, client, denyRest, allowed, ran, yes>>
  BY DEF Fail, Inv, TypeOK
<1>2. /\ TypeOK /\ CallsOnce /\ HandlerInv(r) /\ req[r] \in Handler /\ r \in Nat
      /\ ~ (r > client.cur) /\ req[r].repeats < FailLimit /\ made \in Nat
      /\ req[r].todo \cup req[r].ask \subseteq 1 .. made /\ 1 .. made \subseteq Ids
  BY <1>1, ActiveIs
<1>3. /\ req'[r].phase = "error" /\ req'[r].audited = req[r].audited
      /\ req'[r].results = req[r].results /\ req'[r].todo = req[r].todo
      /\ req'[r].ask = req[r].ask /\ req'[r].repeats = req[r].repeats
  BY <1>1, <1>2 DEF Handler
<1>4. HandlerShape(r)' /\ HandlerCalls(r)'
  BY <1>1, <1>2, <1>3 DEF HandlerInv, HandlerShape, HandlerCalls, Active
<1>7. Accounts(r)
  <2>1. req'[r].gone = req[r].gone /\ (Faults \/ req[r].gone)
    BY <1>1, <1>2 DEF Fail, Handler
  <2>2. audit' = audit \/ audit' = [audit EXCEPT ![x] = Append(@, "auto")]
    BY <1>1 DEF RecordServerTool
  <2>3. \A y \in Ids : audit[y] # <<>> => audit'[y] # <<>>
    <3>1. ASSUME NEW y \in Ids PROVE Append(audit[y], "auto") # <<>>
      <4>1. audit[y] \in Seq(Decision) /\ "auto" \in Decision
        BY <1>2 DEF TypeOK, Decision
      <4> DEFINE w == Append(audit[y], "auto")
      <4>2. Len(w) = Len(audit[y]) + 1 /\ Len(audit[y]) \in Nat
        BY <4>1
      <4> HIDE DEF w
      <4>3. w = <<>> => Len(w) = 0
        OBVIOUS
      <4>4. w # <<>>
        BY <4>2, <4>3
      <4> QED
        BY <4>4 DEF w
    <3> QED
      BY <1>2, <2>2, <3>1 DEF TypeOK
  <2> QED
    BY <1>1, <1>3, <2>1, <2>3 DEF Accounts
<1>5. CASE req[r].phase # "ran"
  <2>1. Moved(r)
    BY <1>1, <1>2, <1>3, <1>5 DEF Moved
  <2>2. HandlerResults(r)'
    BY <1>3, <2>1, SameResults
  <2>3. CallsOnce'
    BY <1>1, <1>2, <1>5 DEF CallsOnce, Untouched
  <2> QED
    BY <1>4, <1>7, <2>1, <2>2, <2>3 DEF HandlerInv
<1>6. CASE req[r].phase = "ran"
  <2>1. /\ x \in req[r].todo /\ x \in Ids /\ x \in 1 .. made
        /\ ran[x] = 1 /\ answers[x] = <<>> /\ audit[x] = <<>>
    <3>1. HandlerCalls(r) /\ req[r].todo # {}
      BY <1>2, <1>6 DEF HandlerInv, HandlerCalls
    <3>2. x \in req[r].todo /\ x \in Ids
      BY <1>2, <3>1, AtACall
    <3> QED
      BY <1>2, <1>6, <3>1, <3>2 DEF HandlerCalls
  <2> HIDE DEF x
  <2>2. audit'[x] \in {<<>>, <<"auto">>} /\ \A y \in Ids \ {x} : audit'[y] = audit[y]
    BY <1>1, <1>2, <1>6, <2>1, RecordedAtMostOnce
  <2>3. Moved(r)
    BY <1>1, <1>2, <1>3, <1>6, <2>1, <2>2 DEF Moved, Mine
  <2>4. HandlerResults(r)'
    BY <1>3, <2>3, SameResults
  <2>5. CallsOnce'
    BY <1>1, <1>2, <2>1, <2>2, CallsOnceKeeps DEF Done, Decision
  <2> QED
    BY <1>4, <1>7, <2>3, <2>4, <2>5 DEF HandlerInv
<1> QED
  BY <1>5, <1>6

LEMMA ServeMoves ==
    ASSUME Inv, NEW r \in Requests, Serve(r)
    PROVE  Moved(r) /\ Accounts(r) /\ HandlerInv(r)' /\ CallsOnce'
<1>1. TypeOK'
  BY ServeTypes
<1> QED
  BY <1>1, AuditResultKeeps, AppendIncomingKeeps, AskModelKeeps, AnswerUnknownKeeps,
     RunServerToolKeeps, AnswerServerToolKeeps, EndingKeeps, FailKeeps DEF Serve

LEMMA ServeKeeps ==
    ASSUME Inv, NEW r \in Requests, Serve(r)
    PROVE  Inv'
<1>1. TypeOK'
  BY ServeTypes
<1>2. Moved(r) /\ HandlerInv(r)' /\ CallsOnce'
  BY ServeMoves
<1>3. \A s \in Requests : HandlerInv(s)'
  BY <1>2, OthersKeep
<1> QED
  BY <1>1, <1>2, <1>3, ApartKeeps, HandedKeeps, ClientKeeps DEF Inv

-----------------------------------------------------------------------------
(* The steps of the harness                                                *)

LEMMA ClientIs ==
    ASSUME Inv
    PROVE  /\ client \in Client /\ client.cur \in Nat /\ client.asks \in Nat
           /\ client.from \in Nat /\ client.pending \in SUBSET Ids
           /\ client.results \in SUBSET Outcome /\ client.asks <= MaxAsks
BY BoundAssumption DEF Inv, TypeOK, Client

\* A handler whose record stays keeps its part while the harness touches only
\* calls that were handed to it.
LEMMA HandlerStays ==
    ASSUME Inv, NEW s \in Requests, req'[s] = req[s],
           s - 1 \in Requests /\ req[s].results # {} => req'[s - 1] = req[s - 1],
           client'.cur \in Nat, client.cur <= client'.cur, made' = made, tool' = tool,
           answers' = answers, audit' = audit,
           \A x \in Ids : ran'[x] = ran[x] \/
               (client.phase = "handling" /\ x \in client.pending)
    PROVE  HandlerInv(s)'
<1>1. HandlerInv(s) /\ client.cur \in Nat /\ s \in Nat
  BY ClientIs DEF Inv, Requests
<1>2. /\ req[s].todo \cup req[s].ask \subseteq 1 .. made /\ 1 .. made \subseteq Ids
      /\ IdsOf(req[s].results) \subseteq 1 .. made
  BY CallIsReal
<1>3. HandlerShape(s)'
  BY <1>1 DEF HandlerInv, HandlerShape, Active
<1>4. ASSUME client.phase = "handling"
      PROVE  /\ client.cur \in Requests /\ req[client.cur].phase = "awaiting"
             /\ client.pending \subseteq req[client.cur].ask
  BY <1>4 DEF Inv, ClientInv
<1>5. HandlerCalls(s)'
  <2>1. SUFFICES ASSUME req[s].phase \in {"tools", "ran"} PROVE HandlerCalls(s)'
    BY DEF HandlerCalls
  <2>2. \A x \in req[s].todo \cup req[s].ask : ran'[x] = ran[x]
    BY <1>2, <1>4, <2>1 DEF Inv, Apart
  <2>3. NextCall(req[s].todo)' = NextCall(req[s].todo)
    BY NextCallStays
  <2> QED
    BY <1>1, <2>2, <2>3 DEF HandlerInv, HandlerCalls, Untouched
<1>6. HandlerResults(s)'
  <2>1. SUFFICES ASSUME req[s].results # {} PROVE HandlerResults(s)'
    BY <1>1 DEF HandlerInv, HandlerResults, Settled
  <2>2. /\ s - 1 \in Requests /\ req[s - 1].phase = "awaiting"
        /\ IdsOf(req[s].results) \subseteq req[s - 1].ask
        /\ s - 1 # client.cur /\ req'[s - 1] = req[s - 1]
    BY <1>1, <2>1 DEF HandlerInv, HandlerShape, HandlerResults, Fresh
  <2>3. \A x \in IdsOf(req[s].results) : ran'[x] = ran[x]
    BY <1>2, <1>4, <2>2 DEF Inv, Apart
  <2>4. \A o \in req[s].results : ran'[o.id] = ran[o.id]
    BY <2>3 DEF IdsOf
  <2> QED
    BY <1>1, <2>2, <2>4 DEF HandlerInv, HandlerResults, Settled
<1> QED
  BY <1>3, <1>5, <1>6 DEF HandlerInv

\* One call is settled: executed and reported as done, or neither.
LEMMA SettlingKeeps ==
    ASSUME Inv, Handling, NEW decision \in Decision, NEW did \in BOOLEAN,
           Settle(decision, did), Done(decision) <=> did,
           ran' = IF did THEN [ran EXCEPT ![Call] = @ + 1] ELSE ran,
           UNCHANGED server, denyRest' \in BOOLEAN, allowed' \subseteq ClientTools,
           yes' \subseteq Ids
    PROVE  Inv'
<1> DEFINE x == Call
           o == [id |-> x, decision |-> decision, did |-> did]
<1>1. /\ TypeOK /\ CallsOnce /\ ClientInv /\ client.phase = "handling" /\ Apart
      /\ client \in Client /\ client.pending \in SUBSET Ids
      /\ UNCHANGED <<req, made, tool, answers, audit>>
  BY ClientIs DEF Inv, Handling, server
<1>2. x \in client.pending /\ x \in Ids
  <2>1. client.pending \in SUBSET Nat /\ client.pending # {}
    BY <1>1 DEF Ids, Handling
  <2>2. Call \in client.pending
    BY <2>1, FirstIn DEF Call
  <2> QED
    BY <1>1, <2>2
<1>3. /\ client.cur \in Requests /\ req[client.cur].phase = "awaiting"
      /\ client.pending \cup IdsOf(client.results) = req[client.cur].ask
      /\ client.pending \cap IdsOf(client.results) = {}
      /\ \A y \in client.pending : Untouched(y)
      /\ Settled(client.results)
      /\ \A p \in client.results : audit[p.id] = <<>>
  BY <1>1 DEF ClientInv
<1>4. client' = [client EXCEPT !.pending = @ \ {x}, !.results = @ \cup {o}]
  BY DEF Settle
<1> HIDE DEF x
<1>5. ran'[x] = (IF did THEN 1 ELSE 0) /\ \A y \in Ids \ {x} : ran'[y] = ran[y]
  BY <1>1, <1>2, <1>3 DEF TypeOK, Untouched, x
<1>6. o \in Outcome /\ o.id = x /\ o.decision = decision /\ o.did = did
  BY <1>2 DEF Outcome
<1> HIDE DEF o
<1>7. /\ client'.phase = "handling" /\ client'.cur = client.cur
      /\ client'.asks = client.asks /\ client'.from = client.from
      /\ client'.pending = client.pending \ {x}
      /\ client'.results = client.results \cup {o} /\ client' \in Client
  BY <1>1, <1>4, <1>6 DEF Client
<1>8. TypeOK'
  <2>1. ran' \in [Ids -> Nat]
    BY <1>1, <1>2 DEF TypeOK, x
  <2> QED
    BY <1>1, <1>7, <2>1 DEF TypeOK
<1>9. CallsOnce'
  <2>1. x \in 1 .. made /\ made \in Nat
    BY <1>2, <1>3, CallIsReal
  <2>2. answers'[x] = <<>> /\ audit'[x] = <<>>
    BY <1>1, <1>2, <1>3 DEF Untouched
  <2> QED
    BY <1>1, <1>5, <2>1, <2>2, CallsOnceKeeps
<1>10. \A s \in Requests : HandlerInv(s)'
  <2>1. client.cur \in Nat /\ \A y \in Ids : ran'[y] = ran[y] \/ y \in client.pending
    BY <1>2, <1>5, ClientIs
  <2> QED
    BY <1>1, <1>7, <2>1, HandlerStays
<1>11. Apart' /\ Handed'
  BY <1>1 DEF Inv, Apart, Handed
<1>12. ClientInv'
  <2>1. IdsOf(client.results \cup {o}) = IdsOf(client.results) \cup {x}
    BY <1>6 DEF IdsOf
  <2>2. \A y \in client.pending \ {x} : Untouched(y)'
    BY <1>1, <1>3, <1>5 DEF Untouched
  <2>3. \A p \in client.results : p.id # x /\ p.id \in Ids /\ ran'[p.id] = ran[p.id]
    BY <1>2, <1>3, <1>5, ClientIs DEF IdsOf, Outcome
  <2>4. Settled(client.results)'
    <3>1. \A p \in client.results : answers'[p.id] = <<>>
                                    /\ ran'[p.id] = IF p.did THEN 1 ELSE 0
      BY <1>1, <1>3, <2>3 DEF Settled
    <3>2. answers'[o.id] = <<>> /\ ran'[o.id] = IF o.did THEN 1 ELSE 0
      BY <1>1, <1>2, <1>3, <1>5, <1>6 DEF Untouched
    <3>3. \A p, q \in client'.results : p.id = q.id => p = q
      BY <1>3, <1>6, <1>7, <2>3 DEF Settled
    <3> QED
      BY <1>3, <1>6, <1>7, <3>1, <3>2, <3>3 DEF Settled
  <2>5. \A p \in client.results \cup {o} : audit'[p.id] = <<>>
    BY <1>1, <1>2, <1>3, <1>6 DEF Untouched
  <2> QED
    BY <1>1, <1>2, <1>3, <1>7, <2>1, <2>2, <2>4, <2>5 DEF ClientInv
<1> QED
  BY <1>8, <1>9, <1>10, <1>11, <1>12 DEF Inv

\* The records once request n was posted with the results S.
PostedAs(n, S) ==
    /\ req' \in [Requests -> Handler]
    /\ req'[n].phase = (IF S = {} THEN "append" ELSE "audit")
    /\ req'[n].results = S /\ req'[n].audited = {} /\ req'[n].todo = {}
    /\ req'[n].ask = {} /\ req'[n].repeats = 0 /\ req'[n].gone = FALSE
    /\ \A s \in Requests \ {n} : req'[s] = req[s]

LEMMA Posted ==
    ASSUME Inv, NEW n \in Requests, n = client.cur + 1, NEW S \in SUBSET Outcome,
           req' = [req EXCEPT ![n] = [@ EXCEPT
                     !.phase = IF S = {} THEN "append" ELSE "audit", !.results = S]]
    PROVE  PostedAs(n, S)
<1> DEFINE h == [Fresh EXCEPT !.phase = IF S = {} THEN "append" ELSE "audit", !.results = S]
<1>1. TypeOK /\ HandlerInv(n) /\ client.cur \in Nat
  BY ClientIs DEF Inv
<1>2. req[n] = Fresh /\ Fresh \in Handler
  <2>1. n > client.cur
    BY <1>1
  <2>2. req[n] = Fresh
    BY <1>1, <2>1 DEF HandlerInv, HandlerShape
  <2> QED
    BY <1>1, <2>2 DEF TypeOK
<1>3. /\ h.phase = (IF S = {} THEN "append" ELSE "audit") /\ h.results = S /\ h.audited = {}
      /\ h.todo = {} /\ h.ask = {} /\ h.repeats = 0 /\ h.gone = FALSE /\ h \in Handler
  BY <1>2, ZenonT(60) DEF Fresh, Handler
<1>4. req' = [req EXCEPT ![n] = h]
  BY <1>2
<1> HIDE DEF h
<1>5. /\ req' \in [Requests -> Handler] /\ req'[n] = h
      /\ \A s \in Requests \ {n} : req'[s] = req[s]
  BY <1>1, <1>3, <1>4, WithHandler, ZenonT(60)
<1> QED
  BY <1>3, <1>5 DEF PostedAs

\* A request is posted, with or without results.
LEMMA PostingKeeps ==
    ASSUME Inv, NEW n \in Requests, n = client.cur + 1,
           NEW S \in SUBSET Outcome, NEW next \in Client,
           PostedAs(n, S),
           client' = [next EXCEPT !.phase = "waiting", !.cur = n],
           n <= next.asks + made, next.from <= made,
           S # {} => /\ client.cur \in Requests /\ req[client.cur].phase = "awaiting"
                     /\ IdsOf(S) \subseteq req[client.cur].ask /\ Settled(S)
                     /\ \A o \in S : audit[o.id] = <<>>,
           denyRest' \in BOOLEAN,
           UNCHANGED <<made, tool, answers, audit, allowed, ran, yes>>
    PROVE  Inv'
<1>1. /\ TypeOK /\ CallsOnce /\ Apart /\ ClientInv /\ HandlerInv(n) /\ client.cur \in Nat
      /\ client.cur # n /\ n \in Nat /\ next.asks \in Nat /\ next.from \in Nat
  BY ClientIs, BoundAssumption, SMTT(30) DEF Inv, Requests, Client
<1>2. /\ req' \in [Requests -> Handler]
      /\ req'[n].phase = (IF S = {} THEN "append" ELSE "audit")
      /\ req'[n].results = S /\ req'[n].audited = {} /\ req'[n].todo = {}
      /\ req'[n].ask = {} /\ req'[n].repeats = 0
      /\ \A s \in Requests \ {n} : req'[s] = req[s]
  BY DEF PostedAs
<1>6. /\ client'.phase = "waiting" /\ client'.cur = n /\ client'.asks = next.asks
      /\ client'.from = next.from /\ client' \in Client
  <2>1. n \in 0 .. MaxAsks + MaxCalls
    BY <1>1, BoundAssumption DEF Requests
  <2> QED
    BY <2>1 DEF Client
<1>7. TypeOK'
  BY <1>1, <1>2, <1>6 DEF TypeOK
<1>8. CallsOnce'
  BY <1>1 DEF CallsOnce, Untouched
<1>9. ASSUME NEW s \in Requests, s # n PROVE HandlerInv(s)'
  <2>1. req[s].results # {} => s - 1 # n
    <3>1. HandlerShape(s) /\ s \in Nat
      BY DEF Inv, HandlerInv, Requests
    <3> QED
      BY <1>1, <3>1 DEF HandlerShape, Fresh
  <2>2. req'[s] = req[s] /\ (s - 1 \in Requests /\ req[s].results # {} => req'[s - 1] = req[s - 1])
    BY <1>2, <1>9, <2>1
  <2>3. client.cur <= client'.cur /\ client'.cur \in Nat
    BY <1>1, <1>6
  <2> QED
    BY <2>2, <2>3, HandlerStays
<1>10. HandlerInv(n)'
  <2>1. HandlerShape(n)'
    <3>1. 0 < FailLimit /\ ~ (n > n)
      BY <1>1, BoundAssumption
    <3>2. IdsOf(S) = {} <=> S = {}
      BY DEF IdsOf
    <3> QED
      BY <1>2, <1>6, <3>1, <3>2 DEF HandlerShape
  <2>2. HandlerCalls(n)'
    BY <1>2 DEF HandlerCalls
  <2>3. HandlerResults(n)'
    <3>1. n - 1 = client.cur
      BY <1>1
    <3>2. client.cur \in Requests => req'[client.cur] = req[client.cur]
      BY <1>1, <1>2
    <3> QED
      BY <1>2, <3>1, <3>2 DEF HandlerResults, Settled
  <2> QED
    BY <2>1, <2>2, <2>3 DEF HandlerInv
<1>11. Apart' /\ Handed'
  <2>1. \A s \in Requests : s # n => req'[s].todo = req[s].todo /\ req'[s].ask = req[s].ask
    BY <1>2
  <2>2. req'[n].todo = {} /\ req'[n].ask = {}
    BY <1>2
  <2> QED
    BY <1>1, <2>1, <2>2 DEF Inv, Apart, Handed
<1>12. ClientInv'
  BY <1>1, <1>2, <1>6 DEF ClientInv
<1> QED
  BY <1>7, <1>8, <1>9, <1>10, <1>11, <1>12 DEF Inv

LEMMA AskKeeps ==
    ASSUME Inv, Ask
    PROVE  Inv'
<1> DEFINE n == client.cur + 1
           next == [client EXCEPT !.asks = @ + 1, !.from = made, !.pending = {}, !.results = {}]
<1>1. n \in Requests /\ client.cur \in Nat /\ client \in Client /\ client.asks < MaxAsks
      /\ made \in 0 .. MaxCalls /\ client.asks \in Nat /\ ClientInv
  BY RoomToAsk, ClientIs, CallIsReal DEF Ask, Inv
<1>2. next \in Client /\ next.asks = client.asks + 1 /\ next.from = made /\ next.cur = client.cur
  <2>1. client.asks + 1 \in 0 .. MaxAsks
    BY <1>1, BoundAssumption
  <2> QED
    BY <1>1, <2>1 DEF Client
<1>3. client' = [next EXCEPT !.phase = "waiting", !.cur = @ + 1]
      /\ req' = [req EXCEPT ![n] = [@ EXCEPT
                   !.phase = IF {} = {} THEN "append" ELSE "audit", !.results = {}]]
  BY DEF Ask, Post
<1> HIDE DEF next
<1>4. client' = [next EXCEPT !.phase = "waiting", !.cur = n]
  BY <1>2, <1>3
<1>5. n <= next.asks + made /\ next.from <= made
  BY <1>1, <1>2 DEF ClientInv
<1> HIDE DEF n
<1>6. {} \in SUBSET Outcome /\ n = client.cur + 1
  BY DEF n
<1>7. /\ denyRest' \in BOOLEAN
      /\ UNCHANGED <<made, tool, answers, audit, allowed, ran, yes>>
  BY DEF Ask
<1> QED
  BY <1>1, <1>2, <1>3, <1>4, <1>5, <1>6, <1>7, PostingKeeps, Posted

LEMMA SendResultsKeeps ==
    ASSUME Inv, SendResults
    PROVE  Inv'
<1> DEFINE n == client.cur + 1
<1>1. n \in Requests /\ client.results # {} /\ client.cur \in Nat /\ client \in Client
      /\ made \in 0 .. MaxCalls /\ client.asks \in Nat /\ ClientInv /\ TypeOK
      /\ client.results \in SUBSET Outcome
  BY RoomToSend, ClientIs, CallIsReal DEF Inv
<1>2. client' = [client EXCEPT !.phase = "waiting", !.cur = n]
      /\ req' = [req EXCEPT ![n] = [@ EXCEPT
                   !.phase = IF client.results = {} THEN "append" ELSE "audit",
                   !.results = client.results]]
  BY DEF SendResults, Post
<1>3. /\ client.cur \in Requests /\ req[client.cur].phase = "awaiting"
      /\ IdsOf(client.results) = req[client.cur].ask /\ Settled(client.results)
      /\ \A o \in client.results : audit[o.id] = <<>>
  BY <1>1 DEF SendResults, ClientInv
<1>4. n <= client.asks + made /\ client.from <= made
  <2>1. PICK o \in client.results : TRUE
    BY <1>1
  <2>2. o.id \in 1 .. made
    BY <1>3, CallIsReal DEF IdsOf
  <2>3. n <= client.asks + o.id
    BY RoomToSend
  <2> QED
    BY <1>1, <2>2, <2>3 DEF ClientInv
<1> HIDE DEF n
<1>5. n = client.cur + 1
  BY DEF n
<1>6. /\ denyRest' \in BOOLEAN
      /\ UNCHANGED <<made, tool, answers, audit, allowed, ran, yes>>
  BY <1>1 DEF SendResults, TypeOK
<1> QED
  BY <1>1, <1>2, <1>3, <1>4, <1>5, <1>6, PostingKeeps, Posted

\* The answer arrives, is given up, or the operator leaves.
LEMMA ReturningKeeps ==
    ASSUME Inv, ReceiveReply \/ GiveUp \/ Exit
    PROVE  Inv'
<1>1. /\ TypeOK /\ CallsOnce /\ Apart /\ ClientInv /\ client \in Client /\ client.cur \in Nat
      /\ UNCHANGED <<made, tool, answers, audit, denyRest, allowed, ran, yes>>
  BY ClientIs DEF Inv, ReceiveReply, GiveUp, Exit, server
<1>2. req' = req \/ (/\ client.phase = "waiting" /\ client'.phase = "prompt"
                     /\ req' = [req EXCEPT ![client.cur].gone = TRUE])
  BY <1>1 DEF ReceiveReply, GiveUp, Exit, server, Client
<1>3. /\ client'.cur = client.cur /\ client'.asks = client.asks /\ client'.from = client.from
      /\ client' \in Client
  <2>1. CASE ReceiveReply /\ req[client.cur].phase = "awaiting"
    <3>1. client.cur \in Requests
      BY <1>1, <2>1 DEF ReceiveReply, ClientInv
    <3>2. req[client.cur].ask \in SUBSET Ids
      BY <1>1, <3>1, HandlerTypes
    <3>3. client' = [client EXCEPT !.phase = "handling", !.pending = req[client.cur].ask,
                                   !.results = {}]
      BY <2>1 DEF ReceiveReply
    <3> QED
      BY <1>1, <3>2, <3>3 DEF Client
  <2>2. CASE ~ (ReceiveReply /\ req[client.cur].phase = "awaiting")
    <3>1. client' = [client EXCEPT !.phase = "prompt"] \/ client' = [client EXCEPT !.phase = "stopped"]
      BY <2>2 DEF ReceiveReply, GiveUp, Exit
    <3> QED
      BY <1>1, <3>1 DEF Client
  <2> QED
    BY <2>1, <2>2
<1>4. \A s \in Requests : /\ req'[s].phase = req[s].phase /\ req'[s].results = req[s].results
                          /\ req'[s].audited = req[s].audited /\ req'[s].todo = req[s].todo
                          /\ req'[s].ask = req[s].ask /\ req'[s].repeats = req[s].repeats
                          /\ s > client.cur => req'[s] = req[s]
                          /\ req'[s] \in Handler
  <2>1. CASE req' = req
    BY <1>1, <2>1, HandlerTypes
  <2>2. CASE req' = [req EXCEPT ![client.cur].gone = TRUE]
    <3>2. ASSUME NEW s \in Requests, s # client.cur PROVE req'[s] = req[s] /\ req[s] \in Handler
      BY <1>1, <2>2, <3>2, HandlerTypes DEF TypeOK
    <3> DEFINE c == client.cur
    <3>1. c \in Requests => req'[c] = [req[c] EXCEPT !.gone = TRUE] /\ req[c] \in Handler
      BY <1>1, <2>2, HandlerTypes DEF TypeOK
    <3> HIDE DEF c
    <3>3. ASSUME c \in Requests
          PROVE  /\ req'[c].phase = req[c].phase /\ req'[c].results = req[c].results
                 /\ req'[c].audited = req[c].audited /\ req'[c].todo = req[c].todo
                 /\ req'[c].ask = req[c].ask /\ req'[c].repeats = req[c].repeats
                 /\ req'[c] \in Handler
      BY <3>1, <3>3 DEF Handler
    <3>4. \A s \in Requests : s = c \/ (s # client.cur)
      BY DEF c
    <3>5. ~ (c > client.cur)
      BY <1>1 DEF c
    <3> QED
      BY <3>2, <3>3, <3>4, <3>5
  <2> QED
    BY <1>2, <2>1, <2>2
<1>5. TypeOK'
  <2>1. req' \in [Requests -> Handler]
    BY <1>1, <1>2, <1>4 DEF TypeOK
  <2> QED
    BY <1>1, <1>3, <2>1 DEF TypeOK
<1>6. CallsOnce' /\ Apart' /\ Handed'
  BY <1>1, <1>4 DEF Inv, CallsOnce, Untouched, Apart, Handed
<1>7. ASSUME NEW s \in Requests PROVE HandlerInv(s)'
  <2>1. HandlerInv(s) /\ (s - 1 \in Requests => req'[s - 1].phase = req[s - 1].phase
                                                /\ req'[s - 1].ask = req[s - 1].ask)
    BY <1>4 DEF Inv
  <2>2. NextCall(req[s].todo)' = NextCall(req[s].todo)
    BY <1>1, <1>4, NextCallStays
  <2>3. HandlerShape(s)'
    BY <1>3, <1>1, <1>4, <2>1 DEF HandlerInv, HandlerShape, Active
  <2>4. HandlerCalls(s)'
    BY <1>1, <1>4, <2>1, <2>2 DEF HandlerInv, HandlerCalls, Untouched
  <2>5. HandlerResults(s)'
    BY <1>1, <1>4, <2>1 DEF HandlerInv, HandlerResults, Settled
  <2> QED
    BY <2>3, <2>4, <2>5 DEF HandlerInv
<1>8. ClientInv'
  <2>1. CASE client'.phase = "handling"
    <3>1. /\ client.phase = "waiting" /\ req[client.cur].phase = "awaiting"
          /\ client' = [client EXCEPT !.phase = "handling", !.pending = req[client.cur].ask,
                                      !.results = {}]
      BY <1>1, <2>1 DEF ReceiveReply, GiveUp, Exit, Client
    <3>2. client'.pending = req[client.cur].ask /\ client'.results = {}
      BY <1>1, <3>1 DEF Client
    <3>3. client.cur \in Requests /\ \A x \in req[client.cur].ask : Untouched(x)
      BY <1>1, <3>1 DEF ClientInv
    <3>4. IdsOf(client'.results) = {} /\ Settled(client.results)'
      BY <3>2 DEF IdsOf, Settled
    <3>5. \A x \in client'.pending : Untouched(x)'
      BY <1>1, <3>2, <3>3 DEF Untouched
    <3> QED
      BY <1>1, <1>3, <1>4, <2>1, <3>1, <3>2, <3>3, <3>4, <3>5 DEF ClientInv
  <2>2. CASE client'.phase # "handling"
    <3>1. client'.phase # "waiting"
      BY <1>1, <2>2 DEF ReceiveReply, GiveUp, Exit, Client
    <3> QED
      BY <1>1, <1>3, <1>4, <2>2, <3>1 DEF ClientInv
  <2> QED
    BY <2>1, <2>2
<1> QED
  BY <1>5, <1>6, <1>7, <1>8 DEF Inv

LEMMA CallIsHanded ==
    ASSUME Inv, Handling
    PROVE  Call \in client.pending /\ Call \in Ids /\ tool[Call] \in ClientTools
<1>1. client.pending \in SUBSET Ids /\ client.pending # {} /\ client.pending \in SUBSET Nat
  BY ClientIs DEF Handling, Ids
<1>2. Call \in client.pending
  BY <1>1, FirstIn DEF Call
<1>3. client.cur \in Requests /\ client.pending \subseteq req[client.cur].ask
  BY DEF Inv, ClientInv, Handling
<1> QED
  BY <1>1, <1>2, <1>3 DEF Inv, Handed

LEMMA CallingKeeps ==
    ASSUME Inv, HandleSettled \/ ConfirmEarlier \/ Confirm
    PROVE  Inv'
<1>1. Handling /\ TypeOK /\ UNCHANGED server
  BY DEF Inv, HandleSettled, ConfirmEarlier, Confirm, SayYes, SayAlways, SayNo, AsksOperator
<1>2. Call \in Ids /\ tool[Call] \in ClientTools
  BY <1>1, CallIsHanded
<1>3. denyRest' \in BOOLEAN /\ allowed' \subseteq ClientTools /\ yes' \subseteq Ids
  BY <1>1, <1>2 DEF TypeOK, HandleSettled, ConfirmEarlier, Confirm, SayYes, SayAlways, SayNo
<1>4. CASE \E d \in {"blocked", "denied"} : Refuse(d)
  <2>1. PICK d \in {"blocked", "denied"} : Refuse(d)
    BY <1>4
  <2>2. d \in Decision /\ ~ Done(d) /\ Settle(d, FALSE) /\ ran' = ran
    BY <2>1 DEF Decision, Done, Refuse
  <2> QED
    BY <1>1, <1>3, <2>2, SettlingKeeps
<1>5. CASE \E d \in {"auto", "approved"} : Execute(d)
  <2>1. PICK d \in {"auto", "approved"} : Execute(d)
    BY <1>5
  <2>2. d \in Decision /\ Done(d) /\ Settle(d, TRUE) /\ ran' = [ran EXCEPT ![Call] = @ + 1]
    BY <2>1 DEF Decision, Done, Execute
  <2> QED
    BY <1>1, <1>3, <2>2, SettlingKeeps
<1> QED
  BY <1>4, <1>5 DEF HandleSettled, ConfirmEarlier, Confirm, SayYes, SayAlways, SayNo

LEMMA StepKeeps == Inv /\ [Next]_vars => Inv'
<1> SUFFICES ASSUME Inv, [Next]_vars PROVE Inv'
  OBVIOUS
<1>1. CASE UNCHANGED vars
  <2>1. TypeOK' /\ CallsOnce' /\ Apart' /\ Handed'
    BY <1>1 DEF vars, Inv, TypeOK, CallsOnce, Untouched, Apart, Handed
  <2>2. ClientInv'
    BY <1>1 DEF vars, Inv, ClientInv, Untouched, Settled
  <2>3. ASSUME NEW s \in Requests PROVE HandlerInv(s)'
    <3>1. client.cur \in Nat
      BY ClientIs
    <3> QED
      BY <1>1, <3>1, HandlerStays DEF vars
  <2> QED
    BY <2>1, <2>2, <2>3 DEF Inv
<1>2. ASSUME NEW r \in Requests, Serve(r) PROVE Inv'
  BY <1>2, ServeKeeps
<1>3. CASE Ask
  BY <1>3, AskKeeps
<1>4. CASE ReceiveReply \/ GiveUp \/ Exit
  BY <1>4, ReturningKeeps
<1>5. CASE HandleSettled \/ ConfirmEarlier \/ Confirm
  BY <1>5, CallingKeeps
<1>6. CASE SendResults
  BY <1>6, SendResultsKeeps
<1> QED
  BY <1>1, <1>2, <1>3, <1>4, <1>5, <1>6 DEF Next, Harness

LEMMA Invariance == Spec => []Inv
BY InitInv, StepKeeps, PTL DEF Spec

-----------------------------------------------------------------------------
(* The theorems                                                            *)

\* Every variable keeps its type: in particular there is always a request left
\* for the results of a call, and the budget of iterations is never exceeded.
THEOREM TypeCorrect == Spec => []TypeOK
<1>1. Inv => TypeOK
  BY DEF Inv
<1> QED
  BY <1>1, Invariance, PTL

\* However replies are lost, handlers outlive their clients and writes fail,
\* no call is executed, answered or audited twice, and what the transcript and
\* the audit table say of it is what happened.
THEOREM CallsHappenOnce == Spec => []OnceAndAsTold
<1>1. Inv => OnceAndAsTold
  <2> SUFFICES ASSUME Inv PROVE OnceAndAsTold
    OBVIOUS
  <2>1. ASSUME NEW x \in Ids
        PROVE  /\ ran[x] <= 1 /\ Len(answers[x]) <= 1 /\ Len(audit[x]) <= 1
               /\ \A k \in 1 .. Len(answers[x]) : (answers[x][k] = "did") <=> (ran[x] > 0)
               /\ \A k \in 1 .. Len(audit[x]) :
                      (audit[x][k] \in {"auto", "approved"}) <=> (ran[x] > 0)
    <3>1. CallsOnce
      BY DEF Inv
    <3>2. /\ answers[x] = <<>> \/ \E a \in {"did", "refused", "unknown"} :
               answers[x] = <<a>> /\ (a = "did" <=> ran[x] = 1)
          /\ audit[x] = <<>> \/ \E d \in Decision :
               audit[x] = <<d>> /\ (Done(d) <=> ran[x] = 1)
          /\ ran[x] \in {0, 1}
      BY <3>1 DEF CallsOnce
    <3>3. Len(answers[x]) <= 1 /\ \A k \in 1 .. Len(answers[x]) : (answers[x][k] = "did") <=> (ran[x] = 1)
      <4>1. CASE answers[x] = <<>>
        BY <4>1
      <4>2. ASSUME NEW a \in {"did", "refused", "unknown"},
                   answers[x] = <<a>>, a = "did" <=> ran[x] = 1
            PROVE  Len(answers[x]) <= 1
                   /\ \A k \in 1 .. Len(answers[x]) : (answers[x][k] = "did") <=> (ran[x] = 1)
        BY <4>2
      <4> QED
        BY <3>2, <4>1, <4>2
    <3>4. Len(audit[x]) <= 1 /\ \A k \in 1 .. Len(audit[x]) : Done(audit[x][k]) <=> (ran[x] = 1)
      <4>1. CASE audit[x] = <<>>
        BY <4>1
      <4>2. ASSUME NEW d \in Decision, audit[x] = <<d>>, Done(d) <=> ran[x] = 1
            PROVE  Len(audit[x]) <= 1
                   /\ \A k \in 1 .. Len(audit[x]) : Done(audit[x][k]) <=> (ran[x] = 1)
        BY <4>2
      <4> QED
        BY <3>2, <4>1, <4>2
    <3> QED
      BY <3>2, <3>3, <3>4 DEF Done
  <2> QED
    BY <2>1 DEF OnceAndAsTold, AtMostOnce, ToldTheTruth
<1> QED
  BY <1>1, Invariance, PTL

\* What is agreed to, and that no destructive tool is agreed to in advance.
Consent == ConsentedOnly /\ allowed \cap Destructive = {}

\* Which calls of the client a step may execute, and with whose consent.
LEMMA WhatRuns ==
    ASSUME Inv, Next, NEW x \in Ids, ran'[x] # ran[x], tool[x] \in ClientTools
    PROVE  /\ tool[x] \notin NeverAllow /\ tool'[x] = tool[x]
           /\ \/ Evaluate(tool[x]) = "auto"
              \/ ~ denyRest /\ (x \in yes' \/ tool[x] \in allowed)
<1>1. TypeOK
  BY DEF Inv
<1>2. ASSUME NEW r \in Requests, Serve(r) PROVE FALSE
  <2>1. RunServerTool(r)
    BY <1>2 DEF Serve, AuditResult, AppendIncoming, AskModel, AnswerUnknown, AnswerServerTool,
       EndRound, Exhausted, Fail
  <2>2. PICK y : tool[y] \in ServerTools /\ ran' = [ran EXCEPT ![y] = @ + 1]
    BY <2>1 DEF RunServerTool
  <2>3. x = y
    BY <1>1, <2>2 DEF TypeOK
  <2> QED
    BY <2>2, <2>3, ToolAssumption DEF ClientTools
<1>3. ~ (Ask \/ ReceiveReply \/ GiveUp \/ Exit \/ SendResults)
  BY DEF Ask, ReceiveReply, GiveUp, Exit, SendResults
<1>4. HandleSettled \/ ConfirmEarlier \/ Confirm
  BY <1>2, <1>3 DEF Next, Harness
<1>5. \E d \in Decision : Execute(d)
  BY <1>4 DEF HandleSettled, ConfirmEarlier, Confirm, SayYes, SayAlways, SayNo, Refuse, Decision
<1>6. x = Call
  BY <1>1, <1>5 DEF Execute, TypeOK
<1>7. tool' = tool
  BY <1>4 DEF HandleSettled, ConfirmEarlier, Confirm, SayYes, SayAlways, SayNo, server
<1>8. CASE HandleSettled
  BY <1>1, <1>6, <1>7, <1>8 DEF HandleSettled, Evaluate, Refuse, TypeOK
<1>9. CASE ConfirmEarlier
  BY <1>1, <1>6, <1>7, <1>9 DEF ConfirmEarlier, Evaluate, Refuse, TypeOK
<1>10. CASE SayYes \/ SayAlways
  BY <1>1, <1>6, <1>7, <1>10 DEF SayYes, SayAlways, AsksOperator, Evaluate, TypeOK
<1>11. ~ SayNo
  BY DEF SayNo, Refuse
<1> QED
  BY <1>4, <1>8, <1>9, <1>10, <1>11 DEF Confirm

LEMMA ConsentKeeps == Inv /\ Consent /\ [Next]_vars => Consent'
<1> SUFFICES ASSUME Inv, Consent, [Next]_vars PROVE Consent'
  OBVIOUS
<1>1. CASE UNCHANGED vars
  BY <1>1 DEF Consent, ConsentedOnly, vars
<1>2. CASE Next
  <2>1. yes \subseteq yes' /\ allowed \subseteq allowed'
        /\ (\A t \in allowed' : t \in allowed \/ t \notin Destructive)
    BY <1>2 DEF Next, Harness, Serve, AuditResult, AppendIncoming, AskModel, AnswerUnknown,
       RunServerTool, AnswerServerTool, EndRound, Exhausted, Fail, Ask, ReceiveReply, GiveUp,
       Exit, SendResults, HandleSettled, ConfirmEarlier, Confirm, SayYes, SayAlways, SayNo
  <2>2. ASSUME NEW x \in Ids PROVE tool'[x] = tool[x] \/ ran'[x] = 0
    <3>1. ASSUME NEW r \in Requests, Serve(r) PROVE tool'[x] = tool[x] \/ ran'[x] = 0
      <4>1. Moved(r) /\ Mine(r) \subseteq 1 .. made /\ made \in Nat /\ CallsOnce
        BY <3>1, ServeMoves, CallIsReal DEF Inv
      <4>2. CASE x \in 1 .. made
        BY <4>1, <4>2 DEF Moved
      <4>3. CASE x \notin 1 .. made
        <5>1. x > made /\ x \notin Mine(r)
          BY <4>1, <4>3 DEF Ids
        <5> QED
          BY <4>1, <5>1 DEF Moved, CallsOnce, Untouched
      <4> QED
        BY <4>2, <4>3
    <3>2. CASE Ask \/ GiveUp \/ Exit \/ Harness
      BY <3>2 DEF Ask, ReceiveReply, GiveUp, Exit, Harness, SendResults, HandleSettled,
         ConfirmEarlier, Confirm, SayYes, SayAlways, SayNo, server
    <3> QED
      BY <1>2, <3>1, <3>2 DEF Next
  <2>3. ASSUME NEW x \in Ids, tool'[x] \in ClientTools, ran'[x] > 0, tool'[x] = tool[x]
        PROVE  /\ tool[x] \notin NeverAllow
               /\ \/ x \in yes'
                  \/ tool[x] \in AlwaysAllow
                  \/ tool[x] \in Reads /\ AutoReads
                  \/ tool[x] \in Writes /\ AssumeYes
                  \/ tool[x] \in allowed \ Destructive
    <3>1. CASE ran'[x] = ran[x]
      <4>1. tool[x] \in ClientTools /\ ran[x] > 0
        BY <2>3, <3>1
      <4> QED
        BY <2>1, <4>1, Zenon DEF Consent, ConsentedOnly
    <3>2. CASE ran'[x] # ran[x]
      <4>1. /\ tool[x] \notin NeverAllow
            /\ \/ Evaluate(tool[x]) = "auto"
               \/ x \in yes' \/ tool[x] \in allowed
        BY <1>2, <2>3, <3>2, WhatRuns
      <4>2. Evaluate(tool[x]) = "auto" =>
               \/ tool[x] \in AlwaysAllow
               \/ tool[x] \in Reads /\ AutoReads
               \/ tool[x] \in Writes /\ AssumeYes
        BY DEF Evaluate
      <4> QED
        BY <4>1, <4>2, Zenon DEF Consent
    <3> QED
      BY <3>1, <3>2
  <2>4. ConsentedOnly'
    BY <2>1, <2>2, <2>3 DEF ConsentedOnly
  <2> QED
    BY <2>1, <2>4 DEF Consent
<1> QED
  BY <1>1, <1>2

\* Only what the configuration approves, or the operator did, is executed on
\* the client, and after a "quit" only the former until the operator speaks.
THEOREM OperatorIsObeyed == Spec => OperatorDecides
<1>1. Init => Consent
  BY DEF Init, Consent, ConsentedOnly
<1>2. Consent => ConsentedOnly
  BY DEF Consent
<1>3. Inv /\ [Next]_vars =>
        [denyRest /\ denyRest' =>
           \A x \in Ids : (tool[x] \in ClientTools /\ ran'[x] # ran[x]) =>
               Evaluate(tool[x]) = "auto"]_vars
  BY WhatRuns
<1>4. Spec => []ConsentedOnly
  BY <1>1, <1>2, ConsentKeeps, Invariance, PTL DEF Spec
<1>5. Spec => QuitHolds
  BY <1>3, Invariance, PTL DEF Spec, QuitHolds
<1> QED
  BY <1>4, <1>5 DEF OperatorDecides

-----------------------------------------------------------------------------
(* Where nothing is lost                                                   *)

\* No handler outlives its client's patience, so at most one is at work.
OnlyCurrent ==
    \A r \in Requests :
        ~ req[r].gone /\ (Active(r) => client.phase = "waiting" /\ r = client.cur)

\* Every call made since the operator spoke is answered or still held, ...
NoneLost ==
    (client.phase \in {"waiting", "handling"}
        /\ req[client.cur].phase \notin {"complete", "error"}) =>
        \A x \in client.from + 1 .. made : answers[x] # <<>> \/ x \in Open(client.cur)

\* ... and every call that was executed is recorded, or about to be.
Audited ==
    \A x \in Ids : ran[x] > 0 =>
        \/ audit[x] # <<>>
        \/ client.phase = "waiting" /\ x \in Owed(client.cur)
        \/ client.phase = "handling" /\ x \in IdsOf(client.results)

Quiet == OnlyCurrent /\ NoneLost /\ (~ Faults => Audited)

LEMMA InitQuiet == Init => Quiet
<1> SUFFICES ASSUME Init PROVE Quiet
  OBVIOUS
<1>1. OnlyCurrent /\ NoneLost
  BY DEF Init, OnlyCurrent, NoneLost, Active, Fresh
<1>2. Audited
  BY DEF Init, Audited
<1> QED
  BY <1>1, <1>2 DEF Quiet

LEMMA ServeQuiet ==
    ASSUME Inv, Quiet, NEW r \in Requests, Serve(r)
    PROVE  Quiet'
<1>1. /\ Moved(r) /\ Accounts(r) /\ r = client.cur /\ client.phase = "waiting" /\ client' = client
      /\ made \in 0 .. MaxCalls /\ 1 .. made \subseteq Ids /\ client.from \in Nat
  BY ServeMoves, CallIsReal, ClientIs DEF Quiet, OnlyCurrent, Moved
<1>2. OnlyCurrent'
  BY <1>1 DEF Quiet, OnlyCurrent, Moved, Accounts, Active
<1>3. NoneLost'
  <2>1. SUFFICES ASSUME req'[r].phase \notin {"complete", "error"},
                        NEW x \in client.from + 1 .. made'
                 PROVE  answers'[x] # <<>> \/ x \in Open(r)'
    BY <1>1 DEF NoneLost
  <2>2. CASE x \in 1 .. made
    <3>1. answers[x] # <<>> \/ x \in Open(r)
      BY <1>1, <2>1, <2>2 DEF Quiet, NoneLost, Moved, Active
    <3>2. x \in Ids
      BY <1>1, <2>2
    <3> QED
      BY <1>1, <2>1, <3>1, <3>2 DEF Accounts
  <2>3. CASE x \notin 1 .. made
    <3>1. x \in made + 1 .. made'
      BY <1>1, <2>1, <2>3 DEF Moved
    <3> QED
      BY <1>1, <2>1, <3>1 DEF Accounts
  <2> QED
    BY <2>2, <2>3
<1>4. ~ Faults => Audited'
  <2>1. SUFFICES ASSUME ~ Faults, NEW x \in Ids, ran'[x] > 0
                 PROVE  audit'[x] # <<>> \/ x \in Owed(r)'
    BY <1>1 DEF Audited
  <2>2. ~ req[r].gone /\ Audited
    BY <2>1 DEF Quiet, OnlyCurrent
  <2>3. ran'[x] # ran[x] \/ audit[x] # <<>> \/ x \in Owed(r)
    BY <1>1, <2>1, <2>2 DEF Audited
  <2> QED
    BY <1>1, <2>1, <2>2, <2>3 DEF Accounts
<1> QED
  BY <1>2, <1>3, <1>4 DEF Quiet

LEMMA PostingQuiet ==
    ASSUME Inv, Quiet, Ask \/ SendResults
    PROVE  Quiet'
<1>0. PICK n \in Requests : n = client.cur + 1
  BY RoomToAsk, RoomToSend
<1> DEFINE S == IF Ask THEN {} ELSE client.results
<1>1. /\ n = client.cur + 1 /\ PostedAs(n, S) /\ client.phase # "waiting"
      /\ client \in Client /\ client.cur \in Nat /\ client.from \in Nat
      /\ UNCHANGED <<made, tool, answers, audit, ran>>
  <2>1. CASE Ask
    <3>1. /\ client.phase = "prompt" /\ UNCHANGED <<made, tool, answers, audit, ran>>
          /\ req' = [req EXCEPT ![n] = [@ EXCEPT
                       !.phase = IF {} = {} THEN "append" ELSE "audit", !.results = {}]]
      BY <1>0, <2>1 DEF Ask, Post
    <3>2. {} \in SUBSET Outcome
      OBVIOUS
    <3>3. PostedAs(n, {})
      BY <1>0, <3>1, <3>2, Posted
    <3> QED
      BY <1>0, <2>1, <3>1, <3>3, ClientIs
  <2>2. CASE ~ Ask
    <3>1. /\ client.phase = "handling" /\ UNCHANGED <<made, tool, answers, audit, ran>>
          /\ req' = [req EXCEPT ![n] = [@ EXCEPT
                       !.phase = IF client.results = {} THEN "append" ELSE "audit",
                       !.results = client.results]]
      BY <1>0, <2>2 DEF SendResults, Post
    <3>2. client.results \in SUBSET Outcome
      BY ClientIs
    <3>3. PostedAs(n, client.results)
      BY <1>0, <3>1, <3>2, Posted
    <3> QED
      BY <1>0, <2>2, <3>1, <3>3, ClientIs
  <2> QED
    BY <2>1, <2>2
<1>2. /\ client'.phase = "waiting" /\ client'.cur = n
      /\ client'.from = IF Ask THEN made ELSE client.from
  BY <1>1 DEF Ask, SendResults, Post, Client
<1>3. Ask => S = {}
  OBVIOUS
<1>4. ~ Ask => /\ SendResults /\ S = client.results /\ client.results # {}
               /\ client.cur \in Requests /\ req[client.cur].phase = "awaiting"
               /\ IdsOf(client.results) = req[client.cur].ask /\ client.phase = "handling"
  <2>1. SUFFICES ASSUME ~ Ask
                 PROVE  /\ SendResults /\ S = client.results /\ client.results # {}
                        /\ client.cur \in Requests /\ req[client.cur].phase = "awaiting"
                        /\ IdsOf(client.results) = req[client.cur].ask
                        /\ client.phase = "handling"
    OBVIOUS
  <2> QED
    BY <2>1, RoomToSend DEF SendResults, Inv, ClientInv
<1> HIDE DEF S
<1>5. /\ req'[n].phase = (IF S = {} THEN "append" ELSE "audit")
      /\ req'[n].results = S /\ req'[n].audited = {} /\ req'[n].todo = {}
      /\ req'[n].ask = {} /\ req'[n].gone = FALSE
      /\ \A s \in Requests \ {n} : req'[s] = req[s]
  BY <1>1 DEF PostedAs
<1>6. OnlyCurrent'
  BY <1>1, <1>2, <1>5 DEF Quiet, OnlyCurrent, Active
<1>7. NoneLost'
  <2>1. CASE Ask
    <3>1. \A x \in made + 1 .. made : FALSE
      BY CallIsReal
    <3> QED
      BY <1>1, <1>2, <2>1, <3>1 DEF NoneLost
  <2>2. CASE ~ Ask
    <3>1. Open(n)' = IdsOf(client.results)
      BY <1>4, <1>5, <2>2 DEF Open
    <3>2. Open(client.cur) = IdsOf(client.results)
      BY <1>4, <2>2 DEF Open, Inv, HandlerInv, HandlerShape
    <3>3. \A x \in client.from + 1 .. made : answers[x] # <<>> \/ x \in Open(client.cur)
      BY <1>4, <2>2 DEF Quiet, NoneLost
    <3> QED
      BY <1>1, <1>2, <2>2, <3>1, <3>2, <3>3 DEF NoneLost
  <2> QED
    BY <2>1, <2>2
<1>8. ~ Faults => Audited'
  <2>1. SUFFICES ASSUME ~ Faults, NEW x \in Ids, ran[x] > 0
                 PROVE  audit[x] # <<>> \/ x \in Owed(n)'
    BY <1>1, <1>2 DEF Audited
  <2>2. audit[x] # <<>> \/ (client.phase = "handling" /\ x \in IdsOf(client.results))
    BY <1>1, <2>1 DEF Quiet, Audited
  <2>3. CASE Ask
    BY <2>2, <2>3 DEF Ask
  <2>4. CASE ~ Ask
    <3>1. Owed(n)' = IdsOf(client.results)
      BY <1>4, <1>5, <2>4 DEF Owed
    <3> QED
      BY <2>2, <3>1
  <2> QED
    BY <2>3, <2>4
<1> QED
  BY <1>6, <1>7, <1>8 DEF Quiet

LEMMA ClientQuiet ==
    ASSUME Inv, Quiet, ReceiveReply \/ Exit \/ HandleSettled \/ ConfirmEarlier \/ Confirm
    PROVE  Quiet'
<1>1. UNCHANGED server /\ client \in Client /\ TypeOK
  BY ClientIs DEF Inv, ReceiveReply, Exit, HandleSettled, ConfirmEarlier, Confirm, SayYes,
     SayAlways, SayNo
<1>2. CASE ReceiveReply \/ Exit
  <2>1. /\ ran' = ran /\ client'.cur = client.cur /\ client'.from = client.from
        /\ client'.phase # "waiting"
        /\ client'.phase = "handling" => /\ client.phase = "waiting"
                                         /\ req[client.cur].phase = "awaiting"
        /\ client.phase = "waiting" =>
               req[client.cur].phase \in {"awaiting", "complete", "error"}
        /\ client.phase # "handling"
    BY <1>1, <1>2 DEF ReceiveReply, Exit, Client
  <2>2. OnlyCurrent'
    BY <1>1, <2>1 DEF server, Quiet, OnlyCurrent, Active
  <2>3. NoneLost'
    <3>1. Open(client.cur)' = Open(client.cur)
      BY <1>1, <2>1 DEF server, Open
    <3> QED
      BY <1>1, <2>1, <3>1 DEF server, Quiet, NoneLost
  <2>4. ~ Faults => Audited'
    <3>1. client.phase = "waiting" => Owed(client.cur) = {}
      BY <2>1 DEF Owed
    <3> QED
      BY <1>1, <2>1, <3>1 DEF server, Quiet, Audited
  <2> QED
    BY <2>2, <2>3, <2>4 DEF Quiet
<1>3. CASE HandleSettled \/ ConfirmEarlier \/ Confirm
  <2>1. PICK d \in Decision : Refuse(d) \/ Execute(d)
    BY <1>3 DEF HandleSettled, ConfirmEarlier, Confirm, SayYes, SayAlways, SayNo, Decision
  <2>2. client.phase = "handling"
    BY <1>3 DEF HandleSettled, ConfirmEarlier, Confirm, SayYes, SayAlways, SayNo, AsksOperator, Handling
  <2>3. PICK did \in BOOLEAN :
           client' = [client EXCEPT
                 !.pending = @ \ {Call},
                 !.results = @ \cup {[id |-> Call, decision |-> d, did |-> did]}]
    BY <2>1 DEF Refuse, Execute, Settle
  <2>4. /\ client'.cur = client.cur /\ client'.from = client.from /\ client'.phase = "handling"
        /\ client'.results = client.results \cup {[id |-> Call, decision |-> d, did |-> did]}
    BY <1>1, <2>2, <2>3 DEF Client
  <2>5. OnlyCurrent'
    BY <1>1, <2>2, <2>4 DEF server, Quiet, OnlyCurrent, Active
  <2>6. NoneLost'
    <3>1. Open(client.cur)' = Open(client.cur)
      BY <1>1, <2>4 DEF server, Open
    <3> QED
      BY <1>1, <2>2, <2>4, <3>1 DEF server, Quiet, NoneLost
  <2>7. ~ Faults => Audited'
    <3>1. \A x \in IdsOf(client.results) \cup {Call} : x \in IdsOf(client'.results)
      BY <2>4 DEF IdsOf
    <3>2. \A x \in Ids \ {Call} : ran'[x] = ran[x]
      BY <1>1, <2>1 DEF Refuse, Execute, TypeOK
    <3> QED
      BY <1>1, <2>2, <2>4, <3>1, <3>2 DEF server, Quiet, Audited
  <2> QED
    BY <2>5, <2>6, <2>7 DEF Quiet
<1> QED
  BY <1>2, <1>3

LEMMA QuietKeeps == ASSUME ~ Lossy PROVE Inv /\ Quiet /\ [Next]_vars => Quiet'
<1> SUFFICES ASSUME Inv, Quiet, [Next]_vars PROVE Quiet'
  OBVIOUS
<1>1. CASE UNCHANGED vars
  BY <1>1 DEF vars, Quiet, OnlyCurrent, NoneLost, Audited, Active, Open, Owed, NextCall
<1>2. ~ GiveUp
  BY DEF GiveUp
<1> QED
  BY <1>1, <1>2, ServeQuiet, PostingQuiet, ClientQuiet DEF Next, Harness

\* Where no request and no reply is lost, the model goes on only when every
\* call it made since the operator spoke has its result.  (A handler that
\* outlives its client may still add calls of the turn before.)
THEOREM EveryCallIsAnswered == ASSUME ~ Lossy PROVE Spec => []AllAnswered
<1>1. Inv /\ Quiet => AllAnswered
  <2> SUFFICES ASSUME Inv, Quiet, client.phase = "waiting", req[client.cur].phase = "model",
                      NEW x \in client.from + 1 .. made
               PROVE  Len(answers[x]) = 1
    BY DEF AllAnswered
  <2>1. client.cur \in Requests /\ Open(client.cur) = {}
    BY DEF Inv, ClientInv, HandlerInv, HandlerShape, Open
  <2>2. answers[x] # <<>> /\ x \in Ids
    BY <2>1, CallIsReal, ClientIs DEF Quiet, NoneLost
  <2>3. PICK a : answers[x] = <<a>>
    BY <2>2 DEF Inv, CallsOnce
  <2> QED
    BY <2>3
<1> QED
  BY <1>1, InitQuiet, QuietKeeps, Invariance, PTL DEF Spec

\* Where, besides, no write fails, what was executed on either side has its
\* audit row by the time the operator has the prompt again.
THEOREM EveryRunIsAudited ==
    ASSUME ~ Lossy, ~ Faults PROVE Spec => []ExecutedIsAudited
<1>1. Quiet => ExecutedIsAudited
  BY DEF Quiet, Audited, ExecutedIsAudited
<1> QED
  BY <1>1, InitQuiet, QuietKeeps, Invariance, PTL DEF Spec

=============================================================================
