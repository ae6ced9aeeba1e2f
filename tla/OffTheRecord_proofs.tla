------------------------- MODULE OffTheRecord_proofs -------------------------
(***************************************************************************)
(* Theorems about OffTheRecord, for every set of sessions and requests and *)
(* every pool size.                                                        *)
(***************************************************************************)
EXTENDS OffTheRecord, Collections

\* Taking one element out of a sequence leaves a sequence of the same set.
LEMMA WithoutType ==
    ASSUME NEW S, NEW q \in Seq(S), NEW i \in 1 .. Len(q)
    PROVE  Without(q, i) \in Seq(S)
BY DEF Without

\* Using a session keeps the pool's order a sequence of sessions.
LEMMA TouchType ==
    ASSUME NEW q \in Seq(Sessions), NEW s \in Sessions
    PROVE  Touch(q, s) \in Seq(Sessions)
<1>1. CASE s \in Elems(q)
  <2> DEFINE i == CHOOSE i \in 1 .. Len(q) : q[i] = s
  <2>1. i \in 1 .. Len(q)
    BY <1>1 DEF Elems
  <2>2. Without(q, i) \in Seq(Sessions)
    BY <2>1, WithoutType
  <2> QED
    BY <1>1, <2>2 DEF Touch
<1>2. CASE s \notin Elems(q)
  BY <1>2 DEF Touch
<1> QED
  BY <1>1, <1>2

\* Keeping a transcript leaves the pool's variables well typed.
LEMMA KeepType ==
    ASSUME TypeOK, NEW s \in Sessions, NEW h \in Seq(Message), Keep(s, h)
    PROVE  /\ lru' \in Seq(Sessions)
           /\ held' \in [Sessions -> Seq(Message)]
           /\ forgotten' \in [Sessions -> BOOLEAN]
<1> DEFINE q == Touch(lru, s)
<1>1. q \in Seq(Sessions)
  BY TouchType DEF TypeOK
<1>2. PICK d \in Evictable(q) :
        LET dropped == { q[i] : i \in 1 .. d }
        IN /\ lru' = SubSeq(q, d + 1, Len(q))
           /\ held' = [x \in Sessions |->
                         IF x \in dropped THEN <<>>
                         ELSE IF x = s THEN h ELSE held[x]]
           /\ forgotten' = [x \in Sessions |-> forgotten[x] \/ x \in dropped]
  BY DEF Keep
<1>3. d \in 0 .. Len(q) - 1
  BY DEF Evictable
<1>4. lru' \in Seq(Sessions)
  BY <1>1, <1>2, <1>3
<1>5. held' \in [Sessions -> Seq(Message)]
  BY <1>2 DEF TypeOK
<1>6. forgotten' \in [Sessions -> BOOLEAN]
  BY <1>2
<1> QED
  BY <1>4, <1>5, <1>6

\* A turn about to persist a message has one to persist: what TypeOK needs to
\* be inductive.
HasMessage == \A r \in Requests : req[r].phase = "persist" => req[r].n >= 1

TypeInv == TypeOK /\ HasMessage

\* The empty transcript is a transcript.
LEMMA EmptyType == <<>> \in Seq(Message) /\ <<>> \in Seq(Sessions)
OBVIOUS

\* A request that goes on, at a new record, is a request still.
LEMMA GoesOnAs ==
    ASSUME req \in [Requests -> Request], NEW r \in Requests, NEW new \in Request,
           req' = [req EXCEPT ![r] = new]
    PROVE  req' \in [Requests -> Request]
OBVIOUS

\* So is one whose message is counted and whose phase is another.
LEMMA CountedAs ==
    ASSUME req \in [Requests -> Request], NEW r \in Requests, NEW ph \in Phase,
           req[r].n + 1 \in 0 .. MaxMsgs,
           req' = [req EXCEPT ![r].n = @ + 1, ![r].phase = ph]
    PROVE  req' \in [Requests -> Request]
<1>1. PICK old \in Request : old = req[r]
  OBVIOUS
<1>2. PICK n \in 0 .. MaxMsgs : n = old.n + 1
  BY <1>1
<1>3. PICK new : new = [old EXCEPT !.n = n, !.phase = ph]
  OBVIOUS
<1>4. new \in Request
  BY <1>3 DEF Request
<1>5. req' = [req EXCEPT ![r] = new]
  BY <1>1, <1>2, <1>3
<1> QED
  BY <1>4, <1>5, GoesOnAs

\* A step keeps the types.
LEMMA TypeStep == TypeInv /\ [Next]_vars => TypeOK'
<1> SUFFICES ASSUME TypeInv, [Next]_vars PROVE TypeOK'
  OBVIOUS
<1>0. req \in [Requests -> Request]
  BY DEF TypeInv, TypeOK
<1>1. ASSUME NEW r \in Requests, NEW s \in Sessions, NEW want \in BOOLEAN,
             NEW kind \in {"turn", "toggle"}, Begin(r, s, kind, want)
      PROVE TypeOK'
  <2>1. req' = [req EXCEPT ![r] =
                  [@ EXCEPT !.phase = "begun", !.kind = kind, !.s = s,
                            !.rec = record[s], !.want = want]]
    BY <1>1 DEF Begin
  <2>2. record[s] \in BOOLEAN
    BY DEF TypeOK, TypeInv
  <2>3. req' \in [Requests -> Request]
    <3>1. PICK old \in Request, b \in BOOLEAN : old = req[r] /\ b = record[s]
      BY <1>0, <2>2
    <3>2. PICK new : new = [old EXCEPT !.phase = "begun", !.kind = kind, !.s = s,
                                       !.rec = b, !.want = want]
      OBVIOUS
    <3>3. new \in Request
      BY <3>2 DEF Request, Phase
    <3>4. req' = [req EXCEPT ![r] = new]
      BY <2>1, <3>1, <3>2
    <3> QED
      BY <1>0, <3>3, <3>4, GoesOnAs
  <2> QED
    BY <1>1, <2>3 DEF Begin, TypeOK, TypeInv, store, pool, ghost
<1>2. ASSUME NEW r \in Requests, PickTranscript(r) PROVE TypeOK'
  <2>1. PICK b \in BOOLEAN :
          req' = [req EXCEPT ![r] =
                   [@ EXCEPT !.phase = "append", !.dual = b]]
    BY <1>2, ZenonT(30) DEF PickTranscript
  <2>3. req' \in [Requests -> Request]
    BY <1>0, <2>1, ZenonT(60) DEF Request, Phase
  <2> QED
    BY <1>2, <2>3 DEF PickTranscript, TypeOK, TypeInv, store, pool, ghost
<1>3. ASSUME NEW r \in Requests, AppendMemory(r) PROVE TypeOK'
  <2>1. req[r].s \in Sessions /\ NextMessage(r) \in Message
    BY <1>0, <1>3, ConstantsAssumption
       DEF AppendMemory, Speaking, NextMessage, Message, Request
  <2>2. Append(held[req[r].s], NextMessage(r)) \in Seq(Message)
    BY <2>1 DEF TypeOK, TypeInv
  <2>3. /\ lru' \in Seq(Sessions)
        /\ held' \in [Sessions -> Seq(Message)]
        /\ forgotten' \in [Sessions -> BOOLEAN]
    BY <1>3, <2>1, <2>2, KeepType DEF AppendMemory, TypeInv
  <2>a. PICK ph \in Phase :
          req' = [req EXCEPT ![r].n = @ + 1, ![r].phase = ph]
    BY <1>3 DEF AppendMemory, Phase
  <2>b. req[r].n + 1 \in 0 .. MaxMsgs
    BY <1>0, <1>3, ConstantsAssumption DEF AppendMemory, Speaking, Request
  <2>4. req' \in [Requests -> Request]
    BY <1>0, <2>a, <2>b, CountedAs
  <2>5. said' \in [Sessions -> Seq(Message)]
    BY <1>3, <2>1 DEF AppendMemory, TypeOK, TypeInv
  <2> QED
    BY <1>3, <2>3, <2>4, <2>5 DEF AppendMemory, TypeOK, TypeInv, store
<1>4. ASSUME NEW r \in Requests, PersistMemory(r) PROVE TypeOK'
  <2>1. /\ req[r].s \in Sessions
        /\ [turn |-> r, n |-> req[r].n] \in Message
    BY <1>0, <1>4, ConstantsAssumption
       DEF PersistMemory, Message, Request, TypeInv, HasMessage
  <2>2. rows' \in [Sessions -> Seq(Message)]
    BY <1>4, <2>1 DEF PersistMemory, TypeOK, TypeInv
  <2>3. req' \in [Requests -> Request]
    BY <1>0, <1>4, ZenonT(60) DEF PersistMemory, Request, Phase
  <2> QED
    BY <1>4, <2>2, <2>3 DEF PersistMemory, TypeOK, TypeInv, pool, ghost
<1>5. ASSUME NEW r \in Requests, AppendStore(r) PROVE TypeOK'
  <2>1. req[r].s \in Sessions /\ NextMessage(r) \in Message
    BY <1>0, <1>5, ConstantsAssumption
       DEF AppendStore, Speaking, NextMessage, Message, Request
  <2>2. /\ rows' \in [Sessions -> Seq(Message)]
        /\ said' \in [Sessions -> Seq(Message)]
    BY <1>5, <2>1 DEF AppendStore, TypeOK, TypeInv
  <2>3. req[r].n + 1 \in 0 .. MaxMsgs
    BY <1>0, <1>5, ConstantsAssumption DEF AppendStore, Speaking, Request
  <2>4. req' \in [Requests -> Request]
    <3>1. req' = [req EXCEPT ![r].n = @ + 1, ![r].phase = "between"]
      BY <1>5 DEF AppendStore
    <3> QED
      BY <1>0, <2>3, <3>1, CountedAs DEF Phase
  <2> QED
    BY <1>5, <2>2, <2>4 DEF AppendStore, TypeOK, TypeInv, pool
<1>6. ASSUME NEW r \in Requests, ReadHistory(r) PROVE TypeOK'
  <2>1. lru' \in Seq(Sessions)
    BY <1>0, <1>6, TouchType DEF ReadHistory, TypeOK, TypeInv, Request
  <2>2. req' \in [Requests -> Request]
    BY <1>0, <1>6, ZenonT(60) DEF ReadHistory, Request, Phase
  <2> QED
    BY <1>6, <2>1, <2>2 DEF ReadHistory, TypeOK, TypeInv, store, ghost
<1>7. ASSUME NEW r \in Requests, EndTurn(r) PROVE TypeOK'
  <2>1. req' \in [Requests -> Request]
    BY <1>0, <1>7, ZenonT(60) DEF EndTurn, Request, Phase
  <2> QED
    BY <1>7, <2>1 DEF EndTurn, TypeOK, TypeInv, store, pool, ghost
<1>8. ASSUME NEW r \in Requests, ReadRows(r) PROVE TypeOK'
  <2>1. rows[req[r].s] \in Seq(Message)
    BY <1>0 DEF Request, TypeOK, TypeInv
  <2>2. req' = [req EXCEPT ![r] = [@ EXCEPT !.phase = "seed",
                                            !.hist = rows[req[r].s]]]
    BY <1>8 DEF ReadRows
  <2>3. req' \in [Requests -> Request]
    BY <1>0, <2>1, <2>2, ZenonT(60) DEF Request, Phase
  <2> QED
    BY <1>8, <2>3 DEF ReadRows, TypeOK, TypeInv, store, pool, ghost
<1>9. ASSUME NEW r \in Requests, SeedPool(r) PROVE TypeOK'
  <2>1. req[r].s \in Sessions /\ req[r].hist \in Seq(Message)
    BY <1>0 DEF Request
  <2>2. /\ lru' \in Seq(Sessions)
        /\ held' \in [Sessions -> Seq(Message)]
        /\ forgotten' \in [Sessions -> BOOLEAN]
    BY <1>9, <2>1, KeepType DEF SeedPool, TypeInv
  <2>3. reseeded' \in [Sessions -> BOOLEAN]
    BY <1>9 DEF SeedPool, TypeOK, TypeInv
  <2>4. req' = [req EXCEPT ![r] = [@ EXCEPT !.phase = "commit",
                                            !.hist = <<>>]]
    BY <1>9 DEF SeedPool
  <2>5. req' \in [Requests -> Request]
    BY <1>0, <2>4, EmptyType, ZenonT(60) DEF Request, Phase
  <2> QED
    BY <1>9, <2>2, <2>3, <2>5 DEF SeedPool, TypeOK, TypeInv, store
<1>10. ASSUME NEW r \in Requests, CommitToggle(r) PROVE TypeOK'
  <2>1. req[r].s \in Sessions /\ req[r].want \in BOOLEAN
    BY <1>0 DEF Request
  <2>2. /\ record' \in [Sessions -> BOOLEAN]
        /\ rows' \in [Sessions -> Seq(Message)]
    BY <1>10, <2>1, EmptyType DEF CommitToggle, TypeOK, TypeInv
  <2>3. req' \in [Requests -> Request]
    BY <1>0, <1>10, ZenonT(60) DEF CommitToggle, Request, Phase
  <2> QED
    BY <1>10, <2>2, <2>3 DEF CommitToggle, TypeOK, TypeInv, pool, ghost
<1>11. ASSUME NEW r \in Requests, Abort(r) PROVE TypeOK'
  <2>1. req' = [req EXCEPT ![r] = [@ EXCEPT !.phase = "done",
                                            !.hist = <<>>]]
    BY <1>11 DEF Abort
  <2>2. req' \in [Requests -> Request]
    BY <1>0, <2>1, EmptyType, ZenonT(60) DEF Request, Phase
  <2> QED
    BY <1>11, <2>2 DEF Abort, TypeOK, TypeInv, store, pool, ghost
<1>12. ASSUME NEW s \in Sessions, CreateSession(s) PROVE TypeOK'
  BY <1>12 DEF CreateSession, TypeOK, TypeInv, pool, ghost
<1>13. ASSUME NEW s \in Sessions, ShowMessages(s) PROVE TypeOK'
  BY <1>13, TouchType DEF ShowMessages, TypeOK, TypeInv, store, ghost
<1>14. ASSUME NEW s \in Sessions, DeleteMessage(s) PROVE TypeOK'
  <2>1. PICK i \in 1 .. Len(rows[s]) :
          /\ erased' = [erased EXCEPT ![s] = @ \cup {rows[s][i]}]
          /\ rows' = [rows EXCEPT ![s] = Without(@, i)]
    BY <1>14 DEF DeleteMessage
  <2>2. rows[s] \in Seq(Message)
    BY DEF TypeOK, TypeInv
  <2>3. Without(rows[s], i) \in Seq(Message) /\ rows[s][i] \in Message
    BY <2>2, WithoutType
  <2> QED
    BY <1>14, <2>1, <2>3 DEF DeleteMessage, TypeOK, TypeInv, pool
<1>15. ASSUME NEW s \in Sessions, DeleteSession(s) PROVE TypeOK'
  BY <1>15 DEF DeleteSession, TypeOK, TypeInv, pool, ghost
<1>16. CASE Restart
  <2>1. \A r \in Requests :
          [req[r] EXCEPT !.phase = "done", !.hist = <<>>] \in Request
    BY <1>0, EmptyType, ZenonT(60) DEF Request, Phase
  <2>2. req' \in [Requests -> Request]
    BY <1>0, <1>16, <2>1 DEF Restart
  <2>3. forgotten' \in [Sessions -> BOOLEAN]
    BY <1>16 DEF Restart, TypeOK, TypeInv
  <2> QED
    BY <1>16, <2>2, <2>3, EmptyType DEF Restart, TypeOK, TypeInv, store
<1>17. CASE UNCHANGED vars
  BY <1>17 DEF vars, TypeOK, TypeInv
<1>18. ASSUME NEW r \in Requests, Turn(r) \/ Toggle(r) \/ Abort(r)
       PROVE TypeOK'
  <2>1. ASSUME NEW s \in Sessions, BeginTurn(r, s) PROVE TypeOK'
    BY <2>1, <1>1 DEF BeginTurn
  <2>2. ASSUME NEW s \in Sessions, BeginToggle(r, s) PROVE TypeOK'
    BY <2>2, <1>1 DEF BeginToggle
  <2> QED
    BY <1>18, <2>1, <2>2, <1>2, <1>3, <1>4, <1>5, <1>6, <1>7, <1>8,
       <1>9, <1>10, <1>11
       DEF Turn, Toggle
<1> QED
  BY <1>12, <1>13, <1>14, <1>15, <1>16, <1>17, <1>18 DEF Next

\* A handler changes no other handler's state.
LEMMA OtherRequests ==
    ASSUME req \in [Requests -> Request], NEW t \in Requests,
           NEW r \in Requests \ {t}, Turn(t) \/ Toggle(t) \/ Abort(t)
    PROVE  req'[r] = req[r]
<1>1. ASSUME NEW s \in Sessions, NEW want, NEW kind, Begin(t, s, kind, want)
      PROVE  req'[r] = req[r]
  BY <1>1 DEF Begin
<1>2. PickTranscript(t) => req'[r] = req[r]
  BY DEF PickTranscript
<1>3. AppendMemory(t) => req'[r] = req[r]
  BY DEF AppendMemory
<1>4. PersistMemory(t) => req'[r] = req[r]
  BY DEF PersistMemory
<1>5. AppendStore(t) => req'[r] = req[r]
  BY DEF AppendStore
<1>6. ReadHistory(t) => req'[r] = req[r]
  BY DEF ReadHistory
<1>7. EndTurn(t) => req'[r] = req[r]
  BY DEF EndTurn
<1>8. ReadRows(t) => req'[r] = req[r]
  BY DEF ReadRows
<1>9. SeedPool(t) => req'[r] = req[r]
  BY DEF SeedPool
<1>10. CommitToggle(t) => req'[r] = req[r]
  BY DEF CommitToggle
<1>11. Abort(t) => req'[r] = req[r]
  BY DEF Abort
<1> QED
  BY <1>1, <1>2, <1>3, <1>4, <1>5, <1>6, <1>7, <1>8, <1>9, <1>10, <1>11
     DEF Turn, Toggle, BeginTurn, BeginToggle

\* What a step does to one handler: it is one of the handler's own actions, a
\* restart, or nothing.
LEMMA HandlerStep ==
    ASSUME TypeInv, [Next]_vars, NEW r \in Requests
    PROVE  \/ req'[r] = req[r]
           \/ Turn(r) \/ Toggle(r) \/ Abort(r)
           \/ Restart /\ Running(r)
<1>0. req \in [Requests -> Request]
  BY DEF TypeInv, TypeOK
<1>1. CASE UNCHANGED vars
  BY <1>1 DEF vars
<1>2. ASSUME NEW t \in Requests, Turn(t) \/ Toggle(t) \/ Abort(t)
      PROVE  req'[r] = req[r] \/ Turn(r) \/ Toggle(r) \/ Abort(r)
  BY <1>0, <1>2, OtherRequests
<1>3. ASSUME NEW s \in Sessions,
             \/ CreateSession(s) \/ ShowMessages(s)
             \/ DeleteMessage(s) \/ DeleteSession(s)
      PROVE  req'[r] = req[r]
  BY <1>3 DEF CreateSession, ShowMessages, DeleteMessage, DeleteSession
<1>4. Restart /\ ~Running(r) => req'[r] = req[r]
  BY <1>0 DEF Restart
<1> QED
  BY <1>1, <1>2, <1>3, <1>4 DEF Next

\* A handler ends up about to persist only by appending to memory, which adds
\* a message.
LEMMA HasMessageStep == TypeInv /\ [Next]_vars => HasMessage'
<1> SUFFICES ASSUME TypeInv, [Next]_vars, NEW r \in Requests,
                    req'[r].phase = "persist"
             PROVE  req'[r].n >= 1
  BY DEF HasMessage
<1>0. req \in [Requests -> Request] /\ req[r].n \in 0 .. MaxMsgs
  BY DEF TypeInv, TypeOK, Request
<1>1. CASE req'[r] = req[r]
  BY <1>1 DEF TypeInv, HasMessage
<1>2. CASE AppendMemory(r)
  BY <1>0, <1>2, ConstantsAssumption DEF AppendMemory, Request
<1>3. ASSUME NEW s \in Sessions, NEW want, NEW kind, Begin(r, s, kind, want)
      PROVE  req'[r].phase = "begun"
  BY <1>0, <1>3 DEF Begin, Request
<1>4. \/ PickTranscript(r) \/ PersistMemory(r) \/ AppendStore(r)
      \/ ReadHistory(r) \/ EndTurn(r) \/ ReadRows(r) \/ SeedPool(r)
      \/ CommitToggle(r) \/ Abort(r)
      => req'[r].phase # "persist"
  <2>1. PickTranscript(r) => req'[r].phase = "append"
    BY <1>0 DEF PickTranscript, Request
  <2>2. PersistMemory(r) => req'[r].phase = "between"
    BY <1>0 DEF PersistMemory, Request
  <2>3. AppendStore(r) => req'[r].phase = "between"
    BY <1>0 DEF AppendStore, Request
  <2>4. ReadHistory(r) => req'[r].phase = "append"
    BY <1>0 DEF ReadHistory, Request
  <2>5. EndTurn(r) => req'[r].phase = "done"
    BY <1>0 DEF EndTurn, Request
  <2>6. ReadRows(r) => req'[r].phase = "seed"
    BY <1>0 DEF ReadRows, Request
  <2>7. SeedPool(r) => req'[r].phase = "commit"
    BY <1>0 DEF SeedPool, Request
  <2>8. CommitToggle(r) => req'[r].phase = "done"
    BY <1>0 DEF CommitToggle, Request
  <2>9. Abort(r) => req'[r].phase = "done"
    BY <1>0 DEF Abort, Request
  <2> QED
    BY <2>1, <2>2, <2>3, <2>4, <2>5, <2>6, <2>7, <2>8, <2>9
<1>5. CASE Restart /\ Running(r)
  BY <1>0, <1>5 DEF Restart, Request
<1> QED
  BY <1>1, <1>2, <1>3, <1>4, <1>5, HandlerStep
     DEF Turn, Toggle, BeginTurn, BeginToggle

\* Initially every variable has its type.
LEMMA TypeInit == Init => TypeInv
<1> SUFFICES ASSUME Init PROVE TypeInv
  OBVIOUS
<1>1. (CHOOSE s \in Sessions : TRUE) \in Sessions
  BY ConstantsAssumption
<1>2. IdleRequest \in Request
  BY <1>1, ConstantsAssumption DEF IdleRequest, Request, Phase
<1>3. TypeOK
  BY <1>2, EmptyType DEF Init, TypeOK
<1>4. HasMessage
  BY DEF Init, HasMessage, IdleRequest
<1> QED
  BY <1>3, <1>4 DEF TypeInv

\* The state space of the model: every variable keeps its type.
THEOREM TypeCorrect == Spec => []TypeOK
<1>1. TypeInv /\ [Next]_vars => TypeInv'
  BY TypeStep, HasMessageStep DEF TypeInv
<1>2. TypeInv => TypeOK
  BY DEF TypeInv
<1> QED
  BY <1>1, <1>2, TypeInit, PTL DEF Spec

-----------------------------------------------------------------------------
(* What a handler keeps: the session it serves and the switch it read.      *)

\* A handler that runs after a step began in it, or was running for the same
\* session with the same snapshot of the switch.
LEMMA StillRunning ==
    ASSUME TypeInv, [Next]_vars, NEW r \in Requests, Running(r)'
    PROVE  \/ /\ Running(r)
              /\ req'[r].s = req[r].s
              /\ req'[r].rec = req[r].rec
           \/ \E s \in Sessions, kind \in {"turn", "toggle"}, want \in BOOLEAN :
                  Begin(r, s, kind, want)
<1>0. req \in [Requests -> Request]
  BY DEF TypeInv, TypeOK
<1>1. CASE req'[r] = req[r]
  BY <1>1 DEF Running
<1>2. ASSUME NEW s \in Sessions, BeginTurn(r, s)
      PROVE \E k \in {"turn", "toggle"}, w \in BOOLEAN : Begin(r, s, k, w)
  BY <1>2 DEF BeginTurn
<1>3. ASSUME NEW s \in Sessions, BeginToggle(r, s)
      PROVE \E k \in {"turn", "toggle"}, w \in BOOLEAN : Begin(r, s, k, w)
  BY <1>3 DEF BeginToggle
<1>4. PickTranscript(r) => /\ Running(r)
                 /\ req'[r].s = req[r].s
                 /\ req'[r].rec = req[r].rec
  BY <1>0 DEF PickTranscript, Request, Running
<1>5. AppendMemory(r) => /\ Running(r)
                 /\ req'[r].s = req[r].s
                 /\ req'[r].rec = req[r].rec
  BY <1>0 DEF AppendMemory, Request, Running, Speaking
<1>6. PersistMemory(r) => /\ Running(r)
                 /\ req'[r].s = req[r].s
                 /\ req'[r].rec = req[r].rec
  BY <1>0 DEF PersistMemory, Request, Running
<1>7. AppendStore(r) => /\ Running(r)
                 /\ req'[r].s = req[r].s
                 /\ req'[r].rec = req[r].rec
  BY <1>0 DEF AppendStore, Request, Running, Speaking
<1>8. ReadHistory(r) => /\ Running(r)
                 /\ req'[r].s = req[r].s
                 /\ req'[r].rec = req[r].rec
  BY <1>0 DEF ReadHistory, Request, Running
<1>9. ReadRows(r) => /\ Running(r)
                 /\ req'[r].s = req[r].s
                 /\ req'[r].rec = req[r].rec
  BY <1>0 DEF ReadRows, Request, Running
<1>10. SeedPool(r) => /\ Running(r)
                 /\ req'[r].s = req[r].s
                 /\ req'[r].rec = req[r].rec
  BY <1>0 DEF SeedPool, Request, Running
<1>11. /\ EndTurn(r) => req'[r].phase = "done"
       /\ CommitToggle(r) => req'[r].phase = "done"
       /\ Abort(r) => req'[r].phase = "done"
  <2>1. EndTurn(r) => req'[r].phase = "done"
    BY <1>0 DEF EndTurn, Request
  <2>2. CommitToggle(r) => req'[r].phase = "done"
    BY <1>0 DEF CommitToggle, Request
  <2>3. Abort(r) => req'[r].phase = "done"
    BY <1>0 DEF Abort, Request
  <2> QED
    BY <2>1, <2>2, <2>3
<1>12. Restart /\ Running(r) => req'[r].phase = "done"
  BY <1>0, ZenonT(60) DEF Restart, Request
<1>13. /\ ~EndTurn(r) /\ ~CommitToggle(r) /\ ~Abort(r)
       /\ ~(Restart /\ Running(r))
  BY <1>11, <1>12 DEF Running
<1>14. CASE Turn(r)
  <2>1. \/ \E s \in Sessions : BeginTurn(r, s)
        \/ PickTranscript(r) \/ AppendMemory(r) \/ PersistMemory(r)
        \/ AppendStore(r) \/ ReadHistory(r)
    BY <1>13, <1>14 DEF Turn
  <2> QED
    BY <2>1, <1>2, <1>4, <1>5, <1>6, <1>7, <1>8
<1>15. CASE Toggle(r)
  <2>1. \/ \E s \in Sessions : BeginToggle(r, s)
        \/ ReadRows(r) \/ SeedPool(r)
    BY <1>13, <1>15 DEF Toggle
  <2> QED
    BY <2>1, <1>3, <1>9, <1>10
<1> QED
  BY <1>1, <1>13, <1>14, <1>15, HandlerStep

-----------------------------------------------------------------------------
(* Transcripts as sets of messages.                                         *)

\* The empty transcript holds no message.
LEMMA ElemsEmpty == Elems(<<>>) = {}
<1>1. Len(<<>>) = 0
  OBVIOUS
<1> QED
  BY <1>1 DEF Elems

\* Appending adds one element.
LEMMA ElemsAppend ==
    ASSUME NEW S, NEW q \in Seq(S), NEW x \in S
    PROVE  Elems(Append(q, x)) = Elems(q) \cup {x}
BY DEF Elems

\* What is left, place by place, when an element is taken out.
LEMMA WithoutAt ==
    ASSUME NEW S, NEW q \in Seq(S), NEW i \in 1 .. Len(q), NEW w, w = Without(q, i)
    PROVE  /\ w \in Seq(S) /\ Len(w) = Len(q) - 1
           /\ \A j \in 1 .. Len(w) : w[j] = IF j < i THEN q[j] ELSE q[j + 1]
<1> DEFINE a == SubSeq(q, 1, i - 1)
           b == SubSeq(q, i + 1, Len(q))
<1>a. a \in Seq(S) /\ b \in Seq(S)
  OBVIOUS
<1>b. /\ Len(a) = i - 1 /\ Len(b) = Len(q) - i
      /\ \A j \in 1 .. Len(a) : a[j] = q[j]
      /\ \A j \in 1 .. Len(b) : b[j] = q[i + j]
  OBVIOUS
<1>c. w = a \o b
  BY DEF Without
<1>w. w \in Seq(S)
  BY <1>a, <1>c
<1> HIDE DEF a, b
<1>l. Len(w) = Len(q) - 1
  <2>1. Len(w) = Len(a) + Len(b)
    BY <1>a, <1>c
  <2> QED
    BY <1>b, <2>1
<1>d. w \in Seq(S) /\ Len(w) = Len(q) - 1
  BY <1>w, <1>l
<1>e. ASSUME NEW j \in 1 .. Len(w)
      PROVE  w[j] = IF j < i THEN q[j] ELSE q[j + 1]
  <2>1. w[j] = IF j <= Len(a) THEN a[j] ELSE b[j - Len(a)]
    BY <1>a, <1>b, <1>c, <1>d
  <2>2. CASE j < i
    BY <1>b, <2>1, <2>2
  <2>3. CASE j >= i
    <3>1. j - Len(a) \in 1 .. Len(b) /\ i + (j - Len(a)) = j + 1
      BY <1>b, <1>d, <2>3
    <3> QED
      BY <1>b, <2>1, <2>3, <3>1
  <2> QED
    BY <2>2, <2>3
<1> QED
  BY <1>d, <1>e

\* Taking an element out leaves the others, and it too if it occurs twice.
LEMMA ElemsWithout ==
    ASSUME NEW S, NEW q \in Seq(S), NEW i \in 1 .. Len(q)
    PROVE  \/ Elems(Without(q, i)) = Elems(q)
           \/ Elems(Without(q, i)) = Elems(q) \ {q[i]}
<1> DEFINE w == Without(q, i)
<1>1. /\ Len(w) = Len(q) - 1
      /\ \A j \in 1 .. Len(w) : w[j] = IF j < i THEN q[j] ELSE q[j + 1]
  BY WithoutAt
<1> HIDE DEF w
<1>2. Elems(w) \subseteq Elems(q)
  BY <1>1 DEF Elems
<1>3. ASSUME NEW k \in 1 .. Len(q), k # i PROVE q[k] \in Elems(w)
  <2>1. CASE k < i
    BY <1>1, <2>1 DEF Elems
  <2>2. CASE k > i
    <3>1. k - 1 \in 1 .. Len(w) /\ w[k - 1] = q[k]
      BY <1>1, <2>2
    <3> QED
      BY <3>1 DEF Elems
  <2> QED
    BY <1>3, <2>1, <2>2
<1>4. Elems(q) \ {q[i]} \subseteq Elems(w)
  BY <1>3 DEF Elems
<1>5. q[i] \in Elems(q)
  BY DEF Elems
<1> QED
  BY <1>2, <1>4, <1>5 DEF w

-----------------------------------------------------------------------------
(* What is said off the record is never committed.                          *)

\* A turn that writes to the store read the switch on.
WritersOnRecord ==
    \A r \in Requests :
        /\ req[r].phase = "persist" => req[r].rec
        /\ req[r].kind = "turn" /\ req[r].phase \in {"append", "between"}
             /\ ~req[r].dual => req[r].rec

\* A row was written by a turn that has begun and read the switch on.
RowsOnRecord ==
    \A s \in Sessions : \A m \in Elems(rows[s]) :
        req[m.turn].rec /\ req[m.turn].phase # "idle"

RecordInv == TypeInv /\ WritersOnRecord /\ RowsOnRecord

\* A handler that has begun keeps its snapshot of the switch.
LEMMA SnapshotKept ==
    ASSUME TypeInv, [Next]_vars, NEW r \in Requests, req[r].phase # "idle"
    PROVE  req'[r].rec = req[r].rec /\ req'[r].phase # "idle"
<1>0. req \in [Requests -> Request]
  BY DEF TypeInv, TypeOK
<1>1. PickTranscript(r) => req'[r].rec = req[r].rec /\ req'[r].phase # "idle"
  BY <1>0 DEF PickTranscript, Request
<1>2. AppendMemory(r) => req'[r].rec = req[r].rec /\ req'[r].phase # "idle"
  BY <1>0 DEF AppendMemory, Request
<1>3. PersistMemory(r) => req'[r].rec = req[r].rec /\ req'[r].phase # "idle"
  BY <1>0 DEF PersistMemory, Request
<1>4. AppendStore(r) => req'[r].rec = req[r].rec /\ req'[r].phase # "idle"
  BY <1>0 DEF AppendStore, Request
<1>5. ReadHistory(r) => req'[r].rec = req[r].rec /\ req'[r].phase # "idle"
  BY <1>0 DEF ReadHistory, Request
<1>6. EndTurn(r) => req'[r].rec = req[r].rec /\ req'[r].phase # "idle"
  BY <1>0 DEF EndTurn, Request
<1>7. ReadRows(r) => req'[r].rec = req[r].rec /\ req'[r].phase # "idle"
  BY <1>0 DEF ReadRows, Request
<1>8. SeedPool(r) => req'[r].rec = req[r].rec /\ req'[r].phase # "idle"
  BY <1>0 DEF SeedPool, Request
<1>9. CommitToggle(r) => req'[r].rec = req[r].rec /\ req'[r].phase # "idle"
  BY <1>0 DEF CommitToggle, Request
<1>10. Abort(r) => req'[r].rec = req[r].rec /\ req'[r].phase # "idle"
  BY <1>0 DEF Abort, Request
<1>11. Restart /\ Running(r) =>
          req'[r].rec = req[r].rec /\ req'[r].phase # "idle"
  BY <1>0, ZenonT(60) DEF Restart, Request
<1>12. ASSUME NEW s, NEW kind, NEW want, Begin(r, s, kind, want) PROVE FALSE
  BY <1>12 DEF Begin
<1> QED
  BY <1>1, <1>2, <1>3, <1>4, <1>5, <1>6, <1>7, <1>8, <1>9, <1>10, <1>11,
     <1>12, HandlerStep DEF Turn, Toggle, BeginTurn, BeginToggle

\* A turn that may write to the store after a step read the switch on.
LEMMA WritersStep ==
    ASSUME TypeInv, WritersOnRecord, [Next]_vars
    PROVE  WritersOnRecord'
<1> SUFFICES ASSUME NEW r \in Requests
             PROVE  /\ req'[r].phase = "persist" => req'[r].rec
                    /\ req'[r].kind = "turn"
                         /\ req'[r].phase \in {"append", "between"}
                         /\ ~req'[r].dual => req'[r].rec
  BY DEF WritersOnRecord
<1> DEFINE Goal == /\ req'[r].phase = "persist" => req'[r].rec
                   /\ req'[r].kind = "turn"
                        /\ req'[r].phase \in {"append", "between"}
                        /\ ~req'[r].dual => req'[r].rec
<1>0. req \in [Requests -> Request]
  BY DEF TypeInv, TypeOK
<1>1. req'[r] = req[r] => Goal
  BY DEF WritersOnRecord
<1>2. ASSUME NEW s, NEW kind, NEW want, Begin(r, s, kind, want) PROVE Goal
  <2>1. req'[r].phase = "begun"
    BY <1>0, <1>2 DEF Begin, Request
  <2> QED
    BY <2>1
<1>3. PickTranscript(r) => Goal
  <2> SUFFICES ASSUME PickTranscript(r), ~req'[r].dual PROVE req'[r].rec
    BY <1>0 DEF PickTranscript, Request
  <2>1. req'[r].rec = req[r].rec
    BY <1>0 DEF PickTranscript, Request
  <2>2. req'[r].dual = (~req[r].rec \/ Has(req[r].s))
    BY <1>0 DEF PickTranscript, Request
  <2> QED
    BY <2>1, <2>2
<1>4. AppendMemory(r) => Goal
  BY <1>0 DEF AppendMemory, Speaking, Request
<1>5. PersistMemory(r) => Goal
  BY <1>0 DEF PersistMemory, Request, WritersOnRecord
<1>6. AppendStore(r) => Goal
  BY <1>0 DEF AppendStore, Speaking, Request, WritersOnRecord
<1>7. ReadHistory(r) => Goal
  BY <1>0 DEF ReadHistory, Request, WritersOnRecord
<1>8. EndTurn(r) => Goal
  BY <1>0 DEF EndTurn, Request
<1>9. ReadRows(r) => Goal
  BY <1>0 DEF ReadRows, Request
<1>10. SeedPool(r) => Goal
  BY <1>0 DEF SeedPool, Request
<1>11. CommitToggle(r) => Goal
  BY <1>0 DEF CommitToggle, Request
<1>12. Abort(r) => Goal
  BY <1>0 DEF Abort, Request
<1>13. Restart /\ Running(r) => Goal
  BY <1>0 DEF Restart, Request
<1> HIDE DEF Goal
<1>14. Goal
  BY <1>1, <1>2, <1>3, <1>4, <1>5, <1>6, <1>7, <1>8, <1>9, <1>10, <1>11,
     <1>12, <1>13, HandlerStep DEF Turn, Toggle, BeginTurn, BeginToggle
<1> QED
  BY <1>14 DEF Goal

\* What one step may do to the rows of a session, in their order.
LEMMA RowsBecome ==
    ASSUME TypeInv, [Next]_vars, NEW s \in Sessions
    PROVE  \/ rows'[s] = rows[s] \/ rows'[s] = <<>>
           \/ \E i \in 1 .. Len(rows[s]) : rows'[s] = Without(rows[s], i)
           \/ \E r \in Requests :
                /\ req[r].s = s
                /\ \/ /\ PersistMemory(r)
                      /\ rows'[s] = Append(rows[s], [turn |-> r, n |-> req[r].n])
                   \/ AppendStore(r) /\ rows'[s] = Append(rows[s], NextMessage(r))
<1> DEFINE Becomes ==
           \/ rows'[s] = rows[s] \/ rows'[s] = <<>>
           \/ \E i \in 1 .. Len(rows[s]) : rows'[s] = Without(rows[s], i)
           \/ \E r \in Requests :
                /\ req[r].s = s
                /\ \/ /\ PersistMemory(r)
                      /\ rows'[s] = Append(rows[s], [turn |-> r, n |-> req[r].n])
                   \/ AppendStore(r) /\ rows'[s] = Append(rows[s], NextMessage(r))
<1> SUFFICES Becomes
  OBVIOUS
<1> HIDE DEF Becomes
<1>0. rows \in [Sessions -> Seq(Message)]
  BY DEF TypeInv, TypeOK
<1>1. rows' = rows => Becomes
  BY DEF Becomes
<1>2. ASSUME NEW r \in Requests, PersistMemory(r) PROVE Becomes
  BY <1>0, <1>2 DEF PersistMemory, Becomes
<1>3. ASSUME NEW r \in Requests, AppendStore(r) PROVE Becomes
  BY <1>0, <1>3 DEF AppendStore, Becomes
<1>4. ASSUME NEW r \in Requests, CommitToggle(r) PROVE Becomes
  BY <1>0, <1>4 DEF CommitToggle, Becomes
<1>5. ASSUME NEW x \in Sessions, DeleteMessage(x) PROVE Becomes
  BY <1>0, <1>5 DEF DeleteMessage, Becomes
<1>6. ASSUME NEW x \in Sessions, DeleteSession(x) PROVE Becomes
  BY <1>0, <1>6 DEF DeleteSession, Becomes
<1>7. ASSUME NEW r \in Requests, Turn(r) \/ Toggle(r) \/ Abort(r)
      PROVE  rows' = rows \/ PersistMemory(r) \/ AppendStore(r) \/ CommitToggle(r)
  BY <1>7 DEF Turn, Toggle, Abort, BeginTurn, BeginToggle, Begin, PickTranscript,
              AppendMemory, ReadHistory, EndTurn, ReadRows, SeedPool, store
<1>8. ASSUME NEW x \in Sessions, CreateSession(x) \/ ShowMessages(x)
      PROVE  rows' = rows
  BY <1>8 DEF CreateSession, ShowMessages, store
<1>9. UNCHANGED vars \/ Restart => rows' = rows
  BY DEF vars, Restart, store
<1>10. CASE \E r \in Requests : Turn(r) \/ Toggle(r) \/ Abort(r)
  BY <1>1, <1>2, <1>3, <1>4, <1>7, <1>10
<1>11. CASE \E x \in Sessions : \/ CreateSession(x) \/ ShowMessages(x)
                                 \/ DeleteMessage(x) \/ DeleteSession(x)
  BY <1>1, <1>5, <1>6, <1>8, <1>11
<1> QED
  BY <1>1, <1>9, <1>10, <1>11 DEF Next

\* What one step may do to the rows of a session: lose some, or gain the next
\* message of a turn that writes to the store.
LEMMA RowsStep ==
    ASSUME TypeInv, [Next]_vars, NEW s \in Sessions
    PROVE  \/ Elems(rows'[s]) \subseteq Elems(rows[s])
           \/ \E r \in Requests :
                /\ req[r].s = s
                /\ PersistMemory(r) \/ AppendStore(r)
                /\ \E n \in 1 .. MaxMsgs :
                     Elems(rows'[s]) = Elems(rows[s]) \cup {[turn |-> r, n |-> n]}
<1> DEFINE Goal ==
        \/ Elems(rows'[s]) \subseteq Elems(rows[s])
        \/ \E r \in Requests :
             /\ req[r].s = s
             /\ PersistMemory(r) \/ AppendStore(r)
             /\ \E n \in 1 .. MaxMsgs :
                  Elems(rows'[s]) = Elems(rows[s]) \cup {[turn |-> r, n |-> n]}
<1> SUFFICES Goal
  OBVIOUS
<1>0. /\ rows \in [Sessions -> Seq(Message)]
      /\ req \in [Requests -> Request]
  BY DEF TypeInv, TypeOK
<1>1. rows'[s] = rows[s] \/ rows'[s] = <<>> => Elems(rows'[s]) \subseteq Elems(rows[s])
  BY ElemsEmpty
<1>2. ASSUME NEW i \in 1 .. Len(rows[s]), rows'[s] = Without(rows[s], i)
      PROVE  Elems(rows'[s]) \subseteq Elems(rows[s])
  BY <1>0, <1>2, ElemsWithout
<1>3. ASSUME NEW r \in Requests, NEW n \in 1 .. MaxMsgs,
             rows'[s] = Append(rows[s], [turn |-> r, n |-> n])
      PROVE  Elems(rows'[s]) = Elems(rows[s]) \cup {[turn |-> r, n |-> n]}
  <2>1. [turn |-> r, n |-> n] \in Message
    BY DEF Message
  <2> QED
    BY <1>0, <1>3, <2>1, ElemsAppend
<1>4. ASSUME NEW r \in Requests, PersistMemory(r) PROVE req[r].n \in 1 .. MaxMsgs
  BY <1>0, <1>4, ConstantsAssumption DEF PersistMemory, TypeInv, HasMessage, Request
<1>5. ASSUME NEW r \in Requests, AppendStore(r) PROVE req[r].n + 1 \in 1 .. MaxMsgs
  BY <1>0, <1>5, ConstantsAssumption DEF AppendStore, Speaking, Request
<1>6. ASSUME NEW r \in Requests, req[r].s = s, PersistMemory(r),
             rows'[s] = Append(rows[s], [turn |-> r, n |-> req[r].n])
      PROVE  Goal
  BY <1>3, <1>4, <1>6
<1>7. ASSUME NEW r \in Requests, req[r].s = s, AppendStore(r),
             rows'[s] = Append(rows[s], NextMessage(r))
      PROVE  Goal
  BY <1>3, <1>5, <1>7 DEF NextMessage
<1>8. Elems(rows'[s]) \subseteq Elems(rows[s]) => Goal
  OBVIOUS
<1> HIDE DEF Goal
<1> QED
  BY <1>1, <1>2, <1>8, <1>6, <1>7, RowsBecome

\* Whatever handlers interleave, a message on disk was written by a turn that
\* began on the record.
THEOREM RecordedTurnsOnly == Spec => []UnrecordedStaysUnrecorded
<1>1. Init => RecordInv
  <2> SUFFICES ASSUME Init PROVE RecordInv
    OBVIOUS
  <2>1. TypeInv
    BY TypeInit
  <2>2. WritersOnRecord /\ RowsOnRecord
    BY DEF Init, WritersOnRecord, RowsOnRecord, IdleRequest, Elems
  <2> QED
    BY <2>1, <2>2 DEF RecordInv
<1>2. RecordInv /\ [Next]_vars => RecordInv'
  <2> SUFFICES ASSUME RecordInv, [Next]_vars PROVE RecordInv'
    OBVIOUS
  <2>1. TypeInv'
    BY TypeStep, HasMessageStep DEF RecordInv, TypeInv
  <2>2. WritersOnRecord'
    BY WritersStep DEF RecordInv
  <2>3. RowsOnRecord'
    <3> SUFFICES ASSUME NEW s \in Sessions, NEW m \in Elems(rows'[s])
                 PROVE  req'[m.turn].rec /\ req'[m.turn].phase # "idle"
      BY DEF RowsOnRecord, Elems
    <3>1. CASE m \in Elems(rows[s])
      <4>0. rows[s] \in Seq(Message)
        BY DEF RecordInv, TypeInv, TypeOK
      <4>a. m \in Message
        BY <3>1, <4>0 DEF Elems
      <4>1. m.turn \in Requests
        BY <4>a DEF Message
      <4>2. req[m.turn].rec /\ req[m.turn].phase # "idle"
        BY <3>1 DEF RecordInv, RowsOnRecord
      <4> QED
        BY <4>1, <4>2, SnapshotKept DEF RecordInv
    <3>2. ASSUME NEW r \in Requests, m.turn = r,
                 PersistMemory(r) \/ AppendStore(r)
          PROVE  req'[m.turn].rec /\ req'[m.turn].phase # "idle"
      <4>1. req[r].rec /\ req[r].phase # "idle"
        BY <3>2 DEF RecordInv, WritersOnRecord, PersistMemory, AppendStore,
                    Speaking
      <4> QED
        BY <3>2, <4>1, SnapshotKept DEF RecordInv
    <3> QED
      BY <3>1, <3>2, RowsStep DEF RecordInv
  <2> QED
    BY <2>1, <2>2, <2>3 DEF RecordInv
<1>3. RecordInv => UnrecordedStaysUnrecorded
  BY DEF RecordInv, RowsOnRecord, UnrecordedStaysUnrecorded
<1> QED
  BY <1>1, <1>2, <1>3, PTL DEF Spec

-----------------------------------------------------------------------------
(* A caller that waits for its answers (Overlap = FALSE).                   *)

\* One handler at a time serves a conversation.
Alone ==
    \A r, t \in Requests :
        Running(r) /\ Running(t) /\ req[r].s = req[t].s => r = t

\* A running handler's snapshot is what the store says.
Current ==
    \A r \in Requests :
        Running(r) => /\ status[req[r].s] = "open"
                      /\ req[r].rec = record[req[r].s]

WaitingInv ==
    /\ TypeInv /\ WritersOnRecord
    /\ Alone /\ Current
    /\ OffRecordLeavesNothing

\* A handler that writes, commits or reads is running.
LEMMA ActorsRun ==
    ASSUME NEW r \in Requests,
           PersistMemory(r) \/ AppendStore(r) \/ CommitToggle(r)
    PROVE  Running(r)
BY DEF PersistMemory, AppendStore, Speaking, CommitToggle, Running

\* A caller that waits starts nothing beside a request that is running.
LEMMA AloneStep ==
    ASSUME ~Overlap, TypeInv, Alone, [Next]_vars
    PROVE  Alone'
<1> SUFFICES ASSUME NEW r \in Requests, NEW t \in Requests,
                    Running(r)', Running(t)', req'[r].s = req'[t].s, r # t
             PROVE  FALSE
  BY DEF Alone
<1>0. req \in [Requests -> Request]
  BY DEF TypeInv, TypeOK
\* A handler that begins finds its conversation idle, and nobody else moves.
<1>1. ASSUME NEW u \in Requests, NEW v \in Requests, u # v, Running(v)',
             req'[u].s = req'[v].s,
             NEW s \in Sessions, NEW kind, NEW want, Begin(u, s, kind, want)
      PROVE  FALSE
  <2>1. req'[u].s = s /\ req'[v] = req[v]
    BY <1>0, <1>1 DEF Begin, Request
  <2>2. Running(v) /\ req[v].s = s
    BY <1>1, <2>1 DEF Running
  <2>3. ~Busy(s)
    BY <1>1 DEF Begin, MayCall
  <2> QED
    BY <2>2, <2>3 DEF Busy
<1>2. /\ Running(r) /\ req'[r].s = req[r].s
      /\ Running(t) /\ req'[t].s = req[t].s
  BY <1>1, StillRunning
<1> QED
  BY <1>2 DEF Alone

\* Only a toggle or a deletion of an idle conversation changes what a running
\* handler has read.
LEMMA CurrentStep ==
    ASSUME ~Overlap, TypeInv, Alone, Current, [Next]_vars
    PROVE  Current'
<1> SUFFICES ASSUME NEW r \in Requests, Running(r)'
             PROVE  /\ status'[req'[r].s] = "open"
                    /\ req'[r].rec = record'[req'[r].s]
  BY DEF Current
<1>0. /\ req \in [Requests -> Request]
      /\ status \in [Sessions -> {"new", "open", "gone"}]
      /\ record \in [Sessions -> BOOLEAN]
  BY DEF TypeInv, TypeOK
<1>1. ASSUME NEW s \in Sessions, NEW kind \in {"turn", "toggle"},
             NEW want \in BOOLEAN, Begin(r, s, kind, want)
      PROVE  /\ status'[req'[r].s] = "open"
             /\ req'[r].rec = record'[req'[r].s]
  <2>1. req'[r].s = s /\ req'[r].rec = record[s]
    BY <1>0, <1>1 DEF Begin, Request
  <2> QED
    BY <1>1, <2>1 DEF Begin, store
<1>2. CASE Running(r) /\ req'[r].s = req[r].s /\ req'[r].rec = req[r].rec
  <2> DEFINE s == req[r].s
  <2>0. s \in Sessions /\ status[s] = "open" /\ req[r].rec = record[s]
    BY <1>0, <1>2 DEF Current, Request
  <2> HIDE DEF s
  <2> SUFFICES status'[s] = "open" /\ record'[s] = record[s]
    BY <1>2, <2>0 DEF s
  <2>1. ASSUME NEW x \in Sessions,
               CreateSession(x) \/ DeleteSession(x)
        PROVE  status'[s] = "open" /\ record'[s] = record[s]
    <3>1. DeleteSession(x) => x # s
      BY <1>2, <2>0 DEF DeleteSession, MayCall, Busy, s
    <3>2. CreateSession(x) => x # s
      BY <2>0 DEF CreateSession
    <3> QED
      BY <1>0, <2>0, <2>1, <3>1, <3>2 DEF CreateSession, DeleteSession
  <2>2. ASSUME NEW t \in Requests, CommitToggle(t)
        PROVE  status'[s] = "open" /\ record'[s] = record[s]
    <3>1. t # r
      BY <1>0, <2>2 DEF CommitToggle, Running, Request
    <3>2. req[t].s # s
      BY <1>2, <2>2, <3>1, ActorsRun DEF Alone, s
    <3> QED
      BY <1>0, <2>0, <2>2, <3>2 DEF CommitToggle
  <2>3. ASSUME NEW t \in Requests, Turn(t) \/ Toggle(t) \/ Abort(t),
               ~CommitToggle(t)
        PROVE  status' = status /\ record' = record
    BY <2>3 DEF Turn, Toggle, Abort, BeginTurn, BeginToggle, Begin,
                PickTranscript, AppendMemory, PersistMemory, AppendStore,
                ReadHistory, EndTurn, ReadRows, SeedPool, store
  <2>4. ASSUME NEW x \in Sessions, ShowMessages(x) \/ DeleteMessage(x)
        PROVE  status' = status /\ record' = record
    BY <2>4 DEF ShowMessages, DeleteMessage, store
  <2>5. Restart \/ UNCHANGED vars => status' = status /\ record' = record
    BY DEF Restart, vars, store
  <2> QED
    BY <2>0, <2>1, <2>2, <2>3, <2>4, <2>5 DEF Next
<1> QED
  BY <1>1, <1>2, StillRunning

\* A step of a caller that waits leaves nothing on disk off the record.
LEMMA CleanStep ==
    ASSUME ~Overlap, WaitingInv, [Next]_vars
    PROVE  OffRecordLeavesNothing'
<1> SUFFICES ASSUME NEW s \in Sessions, ~record'[s]
             PROVE  rows'[s] = <<>>
  BY DEF OffRecordLeavesNothing
<1>0. /\ req \in [Requests -> Request]
      /\ record \in [Sessions -> BOOLEAN]
      /\ rows \in [Sessions -> Seq(Message)]
  BY DEF WaitingInv, TypeInv, TypeOK
<1>1. ASSUME NEW r \in Requests, CommitToggle(r), req[r].s = s
      PROVE  rows'[s] = <<>>
  <2>1. status[s] = "open"
    BY <1>1, ActorsRun DEF WaitingInv, Current
  <2>2. record'[s] = req[r].want
    BY <1>0, <1>1, <2>1 DEF CommitToggle
  <2> QED
    BY <1>0, <1>1, <2>1, <2>2 DEF CommitToggle
<1>2. ASSUME ~\E r \in Requests : CommitToggle(r) /\ req[r].s = s
      PROVE  ~record[s]
  BY <1>0, <1>2, ZenonT(60)
     DEF Next, Turn, Toggle, Abort, BeginTurn, BeginToggle, Begin,
         PickTranscript, AppendMemory, PersistMemory, AppendStore, ReadHistory,
         EndTurn, ReadRows, SeedPool, CommitToggle, CreateSession,
         ShowMessages, DeleteMessage, DeleteSession, Restart, vars, store
<1>3. ASSUME NEW r \in Requests, PersistMemory(r) \/ AppendStore(r)
      PROVE  record[req[r].s]
  <2>1. req[r].rec
    BY <1>3 DEF WaitingInv, WritersOnRecord, PersistMemory, AppendStore,
                Speaking
  <2> QED
    BY <1>3, <2>1, ActorsRun DEF WaitingInv, Current
<1>4. CASE ~\E r \in Requests : CommitToggle(r) /\ req[r].s = s
  <2>1. rows[s] = <<>>
    BY <1>2, <1>4 DEF WaitingInv, OffRecordLeavesNothing
  <2>2. Elems(rows'[s]) \subseteq Elems(rows[s])
    BY <1>2, <1>3, <1>4, RowsStep DEF WaitingInv
  <2>3. rows'[s] \in Seq(Message)
    BY TypeStep DEF WaitingInv, TypeOK
  <2>4. Len(rows'[s]) = 0
    <3>1. Elems(rows'[s]) = {}
      BY <2>1, <2>2, ElemsEmpty
    <3>2. Len(rows'[s]) > 0 => rows'[s][1] \in Elems(rows'[s])
      BY <2>3 DEF Elems
    <3> QED
      BY <2>3, <3>1, <3>2
  <2> QED
    BY <2>3, <2>4
<1> QED
  BY <1>1, <1>4

\* The conjuncts above are inductive together.
LEMMA WaitingInductive ==
    ASSUME ~Overlap
    PROVE  /\ Init => WaitingInv
           /\ WaitingInv /\ [Next]_vars => WaitingInv'
<1>1. Init => WaitingInv
  <2> SUFFICES ASSUME Init PROVE WaitingInv
    OBVIOUS
  <2>1. TypeInv
    BY TypeInit
  <2>2. /\ WritersOnRecord /\ Alone /\ Current
        /\ OffRecordLeavesNothing
    BY DEF Init, WritersOnRecord, Alone, Current, OffRecordLeavesNothing,
           IdleRequest, Running
  <2> QED
    BY <2>1, <2>2 DEF WaitingInv
<1>2. WaitingInv /\ [Next]_vars => WaitingInv'
  <2> SUFFICES ASSUME WaitingInv, [Next]_vars PROVE WaitingInv'
    OBVIOUS
  <2>1. TypeInv'
    BY TypeStep, HasMessageStep DEF WaitingInv, TypeInv
  <2>2. WritersOnRecord' /\ Alone' /\ Current' /\ OffRecordLeavesNothing'
    BY WritersStep, AloneStep, CurrentStep, CleanStep DEF WaitingInv
  <2> QED
    BY <2>1, <2>2 DEF WaitingInv
<1> QED
  BY <1>1, <1>2

\* With a caller that waits for its answers, a conversation that is off the
\* record has nothing on disk.
THEOREM WaitingLeavesNothing ==
    ASSUME ~Overlap
    PROVE  Spec => []OffRecordLeavesNothing
<1>1. WaitingInv => OffRecordLeavesNothing
  BY DEF WaitingInv
<1> QED
  BY <1>1, WaitingInductive, PTL DEF Spec

-----------------------------------------------------------------------------
(* The store implements the abstract switch.                                *)

\* Writing one message to a conversation on the record is an abstract Write.
LEMMA WriteImplements ==
    ASSUME ~Overlap, WaitingInv, NEW r \in Requests, [Next]_vars,
           PersistMemory(r) \/ AppendStore(r)
    PROVE  Abstract!Write(req[r].s)
<1> DEFINE s == req[r].s
<1>0. /\ req \in [Requests -> Request]
      /\ record \in [Sessions -> BOOLEAN]
      /\ rows \in [Sessions -> Seq(Message)]
      /\ s \in Sessions
  BY DEF WaitingInv, TypeInv, TypeOK, Request
<1>1. status[s] = "open" /\ record[s]
  <2>1. req[r].rec
    BY DEF WaitingInv, WritersOnRecord, PersistMemory, AppendStore, Speaking
  <2> QED
    BY <2>1, ActorsRun DEF WaitingInv, Current
<1>2. PICK m \in Message : rows' = [rows EXCEPT ![s] = Append(@, m)]
  <2>1. CASE PersistMemory(r)
    <3>1. [turn |-> r, n |-> req[r].n] \in Message
      BY <1>0, <2>1, ConstantsAssumption
         DEF PersistMemory, WaitingInv, TypeInv, HasMessage, Request, Message
    <3> QED
      BY <2>1, <3>1 DEF PersistMemory
  <2>2. CASE AppendStore(r)
    <3>1. NextMessage(r) \in Message
      BY <1>0, <2>2, ConstantsAssumption
         DEF AppendStore, Speaking, NextMessage, Request, Message
    <3> QED
      BY <2>2, <3>1 DEF AppendStore
  <2> QED
    BY <2>1, <2>2
<1>3. Elems(rows'[s]) = Elems(rows[s]) \cup {m}
  BY <1>0, <1>2, ElemsAppend
<1>4. Disk' = [Disk EXCEPT ![s] = @ \cup {m}]
  BY <1>0, <1>2, <1>3 DEF Disk
<1>5. UNCHANGED <<status, record>>
  BY DEF PersistMemory, AppendStore
<1> QED
  BY <1>1, <1>2, <1>4, <1>5 DEF Abstract!Write

\* A toggle's commit is the abstract switch.
LEMMA ToggleImplements ==
    ASSUME ~Overlap, WaitingInv, NEW r \in Requests, CommitToggle(r)
    PROVE  Abstract!GoOff(req[r].s) \/ Abstract!GoOn(req[r].s)
<1> DEFINE s == req[r].s
<1>0. /\ s \in Sessions /\ req[r].want \in BOOLEAN
      /\ record \in [Sessions -> BOOLEAN]
      /\ rows \in [Sessions -> Seq(Message)]
  BY DEF WaitingInv, TypeInv, TypeOK, Request
<1>1. status[s] = "open"
  BY ActorsRun DEF WaitingInv, Current
<1>2. status' = status /\ record' = [record EXCEPT ![s] = req[r].want]
  BY <1>1 DEF CommitToggle
<1>3. CASE req[r].want
  <2>1. rows' = rows
    BY <1>1, <1>3 DEF CommitToggle
  <2>2. Disk' = Disk
    BY <2>1 DEF Disk
  <2>3. record' = [record EXCEPT ![s] = TRUE]
    BY <1>0, <1>2, <1>3
  <2> QED
    BY <1>1, <1>2, <2>2, <2>3 DEF Abstract!GoOn
<1>4. CASE ~req[r].want
  <2>1. rows' = [rows EXCEPT ![s] = <<>>]
    BY <1>1, <1>4 DEF CommitToggle
  <2>2. Disk' = [Disk EXCEPT ![s] = {}]
    BY <1>0, <2>1, ElemsEmpty DEF Disk
  <2>3. record' = [record EXCEPT ![s] = FALSE]
    BY <1>0, <1>2, <1>4
  <2> QED
    BY <1>1, <1>2, <2>2, <2>3 DEF Abstract!GoOff
<1> QED
  BY <1>3, <1>4

\* Deleting one row is an abstract Erase, or nothing when the transcript holds
\* the message twice.
LEMMA EraseImplements ==
    ASSUME WaitingInv, NEW s \in Sessions, DeleteMessage(s)
    PROVE  Abstract!Erase(s) \/ UNCHANGED <<status, record, Disk>>
<1>0. rows \in [Sessions -> Seq(Message)]
  BY DEF WaitingInv, TypeInv, TypeOK
<1>1. PICK i \in 1 .. Len(rows[s]) : rows' = [rows EXCEPT ![s] = Without(@, i)]
  BY DEF DeleteMessage
<1>2. rows[s] \in Seq(Message) /\ rows[s][i] \in Elems(rows[s])
  BY <1>0 DEF Elems
<1>3. rows'[s] = Without(rows[s], i)
  BY <1>0, <1>1
<1>4. CASE Elems(Without(rows[s], i)) = Elems(rows[s])
  <2>1. Disk' = Disk
    BY <1>0, <1>1, <1>3, <1>4 DEF Disk
  <2> QED
    BY <2>1 DEF DeleteMessage
<1>5. CASE Elems(Without(rows[s], i)) = Elems(rows[s]) \ {rows[s][i]}
  <2>1. Disk' = [Disk EXCEPT ![s] = @ \ {rows[s][i]}]
    BY <1>0, <1>1, <1>3, <1>5 DEF Disk
  <2>2. rows[s][i] \in Disk[s]
    BY <1>2 DEF Disk
  <2>3. UNCHANGED <<status, record>> /\ status[s] = "open"
    BY DEF DeleteMessage
  <2> QED
    BY <2>1, <2>2, <2>3 DEF Abstract!Erase
<1> QED
  BY <1>2, <1>4, <1>5, ElemsWithout

\* With a caller that waits for its answers, everything the server does to the
\* disk is a step of the abstract switch.
THEOREM WaitingRefines ==
    ASSUME ~Overlap
    PROVE  Spec => AbstractSpec
<1>1. Init => Abstract!Init
  BY DEF Init, Abstract!Init, Disk, Elems
<1>2. WaitingInv /\ [Next]_vars => [Abstract!Next]_(Abstract!vars)
  <2> SUFFICES ASSUME WaitingInv, [Next]_vars
               PROVE  Abstract!Next \/ UNCHANGED <<status, record, Disk>>
    BY DEF Abstract!vars
  <2>0. /\ req \in [Requests -> Request]
        /\ rows \in [Sessions -> Seq(Message)]
    BY DEF WaitingInv, TypeInv, TypeOK
  <2>1. ASSUME NEW r \in Requests, PersistMemory(r) \/ AppendStore(r)
        PROVE  Abstract!Next
    BY <2>0, <2>1, WriteImplements DEF Abstract!Next, Request
  <2>2. ASSUME NEW r \in Requests, CommitToggle(r)
        PROVE  Abstract!Next
    BY <2>0, <2>2, ToggleImplements DEF Abstract!Next, Request
  <2>3. ASSUME NEW r \in Requests, Turn(r) \/ Toggle(r) \/ Abort(r),
               ~PersistMemory(r), ~AppendStore(r), ~CommitToggle(r)
        PROVE  UNCHANGED <<status, record, rows>>
    BY <2>3 DEF Turn, Toggle, Abort, BeginTurn, BeginToggle, Begin,
                PickTranscript, AppendMemory, ReadHistory, EndTurn, ReadRows,
                SeedPool, store
  <2>4. ASSUME NEW s \in Sessions, CreateSession(s)
        PROVE  Abstract!Next
    <3>1. Disk' = Disk
      BY <2>4 DEF CreateSession, Disk
    <3> QED
      BY <2>4, <3>1 DEF CreateSession, Abstract!Next, Abstract!Create
  <2>5. ASSUME NEW s \in Sessions, DeleteSession(s)
        PROVE  Abstract!Next
    <3>1. Disk' = [Disk EXCEPT ![s] = {}]
      BY <2>0, <2>5, ElemsEmpty DEF DeleteSession, Disk
    <3> QED
      BY <2>5, <3>1 DEF DeleteSession, Abstract!Next, Abstract!Discard
  <2>6. ASSUME NEW s \in Sessions, DeleteMessage(s)
        PROVE  Abstract!Next \/ UNCHANGED <<status, record, Disk>>
    BY <2>6, EraseImplements DEF Abstract!Next
  <2>7. ASSUME NEW s \in Sessions, ShowMessages(s)
        PROVE  UNCHANGED <<status, record, rows>>
    BY <2>7 DEF ShowMessages, store
  <2>8. Restart \/ UNCHANGED vars => UNCHANGED <<status, record, rows>>
    BY DEF Restart, vars, store
  <2>9. UNCHANGED <<status, record, rows>> => UNCHANGED <<status, record, Disk>>
    BY DEF Disk
  <2> QED
    BY <2>1, <2>2, <2>3, <2>4, <2>5, <2>6, <2>7, <2>8, <2>9 DEF Next
<1>3. Spec => []WaitingInv
  BY WaitingInductive, PTL DEF Spec
<1> QED
  BY <1>1, <1>2, <1>3, PTL DEF Spec, AbstractSpec, Abstract!Spec

-----------------------------------------------------------------------------
(* Sequences without a repetition                                          *)

Unique(q) == \A i, j \in 1 .. Len(q) : q[i] = q[j] => i = j

LEMMA UniqueEmpty == Unique(<<>>)
<1>1. Len(<<>>) = 0
  OBVIOUS
<1> QED
  BY <1>1 DEF Unique

\* As many elements as places.
LEMMA UniqueCounts ==
    ASSUME NEW S, NEW q \in Seq(S), Unique(q)
    PROVE  Cardinality(Elems(q)) = Len(q)
<1> DEFINE n == Len(q)
           f == [i \in 1 .. n |-> q[i]]
<1>1. n \in Nat /\ f \in [1 .. n -> Elems(q)]
  BY DEF Elems
<1>2. \A i, j \in 1 .. n : f[i] = f[j] => i = j
  BY DEF Unique
<1>3. \A x \in Elems(q) : \E i \in 1 .. n : f[i] = x
  BY DEF Elems
<1> HIDE DEF f, n
<1>4. f \in Bijection(1 .. n, Elems(q))
  BY <1>1, <1>2, <1>3 DEF Bijection, Injection, Surjection, IsInjective
<1>5. Cardinality(Elems(q)) = n
  BY <1>1, <1>4, FS_CountingElements DEF ExistsBijection
<1> QED
  BY <1>5 DEF n

LEMMA UniqueAppend ==
    ASSUME NEW S, NEW q \in Seq(S), Unique(q), NEW x \in S, x \notin Elems(q)
    PROVE  Unique(Append(q, x))
BY DEF Unique, Elems

\* Taking an element out takes it out for good.
LEMMA UniqueWithout ==
    ASSUME NEW S, NEW q \in Seq(S), Unique(q), NEW i \in 1 .. Len(q)
    PROVE  /\ Unique(Without(q, i)) /\ Len(Without(q, i)) = Len(q) - 1
           /\ Elems(Without(q, i)) = Elems(q) \ {q[i]}
<1> DEFINE w == Without(q, i)
<1>d. /\ w \in Seq(S) /\ Len(w) = Len(q) - 1 /\ Len(q) \in Nat
      /\ \A j \in 1 .. Len(w) : w[j] = IF j < i THEN q[j] ELSE q[j + 1]
  BY WithoutAt
<1> HIDE DEF w
<1>1. Unique(w)
  <2> SUFFICES ASSUME NEW j \in 1 .. Len(w), NEW k \in 1 .. Len(w), w[j] = w[k]
               PROVE  j = k
    BY DEF Unique
  <2> DEFINE up(x) == IF x < i THEN x ELSE x + 1
  <2>1. up(j) \in 1 .. Len(q) /\ up(k) \in 1 .. Len(q)
    BY <1>d
  <2>2. w[j] = q[up(j)] /\ w[k] = q[up(k)]
    BY <1>d
  <2>3. up(j) = up(k)
    <3> HIDE DEF up
    <3> QED
      BY <2>1, <2>2 DEF Unique
  <2> QED
    BY <2>3
<1>2. Elems(w) \subseteq Elems(q) \ {q[i]}
  <2> SUFFICES ASSUME NEW j \in 1 .. Len(w) PROVE w[j] \in Elems(q) \ {q[i]}
    BY DEF Elems
  <2>1. PICK k \in 1 .. Len(q) : k # i /\ w[j] = q[k]
    <3>1. j \in 1 .. Len(q) /\ j + 1 \in 1 .. Len(q)
      BY <1>d
    <3> QED
      BY <1>d, <3>1
  <2> QED
    BY <2>1 DEF Elems, Unique
<1>3. ASSUME NEW j \in 1 .. Len(q), j # i PROVE q[j] \in Elems(w)
  <2>1. CASE j < i
    <3>1. j \in 1 .. Len(w) /\ w[j] = q[j]
      BY <1>d, <2>1
    <3> QED
      BY <3>1 DEF Elems
  <2>2. CASE j > i
    <3>1. j - 1 \in 1 .. Len(w) /\ w[j - 1] = q[j]
      BY <1>d, <2>2
    <3> QED
      BY <3>1 DEF Elems
  <2> QED
    BY <1>3, <2>1, <2>2
<1>4. Elems(q) \ {q[i]} \subseteq Elems(w)
  BY <1>3 DEF Elems
<1> QED
  BY <1>1, <1>2, <1>4, <1>d DEF w

\* What is left of a sequence when its first d elements are dropped.
LEMMA UniqueRest ==
    ASSUME NEW S, NEW q \in Seq(S), Unique(q), NEW d \in 0 .. Len(q),
           NEW p, p = SubSeq(q, d + 1, Len(q))
    PROVE  /\ Unique(p) /\ Len(p) = Len(q) - d
           /\ Elems(p) = Elems(q) \ { q[i] : i \in 1 .. d }
<1>1. /\ p \in Seq(S) /\ Len(p) = Len(q) - d
      /\ \A j \in 1 .. Len(p) : p[j] = q[j + d]
  OBVIOUS
<1>2. Unique(p)
  BY <1>1 DEF Unique
<1>3. Elems(p) \subseteq Elems(q) \ { q[i] : i \in 1 .. d }
  BY <1>1 DEF Elems, Unique
<1>4. ASSUME NEW j \in 1 .. Len(q), ~(j \in 1 .. d) PROVE q[j] \in Elems(p)
  <2>1. j - d \in 1 .. Len(p) /\ p[j - d] = q[j]
    BY <1>1, <1>4
  <2> QED
    BY <2>1 DEF Elems
<1>5. Elems(q) \ { q[i] : i \in 1 .. d } \subseteq Elems(p)
  BY <1>4 DEF Elems
<1> QED
  BY <1>1, <1>2, <1>3, <1>5

-----------------------------------------------------------------------------
(* The pool                                                                *)

\* The order of use lists a session once, the one used now last.
LEMMA TouchUnique ==
    ASSUME NEW q \in Seq(Sessions), NEW s \in Sessions, Unique(q),
           NEW p, p = Touch(q, s)
    PROVE  /\ p \in Seq(Sessions) /\ Unique(p) /\ Elems(p) = Elems(q) \cup {s}
           /\ s \in Elems(q) => Len(p) = Len(q)
           /\ Len(p) >= 1 /\ p[Len(p)] = s
<1>1. CASE s \in Elems(q)
  <2> DEFINE i == CHOOSE i \in 1 .. Len(q) : q[i] = s
             w == Without(q, i)
  <2>1. i \in 1 .. Len(q) /\ q[i] = s
    BY <1>1 DEF Elems
  <2>2. p = Append(w, s)
    BY <1>1 DEF Touch
  <2> HIDE DEF i
  <2>3. /\ w \in Seq(Sessions) /\ Unique(w) /\ Len(w) = Len(q) - 1
        /\ Elems(w) = Elems(q) \ {s}
    BY <2>1, WithoutType, UniqueWithout
  <2> HIDE DEF w
  <2>4. Unique(p) /\ Elems(p) = Elems(w) \cup {s}
    BY <2>2, <2>3, UniqueAppend, ElemsAppend
  <2> QED
    BY <1>1, <2>2, <2>3, <2>4
<1>2. CASE s \notin Elems(q)
  <2>1. p = Append(q, s)
    BY <1>2 DEF Touch
  <2>2. Unique(p) /\ Elems(p) = Elems(q) \cup {s}
    BY <1>2, <2>1, UniqueAppend, ElemsAppend
  <2> QED
    BY <1>2, <2>1, <2>2
<1> QED
  BY <1>1, <1>2

PoolInv ==
    /\ Unique(lru) /\ Len(lru) <= MaxHeld
    /\ \A s \in Sessions : ~Has(s) => held[s] = <<>>

\* A transcript is kept, and what is evicted is forgotten.
LEMMA KeepSound ==
    ASSUME TypeOK, PoolInv, NEW s \in Sessions, NEW h, Keep(s, h)
    PROVE  /\ PoolInv'
           /\ \A x \in Sessions :
                held'[x] = <<>> \/ held'[x] = held[x] \/ (x = s /\ held'[x] = h)
<1> DEFINE q == Touch(lru, s)
<1>1. PICK d \in Evictable(q) :
        LET dropped == { q[i] : i \in 1 .. d }
        IN /\ lru' = SubSeq(q, d + 1, Len(q))
           /\ held' = [x \in Sessions |->
                         IF x \in dropped THEN <<>>
                         ELSE IF x = s THEN h ELSE held[x]]
  BY DEF Keep
<1>2. /\ q \in Seq(Sessions) /\ Unique(q) /\ Elems(q) = Elems(lru) \cup {s}
      /\ Len(q) >= 1 /\ q[Len(q)] = s
  BY TouchUnique DEF TypeOK, PoolInv
<1>3. /\ d \in 0 .. Len(q) - 1 /\ d \in 0 .. Len(q) /\ Len(q) - d <= MaxHeld
      /\ lru' = SubSeq(q, d + 1, Len(q))
  BY <1>1, <1>2, ConstantsAssumption DEF Evictable
<1> HIDE DEF q
<1>4. /\ Unique(lru') /\ Len(lru') = Len(q) - d
      /\ Elems(lru') = Elems(q) \ { q[i] : i \in 1 .. d }
  BY <1>2, <1>3, UniqueRest
<1>5. ASSUME NEW x \in Sessions, x \notin Elems(lru') PROVE held'[x] = <<>>
  <2>1. x \in { q[i] : i \in 1 .. d } \/ (x \notin Elems(lru) /\ x # s)
    BY <1>2, <1>4, <1>5
  <2> QED
    BY <1>1, <2>1 DEF PoolInv, Has
<1> QED
  BY <1>1, <1>3, <1>4, <1>5 DEF PoolInv, Has

\* An entry is refreshed.
LEMMA RefreshSound ==
    ASSUME TypeOK, PoolInv, NEW s \in Sessions, Has(s), lru' = Touch(lru, s),
           held' = held
    PROVE  PoolInv'
<1>1. PICK p : p = Touch(lru, s)
  OBVIOUS
<1>2. Unique(p) /\ Elems(p) = Elems(lru) \cup {s} /\ Len(p) = Len(lru)
  BY <1>1, TouchUnique DEF TypeOK, PoolInv, Has
<1>3. lru' = p /\ Elems(p) = Elems(lru)
  BY <1>1, <1>2 DEF Has
<1> QED
  BY <1>2, <1>3 DEF PoolInv, Has

\* What a step may do to the pool.
LEMMA PoolStep ==
    ASSUME TypeInv, PoolInv, [Next]_vars
    PROVE  /\ PoolInv'
           /\ \A s \in Sessions :
                \/ held'[s] = held[s] \/ held'[s] = <<>>
                \/ \E r \in Requests : s = req[r].s /\ AppendMemory(r)
                                        /\ held'[s] = Append(held[s], NextMessage(r))
                \/ \E r \in Requests : SeedPool(r) /\ held'[s] = req[r].hist
<1> DEFINE From == \A s \in Sessions :
                \/ held'[s] = held[s] \/ held'[s] = <<>>
                \/ \E r \in Requests : s = req[r].s /\ AppendMemory(r)
                                        /\ held'[s] = Append(held[s], NextMessage(r))
                \/ \E r \in Requests : SeedPool(r) /\ held'[s] = req[r].hist
<1> SUFFICES PoolInv' /\ From
  OBVIOUS
<1> HIDE DEF From
<1>t. TypeOK /\ \A r \in Requests : req[r].s \in Sessions
  BY DEF TypeInv, TypeOK, Request
<1>1. UNCHANGED <<held, lru>> => PoolInv' /\ From
  BY DEF PoolInv, Has, From
<1>2. ASSUME NEW r \in Requests, AppendMemory(r) PROVE PoolInv' /\ From
  <2>1. Keep(req[r].s, Append(held[req[r].s], NextMessage(r)))
    BY <1>2 DEF AppendMemory
  <2> QED
    BY <1>t, <1>2, <2>1, KeepSound, ZenonT(60) DEF From
<1>3. ASSUME NEW r \in Requests, SeedPool(r) PROVE PoolInv' /\ From
  <2>1. Keep(req[r].s, req[r].hist)
    BY <1>3 DEF SeedPool
  <2> QED
    BY <1>t, <1>3, <2>1, KeepSound DEF From
<1>4. ASSUME NEW r \in Requests, ReadHistory(r) PROVE PoolInv' /\ From
  <2>1. held' = held
    BY <1>4 DEF ReadHistory
  <2>2. UNCHANGED <<held, lru>> \/ (Has(req[r].s) /\ lru' = Touch(lru, req[r].s))
    BY <1>4, <2>1 DEF ReadHistory
  <2> QED
    BY <1>t, <1>1, <2>1, <2>2, RefreshSound DEF From
<1>5. ASSUME NEW s \in Sessions, ShowMessages(s) PROVE PoolInv' /\ From
  BY <1>t, <1>5, RefreshSound DEF ShowMessages, From
<1>6. CASE Restart
  <2>1. /\ lru' = <<>> /\ held' = [s \in Sessions |-> <<>>] /\ Len(<<>>) = 0
    BY <1>6 DEF Restart
  <2> QED
    BY <2>1, UniqueEmpty, ConstantsAssumption DEF PoolInv, From
<1>7. ASSUME NEW r \in Requests, Turn(r) \/ Toggle(r) \/ Abort(r)
      PROVE  UNCHANGED <<held, lru>> \/ AppendMemory(r) \/ SeedPool(r) \/ ReadHistory(r)
  BY <1>7 DEF Turn, Toggle, Abort, BeginTurn, BeginToggle, Begin, PickTranscript,
              PersistMemory, AppendStore, EndTurn, ReadRows, CommitToggle, pool
<1>8. ASSUME NEW s \in Sessions, CreateSession(s) \/ DeleteMessage(s) \/ DeleteSession(s)
      PROVE  UNCHANGED <<held, lru>>
  BY <1>8 DEF CreateSession, DeleteMessage, DeleteSession, pool
<1>9. UNCHANGED vars => UNCHANGED <<held, lru>>
  BY DEF vars
<1>10. CASE \E r \in Requests : Turn(r) \/ Toggle(r) \/ Abort(r)
  <2>1. PICK r \in Requests : Turn(r) \/ Toggle(r) \/ Abort(r)
    BY <1>10
  <2> QED
    BY <2>1, <1>1, <1>2, <1>3, <1>4, <1>7
<1>11. CASE \E s \in Sessions : \/ CreateSession(s) \/ ShowMessages(s)
                                 \/ DeleteMessage(s) \/ DeleteSession(s)
  <2> QED
    BY <1>1, <1>5, <1>8, <1>11
<1> QED
  BY <1>1, <1>6, <1>9, <1>10, <1>11 DEF Next

-----------------------------------------------------------------------------
(* One place for a message                                                 *)

\* What one step may do to the messages a handler counted and holds.
LEMMA CountStep ==
    ASSUME TypeInv, [Next]_vars, NEW r \in Requests
    PROVE  /\ req[r].n \in Nat /\ req'[r].n \in Nat /\ req[r].n <= req'[r].n
           /\ \/ req'[r].hist = req[r].hist \/ req'[r].hist = <<>>
              \/ req'[r].hist = rows[req[r].s]
           /\ req'[r].phase = "persist" => req'[r] = req[r] \/ AppendMemory(r)
<1> DEFINE Counts ==
           /\ req'[r].n \in Nat /\ req[r].n <= req'[r].n
           /\ \/ req'[r].hist = req[r].hist \/ req'[r].hist = <<>>
              \/ req'[r].hist = rows[req[r].s]
           /\ req'[r].phase = "persist" => req'[r] = req[r] \/ AppendMemory(r)
<1>0. /\ req \in [Requests -> Request] /\ req[r] \in Request
      /\ req[r].n \in Nat /\ MaxMsgs \in Nat
  BY ConstantsAssumption DEF TypeInv, TypeOK, Request
<1> SUFFICES Counts
  BY <1>0
<1>k. ASSUME req'[r].n = req[r].n, req'[r].phase # "persist",
             \/ req'[r].hist = req[r].hist \/ req'[r].hist = <<>>
             \/ req'[r].hist = rows[req[r].s]
      PROVE  Counts
  BY <1>0, <1>k
<1>1. req'[r] = req[r] => Counts
  BY <1>0
<1>2. CASE AppendMemory(r)
  BY <1>0, <1>2 DEF AppendMemory, Request
<1>3. CASE AppendStore(r)
  BY <1>0, <1>3 DEF AppendStore, Request
<1> HIDE DEF Counts
<1>4. ASSUME NEW s \in Sessions, NEW want, NEW kind, Begin(r, s, kind, want)
      PROVE  Counts
  BY <1>0, <1>4, <1>k DEF Begin, Request
<1>5. PickTranscript(r) => Counts
  BY <1>0, <1>k DEF PickTranscript, Request
<1>6. PersistMemory(r) => Counts
  BY <1>0, <1>k DEF PersistMemory, Request
<1>7. ReadHistory(r) => Counts
  BY <1>0, <1>k DEF ReadHistory, Request
<1>8. EndTurn(r) => Counts
  BY <1>0, <1>k DEF EndTurn, Request
<1>9. ReadRows(r) => Counts
  BY <1>0, <1>k DEF ReadRows, Request
<1>10. SeedPool(r) => Counts
  BY <1>0, <1>k DEF SeedPool, Request
<1>11. CommitToggle(r) => Counts
  BY <1>0, <1>k DEF CommitToggle, Request
<1>12. Abort(r) => Counts
  BY <1>0, <1>k DEF Abort, Request
<1>13. Restart /\ Running(r) => Counts
  BY <1>0, <1>k, ZenonT(30) DEF Restart, Request
<1> QED
  BY <1>1, <1>2, <1>3, <1>4, <1>5, <1>6, <1>7, <1>8, <1>9, <1>10, <1>11, <1>12, <1>13,
     HandlerStep DEF Turn, Toggle, BeginTurn, BeginToggle

\* A transcript has each message once, and none that its turn has not counted.
Sound(q, turns) == Unique(q) /\ \A m \in Elems(q) : m.n <= turns[m.turn].n

\* Every transcript is sound: on disk, in memory, and the copy that a toggle
\* took; and what a turn is about to persist is not on disk yet.
OneTime ==
    /\ \A s \in Sessions : Sound(rows[s], req) /\ Sound(held[s], req)
    /\ \A r \in Requests :
        /\ Sound(req[r].hist, req)
        /\ req[r].phase = "persist" =>
             \A s \in Sessions : [turn |-> r, n |-> req[r].n] \notin Elems(rows[s])

LEMMA SoundEmpty == ASSUME NEW f PROVE Sound(<<>>, f)
BY UniqueEmpty, ElemsEmpty DEF Sound

\* Turns only count up: what was sound stays so.
LEMMA SoundStays ==
    ASSUME TypeInv, [Next]_vars, NEW q \in Seq(Message), Sound(q, req)
    PROVE  Sound(q, req')
<1> SUFFICES ASSUME NEW m \in Elems(q) PROVE m.n <= req'[m.turn].n
  BY DEF Sound
<1>1. m \in Message
  BY DEF Elems
<1>2. /\ m.turn \in Requests /\ m.n \in Nat /\ m.n <= req[m.turn].n
  BY <1>1, ConstantsAssumption DEF Message, Sound
<1> QED
  BY <1>2, CountStep

\* A message its turn had not counted is new to a sound transcript.
LEMMA SoundAppend ==
    ASSUME NEW q \in Seq(Message), NEW f, Sound(q, f), NEW m \in Message,
           m \notin Elems(q), m.n <= f[m.turn].n
    PROVE  Sound(Append(q, m), f)
<1>1. Unique(Append(q, m))
  BY UniqueAppend DEF Sound
<1>2. Elems(Append(q, m)) = Elems(q) \cup {m}
  BY ElemsAppend
<1> QED
  BY <1>1, <1>2 DEF Sound

\* The message a turn appends is the one it counts in that step.
LEMMA NextIsNew ==
    ASSUME TypeInv, NEW r \in Requests, AppendMemory(r) \/ AppendStore(r)
    PROVE  /\ NextMessage(r) \in Message /\ NextMessage(r).turn = r
           /\ NextMessage(r).n = req'[r].n /\ req[r].n < req'[r].n
<1>0. req \in [Requests -> Request] /\ req[r] \in Request /\ req[r].n \in 0 .. MaxMsgs
  BY DEF TypeInv, TypeOK, Request
<1>1. req[r].n < MaxMsgs
  BY DEF AppendMemory, AppendStore, Speaking
<1>2. req'[r].n = req[r].n + 1
  BY <1>0 DEF AppendMemory, AppendStore, Request
<1> QED
  BY <1>0, <1>1, <1>2, ConstantsAssumption DEF NextMessage, Message

LEMMA OneTimeStep == TypeInv /\ PoolInv /\ OneTime /\ [Next]_vars => OneTime'
<1> SUFFICES ASSUME TypeInv, PoolInv, OneTime, [Next]_vars PROVE OneTime'
  OBVIOUS
<1>0. /\ req \in [Requests -> Request]
      /\ \A s \in Sessions : rows[s] \in Seq(Message) /\ held[s] \in Seq(Message)
      /\ \A r \in Requests : req[r].s \in Sessions /\ req[r].hist \in Seq(Message)
                             /\ req[r].n \in 0 .. MaxMsgs
  BY DEF TypeInv, TypeOK, Request
<1>1. /\ \A s \in Sessions : Sound(rows[s], req') /\ Sound(held[s], req')
      /\ \A r \in Requests : Sound(req[r].hist, req')
      /\ Sound(<<>>, req')
  BY <1>0, SoundStays, SoundEmpty DEF OneTime
<1>2. ASSUME NEW r \in Requests, AppendMemory(r) \/ AppendStore(r),
             NEW q \in Seq(Message), Sound(q, req), Sound(q, req')
      PROVE  NextMessage(r) \notin Elems(q) /\ Sound(Append(q, NextMessage(r)), req')
  <2>1. /\ NextMessage(r) \in Message /\ NextMessage(r).turn = r
        /\ NextMessage(r).n = req'[r].n /\ req[r].n < req'[r].n
    BY <1>2, NextIsNew
  <2>2. req[r].n \in Nat /\ req'[r].n \in Nat
    BY CountStep
  <2>3. NextMessage(r) \notin Elems(q)
    BY <1>2, <2>1, <2>2 DEF Sound
  <2>4. NextMessage(r).n <= req'[NextMessage(r).turn].n
    BY <2>1, <2>2
  <2>5. PICK m \in Message : m = NextMessage(r)
    BY <2>1
  <2> QED
    BY <1>2, <2>3, <2>4, <2>5, SoundAppend
<1>3. ASSUME NEW s \in Sessions PROVE Sound(rows'[s], req')
  <2>1. CASE rows'[s] = rows[s] \/ rows'[s] = <<>>
    BY <1>1, <2>1
  <2>2. CASE \E i \in 1 .. Len(rows[s]) : rows'[s] = Without(rows[s], i)
    <3>1. PICK i \in 1 .. Len(rows[s]) : rows'[s] = Without(rows[s], i)
      BY <2>2
    <3>2. Unique(rows'[s]) /\ Elems(rows'[s]) \subseteq Elems(rows[s])
      BY <1>0, <1>1, <3>1, UniqueWithout DEF Sound
    <3> QED
      BY <1>1, <3>2 DEF Sound
  <2>3. ASSUME NEW r \in Requests, PersistMemory(r),
               rows'[s] = Append(rows[s], [turn |-> r, n |-> req[r].n])
        PROVE  Sound(rows'[s], req')
    <3>1. PICK m : m = [turn |-> r, n |-> req[r].n]
      OBVIOUS
    <3>2. req[r].phase = "persist" /\ m \notin Elems(rows[s])
      BY <2>3, <3>1 DEF PersistMemory, OneTime
    <3>3. m \in Message
      BY <1>0, <3>1, <3>2, ConstantsAssumption DEF TypeInv, HasMessage, Message
    <3>4. m.n <= req'[m.turn].n
      BY <3>1, CountStep
    <3> QED
      BY <1>0, <1>1, <2>3, <3>1, <3>2, <3>3, <3>4, SoundAppend
  <2>4. ASSUME NEW r \in Requests, AppendStore(r),
               rows'[s] = Append(rows[s], NextMessage(r))
        PROVE  Sound(rows'[s], req')
    BY <1>0, <1>1, <1>2, <2>4 DEF OneTime
  <2> QED
    BY <2>1, <2>2, <2>3, <2>4, RowsBecome
<1>4. ASSUME NEW s \in Sessions PROVE Sound(held'[s], req')
  <2>1. ASSUME NEW r \in Requests, AppendMemory(r),
               held'[s] = Append(held[s], NextMessage(r))
        PROVE  Sound(held'[s], req')
    BY <1>0, <1>1, <1>2, <2>1 DEF OneTime
  <2> QED
    BY <1>1, <2>1, PoolStep
<1>5. ASSUME NEW r \in Requests PROVE Sound(req'[r].hist, req')
  BY <1>0, <1>1, CountStep
<1>6. ASSUME NEW r \in Requests, req'[r].phase = "persist", NEW s \in Sessions
      PROVE  [turn |-> r, n |-> req'[r].n] \notin Elems(rows'[s])
  <2>1. CASE AppendMemory(r)
    <3>1. rows' = rows
      BY <2>1 DEF AppendMemory, store
    <3>2. req[r].n < req'[r].n /\ req[r].n \in Nat /\ req'[r].n \in Nat
      BY <2>1, NextIsNew, CountStep
    <3>3. PICK m : m = [turn |-> r, n |-> req'[r].n]
      OBVIOUS
    <3>4. m \notin Elems(rows[s])
      BY <3>2, <3>3 DEF OneTime, Sound
    <3> QED
      BY <3>1, <3>3, <3>4
  <2>2. CASE req'[r] = req[r] /\ ~AppendMemory(r)
    <3>1. PICK m : m = [turn |-> r, n |-> req[r].n]
      OBVIOUS
    <3> SUFFICES m \notin Elems(rows'[s])
      BY <2>2, <3>1
    <3>2. m \notin Elems(rows[s])
      BY <1>6, <2>2, <3>1 DEF OneTime
    <3>3. ~PersistMemory(r) /\ ~AppendStore(r)
      <4>1. PersistMemory(r) => req'[r].phase = "between"
        BY <1>0 DEF PersistMemory, Request
      <4>2. AppendStore(r) => req'[r].phase = "between"
        BY <1>0 DEF AppendStore, Request
      <4> QED
        BY <1>6, <4>1, <4>2
    <3>4. CASE rows'[s] = rows[s] \/ rows'[s] = <<>>
      BY <3>2, <3>4, ElemsEmpty
    <3>5. CASE \E i \in 1 .. Len(rows[s]) : rows'[s] = Without(rows[s], i)
      BY <1>0, <3>2, <3>5, ElemsWithout
    <3>6. ASSUME NEW t \in Requests, NEW k \in Message, k.turn = t, t # r,
                 rows'[s] = Append(rows[s], k)
          PROVE  m \notin Elems(rows'[s])
      BY <1>0, <3>1, <3>2, <3>6, ElemsAppend
    <3>7. ASSUME NEW t \in Requests, PersistMemory(t),
                 rows'[s] = Append(rows[s], [turn |-> t, n |-> req[t].n])
          PROVE  m \notin Elems(rows'[s])
      <4>1. [turn |-> t, n |-> req[t].n] \in Message
        BY <1>0, <3>7, ConstantsAssumption
           DEF PersistMemory, TypeInv, HasMessage, Message
      <4> QED
        BY <3>3, <3>6, <3>7, <4>1
    <3>8. ASSUME NEW t \in Requests, AppendStore(t),
                 rows'[s] = Append(rows[s], NextMessage(t))
          PROVE  m \notin Elems(rows'[s])
      BY <3>3, <3>6, <3>8, NextIsNew
    <3> QED
      BY <3>4, <3>5, <3>7, <3>8, RowsBecome
  <2> QED
    BY <1>6, <2>1, <2>2, CountStep
<1> QED
  BY <1>3, <1>4, <1>5, <1>6 DEF OneTime

\* For any number of conversations, requests and places in the pool, and
\* however turns, toggles and restarts interleave: no message is in a
\* transcript twice, on disk or in memory, and the pool keeps its limit and
\* nothing of what it does not list (transcript.go: Seed, evictLocked).
THEOREM PoolStaysSound == Spec => []PoolSound
<1>1. Init => TypeInv /\ PoolInv /\ OneTime
  <2> SUFFICES ASSUME Init PROVE TypeInv /\ PoolInv /\ OneTime
    OBVIOUS
  <2>1. Len(<<>>) = 0 /\ 0 <= MaxHeld
    BY ConstantsAssumption
  <2>2. PoolInv
    BY <2>1, UniqueEmpty DEF Init, PoolInv
  <2>3. OneTime
    BY SoundEmpty DEF Init, OneTime, IdleRequest
  <2> QED
    BY <2>2, <2>3, TypeInit
<1>2. TypeInv /\ [Next]_vars => TypeInv'
  BY TypeStep, HasMessageStep DEF TypeInv
<1>3. TypeInv /\ PoolInv /\ OneTime /\ [Next]_vars => PoolInv' /\ OneTime'
  BY PoolStep, OneTimeStep
<1>4. TypeInv /\ PoolInv /\ OneTime => PoolSound
  BY UniqueCounts
     DEF TypeInv, TypeOK, PoolInv, OneTime, Sound, PoolSound, NoMessageTwice, PoolWithinLimit
<1> QED
  BY <1>1, <1>2, <1>3, <1>4, PTL DEF Spec
-----------------------------------------------------------------------------
(* A conversation keeps its context, for a caller that waits.               *)

\* A conversation not yet created has nothing anywhere.
Fresh(s) ==
    status[s] = "new" =>
        record[s] /\ rows[s] = <<>> /\ held[s] = <<>> /\ said[s] = <<>> /\ ~Has(s)

\* What the next turn would read is what was said, also while a handler runs.
Remembered(s) ==
    status[s] # "gone" /\ ~forgotten[s] /\ ~reseeded[s]
        => Kept(View(s), s) = Kept(said[s], s)

\* A recorded conversation that is in memory has there what it has on disk.
Carried(s) ==
    ~forgotten[s] /\ record[s] /\ Has(s) => Elems(rows[s]) \subseteq Elems(held[s])

\* What a handler relies on until it is done: a turn chose its transcript and
\* the choice still stands; a toggle carries the rows as they are.
Serves(r) ==
    LET s == req[r].s
    IN /\ req[r].phase \in {"append", "persist", "between"} /\ ~forgotten[s]
            => (req[r].dual <=> (~record[s] \/ Has(s)))
       /\ req[r].phase = "persist" /\ ~forgotten[s]
            => [turn |-> r, n |-> req[r].n] \in Elems(held[s]) /\ Has(s)
       /\ req[r].phase = "seed" => ~req[r].want /\ req[r].rec /\ req[r].hist = rows[s]
       /\ req[r].phase = "commit" => ~req[r].want /\ req[r].rec /\ (forgotten[s] \/ Has(s))

Conversation(s) == Fresh(s) /\ Remembered(s) /\ Carried(s)

ContextInv ==
    /\ WaitingInv /\ PoolInv
    /\ \A s \in Sessions : Conversation(s)
    /\ \A r \in Requests : Serves(r)

\* A step leaves conversation s alone, unless the pool drops it.
Spared(s) ==
    /\ status'[s] = status[s] /\ record'[s] = record[s] /\ rows'[s] = rows[s]
    /\ said'[s] = said[s] /\ erased'[s] = erased[s] /\ reseeded'[s] = reseeded[s]
    /\ Has(s)' => Has(s)
    /\ held'[s] = held[s] \/ held'[s] = <<>>
    /\ ~forgotten'[s] => ~forgotten[s] /\ (Has(s) => Has(s)') /\ held'[s] = held[s]

LEMMA ConversationSpared ==
    ASSUME NEW s \in Sessions, Conversation(s), Spared(s)
    PROVE  Conversation(s)'
<1>1. Fresh(s)'
  BY DEF Conversation, Spared, Fresh
<1>2. Remembered(s)'
  <2> SUFFICES ASSUME status'[s] # "gone", ~forgotten'[s], ~reseeded'[s]
               PROVE  Kept(View(s), s)' = Kept(said[s], s)'
    BY DEF Remembered
  <2>1. View(s)' = View(s)
    BY DEF Spared, View
  <2>2. Kept(View(s), s) = Kept(said[s], s)
    BY DEF Spared, Conversation, Remembered
  <2> QED
    BY <2>1, <2>2 DEF Spared, Kept
<1>3. Carried(s)'
  BY DEF Conversation, Spared, Carried
<1> QED
  BY <1>1, <1>2, <1>3 DEF Conversation

LEMMA HandlerSpared ==
    ASSUME NEW r \in Requests, Serves(r), req'[r] = req[r], Spared(req[r].s)
    PROVE  Serves(r)'
<1>1. PICK s : s = req[r].s
  OBVIOUS
<1> QED
  BY <1>1 DEF Serves, Spared

\* A handler that no longer runs relies on nothing.
LEMMA HandlerDone ==
    ASSUME NEW r \in Requests, req[r].phase \in {"idle", "begun", "done"}
    PROVE  Serves(r)
BY DEF Serves

\* What is kept of a transcript grows by what is said.
LEMMA KeptAppend ==
    ASSUME NEW s \in Sessions, NEW q \in Seq(Message), NEW p \in Seq(Message),
           NEW m \in Message, Kept(q, s) = Kept(p, s)
    PROVE  Kept(Append(q, m), s) = Kept(Append(p, m), s)
<1>1. PICK T : T = Message \ erased[s]
  OBVIOUS
<1>2. /\ Select(Append(q, m), T) = IF m \in T THEN Append(Select(q, T), m) ELSE Select(q, T)
      /\ Select(Append(p, m), T) = IF m \in T THEN Append(Select(p, T), m) ELSE Select(p, T)
  BY SelectAppend
<1> QED
  BY <1>1, <1>2 DEF Kept

\* What is installed is held, and what else is held stays or is forgotten.
LEMMA KeepSpares ==
    ASSUME TypeOK, PoolInv, NEW s \in Sessions, NEW h, Keep(s, h)
    PROVE  /\ Has(s)' /\ held'[s] = h /\ forgotten'[s] = forgotten[s]
           /\ \A x \in Sessions \ {s} :
                /\ Has(x)' => Has(x)
                /\ held'[x] = held[x] \/ held'[x] = <<>>
                /\ ~forgotten'[x] => ~forgotten[x] /\ (Has(x) => Has(x)') /\ held'[x] = held[x]
<1> DEFINE q == Touch(lru, s)
<1>1. PICK d \in Evictable(q) :
        LET dropped == { q[i] : i \in 1 .. d }
        IN /\ lru' = SubSeq(q, d + 1, Len(q))
           /\ held' = [x \in Sessions |->
                         IF x \in dropped THEN <<>>
                         ELSE IF x = s THEN h ELSE held[x]]
           /\ forgotten' = [x \in Sessions |-> forgotten[x] \/ x \in dropped]
  BY DEF Keep
<1>2. /\ q \in Seq(Sessions) /\ Unique(q) /\ Elems(q) = Elems(lru) \cup {s}
      /\ Len(q) >= 1 /\ q[Len(q)] = s
  BY TouchUnique DEF TypeOK, PoolInv
<1>3. /\ d \in 0 .. Len(q) - 1 /\ d \in 0 .. Len(q)
      /\ lru' = SubSeq(q, d + 1, Len(q))
  BY <1>1, <1>2, ConstantsAssumption DEF Evictable
<1> HIDE DEF q
<1>4. Elems(lru') = Elems(q) \ { q[i] : i \in 1 .. d }
  BY <1>2, <1>3, UniqueRest
<1>5. s \notin { q[i] : i \in 1 .. d }
  BY <1>2, <1>3 DEF Unique
<1>6. PICK dropped : dropped = { q[i] : i \in 1 .. d }
  OBVIOUS
<1>7. /\ \A x \in Sessions : held'[x] = IF x \in dropped THEN <<>>
                                        ELSE IF x = s THEN h ELSE held[x]
      /\ \A x \in Sessions : forgotten'[x] = (forgotten[x] \/ x \in dropped)
      /\ Elems(lru') = (Elems(lru) \cup {s}) \ dropped /\ s \notin dropped
  BY <1>1, <1>2, <1>4, <1>5, <1>6
<1>8. forgotten \in [Sessions -> BOOLEAN] /\ forgotten[s] \in BOOLEAN
  BY DEF TypeOK
<1> QED
  BY <1>7, <1>8 DEF Has

\* A step of the handler of s, the only one that serves s, spares the others.
LEMMA OwnStep ==
    ASSUME ContextInv, NEW r \in Requests, Running(r), NEW s, s = req[r].s,
           \A t \in Requests \ {r} : req'[t] = req[t],
           \A x \in Sessions \ {s} : Spared(x),
           Conversation(s)', Serves(r)'
    PROVE  (\A x \in Sessions : Conversation(x)') /\ \A t \in Requests : Serves(t)'
<1>1. ASSUME NEW x \in Sessions PROVE Conversation(x)'
  BY ConversationSpared DEF ContextInv
<1>2. ASSUME NEW t \in Requests \ {r}, Running(t) PROVE Serves(t)'
  <2>1. req[t].s # s /\ req[t].s \in Sessions
    BY <1>2 DEF ContextInv, WaitingInv, Alone, TypeInv, TypeOK, Request
  <2> QED
    BY <1>2, <2>1, HandlerSpared DEF ContextInv
<1>3. ASSUME NEW t \in Requests \ {r}, ~Running(t) PROVE Serves(t)'
  <2>1. req'[t].phase \in {"idle", "done"}
    BY <1>3 DEF Running
  <2> QED
    BY <2>1 DEF Serves
<1> QED
  BY <1>1, <1>2, <1>3

\* So does a step on a conversation that nobody serves.
LEMMA IdleStep ==
    ASSUME ContextInv, NEW s \in Sessions, ~Busy(s), req' = req,
           \A x \in Sessions \ {s} : Spared(x), Conversation(s)'
    PROVE  (\A x \in Sessions : Conversation(x)') /\ \A t \in Requests : Serves(t)'
<1>1. ASSUME NEW x \in Sessions PROVE Conversation(x)'
  BY ConversationSpared DEF ContextInv
<1>2. ASSUME NEW t \in Requests, Running(t) PROVE Serves(t)'
  <2>1. req[t].s # s /\ req[t].s \in Sessions
    BY <1>2 DEF Busy, ContextInv, WaitingInv, TypeInv, TypeOK, Request
  <2> QED
    BY <1>2, <2>1, HandlerSpared DEF ContextInv
<1>3. ASSUME NEW t \in Requests, ~Running(t) PROVE Serves(t)'
  <2>1. req'[t].phase \in {"idle", "done"}
    BY <1>3 DEF Running
  <2> QED
    BY <2>1 DEF Serves
<1> QED
  BY <1>1, <1>2, <1>3

\* And a step that spares every conversation.
LEMMA SpareStep ==
    ASSUME ContextInv, \A x \in Sessions : Spared(x),
           NEW r \in Requests, \A t \in Requests \ {r} : req'[t] = req[t], Serves(r)'
    PROVE  (\A x \in Sessions : Conversation(x)') /\ \A t \in Requests : Serves(t)'
<1>1. ASSUME NEW x \in Sessions PROVE Conversation(x)'
  BY ConversationSpared DEF ContextInv
<1>2. ASSUME NEW t \in Requests \ {r} PROVE Serves(t)'
  <2>1. req[t].s \in Sessions
    BY DEF ContextInv, WaitingInv, TypeInv, TypeOK, Request
  <2> QED
    BY <2>1, HandlerSpared DEF ContextInv
<1> QED
  BY <1>1, <1>2

\* What every action is looked at with.
LEMMA ContextTypes ==
    ASSUME ContextInv
    PROVE  /\ TypeOK /\ PoolInv /\ req \in [Requests -> Request]
           /\ status \in [Sessions -> {"new", "open", "gone"}]
           /\ record \in [Sessions -> BOOLEAN] /\ forgotten \in [Sessions -> BOOLEAN]
           /\ reseeded \in [Sessions -> BOOLEAN] /\ erased \in [Sessions -> SUBSET Message]
           /\ rows \in [Sessions -> Seq(Message)] /\ held \in [Sessions -> Seq(Message)]
           /\ said \in [Sessions -> Seq(Message)]
           /\ \A r \in Requests : req[r].s \in Sessions
BY DEF ContextInv, WaitingInv, TypeInv, TypeOK, Request

\* A handler looks its conversation up, or turns to the store or to memory, or
\* ends: nothing is kept or lost.
LEMMA QuietContext ==
    ASSUME ContextInv, NEW r \in Requests, UNCHANGED <<store, pool, ghost>>,
           \A t \in Requests \ {r} : req'[t] = req[t], Serves(r)'
    PROVE  (\A x \in Sessions : Conversation(x)') /\ \A t \in Requests : Serves(t)'
<1>1. \A x \in Sessions : Spared(x)
  BY DEF Spared, Has, store, pool, ghost
<1> QED
  BY <1>1, SpareStep

LEMMA BeginContext ==
    ASSUME ContextInv, NEW r \in Requests, NEW s \in Sessions, NEW kind, NEW want,
           Begin(r, s, kind, want)
    PROVE  (\A x \in Sessions : Conversation(x)') /\ \A t \in Requests : Serves(t)'
<1>0. req \in [Requests -> Request] /\ req[r] \in Request
  BY ContextTypes
<1>1. req' = [req EXCEPT ![r] = [@ EXCEPT !.phase = "begun", !.kind = kind, !.s = s,
                                          !.rec = record[s], !.want = want]]
  BY DEF Begin
<1>2. req'[r].phase = "begun" /\ \A t \in Requests \ {r} : req'[t] = req[t]
  BY <1>0, <1>1 DEF Request
<1>3. Serves(r)'
  BY <1>2 DEF Serves
<1> QED
  BY <1>2, <1>3, QuietContext DEF Begin

LEMMA PickContext ==
    ASSUME ContextInv, NEW r \in Requests, PickTranscript(r)
    PROVE  (\A x \in Sessions : Conversation(x)') /\ \A t \in Requests : Serves(t)'
<1>0. req \in [Requests -> Request] /\ req[r] \in Request
  BY ContextTypes
<1>1. /\ req'[r].phase = "append" /\ req'[r].s = req[r].s
      /\ req'[r].dual = (~req[r].rec \/ Has(req[r].s))
      /\ \A t \in Requests \ {r} : req'[t] = req[t]
  BY <1>0 DEF PickTranscript, Request
<1>2. req[r].rec = record[req[r].s]
  BY DEF PickTranscript, Running, ContextInv, WaitingInv, Current
<1>3. record' = record /\ lru' = lru
  BY DEF PickTranscript, store, pool
<1>4. Serves(r)'
  BY <1>1, <1>2, <1>3 DEF Serves, Has
<1> QED
  BY <1>1, <1>4, QuietContext DEF PickTranscript

LEMMA EndContext ==
    ASSUME ContextInv, NEW r \in Requests, EndTurn(r) \/ Abort(r)
    PROVE  (\A x \in Sessions : Conversation(x)') /\ \A t \in Requests : Serves(t)'
<1>0. req \in [Requests -> Request] /\ req[r] \in Request
  BY ContextTypes
<1>1. req'[r].phase = "done" /\ \A t \in Requests \ {r} : req'[t] = req[t]
  BY <1>0 DEF EndTurn, Abort, Request
<1>2. Serves(r)'
  BY <1>1 DEF Serves
<1> QED
  BY <1>1, <1>2, QuietContext DEF EndTurn, Abort

LEMMA ReadRowsContext ==
    ASSUME ContextInv, NEW r \in Requests, ReadRows(r)
    PROVE  (\A x \in Sessions : Conversation(x)') /\ \A t \in Requests : Serves(t)'
<1>0. req \in [Requests -> Request] /\ req[r] \in Request
  BY ContextTypes
<1>1. /\ req'[r].phase = "seed" /\ req'[r].s = req[r].s
      /\ ~req'[r].want /\ req'[r].rec /\ req'[r].hist = rows[req[r].s]
      /\ \A t \in Requests \ {r} : req'[t] = req[t]
  BY <1>0 DEF ReadRows, Request
<1>2. rows' = rows
  BY DEF ReadRows, store
<1>3. Serves(r)'
  BY <1>1, <1>2 DEF Serves
<1> QED
  BY <1>1, <1>3, QuietContext DEF ReadRows

\* The history is read: the entry in the pool is fresher, that is all.
LEMMA RefreshSpares ==
    ASSUME ContextInv, NEW s \in Sessions, UNCHANGED <<store, held, ghost>>,
           lru' = lru \/ (Has(s) /\ lru' = Touch(lru, s))
    PROVE  (\A x \in Sessions : Spared(x)) /\ \A x \in Sessions : Has(x)' = Has(x)
<1>1. Elems(lru') = Elems(lru)
  <2>1. PICK p : p = Touch(lru, s)
    OBVIOUS
  <2>2. Elems(p) = Elems(lru) \cup {s}
    BY <2>1, TouchUnique, ContextTypes DEF TypeOK, PoolInv
  <2> QED
    BY <2>1, <2>2 DEF Has
<1> QED
  BY <1>1 DEF Spared, Has, store, ghost

LEMMA ReadContext ==
    ASSUME ContextInv, NEW r \in Requests, ReadHistory(r)
    PROVE  (\A x \in Sessions : Conversation(x)') /\ \A t \in Requests : Serves(t)'
<1>0. req \in [Requests -> Request] /\ req[r] \in Request /\ req[r].s \in Sessions
  BY ContextTypes
<1>1. PICK s \in Sessions : s = req[r].s
  BY <1>0
<1>2. (\A x \in Sessions : Spared(x)) /\ Has(s)' = Has(s) /\ record' = record
      /\ forgotten' = forgotten
  BY <1>1, RefreshSpares DEF ReadHistory, store, ghost
<1>3. /\ req[r].phase = "between" /\ req'[r].phase = "append" /\ req'[r].s = s
      /\ req'[r].dual = req[r].dual /\ \A t \in Requests \ {r} : req'[t] = req[t]
  BY <1>0, <1>1 DEF ReadHistory, Request
<1>4. Serves(r) /\ Serves(r)'
  BY <1>1, <1>2, <1>3 DEF Serves, ContextInv
<1> QED
  BY <1>2, <1>3, <1>4, SpareStep

\* A turn says something, in memory.
LEMMA AppendMemoryContext ==
    ASSUME ContextInv, NEW r \in Requests, AppendMemory(r)
    PROVE  (\A x \in Sessions : Conversation(x)') /\ \A t \in Requests : Serves(t)'
<1>0. req \in [Requests -> Request] /\ req[r] \in Request /\ TypeOK /\ PoolInv
  BY ContextTypes
<1>1. PICK s \in Sessions : s = req[r].s
  BY ContextTypes
<1>2. PICK m \in Message : m = NextMessage(r) /\ m = [turn |-> r, n |-> req[r].n + 1]
  BY NextIsNew DEF ContextInv, WaitingInv, NextMessage
<1>3. /\ Keep(s, Append(held[s], m)) /\ req[r].dual /\ req[r].phase \in {"append", "between"}
      /\ said' = [said EXCEPT ![s] = Append(@, m)]
      /\ UNCHANGED <<store, erased, reseeded>>
  BY <1>1, <1>2 DEF AppendMemory, Speaking
<1>4. /\ req'[r].phase \in {"persist", "between"} /\ req'[r].s = s /\ req'[r].dual
      /\ req'[r].n = req[r].n + 1
      /\ \A t \in Requests \ {r} : req'[t] = req[t]
  BY <1>0, <1>1, <1>3 DEF AppendMemory, Request
<1>5. /\ Has(s)' /\ held'[s] = Append(held[s], m) /\ forgotten'[s] = forgotten[s]
      /\ \A x \in Sessions \ {s} :
            /\ Has(x)' => Has(x)
            /\ held'[x] = held[x] \/ held'[x] = <<>>
            /\ ~forgotten'[x] => ~forgotten[x] /\ (Has(x) => Has(x)') /\ held'[x] = held[x]
  BY <1>0, <1>3, KeepSpares
<1>6. \A x \in Sessions \ {s} : Spared(x)
  BY <1>0, <1>3, <1>5 DEF Spared, TypeOK, store
<1>7. held[s] \in Seq(Message) /\ said[s] \in Seq(Message) /\ said'[s] = Append(said[s], m)
      /\ Elems(held'[s]) = Elems(held[s]) \cup {m}
  <2>1. held[s] \in Seq(Message) /\ said[s] \in Seq(Message) /\ said'[s] = Append(said[s], m)
    BY <1>0, <1>3 DEF TypeOK
  <2> QED
    BY <1>5, <2>1, ElemsAppend
<1>8. ~forgotten[s] => ~record[s] \/ Has(s)
  BY <1>1, <1>3 DEF ContextInv, Serves
<1>9. Running(r) /\ status[s] = "open"
  BY <1>1, <1>3 DEF Running, ContextInv, WaitingInv, Current
<1>10. Serves(r)'
  BY <1>2, <1>4, <1>5, <1>7 DEF Serves
<1>11. Conversation(s)'
  <2>1. status'[s] = "open" /\ record'[s] = record[s] /\ rows'[s] = rows[s]
        /\ reseeded' = reseeded /\ erased' = erased
    BY <1>3, <1>9 DEF store
  <2>2. Fresh(s)'
    BY <2>1 DEF Fresh
  <2>3. Remembered(s)'
    <3> SUFFICES ASSUME ~forgotten[s], ~reseeded[s] PROVE Kept(View(s), s)' = Kept(said[s], s)'
      BY <1>5, <2>1 DEF Remembered
    <3>1. View(s) = held[s] /\ View(s)' = Append(held[s], m)
      BY <1>5, <1>8, <2>1 DEF View
    <3>2. Kept(held[s], s) = Kept(said[s], s)
      BY <1>9, <3>1 DEF ContextInv, Conversation, Remembered
    <3>3. Kept(Append(held[s], m), s) = Kept(Append(said[s], m), s)
      BY <1>7, <3>2, KeptAppend
    <3> QED
      BY <1>7, <2>1, <3>1, <3>3 DEF Kept
  <2>4. Carried(s)'
    <3> SUFFICES ASSUME ~forgotten[s], record[s] PROVE Elems(rows'[s]) \subseteq Elems(held'[s])
      BY <1>5, <2>1 DEF Carried
    <3> QED
      BY <1>7, <1>8, <2>1 DEF ContextInv, Conversation, Carried
  <2> QED
    BY <2>2, <2>3, <2>4 DEF Conversation
<1> QED
  BY <1>1, <1>4, <1>6, <1>9, <1>10, <1>11, OwnStep

\* A message already in memory reaches the disk.
LEMMA PersistContext ==
    ASSUME ContextInv, NEW r \in Requests, PersistMemory(r)
    PROVE  (\A x \in Sessions : Conversation(x)') /\ \A t \in Requests : Serves(t)'
<1>0. req \in [Requests -> Request] /\ req[r] \in Request /\ TypeOK
  BY ContextTypes
<1>1. PICK s \in Sessions : s = req[r].s
  BY ContextTypes
<1>2. PICK m : m = [turn |-> r, n |-> req[r].n]
  OBVIOUS
<1>3. m \in Message
  <2>1. req[r].n \in 1 .. MaxMsgs
    BY <1>0, ConstantsAssumption
       DEF PersistMemory, Request, ContextInv, WaitingInv, TypeInv, HasMessage
  <2> QED
    BY <1>2, <2>1 DEF Message
<1>4. /\ req[r].phase = "persist" /\ status[s] = "open"
      /\ rows' = [rows EXCEPT ![s] = Append(@, m)]
      /\ UNCHANGED <<status, record, pool, ghost>>
  BY <1>1, <1>2 DEF PersistMemory
<1>5. /\ req'[r].phase = "between" /\ req'[r].s = s /\ req'[r].dual = req[r].dual
      /\ \A t \in Requests \ {r} : req'[t] = req[t]
  BY <1>0, <1>1 DEF PersistMemory, Request
<1>6. /\ rows[s] \in Seq(Message) /\ rows'[s] = Append(rows[s], m)
      /\ \A x \in Sessions \ {s} : rows'[x] = rows[x]
      /\ UNCHANGED <<status, record, held, lru, said, erased, forgotten, reseeded>>
  BY <1>0, <1>4 DEF TypeOK, pool, ghost
<1>7. Elems(rows'[s]) = Elems(rows[s]) \cup {m}
  BY <1>3, <1>6, ElemsAppend
<1>8. \A x \in Sessions \ {s} : Spared(x)
  BY <1>6 DEF Spared, Has
<1>9. Serves(r) /\ Conversation(s)
  BY DEF ContextInv
<1>10. Serves(r)'
  BY <1>1, <1>4, <1>5, <1>6, <1>9 DEF Serves, Has
<1>11. ~forgotten[s] => Has(s) /\ m \in Elems(held[s])
  BY <1>1, <1>2, <1>4, <1>9 DEF Serves
<1>12. Conversation(s)'
  <2>1. Fresh(s)'
    BY <1>4, <1>6 DEF Fresh
  <2>2. Remembered(s)'
    <3>1. ~forgotten[s] => View(s)' = View(s)
      BY <1>6, <1>11 DEF View, Has
    <3> QED
      BY <1>6, <1>9, <3>1 DEF Remembered, Conversation, Kept
  <2>3. Carried(s)'
    BY <1>6, <1>7, <1>9, <1>11 DEF Carried, Conversation, Has
  <2> QED
    BY <2>1, <2>2, <2>3 DEF Conversation
<1>13. Running(r)
  BY <1>4 DEF Running
<1> QED
  BY <1>1, <1>5, <1>8, <1>10, <1>12, <1>13, OwnStep

\* A turn says something, straight to the disk: memory does not hold its
\* conversation.
LEMMA AppendStoreContext ==
    ASSUME ContextInv, NEW r \in Requests, AppendStore(r)
    PROVE  (\A x \in Sessions : Conversation(x)') /\ \A t \in Requests : Serves(t)'
<1>0. req \in [Requests -> Request] /\ req[r] \in Request /\ TypeOK
  BY ContextTypes
<1>1. PICK s \in Sessions : s = req[r].s
  BY ContextTypes
<1>2. PICK m \in Message : m = NextMessage(r)
  BY NextIsNew DEF ContextInv, WaitingInv
<1>3. /\ req[r].phase \in {"append", "between"} /\ ~req[r].dual /\ status[s] = "open"
      /\ rows' = [rows EXCEPT ![s] = Append(@, m)]
      /\ said' = [said EXCEPT ![s] = Append(@, m)]
      /\ UNCHANGED <<status, record, pool, erased, forgotten, reseeded>>
  BY <1>1, <1>2 DEF AppendStore, Speaking
<1>4. /\ req'[r].phase = "between" /\ req'[r].s = s /\ req'[r].dual = req[r].dual
      /\ \A t \in Requests \ {r} : req'[t] = req[t]
  BY <1>0, <1>1 DEF AppendStore, Request
<1>5. /\ rows[s] \in Seq(Message) /\ rows'[s] = Append(rows[s], m)
      /\ said[s] \in Seq(Message) /\ said'[s] = Append(said[s], m)
      /\ \A x \in Sessions \ {s} : rows'[x] = rows[x] /\ said'[x] = said[x]
      /\ UNCHANGED <<status, record, held, lru, erased, forgotten, reseeded>>
  BY <1>0, <1>3 DEF TypeOK, pool
<1>6. \A x \in Sessions \ {s} : Spared(x)
  BY <1>5 DEF Spared, Has
<1>7. Serves(r) /\ Conversation(s)
  BY DEF ContextInv
<1>8. Serves(r)'
  BY <1>1, <1>3, <1>4, <1>5, <1>7 DEF Serves, Has
<1>9. ~forgotten[s] => record[s] /\ ~Has(s)
  BY <1>1, <1>3, <1>7 DEF Serves
<1>10. Conversation(s)'
  <2>1. Fresh(s)'
    BY <1>3, <1>5 DEF Fresh
  <2>2. Remembered(s)'
    <3> SUFFICES ASSUME ~forgotten[s], ~reseeded[s] PROVE Kept(View(s), s)' = Kept(said[s], s)'
      BY <1>5 DEF Remembered
    <3>1. View(s) = rows[s] /\ View(s)' = Append(rows[s], m)
      BY <1>5, <1>9 DEF View, Has
    <3>2. Kept(rows[s], s) = Kept(said[s], s)
      BY <1>3, <1>7, <3>1 DEF Conversation, Remembered
    <3>3. Kept(Append(rows[s], m), s) = Kept(Append(said[s], m), s)
      BY <1>5, <3>2, KeptAppend
    <3> QED
      BY <1>5, <3>1, <3>3 DEF Kept
  <2>3. Carried(s)'
    BY <1>5, <1>9 DEF Carried, Has
  <2> QED
    BY <2>1, <2>2, <2>3 DEF Conversation
<1>11. Running(r)
  BY <1>3 DEF Running
<1> QED
  BY <1>1, <1>4, <1>6, <1>8, <1>10, <1>11, OwnStep

\* Going off the record: the rows are carried into memory.
LEMMA SeedContext ==
    ASSUME ContextInv, NEW r \in Requests, SeedPool(r)
    PROVE  (\A x \in Sessions : Conversation(x)') /\ \A t \in Requests : Serves(t)'
<1>0. req \in [Requests -> Request] /\ req[r] \in Request /\ TypeOK /\ PoolInv
  BY ContextTypes
<1>1. PICK s \in Sessions : s = req[r].s
  BY ContextTypes
<1>2. /\ req[r].phase = "seed" /\ Keep(s, req[r].hist)
      /\ reseeded' = [reseeded EXCEPT ![s] = @ \/ Has(s)]
      /\ req' = [req EXCEPT ![r] = [@ EXCEPT !.phase = "commit", !.hist = <<>>]]
      /\ UNCHANGED <<store, said, erased>>
  BY <1>1 DEF SeedPool
<1>3. Serves(r) /\ Conversation(s)
  BY DEF ContextInv
<1>4. Running(r) /\ status[s] = "open" /\ record[s] = req[r].rec
  BY <1>1, <1>2 DEF Running, ContextInv, WaitingInv, Current
<1>5. ~req[r].want /\ req[r].rec /\ record[s] /\ req[r].hist = rows[s]
  BY <1>1, <1>2, <1>3, <1>4 DEF Serves
<1>6. /\ req'[r].phase = "commit" /\ req'[r].s = s
      /\ req'[r].want = req[r].want /\ req'[r].rec = req[r].rec
      /\ \A t \in Requests \ {r} : req'[t] = req[t]
  BY <1>0, <1>1, <1>2 DEF Request
<1>7. /\ Has(s)' /\ held'[s] = rows[s] /\ forgotten'[s] = forgotten[s]
      /\ \A x \in Sessions \ {s} :
            /\ Has(x)' => Has(x)
            /\ held'[x] = held[x] \/ held'[x] = <<>>
            /\ ~forgotten'[x] => ~forgotten[x] /\ (Has(x) => Has(x)') /\ held'[x] = held[x]
  BY <1>0, <1>2, <1>5, KeepSpares
<1>8. /\ UNCHANGED <<status, record, rows, said, erased>>
      /\ reseeded'[s] = (reseeded[s] \/ Has(s))
      /\ \A x \in Sessions \ {s} : reseeded'[x] = reseeded[x]
  BY <1>0, <1>2 DEF TypeOK, store
<1>9. \A x \in Sessions \ {s} : Spared(x)
  BY <1>7, <1>8 DEF Spared
<1>10. Serves(r)'
  BY <1>5, <1>6, <1>7 DEF Serves
<1>11. Conversation(s)'
  <2>1. Fresh(s)'
    BY <1>4, <1>8 DEF Fresh
  <2>2. Remembered(s)'
    <3> SUFFICES ASSUME ~forgotten[s], ~reseeded[s], ~Has(s)
                 PROVE  Kept(View(s), s)' = Kept(said[s], s)'
      BY <1>7, <1>8 DEF Remembered
    <3>1. View(s) = rows[s] /\ View(s)' = rows[s]
      BY <1>5, <1>7, <1>8 DEF View
    <3> QED
      BY <1>3, <1>4, <1>8, <3>1 DEF Conversation, Remembered, Kept
  <2>3. Carried(s)'
    BY <1>7, <1>8 DEF Carried
  <2> QED
    BY <2>1, <2>2, <2>3 DEF Conversation
<1> QED
  BY <1>1, <1>4, <1>6, <1>9, <1>10, <1>11, OwnStep

\* The switch is flipped.
LEMMA CommitContext ==
    ASSUME ContextInv, NEW r \in Requests, CommitToggle(r)
    PROVE  (\A x \in Sessions : Conversation(x)') /\ \A t \in Requests : Serves(t)'
<1>0. req \in [Requests -> Request] /\ req[r] \in Request /\ TypeOK /\ PoolInv
  BY ContextTypes
<1>1. PICK s \in Sessions : s = req[r].s
  BY ContextTypes
<1>2. Serves(r) /\ Conversation(s)
  BY DEF ContextInv
<1>3. Running(r) /\ status[s] = "open" /\ record[s] = req[r].rec
  BY <1>1, ActorsRun DEF ContextInv, WaitingInv, Current
<1>4. /\ req[r].phase = "commit" \/ (req[r].phase = "begun" /\ (req[r].want \/ ~req[r].rec))
      /\ record' = [record EXCEPT ![s] = req[r].want]
      /\ rows' = IF req[r].want THEN rows ELSE [rows EXCEPT ![s] = <<>>]
      /\ UNCHANGED <<status, pool, ghost>>
  BY <1>1, <1>3 DEF CommitToggle
<1>5. /\ req'[r].phase = "done" /\ \A t \in Requests \ {r} : req'[t] = req[t]
  BY <1>0 DEF CommitToggle, Request
<1>6. /\ record'[s] = req[r].want /\ rows'[s] = IF req[r].want THEN rows[s] ELSE <<>>
      /\ \A x \in Sessions \ {s} : record'[x] = record[x] /\ rows'[x] = rows[x]
      /\ UNCHANGED <<status, held, lru, said, erased, forgotten, reseeded>>
  BY <1>0, <1>4 DEF TypeOK, pool, ghost
<1>7. \A x \in Sessions \ {s} : Spared(x)
  BY <1>6 DEF Spared, Has
<1>8. Serves(r)'
  BY <1>5 DEF Serves
<1>9. Conversation(s)'
  <2>1. Fresh(s)'
    BY <1>3, <1>6 DEF Fresh
  <2>2. ~forgotten[s] => View(s)' = View(s)
    <3>1. ~record[s] => rows[s] = <<>>
      BY DEF ContextInv, WaitingInv, OffRecordLeavesNothing
    <3>2. ~Has(s) => held[s] = <<>>
      BY DEF ContextInv, PoolInv
    <3>3. ~forgotten[s] /\ req[r].phase = "commit" => ~req[r].want /\ Has(s)
      BY <1>1, <1>2 DEF Serves
    <3> QED
      BY <1>3, <1>4, <1>6, <3>1, <3>2, <3>3 DEF View, Has
  <2>3. Remembered(s)'
    BY <1>2, <1>6, <2>2 DEF Remembered, Conversation, Kept
  <2>4. Carried(s)'
    <3> SUFFICES ASSUME ~forgotten[s], req[r].want, Has(s)
                 PROVE  Elems(rows[s]) \subseteq Elems(held[s])
      BY <1>6 DEF Carried, Has
    <3>1. ~record[s] => Elems(rows[s]) = {}
      BY ElemsEmpty DEF ContextInv, WaitingInv, OffRecordLeavesNothing
    <3> QED
      BY <1>2, <3>1 DEF Carried, Conversation
  <2> QED
    BY <2>1, <2>3, <2>4 DEF Conversation
<1> QED
  BY <1>1, <1>3, <1>5, <1>7, <1>8, <1>9, OwnStep

\* A new conversation has said nothing.
LEMMA CreateContext ==
    ASSUME ContextInv, NEW s \in Sessions, CreateSession(s)
    PROVE  (\A x \in Sessions : Conversation(x)') /\ \A t \in Requests : Serves(t)'
<1>0. TypeOK
  BY ContextTypes
<1>1. /\ status[s] = "new" /\ status'[s] = "open" /\ record'[s]
      /\ \A x \in Sessions \ {s} : record'[x] = record[x] /\ status'[x] = status[x]
      /\ UNCHANGED <<rows, held, lru, req, said, erased, forgotten, reseeded>>
  BY <1>0 DEF CreateSession, TypeOK, pool, ghost
<1>2. ~Busy(s)
  BY <1>1 DEF Busy, ContextInv, WaitingInv, Current
<1>3. \A x \in Sessions \ {s} : Spared(x)
  BY <1>1 DEF Spared, Has
<1>4. Conversation(s) /\ record[s] /\ rows[s] = <<>> /\ held[s] = <<>> /\ said[s] = <<>> /\ ~Has(s)
  BY <1>1 DEF ContextInv, Conversation, Fresh
<1>5. Fresh(s)' /\ Carried(s)'
  BY <1>1, <1>4 DEF Fresh, Carried, Has
<1>6. Remembered(s)'
  BY <1>1, <1>4 DEF Remembered, View, Has, Kept
<1>7. Conversation(s)'
  BY <1>5, <1>6 DEF Conversation
<1> QED
  BY <1>1, <1>2, <1>3, <1>7, IdleStep

\* What is erased is missed by nobody.
LEMMA EraseContext ==
    ASSUME ContextInv, ~Overlap, NEW s \in Sessions, DeleteMessage(s)
    PROVE  (\A x \in Sessions : Conversation(x)') /\ \A t \in Requests : Serves(t)'
<1>0. TypeOK
  BY ContextTypes
<1>1. PICK i \in 1 .. Len(rows[s]) :
        /\ erased' = [erased EXCEPT ![s] = @ \cup {rows[s][i]}]
        /\ rows' = [rows EXCEPT ![s] = Without(@, i)]
  BY DEF DeleteMessage
<1>2. PICK q \in Seq(Message) : q = rows[s]
  BY <1>0 DEF TypeOK
<1>3. PICK m \in Message : m = q[i]
  BY <1>1, <1>2
<1>4. /\ status[s] = "open" /\ ~Busy(s)
      /\ UNCHANGED <<status, record, held, lru, req, said, forgotten, reseeded>>
  BY DEF DeleteMessage, MayCall, pool
<1>5. /\ erased'[s] = erased[s] \cup {m} /\ rows'[s] = Without(q, i)
      /\ \A x \in Sessions \ {s} : erased'[x] = erased[x] /\ rows'[x] = rows[x]
  BY <1>0, <1>1, <1>2, <1>3 DEF TypeOK
<1>6. \A x \in Sessions \ {s} : Spared(x)
  BY <1>4, <1>5 DEF Spared, Has
<1>7. Conversation(s)
  BY DEF ContextInv
<1> DEFINE T == Message \ erased[s]
           U == Message \ {m}
<1>8. ASSUME NEW p \in Seq(Message) PROVE Kept(p, s)' = Select(Select(p, T), U)
  <2>1. Message \ erased'[s] = T \cap U
    BY <1>5
  <2> HIDE DEF T, U
  <2>2. Select(Select(p, T), U) = Select(p, T \cap U)
    BY SelectTwice
  <2> QED
    BY <2>1, <2>2 DEF Kept
<1>9. Select(Without(q, i), T \cap U) = Select(q, T \cap U)
  <2>1. m \notin T \cap U
    OBVIOUS
  <2>2. q \in Seq(Message) /\ i \in 1 .. Len(q) /\ q[i] \notin T \cap U
    BY <1>1, <1>2, <1>3, <2>1
  <2>3. Without(q, i) = SubSeq(q, 1, i - 1) \o SubSeq(q, i + 1, Len(q))
    BY DEF Without
  <2> HIDE DEF T, U
  <2> QED
    BY <2>2, <2>3, SelectLess
<1>10. Without(q, i) \in Seq(Message) /\ Elems(Without(q, i)) \subseteq Elems(q)
  BY <1>1, <1>2, WithoutType, ElemsWithout
<1>11. Conversation(s)'
  <2>1. Fresh(s)'
    BY <1>4 DEF Fresh
  <2>2. Carried(s)'
    BY <1>2, <1>4, <1>5, <1>7, <1>10 DEF Carried, Conversation, Has
  <2>3. Remembered(s)'
    <3> SUFFICES ASSUME ~forgotten[s], ~reseeded[s] PROVE Kept(View(s), s)' = Kept(said[s], s)'
      BY <1>4 DEF Remembered
    <3>1. Kept(View(s), s) = Kept(said[s], s)
      BY <1>4, <1>7 DEF Conversation, Remembered
    <3>2. PICK p \in Seq(Message), h \in Seq(Message), v \in Seq(Message) :
            p = said[s] /\ h = held[s] /\ v = View(s)
      BY <1>0 DEF TypeOK, View
    <3>3. Select(v, T) = Select(p, T)
      BY <3>1, <3>2 DEF Kept
    <3> HIDE DEF T, U
    <3>4. Kept(p, s)' = Select(Select(p, T), U) /\ Kept(v, s)' = Select(Select(v, T), U)
      BY <1>8
    <3>5. View(s)' = v \/ (v = q /\ View(s)' = Without(q, i))
      BY <1>2, <1>4, <1>5, <3>2 DEF View, Has
    <3>6. Kept(Without(q, i), s)' = Kept(q, s)'
      <4>1. Message \ erased'[s] = T \cap U
        BY <1>5 DEF T, U
      <4> QED
        BY <1>9, <4>1 DEF Kept
    <3>7. said'[s] = p
      BY <1>4, <3>2
    <3> QED
      BY <3>3, <3>4, <3>5, <3>6, <3>7 DEF Kept
  <2> QED
    BY <2>1, <2>2, <2>3 DEF Conversation
<1> QED
  BY <1>4, <1>6, <1>11, IdleStep

\* A conversation that is deleted promises nothing more.
LEMMA DiscardContext ==
    ASSUME ContextInv, ~Overlap, NEW s \in Sessions, DeleteSession(s)
    PROVE  (\A x \in Sessions : Conversation(x)') /\ \A t \in Requests : Serves(t)'
<1>0. TypeOK
  BY ContextTypes
<1>1. /\ status'[s] = "gone" /\ rows'[s] = <<>> /\ ~Busy(s)
      /\ \A x \in Sessions \ {s} : status'[x] = status[x] /\ rows'[x] = rows[x]
      /\ UNCHANGED <<record, held, lru, req, said, erased, forgotten, reseeded>>
  BY <1>0 DEF DeleteSession, TypeOK, MayCall, pool, ghost
<1>2. \A x \in Sessions \ {s} : Spared(x)
  BY <1>1 DEF Spared, Has
<1>3. Conversation(s)'
  BY <1>1, ElemsEmpty DEF Conversation, Fresh, Remembered, Carried
<1> QED
  BY <1>1, <1>2, <1>3, IdleStep

\* A restart forgets what it drops and ends every handler.
LEMMA RestartContext ==
    ASSUME ContextInv, Restart
    PROVE  (\A x \in Sessions : Conversation(x)') /\ \A t \in Requests : Serves(t)'
<1>0. req \in [Requests -> Request] /\ forgotten \in [Sessions -> BOOLEAN]
  BY ContextTypes
<1>a. /\ lru' = <<>> /\ held' = [s \in Sessions |-> <<>>]
      /\ forgotten' = [s \in Sessions |-> forgotten[s] \/ Has(s)]
      /\ UNCHANGED <<status, record, rows, said, erased, reseeded>>
  BY DEF Restart, store
<1>b. req' = [r \in Requests |->
                IF Running(r) THEN [req[r] EXCEPT !.phase = "done", !.hist = <<>>] ELSE req[r]]
  BY DEF Restart
<1>1. ASSUME NEW x \in Sessions PROVE Spared(x)
  <2>1. ~Has(x)'
    BY <1>a, ElemsEmpty DEF Has
  <2>2. ~Has(x) => held[x] = <<>>
    BY DEF ContextInv, PoolInv
  <2> QED
    BY <1>0, <1>a, <2>1, <2>2 DEF Spared
<1>2. ASSUME NEW t \in Requests PROVE Serves(t)'
  <2>1. /\ Running(t) => req'[t] = [req[t] EXCEPT !.phase = "done", !.hist = <<>>]
        /\ ~Running(t) => req'[t] = req[t]
    BY <1>b, Zenon
  <2>2. req'[t].phase \in {"idle", "done"}
    BY <1>0, <2>1 DEF Running, Request
  <2> QED
    BY <2>2 DEF Serves
<1> QED
  BY <1>1, <1>2, ConversationSpared DEF ContextInv

\* The conjuncts are inductive together.
LEMMA ContextStep ==
    ASSUME ~Overlap, ContextInv, [Next]_vars
    PROVE  ContextInv'
<1> DEFINE Goal == (\A x \in Sessions : Conversation(x)') /\ \A t \in Requests : Serves(t)'
<1>1. WaitingInv' /\ PoolInv'
  BY WaitingInductive, PoolStep DEF ContextInv, WaitingInv
<1>2. ASSUME NEW r \in Requests, Turn(r) PROVE Goal
  <2>1. ASSUME NEW s \in Sessions, BeginTurn(r, s) PROVE Goal
    BY <2>1, BeginContext DEF BeginTurn
  <2> QED
    BY <1>2, <2>1, PickContext, AppendMemoryContext, PersistContext, AppendStoreContext,
       ReadContext, EndContext DEF Turn
<1>3. ASSUME NEW r \in Requests, Toggle(r) PROVE Goal
  <2>1. ASSUME NEW s \in Sessions, BeginToggle(r, s) PROVE Goal
    BY <2>1, BeginContext DEF BeginToggle
  <2> QED
    BY <1>3, <2>1, ReadRowsContext, SeedContext, CommitContext DEF Toggle
<1>4. ASSUME NEW r \in Requests, Abort(r) PROVE Goal
  BY <1>4, EndContext
<1>5. ASSUME NEW s \in Sessions, ShowMessages(s) PROVE Goal
  <2>1. (\A x \in Sessions : Spared(x)) /\ req' = req
    BY <1>5, RefreshSpares DEF ShowMessages
  <2>2. \A r \in Requests : Serves(r)'
    BY <2>1, HandlerSpared, ContextTypes DEF ContextInv
  <2> QED
    BY <2>1, <2>2, ConversationSpared DEF ContextInv
<1>6. ASSUME UNCHANGED vars PROVE Goal
  <2>1. (\A x \in Sessions : Spared(x)) /\ req' = req
    BY <1>6 DEF vars, Spared, Has
  <2>2. \A r \in Requests : Serves(r)'
    BY <2>1, HandlerSpared, ContextTypes DEF ContextInv
  <2> QED
    BY <2>1, <2>2, ConversationSpared DEF ContextInv
<1> HIDE DEF Goal
<1>7. ASSUME NEW s \in Sessions,
             CreateSession(s) \/ DeleteMessage(s) \/ DeleteSession(s)
      PROVE  Goal
  BY <1>7, CreateContext, EraseContext, DiscardContext DEF Goal
<1>8. Restart => Goal
  BY RestartContext DEF Goal
<1>9. (\E r \in Requests : Turn(r) \/ Toggle(r) \/ Abort(r)) => Goal
  BY <1>2, <1>3, <1>4
<1>10. (\E s \in Sessions : \/ CreateSession(s) \/ ShowMessages(s)
                              \/ DeleteMessage(s) \/ DeleteSession(s)) => Goal
  BY <1>5, <1>7
<1>11. Goal
  BY <1>6, <1>8, <1>9, <1>10 DEF Next
<1> QED
  BY <1>1, <1>11 DEF ContextInv, Goal

\* For any number of conversations, requests and places in the pool: with a
\* caller that waits for its answers, between requests the next turn is given
\* everything that was said and not erased, in order, through every toggle,
\* also one that failed halfway, until the pool drops the transcript or Seed
\* replaces one it held; and the browser shows nothing that the model is not
\* given (transcript.go: transcriptFor, Append, Seed; server.go:
\* handleSetSessionMemory).
THEOREM WaitingKeepsContext ==
    ASSUME ~Overlap
    PROVE  Spec => []ContextKept
<1>1. Init => ContextInv
  <2> SUFFICES ASSUME Init PROVE ContextInv
    OBVIOUS
  <2>1. WaitingInv
    BY WaitingInductive
  <2>2. Len(<<>>) = 0 /\ 0 <= MaxHeld
    BY ConstantsAssumption
  <2>3. PoolInv
    BY <2>2, UniqueEmpty DEF Init, PoolInv
  <2>4. \A s \in Sessions : Conversation(s)
    BY ElemsEmpty DEF Init, Conversation, Fresh, Remembered, Carried, View, Has
  <2>5. \A r \in Requests : Serves(r)
    BY DEF Init, Serves, IdleRequest
  <2> QED
    BY <2>1, <2>3, <2>4, <2>5 DEF ContextInv
<1>2. ContextInv /\ [Next]_vars => ContextInv'
  BY ContextStep
<1>3. ContextInv => ContextKept
  <2> SUFFICES ASSUME ContextInv PROVE WholeUntilReseeded /\ ShownIsKnown
    BY DEF ContextKept
  <2>1. WholeUntilReseeded
    BY DEF WholeUntilReseeded, ContextInv, Conversation, Remembered
  <2>2. ShownIsKnown
    BY DEF ShownIsKnown, Shown, View, ContextInv, Conversation, Carried
  <2> QED
    BY <2>1, <2>2
<1> QED
  BY <1>1, <1>2, <1>3, PTL DEF Spec

=============================================================================
