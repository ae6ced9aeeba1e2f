---------------------------- MODULE Books_proofs ----------------------------
(***************************************************************************)
(* Proofs about Books: the types, the numbering of documents, the          *)
(* immutability of what has gone out, locked periods, hours billed once,   *)
(* and accounts that agree with their documents and payments, for any      *)
(* number of handlers, documents, payments, hours and days.                *)
(***************************************************************************)
EXTENDS Books, Collections

\* The constants are what the ranges are built from.
LEMMA Ranges ==
    /\ 1 \in Days /\ Today \in Days
    /\ Days \subseteq Nat /\ Docs \subseteq Nat /\ Pays \subseteq Nat
    /\ 0 \notin Docs /\ 0 \notin Pays
    /\ Amounts \subseteq 0 .. MaxTotal /\ 0 \in 0 .. MaxTotal
    /\ 0 \in -MaxBalance .. MaxBalance
BY BooksAssumption DEF Days, Docs, Pays, Amounts

\* A function with one value replaced.
LEMMA Replaced ==
    ASSUME NEW S, NEW T, NEW f \in [S -> T], NEW x \in S, NEW v \in T
    PROVE  /\ [f EXCEPT ![x] = v] \in [S -> T]
           /\ [f EXCEPT ![x] = v][x] = v
           /\ \A y \in S : y # x => [f EXCEPT ![x] = v][y] = f[y]
OBVIOUS

-----------------------------------------------------------------------------
(* Types                                                                   *)

\* Handlers that write to a document, and payments, name one; only these
\* handlers have more than one step.
Refs ==
    /\ \A r \in Requests :
        /\ req[r].op \notin {"idle", "bill"} => req[r].doc \in Docs
        /\ req[r].op = "unpay" => req[r].pay \in Pays /\ req[r].at # "write"
        /\ req[r].at # "write" => req[r].op \in {"void", "pay", "unpay"}
        /\ req[r].at \in {"check", "reverse"} => req[r].op \in {"void", "unpay"}
        /\ req[r].at = "stamp" => req[r].op = "void"
        /\ req[r].at = "remove" => req[r].op = "unpay"
        /\ req[r].at \in {"sum", "store"} => req[r].op \in {"pay", "unpay"}
    /\ \A p \in Pays : payments[p].status # "none" => payments[p].doc \in Docs

TypeInv == TypeOK /\ Refs

\* The records of a document, a payment and a handler that do not exist.
LEMMA Blanks == NoDoc \in Document /\ NoPay \in Receipt /\ Idle \in Handler
BY Ranges DEF NoDoc, NoPay, Idle, Document, Receipt, Handler, Kinds, Statuses

\* Initially the tables are empty.
LEMMA TypeInit == Init => TypeInv
BY Ranges, Blanks DEF Init, TypeOK, TypeInv, Refs, Idle, NoPay

\* What a handler may be when it begins.
Begun(h) ==
    /\ h \in Handler
    /\ h.op \notin {"idle", "bill"} => h.doc \in Docs
    /\ h.op = "unpay" => h.pay \in Pays /\ h.at = "check"
    /\ h.at = "write" \/ (h.at = "check" /\ h.op \in {"void", "unpay"})

\* A handler that begins keeps the types.
LEMMA TypeEnter ==
    ASSUME TypeInv, NEW r \in Requests, NEW h, Begun(h), Enter(r, h)
    PROVE  TypeInv'
<1>1. TypeOK'
  BY DEF Begun, Enter, TypeInv, TypeOK, books
<1>2. req'[r] = h /\ \A o \in Requests : o # r => req'[o] = req[o]
  BY DEF Enter, TypeInv, TypeOK
<1>3. Refs'
  BY <1>2 DEF Begun, Enter, TypeInv, Refs, books
<1> QED
  BY <1>1, <1>3 DEF TypeInv

\* A handler that goes on to another of its steps, or leaves.
LEMMA HandlerSteps ==
    ASSUME TypeInv, NEW r \in Requests
    PROVE  /\ \A step \in {"reverse", "stamp", "remove", "sum"} :
                Goto(r, step) => /\ req' \in [Requests -> Handler]
                                 /\ req'[r] = [req[r] EXCEPT !.at = step]
                                 /\ \A o \in Requests : o # r => req'[o] = req[o]
           /\ Leave(r) => /\ req' \in [Requests -> Handler]
                          /\ req'[r] = Idle
                          /\ \A o \in Requests : o # r => req'[o] = req[o]
                          /\ surprised' \in SUBSET Days
<1>h. req \in [Requests -> Handler] /\ req[r] \in Handler
  BY DEF TypeInv, TypeOK
<1>1. ASSUME NEW step \in {"reverse", "stamp", "remove", "sum"}, Goto(r, step)
      PROVE  /\ req' \in [Requests -> Handler]
             /\ req'[r] = [req[r] EXCEPT !.at = step]
             /\ \A o \in Requests : o # r => req'[o] = req[o]
  <2>1. [req[r] EXCEPT !.at = step] \in Handler
    BY <1>h DEF Handler
  <2>2. req' = [req EXCEPT ![r] = [req[r] EXCEPT !.at = step]]
    BY <1>1 DEF Goto
  <2> QED
    BY <1>h, <2>1, <2>2, Replaced
<1>2. ASSUME Leave(r)
      PROVE  /\ req' \in [Requests -> Handler] /\ req'[r] = Idle
             /\ \A o \in Requests : o # r => req'[o] = req[o]
             /\ surprised' \in SUBSET Days
  BY <1>h, <1>2, Blanks DEF Leave, TypeInv, TypeOK
<1> QED
  BY <1>1, <1>2

\* A document that is drafted is a document.
LEMMA DraftTypes ==
    ASSUME TypeInv, NEW kind \in Kinds, NEW day \in Days, NEW total \in Nat,
           NEW time \in SUBSET Time, CreateInvoice(kind, day, total, time)
    PROVE  docs' \in [Docs -> Document]
<1>1. PICK d \in Docs :
        /\ total <= MaxTotal
        /\ docs' = [docs EXCEPT ![d] = [NoDoc EXCEPT !.kind = kind,
                        !.status = "draft", !.day = day, !.total = total, !.time = time]]
  BY DEF CreateInvoice
<1>2. [NoDoc EXCEPT !.kind = kind, !.status = "draft", !.day = day,
                    !.total = total, !.time = time] \in Document
  <2>1. total \in 0 .. MaxTotal
    BY <1>1, BooksAssumption
  <2> QED
    BY <2>1, Blanks DEF NoDoc, Document, Statuses
<1> QED
  BY <1>1, <1>2 DEF TypeInv, TypeOK

\* Every step of a handler leaves well-formed tables and handlers.
LEMMA TypeOKGo == ASSUME TypeInv, NEW r \in Requests, Go(r) PROVE TypeOK'
<1> DEFINE d == req[r].doc
<1>t. TypeOK
  BY DEF TypeInv
<1>h. req \in [Requests -> Handler] /\ req[r] \in Handler
  BY <1>t DEF TypeOK
<1>d. /\ docs \in [Docs -> Document]
      /\ d \in Docs => docs[d] \in Document
      /\ req[r].op \notin {"idle", "bill"} => d \in Docs
      /\ req[r].at # "write" => d \in Docs
  BY <1>t DEF TypeOK, TypeInv, Refs
<1>g. \A step \in {"reverse", "stamp", "remove", "sum"} : Goto(r, step) =>
        /\ req' \in [Requests -> Handler] /\ crossed' = crossed
        /\ contested' = contested /\ surprised' = surprised
  BY HandlerSteps DEF Goto
<1>l. Leave(r) =>
        /\ req' \in [Requests -> Handler] /\ crossed' = crossed
        /\ contested' = contested /\ surprised' \in SUBSET Days
  BY HandlerSteps DEF Leave
<1> HIDE DEF d
<1>1. CASE UpdateDraft(r)
  <2>1. PICK day \in Days, total \in Amounts, time \in SUBSET req[r].time :
            docs' = [docs EXCEPT ![d] =
                        [@ EXCEPT !.day = day, !.total = total, !.time = time]]
    BY <1>1 DEF UpdateDraft, d
  <2>2. time \in SUBSET Time /\ total \in 0 .. MaxTotal
    BY <1>h, Ranges DEF Handler
  <2>3. d \in Docs /\ docs[d] \in Document
    BY <1>1, <1>d DEF UpdateDraft
  <2>4. [docs[d] EXCEPT !.day = day, !.total = total, !.time = time] \in Document
    BY <2>2, <2>3 DEF Document
  <2>5. docs' \in [Docs -> Document]
    BY <2>1, <2>3, <2>4, <1>d, Replaced
  <2> QED
    BY <1>1, <2>5, <1>l, <1>t DEF UpdateDraft, TypeOK
<1>2. CASE Bill(r)
  <2>1. req[r].time \in SUBSET Time /\ IsFiniteSet(req[r].time)
    BY <1>h, BooksAssumption, FS_Subset DEF Handler
  <2>2. Cardinality(req[r].time) \in Nat
    BY <2>1, FS_CardinalityType
  <2>3. docs' \in [Docs -> Document]
    BY <1>2, <2>1, <2>2, DraftTypes, Ranges DEF Bill, Kinds
  <2> QED
    BY <1>2, <2>3, <1>l, <1>t DEF Bill, CreateInvoice, TypeOK
<1>3. CASE Issue(r)
  <2> DEFINE kind == docs[d].kind
             amount == Sign(kind) * req[r].total
             doc == [docs[d] EXCEPT !.status = "issued", !.number = next[kind],
                                    !.entry = amount]
  <2>1. amount \in Int
    <3>1. req[r].total \in Nat /\ Sign(kind) \in {1, -1}
      BY <1>h DEF Handler, Sign
    <3> QED
      BY <3>1
  <2>2. d \in Docs /\ docs[d] \in Document
    BY <1>3, <1>d DEF Issue
  <2>3. kind \in Kinds /\ next[kind] \in Nat \ {0}
    BY <2>2, <1>t DEF Document, TypeOK
  <2>4. doc \in Document
    BY <2>1, <2>2, <2>3 DEF Document, Statuses
  <2>5. docs' = [docs EXCEPT ![d] = doc]
    BY <1>3 DEF Issue, d
  <2>6. docs' \in [Docs -> Document]
    BY <2>2, <2>4, <2>5, <1>d, Replaced
  <2>7. next' \in [Kinds -> Nat \ {0}]
    <3>1. next' = [next EXCEPT ![kind] = next[kind] + 1]
      BY <1>3 DEF Issue, d
    <3>2. next[kind] + 1 \in Nat \ {0} /\ next \in [Kinds -> Nat \ {0}]
      BY <2>3, <1>t DEF TypeOK
    <3> QED
      BY <3>1, <3>2, <2>3, Replaced
  <2>8. receivable' \in [Docs -> -MaxBalance .. MaxBalance]
    BY <1>3, <1>t DEF Issue, Post, TypeOK
  <2>9. invoiced' \in SUBSET Time
    BY <1>3, <2>2, <1>t DEF Issue, Document, TypeOK, d
  <2> QED
    BY <1>3, <2>6, <2>7, <2>8, <2>9, <1>l, <1>t DEF Issue, TypeOK
<1>4. CASE CheckReversal(r)
  BY <1>4, <1>g, <1>t DEF CheckReversal, books, TypeOK
<1>5. CASE Reverse(r)
  <2>1. receivable' \in [Docs -> -MaxBalance .. MaxBalance]
    BY <1>5, <1>t DEF Reverse, Post, TypeOK
  <2>2. Goto(r, "stamp") \/ Goto(r, "remove")
    BY <1>5 DEF Reverse
  <2> QED
    BY <1>5, <2>1, <2>2, <1>g, <1>t DEF Reverse, TypeOK
<1>6. CASE StampVoid(r)
  <2>1. d \in Docs /\ docs[d] \in Document
    BY <1>6, <1>d DEF StampVoid
  <2>2. [docs[d] EXCEPT !.status = "void"] \in Document
    BY <2>1 DEF Document, Statuses
  <2>3. docs' = [docs EXCEPT ![d] = [docs[d] EXCEPT !.status = "void"]]
    BY <1>6 DEF StampVoid, d
  <2>4. docs' \in [Docs -> Document]
    BY <2>1, <2>2, <2>3, <1>d, Replaced
  <2> QED
    BY <1>6, <2>4, <1>l, <1>t DEF StampVoid, TypeOK
<1>7. CASE RemovePayment(r)
  <2>1. payments' \in [Pays -> Receipt]
    BY <1>7, <1>t, ZenonT(60) DEF RemovePayment, TypeOK, Receipt
  <2> QED
    BY <1>7, <2>1, <1>g, <1>t DEF RemovePayment, TypeOK
<1>8. CASE RecordPayment(r)
  <2>1. [status |-> "kept", doc |-> d, amount |-> req[r].total,
         day |-> req[r].day] \in Receipt
    BY <1>h DEF Handler, Receipt, d
  <2>2. payments' \in [Pays -> Receipt]
    BY <1>8, <2>1, <1>t DEF RecordPayment, TypeOK, d
  <2>3. receivable' \in [Docs -> -MaxBalance .. MaxBalance]
    BY <1>8, <1>t DEF RecordPayment, Post, TypeOK
  <2> QED
    BY <1>8, <2>2, <2>3, <1>g, <1>t DEF RecordPayment, TypeOK
<1>9. CASE SumPayments(r)
  <2>1. d \in Docs /\ docs[d] \in Document
    BY <1>9, <1>d DEF SumPayments
  <2>2. PICK paid \in 0 .. MaxPays * MaxTotal :
          req' = [req EXCEPT ![r] = [req[r] EXCEPT !.at = "store", !.total = paid,
                                                   !.status = docs[d].status]]
    BY <1>9 DEF SumPayments, d
  <2>3. paid \in Nat /\ docs[d].status \in Statuses \cup {"none", "deleted"}
    BY <2>1 DEF Document
  <2>4. [req[r] EXCEPT !.at = "store", !.total = paid, !.status = docs[d].status]
            \in Handler
    BY <2>3, <1>h DEF Handler
  <2>5. req' \in [Requests -> Handler]
    BY <2>2, <2>4, <1>h, Replaced
  <2> QED
    BY <1>9, <2>5, <1>t DEF SumPayments, books, TypeOK
<1>10. CASE StorePaid(r)
  <2> DEFINE status == PaymentStatus(req[r].status, req[r].total, docs[d].total)
             doc == [docs[d] EXCEPT !.paid = req[r].total, !.status = status]
  <2>1. status \in Statuses
    BY DEF PaymentStatus, Statuses
  <2>2. d \in Docs /\ docs[d] \in Document /\ req[r].total \in Nat
    BY <1>10, <1>d, <1>h DEF StorePaid, Handler
  <2>3. docs' = [docs EXCEPT ![d] = doc]
    BY <1>10 DEF StorePaid, d
  <2> HIDE DEF status
  <2>4. doc \in Document
    BY <2>1, <2>2 DEF Document
  <2>5. docs' \in [Docs -> Document]
    BY <2>2, <2>3, <2>4, <1>d, Replaced
  <2> QED
    BY <1>10, <2>5, <1>l, <1>t DEF StorePaid, TypeOK
<1>11. CASE Fail(r)
  BY <1>11, <1>t, Blanks DEF Fail, books, TypeOK
<1> QED
  BY <1>1, <1>2, <1>3, <1>4, <1>5, <1>6, <1>7, <1>8, <1>9, <1>10, <1>11 DEF Go

\* Every step of a handler leaves handlers and payments that name a document.
LEMMA RefsGo == ASSUME TypeInv, NEW r \in Requests, Go(r) PROVE Refs'
<1>h. req \in [Requests -> Handler] /\ req[r] \in Handler
  BY DEF TypeInv, TypeOK
<1>l. ASSUME Leave(r), payments' = payments PROVE Refs'
  <2>1. req'[r] = Idle /\ \A o \in Requests : o # r => req'[o] = req[o]
    BY <1>l, HandlerSteps
  <2> QED
    BY <1>l, <2>1 DEF TypeInv, Refs, Idle
<1>g. ASSUME NEW step \in {"reverse", "stamp", "remove", "sum"}, Goto(r, step),
             req[r].at # "write" \/ req[r].op = "pay",
             step = "reverse" => req[r].op \in {"void", "unpay"},
             step = "stamp" => req[r].op = "void",
             step = "remove" => req[r].op = "unpay",
             step = "sum" => req[r].op \in {"pay", "unpay"},
             \A p \in Pays : payments'[p].status # "none" => payments'[p].doc \in Docs
      PROVE  Refs'
  <2>1. /\ req'[r] = [req[r] EXCEPT !.at = step]
        /\ \A o \in Requests : o # r => req'[o] = req[o]
    BY <1>g, HandlerSteps
  <2>2. /\ req'[r].op = req[r].op /\ req'[r].doc = req[r].doc
        /\ req'[r].pay = req[r].pay /\ req'[r].at = step
    BY <2>1, <1>h DEF Handler
  <2>3. req[r].op \in {"void", "pay", "unpay"}
    BY <1>g DEF TypeInv, Refs
  <2>4. /\ req'[r].doc \in Docs
        /\ req[r].op = "unpay" => req'[r].pay \in Pays
    BY <2>2, <2>3 DEF TypeInv, Refs
  <2>5. \A o \in Requests : o # r =>
            /\ req'[o].op \notin {"idle", "bill"} => req'[o].doc \in Docs
            /\ req'[o].op = "unpay" => req'[o].pay \in Pays /\ req'[o].at # "write"
            /\ req'[o].at # "write" => req'[o].op \in {"void", "pay", "unpay"}
            /\ req'[o].at \in {"check", "reverse"} => req'[o].op \in {"void", "unpay"}
            /\ req'[o].at = "stamp" => req'[o].op = "void"
            /\ req'[o].at = "remove" => req'[o].op = "unpay"
            /\ req'[o].at \in {"sum", "store"} => req'[o].op \in {"pay", "unpay"}
    BY <2>1 DEF TypeInv, Refs
  <2> QED
    BY <1>g, <2>2, <2>3, <2>4, <2>5 DEF Refs
<1>1. CASE UpdateDraft(r) \/ Bill(r) \/ Issue(r) \/ StampVoid(r) \/ StorePaid(r)
  BY <1>1, <1>l DEF UpdateDraft, Bill, CreateInvoice, Issue, StampVoid, StorePaid
<1>2. CASE CheckReversal(r)
  BY <1>2, <1>g DEF CheckReversal, books, TypeInv, Refs
<1>3. CASE Reverse(r)
  BY <1>3, <1>g DEF Reverse, TypeInv, Refs
<1>4. CASE RemovePayment(r)
  <2>1. \A p \in Pays : payments'[p].status # "none" => payments'[p].doc \in Docs
    BY <1>4 DEF RemovePayment, TypeInv, TypeOK, Refs, Receipt
  <2> QED
    BY <1>4, <2>1, <1>g DEF RemovePayment, TypeInv, Refs
<1>5. CASE RecordPayment(r)
  <2>1. \A p \in Pays : payments'[p].status # "none" => payments'[p].doc \in Docs
    BY <1>5 DEF RecordPayment, TypeInv, TypeOK, Refs
  <2> QED
    BY <1>5, <2>1, <1>g DEF RecordPayment
<1>6. CASE SumPayments(r)
  <2>1. /\ req'[r].op = req[r].op /\ req'[r].doc = req[r].doc
        /\ req'[r].pay = req[r].pay /\ req'[r].at = "store"
        /\ \A o \in Requests : o # r => req'[o] = req[o]
    BY <1>6, <1>h DEF SumPayments, Handler
  <2> QED
    BY <1>6, <2>1 DEF SumPayments, books, TypeInv, Refs
<1>7. CASE Fail(r)
  BY <1>7 DEF Fail, books, TypeInv, TypeOK, Refs, Idle
<1> QED
  BY <1>1, <1>2, <1>3, <1>4, <1>5, <1>6, <1>7 DEF Go

\* A handler that has not begun begins as one of these.
LEMMA Beginnings ==
    ASSUME TypeInv, NEW r \in Requests, Begin(r)
    PROVE  \/ BeginBill(r)
           \/ \E h \in Handler : Begun(h) /\ Enter(r, h)
<1>1. CASE \E d \in Docs : BeginUpdate(r, d)
  <2>1. PICK d \in Docs : BeginUpdate(r, d)
    BY <1>1
  <2>2. Begun([Idle EXCEPT !.op = "update", !.doc = d, !.time = docs[d].time])
    BY Blanks DEF Begun, Idle, Handler, TypeInv, TypeOK, Document
  <2> QED
    BY <2>1, <2>2 DEF BeginUpdate, Begun
<1>2. CASE \E d \in Docs : BeginIssue(r, d)
  <2>1. PICK d \in Docs : BeginIssue(r, d)
    BY <1>2
  <2>2. docs[d].total \in Nat
    BY DEF TypeInv, TypeOK, Document
  <2>3. Begun([Idle EXCEPT !.op = "issue", !.doc = d, !.total = docs[d].total])
    BY <2>2, Blanks DEF Begun, Idle, Handler
  <2> QED
    BY <2>1, <2>3 DEF BeginIssue, Begun
<1>3. CASE \E d \in Docs : BeginVoid(r, d)
  <2>1. PICK d \in Docs : BeginVoid(r, d)
    BY <1>3
  <2>2. Begun([Idle EXCEPT !.op = "void", !.at = "check", !.doc = d])
    BY Blanks DEF Begun, Idle, Handler
  <2> QED
    BY <2>1, <2>2 DEF BeginVoid, Begun
<1>4. CASE \E d \in Docs : BeginPayment(r, d)
  <2>1. PICK d \in Docs : BeginPayment(r, d)
    BY <1>4
  <2>2. PICK amount \in 1 .. docs[d].total - docs[d].paid, day \in Days \ locked :
          Enter(r, [Idle EXCEPT !.op = "pay", !.doc = d, !.total = amount, !.day = day])
    BY <2>1 DEF BeginPayment
  <2>3. amount \in Nat
    BY <2>2 DEF TypeInv, TypeOK, Document
  <2>4. Begun([Idle EXCEPT !.op = "pay", !.doc = d, !.total = amount, !.day = day])
    BY <2>3, Blanks DEF Begun, Idle, Handler
  <2> QED
    BY <2>2, <2>4 DEF Begun
<1>5. CASE \E p \in Pays : BeginDeletePayment(r, p)
  <2>1. PICK p \in Pays : BeginDeletePayment(r, p)
    BY <1>5
  <2>2. payments[p].doc \in Docs
    BY <2>1 DEF BeginDeletePayment, TypeInv, Refs
  <2>3. Begun([Idle EXCEPT !.op = "unpay", !.at = "check",
                           !.doc = payments[p].doc, !.pay = p])
    BY <2>2, Blanks DEF Begun, Idle, Handler
  <2> QED
    BY <2>1, <2>3 DEF BeginDeletePayment, Begun
<1> QED
  BY <1>1, <1>2, <1>3, <1>4, <1>5 DEF Begin

\* Every step keeps the types.
LEMMA TypeStep == TypeInv /\ [Next]_vars => TypeInv'
<1> SUFFICES ASSUME TypeInv, [Next]_vars PROVE TypeInv'
  OBVIOUS
<1>1. ASSUME NEW r \in Requests, Begin(r) PROVE TypeInv'
  <2>1. CASE BeginBill(r)
    <3>1. PICK time \in SUBSET Time :
            /\ req' = [req EXCEPT ![r] = [Idle EXCEPT !.op = "bill", !.time = time]]
            /\ contested' = contested \cup (time \cap UNION { req[o].time : o \in Requests })
            /\ UNCHANGED <<books, crossed, surprised>>
      BY <2>1 DEF BeginBill
    <3>2. [Idle EXCEPT !.op = "bill", !.time = time] \in Handler
      BY Blanks DEF Idle, Handler
    <3>3. TypeOK'
      BY <3>1, <3>2 DEF TypeInv, TypeOK, books
    <3>4. /\ req'[r] = [Idle EXCEPT !.op = "bill", !.time = time]
          /\ \A o \in Requests : o # r => req'[o] = req[o]
      BY <3>1 DEF TypeInv, TypeOK
    <3>5. Refs'
      BY <3>1, <3>4 DEF TypeInv, Refs, Idle, books
    <3> QED
      BY <3>3, <3>5 DEF TypeInv
  <2>2. ASSUME NEW h \in Handler, Begun(h), Enter(r, h) PROVE TypeInv'
    BY <2>2, TypeEnter
  <2> QED
    BY <1>1, <2>1, <2>2, Beginnings
<1>2. ASSUME NEW r \in Requests, Go(r) PROVE TypeInv'
  BY <1>2, TypeOKGo, RefsGo DEF TypeInv
<1>3. CASE CreateDraft
  <2>1. PICK kind \in Kinds, day \in Days, total \in Amounts :
            CreateInvoice(kind, day, total, {})
    BY <1>3 DEF CreateDraft
  <2>2. docs' \in [Docs -> Document]
    BY <2>1, DraftTypes, Ranges DEF Kinds
  <2> QED
    BY <1>3, <2>1, <2>2 DEF CreateDraft, CreateInvoice, TypeInv, TypeOK, Refs
<1>4. CASE SetLock
  BY <1>4 DEF SetLock, TypeInv, TypeOK, Refs
<1>5. CASE Flag
  BY <1>5 DEF Flag, TypeInv, TypeOK, Refs
<1>6. ASSUME NEW d \in Docs, DeleteDraft(d) PROVE TypeInv'
  <2>1. [NoDoc EXCEPT !.status = "deleted"] \in Document
    BY Blanks DEF NoDoc, Document
  <2>2. docs' \in [Docs -> Document]
    BY <1>6, <2>1 DEF DeleteDraft, TypeInv, TypeOK
  <2> QED
    BY <1>6, <2>2 DEF DeleteDraft, TypeInv, TypeOK, Refs
<1>7. ASSUME NEW d \in Docs, CreditNote(d) PROVE TypeInv'
  <2>1. PICK total \in Amounts : CreateInvoice("credit_note", Today, total, {})
    BY <1>7 DEF CreditNote
  <2>2. docs' \in [Docs -> Document]
    BY <2>1, DraftTypes, Ranges DEF Kinds
  <2> QED
    BY <1>7, <2>1, <2>2 DEF CreditNote, CreateInvoice, TypeInv, TypeOK, Refs
<1>8. CASE UNCHANGED vars
  BY <1>8 DEF vars, books, TypeInv, TypeOK, Refs
<1> QED
  BY <1>1, <1>2, <1>3, <1>4, <1>5, <1>6, <1>7, <1>8 DEF Next

\* The strengthened types hold always.
LEMMA TypeInvariant == Spec => []TypeInv
BY TypeInit, TypeStep, PTL DEF Spec

\* The tables hold records of the right shape, whatever the handlers do.
THEOREM TypeCorrect == Spec => []TypeOK
<1>1. TypeInv => TypeOK
  BY DEF TypeInv
<1> QED
  BY <1>1, TypeInvariant, PTL

-----------------------------------------------------------------------------
(* Handlers, whatever they do                                              *)

\* A handler keeps what it works on from its beginning to its end.
Goes(r) ==
    /\ req'[r].op = req[r].op /\ req'[r].doc = req[r].doc
    /\ req'[r].pay = req[r].pay /\ req'[r].day = req[r].day
    /\ req'[r].time = req[r].time

Others(r) == \A o \in Requests : o # r => req'[o] = req[o]

\* A step of a handler ends it or takes it on, and moves no other.
LEMMA GoSteps ==
    ASSUME TypeInv, NEW r \in Requests, Go(r)
    PROVE  /\ Others(r)
           /\ Goes(r) \/ req'[r] = Idle
           /\ crossed \subseteq crossed' /\ contested' = contested
           /\ surprised' = surprised \/ (InFlight = {r} /\ req'[r] = Idle)
<1>h. req \in [Requests -> Handler] /\ req[r] \in Handler
  BY DEF TypeInv, TypeOK
<1>1. ASSUME NEW step \in {"reverse", "stamp", "remove", "sum"}, Goto(r, step)
      PROVE  /\ Others(r) /\ Goes(r) /\ crossed' = crossed /\ contested' = contested
             /\ surprised' = surprised
  <2>1. req'[r] = [req[r] EXCEPT !.at = step] /\ Others(r)
    BY <1>1, HandlerSteps DEF Others
  <2> QED
    BY <1>1, <2>1, <1>h DEF Goes, Goto, Handler
<1>2. ASSUME Leave(r)
      PROVE  /\ Others(r) /\ req'[r] = Idle /\ crossed' = crossed
             /\ contested' = contested
             /\ surprised' = surprised \/ InFlight = {r}
  <2>1. req'[r] = Idle /\ Others(r)
    BY <1>2, HandlerSteps DEF Others
  <2> QED
    BY <1>2, <2>1 DEF Leave
<1>3. CASE UpdateDraft(r) \/ Bill(r) \/ Issue(r) \/ StampVoid(r) \/ StorePaid(r)
  BY <1>2, <1>3 DEF UpdateDraft, Bill, Issue, StampVoid, StorePaid
<1>4. CASE CheckReversal(r) \/ Reverse(r) \/ RemovePayment(r) \/ RecordPayment(r)
  BY <1>1, <1>4 DEF CheckReversal, Reverse, RemovePayment, RecordPayment
<1>5. CASE SumPayments(r)
  BY <1>5, <1>h DEF SumPayments, Handler, Goes, Others
<1>6. CASE Fail(r)
  BY <1>6, <1>h DEF Fail, Others
<1> QED
  BY <1>3, <1>4, <1>5, <1>6 DEF Go

\* A handler that begins, begins alone, and marks a document it shares.
LEMMA BeginSteps ==
    ASSUME TypeInv, NEW r \in Requests, Begin(r)
    PROVE  /\ Others(r) /\ req[r] = Idle
           /\ UNCHANGED <<books, surprised>>
           /\ crossed \subseteq crossed' /\ contested \subseteq contested'
           /\ \A d \in Docs, o \in Requests :
                req'[r].doc = d /\ req'[r].op # "bill" /\ Works(o, d) => d \in crossed'
<1>1. CASE BeginBill(r)
  <2>1. PICK time \in SUBSET Time :
          req' = [req EXCEPT ![r] = [Idle EXCEPT !.op = "bill", !.time = time]]
    BY <1>1 DEF BeginBill
  <2>2. req'[r].op = "bill" /\ Others(r)
    BY <2>1 DEF TypeInv, TypeOK, Idle, Others
  <2> QED
    BY <1>1, <2>2 DEF BeginBill
<1>2. ASSUME NEW h \in Handler, Begun(h), Enter(r, h)
      PROVE  /\ Others(r) /\ req[r] = Idle /\ req'[r] = h
             /\ UNCHANGED <<books, surprised>>
             /\ crossed \subseteq crossed' /\ contested' = contested
             /\ \A d \in Docs, o \in Requests :
                  h.doc = d /\ Works(o, d) => d \in crossed'
  BY <1>2 DEF Enter, TypeInv, TypeOK, Others
<1> QED
  BY <1>1, <1>2, Beginnings

\* The steps that are no handler's.
Aside == CreateDraft \/ SetLock \/ Flag \/ \E d \in Docs : DeleteDraft(d) \/ CreditNote(d)

\* They leave the handlers alone.
LEMMA AsideSteps == Aside => UNCHANGED <<req, crossed, contested>>
BY DEF Aside, CreateDraft, SetLock, Flag, DeleteDraft, CreditNote

\* A step is a handler's, or no handler's, or no step.
LEMMA Steps ==
    [Next]_vars => \/ \E r \in Requests : Begin(r) \/ Go(r)
                   \/ Aside
                   \/ UNCHANGED vars
BY DEF Next, Aside

-----------------------------------------------------------------------------
(* What has gone out                                                       *)

\* Handlers work on documents that exist; those that void or pay, and
\* payments, on documents that have gone out.
OutInv ==
    /\ \A r \in Requests :
        /\ req[r].op \notin {"idle", "bill"} => docs[req[r].doc].status # "none"
        /\ req[r].op \in {"void", "pay", "unpay"} => Issued(req[r].doc)
        /\ req[r].at = "store" => req[r].status \in {"issued", "part_paid", "paid", "void"}
    /\ \A p \in Pays : payments[p].status # "none" => Issued(payments[p].doc)

\* What a step may do to a document, if it issues none.
Quiet ==
    /\ next' = next
    /\ \A d \in Docs :
        /\ docs[d].status # "none" => docs'[d].status # "none"
        /\ Issued(d)' <=> Issued(d)
        /\ Issued(d) => /\ docs'[d].kind = docs[d].kind /\ docs'[d].day = docs[d].day
                        /\ docs'[d].time = docs[d].time /\ docs'[d].total = docs[d].total
                        /\ docs'[d].number = docs[d].number
                        /\ docs'[d].entry = docs[d].entry

\* A draft changes no document that exists.
LEMMA DraftSteps ==
    ASSUME TypeInv, NEW kind, NEW day, NEW total, NEW time,
           CreateInvoice(kind, day, total, time)
    PROVE  Quiet
<1>1. PICK d \in Docs :
        /\ docs[d].status = "none"
        /\ docs' = [docs EXCEPT ![d] = [NoDoc EXCEPT !.kind = kind,
                        !.status = "draft", !.day = day, !.total = total, !.time = time]]
  BY DEF CreateInvoice, NextDoc
<1>2. docs'[d].status = "draft" /\ \A e \in Docs : e # d => docs'[e] = docs[e]
  BY <1>1 DEF TypeInv, TypeOK, NoDoc
<1> QED
  BY <1>1, <1>2 DEF Quiet, Issued, CreateInvoice

\* No step but Issue makes a document go out or come back, or changes one that
\* is out.
LEMMA QuietSteps ==
    TypeInv /\ OutInv /\ [Next]_vars => Quiet \/ \E r \in Requests : Issue(r)
<1> SUFFICES ASSUME TypeInv, OutInv, [Next]_vars,
                    \A r \in Requests : ~Issue(r)
             PROVE  Quiet
  OBVIOUS
<1>d. docs \in [Docs -> Document]
  BY DEF TypeInv, TypeOK
<1>n. docs' = docs /\ next' = next => Quiet
  BY DEF Quiet, Issued
<1>1. ASSUME NEW r \in Requests, Begin(r) PROVE Quiet
  BY <1>1, <1>n, BeginSteps DEF books
<1>2. ASSUME NEW r \in Requests, Go(r) PROVE Quiet
  <2>1. CASE UpdateDraft(r)
    <3>1. PICK day \in Days, total \in Amounts, time \in SUBSET req[r].time :
            docs' = [docs EXCEPT ![req[r].doc] =
                        [@ EXCEPT !.day = day, !.total = total, !.time = time]]
      BY <2>1 DEF UpdateDraft
    <3>2. /\ \A e \in Docs : e # req[r].doc => docs'[e] = docs[e]
          /\ \A e \in Docs : e = req[r].doc => docs'[e].status = docs[e].status
      BY <3>1, <1>d DEF Document
    <3> QED
      BY <2>1, <3>2 DEF UpdateDraft, Quiet, Issued
  <2>2. CASE Bill(r)
    BY <2>2, DraftSteps DEF Bill
  <2>3. CASE StampVoid(r)
    <3>1. Issued(req[r].doc)
      BY <2>3 DEF StampVoid, OutInv, TypeInv, Refs
    <3>2. /\ \A e \in Docs : e # req[r].doc => docs'[e] = docs[e]
          /\ \A e \in Docs : e = req[r].doc =>
                docs'[e] = [docs[e] EXCEPT !.status = "void"]
      BY <2>3, <1>d DEF StampVoid
    <3>3. \A e \in Docs : e = req[r].doc =>
            /\ docs'[e].status = "void" /\ docs'[e].kind = docs[e].kind
            /\ docs'[e].day = docs[e].day /\ docs'[e].time = docs[e].time
            /\ docs'[e].total = docs[e].total /\ docs'[e].number = docs[e].number
            /\ docs'[e].entry = docs[e].entry
      <4> SUFFICES ASSUME NEW e \in Docs, e = req[r].doc
                   PROVE  /\ docs'[e].status = "void" /\ docs'[e].kind = docs[e].kind
                          /\ docs'[e].day = docs[e].day /\ docs'[e].time = docs[e].time
                          /\ docs'[e].total = docs[e].total
                          /\ docs'[e].number = docs[e].number
                          /\ docs'[e].entry = docs[e].entry
        OBVIOUS
      <4>1. docs[e] \in Document /\ docs'[e] = [docs[e] EXCEPT !.status = "void"]
        BY <3>2, <1>d
      <4> QED
        BY <4>1 DEF Document
    <3> QED
      BY <2>3, <3>1, <3>2, <3>3 DEF StampVoid, Quiet, Issued
  <2>4. CASE StorePaid(r)
    <3> DEFINE status == PaymentStatus(req[r].status, req[r].total,
                                       docs[req[r].doc].total)
    <3>1. Issued(req[r].doc) /\ req[r].status \in {"issued", "part_paid", "paid", "void"}
      BY <2>4 DEF StorePaid, OutInv, TypeInv, Refs
    <3>2. status \in {"issued", "part_paid", "paid", "void"}
      BY <3>1 DEF PaymentStatus
    <3>3. docs' = [docs EXCEPT ![req[r].doc] =
                      [@ EXCEPT !.paid = req[r].total, !.status = status]]
      BY <2>4 DEF StorePaid
    <3> HIDE DEF status
    <3>4. /\ \A e \in Docs : e # req[r].doc => docs'[e] = docs[e]
          /\ \A e \in Docs : e = req[r].doc =>
                docs'[e] = [docs[e] EXCEPT !.paid = req[r].total, !.status = status]
      BY <3>3, <1>d
    <3>5. \A e \in Docs : e = req[r].doc =>
            /\ docs'[e].status = status /\ docs'[e].kind = docs[e].kind
            /\ docs'[e].day = docs[e].day /\ docs'[e].time = docs[e].time
            /\ docs'[e].total = docs[e].total /\ docs'[e].number = docs[e].number
            /\ docs'[e].entry = docs[e].entry
      <4> SUFFICES ASSUME NEW e \in Docs, e = req[r].doc
                   PROVE  /\ docs'[e].status = status /\ docs'[e].kind = docs[e].kind
                          /\ docs'[e].day = docs[e].day /\ docs'[e].time = docs[e].time
                          /\ docs'[e].total = docs[e].total
                          /\ docs'[e].number = docs[e].number
                          /\ docs'[e].entry = docs[e].entry
        OBVIOUS
      <4>1. /\ docs[e] \in Document
            /\ docs'[e] = [docs[e] EXCEPT !.paid = req[r].total, !.status = status]
        BY <3>4, <1>d
      <4> QED
        BY <4>1 DEF Document
    <3> QED
      BY <2>4, <3>1, <3>2, <3>4, <3>5 DEF StorePaid, Quiet, Issued
  <2>5. CASE CheckReversal(r) \/ Reverse(r) \/ RemovePayment(r) \/ RecordPayment(r)
             \/ SumPayments(r) \/ Fail(r)
    BY <2>5, <1>n DEF CheckReversal, Reverse, RemovePayment, RecordPayment,
                      SumPayments, Fail, books
  <2> QED
    BY <1>2, <2>1, <2>2, <2>3, <2>4, <2>5 DEF Go
<1>3. CASE Aside
  <2>1. CASE CreateDraft
    BY <2>1, DraftSteps DEF CreateDraft
  <2>2. CASE SetLock \/ Flag
    BY <2>2, <1>n DEF SetLock, Flag
  <2>3. ASSUME NEW d \in Docs, DeleteDraft(d) PROVE Quiet
    <3>1. docs'[d].status = "deleted" /\ \A e \in Docs : e # d => docs'[e] = docs[e]
      BY <2>3, <1>d DEF DeleteDraft, NoDoc
    <3> QED
      BY <2>3, <3>1 DEF DeleteDraft, Quiet, Issued
  <2>4. ASSUME NEW d \in Docs, CreditNote(d) PROVE Quiet
    BY <2>4, DraftSteps DEF CreditNote
  <2> QED
    BY <1>3, <2>1, <2>2, <2>3, <2>4 DEF Aside
<1>4. CASE UNCHANGED vars
  BY <1>4, <1>n DEF vars, books
<1> QED
  BY <1>1, <1>2, <1>3, <1>4, Steps

\* What Issue does to the documents.
LEMMA IssueSteps ==
    ASSUME TypeInv, NEW r \in Requests, Issue(r)
    PROVE  LET d == req[r].doc IN
           /\ d \in Docs /\ ~Issued(d)
           /\ docs[d].status = "draft" /\ docs'[d].status = "issued"
           /\ docs'[d].kind = docs[d].kind /\ docs'[d].number = next[docs[d].kind]
           /\ docs'[d].time = docs[d].time
           /\ next' = [next EXCEPT ![docs[d].kind] = @ + 1]
           /\ \A e \in Docs : e # d => docs'[e] = docs[e]
<1> DEFINE d == req[r].doc
           amount == Sign(docs[d].kind) * req[r].total
<1>1. docs \in [Docs -> Document] /\ d \in Docs
  BY DEF TypeInv, TypeOK, Refs, Issue
<1>2. docs' = [docs EXCEPT ![d] = [docs[d] EXCEPT !.status = "issued",
                  !.number = next[docs[d].kind], !.entry = amount]]
  BY DEF Issue
<1> HIDE DEF amount
<1>3. /\ docs'[d] = [docs[d] EXCEPT !.status = "issued",
                        !.number = next[docs[d].kind], !.entry = amount]
      /\ \A e \in Docs : e # d => docs'[e] = docs[e]
  BY <1>1, <1>2
<1>4. /\ docs'[d].status = "issued" /\ docs'[d].kind = docs[d].kind
      /\ docs'[d].number = next[docs[d].kind] /\ docs'[d].time = docs[d].time
  BY <1>1, <1>3 DEF Document
<1>5. /\ docs[d].status = "draft"
      /\ next' = [next EXCEPT ![docs[d].kind] = @ + 1]
  BY DEF Issue
<1>6. ~Issued(d)
  BY <1>5 DEF Issued
<1> QED
  BY <1>1, <1>3, <1>4, <1>5, <1>6

\* In both cases nothing that has gone out comes back.
LEMMA StaysOut ==
    TypeInv /\ OutInv /\ [Next]_vars =>
        \A d \in Docs : /\ Issued(d) => Issued(d)'
                        /\ docs[d].status # "none" => docs'[d].status # "none"
BY QuietSteps, IssueSteps DEF Quiet, Issued

\* Initially there is no document.
LEMMA OutInit == Init => OutInv
BY DEF Init, OutInv, Idle, NoPay

\* Handlers and payments go on naming documents that are out.
LEMMA OutStep == TypeInv /\ OutInv /\ [Next]_vars => OutInv'
<1> SUFFICES ASSUME TypeInv, OutInv, [Next]_vars PROVE OutInv'
  OBVIOUS
<1>t. TypeInv'
  BY TypeStep
<1> DEFINE OutReq(r) ==
             /\ req[r].op \notin {"idle", "bill"} => docs[req[r].doc].status # "none"
             /\ req[r].op \in {"void", "pay", "unpay"} => Issued(req[r].doc)
             /\ req[r].at = "store" =>
                    req[r].status \in {"issued", "part_paid", "paid", "void"}
<1> DEFINE OutPay == \A p \in Pays :
             payments[p].status # "none" => Issued(payments[p].doc)
<1>s. \A d \in Docs : /\ Issued(d) => Issued(d)'
                      /\ docs[d].status # "none" => docs'[d].status # "none"
  BY StaysOut
<1>k. \A r \in Requests : req'[r] = req[r] => OutReq(r)'
  BY <1>s DEF OutInv, TypeInv, Refs, Issued
<1>i. \A r \in Requests : req'[r] = Idle => OutReq(r)'
  BY DEF Idle
<1>1. ASSUME NEW r \in Requests, Begin(r)
      PROVE  OutReq(r)'
  <2>1. docs' = docs
    BY <1>1, BeginSteps DEF books
  <2>2. CASE BeginBill(r)
    BY <2>2 DEF BeginBill, TypeInv, TypeOK, Idle
  <2>3. ASSUME NEW d \in Docs, NEW h,
               docs[d].status # "none", h.op \in {"void", "pay", "unpay"} => Issued(d),
               h.doc = d, h.at # "store", Enter(r, h)
        PROVE  OutReq(r)'
    <3>1. req'[r] = h
      BY <2>3 DEF Enter, TypeInv, TypeOK
    <3> QED
      BY <2>1, <2>3, <3>1 DEF Issued
  <2>4. ASSUME NEW d \in Docs, BeginUpdate(r, d) PROVE OutReq(r)'
    BY <2>3, <2>4 DEF BeginUpdate, Idle
  <2>5. ASSUME NEW d \in Docs, BeginIssue(r, d) PROVE OutReq(r)'
    BY <2>3, <2>5 DEF BeginIssue, Idle
  <2>6. ASSUME NEW d \in Docs, BeginVoid(r, d) PROVE OutReq(r)'
    BY <2>3, <2>6 DEF BeginVoid, Idle, Issued
  <2>7. ASSUME NEW d \in Docs, BeginPayment(r, d) PROVE OutReq(r)'
    BY <2>3, <2>7 DEF BeginPayment, Idle, Issued
  <2>8. ASSUME NEW p \in Pays, BeginDeletePayment(r, p) PROVE OutReq(r)'
    <3>1. payments[p].doc \in Docs /\ Issued(payments[p].doc)
      BY <2>8 DEF BeginDeletePayment, TypeInv, Refs, OutInv
    <3> QED
      BY <2>3, <2>8, <3>1 DEF BeginDeletePayment, Idle, Issued
  <2> QED
    BY <1>1, <2>2, <2>4, <2>5, <2>6, <2>7, <2>8 DEF Begin
<1>2. ASSUME NEW r \in Requests, Go(r)
      PROVE  OutReq(r)'
  <2>1. CASE req'[r] = Idle
    BY <2>1, <1>i
  <2>2. CASE Goes(r)
    <3>1. /\ req'[r].op \notin {"idle", "bill"} => docs'[req'[r].doc].status # "none"
          /\ req'[r].op \in {"void", "pay", "unpay"} => Issued(req[r].doc)'
      BY <2>2, <1>s DEF Goes, OutInv, TypeInv, Refs
    <3>2. ASSUME req'[r].at = "store", req'[r] # Idle
          PROVE  req'[r].status \in {"issued", "part_paid", "paid", "void"}
      <4>1. \A step \in {"reverse", "stamp", "remove", "sum"} : ~Goto(r, step)
        BY <3>2 DEF Goto, TypeInv, TypeOK, Handler
      <4>2. ~Leave(r) /\ ~Fail(r)
        BY <3>2 DEF Leave, Fail, TypeInv, TypeOK
      <4>3. SumPayments(r)
        BY <1>2, <4>1, <4>2 DEF Go, UpdateDraft, Bill, Issue, CheckReversal, Reverse,
                  StampVoid, RemovePayment, RecordPayment, StorePaid
      <4>4. req'[r].status = docs[req[r].doc].status
        BY <4>3 DEF SumPayments, TypeInv, TypeOK, Handler
      <4>5. Issued(req[r].doc)
        BY <4>3 DEF SumPayments, OutInv, TypeInv, Refs
      <4> QED
        BY <4>4, <4>5 DEF Issued
    <3>3. req'[r].doc = req[r].doc
      BY <2>2 DEF Goes
    <3> QED
      BY <3>1, <3>2, <3>3, <1>i DEF Issued
  <2> QED
    BY <1>2, <2>1, <2>2, GoSteps
<1>3. \A r \in Requests : OutReq(r)'
  <2>1. ASSUME NEW r \in Requests, Begin(r) \/ Go(r) PROVE \A o \in Requests : OutReq(o)'
    BY <2>1, <1>1, <1>2, <1>k, BeginSteps, GoSteps DEF Others
  <2>2. CASE Aside \/ UNCHANGED vars
    BY <2>2, <1>k, AsideSteps DEF vars
  <2> QED
    BY <2>1, <2>2, Steps
<1>4. OutPay'
  <2>1. ASSUME NEW r \in Requests, RecordPayment(r) PROVE OutPay'
    <3>1. PICK q \in Pays : payments' = [payments EXCEPT ![q] =
            [status |-> "kept", doc |-> req[r].doc, amount |-> req[r].total,
             day |-> req[r].day]]
      BY <2>1 DEF RecordPayment
    <3>2. /\ payments'[q].doc = req[r].doc
          /\ \A p \in Pays : p # q => payments'[p] = payments[p]
      BY <3>1 DEF TypeInv, TypeOK
    <3>3. req[r].doc \in Docs /\ Issued(req[r].doc)
      BY <2>1 DEF RecordPayment, OutInv, TypeInv, Refs
    <3> QED
      BY <2>1, <3>2, <3>3, <1>s DEF RecordPayment, OutInv, TypeInv, Refs, Issued
  <2>2. ASSUME NEW r \in Requests, RemovePayment(r) PROVE OutPay'
    <3>1. \A p \in Pays : /\ payments'[p].doc = payments[p].doc
                          /\ payments[p].status = "none" => payments'[p].status = "none"
      BY <2>2 DEF RemovePayment, TypeInv, TypeOK, Receipt
    <3> QED
      BY <2>2, <3>1, <1>s DEF RemovePayment, OutInv, TypeInv, Refs, Issued
  <2>3. ASSUME payments' = payments PROVE OutPay'
    BY <2>3, <1>s DEF OutInv, TypeInv, Refs, Issued
  <2>4. ASSUME NEW r \in Requests, Begin(r) PROVE OutPay'
    BY <2>4, <2>3, BeginSteps DEF books
  <2>5. ASSUME NEW r \in Requests, Go(r) PROVE OutPay'
    BY <2>5, <2>1, <2>2, <2>3 DEF Go, UpdateDraft, Bill, CreateInvoice, Issue,
       CheckReversal, Reverse, StampVoid, SumPayments, StorePaid, Fail, books
  <2>6. CASE Aside \/ UNCHANGED vars
    BY <2>6, <2>3 DEF Aside, CreateDraft, CreditNote, CreateInvoice, SetLock, Flag,
       DeleteDraft, vars, books
  <2> QED
    BY <2>4, <2>5, <2>6, Steps
<1> QED
  BY <1>3, <1>4 DEF OutInv


\* Handlers and payments name documents that are out, always.
LEMMA OutInvariant == Spec => [](TypeInv /\ OutInv)
<1>1. TypeInv /\ OutInv /\ [Next]_vars => (TypeInv /\ OutInv)'
  BY OutStep, TypeStep
<1> QED
  BY <1>1, TypeInit, OutInit, PTL DEF Spec

-----------------------------------------------------------------------------
(* Numbers, and what has gone out stands                                   *)

\* A document that has gone out keeps what it said, whatever handlers overlap.
THEOREM IssuedStays == Spec => IssuedStands
<1> DEFINE Stands == \A d \in Docs : Issued(d) =>
             /\ Issued(d)'
             /\ \A f \in {"kind", "day", "time", "total", "number", "entry"} :
                    docs'[d][f] = docs[d][f]
<1>1. TypeInv /\ OutInv /\ [Next]_vars => Stands
  <2> SUFFICES ASSUME TypeInv, OutInv, [Next]_vars PROVE Stands
    OBVIOUS
  <2>1. CASE Quiet
    BY <2>1 DEF Quiet, Issued
  <2>2. ASSUME NEW r \in Requests, Issue(r) PROVE Stands
    BY <2>2, IssueSteps DEF Issued
  <2> QED
    BY <2>1, <2>2, QuietSteps
<1> QED
  BY <1>1, OutInvariant, PTL DEF Spec, IssuedStands

\* The numbers of one kind are 1, 2, ... and no number is on two documents.
Numbered(kind) ==
    /\ \A d \in Docs : Issued(d) /\ docs[d].kind = kind =>
            docs[d].number \in 1 .. next[kind] - 1
    /\ \A n \in 1 .. next[kind] - 1 :
            \E d \in Docs : Issued(d) /\ docs[d].kind = kind /\ docs[d].number = n
    /\ \A d, e \in Docs :
            Issued(d) /\ Issued(e) /\ docs[d].kind = kind /\ docs[e].kind = kind
                /\ docs[d].number = docs[e].number => d = e

\* Numbered says what NumbersInSequence says, element by element.
LEMMA NumberedSuffices == (\A kind \in Kinds : Numbered(kind)) => NumbersInSequence
<1> SUFFICES ASSUME \A kind \in Kinds : Numbered(kind), NEW kind \in Kinds
             PROVE  LET given == { d \in Docs : Issued(d) /\ docs[d].kind = kind }
                    IN /\ { docs[d].number : d \in given } = 1 .. next[kind] - 1
                       /\ \A d, e \in given : docs[d].number = docs[e].number => d = e
  BY DEF NumbersInSequence
<1> DEFINE given == { d \in Docs : Issued(d) /\ docs[d].kind = kind }
<1>1. { docs[d].number : d \in given } = 1 .. next[kind] - 1
  BY DEF Numbered
<1>2. \A d, e \in given : docs[d].number = docs[e].number => d = e
  BY DEF Numbered
<1> QED
  BY <1>1, <1>2

\* Initially no number is given.
LEMMA NumberedInit == Init => \A kind \in Kinds : Numbered(kind)
BY DEF Init, Numbered, Issued, NoDoc

\* The one step that gives a number gives the next one, to a document that had
\* none.
LEMMA NumberedStep ==
    TypeInv /\ OutInv /\ (\A kind \in Kinds : Numbered(kind)) /\ [Next]_vars =>
        (\A kind \in Kinds : Numbered(kind))'
<1> SUFFICES ASSUME TypeInv, OutInv, \A k \in Kinds : Numbered(k), [Next]_vars,
                    NEW kind \in Kinds
             PROVE  Numbered(kind)'
  OBVIOUS
<1>1. CASE Quiet
  <2>1. \A d \in Docs : Issued(d)' /\ docs'[d].kind = kind <=>
                        Issued(d) /\ docs[d].kind = kind
    BY <1>1 DEF Quiet
  <2>2. \A d \in Docs : Issued(d) => docs'[d].number = docs[d].number
    BY <1>1 DEF Quiet
  <2> QED
    BY <1>1, <2>1, <2>2 DEF Quiet, Numbered
<1>2. ASSUME NEW r \in Requests, Issue(r) PROVE Numbered(kind)'
  <2> DEFINE d == req[r].doc
  <2>1. /\ d \in Docs /\ ~Issued(d) /\ docs'[d].status = "issued"
        /\ docs'[d].kind = docs[d].kind /\ docs'[d].number = next[docs[d].kind]
        /\ next' = [next EXCEPT ![docs[d].kind] = @ + 1]
        /\ \A e \in Docs : e # d => docs'[e] = docs[e]
    BY <1>2, IssueSteps
  <2>2. docs[d].kind \in Kinds /\ next \in [Kinds -> Nat \ {0}]
    BY <2>1 DEF TypeInv, TypeOK, Document
  <2>3. \A e \in Docs : Issued(e)' <=> Issued(e) \/ e = d
    BY <2>1 DEF Issued
  <2> HIDE DEF d
  <2>4. CASE docs[d].kind = kind
    <3>1. next'[kind] = next[kind] + 1 /\ next[kind] \in Nat \ {0}
      BY <2>1, <2>2, <2>4
    <3>2. \A e \in Docs : Issued(e)' /\ docs'[e].kind = kind =>
              docs'[e].number \in 1 .. next'[kind] - 1
      BY <2>1, <2>3, <2>4, <3>1 DEF Numbered
    <3>3. \A n \in 1 .. next'[kind] - 1 :
              \E e \in Docs : Issued(e)' /\ docs'[e].kind = kind /\ docs'[e].number = n
      <4> TAKE n \in 1 .. next'[kind] - 1
      <4>1. CASE n = next[kind]
        BY <4>1, <2>1, <2>3, <2>4
      <4>2. CASE n # next[kind]
        <5>1. n \in 1 .. next[kind] - 1
          BY <4>2, <3>1
        <5>2. PICK e \in Docs : Issued(e) /\ docs[e].kind = kind /\ docs[e].number = n
          BY <5>1 DEF Numbered
        <5> QED
          BY <5>2, <2>1, <2>3
      <4> QED
        BY <4>1, <4>2
    <3>4. \A e, f \in Docs :
              Issued(e)' /\ Issued(f)' /\ docs'[e].kind = kind /\ docs'[f].kind = kind
                  /\ docs'[e].number = docs'[f].number => e = f
      <4>1. \A e \in Docs : e # d /\ Issued(e)' /\ docs'[e].kind = kind =>
                docs'[e].number # next[kind]
        BY <2>1, <2>3, <3>1 DEF Numbered
      <4> QED
        BY <4>1, <2>1, <2>3, <2>4 DEF Numbered
    <3> QED
      BY <3>2, <3>3, <3>4 DEF Numbered
  <2>5. CASE docs[d].kind # kind
    <3>1. next'[kind] = next[kind]
      BY <2>1, <2>2, <2>5
    <3> QED
      BY <3>1, <2>1, <2>3, <2>5 DEF Numbered
  <2> QED
    BY <2>4, <2>5
<1> QED
  BY <1>1, <1>2, QuietSteps

\* The numbers given are without a gap and each is on one document.
THEOREM NumbersGapFree == Spec => []NumbersInSequence
<1> DEFINE All == \A kind \in Kinds : Numbered(kind)
<1>1. Init => All
  BY NumberedInit
<1>2. TypeInv /\ OutInv /\ All /\ [Next]_vars => All'
  BY NumberedStep
<1>3. All => NumbersInSequence
  BY NumberedSuffices
<1> HIDE DEF All
<1> QED
  BY <1>1, <1>2, <1>3, OutInvariant, PTL DEF Spec

-----------------------------------------------------------------------------
(* Documents two handlers work on                                          *)

\* Of a document two handlers work on, history tells.
Marked ==
    \A r, o \in Requests : \A d \in Docs :
        r # o /\ Works(r, d) /\ Works(o, d) => d \in crossed

LEMMA MarkedStep == TypeInv /\ Marked /\ [Next]_vars => Marked'
<1> SUFFICES ASSUME TypeInv, Marked, [Next]_vars PROVE Marked'
  OBVIOUS
<1>1. ASSUME NEW r \in Requests, Begin(r) PROVE Marked'
  <2>1. ASSUME NEW o \in Requests, NEW d \in Docs, o # r, Works(r, d)', Works(o, d)'
        PROVE  d \in crossed'
    BY <1>1, <2>1, BeginSteps DEF Works, Others
  <2>2. ASSUME NEW a \in Requests, NEW o \in Requests, NEW d \in Docs, a # o,
               a # r, o # r, Works(a, d)', Works(o, d)'
        PROVE  d \in crossed'
    BY <1>1, <2>2, BeginSteps DEF Works, Others, Marked
  <2> QED
    BY <2>1, <2>2 DEF Marked
<1>2. ASSUME NEW r \in Requests, Go(r) PROVE Marked'
  <2>1. \A o \in Requests, d \in Docs : Works(o, d)' => Works(o, d)
    BY <1>2, GoSteps DEF Works, Others, Goes, Idle
  <2> QED
    BY <1>2, <2>1, GoSteps DEF Marked
<1>3. CASE Aside \/ UNCHANGED vars
  BY <1>3, AsideSteps DEF vars, Marked, Works
<1> QED
  BY <1>1, <1>2, <1>3, Steps

\* What a handler may do to a document it works on.
Worked(r, d) ==
    \/ /\ req[r].op = "update" /\ docs[d].status = "draft"
       /\ docs'[d].status = "draft" /\ docs'[d].time \subseteq req[r].time
    \/ /\ docs[d].status = "draft" /\ docs'[d].status = "issued"
       /\ docs'[d].time = docs[d].time
    \/ docs'[d].status = "void" /\ docs'[d].time = docs[d].time
    \/ /\ req[r].at = "store" /\ Issued(d) /\ Issued(d)'
       /\ req[r].status = "void" => docs'[d].status = "void"
       /\ docs'[d].time = docs[d].time

\* A draft comes into being.
LEMMA Drafted ==
    ASSUME TypeInv, NEW kind, NEW day, NEW total, NEW time,
           CreateInvoice(kind, day, total, time)
    PROVE  \E d \in Docs :
             /\ docs[d].status = "none" /\ docs'[d].status = "draft"
             /\ docs'[d].time = time
             /\ \A e \in Docs : e # d => docs'[e] = docs[e]
<1>1. PICK d \in Docs :
        /\ docs[d].status = "none"
        /\ docs' = [docs EXCEPT ![d] = [NoDoc EXCEPT !.kind = kind,
                        !.status = "draft", !.day = day, !.total = total, !.time = time]]
  BY DEF CreateInvoice, NextDoc
<1> QED
  BY <1>1 DEF TypeInv, TypeOK, NoDoc

\* A step changes one document at most: it drafts it, deletes it, or is a step
\* of a handler that works on it.
LEMMA DocSteps ==
    ASSUME TypeInv, OutInv, [Next]_vars
    PROVE  \/ docs' = docs
           \/ \E d \in Docs :
                /\ \A e \in Docs : e # d => docs'[e] = docs[e]
                /\ \/ /\ docs[d].status = "none" /\ docs'[d].status = "draft"
                      /\ \/ docs'[d].time = {}
                         \/ \E r \in Requests : /\ req[r].op = "bill" /\ req'[r] = Idle
                                                /\ docs'[d].time = req[r].time
                   \/ docs[d].status = "draft" /\ docs'[d].status = "deleted"
                   \/ \E r \in Requests : Works(r, d) /\ req'[r] = Idle /\ Worked(r, d)
<1> DEFINE Goal ==
           \/ docs' = docs
           \/ \E d \in Docs :
                /\ \A e \in Docs : e # d => docs'[e] = docs[e]
                /\ \/ /\ docs[d].status = "none" /\ docs'[d].status = "draft"
                      /\ \/ docs'[d].time = {}
                         \/ \E r \in Requests : /\ req[r].op = "bill" /\ req'[r] = Idle
                                                /\ docs'[d].time = req[r].time
                   \/ docs[d].status = "draft" /\ docs'[d].status = "deleted"
                   \/ \E r \in Requests : Works(r, d) /\ req'[r] = Idle /\ Worked(r, d)
<1>d. docs \in [Docs -> Document]
  BY DEF TypeInv, TypeOK
<1>1. ASSUME NEW r \in Requests, Begin(r) PROVE Goal
  BY <1>1, BeginSteps DEF books
<1>l. ASSUME NEW r \in Requests, Leave(r) PROVE req'[r] = Idle
  BY <1>l, HandlerSteps
<1>w. ASSUME NEW r \in Requests, Leave(r), NEW d \in Docs, Works(r, d), Worked(r, d),
             \A e \in Docs : e # d => docs'[e] = docs[e]
      PROVE  Goal
  BY <1>w, <1>l
<1>2. ASSUME NEW r \in Requests, Go(r) PROVE Goal
  <2>1. CASE UpdateDraft(r)
    <3>1. PICK day \in Days, total \in Amounts, time \in SUBSET req[r].time :
            docs' = [docs EXCEPT ![req[r].doc] =
                        [@ EXCEPT !.day = day, !.total = total, !.time = time]]
      BY <2>1 DEF UpdateDraft
    <3>2. PICK d \in Docs : d = req[r].doc /\ Works(r, d) /\ docs[d].status = "draft"
      BY <2>1 DEF UpdateDraft, TypeInv, Refs, Works
    <3>3. /\ docs'[d] = [docs[d] EXCEPT !.day = day, !.total = total, !.time = time]
          /\ \A e \in Docs : e # d => docs'[e] = docs[e]
      BY <3>1, <3>2, <1>d
    <3>4. docs'[d].status = "draft" /\ docs'[d].time = time
      BY <3>2, <3>3, <1>d DEF Document
    <3>5. Worked(r, d)
      BY <2>1, <3>2, <3>4 DEF UpdateDraft, Worked
    <3> QED
      BY <2>1, <3>2, <3>3, <3>5, <1>w, SMTT(30) DEF UpdateDraft
  <2>2. CASE Bill(r)
    BY <2>2, <1>l, Drafted DEF Bill
  <2>3. CASE Issue(r)
    <3>1. PICK d \in Docs : d = req[r].doc /\ Works(r, d)
      BY <2>3 DEF Issue, TypeInv, Refs, Works
    <3>2. Worked(r, d) /\ \A e \in Docs : e # d => docs'[e] = docs[e]
      BY <2>3, <3>1, IssueSteps DEF Worked
    <3> QED
      BY <2>3, <3>1, <3>2, <1>w DEF Issue
  <2>4. CASE StampVoid(r)
    <3>1. PICK d \in Docs : d = req[r].doc /\ Works(r, d)
      BY <2>4 DEF StampVoid, TypeInv, Refs, Works
    <3>2. /\ docs'[d] = [docs[d] EXCEPT !.status = "void"]
          /\ \A e \in Docs : e # d => docs'[e] = docs[e]
      BY <2>4, <3>1, <1>d DEF StampVoid
    <3>3. docs'[d].status = "void" /\ docs'[d].time = docs[d].time
      BY <3>2, <1>d DEF Document
    <3>4. Worked(r, d)
      BY <3>3 DEF Worked
    <3> QED
      BY <2>4, <3>1, <3>2, <3>4, <1>w DEF StampVoid
  <2>5. CASE StorePaid(r)
    <3> DEFINE status == PaymentStatus(req[r].status, req[r].total,
                                       docs[req[r].doc].total)
    <3>1. PICK d \in Docs : d = req[r].doc /\ Works(r, d) /\ Issued(d)
      BY <2>5 DEF StorePaid, TypeInv, Refs, Works, OutInv
    <3>2. req[r].status \in {"issued", "part_paid", "paid", "void"}
      BY <2>5 DEF StorePaid, OutInv
    <3>3. /\ status \in {"issued", "part_paid", "paid", "void"}
          /\ req[r].status = "void" => status = "void"
      BY <3>2 DEF PaymentStatus
    <3>4. docs' = [docs EXCEPT ![req[r].doc] =
                      [@ EXCEPT !.paid = req[r].total, !.status = status]]
      BY <2>5 DEF StorePaid
    <3> HIDE DEF status
    <3>5. /\ docs'[d] = [docs[d] EXCEPT !.paid = req[r].total, !.status = status]
          /\ \A e \in Docs : e # d => docs'[e] = docs[e]
      BY <3>1, <3>4, <1>d
    <3>6. docs'[d].status = status /\ docs'[d].time = docs[d].time
      BY <3>5, <1>d DEF Document
    <3>7. Worked(r, d)
      BY <2>5, <3>1, <3>3, <3>6 DEF StorePaid, Worked, Issued
    <3> QED
      BY <2>5, <3>1, <3>5, <3>7, <1>w DEF StorePaid
  <2>6. CASE CheckReversal(r) \/ Reverse(r) \/ RemovePayment(r) \/ RecordPayment(r)
             \/ SumPayments(r) \/ Fail(r)
    BY <2>6 DEF CheckReversal, Reverse, RemovePayment, RecordPayment, SumPayments,
                Fail, books
  <2> QED
    BY <1>2, <2>1, <2>2, <2>3, <2>4, <2>5, <2>6 DEF Go
<1>3. CASE Aside
  <2>1. CASE CreateDraft
    BY <2>1, Drafted DEF CreateDraft
  <2>2. CASE SetLock \/ Flag
    BY <2>2 DEF SetLock, Flag
  <2>3. ASSUME NEW d \in Docs, DeleteDraft(d) PROVE Goal
    <3>1. /\ docs[d].status = "draft" /\ docs'[d].status = "deleted"
          /\ \A e \in Docs : e # d => docs'[e] = docs[e]
      BY <2>3, <1>d DEF DeleteDraft, NoDoc
    <3> QED
      BY <3>1
  <2>4. ASSUME NEW d \in Docs, CreditNote(d) PROVE Goal
    BY <2>4, Drafted DEF CreditNote
  <2> QED
    BY <1>3, <2>1, <2>2, <2>3, <2>4 DEF Aside
<1>4. CASE UNCHANGED vars
  BY <1>4 DEF vars, books
<1> QED
  BY <1>1, <1>2, <1>3, <1>4, Steps

\* A document that a handler goes on working on, and no other does, stays as it
\* is, or is deleted.
LEMMA StaysMine ==
    ASSUME TypeInv, OutInv, Marked, [Next]_vars, NEW r \in Requests, NEW d \in Docs,
           Works(r, d), Works(r, d)', d \notin crossed
    PROVE  docs'[d] = docs[d] \/ docs'[d].status = "deleted"
<1>1. docs[d].status # "none"
  BY DEF OutInv, Works
<1>2. \A o \in Requests : Works(o, d) => req'[o] # Idle
  BY DEF Marked, Works, Idle
<1> QED
  BY <1>1, <1>2, DocSteps

-----------------------------------------------------------------------------
(* Locked periods                                                          *)

\* A day that is open, or was locked under the handlers in flight.
Open(day) == day \notin locked \/ day \in surprised

\* What a handler has checked holds until it writes, but for such a lock and
\* for a draft that another handler works on.
CheckedFor(r) ==
    /\ req[r].op = "issue" /\ req[r].doc \notin crossed
            /\ docs[req[r].doc].status = "draft" => Open(docs[req[r].doc].day)
    /\ req[r].op = "pay" /\ req[r].at = "write" => Open(req[r].day)
    /\ req[r].at = "reverse" => Open(Today)

PeriodInv == Marked /\ \A r \in Requests : CheckedFor(r)

\* While a handler goes on, what is open to it stays so.
LEMMA StaysOpen ==
    ASSUME TypeInv, [Next]_vars, NEW r \in Requests, req[r].op # "idle", req'[r] # Idle,
           NEW day, Open(day)
    PROVE  Open(day)'
<1>1. r \in InFlight
  BY DEF InFlight
<1>2. ASSUME NEW o \in Requests, Begin(o) PROVE Open(day)'
  BY <1>2, BeginSteps DEF Open, books
<1>3. ASSUME NEW o \in Requests, Go(o) PROVE Open(day)'
  <2>1. locked' = locked
    BY <1>3 DEF Go, UpdateDraft, Bill, CreateInvoice, Issue, CheckReversal, Reverse,
       StampVoid, RemovePayment, RecordPayment, SumPayments, StorePaid, Fail, books
  <2>2. surprised' = surprised
    BY <1>1, <1>3, GoSteps
  <2> QED
    BY <2>1, <2>2 DEF Open
<1>4. CASE SetLock
  BY <1>1, <1>4 DEF SetLock, Open
<1>5. CASE Aside /\ ~SetLock
  BY <1>5 DEF Aside, CreateDraft, CreditNote, CreateInvoice, Flag, DeleteDraft, Open
<1>6. CASE UNCHANGED vars
  BY <1>6 DEF vars, books, Open
<1> QED
  BY <1>2, <1>3, <1>4, <1>5, <1>6, Steps

LEMMA CheckedStays ==
    ASSUME TypeInv, OutInv, PeriodInv, [Next]_vars, NEW r \in Requests,
           req'[r] = req[r], crossed \subseteq crossed'
    PROVE  CheckedFor(r)'
<1>i. req'[r] = Idle => CheckedFor(r)'
  BY DEF CheckedFor, Idle
<1>c. CheckedFor(r)
  BY DEF PeriodInv
<1>1. ASSUME req[r].op = "issue", req[r].doc \notin crossed',
             docs'[req[r].doc].status = "draft", req'[r] # Idle
      PROVE  Open(docs[req[r].doc].day)'
  <2>1. PICK d \in Docs : d = req[r].doc /\ Works(r, d) /\ Works(r, d)'
    BY <1>1 DEF TypeInv, Refs, Works
  <2>2. docs'[d] = docs[d]
    BY <1>1, <2>1, StaysMine DEF PeriodInv
  <2>3. Open(docs[d].day)
    BY <1>1, <1>c, <2>1, <2>2 DEF CheckedFor
  <2> QED
    BY <1>1, <2>1, <2>2, <2>3, StaysOpen DEF Open
<1>2. ASSUME req[r].op = "pay", req[r].at = "write", req'[r] # Idle
      PROVE  Open(req[r].day)'
  <2>1. PICK day : day = req[r].day
    OBVIOUS
  <2>2. Open(day)
    BY <1>2, <1>c, <2>1 DEF CheckedFor
  <2>3. Open(day)'
    BY <1>2, <2>2, StaysOpen
  <2> QED
    BY <2>1, <2>3 DEF Open
<1>3. ASSUME req[r].at = "reverse", req'[r] # Idle PROVE Open(Today)'
  <2>1. req[r].op # "idle"
    BY <1>3 DEF TypeInv, Refs
  <2>2. Open(Today)
    BY <1>3, <1>c DEF CheckedFor
  <2> QED
    BY <1>3, <2>1, <2>2, StaysOpen
<1> QED
  BY <1>i, <1>1, <1>2, <1>3 DEF CheckedFor, Open

\* A handler that has just begun has just checked.
LEMMA CheckedBegins ==
    ASSUME TypeInv, NEW r \in Requests, Begin(r)
    PROVE  CheckedFor(r)'
<1>b. UNCHANGED <<docs, locked, surprised>>
  BY BeginSteps DEF books
<1>1. CASE BeginBill(r)
  <2>1. req'[r].op = "bill" /\ req'[r].at = "write"
    BY <1>1 DEF BeginBill, TypeInv, TypeOK, Idle
  <2> QED
    BY <2>1 DEF CheckedFor
<1>2. ASSUME NEW h, Enter(r, h), h.op \notin {"issue", "pay"}, h.at # "reverse"
      PROVE  CheckedFor(r)'
  BY <1>2 DEF Enter, TypeInv, TypeOK, CheckedFor
<1>3. ASSUME NEW d \in Docs, BeginUpdate(r, d) \/ BeginVoid(r, d) PROVE CheckedFor(r)'
  BY <1>2, <1>3 DEF BeginUpdate, BeginVoid, Idle
<1>4. ASSUME NEW p \in Pays, BeginDeletePayment(r, p) PROVE CheckedFor(r)'
  BY <1>2, <1>4 DEF BeginDeletePayment, Idle
<1>5. ASSUME NEW d \in Docs, BeginIssue(r, d) PROVE CheckedFor(r)'
  <2>1. req'[r] = [Idle EXCEPT !.op = "issue", !.doc = d, !.total = docs[d].total]
    BY <1>5 DEF BeginIssue, Enter, TypeInv, TypeOK
  <2>2. req'[r].op = "issue" /\ req'[r].doc = d /\ req'[r].at = "write"
    BY <2>1 DEF Idle
  <2> QED
    BY <1>5, <1>b, <2>2 DEF BeginIssue, CheckedFor, Open
<1>6. ASSUME NEW d \in Docs, BeginPayment(r, d) PROVE CheckedFor(r)'
  <2>1. PICK amount \in 1 .. docs[d].total - docs[d].paid, day \in Days \ locked :
          Enter(r, [Idle EXCEPT !.op = "pay", !.doc = d, !.total = amount, !.day = day])
    BY <1>6 DEF BeginPayment
  <2>2. req'[r] = [Idle EXCEPT !.op = "pay", !.doc = d, !.total = amount, !.day = day]
    BY <2>1 DEF Enter, TypeInv, TypeOK
  <2>3. req'[r].op = "pay" /\ req'[r].day = day /\ req'[r].at = "write"
    BY <2>2 DEF Idle
  <2> QED
    BY <1>b, <2>1, <2>3 DEF CheckedFor, Open
<1> QED
  BY <1>1, <1>3, <1>4, <1>5, <1>6 DEF Begin

\* A handler that goes on has written, or checks before it does.
LEMMA CheckedGoes ==
    ASSUME TypeInv, NEW r \in Requests, Go(r)
    PROVE  CheckedFor(r)'
<1>i. req'[r] = Idle => CheckedFor(r)'
  BY DEF CheckedFor, Idle
<1>h. req \in [Requests -> Handler] /\ req[r] \in Handler
  BY DEF TypeInv, TypeOK
<1>g. ASSUME NEW step \in {"reverse", "stamp", "remove", "sum"}, Goto(r, step),
             req[r].op # "issue"
      PROVE  req'[r].op # "issue" /\ req'[r].at = step
  <2>1. req'[r] = [req[r] EXCEPT !.at = step]
    BY <1>g, HandlerSteps
  <2> QED
    BY <1>g, <1>h, <2>1 DEF Handler
<1>1. CASE UpdateDraft(r) \/ Bill(r) \/ Issue(r) \/ StampVoid(r) \/ StorePaid(r)
  BY <1>1, <1>i, HandlerSteps DEF UpdateDraft, Bill, Issue, StampVoid, StorePaid
<1>2. CASE CheckReversal(r)
  <2>1. req[r].op # "issue" /\ Goto(r, "reverse") /\ locked' = locked /\ Today \notin locked
    BY <1>2 DEF CheckReversal, TypeInv, Refs, books
  <2>2. req'[r].op # "issue" /\ req'[r].at = "reverse"
    BY <2>1, <1>g
  <2> QED
    BY <2>1, <2>2 DEF CheckedFor, Open
<1>3. CASE Reverse(r) \/ RemovePayment(r) \/ RecordPayment(r)
  <2>1. PICK step \in {"stamp", "remove", "sum"} : Goto(r, step)
    BY <1>3 DEF Reverse, RemovePayment, RecordPayment
  <2>2. req[r].op # "issue"
    BY <1>3 DEF Reverse, RemovePayment, RecordPayment, TypeInv, Refs
  <2> QED
    BY <2>1, <2>2, <1>g DEF CheckedFor
<1>4. CASE SumPayments(r)
  <2>1. req'[r].op = req[r].op /\ req'[r].at = "store" /\ req[r].op # "issue"
    BY <1>4, <1>h DEF SumPayments, Handler, TypeInv, Refs
  <2> QED
    BY <2>1 DEF CheckedFor
<1>5. CASE Fail(r)
  BY <1>5, <1>h, <1>i DEF Fail
<1> QED
  BY <1>1, <1>2, <1>3, <1>4, <1>5 DEF Go

LEMMA PeriodStep == TypeInv /\ OutInv /\ PeriodInv /\ [Next]_vars => PeriodInv'
<1> SUFFICES ASSUME TypeInv, OutInv, PeriodInv, [Next]_vars, NEW r \in Requests
             PROVE  CheckedFor(r)'
  BY MarkedStep DEF PeriodInv
<1>1. ASSUME NEW o \in Requests, Begin(o) \/ Go(o) PROVE CheckedFor(r)'
  <2>1. CASE o = r
    BY <1>1, <2>1, CheckedBegins, CheckedGoes
  <2>2. CASE o # r
    BY <1>1, <2>2, BeginSteps, GoSteps, CheckedStays DEF Others
  <2> QED
    BY <2>1, <2>2
<1>2. CASE Aside \/ UNCHANGED vars
  BY <1>2, AsideSteps, CheckedStays DEF vars
<1> QED
  BY <1>1, <1>2, Steps

\* What posts is a handler's step, of one that had checked.
LEMMA PostsOpen ==
    ASSUME TypeInv, PeriodInv, [Next]_vars, NEW r \in Requests,
           req'[r] # req[r], receivable' # receivable
    PROVE  EntryDay(r) \notin locked \/ EntryDay(r) \in surprised \/ req[r].doc \in crossed
<1>1. Go(r)
  <2>1. \A o \in Requests : ~Begin(o)
    BY BeginSteps DEF books
  <2>2. ~Aside /\ ~UNCHANGED vars
    BY AsideSteps DEF vars
  <2>3. \A o \in Requests : Go(o) => o = r
    BY GoSteps DEF Others
  <2> QED
    BY <2>1, <2>2, <2>3, Steps
<1>2. Issue(r) \/ Reverse(r) \/ RecordPayment(r)
  BY <1>1 DEF Go, UpdateDraft, Bill, CreateInvoice, CheckReversal, StampVoid,
     RemovePayment, SumPayments, StorePaid, Fail, books
<1>c. CheckedFor(r)
  BY DEF PeriodInv
<1>3. CASE Issue(r)
  <2>1. req[r].at # "reverse" /\ req[r].op = "issue" /\ docs[req[r].doc].status = "draft"
    BY <1>3 DEF Issue, TypeInv, Refs
  <2>2. EntryDay(r) = docs[req[r].doc].day
    BY <2>1 DEF EntryDay
  <2> QED
    BY <1>c, <2>1, <2>2 DEF CheckedFor, Open
<1>4. CASE Reverse(r)
  <2>1. req[r].at = "reverse" /\ req[r].op # "issue"
    BY <1>4 DEF Reverse, TypeInv, Refs
  <2>2. EntryDay(r) = Today
    BY <2>1 DEF EntryDay
  <2> QED
    BY <1>c, <2>1, <2>2 DEF CheckedFor, Open
<1>5. CASE RecordPayment(r)
  <2>1. req[r].at = "write" /\ req[r].op = "pay"
    BY <1>5 DEF RecordPayment
  <2>2. EntryDay(r) = req[r].day
    BY <2>1 DEF EntryDay
  <2> QED
    BY <1>c, <2>1, <2>2 DEF CheckedFor, Open
<1> QED
  BY <1>2, <1>3, <1>4, <1>5

\* For any number of handlers, documents and days: nothing is posted into a
\* locked period, unless the lock came between the check and the posting, or
\* another handler worked on the document (service.go: checkPeriodOpen).
THEOREM NothingIntoLocked == Spec => PeriodsHold
<1> DEFINE Holds == \A r \in Requests :
         req'[r] # req[r] /\ receivable' # receivable =>
             \/ EntryDay(r) \notin locked \/ EntryDay(r) \in surprised
             \/ req[r].doc \in crossed
<1>1. Init => PeriodInv
  BY DEF Init, PeriodInv, Marked, CheckedFor, Works, Idle
<1>2. TypeInv /\ PeriodInv /\ [Next]_vars => [Holds]_vars
  BY PostsOpen
<1>3. TypeInv /\ OutInv /\ PeriodInv /\ [Next]_vars => PeriodInv'
  BY PeriodStep
<1> QED
  BY <1>1, <1>2, <1>3, OutInvariant, PTL DEF Spec, PeriodsHold

-----------------------------------------------------------------------------
(* Hours billed once                                                       *)

\* What a handler has read of the hours it bills, or of the draft it edits, is
\* as it was, but for the documents and hours that history names.
ReadBy(r) ==
    /\ req[r].op = "bill" =>
        \A t \in req[r].time \ contested : \A d \in Docs \ crossed :
            t \in docs[d].time => ~Live(d)
    /\ req[r].op = "update" /\ req[r].doc \notin crossed
            /\ docs[req[r].doc].status = "draft" =>
        req[r].time \subseteq docs[req[r].doc].time
    /\ req[r].at = "store" /\ req[r].doc \notin crossed
            /\ docs[req[r].doc].status = "void" => req[r].status = "void"

\* No two prepare a draft from one hour unnoticed.
Apart ==
    \A r, o \in Requests :
        r # o /\ req[r].op = "bill" /\ req[o].op = "bill" =>
            req[r].time \cap req[o].time \subseteq contested

HoursInv == Marked /\ Apart /\ BilledOnce /\ \A r \in Requests : ReadBy(r)

\* A document nobody else worked on bills an hour now that did so before, or
\* that a handler has just drafted.
LEMMA HoursFrom ==
    ASSUME TypeInv, OutInv, HoursInv, [Next]_vars, NEW d \in Docs \ crossed, NEW t,
           t \in docs'[d].time, Live(d)'
    PROVE  \/ t \in docs[d].time /\ Live(d)
           \/ /\ \E r \in Requests : /\ req[r].op = "bill" /\ req'[r] = Idle
                                     /\ t \in req[r].time
              /\ \A e \in Docs : e # d => docs'[e] = docs[e]
<1>1. CASE docs'[d] = docs[d]
  BY <1>1 DEF Live
<1>2. ASSUME docs[d].status = "draft", docs'[d].status = "deleted" PROVE FALSE
  BY <1>2 DEF Live, Statuses
<1>3. ASSUME NEW r \in Requests, Works(r, d), Worked(r, d)
      PROVE  t \in docs[d].time /\ Live(d)
  <2>r. ReadBy(r) /\ req[r].doc = d
    BY <1>3 DEF HoursInv, Works
  <2>1. CASE docs[d].status = "draft" /\ docs'[d].time \subseteq req[r].time
               /\ req[r].op = "update"
    BY <2>1, <2>r DEF ReadBy, Live, Statuses
  <2>2. CASE docs[d].status = "draft" /\ docs'[d].time = docs[d].time
    BY <2>2 DEF Live, Statuses
  <2>3. CASE docs'[d].status = "void"
    BY <2>3 DEF Live
  <2>4. CASE /\ req[r].at = "store" /\ Issued(d) /\ docs'[d].time = docs[d].time
             /\ req[r].status = "void" => docs'[d].status = "void"
    BY <2>4, <2>r DEF ReadBy, Live, Statuses, Issued
  <2> QED
    BY <1>3, <2>1, <2>2, <2>3, <2>4 DEF Worked
<1> QED
  BY <1>1, <1>2, <1>3, DocSteps

LEMMA BilledStep ==
    ASSUME TypeInv, OutInv, HoursInv, [Next]_vars, crossed \subseteq crossed',
           contested \subseteq contested'
    PROVE  BilledOnce'
<1> SUFFICES ASSUME NEW t \in Time \ contested', NEW d \in Docs \ crossed',
                    NEW e \in Docs \ crossed', Live(d)', Live(e)',
                    t \in docs'[d].time, t \in docs'[e].time, d # e
             PROVE  FALSE
  BY DEF BilledOnce
<1>1. \/ t \in docs[d].time /\ Live(d)
      \/ t \in docs[e].time /\ Live(e)
  <2>1. CASE \A a \in Docs : a # d => docs'[a] = docs[a]
    BY <2>1 DEF Live
  <2> QED
    BY <2>1, HoursFrom
<1>2. ASSUME NEW a \in {d, e}, NEW b \in {d, e}, a # b, t \in docs[a].time, Live(a),
             NEW r \in Requests, req[r].op = "bill", t \in req[r].time
      PROVE  FALSE
  BY <1>2 DEF HoursInv, ReadBy
<1>3. t \in docs[d].time /\ Live(d) /\ t \in docs[e].time /\ Live(e)
  BY <1>1, <1>2, HoursFrom
<1> QED
  BY <1>3 DEF HoursInv, BilledOnce

LEMMA ReadStays ==
    ASSUME TypeInv, OutInv, HoursInv, [Next]_vars, crossed \subseteq crossed',
           contested \subseteq contested', NEW r \in Requests, req'[r] = req[r]
    PROVE  ReadBy(r)'
<1>i. req'[r] = Idle => ReadBy(r)'
  BY DEF ReadBy, Idle
<1>c. ReadBy(r)
  BY DEF HoursInv
<1>1. ASSUME req[r].op = "bill", req'[r] # Idle, NEW t \in req[r].time \ contested',
             NEW d \in Docs \ crossed', t \in docs'[d].time, Live(d)'
      PROVE  FALSE
  <2>1. ~(t \in docs[d].time /\ Live(d))
    BY <1>1, <1>c DEF ReadBy
  <2>2. PICK o \in Requests : req[o].op = "bill" /\ req'[o] = Idle /\ t \in req[o].time
    BY <1>1, <2>1, HoursFrom
  <2>3. t \in contested
    BY <1>1, <2>2 DEF HoursInv, Apart
  <2> QED
    BY <1>1, <2>3
<1>m. ASSUME req[r].op \notin {"idle", "bill"}, req'[r] # Idle, req[r].doc \notin crossed'
      PROVE  \/ docs'[req[r].doc] = docs[req[r].doc]
             \/ docs'[req[r].doc].status = "deleted"
  <2>1. PICK d \in Docs : d = req[r].doc /\ Works(r, d) /\ Works(r, d)'
    BY <1>m DEF TypeInv, TypeOK, Handler, Refs, Works
  <2> QED
    BY <1>m, <2>1, StaysMine DEF HoursInv
<1>2. req[r].at = "store" => req[r].op \notin {"idle", "bill"}
  BY DEF TypeInv, Refs
<1>3. ASSUME req'[r] # Idle PROVE ReadBy(r)'
  <2>1. req[r].op = "bill" => \A t \in req[r].time \ contested' : \A d \in Docs \ crossed' :
            t \in docs'[d].time => ~Live(d)'
    BY <1>1, <1>3
  <2>2. req[r].op = "update" /\ req[r].doc \notin crossed'
            /\ docs'[req[r].doc].status = "draft" =>
        req[r].time \subseteq docs'[req[r].doc].time
    BY <1>3, <1>m, <1>c DEF ReadBy
  <2>3. req[r].at = "store" /\ req[r].doc \notin crossed'
            /\ docs'[req[r].doc].status = "void" => req[r].status = "void"
    BY <1>2, <1>3, <1>m, <1>c DEF ReadBy
  <2> QED
    BY <2>1, <2>2, <2>3 DEF ReadBy, Live
<1> QED
  BY <1>i, <1>3

LEMMA ReadBegins ==
    ASSUME TypeInv, NEW r \in Requests, Begin(r)
    PROVE  ReadBy(r)'
<1>b. docs' = docs
  BY BeginSteps DEF books
<1>1. CASE BeginBill(r)
  <2>1. PICK time \in SUBSET { t \in Time : Unbilled(t) } :
          req' = [req EXCEPT ![r] = [Idle EXCEPT !.op = "bill", !.time = time]]
    BY <1>1 DEF BeginBill
  <2>2. req'[r].op = "bill" /\ req'[r].at = "write" /\ req'[r].time = time
    BY <2>1 DEF TypeInv, TypeOK, Idle
  <2>3. \A t \in time : \A d \in Docs : t \in docs[d].time => docs[d].status = "void"
    BY <2>1 DEF Unbilled
  <2> QED
    BY <1>b, <2>2, <2>3 DEF ReadBy, Live
<1>2. ASSUME NEW h, Enter(r, h), h.op \notin {"bill", "update"}, h.at # "store"
      PROVE  ReadBy(r)'
  BY <1>2 DEF Enter, TypeInv, TypeOK, ReadBy
<1>3. ASSUME NEW d \in Docs, BeginIssue(r, d) \/ BeginVoid(r, d) PROVE ReadBy(r)'
  BY <1>2, <1>3 DEF BeginIssue, BeginVoid, Idle
<1>4. ASSUME NEW d \in Docs, BeginPayment(r, d) PROVE ReadBy(r)'
  <2>1. PICK amount \in 1 .. docs[d].total - docs[d].paid, day \in Days \ locked :
          Enter(r, [Idle EXCEPT !.op = "pay", !.doc = d, !.total = amount, !.day = day])
    BY <1>4 DEF BeginPayment
  <2> QED
    BY <2>1, <1>2 DEF Idle
<1>5. ASSUME NEW p \in Pays, BeginDeletePayment(r, p) PROVE ReadBy(r)'
  BY <1>2, <1>5 DEF BeginDeletePayment, Idle
<1>6. ASSUME NEW d \in Docs, BeginUpdate(r, d) PROVE ReadBy(r)'
  <2>1. req'[r] = [Idle EXCEPT !.op = "update", !.doc = d, !.time = docs[d].time]
    BY <1>6 DEF BeginUpdate, Enter, TypeInv, TypeOK
  <2>2. /\ req'[r].op = "update" /\ req'[r].doc = d /\ req'[r].at = "write"
        /\ req'[r].time = docs[d].time
    BY <2>1 DEF Idle
  <2> QED
    BY <1>b, <2>2 DEF ReadBy
<1> QED
  BY <1>1, <1>3, <1>4, <1>5, <1>6 DEF Begin

LEMMA ReadGoes ==
    ASSUME TypeInv, NEW r \in Requests, Go(r)
    PROVE  ReadBy(r)'
<1>i. req'[r] = Idle => ReadBy(r)'
  BY DEF ReadBy, Idle
<1>h. req \in [Requests -> Handler] /\ req[r] \in Handler
  BY DEF TypeInv, TypeOK
<1>g. ASSUME NEW step \in {"reverse", "stamp", "remove", "sum"}, Goto(r, step),
             req[r].op \notin {"bill", "update"}
      PROVE  ReadBy(r)'
  <2>1. req'[r] = [req[r] EXCEPT !.at = step]
    BY <1>g, HandlerSteps
  <2>2. req'[r].op \notin {"bill", "update"} /\ req'[r].at = step
    BY <1>g, <1>h, <2>1 DEF Handler
  <2> QED
    BY <2>2 DEF ReadBy
<1>1. CASE UpdateDraft(r) \/ Bill(r) \/ Issue(r) \/ StampVoid(r) \/ StorePaid(r)
  BY <1>1, <1>i, HandlerSteps DEF UpdateDraft, Bill, Issue, StampVoid, StorePaid
<1>2. CASE CheckReversal(r) \/ Reverse(r) \/ RemovePayment(r) \/ RecordPayment(r)
  <2>1. req[r].op \notin {"bill", "update"}
    BY <1>2 DEF CheckReversal, Reverse, RemovePayment, RecordPayment, TypeInv, Refs
  <2> QED
    BY <1>2, <2>1, <1>g DEF CheckReversal, Reverse, RemovePayment, RecordPayment
<1>3. CASE SumPayments(r)
  <2>1. /\ req'[r].op = req[r].op /\ req[r].op \notin {"bill", "update"}
        /\ req'[r].doc = req[r].doc /\ req'[r].status = docs[req[r].doc].status
        /\ docs' = docs
    BY <1>3, <1>h DEF SumPayments, Handler, TypeInv, Refs, books
  <2> QED
    BY <2>1 DEF ReadBy
<1>4. CASE Fail(r)
  BY <1>4, <1>h, <1>i DEF Fail
<1> QED
  BY <1>1, <1>2, <1>3, <1>4 DEF Go

\* Who prepares a draft from hours another has read is noticed.
LEMMA ApartStep == TypeInv /\ Apart /\ [Next]_vars => Apart'
<1> SUFFICES ASSUME TypeInv, Apart, [Next]_vars PROVE Apart'
  OBVIOUS
<1>1. ASSUME NEW r \in Requests, Begin(r) PROVE Apart'
  <2>1. ASSUME req'[r].op = "bill", NEW o \in Requests, o # r
        PROVE  req'[r].time \cap req'[o].time \subseteq contested'
    <3>1. BeginBill(r)
      <4>1. ASSUME NEW h, Enter(r, h), h.op # "bill" PROVE FALSE
        BY <2>1, <4>1 DEF Enter, TypeInv, TypeOK
      <4>2. ASSUME NEW d \in Docs,
                   BeginUpdate(r, d) \/ BeginIssue(r, d) \/ BeginVoid(r, d)
            PROVE  FALSE
        BY <4>1, <4>2 DEF BeginUpdate, BeginIssue, BeginVoid, Idle
      <4>3. ASSUME NEW d \in Docs, BeginPayment(r, d) PROVE FALSE
        <5>1. PICK amount \in 1 .. docs[d].total - docs[d].paid, day \in Days \ locked :
                Enter(r, [Idle EXCEPT !.op = "pay", !.doc = d, !.total = amount, !.day = day])
          BY <4>3 DEF BeginPayment
        <5> QED
          BY <4>1, <5>1 DEF Idle
      <4>4. ASSUME NEW p \in Pays, BeginDeletePayment(r, p) PROVE FALSE
        BY <4>1, <4>4 DEF BeginDeletePayment, Idle
      <4> QED
        BY <1>1, <4>2, <4>3, <4>4 DEF Begin
    <3>2. PICK time \in SUBSET Time :
            /\ req' = [req EXCEPT ![r] = [Idle EXCEPT !.op = "bill", !.time = time]]
            /\ contested' = contested \cup (time \cap UNION { req[q].time : q \in Requests })
      BY <3>1 DEF BeginBill
    <3>3. req'[r].time = time /\ req'[o] = req[o]
      BY <2>1, <3>2 DEF TypeInv, TypeOK, Idle
    <3> QED
      BY <3>2, <3>3
  <2>2. Others(r) /\ contested \subseteq contested'
    BY <1>1, BeginSteps
  <2> QED
    BY <2>1, <2>2 DEF Apart, Others
<1>2. ASSUME NEW r \in Requests, Go(r) PROVE Apart'
  BY <1>2, GoSteps DEF Goes, Others, Idle, Apart
<1>3. CASE Aside \/ UNCHANGED vars
  BY <1>3, AsideSteps DEF vars, Apart
<1> QED
  BY <1>1, <1>2, <1>3, Steps

LEMMA HoursStep == TypeInv /\ OutInv /\ HoursInv /\ [Next]_vars => HoursInv'
<1> SUFFICES ASSUME TypeInv, OutInv, HoursInv, [Next]_vars PROVE HoursInv'
  OBVIOUS
<1>g. crossed \subseteq crossed' /\ contested \subseteq contested'
  BY Steps, BeginSteps, GoSteps, AsideSteps DEF vars
<1>1. ASSUME NEW r \in Requests PROVE ReadBy(r)'
  <2>1. ASSUME NEW o \in Requests, Begin(o) \/ Go(o) PROVE ReadBy(r)'
    <3>1. CASE o = r
      BY <2>1, <3>1, ReadBegins, ReadGoes
    <3>2. CASE o # r
      BY <1>g, <2>1, <3>2, BeginSteps, GoSteps, ReadStays DEF Others
    <3> QED
      BY <3>1, <3>2
  <2>2. CASE Aside \/ UNCHANGED vars
    BY <1>g, <2>2, AsideSteps, ReadStays DEF vars
  <2> QED
    BY <2>1, <2>2, Steps
<1> QED
  BY <1>1, <1>g, MarkedStep, ApartStep, BilledStep DEF HoursInv

\* For any number of handlers, documents and hours: an hour is on one document
\* that is not void, unless two drafts were prepared from it at once, or the
\* document was worked on by two handlers or left half done (crm_bridge.go:
\* UnbilledTime, DraftFromUnbilledTime).
THEOREM HoursBilledOnce == Spec => []BilledOnce
<1>1. Init => HoursInv
  BY DEF Init, HoursInv, Marked, Apart, BilledOnce, ReadBy, Works, Idle, Live, NoDoc, Statuses
<1>2. TypeInv /\ OutInv /\ HoursInv /\ [Next]_vars => HoursInv'
  BY HoursStep
<1>3. HoursInv => BilledOnce
  BY DEF HoursInv
<1> QED
  BY <1>1, <1>2, <1>3, OutInvariant, PTL DEF Spec

-----------------------------------------------------------------------------
(* What was received                                                       *)

Kept(P, d) == { p \in Pays : P[p].status = "kept" /\ P[p].doc = d }
ReceivedIn(P, d) == MapThenSumSet(LAMBDA p : P[p].amount, Kept(P, d))

LEMMA ReceivedNow == \A d : Received(d) = ReceivedIn(payments, d)
BY DEF Received, PaymentsOf, ReceivedIn, Kept

LEMMA KeptIsFinite ==
    ASSUME NEW P, NEW d
    PROVE  IsFiniteSet(Kept(P, d)) /\ Kept(P, d) \subseteq Pays
<1>1. IsFiniteSet(Pays)
  BY BooksAssumption, FS_Interval DEF Pays
<1> QED
  BY <1>1, FS_Subset DEF Kept

\* It is a sum of amounts.
LEMMA ReceivedIsSum ==
    ASSUME NEW P, NEW d
    PROVE  ReceivedIn(P, d) = Sum([p \in Pays |-> P[p].amount], Kept(P, d))
<1> DEFINE F == [p \in Pays |-> P[p].amount]
           S == Kept(P, d)
           Adds(h) == h = [s \in SUBSET S |-> IF s = {} THEN 0
                             ELSE LET x == CHOOSE x \in s : TRUE IN P[x].amount + h[s \ {x}]]
           h == CHOOSE h : Adds(h)
<1>0. S \subseteq Pays /\ IsFiniteSet(S)
  BY KeptIsFinite
<1> HIDE DEF S
<1>1. ASSUME NEW g PROVE Adds(g) <=> Sums(F, S, g)
  BY <1>0 DEF Sums
<1>2. \E g : Adds(g)
  <2> HIDE DEF Adds, F
  <2> QED
    BY <1>0, <1>1, SumsExist
<1>3. Adds(h)
  <2> HIDE DEF Adds
  <2> QED
    BY <1>2
<1>4. ReceivedIn(P, d) = h[S]
  BY DEF S, ReceivedIn, MapThenSumSet, MapThenFoldSet
<1>5. PICK g : Sums(F, S, g) /\ Sum(F, S) = g[S]
  BY <1>0, SumIs
<1>6. Sums(F, S, h)
  <2> HIDE DEF Adds, F, h
  <2> QED
    BY <1>1, <1>3
<1>7. Alike(F, F, S, S, S)
  BY DEF Alike
<1> HIDE DEF h, F, Adds
<1>8. g[S] = h[S]
  BY <1>0, <1>5, <1>6, <1>7, SumsAgree
<1> QED
  BY <1>4, <1>5, <1>8 DEF F, S

\* Of two tables that keep the same payments of a document, it is the same.
LEMMA ReceivedSame ==
    ASSUME NEW P, NEW Q, NEW d, Kept(P, d) = Kept(Q, d),
           \A p \in Kept(P, d) : P[p].amount = Q[p].amount
    PROVE  ReceivedIn(P, d) = ReceivedIn(Q, d)
<1> DEFINE F == [p \in Pays |-> P[p].amount]
           H == [p \in Pays |-> Q[p].amount]
           S == Kept(P, d)
<1>1. IsFiniteSet(S) /\ S \subseteq Pays
  BY KeptIsFinite
<1>2. \A p \in S : F[p] = H[p]
  BY <1>1
<1>3. ReceivedIn(P, d) = Sum(F, S) /\ ReceivedIn(Q, d) = Sum(H, S)
  BY ReceivedIsSum
<1> HIDE DEF F, H, S
<1> QED
  BY <1>1, <1>2, <1>3, SumSame

\* A payment adds its amount.
LEMMA ReceivedMore ==
    ASSUME NEW P \in [Pays -> Receipt], NEW Q \in [Pays -> Receipt], NEW d, NEW p \in Pays,
           Kept(Q, d) = Kept(P, d) \cup {p}, p \notin Kept(P, d),
           \A o \in Kept(P, d) : Q[o].amount = P[o].amount
    PROVE  ReceivedIn(Q, d) = ReceivedIn(P, d) + Q[p].amount
<1> DEFINE F == [o \in Pays |-> P[o].amount]
           H == [o \in Pays |-> Q[o].amount]
           S == Kept(P, d)
<1>1. IsFiniteSet(S) /\ S \subseteq Pays
  BY KeptIsFinite
<1>2. /\ \A o \in S : F[o] = H[o]
      /\ \A o \in S : F[o] \in Int
      /\ \A o \in S \cup {p} : H[o] \in Int
      /\ H[p] = Q[p].amount
  BY <1>1 DEF Receipt
<1>3. ReceivedIn(P, d) = Sum(F, S) /\ ReceivedIn(Q, d) = Sum(H, S \cup {p})
  BY ReceivedIsSum
<1>4. p \notin S
  OBVIOUS
<1> HIDE DEF F, H, S
<1>5. Sum(H, S \cup {p}) = H[p] + Sum(H, S)
  BY <1>1, <1>2, <1>4, SumAdd
<1>6. Sum(F, S) = Sum(H, S) /\ Sum(F, S) \in Int /\ H[p] \in Int
  BY <1>1, <1>2, SumSame, SumTake
<1> QED
  BY <1>2, <1>3, <1>5, <1>6

LEMMA ReceivedType ==
    ASSUME NEW P \in [Pays -> Receipt], NEW d
    PROVE  /\ ReceivedIn(P, d) \in Nat
           /\ \A p \in Kept(P, d) : P[p].amount <= ReceivedIn(P, d)
           /\ Kept(P, d) = {} => ReceivedIn(P, d) = 0
<1> DEFINE F == [o \in Pays |-> P[o].amount]
           S == Kept(P, d)
<1>1. IsFiniteSet(S) /\ S \subseteq Pays
  BY KeptIsFinite
<1>2. \A o \in S : F[o] \in Nat /\ F[o] = P[o].amount
  BY <1>1 DEF Receipt
<1>3. ReceivedIn(P, d) = Sum(F, S)
  BY ReceivedIsSum
<1> HIDE DEF F
<1>4. Sum(F, S) \in Nat /\ \A o \in S : F[o] <= Sum(F, S)
  <2> HIDE DEF S
  <2> QED
    BY <1>1, <1>2, SumNat
<1>5. S = {} => Sum(F, S) = 0
  BY SumEmpty
<1> QED
  BY <1>2, <1>3, <1>4, <1>5

-----------------------------------------------------------------------------
(* The account of a document.  Nobody changes it but the handler at work   *)
(* on it, and what that handler has not done yet it owes.                  *)

\* The account of a document that no handler is at work on.
Settled(d) ==
    /\ receivable[d] = Owed(d)
    /\ docs[d].paid = Received(d)
    /\ docs[d].paid <= docs[d].total
    /\ docs[d].status = "void" => docs[d].paid = 0
    /\ docs[d].status \in {"issued", "part_paid", "paid"} =>
         docs[d].status = PaymentStatus("issued", docs[d].paid, docs[d].total)

\* What has gone out was entered in full, and what has not has no payment.
Terms(d) ==
    /\ Issued(d) => docs[d].entry = Sign(docs[d].kind) * docs[d].total
    /\ ~Issued(d) => docs[d].paid = 0

\* What a handler at work on a document owes to its account: nothing before it
\* writes; later what its next writes make good.
Owes(r, d) ==
    /\ ~HalfDone(r) => Settled(d)
    /\ req[r].op = "issue" /\ docs[d].status = "draft" => req[r].total = docs[d].total
    /\ req[r].op \in {"void", "pay", "unpay"} => docs[d].status # "void"
    /\ req[r].op = "void" => docs[d].paid = 0 /\ Received(d) = 0
    /\ req[r].at = "stamp" => receivable[d] = Owed(d) - docs[d].entry
    /\ req[r].op = "pay" /\ req[r].at = "write" =>
         req[r].total \in 1 .. docs[d].total - docs[d].paid
    /\ req[r].op = "unpay" /\ req[r].at \in {"check", "reverse", "remove"} =>
         payments[req[r].pay].status = "kept" /\ payments[req[r].pay].doc = d
    /\ req[r].at = "remove" =>
         receivable[d] = Owed(d) + payments[req[r].pay].amount
    /\ req[r].at \in {"sum", "store"} => receivable[d] = Owed(d)
    /\ HalfDone(r) => Received(d) <= docs[d].total
    /\ req[r].at = "store" => req[r].total = Received(d) /\ req[r].status = docs[d].status

\* The account of a document, whoever is at work on it.
InOrder(d) ==
    d \notin crossed =>
        /\ Terms(d)
        /\ (~\E r \in Requests : Works(r, d)) => Settled(d)
        /\ \A r \in Requests : Works(r, d) => Owes(r, d)

\* Payments are of something, and who deletes one works on its document.
Receipts ==
    /\ \A p \in Pays : payments[p].status = "kept" => payments[p].amount >= 1
    /\ \A r \in Requests :
        /\ req[r].op = "pay" /\ req[r].at = "write" => req[r].total >= 1
        /\ req[r].op = "unpay" => /\ payments[req[r].pay].status # "none"
                                  /\ payments[req[r].pay].doc = req[r].doc

LedgerInv == Marked /\ Receipts /\ \A d \in Docs : InOrder(d)

\* What a step may do to the payments.
LEMMA PaymentSteps ==
    ASSUME TypeInv, [Next]_vars
    PROVE  \/ payments' = payments
           \/ \E r \in Requests : Go(r) /\ (RecordPayment(r) \/ RemovePayment(r))
<1>1. ASSUME NEW r \in Requests, Begin(r) PROVE payments' = payments
  BY <1>1, BeginSteps DEF books
<1>2. ASSUME NEW r \in Requests, Go(r), ~RecordPayment(r), ~RemovePayment(r)
      PROVE  payments' = payments
  BY <1>2 DEF Go, UpdateDraft, Bill, CreateInvoice, Issue, CheckReversal, Reverse, StampVoid,
              SumPayments, StorePaid, Fail, books
<1>3. CASE Aside \/ UNCHANGED vars
  BY <1>3 DEF Aside, CreateDraft, CreateInvoice, SetLock, Flag, DeleteDraft, CreditNote,
              vars, books
<1> QED
  BY <1>1, <1>2, <1>3, Steps

\* A payment that is recorded is new, one that is removed was kept.
LEMMA RecordSteps ==
    ASSUME TypeInv, NEW r \in Requests, RecordPayment(r)
    PROVE  \E p \in Pays :
             /\ payments[p].status = "none"
             /\ payments'[p].status = "kept" /\ payments'[p].doc = req[r].doc
             /\ payments'[p].amount = req[r].total
             /\ \A q \in Pays : q # p => payments'[q] = payments[q]
             /\ req[r].op = "pay" /\ req[r].at = "write"
             /\ req[r].doc \in Docs
<1>1. PICK p \in Pays :
        /\ payments[p].status = "none"
        /\ payments' = [payments EXCEPT ![p] = [status |-> "kept", doc |-> req[r].doc,
                            amount |-> req[r].total, day |-> req[r].day]]
  BY DEF RecordPayment, NextPay
<1> QED
  BY <1>1 DEF RecordPayment, TypeInv, TypeOK, Refs

LEMMA RemoveSteps ==
    ASSUME TypeInv, NEW r \in Requests, RemovePayment(r)
    PROVE  LET p == req[r].pay IN
             /\ p \in Pays /\ req[r].op = "unpay" /\ req[r].at = "remove"
             /\ payments[p].status = "kept" /\ payments'[p].status = "deleted"
             /\ payments'[p].doc = payments[p].doc
             /\ payments'[p].amount = payments[p].amount
             /\ \A q \in Pays : q # p => payments'[q] = payments[q]
<1>1. /\ req[r].pay \in Pays /\ req[r].op = "unpay" /\ req[r].at = "remove"
      /\ payments[req[r].pay].status = "kept"
      /\ payments' = [payments EXCEPT ![req[r].pay].status = "deleted"]
  BY DEF RemovePayment, TypeInv, Refs
<1> QED
  BY <1>1 DEF TypeInv, TypeOK, Receipt

\* What a handler has found when it begins.
LEMMA BeginsAs ==
    ASSUME TypeInv, NEW r \in Requests, Begin(r)
    PROVE  LET h == req'[r]
               doc == docs[req'[r].doc]
           IN \/ h.op = "bill"
              \/ h.op = "update" /\ h.at = "write"
              \/ h.op = "issue" /\ h.at = "write" /\ h.total = doc.total
              \/ /\ h.op = "void" /\ h.at = "check"
                 /\ doc.status # "void" /\ doc.paid = 0
              \/ /\ h.op = "pay" /\ h.at = "write" /\ doc.status \in {"issued", "part_paid"}
                 /\ h.total >= 1 /\ h.total \in 1 .. doc.total - doc.paid
              \/ /\ h.op = "unpay" /\ h.at = "check" /\ h.pay \in Pays
                 /\ payments[h.pay].status = "kept" /\ payments[h.pay].doc = h.doc
<1>e. ASSUME NEW h, Enter(r, h) PROVE req'[r] = h
  BY <1>e DEF Enter, TypeInv, TypeOK
<1>1. ASSUME BeginBill(r) PROVE req'[r].op = "bill"
  <2>1. PICK time : req' = [req EXCEPT ![r] = [Idle EXCEPT !.op = "bill", !.time = time]]
    BY <1>1 DEF BeginBill
  <2> QED
    BY <2>1 DEF TypeInv, TypeOK, Idle
<1>2. ASSUME NEW d \in Docs, BeginUpdate(r, d)
      PROVE  req'[r].op = "update" /\ req'[r].at = "write"
  <2>1. PICK h : h = [Idle EXCEPT !.op = "update", !.doc = d, !.time = docs[d].time]
    OBVIOUS
  <2>2. h.op = "update" /\ h.at = "write" /\ Enter(r, h)
    BY <1>2, <2>1 DEF BeginUpdate, Idle
  <2> QED
    BY <2>2, <1>e
<1>3. ASSUME NEW d \in Docs, BeginIssue(r, d)
      PROVE  /\ req'[r].op = "issue" /\ req'[r].at = "write"
             /\ req'[r].total = docs[req'[r].doc].total
  <2>1. PICK h : h = [Idle EXCEPT !.op = "issue", !.doc = d, !.total = docs[d].total]
    OBVIOUS
  <2>2. /\ h.op = "issue" /\ h.at = "write" /\ h.doc = d /\ h.total = docs[d].total
        /\ Enter(r, h)
    BY <1>3, <2>1 DEF BeginIssue, Idle
  <2> QED
    BY <2>2, <1>e
<1>4. ASSUME NEW d \in Docs, BeginVoid(r, d)
      PROVE  /\ req'[r].op = "void" /\ req'[r].at = "check"
             /\ docs[req'[r].doc].status # "void" /\ docs[req'[r].doc].paid = 0
  <2>1. PICK h : h = [Idle EXCEPT !.op = "void", !.at = "check", !.doc = d]
    OBVIOUS
  <2>2. /\ h.op = "void" /\ h.at = "check" /\ h.doc = d /\ Enter(r, h)
        /\ docs[d].status # "void" /\ docs[d].paid = 0
    BY <1>4, <2>1 DEF BeginVoid, Idle
  <2> QED
    BY <2>2, <1>e
<1>5. ASSUME NEW d \in Docs, BeginPayment(r, d)
      PROVE  /\ req'[r].op = "pay" /\ req'[r].at = "write"
             /\ docs[req'[r].doc].status \in {"issued", "part_paid"}
             /\ req'[r].total >= 1
             /\ req'[r].total \in 1 .. docs[req'[r].doc].total - docs[req'[r].doc].paid
  <2>1. PICK amount \in 1 .. docs[d].total - docs[d].paid, day \in Days \ locked :
          Enter(r, [Idle EXCEPT !.op = "pay", !.doc = d, !.total = amount, !.day = day])
    BY <1>5 DEF BeginPayment
  <2>2. PICK h : h = [Idle EXCEPT !.op = "pay", !.doc = d, !.total = amount, !.day = day]
    OBVIOUS
  <2>3. /\ h.op = "pay" /\ h.at = "write" /\ h.doc = d /\ h.total = amount /\ Enter(r, h)
    BY <2>1, <2>2 DEF Idle
  <2>4. docs[d].status \in {"issued", "part_paid"} /\ amount >= 1
    BY <1>5, <2>1 DEF BeginPayment, TypeInv, TypeOK, Document
  <2> QED
    BY <2>1, <2>3, <2>4, <1>e
<1>6. ASSUME NEW p \in Pays, BeginDeletePayment(r, p)
      PROVE  /\ req'[r].op = "unpay" /\ req'[r].at = "check" /\ req'[r].pay \in Pays
             /\ payments[req'[r].pay].status = "kept"
             /\ payments[req'[r].pay].doc = req'[r].doc
  <2>1. PICK h : h = [Idle EXCEPT !.op = "unpay", !.at = "check",
                                  !.doc = payments[p].doc, !.pay = p]
    OBVIOUS
  <2>2. /\ h.op = "unpay" /\ h.at = "check" /\ h.pay = p /\ h.doc = payments[p].doc
        /\ Enter(r, h) /\ payments[p].status = "kept"
    BY <1>6, <2>1 DEF BeginDeletePayment, Idle
  <2> QED
    BY <2>2, <1>e
<1> QED
  BY <1>1, <1>2, <1>3, <1>4, <1>5, <1>6 DEF Begin

LEMMA ReceiptsStep == TypeInv /\ Receipts /\ [Next]_vars => Receipts'
<1> SUFFICES ASSUME TypeInv, Receipts, [Next]_vars PROVE Receipts'
  OBVIOUS
<1>1. ASSUME NEW p \in Pays
      PROVE  /\ payments'[p].status = "kept" => payments'[p].amount >= 1
             /\ payments[p].status # "none" =>
                  payments'[p].status # "none" /\ payments'[p].doc = payments[p].doc
  <2>1. CASE payments' = payments
    BY <2>1 DEF Receipts
  <2>2. ASSUME NEW r \in Requests, RecordPayment(r)
        PROVE  /\ payments'[p].status = "kept" => payments'[p].amount >= 1
               /\ payments[p].status # "none" =>
                    payments'[p].status # "none" /\ payments'[p].doc = payments[p].doc
    BY <2>2, RecordSteps DEF Receipts
  <2>3. ASSUME NEW r \in Requests, RemovePayment(r)
        PROVE  /\ payments'[p].status = "kept" => payments'[p].amount >= 1
               /\ payments[p].status # "none" =>
                    payments'[p].status # "none" /\ payments'[p].doc = payments[p].doc
    BY <2>3, RemoveSteps DEF Receipts
  <2> QED
    BY <2>1, <2>2, <2>3, PaymentSteps
<1> DEFINE Fine(r) ==
        /\ req'[r].op = "pay" /\ req'[r].at = "write" => req'[r].total >= 1
        /\ req'[r].op = "unpay" => /\ payments'[req'[r].pay].status # "none"
                                   /\ payments'[req'[r].pay].doc = req'[r].doc
<1>r. \A r \in Requests : req[r].op = "unpay" => req[r].pay \in Pays
  BY DEF TypeInv, Refs
<1>2. ASSUME NEW r \in Requests, req'[r] = req[r] PROVE Fine(r)
  BY <1>1, <1>2, <1>r DEF Receipts
<1>3. ASSUME NEW r \in Requests, req'[r] = Idle PROVE Fine(r)
  BY <1>3 DEF Idle
<1>4. ASSUME NEW r \in Requests, NEW step \in {"reverse", "stamp", "remove", "sum"},
             Goto(r, step)
      PROVE  Fine(r)
  <2>1. req'[r] = [req[r] EXCEPT !.at = step] /\ req[r] \in Handler
    BY <1>4, HandlerSteps DEF TypeInv, TypeOK
  <2>2. /\ req'[r].op = req[r].op /\ req'[r].at = step /\ req'[r].pay = req[r].pay
        /\ req'[r].doc = req[r].doc
    BY <2>1 DEF Handler
  <2> QED
    BY <1>1, <1>r, <2>2 DEF Receipts
<1>5. ASSUME NEW r \in Requests, SumPayments(r) PROVE Fine(r)
  <2>1. /\ req'[r].op = req[r].op /\ req'[r].at = "store" /\ req'[r].pay = req[r].pay
        /\ req'[r].doc = req[r].doc
    BY <1>5 DEF SumPayments, TypeInv, TypeOK, Handler
  <2> QED
    BY <1>1, <1>r, <2>1 DEF Receipts
<1>6. ASSUME NEW r \in Requests, Go(r) PROVE Fine(r)
  <2>1. CASE UpdateDraft(r) \/ Bill(r) \/ Issue(r) \/ StampVoid(r) \/ StorePaid(r)
    BY <2>1, <1>3, HandlerSteps DEF UpdateDraft, Bill, Issue, StampVoid, StorePaid
  <2>2. CASE CheckReversal(r) \/ Reverse(r) \/ RemovePayment(r) \/ RecordPayment(r)
    BY <2>2, <1>4 DEF CheckReversal, Reverse, RemovePayment, RecordPayment
  <2>3. CASE Fail(r)
    BY <2>3, <1>3 DEF Fail, TypeInv, TypeOK
  <2> QED
    BY <1>5, <1>6, <2>1, <2>2, <2>3 DEF Go
<1>7. ASSUME NEW r \in Requests, Begin(r) PROVE Fine(r)
  <2>1. payments' = payments
    BY <1>7, BeginSteps DEF books
  <2> QED
    BY <1>7, <2>1, BeginsAs DEF TypeInv, TypeOK, Document
<1>8. \A r \in Requests : Fine(r)
  <2> HIDE DEF Fine
  <2>1. ASSUME NEW o \in Requests, Begin(o) \/ Go(o), NEW r \in Requests PROVE Fine(r)
    BY <1>2, <1>6, <1>7, <2>1, BeginSteps, GoSteps DEF Others
  <2>2. CASE Aside \/ UNCHANGED vars
    BY <1>2, <2>2, AsideSteps DEF vars
  <2> QED
    BY <2>1, <2>2, Steps
<1> QED
  BY <1>1, <1>8 DEF Receipts

LEMMA ReceivedNext == \A d : Received(d)' = ReceivedIn(payments', d)
BY DEF Received, PaymentsOf, ReceivedIn, Kept, MapThenSumSet, MapThenFoldSet

\* What happens to a document that no handler touches.
Untouched(d) ==
    /\ receivable'[d] = receivable[d]
    /\ Received(d)' = Received(d)
    /\ \A p \in Pays : payments[p].status = "kept" /\ payments[p].doc = d =>
                           payments'[p] = payments[p]
    /\ \/ docs'[d] = docs[d]
       \/ /\ docs[d].status = "none" /\ docs'[d].status = "draft"
          /\ docs'[d].paid = 0
       \/ /\ docs[d].status = "draft" /\ docs'[d].status = "deleted"
          /\ docs'[d].paid = 0

\* The payments of other documents stay.
LEMMA OthersPayments ==
    ASSUME TypeInv, Receipts, [Next]_vars, NEW d \in Docs,
           \A r \in Requests : Go(r) => ~Works(r, d)
    PROVE  /\ Received(d)' = Received(d)
           /\ \A p \in Pays : payments[p].status = "kept" /\ payments[p].doc = d =>
                                  payments'[p] = payments[p]
<1>1. CASE payments' = payments
  BY <1>1, ReceivedNow, ReceivedNext
<1>k. ASSUME NEW p \in Pays, \A q \in Pays : q # p => payments'[q] = payments[q],
             ~(payments[p].status = "kept" /\ payments[p].doc = d),
             ~(payments'[p].status = "kept" /\ payments'[p].doc = d)
      PROVE  /\ Received(d)' = Received(d)
             /\ \A q \in Pays : payments[q].status = "kept" /\ payments[q].doc = d =>
                                    payments'[q] = payments[q]
  <2>1. /\ Kept(payments, d) = Kept(payments', d)
        /\ \A q \in Kept(payments, d) : payments[q].amount = payments'[q].amount
    BY <1>k DEF Kept
  <2>2. ReceivedIn(payments, d) = ReceivedIn(payments', d)
    BY <2>1, ReceivedSame
  <2> QED
    BY <1>k, <2>2, ReceivedNow, ReceivedNext
<1>2. ASSUME NEW r \in Requests, Go(r), RecordPayment(r)
      PROVE  /\ Received(d)' = Received(d)
             /\ \A p \in Pays : payments[p].status = "kept" /\ payments[p].doc = d =>
                                    payments'[p] = payments[p]
  <2>1. req[r].doc # d
    BY <1>2, RecordSteps DEF Works
  <2> QED
    BY <1>2, <1>k, <2>1, RecordSteps
<1>3. ASSUME NEW r \in Requests, Go(r), RemovePayment(r)
      PROVE  /\ Received(d)' = Received(d)
             /\ \A p \in Pays : payments[p].status = "kept" /\ payments[p].doc = d =>
                                    payments'[p] = payments[p]
  <2>1. PICK p \in Pays :
          /\ p = req[r].pay /\ req[r].op = "unpay"
          /\ payments'[p].status = "deleted"
          /\ \A q \in Pays : q # p => payments'[q] = payments[q]
    BY <1>3, RemoveSteps
  <2>2. payments[p].doc # d
    BY <1>3, <2>1 DEF Works, Receipts
  <2> QED
    BY <1>k, <2>1, <2>2
<1> QED
  BY <1>1, <1>2, <1>3, PaymentSteps

\* A draft that comes into being changes no other account.
LEMMA CreatedAlone ==
    ASSUME TypeInv, NEW kind, NEW day, NEW total, NEW time,
           CreateInvoice(kind, day, total, time), NEW d \in Docs
    PROVE  /\ receivable' = receivable
           /\ \/ docs'[d] = docs[d]
              \/ docs[d].status = "none" /\ docs'[d].status = "draft" /\ docs'[d].paid = 0
<1>1. PICK e \in Docs :
        /\ docs[e].status = "none"
        /\ docs' = [docs EXCEPT ![e] = [NoDoc EXCEPT !.kind = kind,
                        !.status = "draft", !.day = day, !.total = total, !.time = time]]
  BY DEF CreateInvoice, NextDoc
<1>2. docs'[e].status = "draft" /\ docs'[e].paid = 0
  BY <1>1 DEF TypeInv, TypeOK, NoDoc
<1>3. e # d => docs'[d] = docs[d]
  BY <1>1 DEF TypeInv, TypeOK
<1> QED
  BY <1>1, <1>2, <1>3 DEF CreateInvoice

LEMMA OthersLeave ==
    ASSUME TypeInv, Receipts, [Next]_vars, NEW d \in Docs,
           \A r \in Requests : Go(r) => ~Works(r, d)
    PROVE  Untouched(d)
<1> DEFINE Goal ==
        /\ receivable'[d] = receivable[d]
        /\ \/ docs'[d] = docs[d]
           \/ /\ docs[d].status = "none" /\ docs'[d].status = "draft"
              /\ docs'[d].paid = 0
           \/ /\ docs[d].status = "draft" /\ docs'[d].status = "deleted"
              /\ docs'[d].paid = 0
<1>t. docs \in [Docs -> Document] /\ receivable \in [Docs -> -MaxBalance .. MaxBalance]
  BY DEF TypeInv, TypeOK
<1>n. docs' = docs /\ receivable' = receivable => Goal
  OBVIOUS
<1>c. ASSUME NEW kind, NEW day, NEW total, NEW time, CreateInvoice(kind, day, total, time)
      PROVE  Goal
  BY <1>c, CreatedAlone
<1> SUFFICES Goal
  BY OthersPayments DEF Untouched
<1> HIDE DEF Goal
<1>1. ASSUME NEW r \in Requests, Begin(r) PROVE Goal
  BY <1>1, <1>n, BeginSteps DEF books
<1>2. ASSUME NEW r \in Requests, Go(r) PROVE Goal
  <2>w. req[r].op \in {"issue", "update", "void", "pay", "unpay"} => req[r].doc # d
    BY <1>2 DEF Works
  <2>1. CASE Bill(r)
    BY <2>1, <1>c DEF Bill
  <2>2. CASE UpdateDraft(r)
    BY <2>2, <2>w, <1>t DEF UpdateDraft, Goal
  <2>3. CASE Issue(r)
    BY <2>3, <2>w, <1>t DEF Issue, Post, Goal
  <2>4. CASE Reverse(r)
    <3>1. req[r].op \in {"void", "unpay"}
      BY <2>4 DEF Reverse, TypeInv, Refs
    <3> QED
      BY <2>4, <2>w, <3>1, <1>t DEF Reverse, Post, Goal
  <2>5. CASE StampVoid(r)
    <3>1. req[r].op = "void"
      BY <2>5 DEF StampVoid, TypeInv, Refs
    <3> QED
      BY <2>5, <2>w, <3>1, <1>t DEF StampVoid, Goal
  <2>6. CASE StorePaid(r)
    <3>1. req[r].op \in {"pay", "unpay"}
      BY <2>6 DEF StorePaid, TypeInv, Refs
    <3> QED
      BY <2>6, <2>w, <3>1, <1>t DEF StorePaid, Goal
  <2>7. CASE RecordPayment(r)
    BY <2>7, <2>w, <1>t DEF RecordPayment, Post, Goal
  <2>8. CASE CheckReversal(r) \/ RemovePayment(r) \/ SumPayments(r) \/ Fail(r)
    BY <2>8, <1>n DEF CheckReversal, RemovePayment, SumPayments, Fail, books
  <2> QED
    BY <1>2, <2>1, <2>2, <2>3, <2>4, <2>5, <2>6, <2>7, <2>8 DEF Go
<1>3. CASE Aside
  <2>1. CASE CreateDraft
    BY <2>1, <1>c DEF CreateDraft
  <2>2. CASE SetLock \/ Flag
    BY <2>2, <1>n DEF SetLock, Flag
  <2>3. ASSUME NEW e \in Docs, DeleteDraft(e) PROVE Goal
    <3>1. /\ docs[e].status = "draft" /\ docs'[e].status = "deleted" /\ docs'[e].paid = 0
          /\ e # d => docs'[d] = docs[d]
          /\ receivable' = receivable
      BY <2>3, <1>t DEF DeleteDraft, NoDoc
    <3> QED
      BY <3>1 DEF Goal
  <2>4. ASSUME NEW e \in Docs, CreditNote(e) PROVE Goal
    BY <2>4, <1>c DEF CreditNote
  <2> QED
    BY <1>3, <2>1, <2>2, <2>3, <2>4 DEF Aside
<1>4. CASE UNCHANGED vars
  BY <1>4, <1>n DEF vars, books
<1> QED
  BY <1>1, <1>2, <1>3, <1>4, Steps

\* The numbers of an account.
LEMMA AccountTypes ==
    ASSUME TypeInv, NEW d \in Docs
    PROVE  /\ receivable[d] \in Int /\ Received(d) \in Nat
           /\ docs[d] \in Document /\ docs[d].total \in Nat /\ docs[d].paid \in Nat
           /\ docs[d].entry \in Int /\ Sign(docs[d].kind) * docs[d].total \in Int
           /\ \A p \in Pays : payments[p].status = "kept" /\ payments[p].doc = d =>
                                  payments[p].amount \in Nat /\ payments[p].amount <= Received(d)
<1>1. payments \in [Pays -> Receipt] /\ docs[d] \in Document
  BY DEF TypeInv, TypeOK
<1>2. /\ docs[d].total \in Nat /\ docs[d].paid \in Nat /\ docs[d].entry \in Int
      /\ Sign(docs[d].kind) \in Int /\ receivable[d] \in Int
  BY <1>1, BooksAssumption DEF Document, Sign, TypeInv, TypeOK
<1>3. /\ ReceivedIn(payments, d) \in Nat
      /\ \A p \in Kept(payments, d) : payments[p].amount <= ReceivedIn(payments, d)
  BY <1>1, ReceivedType
<1>4. \A p \in Pays : payments[p].amount \in Nat
  BY <1>1 DEF Receipt
<1> QED
  BY <1>1, <1>2, <1>3, <1>4, ReceivedNow DEF Kept

\* An account that nobody touches stays in order.
LEMMA OthersInOrder ==
    ASSUME TypeInv, TypeInv', OutInv, NEW d \in Docs, InOrder(d), d \notin crossed,
           Untouched(d), \A r \in Requests : Works(r, d) \/ Works(r, d)' => req'[r] = req[r]
    PROVE  InOrder(d)'
<1>0. /\ Terms(d)
      /\ (~\E r \in Requests : Works(r, d)) => Settled(d)
      /\ \A r \in Requests : Works(r, d) => Owes(r, d)
  BY DEF InOrder
<1>w. \A r \in Requests : Works(r, d)' <=> Works(r, d)
  BY DEF Works
<1>1. CASE docs'[d] = docs[d]
  <2>1. Owed(d)' = Owed(d) /\ Settled(d)' = Settled(d) /\ Terms(d)' = Terms(d)
    BY <1>1 DEF Untouched, Owed, Settled, Terms, Issued
  <2>2. ASSUME NEW r \in Requests, Works(r, d) PROVE Owes(r, d)'
    <3>1. req'[r] = req[r] /\ Owes(r, d) /\ HalfDone(r)' = HalfDone(r)
      BY <1>0, <2>2 DEF HalfDone
    <3>2. req[r].op = "unpay" => req[r].pay \in Pays
      BY DEF TypeInv, Refs
    <3>3. req[r].at = "remove" => req[r].op = "unpay"
      BY DEF TypeInv, Refs
    <3> QED
      BY <1>1, <2>1, <3>1, <3>2, <3>3 DEF Untouched, Owes
  <2> QED
    BY <1>0, <1>w, <2>1, <2>2 DEF InOrder
<1>2. CASE docs'[d] # docs[d]
  <2>1. ~Issued(d) /\ ~Issued(d)' /\ docs'[d].paid = 0 /\ docs'[d].status # "void"
    BY <1>2 DEF Untouched, Issued
  <2>2. ASSUME NEW r \in Requests, Works(r, d)
        PROVE  ~HalfDone(r) /\ req[r].op \notin {"void", "pay", "unpay"} /\ req[r].at = "write"
               /\ docs'[d].status # "draft"
    <3>1. req[r].op \notin {"void", "pay", "unpay"} /\ docs[d].status # "none"
      BY <2>1, <2>2 DEF OutInv, Works
    <3>2. req[r].at = "write"
      BY <3>1 DEF TypeInv, Refs
    <3> QED
      BY <1>2, <3>1, <3>2 DEF HalfDone, Untouched
  <2>3. Settled(d)
    BY <1>0, <2>2 DEF Owes
  <2>4. receivable[d] = 0 - Received(d) /\ Received(d) = 0
    BY <1>0, <2>1, <2>3 DEF Settled, Owed, Terms
  <2>5. Owed(d)' = 0 - Received(d)'
    BY <2>1 DEF Owed
  <2>6. docs'[d].total \in Nat
    <3>1. docs'[d] \in Document
      BY DEF TypeInv, TypeOK
    <3> QED
      BY <3>1, BooksAssumption DEF Document
  <2>7. Settled(d)' /\ Terms(d)'
    BY <2>1, <2>4, <2>5, <2>6 DEF Settled, Terms, Untouched, Issued
  <2>8. ASSUME NEW r \in Requests, Works(r, d) PROVE Owes(r, d)'
    BY <2>2, <2>7, <2>8 DEF Owes, HalfDone
  <2> QED
    BY <1>w, <2>7, <2>8 DEF InOrder
<1> QED
  BY <1>1, <1>2

\* A handler begins on an account that is settled.
LEMMA BeginInOrder ==
    ASSUME TypeInv, TypeInv', Receipts, NEW d \in Docs, InOrder(d), d \notin crossed',
           NEW r \in Requests, Begin(r), Works(r, d)'
    PROVE  InOrder(d)'
<1>1. /\ d \notin crossed /\ books' = books /\ Others(r) /\ req[r] = Idle
      /\ \A o \in Requests : ~Works(o, d)
  BY BeginSteps DEF Works
<1>2. Settled(d) /\ Terms(d)
  BY <1>1 DEF InOrder
<1>3. docs' = docs /\ payments' = payments /\ receivable' = receivable
  BY <1>1 DEF books
<1>4. Received(d)' = Received(d)
  BY <1>3, ReceivedNow, ReceivedNext
<1>5. Settled(d)' /\ Terms(d)' /\ Owed(d)' = Owed(d)
  BY <1>2, <1>3, <1>4 DEF Settled, Terms, Owed, Issued
<1>6. \A o \in Requests : Works(o, d)' => o = r
  BY <1>1 DEF Works, Others
<1>7. Owes(r, d)'
  <2>1. req'[r].doc = d /\ req'[r].op # "bill"
    BY DEF Works
  <2>2. req'[r].op = "unpay" => docs[d].status # "void"
    <3>1. SUFFICES ASSUME req'[r].op = "unpay" PROVE docs[d].status # "void"
      OBVIOUS
    <3>2. /\ req'[r].pay \in Pays /\ payments[req'[r].pay].status = "kept"
          /\ payments[req'[r].pay].doc = d
      BY <2>1, <3>1, BeginsAs
    <3>3. Received(d) >= 1 /\ docs[d].paid = Received(d)
      BY <1>2, <3>2, AccountTypes DEF Receipts, Settled
    <3> QED
      BY <1>2, <3>3 DEF Settled
  <2>3. req'[r].op = "void" => Received(d) = 0
    BY <1>2, <2>1, BeginsAs DEF Settled
  <2> QED
    BY <1>3, <1>4, <1>5, <2>1, <2>2, <2>3, BeginsAs DEF Owes, HalfDone
<1> QED
  BY <1>5, <1>6, <1>7 DEF InOrder

\* What a payment that comes or goes does to what was received.
LEMMA ReceivedSteps ==
    ASSUME TypeInv, TypeInv', NEW r \in Requests, NEW d \in Docs, Works(r, d), Receipts
    PROVE  /\ RecordPayment(r) => Received(d)' = Received(d) + req[r].total
           /\ RemovePayment(r) =>
                Received(d) = Received(d)' + payments[req[r].pay].amount
<1>t. payments \in [Pays -> Receipt] /\ payments' \in [Pays -> Receipt]
  BY DEF TypeInv, TypeOK
<1>1. ASSUME RecordPayment(r) PROVE Received(d)' = Received(d) + req[r].total
  <2>1. PICK p \in Pays :
          /\ payments[p].status = "none"
          /\ payments'[p].status = "kept" /\ payments'[p].doc = d
          /\ payments'[p].amount = req[r].total
          /\ \A q \in Pays : q # p => payments'[q] = payments[q]
    BY <1>1, RecordSteps DEF Works
  <2>2. /\ Kept(payments', d) = Kept(payments, d) \cup {p} /\ p \notin Kept(payments, d)
        /\ \A o \in Kept(payments, d) : payments'[o].amount = payments[o].amount
    BY <2>1 DEF Kept
  <2>3. ReceivedIn(payments', d) = ReceivedIn(payments, d) + payments'[p].amount
    BY <1>t, <2>2, ReceivedMore
  <2> QED
    BY <2>1, <2>3, ReceivedNow, ReceivedNext
<1>2. ASSUME RemovePayment(r)
      PROVE  Received(d) = Received(d)' + payments[req[r].pay].amount
  <2>1. PICK p \in Pays :
          /\ p = req[r].pay /\ req[r].op = "unpay"
          /\ payments[p].status = "kept" /\ payments'[p].status = "deleted"
          /\ \A q \in Pays : q # p => payments'[q] = payments[q]
    BY <1>2, RemoveSteps
  <2>2. payments[p].doc = d
    BY <2>1 DEF Works, Receipts
  <2>3. /\ Kept(payments, d) = Kept(payments', d) \cup {p} /\ p \notin Kept(payments', d)
        /\ \A o \in Kept(payments', d) : payments[o].amount = payments'[o].amount
    BY <2>1, <2>2 DEF Kept
  <2>4. ReceivedIn(payments, d) = ReceivedIn(payments', d) + payments[p].amount
    BY <1>t, <2>3, ReceivedMore
  <2> QED
    BY <2>1, <2>4, ReceivedNow, ReceivedNext
<1> QED
  BY <1>1, <1>2

\* The handler at work on a document pays what it owes, or still owes the rest.
LEMMA GoInOrder ==
    ASSUME TypeInv, TypeInv', OutInv, Marked, Receipts, NEW d \in Docs, InOrder(d),
           d \notin crossed', NEW r \in Requests, Works(r, d), Go(r)
    PROVE  InOrder(d)'
<1>1. d \notin crossed /\ Others(r) /\ req[r].doc = d
  BY GoSteps DEF Works
<1>2. \A o \in Requests : o # r => ~Works(o, d) /\ ~Works(o, d)'
  BY <1>1 DEF Marked, Works, Others
<1>3. Terms(d) /\ Owes(r, d)
  BY <1>1 DEF InOrder
<1>t. /\ docs \in [Docs -> Document] /\ docs[d] \in Document
      /\ receivable \in [Docs -> -MaxBalance .. MaxBalance]
      /\ req \in [Requests -> Handler] /\ req[r] \in Handler
      /\ payments \in [Pays -> Receipt]
  BY DEF TypeInv, TypeOK
<1>n. /\ receivable[d] \in Int /\ Received(d) \in Nat /\ docs[d].total \in Nat
      /\ docs[d].paid \in Nat /\ docs[d].entry \in Int /\ req[r].total \in Nat
      /\ Sign(docs[d].kind) * docs[d].total \in Int
  BY <1>t, AccountTypes DEF Handler
<1>same. payments' = payments => Received(d)' = Received(d)
  BY ReceivedNow, ReceivedNext
<1>leave. ASSUME req'[r] = Idle, Settled(d)', Terms(d)' PROVE InOrder(d)'
  <2>1. ~Works(r, d)'
    BY <1>leave DEF Idle, Works
  <2> QED
    BY <1>2, <1>leave, <2>1 DEF InOrder
<1>stay. ASSUME Works(r, d)', Owes(r, d)', Terms(d)' PROVE InOrder(d)'
  BY <1>2, <1>stay DEF InOrder
<1>goto. ASSUME NEW step \in {"reverse", "stamp", "remove", "sum"}, Goto(r, step)
         PROVE  /\ req'[r].op = req[r].op /\ req'[r].at = step /\ req'[r].doc = d
                /\ req'[r].pay = req[r].pay /\ Works(r, d)'
  <2>1. req'[r] = [req[r] EXCEPT !.at = step]
    BY <1>goto, HandlerSteps
  <2> QED
    BY <1>1, <1>t, <2>1 DEF Works, Handler
<1> DEFINE Goal == InOrder(d)'
<1> SUFFICES Goal
  OBVIOUS
<1>l. req'[r] = Idle /\ Settled(d)' /\ Terms(d)' => Goal
  BY <1>leave
<1>s. Works(r, d)' /\ Owes(r, d)' /\ Terms(d)' => Goal
  BY <1>stay
<1> HIDE DEF Goal
<1>4. CASE UpdateDraft(r)
  <2>1. PICK day \in Days, total \in Amounts, time \in SUBSET req[r].time :
          docs' = [docs EXCEPT ![d] = [@ EXCEPT !.day = day, !.total = total, !.time = time]]
    BY <1>1, <1>4 DEF UpdateDraft
  <2>2. /\ req'[r] = Idle /\ docs[d].status = "draft" /\ ~HalfDone(r)
        /\ receivable' = receivable /\ payments' = payments
    <3>1. req[r].op = "update" /\ docs[d].status = "draft"
      BY <1>1, <1>4 DEF UpdateDraft
    <3> QED
      BY <1>4, <3>1, HandlerSteps DEF UpdateDraft, HalfDone, TypeInv, Refs
  <2>3. docs'[d].status = "draft" /\ docs'[d].paid = docs[d].paid /\ docs'[d].total = total
    BY <1>t, <2>1, <2>2 DEF Document
  <2>4. Settled(d) /\ docs[d].paid = 0 /\ Received(d)' = Received(d)
    BY <1>3, <1>same, <2>2 DEF Owes, Terms, Issued
  <2>5. Settled(d)'
    <3>1. Owed(d)' = Owed(d)
      BY <2>2, <2>3, <2>4 DEF Owed, Issued
    <3>2. docs'[d].total \in Nat
      BY <2>3, BooksAssumption DEF Amounts
    <3>3. receivable[d] = Owed(d) /\ docs[d].paid = Received(d)
      BY <2>4 DEF Settled
    <3>4. receivable'[d] = Owed(d)'
      BY <2>2, <3>1, <3>3
    <3>5. docs'[d].paid = Received(d)'
      BY <2>3, <2>4, <3>3
    <3>6. docs'[d].paid <= docs'[d].total
      BY <2>3, <2>4, <3>2
    <3> QED
      BY <2>3, <3>4, <3>5, <3>6 DEF Settled
  <2>6. Terms(d)'
    BY <2>3, <2>4 DEF Terms, Issued
  <2> QED
    BY <1>l, <2>2, <2>5, <2>6
<1>41. CASE Issue(r)
  <2>1. PICK amount : amount = Sign(docs[d].kind) * req[r].total
    OBVIOUS
  <2>2. /\ docs[d].status = "draft" /\ req[r].op = "issue" /\ payments' = payments
        /\ docs' = [docs EXCEPT ![d] = [@ EXCEPT !.status = "issued",
                        !.number = next[docs[d].kind], !.entry = amount]]
        /\ receivable' = [receivable EXCEPT ![d] = @ + amount]
        /\ req'[r] = Idle
    BY <1>1, <1>41, <2>1, HandlerSteps DEF Issue, Post
  <2>3. ~HalfDone(r) /\ req[r].total = docs[d].total
    BY <1>3, <2>2 DEF HalfDone, Owes, TypeInv, Refs
  <2>4. /\ docs'[d].status = "issued" /\ docs'[d].paid = docs[d].paid
        /\ docs'[d].total = docs[d].total /\ docs'[d].kind = docs[d].kind
        /\ docs'[d].entry = amount
        /\ receivable'[d] = receivable[d] + amount
    BY <1>t, <2>2 DEF Document
  <2>5. /\ Settled(d) /\ docs[d].paid = 0 /\ Received(d) = 0 /\ Received(d)' = 0
        /\ receivable[d] = 0
    BY <1>3, <1>same, <2>2, <2>3 DEF Owes, Terms, Issued, Settled, Owed
  <2>6. amount = Sign(docs[d].kind) * docs[d].total /\ amount \in Int
    BY <1>n, <2>1, <2>3
  <2>7. receivable'[d] = Owed(d)'
    BY <2>4, <2>5, <2>6 DEF Owed, Issued
  <2>8. Settled(d)'
    BY <1>n, <2>4, <2>5, <2>7 DEF Settled, PaymentStatus
  <2>9. Terms(d)'
    BY <2>4, <2>6 DEF Terms, Issued
  <2> QED
    BY <1>l, <2>2, <2>8, <2>9
<1>5. CASE CheckReversal(r)
  <2>1. req[r].at = "check" /\ Goto(r, "reverse") /\ books' = books
    BY <1>5 DEF CheckReversal
  <2>2. /\ Settled(d)' = Settled(d) /\ Terms(d)' = Terms(d) /\ Owed(d)' = Owed(d)
        /\ Received(d)' = Received(d)
    BY <1>same, <2>1 DEF books, Settled, Terms, Owed, Issued
  <2>3. Settled(d) /\ req[r].op \in {"void", "unpay"}
    BY <1>3, <2>1 DEF Owes, HalfDone, TypeInv, Refs
  <2>4. Owes(r, d)'
    BY <1>3, <1>goto, <2>1, <2>2, <2>3 DEF Owes, HalfDone, books
  <2> QED
    BY <1>3, <1>goto, <1>s, <2>1, <2>2, <2>4
<1>6. CASE Reverse(r)
  <2>1. /\ req[r].at = "reverse" /\ docs' = docs /\ payments' = payments
        /\ req[r].op \in {"void", "unpay"}
    BY <1>6 DEF Reverse, TypeInv, Refs
  <2>2. /\ Terms(d)' /\ Owed(d)' = Owed(d) /\ Received(d)' = Received(d)
    BY <1>3, <1>same, <2>1 DEF Terms, Owed, Issued
  <2>3. Settled(d) /\ ~HalfDone(r)
    BY <1>3, <2>1 DEF Owes, HalfDone
  <2>4. receivable[d] = Owed(d) /\ Received(d) <= docs[d].total
    BY <2>3 DEF Settled
  <2>5. CASE req[r].op = "void"
    <3>1. /\ Goto(r, "stamp")
          /\ receivable' = [receivable EXCEPT ![d] = @ + (-docs[d].entry)]
      BY <1>1, <1>6, <2>5 DEF Reverse, Post
    <3>2. receivable'[d] = Owed(d) - docs[d].entry
      BY <1>n, <1>t, <2>4, <3>1
    <3>3. Owes(r, d)'
      BY <1>3, <1>goto, <2>1, <2>2, <2>4, <2>5, <3>1, <3>2 DEF Owes, HalfDone
    <3> QED
      BY <1>goto, <1>s, <2>2, <3>1, <3>3
  <2>6. CASE req[r].op = "unpay"
    <3>1. /\ Goto(r, "remove")
          /\ receivable' = [receivable EXCEPT ![d] = @ + payments[req[r].pay].amount]
      BY <1>1, <1>6, <2>6 DEF Reverse, Post
    <3>2. receivable'[d] = Owed(d) + payments[req[r].pay].amount
      BY <1>t, <2>4, <3>1
    <3>3. Owes(r, d)'
      BY <1>3, <1>goto, <2>1, <2>2, <2>4, <2>6, <3>1, <3>2 DEF Owes, HalfDone
    <3> QED
      BY <1>goto, <1>s, <2>2, <3>1, <3>3
  <2> QED
    BY <2>1, <2>5, <2>6
<1>7. CASE StampVoid(r)
  <2>1. /\ req[r].at = "stamp" /\ req[r].op = "void" /\ req'[r] = Idle
        /\ docs' = [docs EXCEPT ![d].status = "void"]
        /\ payments' = payments /\ receivable' = receivable
    BY <1>1, <1>7, HandlerSteps DEF StampVoid, TypeInv, Refs
  <2>2. /\ docs'[d].status = "void" /\ docs'[d].paid = docs[d].paid
        /\ docs'[d].total = docs[d].total /\ docs'[d].entry = docs[d].entry
        /\ docs'[d].kind = docs[d].kind
    BY <1>t, <2>1 DEF Document
  <2>3. Issued(d) /\ docs[d].status # "void" /\ docs[d].paid = 0 /\ Received(d) = 0
    BY <1>1, <1>3, <2>1 DEF OutInv, Owes
  <2>4. receivable[d] = 0 /\ docs[d].entry = Sign(docs[d].kind) * docs[d].total
    <3>1. docs[d].entry = Sign(docs[d].kind) * docs[d].total
      BY <1>3, <2>3 DEF Terms
    <3>2. Owed(d) = docs[d].entry - 0 /\ receivable[d] = Owed(d) - docs[d].entry
      BY <1>3, <2>1, <2>3, <3>1 DEF Owed, Owes
    <3> QED
      BY <1>n, <3>1, <3>2
  <2>5. Settled(d)'
    BY <1>n, <1>same, <2>1, <2>2, <2>3, <2>4 DEF Settled, Owed
  <2>6. Terms(d)'
    BY <2>2, <2>4 DEF Terms, Issued
  <2> QED
    BY <1>l, <2>1, <2>5, <2>6
<1>8. CASE RemovePayment(r)
  <2>1. /\ req[r].at = "remove" /\ req[r].op = "unpay" /\ Goto(r, "sum")
        /\ docs' = docs /\ receivable' = receivable /\ req[r].pay \in Pays
    BY <1>8 DEF RemovePayment, TypeInv, Refs
  <2>2. PICK amount \in Nat : amount = payments[req[r].pay].amount
    BY <1>t, <2>1 DEF Receipt
  <2>3. Received(d) = Received(d)' + amount /\ Received(d)' \in Nat
    <3>1. Received(d) = Received(d)' + amount
      BY <1>8, <2>2, ReceivedSteps
    <3>2. payments' \in [Pays -> Receipt]
      BY DEF TypeInv, TypeOK
    <3> QED
      BY <3>1, <3>2, ReceivedType, ReceivedNext
  <2>4. receivable[d] = Owed(d) + amount /\ Received(d) <= docs[d].total
    BY <1>3, <2>1, <2>2 DEF Owes, HalfDone
  <2>5. receivable'[d] = Owed(d)'
    BY <1>n, <2>1, <2>3, <2>4 DEF Owed, Issued
  <2>6. Terms(d)' /\ Received(d)' <= docs'[d].total
    BY <1>3, <1>n, <2>1, <2>3, <2>4 DEF Terms, Issued
  <2>7. Owes(r, d)'
    BY <1>3, <1>goto, <2>1, <2>5, <2>6 DEF Owes, HalfDone
  <2> QED
    BY <1>goto, <1>s, <2>1, <2>6, <2>7
<1>9. CASE RecordPayment(r)
  <2>1. /\ req[r].at = "write" /\ req[r].op = "pay" /\ Goto(r, "sum") /\ docs' = docs
        /\ receivable' = [receivable EXCEPT ![d] = @ + (-req[r].total)]
    BY <1>1, <1>9 DEF RecordPayment, Post
  <2>2. Received(d)' = Received(d) + req[r].total
    BY <1>9, ReceivedSteps
  <2>3. Settled(d) /\ req[r].total \in 1 .. docs[d].total - docs[d].paid
    BY <1>3, <2>1 DEF Owes, HalfDone
  <2>4. receivable'[d] = receivable[d] - req[r].total
    BY <1>n, <1>t, <2>1
  <2>5. receivable'[d] = Owed(d)'
    BY <1>n, <2>1, <2>2, <2>3, <2>4 DEF Owed, Issued, Settled
  <2>6. Terms(d)' /\ Received(d)' <= docs'[d].total
    BY <1>3, <1>n, <2>1, <2>2, <2>3 DEF Terms, Issued, Settled
  <2>7. Owes(r, d)'
    BY <1>3, <1>goto, <2>1, <2>5, <2>6 DEF Owes, HalfDone
  <2> QED
    BY <1>goto, <1>s, <2>1, <2>6, <2>7
<1>10. CASE SumPayments(r)
  <2>1. /\ req[r].at = "sum" /\ req[r].op \in {"pay", "unpay"} /\ books' = books
        /\ req' = [req EXCEPT ![r] = [@ EXCEPT !.at = "store", !.total = Received(d),
                                               !.status = docs[d].status]]
    BY <1>1, <1>10 DEF SumPayments, TypeInv, Refs
  <2>2. /\ req'[r].op = req[r].op /\ req'[r].at = "store" /\ req'[r].doc = d
        /\ req'[r].total = Received(d) /\ req'[r].status = docs[d].status
    BY <1>1, <1>t, <2>1 DEF Handler
  <2>3. /\ Terms(d)' /\ Owed(d)' = Owed(d) /\ Received(d)' = Received(d)
        /\ docs' = docs /\ receivable' = receivable
    BY <1>3, <1>same, <2>1 DEF books, Terms, Owed, Issued
  <2>4. Owes(r, d)' /\ Works(r, d)'
    BY <1>3, <2>1, <2>2, <2>3 DEF Owes, HalfDone, Works
  <2> QED
    BY <1>s, <2>3, <2>4
<1>11. CASE StorePaid(r)
  <2>1. PICK status : status = PaymentStatus(req[r].status, req[r].total, docs[d].total)
    OBVIOUS
  <2>2. /\ req[r].at = "store" /\ req[r].op \in {"pay", "unpay"} /\ req'[r] = Idle
        /\ docs' = [docs EXCEPT ![d] = [@ EXCEPT !.paid = req[r].total, !.status = status]]
        /\ payments' = payments /\ receivable' = receivable
    BY <1>1, <1>11, <2>1, HandlerSteps DEF StorePaid, TypeInv, Refs
  <2>3. /\ docs'[d].status = status /\ docs'[d].paid = req[r].total
        /\ docs'[d].total = docs[d].total /\ docs'[d].kind = docs[d].kind
        /\ docs'[d].entry = docs[d].entry
    BY <1>t, <2>2 DEF Document
  <2>4. /\ req[r].total = Received(d) /\ req[r].status = docs[d].status
        /\ Received(d) <= docs[d].total /\ receivable[d] = Owed(d)
        /\ docs[d].status \in {"issued", "part_paid", "paid"} /\ Received(d)' = Received(d)
    BY <1>1, <1>3, <1>same, <2>2 DEF Owes, HalfDone, OutInv, Issued
  <2>5. /\ status = PaymentStatus("issued", docs'[d].paid, docs'[d].total)
        /\ status \in {"issued", "part_paid", "paid"}
    BY <2>1, <2>3, <2>4 DEF PaymentStatus
  <2>6. Owed(d)' = Owed(d)
    BY <2>3, <2>4, <2>5 DEF Owed, Issued
  <2>7. Settled(d)' /\ Terms(d)'
    BY <1>3, <2>2, <2>3, <2>4, <2>5, <2>6 DEF Settled, Terms, Issued
  <2> QED
    BY <1>l, <2>2, <2>7
<1>12. CASE Fail(r)
  <2>1. ~HalfDone(r) /\ books' = books /\ req'[r] = Idle
    BY <1>1, <1>12, <1>t DEF Fail
  <2>2. Settled(d)
    BY <1>3, <2>1 DEF Owes
  <2>3. Settled(d)' /\ Terms(d)'
    BY <1>3, <1>same, <2>1, <2>2 DEF books, Settled, Terms, Owed, Issued
  <2> QED
    BY <1>l, <2>1, <2>3
<1>13. ~Bill(r)
  BY DEF Bill, Works
<1> QED
  BY <1>4, <1>41, <1>5, <1>6, <1>7, <1>8, <1>9, <1>10, <1>11, <1>12, <1>13 DEF Go

LEMMA LedgerInit == Init => LedgerInv
<1> SUFFICES ASSUME Init PROVE LedgerInv
  OBVIOUS
<1>1. Marked /\ Receipts
  BY DEF Init, Marked, Works, Idle, Receipts, NoPay
<1>2. ASSUME NEW d \in Docs PROVE Settled(d) /\ Terms(d) /\ \A r \in Requests : ~Works(r, d)
  <2>1. /\ docs[d] = NoDoc /\ receivable[d] = 0 /\ \A r \in Requests : ~Works(r, d)
    BY DEF Init, Works, Idle
  <2>2. Received(d) = 0
    <3>1. payments \in [Pays -> Receipt]
      BY Blanks DEF Init
    <3>2. Kept(payments, d) = {}
      BY DEF Init, Kept, NoPay
    <3> QED
      BY <3>1, <3>2, ReceivedType, ReceivedNow
  <2> QED
    BY <2>1, <2>2 DEF Settled, Terms, Owed, Issued, NoDoc
<1> QED
  BY <1>1, <1>2 DEF LedgerInv, InOrder

LEMMA LedgerStep == TypeInv /\ OutInv /\ LedgerInv /\ [Next]_vars => LedgerInv'
<1> SUFFICES ASSUME TypeInv, OutInv, LedgerInv, [Next]_vars PROVE LedgerInv'
  OBVIOUS
<1>1. TypeInv' /\ Marked' /\ Receipts' /\ Marked /\ Receipts
  BY TypeStep, MarkedStep, ReceiptsStep DEF LedgerInv
<1>2. crossed \subseteq crossed'
  BY BeginSteps, GoSteps, AsideSteps, Steps DEF vars
<1>3. ASSUME NEW d \in Docs, d \notin crossed' PROVE InOrder(d)'
  <2>1. InOrder(d) /\ d \notin crossed
    BY <1>2, <1>3 DEF LedgerInv
  <2>2. ASSUME NEW r \in Requests, Works(r, d), Go(r) PROVE InOrder(d)'
    BY <1>1, <1>3, <2>1, <2>2, GoInOrder
  <2>3. ASSUME NEW r \in Requests, Works(r, d)', Begin(r) PROVE InOrder(d)'
    BY <1>1, <1>3, <2>1, <2>3, BeginInOrder
  <2>4. ASSUME \A r \in Requests : Go(r) => ~Works(r, d),
               \A r \in Requests : Begin(r) => ~Works(r, d)'
        PROVE  InOrder(d)'
    <3>1. Untouched(d)
      BY <1>1, <2>4, OthersLeave
    <3>2. ASSUME NEW r \in Requests, Works(r, d) \/ Works(r, d)' PROVE req'[r] = req[r]
      <4>1. ASSUME NEW o \in Requests, Begin(o) PROVE req'[r] = req[r]
        BY <2>4, <3>2, <4>1, BeginSteps DEF Others, Works, Idle
      <4>2. ASSUME NEW o \in Requests, Go(o) PROVE req'[r] = req[r]
        BY <2>4, <3>2, <4>2, GoSteps DEF Others, Works, Goes, Idle
      <4>3. CASE Aside \/ UNCHANGED vars
        BY <4>3, AsideSteps DEF vars
      <4> QED
        BY <4>1, <4>2, <4>3, Steps
    <3> QED
      BY <1>1, <2>1, <3>1, <3>2, OthersInOrder
  <2> QED
    BY <2>2, <2>3, <2>4
<1> QED
  BY <1>1, <1>3 DEF LedgerInv, InOrder

\* Whatever handlers overlap and wherever they break off, the receivables
\* account, the stored paid total and the status of a document say what its
\* entry and its payments say, once nobody is at work on it - unless two
\* handlers worked on it at once or one left it half done (service.go: Reverse;
\* payment.go: RecordPayment, DeletePayment; invoice.go: Void).
THEOREM AccountsAgree == Spec => []BooksAgree
<1>1. LedgerInv => BooksAgree
  BY DEF LedgerInv, InOrder, BooksAgree, Settled
<1>2. Spec => []LedgerInv
  BY LedgerInit, LedgerStep, OutInvariant, PTL DEF Spec
<1> QED
  BY <1>1, <1>2, PTL

=============================================================================
