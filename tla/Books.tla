------------------------------- MODULE Books --------------------------------
(***************************************************************************)
(* The sales ledger (internal/accounting): drafts, issued invoices and     *)
(* credit notes, payments, the receivables account, the hours a document   *)
(* bills, and locked periods.                                              *)
(*                                                                         *)
(* Every request is served by a goroutine of its own.  A transaction of    *)
(* the store is atomic, but a handler checks first and writes later, in    *)
(* one transaction or in several: its steps interleave with the steps of   *)
(* the others, and any of them may be its last (a refusal, an error of the *)
(* store, the end of the process).                                         *)
(*                                                                         *)
(* Of an entry of the journal only its effect on the receivables account   *)
(* is kept: every entry is balanced when it is built, and entries are      *)
(* never changed or removed.  Amounts are small numbers; an hour of work   *)
(* is worth 1.                                                             *)
(***************************************************************************)
EXTENDS Integers, FiniteSets, FiniteSetsExt

CONSTANTS
    Requests,   \* bound: handlers in flight at once
    MaxDocs,    \* bound: documents ever drafted
    MaxPays,    \* bound: payments ever recorded
    Time,       \* billable time entries of one client
    MaxTotal,   \* bound: the total of a document
    Today,      \* the date; earlier days are 1 .. Today
    MaxBalance  \* bound: what a document may do to the receivables account

ASSUME BooksAssumption ==
    /\ MaxDocs \in Nat \ {0} /\ MaxPays \in Nat /\ MaxTotal \in Nat \ {0}
    /\ Today \in Nat \ {0} /\ MaxBalance \in Nat
    /\ IsFiniteSet(Time)

Docs == 1 .. MaxDocs
Pays == 1 .. MaxPays
Days == 1 .. Today
Amounts == 1 .. MaxTotal
Kinds == {"invoice", "credit_note"}
Statuses == {"draft", "issued", "part_paid", "paid", "void"}

VARIABLES
    docs,       \* acct_invoices and their lines
    next,       \* acct_sequences: the next number of each kind
    payments,   \* acct_payments
    receivable, \* what the receivables account holds for each document
    invoiced,   \* crm_time_entries whose invoiced flag is set
    locked,     \* the days of locked periods
    req,        \* the handlers in flight
    crossed,    \* history: documents two handlers worked on at once, or one left half done
    contested,  \* history: time entries two drafts were prepared from at once
    surprised   \* history: days locked under the handlers in flight

books == <<docs, next, payments, receivable, invoiced, locked>>
vars == <<books, req, crossed, contested, surprised>>

NoDoc == [kind |-> "invoice", status |-> "none", day |-> 1, time |-> {},
          total |-> 0, paid |-> 0, number |-> 0, entry |-> 0]

NoPay == [status |-> "none", doc |-> 0, amount |-> 0, day |-> 1]

Idle == [op |-> "idle", at |-> "write", doc |-> 0, pay |-> 0, total |-> 0,
         day |-> 1, time |-> {}, status |-> "none"]

Document ==
    [kind : Kinds, status : Statuses \cup {"none", "deleted"}, day : Days,
     time : SUBSET Time, total : 0 .. MaxTotal, paid : Nat, number : Nat, entry : Int]

Receipt ==
    [status : {"none", "kept", "deleted"}, doc : Docs \cup {0},
     amount : Nat, day : Days]

Handler ==
    [op : {"idle", "issue", "update", "void", "pay", "unpay", "bill"},
     at : {"write", "check", "reverse", "stamp", "remove", "sum", "store"},
     doc : Docs \cup {0}, pay : Pays \cup {0}, total : Nat, day : Days,
     time : SUBSET Time, status : Statuses \cup {"none", "deleted"}]

TypeOK ==
    /\ docs \in [Docs -> Document]
    /\ next \in [Kinds -> Nat \ {0}]
    /\ payments \in [Pays -> Receipt]
    /\ receivable \in [Docs -> -MaxBalance .. MaxBalance]
    /\ invoiced \in SUBSET Time
    /\ locked \in SUBSET Days
    /\ req \in [Requests -> Handler]
    /\ crossed \in SUBSET Docs
    /\ contested \in SUBSET Time
    /\ surprised \in SUBSET Days

Init ==
    /\ docs = [d \in Docs |-> NoDoc]
    /\ next = [k \in Kinds |-> 1]
    /\ payments = [p \in Pays |-> NoPay]
    /\ receivable = [d \in Docs |-> 0]
    /\ invoiced = {} /\ locked = {}
    /\ req = [r \in Requests |-> Idle]
    /\ crossed = {} /\ contested = {} /\ surprised = {}

-----------------------------------------------------------------------------
(* Documents, entries, handlers                                            *)

Live(d) == docs[d].status \in Statuses \ {"void"}
Issued(d) == docs[d].status \in {"issued", "part_paid", "paid", "void"}

\* A credit note is posted with the sides swapped.
Sign(kind) == IF kind = "credit_note" THEN -1 ELSE 1

PaymentsOf(d) == { p \in Pays : payments[p].status = "kept" /\ payments[p].doc = d }
Received(d) == MapThenSumSet(LAMBDA p : payments[p].amount, PaymentsOf(d))

\* An entry of this amount on the receivables account.
Post(d, amount) ==
    /\ receivable[d] + amount \in -MaxBalance .. MaxBalance
    /\ receivable' = [receivable EXCEPT ![d] = @ + amount]

\* An AUTOINCREMENT id is never given twice.
NextDoc(d) == docs[d].status = "none" /\ \A e \in 1 .. d - 1 : docs[e].status # "none"
NextPay(p) == payments[p].status = "none" /\ \A q \in 1 .. p - 1 : payments[q].status # "none"

InFlight == { r \in Requests : req[r].op # "idle" }
Works(r, d) == req[r].doc = d /\ req[r].op \in {"issue", "update", "void", "pay", "unpay"}

\* A handler that will write to its document begins.
Enter(r, h) ==
    /\ req[r] = Idle
    /\ req' = [req EXCEPT ![r] = h]
    /\ crossed' = crossed \cup { d \in Docs : h.doc = d /\ \E o \in Requests : Works(o, d) }
    /\ UNCHANGED <<books, contested, surprised>>

Goto(r, step) ==
    /\ req' = [req EXCEPT ![r].at = step]
    /\ UNCHANGED <<crossed, contested, surprised>>

Leave(r) ==
    /\ req' = [req EXCEPT ![r] = Idle]
    /\ surprised' = IF InFlight = {r} THEN {} ELSE surprised
    /\ UNCHANGED <<crossed, contested>>

\* Has the handler written something that its other writes complete?
HalfDone(r) == req[r].at \in {"stamp", "remove", "sum", "store"}

\* An error, a refusal by a check made again, or the end of the process.
Fail(r) ==
    /\ req[r] # Idle
    /\ req' = [req EXCEPT ![r] = Idle]
    /\ crossed' = crossed \cup { d \in Docs : req[r].doc = d /\ HalfDone(r) }
    /\ surprised' = IF InFlight = {r} THEN {} ELSE surprised
    /\ UNCHANGED <<books, contested>>

-----------------------------------------------------------------------------
(* Drafts                                                                  *)

\* Repository.CreateInvoice, one transaction.
CreateInvoice(kind, day, total, time) ==
    \E d \in Docs :
        /\ NextDoc(d) /\ total <= MaxTotal
        /\ docs' = [docs EXCEPT ![d] = [NoDoc EXCEPT !.kind = kind, !.status = "draft",
                        !.day = day, !.total = total, !.time = time]]
        /\ UNCHANGED <<next, payments, receivable, invoiced, locked>>

\* A draft written by hand, of either kind.
CreateDraft ==
    /\ \E kind \in Kinds, day \in Days, total \in Amounts :
            CreateInvoice(kind, day, total, {})
    /\ UNCHANGED <<req, crossed, contested, surprised>>

BeginUpdate(r, d) ==
    /\ docs[d].status = "draft"
    /\ Enter(r, [Idle EXCEPT !.op = "update", !.doc = d, !.time = docs[d].time])

\* Mutant: the WHERE clause does not ask for a draft.
UpdateDraft_AnyStatus(r) ==
    LET d == req[r].doc
    IN /\ req[r].op = "update"
       /\ \E day \in Days, total \in Amounts, time \in SUBSET req[r].time :
            /\ Cardinality(time) <= total
            /\ docs' = [docs EXCEPT ![d] =
                            [@ EXCEPT !.day = day, !.total = total, !.time = time]]
       /\ Leave(r)
       /\ UNCHANGED <<next, payments, receivable, invoiced, locked>>

\* UpdateDraftInvoice: the caller sends lines back as it got them, or without.
UpdateDraft(r) ==
    LET d == req[r].doc
    IN /\ req[r].op = "update" /\ docs[d].status = "draft"
       /\ \E day \in Days, total \in Amounts, time \in SUBSET req[r].time :
            /\ Cardinality(time) <= total
            /\ docs' = [docs EXCEPT ![d] =
                            [@ EXCEPT !.day = day, !.total = total, !.time = time]]
       /\ Leave(r)
       /\ UNCHANGED <<next, payments, receivable, invoiced, locked>>

\* The lines go with the draft.
DeleteDraft(d) ==
    /\ docs[d].status = "draft"
    /\ docs' = [docs EXCEPT ![d] = [NoDoc EXCEPT !.status = "deleted"]]
    /\ UNCHANGED <<next, payments, receivable, invoiced, locked,
                   req, crossed, contested, surprised>>

\* Mutant: only the flag the CRM keeps is asked.
Unbilled_FlagOnly(t) == t \notin invoiced

\* Not flagged, and on no document that is not void.
Unbilled(t) ==
    /\ t \notin invoiced
    /\ \A d \in Docs : t \in docs[d].time => docs[d].status = "void"

\* DraftFromUnbilledTime reads, for an engagement, a client or up to a date.
BeginBill(r) ==
    \E time \in SUBSET { t \in Time : Unbilled(t) } \ {{}} :
        /\ req[r] = Idle
        /\ req' = [req EXCEPT ![r] = [Idle EXCEPT !.op = "bill", !.time = time]]
        /\ contested' = contested \cup (time \cap UNION { req[o].time : o \in Requests })
        /\ UNCHANGED <<books, crossed, surprised>>

\* ... and drafts, a line for each.
Bill(r) ==
    /\ req[r].op = "bill"
    /\ CreateInvoice("invoice", Today, Cardinality(req[r].time), req[r].time)
    /\ Leave(r)

\* CreditNote on an issued invoice: a draft, in full or with lines of its own,
\* and no link to the time billed.  Nothing that happens between its read and
\* its write changes what it writes.
CreditNote(d) ==
    /\ Issued(d) /\ docs[d].status # "void" /\ docs[d].kind = "invoice"
    /\ \E total \in Amounts : CreateInvoice("credit_note", Today, total, {})
    /\ UNCHANGED <<req, crossed, contested, surprised>>

-----------------------------------------------------------------------------
(* Issue                                                                   *)

\* Service.Issue checks, and builds the entry from the lines it read.
BeginIssue(r, d) ==
    /\ docs[d].status = "draft" /\ docs[d].day \notin locked
    /\ Enter(r, [Idle EXCEPT !.op = "issue", !.doc = d, !.total = docs[d].total])

\* Mutant: the status is not read again in the transaction.
Issue_NoRecheck(r) ==
    LET d == req[r].doc
        kind == docs[d].kind
        amount == Sign(kind) * req[r].total
    IN /\ req[r].op = "issue" /\ docs[d].status \notin {"none", "deleted"}
       /\ docs' = [docs EXCEPT ![d] = [@ EXCEPT !.status = "issued",
                                                !.number = next[kind], !.entry = amount]]
       /\ next' = [next EXCEPT ![kind] = @ + 1]
       /\ Post(d, amount)
       /\ invoiced' = invoiced \cup docs[d].time
       /\ Leave(r)
       /\ UNCHANGED <<payments, locked>>

\* IssueInvoice, one transaction: the next number, the entry on the day the
\* document has now, the status, and the flags of the hours it bills now.
Issue(r) ==
    LET d == req[r].doc
        kind == docs[d].kind
        amount == Sign(kind) * req[r].total
    IN /\ req[r].op = "issue" /\ docs[d].status = "draft"
       /\ docs' = [docs EXCEPT ![d] = [@ EXCEPT !.status = "issued",
                                                !.number = next[kind], !.entry = amount]]
       /\ next' = [next EXCEPT ![kind] = @ + 1]
       /\ Post(d, amount)
       /\ invoiced' = invoiced \cup docs[d].time
       /\ Leave(r)
       /\ UNCHANGED <<payments, locked>>

-----------------------------------------------------------------------------
(* Reversals: voiding a document, deleting a payment                       *)

BeginVoid(r, d) ==
    /\ Issued(d) /\ docs[d].status # "void" /\ docs[d].paid = 0
    /\ Today \notin locked
    /\ Enter(r, [Idle EXCEPT !.op = "void", !.at = "check", !.doc = d])

BeginDeletePayment(r, p) ==
    /\ payments[p].status = "kept" /\ payments[p].day \notin locked
    /\ Enter(r, [Idle EXCEPT !.op = "unpay", !.at = "check",
                             !.doc = payments[p].doc, !.pay = p])

\* Reverse and Post look at the day of the reversal, which is today.
CheckReversal(r) ==
    req[r].at = "check" /\ Today \notin locked /\ Goto(r, "reverse") /\ UNCHANGED books

\* Mutant: the entry is posted again, not its mirror image.
Reverse_Unswapped(r) ==
    LET h == req[r]
    IN /\ h.at = "reverse"
       /\ IF h.op = "void"
          THEN Post(h.doc, docs[h.doc].entry) /\ Goto(r, "stamp")
          ELSE Post(h.doc, -payments[h.pay].amount) /\ Goto(r, "remove")
       /\ UNCHANGED <<docs, next, payments, invoiced, locked>>

\* PostEntry, a transaction of its own.
Reverse(r) ==
    LET h == req[r]
    IN /\ h.at = "reverse"
       /\ IF h.op = "void"
          THEN Post(h.doc, -docs[h.doc].entry) /\ Goto(r, "stamp")
          ELSE Post(h.doc, payments[h.pay].amount) /\ Goto(r, "remove")
       /\ UNCHANGED <<docs, next, payments, invoiced, locked>>

\* SetInvoiceStatus asks nothing; the flags of the hours billed stay set.
StampVoid(r) ==
    /\ req[r].at = "stamp"
    /\ docs' = [docs EXCEPT ![req[r].doc].status = "void"]
    /\ Leave(r)
    /\ UNCHANGED <<next, payments, receivable, invoiced, locked>>

\* Repository.DeletePayment, unless the row is gone.
RemovePayment(r) ==
    /\ req[r].at = "remove" /\ payments[req[r].pay].status = "kept"
    /\ payments' = [payments EXCEPT ![req[r].pay].status = "deleted"]
    /\ Goto(r, "sum")
    /\ UNCHANGED <<docs, next, receivable, invoiced, locked>>

-----------------------------------------------------------------------------
(* Payments                                                                *)

\* Mutant: the period is not looked at.
BeginPayment_AnyDay(r, d) ==
    /\ docs[d].status \in {"issued", "part_paid"}
    /\ \E amount \in 1 .. docs[d].total - docs[d].paid, day \in Days :
        Enter(r, [Idle EXCEPT !.op = "pay", !.doc = d, !.total = amount, !.day = day])

BeginPayment(r, d) ==
    /\ docs[d].status \in {"issued", "part_paid"}
    /\ \E amount \in 1 .. docs[d].total - docs[d].paid, day \in Days \ locked :
        Enter(r, [Idle EXCEPT !.op = "pay", !.doc = d, !.total = amount, !.day = day])

\* Repository.RecordPayment: the receipt and its entry in one transaction, on
\* the credit side of the receivables whatever the document.
RecordPayment(r) ==
    LET h == req[r]
    IN /\ h.op = "pay" /\ h.at = "write"
       /\ \E p \in Pays :
            /\ NextPay(p)
            /\ payments' = [payments EXCEPT ![p] = [status |-> "kept", doc |-> h.doc,
                                amount |-> h.total, day |-> h.day]]
       /\ Post(h.doc, -h.total)
       /\ Goto(r, "sum")
       /\ UNCHANGED <<docs, next, invoiced, locked>>

\* RecalcInvoicePayments reads the document and the payments ...
SumPayments(r) ==
    LET d == req[r].doc
    IN /\ req[r].at = "sum"
       /\ \E paid \in 0 .. MaxPays * MaxTotal :
            /\ paid = Received(d)
            /\ req' = [req EXCEPT ![r] = [@ EXCEPT !.at = "store", !.total = paid,
                                                   !.status = docs[d].status]]
       /\ UNCHANGED <<books, crossed, contested, surprised>>

PaymentStatus(status, paid, total) ==
    IF status \in {"void", "draft"} THEN status
    ELSE IF paid = 0 THEN "issued"
    ELSE IF paid < total THEN "part_paid" ELSE "paid"

\* ... and writes what follows from what it read.
StorePaid(r) ==
    LET h == req[r]
    IN /\ h.at = "store"
       /\ docs' = [docs EXCEPT ![h.doc] = [@ EXCEPT !.paid = h.total,
                       !.status = PaymentStatus(h.status, h.total, docs[h.doc].total)]]
       /\ Leave(r)
       /\ UNCHANGED <<next, payments, receivable, invoiced, locked>>

-----------------------------------------------------------------------------
(* Periods, and the CRM's flag                                             *)

SetLock ==
    \E day \in Days, on \in BOOLEAN :
        /\ locked' = IF on THEN locked \cup {day} ELSE locked \ {day}
        /\ surprised' = IF on /\ InFlight # {} /\ day \notin locked
                        THEN surprised \cup {day} ELSE surprised
        /\ UNCHANGED <<docs, next, payments, receivable, invoiced,
                       req, crossed, contested>>

\* crm: SetTimeEntryInvoiced and MarkEngagementInvoiced, by hand.
Flag ==
    /\ \E t \in Time : invoiced' \in {invoiced \cup {t}, invoiced \ {t}}
    /\ UNCHANGED <<docs, next, payments, receivable, locked,
                   req, crossed, contested, surprised>>

Begin(r) ==
    \/ BeginBill(r)
    \/ \E d \in Docs :
        \/ BeginUpdate(r, d) \/ BeginIssue(r, d) \/ BeginVoid(r, d)
        \/ BeginPayment(r, d)
    \/ \E p \in Pays : BeginDeletePayment(r, p)

Go(r) ==
    \/ UpdateDraft(r) \/ Bill(r) \/ Issue(r)
    \/ CheckReversal(r) \/ Reverse(r) \/ StampVoid(r) \/ RemovePayment(r)
    \/ RecordPayment(r) \/ SumPayments(r) \/ StorePaid(r) \/ Fail(r)

Next ==
    \/ \E r \in Requests : Begin(r) \/ Go(r)
    \/ CreateDraft \/ SetLock \/ Flag
    \/ \E d \in Docs : DeleteDraft(d) \/ CreditNote(d)

Spec == Init /\ [][Next]_vars

-----------------------------------------------------------------------------
(* Properties                                                              *)

\* The numbers given are 1, 2, ... without a gap, each on one document for
\* good, voided documents included, whatever handlers overlap or break off
\* (invoice_repo.go: IssueInvoice, allocateNumberTx).
NumbersInSequence ==
    \A kind \in Kinds :
        LET given == { d \in Docs : Issued(d) /\ docs[d].kind = kind }
        IN /\ { docs[d].number : d \in given } = 1 .. next[kind] - 1
           /\ \A d, e \in given : docs[d].number = docs[e].number => d = e

\* A document that has gone out keeps what it said, and never becomes a draft
\* again, whatever handlers overlap (invoice_repo.go: UpdateDraftInvoice).
IssuedStands ==
    [][\A d \in Docs : Issued(d) =>
         /\ Issued(d)'
         /\ \A f \in {"kind", "day", "time", "total", "number", "entry"} :
                docs'[d][f] = docs[d][f]]_vars

\* What the receivables account holds for a document is its total, if it has
\* gone out and is not void, less its payments - unless two handlers worked on
\* that document at once or one left it half done (service.go: Reverse;
\* payment.go: RecordPayment, DeletePayment; invoice.go: Void).
Owed(d) ==
    (IF Issued(d) /\ docs[d].status # "void" THEN Sign(docs[d].kind) * docs[d].total ELSE 0)
        - Received(d)

\* And then the stored paid total is the sum of the payments and never above
\* the total, the status says so, and a void document has no payment
\* (invoice_repo.go: RecalcInvoicePayments; invoice.go: paymentStatus).
BooksAgree ==
    \A d \in Docs :
        \/ d \in crossed
        \/ \E r \in Requests : Works(r, d)
        \/ /\ receivable[d] = Owed(d)
           /\ docs[d].paid = Received(d)
           /\ docs[d].paid <= docs[d].total
           /\ docs[d].status = "void" => docs[d].paid = 0
           /\ docs[d].status \in {"issued", "part_paid", "paid"} =>
                docs[d].status = PaymentStatus("issued", docs[d].paid, docs[d].total)

\* An hour is on one document that is not void, unless two drafts were prepared
\* from it at once or a void was overtaken (crm_bridge.go: UnbilledTime).
BilledOnce ==
    \A t \in Time \ contested :
        \A d, e \in Docs \ crossed :
            Live(d) /\ Live(e) /\ t \in docs[d].time \cap docs[e].time => d = e

\* Nothing is posted into a locked period, but by a handler that checked before
\* the lock came, or on a draft that was moved while it was being issued
\* (service.go: checkPeriodOpen).
EntryDay(r) ==
    CASE req[r].at = "reverse" -> Today
      [] req[r].op = "issue" -> docs[req[r].doc].day
      [] OTHER -> req[r].day

PeriodsHold ==
    [][\A r \in Requests :
         req'[r] # req[r] /\ receivable' # receivable =>
             \/ EntryDay(r) \notin locked \/ EntryDay(r) \in surprised
             \/ req[r].doc \in crossed]_vars

=============================================================================
