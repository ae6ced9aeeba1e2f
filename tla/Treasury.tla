------------------------------ MODULE Treasury ------------------------------
(***************************************************************************)
(* The other half of internal/accounting: the owner's money (funding.go),  *)
(* the expenses (expense.go), entries and reversals by hand (service.go),  *)
(* locked periods and the statements drawn from the ledger (reports.go,    *)
(* reports_repo.go).  A record and its entry are one transaction; taking a *)
(* record back is two, the reversal and then the row; and every handler    *)
(* checks before it writes, so that others come between.                   *)
(*                                                                         *)
(* The chart is reduced to an account of each kind of use.  An entry is    *)
(* kept with its lines, a debit counting up and a credit down.             *)
(***************************************************************************)
EXTENDS Integers, Sequences, FiniteSetsExt, Functions

CONSTANTS
    Clerks,     \* handlers in flight at once
    Offers,     \* what may be recorded: see Offer
    ByHand,     \* the lines of the entries made by hand
    Periods,    \* the periods that may be closed, as sets of days
    LastDay,    \* bound: days are 1 .. LastDay
    MaxRecords, \* bound: records ever made
    MaxEntries, \* bound: entries posted or under way
    MaxTrouble  \* bound: handlers cut short, and entries and reversals by hand

VARIABLES
    today,      \* the server's date
    journal,    \* acct_journal_entries with their lines, in order
    records,    \* acct_funding and acct_expenses: id -> row
    nextRecord, \* their AUTOINCREMENT
    locked,     \* the days of locked periods
    clerk,      \* what each handler is doing
    astray,     \* history: records reversed by hand, twice, or left half removed
    trouble     \* how much of its bound has happened

books == <<journal, records, nextRecord, locked>>
vars == <<today, books, clerk, astray, trouble>>

Days == 1 .. LastDay
Accounts == {"bank", "capital", "loan", "cost", "vat"}
Fundings == {"capital", "loan", "repayment"}

\* The rate is in basis points and is 0 for funding.
Offer == [kind : Fundings \cup {"expense"}, amount : Nat \ {0}, rate : Nat,
          reclaimable : BOOLEAN, rebilled : BOOLEAN]

Idle == [at |-> "idle", row |-> [day |-> 0], lines |-> <<>>, entry |-> 0,
         id |-> 0, day |-> 0, seen |-> 0]

TypeOK ==
    /\ today \in Days
    /\ \A n \in DOMAIN journal :
          /\ journal[n].day \in Days /\ journal[n].lines \in [Accounts -> Int]
          /\ journal[n].of \in 0 .. MaxRecords /\ journal[n].mirrors \in 0 .. n - 1
    /\ DOMAIN records \subseteq 1 .. nextRecord - 1
    /\ locked \subseteq Days
    /\ \A c \in Clerks :
          clerk[c].at \in {"idle", "record", "hand", "reverse", "erase"}
    /\ astray \subseteq 1 .. MaxRecords
    /\ trouble \in 0 .. MaxTrouble

Init ==
    /\ today = 1
    /\ journal = <<>> /\ records = <<>> /\ nextRecord = 1 /\ locked = {}
    /\ clerk = [c \in Clerks |-> Idle]
    /\ astray = {} /\ trouble = 0

-----------------------------------------------------------------------------
(* The ledger                                                              *)

PeriodOpen(d) == d \notin locked

\* What the entries of some records (0 for those by hand) did to an account,
\* up to a day.
Effect(a, ids, d) ==
    MapThenSumSet(LAMBDA n : journal[n].lines[a],
                  { n \in DOMAIN journal : journal[n].of \in ids /\ journal[n].day <= d })

Balance(a, d) == Effect(a, 0 .. MaxRecords, d)

\* Read off the ledger, not off the funding table.
OwnerLoanBalance(d) == -Balance("loan", d)

Move(to, from, amount) ==
    [a \in Accounts |-> CASE a = to -> amount [] a = from -> -amount [] OTHER -> 0]

\* Half a unit is rounded up.
VAT(net, rate) == (net * rate + 5000) \div 10000

\* Capital and a loan come in, a repayment goes out.
FundingPostings(r) ==
    CASE r.kind = "capital"   -> Move("bank", "capital", r.amount)
      [] r.kind = "loan"      -> Move("bank", "loan", r.amount)
      [] r.kind = "repayment" -> Move("loan", "bank", r.amount)

\* Mutant: tax nobody gives back is left out.
ExpensePostings_NetOnly(r) ==
    LET tax == VAT(r.amount, r.rate)
    IN IF r.reclaimable
       THEN [Move("cost", "bank", r.amount) EXCEPT !["vat"] = tax, !["bank"] = @ - tax]
       ELSE Move("cost", "bank", r.amount)

\* Tax that cannot be reclaimed is part of the cost.
ExpensePostings(r) ==
    LET tax == VAT(r.amount, r.rate)
    IN IF r.reclaimable
       THEN [Move("cost", "bank", r.amount) EXCEPT !["vat"] = tax, !["bank"] = @ - tax]
       ELSE Move("cost", "bank", r.amount + tax)

\* The only lines that are ever posted.
Balanced(lines) ==
    lines["bank"] + lines["capital"] + lines["loan"] + lines["cost"] + lines["vat"] = 0

Entry(d, lines, of, mirrors) ==
    [day |-> d, lines |-> lines, of |-> of, mirrors |-> mirrors]

Begin(c, work) ==
    /\ clerk[c] = Idle
    /\ clerk' = [clerk EXCEPT ![c] = [x \in DOMAIN Idle |->
                    IF x = "seen" THEN Len(journal)
                    ELSE IF x \in DOMAIN work THEN work[x] ELSE Idle[x]]]
    /\ Len(journal) + Cardinality({ k \in Clerks : clerk[k] # Idle }) < MaxEntries
    /\ UNCHANGED <<today, books, astray>>

Trouble == trouble < MaxTrouble /\ trouble' = trouble + 1

Leave(c) == clerk' = [clerk EXCEPT ![c] = Idle]
Refuse(c) == Leave(c) /\ UNCHANGED <<books, astray>>

-----------------------------------------------------------------------------
(* Recording                                                               *)

\* RecordFunding up to its transaction: a repayment is checked against what is
\* owed on its own day.
BeginFunding(c) ==
    \E o \in Offers, d \in Days :
        /\ o.kind \in Fundings /\ PeriodOpen(d)
        /\ o.kind = "repayment" => OwnerLoanBalance(d) >= o.amount
        /\ Begin(c, [at |-> "record", day |-> d, row |-> o])

\* RecordExpense up to its transaction.
BeginExpense(c) ==
    \E o \in Offers, d \in Days :
        /\ o.kind = "expense" /\ PeriodOpen(d)
        /\ Begin(c, [at |-> "record", day |-> d, row |-> o])

\* The entry, the row, and the id of each in the other.
Insert(c, lines) ==
    LET w == clerk[c]
    IN /\ nextRecord <= MaxRecords
       /\ journal' = Append(journal, Entry(w.day, lines, nextRecord, 0))
       /\ records' = [id \in DOMAIN records \cup {nextRecord} |->
                        IF id \in DOMAIN records THEN records[id]
                        ELSE [offer |-> w.row, day |-> w.day, entry |-> Len(journal) + 1]]
       /\ nextRecord' = nextRecord + 1
       /\ Leave(c) /\ UNCHANGED <<locked, astray>>

RecordFunding(c) ==
    /\ clerk[c].at = "record" /\ clerk[c].row.kind \in Fundings
    /\ Insert(c, FundingPostings(clerk[c].row))

RecordExpense(c) ==
    /\ clerk[c].at = "record" /\ clerk[c].row.kind = "expense"
    /\ Insert(c, ExpensePostings(clerk[c].row))

-----------------------------------------------------------------------------
(* Taking back                                                             *)

\* Mutant: a loan goes whatever was repaid of it.
BeginDeleteFunding_Unchecked(c) ==
    \E id \in DOMAIN records :
        LET r == records[id]
        IN /\ r.offer.kind \in Fundings /\ PeriodOpen(r.day)
           /\ Begin(c, [at |-> "reverse", day |-> today, id |-> id, entry |-> r.entry])

\* DeleteFunding: a loan goes only if that much is owed today.
BeginDeleteFunding(c) ==
    \E id \in DOMAIN records :
        LET r == records[id]
        IN /\ r.offer.kind \in Fundings /\ PeriodOpen(r.day)
           /\ r.offer.kind = "loan" => OwnerLoanBalance(today) >= r.offer.amount
           /\ Begin(c, [at |-> "reverse", day |-> today, id |-> id, entry |-> r.entry])

\* DeleteExpense: not one that was billed on.
BeginDeleteExpense(c) ==
    \E id \in DOMAIN records :
        LET r == records[id]
        IN /\ r.offer.kind = "expense" /\ ~r.offer.rebilled /\ PeriodOpen(r.day)
           /\ Begin(c, [at |-> "reverse", day |-> today, id |-> id, entry |-> r.entry])

\* The row goes; that it is gone already is at most an error.
Erase(c) ==
    /\ clerk[c].at = "erase"
    /\ records' = [id \in DOMAIN records \ {clerk[c].id} |-> records[id]]
    /\ Leave(c) /\ UNCHANGED <<journal, nextRecord, locked, astray>>

-----------------------------------------------------------------------------
(* By hand                                                                 *)

\* Any balanced entry, on any day.
BeginHand(c) ==
    \E lines \in ByHand, d \in Days :
        PeriodOpen(d) /\ Begin(c, [at |-> "hand", day |-> d, lines |-> lines])

Post(c) ==
    /\ clerk[c].at = "hand"
    /\ journal' = Append(journal, Entry(clerk[c].day, clerk[c].lines, 0, 0))
    /\ Leave(c) /\ UNCHANGED <<records, nextRecord, locked, astray>>

\* Any entry can be reversed, on any day, and more than once.
BeginReversal(c) ==
    \E n \in DOMAIN journal, d \in Days :
        Begin(c, [at |-> "reverse", day |-> d, entry |-> n])

Reversed(n) == \E m \in DOMAIN journal : journal[m].mirrors = n

\* Reverse and Post: the mirror image, if its day is open (looked up and written
\* in one step here: nothing below depends on a lock that comes between).
Reverse(c) ==
    LET w == clerk[c]
        old == journal[w.entry]
    IN /\ w.at = "reverse"
       /\ IF PeriodOpen(w.day)
          THEN /\ journal' = Append(journal, Entry(w.day,
                    [a \in Accounts |-> -old.lines[a]], old.of, w.entry))
               /\ clerk' = [clerk EXCEPT ![c] =
                    IF w.id = 0 THEN Idle ELSE [@ EXCEPT !.at = "erase"]]
               /\ astray' = astray \cup
                    IF w.id = 0 \/ Reversed(w.entry) THEN {old.of} \ {0} ELSE {}
               /\ UNCHANGED <<records, nextRecord, locked>>
          ELSE Refuse(c)

-----------------------------------------------------------------------------
\* A period is closed or opened again, over whatever is in it.
LockPeriod ==
    /\ \E p \in Periods : locked' \in {locked \cup p, locked \ p}
    /\ UNCHANGED <<today, journal, records, nextRecord, clerk, astray, trouble>>

\* A store error, or the end of the process.
Fail(c) ==
    /\ clerk[c] # Idle /\ Trouble
    /\ astray' = astray \cup IF clerk[c].at = "erase" THEN {clerk[c].id} ELSE {}
    /\ Leave(c) /\ UNCHANGED <<today, books>>

Tick == today < LastDay /\ today' = today + 1 /\ UNCHANGED <<books, clerk, astray, trouble>>

Request(c) ==
    \/ /\ \/ BeginFunding(c) \/ BeginExpense(c)
          \/ BeginDeleteFunding(c) \/ BeginDeleteExpense(c)
       /\ UNCHANGED trouble
    \/ Trouble /\ (BeginHand(c) \/ BeginReversal(c))

Write(c) ==
    /\ \/ RecordFunding(c) \/ RecordExpense(c) \/ Post(c) \/ Reverse(c) \/ Erase(c)
    /\ UNCHANGED <<today, trouble>>

Next ==
    \/ Tick \/ LockPeriod
    \/ \E c \in Clerks : Request(c) \/ Write(c) \/ Fail(c)

Spec == Init /\ [][Next]_vars

-----------------------------------------------------------------------------
(* Statements                                                              *)

\* Profit and loss up to a day.
ProfitAndLoss(d) == -Balance("cost", d)

\* The balance sheet of a day, if it balances: assets are what is owed, what
\* was put in, and what was earned.
BalanceSheet(d) ==
    Balance("bank", d) = -(Balance("loan", d) + Balance("vat", d)) - Balance("capital", d)
                         + ProfitAndLoss(d)

\* Records whose reversal is posted and whose row is still there, or whose
\* entry was not reversed exactly once.
Unsettled == astray \cup { clerk[c].id : c \in { k \in Clerks : clerk[k].at = "erase" } }

\* The rows of some kinds, summed by f.
Rows(kinds, f(_)) ==
    MapThenSumSet(LAMBDA id : f(records[id].offer),
        { id \in DOMAIN records \ Unsettled : records[id].offer.kind \in kinds })

Net(o) == o.amount
Tax(o) == VAT(o.amount, o.rate)
Reclaimed(o) == IF o.reclaimable THEN Tax(o) ELSE 0

\* The input tax of a return, drawn from the expenses and not the ledger.
InputVAT == Rows({"expense"}, Reclaimed)

-----------------------------------------------------------------------------
(* Properties                                                              *)

\* Entries by hand aside, the ledger holds what the records say, to the cent:
\* every row is in each account once and a row taken back is out of all of
\* them, whatever interleaved or was refused, and every balance sheet balances
\* - except for records that were reversed by hand, taken back by two at once,
\* or left half taken back (RecordFunding, RecordExpense, DeleteFunding,
\* DeleteExpense, BalanceSheet).
LedgerFollowsRecords ==
    LET Held(a) == Effect(a, 1 .. MaxRecords \ Unsettled, LastDay)
    IN /\ \A d \in Days : BalanceSheet(d)
       /\ Held("loan") = Rows({"repayment"}, Net) - Rows({"loan"}, Net)
       /\ Held("capital") = -Rows({"capital"}, Net)
       /\ Held("vat") = InputVAT
       /\ Held("bank") = Rows({"capital", "loan"}, Net) - Rows({"repayment"}, Net)
                         - Rows({"expense"}, Net) - Rows({"expense"}, Tax)

\* The new entry had no check that still held: it is one by hand, or a
\* reversal by hand, or entries of a later day are there, or another was posted
\* since the check.
Unguarded ==
    LET new == journal'[Len(journal')]
    IN \/ new.of = 0
       \/ \E n \in DOMAIN journal : journal[n].day > new.day
       \/ \E c \in Clerks :
            /\ clerk'[c] # clerk[c]
            /\ \/ clerk[c].seen < Len(journal)
               \/ clerk[c].at = "reverse" /\ clerk[c].id = 0

\* No repayment and no removal of a loan leaves the owner owing the business,
\* on any day, unless something was posted since it was checked or entries of
\* a later day were there (the guards of RecordFunding and DeleteFunding).
LoanNotOverdrawn ==
    [][ Len(journal') > Len(journal) =>
          \A d \in Days :
            OwnerLoanBalance(d) >= 0 /\ OwnerLoanBalance(d)' < 0 => Unguarded ]_vars

=============================================================================
