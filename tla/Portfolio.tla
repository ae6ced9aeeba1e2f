----------------------------- MODULE Portfolio ------------------------------
(***************************************************************************)
(* The investment ledger (internal/fintech: service, importer, kraken,     *)
(* broker, repository): trades entered by hand, imported from a CSV file   *)
(* in two requests, synced from an exchange, and filled by a paper broker, *)
(* all booked through RecordTrade; and the positions replayed from it.     *)
(*                                                                         *)
(* One symbol; amounts are cents.  What two imports, a sync and an order   *)
(* do meanwhile is interleaved row by row.                                 *)
(***************************************************************************)
EXTENDS Integers, Sequences, SequencesExt, FiniteSetsExt

CONSTANTS
    Files,          \* file -> its rows, each a trade or Unreadable
    Exchange,       \* exchange trade id -> trade
    Orders,         \* broker order id -> the trade it fills as
    Manual,         \* trades that are entered by hand
    Uploads,        \* upload tokens
    MaxUploads,     \* importer.go: maxPendingUploads
    MaxTrouble      \* bound: failures, cancelled requests, expiries

VARIABLES
    ledger,     \* fintech_transactions, as ListTransactions gives them
    uploads,    \* token -> the file parsed and not confirmed, or NoFile
    jobs,       \* requests that are booking rows
    traded,     \* what has happened at the exchange
    filled,     \* the orders the broker has filled
    trouble,    \* what happened so far of what MaxTrouble bounds
    clean       \* history: the rows an import or a sync reported no error for

vars == <<ledger, uploads, jobs, traded, filled, trouble, clean>>

Unreadable == [side |-> "unreadable"]
NoFile == "none"
Requests == Uploads \cup {"sync"} \cup DOMAIN Orders

\* What RecordTrade accepts; its amounts are whole here.
Trade == [side : {"buy", "sell"}, qty : Nat \ {0}, price : Nat, fee : Nat, time : Int]

WellFormed ==
    /\ Manual \subseteq Trade
    /\ Exchange \in [DOMAIN Exchange -> Trade] /\ Orders \in [DOMAIN Orders -> Trade]
    /\ \A f \in DOMAIN Files : Files[f] \in Seq(Trade \cup {Unreadable})
    /\ "sync" \notin Uploads

\* A request that is booking, and the rows it has left.
Idle == [at |-> "idle", rows |-> <<>>]
Booking(rows) == [at |-> "booking", rows |-> rows]

TypeOK ==
    /\ \A i \in DOMAIN ledger : /\ DOMAIN ledger[i] = {"trade", "source", "external", "hash"}
                              /\ ledger[i].source \in {"manual", "csv_import", "kraken_sync", "paper"}
    /\ uploads \in [Uploads -> DOMAIN Files \cup {NoFile}]
    /\ DOMAIN jobs = Requests
    /\ \A r \in Requests : jobs[r].at \in {"idle", "booking", "placed", "given up", "booked"}
    /\ traded \subseteq DOMAIN Exchange /\ filled \subseteq DOMAIN Orders
    /\ trouble \in 0 .. MaxTrouble

Init ==
    /\ ledger = <<>>
    /\ uploads = [u \in Uploads |-> NoFile]
    /\ jobs = [r \in Requests |-> Idle]
    /\ traded = {} /\ filled = {}
    /\ trouble = 0 /\ clean = {}

Trouble == trouble < MaxTrouble /\ trouble' = trouble + 1

-----------------------------------------------------------------------------
(* Booking a trade                                                         *)

\* "123" and "4" are hashed one after the other: what is kept of two amounts
\* is the number they make together, and its length.
Length(n) == CHOOSE k \in 1 .. 4 : n < 10 ^ k /\ (k = 1 \/ n >= 10 ^ (k - 1))
Joined(n, m) == <<Length(n) + Length(m), n * 10 ^ Length(m) + m>>

\* computeDedupeHash.  The broker's order id is not part of it.
DedupeHash(trade, source, external) ==
    <<trade.side, trade.qty, Joined(trade.price, trade.fee), trade.time, source, external>>

\* total_cents: the cash that moved.
Total(trade) ==
    IF trade.side = "buy" THEN -(trade.qty * trade.price + trade.fee)
                          ELSE trade.qty * trade.price - trade.fee

Row(trade, source, external) ==
    [trade |-> trade, source |-> source, external |-> external,
     hash |-> DedupeHash(trade, source, external)]

IsDuplicate(row) == \E i \in DOMAIN ledger : ledger[i].hash = row.hash

\* ListTransactions orders by time of execution, then by id: a new row comes
\* after all that are no later.
Inserted(row) ==
    InsertAt(ledger, 1 + Cardinality({ i \in DOMAIN ledger :
                                         ledger[i].trade.time <= row.trade.time }), row)

\* InsertTransaction: the unique index refuses a duplicate.
RecordTrade(row) == ledger' = IF IsDuplicate(row) THEN ledger ELSE Inserted(row)

RecordByHand(trade) ==
    /\ RecordTrade(Row(trade, "manual", "")) /\ ledger' # ledger
    /\ UNCHANGED <<uploads, jobs, traded, filled, trouble, clean>>

-----------------------------------------------------------------------------
(* CSV imports                                                             *)

Pending == { u \in Uploads : uploads[u] # NoFile }

\* The parsed file is kept under a fresh token; those past their time are
\* dropped first, and no more than MaxUploads are kept.
PreviewImport(u, f) ==
    /\ uploads[u] = NoFile /\ jobs[u].at = "idle"
    /\ \E expired \in SUBSET Pending :
        /\ trouble' = trouble + Cardinality(expired) /\ trouble' <= MaxTrouble
        /\ LET kept == [w \in Uploads |-> IF w \in expired THEN NoFile ELSE uploads[w]]
           IN uploads' = IF Cardinality(Pending \ expired) >= MaxUploads THEN kept
                         ELSE [kept EXCEPT ![u] = f]
    /\ UNCHANGED <<ledger, jobs, traded, filled, clean>>

\* The token is spent before the first row: a second confirmation is refused.
ConfirmImport(u) ==
    /\ uploads[u] # NoFile
    /\ jobs' = [jobs EXCEPT ![u] = Booking(Files[uploads[u]])]
    /\ uploads' = [uploads EXCEPT ![u] = NoFile]
    /\ UNCHANGED <<ledger, traded, filled, trouble, clean>>

\* A row that cannot be read or booked is reported, and the next one tried.
ImportRow(u) ==
    /\ jobs[u].at = "booking" /\ jobs[u].rows # <<>>
    /\ jobs' = [jobs EXCEPT ![u].rows = Tail(@)]
    /\ LET row == Head(jobs[u].rows)
           booked == Row(row, "csv_import", "")
       IN \/ row = Unreadable /\ UNCHANGED <<ledger, trouble, clean>>
          \/ row # Unreadable /\ RecordTrade(booked) /\ clean' = clean \cup {booked}
             /\ UNCHANGED trouble
          \/ row # Unreadable /\ Trouble /\ UNCHANGED <<ledger, clean>>
    /\ UNCHANGED <<uploads, traded, filled>>

\* The mapping and the batch are saved, and the counts are returned.
FinishImport(u) ==
    /\ jobs[u].at = "booking" /\ jobs[u].rows = <<>>
    /\ jobs' = [jobs EXCEPT ![u] = Idle]
    /\ UNCHANGED <<ledger, uploads, traded, filled, trouble, clean>>

-----------------------------------------------------------------------------
(* The exchange and the paper broker                                       *)

TradeOnExchange(id) ==
    /\ id \notin traded
    /\ traded' = traded \cup {id}
    /\ UNCHANGED <<ledger, uploads, jobs, filled, trouble, clean>>

\* SyncKraken: the history as it is now, in any order.
BeginSync ==
    /\ jobs["sync"].at = "idle"
    /\ \E rows \in SetToSeqs(traded) :
        jobs' = [jobs EXCEPT !["sync"] = Booking(rows)]
    /\ UNCHANGED <<ledger, uploads, traded, filled, trouble, clean>>

SyncTrade ==
    /\ jobs["sync"].at = "booking" /\ jobs["sync"].rows # <<>>
    /\ jobs' = [jobs EXCEPT !["sync"].rows = Tail(@)]
    /\ LET id == Head(jobs["sync"].rows)
           booked == Row(Exchange[id], "kraken_sync", id)
       IN \/ RecordTrade(booked) /\ clean' = clean \cup {booked} /\ UNCHANGED trouble
          \/ Trouble /\ UNCHANGED <<ledger, clean>>
    /\ UNCHANGED <<uploads, traded, filled>>

FinishSync ==
    /\ jobs["sync"].at = "booking" /\ jobs["sync"].rows = <<>>
    /\ jobs' = [jobs EXCEPT !["sync"] = Idle]
    /\ UNCHANGED <<ledger, uploads, traded, filled, trouble, clean>>

\* PlaceOrder posts the order, awaitFill polls until it is filled ...
PlaceOrder(o) ==
    /\ jobs[o].at = "idle"
    /\ jobs' = [jobs EXCEPT ![o].at = "placed"]
    /\ UNCHANGED <<ledger, uploads, traded, filled, trouble, clean>>

Fill(o) ==
    /\ jobs[o].at \in {"placed", "given up"} /\ o \notin filled
    /\ filled' = filled \cup {o}
    /\ UNCHANGED <<ledger, uploads, jobs, traded, trouble, clean>>

\* ... and the fill is booked.
BookFill(o) ==
    /\ jobs[o].at = "placed" /\ o \in filled
    /\ RecordTrade(Row(Orders[o], "paper", ""))
    /\ jobs' = [jobs EXCEPT ![o].at = "booked"]
    /\ UNCHANGED <<uploads, traded, filled, trouble, clean>>

\* Rejected, not filled in time, or the request cancelled: nothing is booked,
\* and the order may still fill.
GiveUpOrder(o) ==
    /\ jobs[o].at = "placed" /\ Trouble
    /\ jobs' = [jobs EXCEPT ![o].at = "given up"]
    /\ UNCHANGED <<ledger, uploads, traded, filled, clean>>

\* The server restarts: requests end, and uploads are gone.
Restart ==
    /\ Trouble
    /\ uploads' = [u \in Uploads |-> NoFile]
    /\ jobs' = [r \in Requests |->
                IF jobs[r].at = "placed" THEN [jobs[r] EXCEPT !.at = "given up"]
                ELSE IF jobs[r].at = "booking" THEN Idle ELSE jobs[r]]
    /\ UNCHANGED <<ledger, traded, filled, clean>>

-----------------------------------------------------------------------------
(* The positions                                                           *)

\* ratToCents: the nearest cent, halves away from zero.
Round(n, d) == IF n >= 0 THEN (2 * n + d) \div (2 * d) ELSE -((-2 * n + d) \div (2 * d))

\* Mutant: the average is taken over what is left.
Replay_AfterSale(p, t) ==
    IF t.side = "buy"
    THEN [p EXCEPT !.qty = @ + t.qty, !.cost = @ - Total(t) * p.den]
    ELSE IF p.qty > t.qty
    THEN [qty |-> p.qty - t.qty,
          cost |-> p.cost * (p.qty - t.qty), den |-> p.den * p.qty,
          realized |-> p.realized + Total(t)
                       - Round(p.cost * t.qty, p.den * (p.qty - t.qty)),
          sales |-> p.sales + 1]
    ELSE [p EXCEPT !.qty = @ - t.qty, !.realized = @ + Total(t)]

\* One row of holdingsFromLedger: a buy adds to the cost; a sale removes cost
\* at the average so far and realizes the rest, or all of it if nothing is
\* held.  The cost is exact (cost / den); only what is realized is rounded.
Replay(p, t) ==
    IF t.side = "buy"
    THEN [p EXCEPT !.qty = @ + t.qty, !.cost = @ - Total(t) * p.den]
    ELSE IF p.qty > 0
    THEN [qty |-> p.qty - t.qty,
          cost |-> p.cost * (p.qty - t.qty), den |-> p.den * p.qty,
          realized |-> p.realized + Total(t) - Round(p.cost * t.qty, p.den * p.qty),
          sales |-> p.sales + 1]
    ELSE [p EXCEPT !.qty = @ - t.qty, !.realized = @ + Total(t)]

Flat == [qty |-> 0, cost |-> 0, den |-> 1, realized |-> 0, sales |-> 0]
PositionAfter[n \in 0 .. Len(ledger)] ==
    IF n = 0 THEN Flat ELSE Replay(PositionAfter[n - 1], ledger[n].trade)
Position == PositionAfter[Len(ledger)]

\* The cash that moved with the rows of the ledger.
Moved == MapThenSumSet(LAMBDA i : Total(ledger[i].trade), DOMAIN ledger)

-----------------------------------------------------------------------------
Next ==
    \/ \E t \in Manual : RecordByHand(t)
    \/ \E u \in Uploads :
        \/ \E f \in DOMAIN Files : PreviewImport(u, f)
        \/ ConfirmImport(u) \/ ImportRow(u) \/ FinishImport(u)
    \/ \E id \in DOMAIN Exchange : TradeOnExchange(id)
    \/ BeginSync \/ SyncTrade \/ FinishSync
    \/ \E o \in DOMAIN Orders : PlaceOrder(o) \/ Fill(o) \/ BookFill(o) \/ GiveUpOrder(o)
    \/ Restart

Spec == Init /\ [][Next]_vars

-----------------------------------------------------------------------------
(* Properties                                                              *)

Booked(Is(_)) == Cardinality({ i \in DOMAIN ledger : Is(ledger[i]) })

\* The ledger holds what happened outside, once: no trade of the exchange and
\* no line of a file twice, however often and by how many requests at once it
\* is synced or imported; no order that was not filled; and every trade an
\* import or a sync reported no error for (service.go: RecordTrade,
\* computeDedupeHash; importer.go: ConfirmImport; kraken.go: SyncKraken).
BookedAsHappened ==
    /\ \A id \in DOMAIN Exchange :
        Booked(LAMBDA row : row.source = "kraken_sync" /\ row.external = id)
            <= IF id \in traded THEN 1 ELSE 0
    /\ Booked(LAMBDA row : row.source = "paper") <= Cardinality(filled)
    /\ \A expected \in clean :
        Booked(LAMBDA row : /\ row.source = expected.source
                           /\ row.external = expected.external
                           /\ row.hash = expected.hash) = 1

\* Every cent that moved is either in the cost of the position or realized,
\* up to half a cent for each sale: also after more was sold than was held,
\* and when an import books trades from before the others
\* (service.go: holdingsFromLedger).
CashAccounted ==
    LET p == Position
        gap == (p.realized - Moved) * p.den - p.cost
    IN 2 * (IF gap >= 0 THEN gap ELSE -gap) <= p.sales * (IF p.den >= 0 THEN p.den ELSE -p.den)

=============================================================================
