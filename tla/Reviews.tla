------------------------------ MODULE Reviews -------------------------------
(***************************************************************************)
(* The portfolio's background passes (internal/fintech): the scan that     *)
(* scores matured forecasts and makes fresh ones for the watchlist, the    *)
(* review cycle that rates every watched and held symbol, and the digest   *)
(* of what was not reported yet.  A cycle is run by its timer and by       *)
(* POST /reviews/run, in any overlap.                                      *)
(*                                                                         *)
(* Prices, ratings and texts are left out.  A forecast has one horizon and *)
(* is followed until it is scored, a review until it is stamped as         *)
(* reported: neither row changes afterwards.                               *)
(***************************************************************************)
EXTENDS Naturals, Sequences, SequencesExt

CONSTANTS
    Symbols,
    Cycles,         \* who runs a review cycle: the timer, a request
    Cap,            \* review.go: maxReviewsPerCycle
    Rows,           \* bound: unreported reviews that are followed
    Forecasts,      \* bound: unscored forecasts that are followed
    Day,            \* length of a day, in moments
    Windows,        \* the night hours that may be configured, <<start, end>>
    MaxTrouble      \* bound: failures, stops, changes of settings, removals

VARIABLES
    watchlist,  \* the watched symbols, by id
    forecasts,  \* "free", "open", or "due": its target date has passed
    rows,       \* unreported reviews: "free", "new", or "sent" in a digest
    pass,       \* what each cycle and the scan is doing
    config,     \* [alert, window]: the review settings
    trouble     \* what happened so far of what MaxTrouble bounds

vars == <<watchlist, forecasts, rows, pass, config, trouble>>

Passes == Cycles \cup {"scan"}
Untracked == "untracked"    \* a row or a forecast beyond the bound
Idle == [at |-> "idle", due |-> {}, todo |-> <<>>, made |-> Untracked, mail |-> {}]
Stages == {"idle", "scoring", "reviewing", "rating", "sending", "stamping", "forecasting"}

TypeOK ==
    /\ watchlist \in Seq(Symbols) /\ IsInjective(watchlist)
    /\ forecasts \in [Forecasts -> {"free", "open", "due"}]
    /\ rows \in [Rows -> {"free", "new", "sent"}]
    /\ \A p \in Passes :
        /\ pass[p].at \in Stages /\ pass[p].due \subseteq Forecasts
        /\ p \in Cycles => Len(pass[p].todo) <= Cap
        /\ pass[p].mail \subseteq Rows
        /\ pass[p].made \in Forecasts \cup {Untracked}
    /\ config.alert \in BOOLEAN /\ config.window \in Windows
    /\ trouble \in 0 .. MaxTrouble

Init ==
    /\ watchlist = <<>>
    /\ forecasts = [f \in Forecasts |-> "free"]
    /\ rows = [r \in Rows |-> "free"]
    /\ pass = [p \in Passes |-> Idle]
    /\ config \in [alert : {TRUE}, window : Windows]
    /\ trouble = 0

Trouble == trouble < MaxTrouble /\ trouble' = trouble + 1
Become(p, new) == pass' = [pass EXCEPT ![p] = new]

-----------------------------------------------------------------------------
(* The watchlist, the settings, and time that passes                       *)

\* UpsertWatchlistEntry: a new entry is the last; one that is there keeps its
\* place.
AddToWatchlist(s) ==
    /\ ~Contains(watchlist, s)
    /\ watchlist' = Append(watchlist, s)
    /\ UNCHANGED <<forecasts, rows, pass, config, trouble>>

RemoveFromWatchlist(s) ==
    /\ Contains(watchlist, s) /\ Trouble
    /\ watchlist' = Remove(watchlist, s)
    /\ UNCHANGED <<forecasts, rows, pass, config>>

SetReviewConfig ==
    /\ Trouble
    /\ config' \in [alert : BOOLEAN, window : Windows] /\ config' # config
    /\ UNCHANGED <<watchlist, forecasts, rows, pass>>

\* A target date passes.
Mature(f) ==
    /\ forecasts[f] = "open"
    /\ forecasts' = [forecasts EXCEPT ![f] = "due"]
    /\ UNCHANGED <<watchlist, rows, pass, config, trouble>>

DeleteForecast(f) ==
    /\ forecasts[f] # "free" /\ Trouble
    /\ forecasts' = [forecasts EXCEPT ![f] = "free"]
    /\ UNCHANGED <<watchlist, rows, pass, config>>

\* A free forecast or row no pass still refers to, or one that is not followed.
Unused(table, held) ==
    LET free == { x \in DOMAIN table : table[x] = "free" /\ x \notin held }
    IN IF free = {} THEN {Untracked} ELSE free

\* InsertForecast, with its horizons in one transaction.
Insert(f) ==
    forecasts' = IF f = Untracked THEN forecasts ELSE [forecasts EXCEPT ![f] = "open"]

Capped(targets) == SubSeq(targets, 1, IF Len(targets) < Cap THEN Len(targets) ELSE Cap)

HeldForecasts == UNION { pass[p].due \cup {pass[p].made} : p \in Passes }
HeldRows == UNION { pass[p].mail : p \in Passes }

-----------------------------------------------------------------------------
(* Scoring, shared by the scan and the cycle                               *)

BeginPass(p) ==
    /\ pass[p].at = "idle"
    /\ Become(p, [Idle EXCEPT !.at = "scoring",
                              !.due = { f \in Forecasts : forecasts[f] = "due" }])
    /\ UNCHANGED <<watchlist, forecasts, rows, config, trouble>>

\* EvaluateForecast: what is due is scored once the price is known; what has
\* been deleted, or cannot be priced, is skipped.
EvaluateForecast(p) ==
    /\ pass[p].at = "scoring"
    /\ \E f \in pass[p].due :
        /\ Become(p, [pass[p] EXCEPT !.due = @ \ {f}])
        /\ \/ /\ forecasts' = [forecasts EXCEPT ![f] = IF @ = "due" THEN "free" ELSE @]
              /\ UNCHANGED trouble
           \/ Trouble /\ UNCHANGED forecasts
    /\ UNCHANGED <<watchlist, rows, config>>

\* generateDue, after the scoring: fresh forecasts for the entries whose last
\* one is older than the interval (any of them may be).
GenerateDue ==
    /\ pass["scan"].at = "scoring" /\ pass["scan"].due = {}
    /\ \E todo \in { SelectSeq(watchlist, LAMBDA s : s \in S) : S \in SUBSET Symbols } :
        Become("scan", [pass["scan"] EXCEPT !.at = "forecasting",
                                            !.todo = todo])
    /\ UNCHANGED <<watchlist, forecasts, rows, config, trouble>>

ScanForecasts ==
    /\ pass["scan"].at = "forecasting"
    /\ IF pass["scan"].todo = <<>>
       THEN Become("scan", Idle) /\ UNCHANGED <<forecasts, trouble>>
       ELSE /\ Become("scan", [pass["scan"] EXCEPT !.todo = Tail(@)])
            /\ \/ /\ \E f \in Unused(forecasts, HeldForecasts) : Insert(f)
                  /\ UNCHANGED trouble
               \/ Trouble /\ UNCHANGED forecasts
    /\ UNCHANGED <<watchlist, rows, config>>

-----------------------------------------------------------------------------
(* Reviewing                                                               *)

\* collectReviewTargets: the watchlist by id, then what is only held.
CollectTargets(held) == watchlist \o SelectSeq(held, LAMBDA s : ~Contains(watchlist, s))

\* The positions are whatever the ledger says by then.
BeginReviews(c) ==
    /\ pass[c].at = "scoring" /\ pass[c].due = {}
    /\ \E S \in SUBSET Symbols : \E held \in SetToSeqs(S) :
        Become(c, [Idle EXCEPT !.at = "reviewing",
                               !.todo = Capped(CollectTargets(held))])
    /\ UNCHANGED <<watchlist, forecasts, rows, config, trouble>>

\* reviewTargetOnce, up to the forecast it starts with (its rows are written
\* in one transaction) ...
CreateForecast(c) ==
    /\ pass[c].at = "reviewing" /\ pass[c].todo # <<>>
    /\ \E f \in Unused(forecasts, HeldForecasts) :
        /\ Become(c, [pass[c] EXCEPT !.at = "rating", !.made = f])
        /\ Insert(f)
    /\ UNCHANGED <<watchlist, rows, config, trouble>>

NextTarget(c) == [Idle EXCEPT !.at = "reviewing", !.todo = Tail(pass[c].todo)]

\* ... and from the model's answer on.  A review refers to its forecast: if
\* that was deleted meanwhile the row is refused, and the symbol skipped.
InsertReview(c) ==
    /\ pass[c].at = "rating"
    /\ Become(c, NextTarget(c))
    /\ IF pass[c].made # Untracked /\ forecasts[pass[c].made] = "free"
       THEN UNCHANGED rows
       ELSE \E r \in Unused(rows, HeldRows) :
                rows' = IF r = Untracked THEN rows ELSE [rows EXCEPT ![r] = "new"]
    /\ UNCHANGED <<watchlist, forecasts, config, trouble>>

\* No quote, no usable answer, or no database: the next symbol.
SkipTarget(c) ==
    /\ pass[c].at \in {"reviewing", "rating"} /\ pass[c].todo # <<>> /\ Trouble
    /\ Become(c, NextTarget(c))
    /\ UNCHANGED <<watchlist, forecasts, rows, config>>

-----------------------------------------------------------------------------
(* The digest                                                              *)

\* Mutant: equal ends are taken for a window around the whole day.
QuietAt_Wraps(t) ==
    LET start == config.window[1]  end == config.window[2]
    IN IF start < end THEN start <= t /\ t < end ELSE start <= t \/ t < end

\* quietAt: a window may wrap around midnight; equal ends are no window.
QuietAt(t) ==
    LET start == config.window[1]  end == config.window[2]
    IN CASE start = end -> FALSE
         [] start < end -> start <= t /\ t < end
         [] start > end -> start <= t \/ t < end

Moments == 0 .. Day - 1
Unreported == { r \in Rows : rows[r] # "free" }
Reviewed(c) == pass[c].at = "reviewing" /\ pass[c].todo = <<>>

\* deliverPendingReviews, at whatever moment the reviews are done: in the
\* night, with alerts off or with nothing to report, the rows are left for the
\* next cycle.
HoldDigest(c) ==
    /\ Reviewed(c)
    /\ \E t \in Moments : ~config.alert \/ QuietAt(t) \/ Unreported = {}
    /\ Become(c, Idle)
    /\ UNCHANGED <<watchlist, forecasts, rows, config, trouble>>

ComposeDigest(c) ==
    /\ Reviewed(c)
    /\ \E t \in Moments : config.alert /\ ~QuietAt(t) /\ Unreported # {}
    /\ Become(c, [Idle EXCEPT !.at = "sending", !.mail = Unreported])
    /\ UNCHANGED <<watchlist, forecasts, rows, config, trouble>>

Send(c) ==
    /\ pass[c].at = "sending"
    /\ rows' = [r \in Rows |-> IF r \in pass[c].mail /\ rows[r] = "new"
                               THEN "sent" ELSE rows[r]]
    /\ Become(c, [pass[c] EXCEPT !.at = "stamping"])
    /\ UNCHANGED <<watchlist, forecasts, config, trouble>>

\* Mutant: everything unreported is stamped.
MarkReviewsReported_All(c) ==
    /\ pass[c].at = "stamping"
    /\ rows' = [r \in Rows |-> "free"]
    /\ Become(c, Idle)
    /\ UNCHANGED <<watchlist, forecasts, config, trouble>>

\* The rows the digest carried are stamped, by id.
MarkReviewsReported(c) ==
    /\ pass[c].at = "stamping"
    /\ rows' = [r \in Rows |-> IF r \in pass[c].mail THEN "free" ELSE rows[r]]
    /\ Become(c, Idle)
    /\ UNCHANGED <<watchlist, forecasts, config, trouble>>

\* The digest cannot be sent, the rows cannot be stamped, or the pass is cut
\* short: its context is cancelled, the server stops.
Interrupt(p) ==
    /\ pass[p].at # "idle" /\ Trouble
    /\ Become(p, Idle)
    /\ UNCHANGED <<watchlist, forecasts, rows, config>>

-----------------------------------------------------------------------------
ScanStep == BeginPass("scan") \/ EvaluateForecast("scan") \/ GenerateDue \/ ScanForecasts

CycleStep(c) ==
    \/ BeginPass(c) \/ EvaluateForecast(c) \/ BeginReviews(c) \/ CreateForecast(c)
    \/ InsertReview(c) \/ HoldDigest(c) \/ ComposeDigest(c) \/ Send(c)
    \/ MarkReviewsReported(c)

Next ==
    \/ \E s \in Symbols : AddToWatchlist(s) \/ RemoveFromWatchlist(s)
    \/ SetReviewConfig
    \/ \E f \in Forecasts : Mature(f) \/ DeleteForecast(f)
    \/ ScanStep
    \/ \E c \in Cycles : CycleStep(c) \/ SkipTarget(c)
    \/ \E p \in Passes : Interrupt(p)

Spec == Init /\ [][Next]_vars

\* A cycle that was begun goes on, its timer begins the next one, and cycles
\* do not end in the night for ever (an interval of less than a day).
Fairness ==
    \A c \in Cycles : WF_vars(CycleStep(c)) /\ SF_vars(ComposeDigest(c))

FairSpec == Spec /\ Fairness

-----------------------------------------------------------------------------
(* Properties                                                              *)

\* A review leaves the queue only after a digest that carried it was sent:
\* whatever two cycles do at once, however they are cut short, no verdict is
\* stamped as reported that nobody was told (review.go: deliverPendingReviews).
StampedWasSent ==
    [][\A r \in Rows : rows[r] # "free" /\ rows'[r] = "free" => rows[r] = "sent"]_vars

\* A verdict held back by the night, a failed delivery or a restart is
\* reported in the end, if alerts stay on; and no configured night is for
\* ever.  A forecast whose date has passed is scored in the end, whatever
\* became of those scored with it.
PassesFinish ==
    /\ <>[]config.alert => \A r \in Rows : rows[r] # "free" ~> rows[r] = "free"
    /\ \A f \in Forecasts : forecasts[f] = "due" ~> forecasts[f] = "free"

=============================================================================
