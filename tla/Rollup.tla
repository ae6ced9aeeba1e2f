------------------------------- MODULE Rollup -------------------------------
(***************************************************************************)
(* The server's side of fleet telemetry: reports are stored raw            *)
(* (internal/node/store.go), and the roller (internal/node/rollup.go)      *)
(* folds raw readings into minute buckets and minute buckets into hour     *)
(* buckets, each up to a watermark, and ages out what it has folded.       *)
(*                                                                         *)
(* Time is counted in ticks of a second, of which a minute has few.  A     *)
(* timestamp is stored as RFC 3339 text and compared as text, in which     *)
(* "12:00:00.5Z" is less than "12:00:00Z": a reading taken in the first    *)
(* second of a minute compares as less than the minute.  Hence a bound b   *)
(* at the start of a minute has r <= b before it, and r > b from it on.    *)
(*                                                                         *)
(* A bucket is the set of the readings it stands for, so a tier is the set *)
(* of the readings in any of its buckets.  Days are folded from hours by   *)
(* the function that folds hours from minutes, and are left out.           *)
(***************************************************************************)
EXTENDS Naturals

CONSTANTS
    Minute, Hour,       \* their length in ticks
    RawKept,            \* Retention.Raw
    MinuteKept          \* Retention.Minute

ASSUME RollupAssumption ==
    /\ Minute \in Nat \ {0} /\ Hour \in Nat \ {0} /\ Hour % Minute = 0
    /\ RawKept \in Nat \ {0} /\ MinuteKept \in Nat

VARIABLES
    now,        \* the clock
    raw,        \* node_samples
    minutes,    \* node_rollup: what the minute buckets stand for
    hours,      \* node_rollup: what the hour buckets stand for
    mark,       \* node_rollup_watermark by tier; 0 is no row
    roller,     \* what Roller.Once does next
    received,   \* history: what a report has brought
    late        \* history: what came when its minute had been folded

rollupVars == <<now, raw, minutes, hours, mark, roller, received, late>>

RollupTypeOK ==
    /\ now \in Nat
    /\ raw \in SUBSET received
    /\ minutes \in SUBSET received
    /\ hours \in SUBSET received
    /\ mark \in [{"minute", "hour"} -> 0 .. now]
    /\ roller \in {"idle", "hours", "raw", "tiers"}
    /\ received \in SUBSET (0 .. now)
    /\ late \in SUBSET received

RollupInit ==
    /\ now = 0
    /\ raw = {} /\ minutes = {} /\ hours = {}
    /\ mark = [tier \in {"minute", "hour"} |-> 0]
    /\ roller = "idle"
    /\ received = {} /\ late = {}

\* time.Truncate, and strftime's floor to a bucket.
Floor(t, size) == t - (t % size)

Tick ==
    /\ now' = now + 1
    /\ UNCHANGED <<raw, minutes, hours, mark, roller, received, late>>

-----------------------------------------------------------------------------
(* Store.Ingest                                                            *)

\* Has the minute tier been folded past this reading?
Folded(r) == mark["minute"] > 0 /\ r <= mark["minute"]

\* Mutant: INSERT without OR IGNORE, a duplicate fails the transaction.
Ingest_RejectsDuplicates(batch) ==
    /\ batch \cap raw = {}
    /\ raw' = raw \cup batch
    /\ received' = received \cup batch
    /\ late' = late \cup { r \in batch \ received : Folded(r) }
    /\ UNCHANGED <<now, minutes, hours, mark, roller>>

\* One transaction; a reading that is there already is ignored.
Ingest(batch) ==
    /\ raw' = raw \cup batch
    /\ received' = received \cup batch
    /\ late' = late \cup { r \in batch \ received : Folded(r) }
    /\ UNCHANGED <<now, minutes, hours, mark, roller>>

\* Store.Forget: the samples go; the buckets and the watermarks stay.
Forget ==
    /\ raw' = {} /\ received' = minutes \cup hours /\ late' = late \cap received'
    /\ UNCHANGED <<now, minutes, hours, mark, roller>>

-----------------------------------------------------------------------------
(* Roller.Once                                                             *)

\* INSERT OR REPLACE: a bucket that is written again stands for the new
\* readings only.
Replace(tier, size, window) ==
    window \cup { r \in tier : \A q \in window : Floor(r, size) # Floor(q, size) }

\* Complete minutes only, from the watermark on; with no watermark, from the
\* oldest reading there is.
FoldRawToMinutes ==
    LET from   == mark["minute"]
        until  == Floor(now, Minute)
        window == { r \in raw : r <= until /\ (from > 0 => r > from) }
    IN /\ roller = "idle"
       /\ roller' = "hours"
       /\ IF IF from > 0 THEN until > from ELSE \E r \in raw : until > r
          THEN /\ minutes' = Replace(minutes, Minute, window)
               /\ mark' = [mark EXCEPT !["minute"] = until]
          ELSE UNCHANGED <<minutes, mark>>
       /\ UNCHANGED <<now, raw, hours, received, late>>

\* foldUp from minutes to hours.  A bucket's time has no fraction, so these
\* bounds compare as times do.
FoldUp ==
    LET since  == mark["hour"]
        until  == Floor(now, Hour)
        Start(r) == Floor(r, Minute)
        window == { r \in minutes : since <= Start(r) /\ Start(r) < until }
    IN /\ roller = "hours"
       /\ roller' = "raw"
       /\ IF IF since > 0 THEN until > since
             ELSE \E r \in minutes : until > Start(r)
          THEN /\ hours' = Replace(hours, Hour, window)
               /\ mark' = [mark EXCEPT !["hour"] = until]
          ELSE UNCHANGED <<hours, mark>>
       /\ UNCHANGED <<now, raw, minutes, received, late>>

\* Mutant: retention alone decides.
PruneRaw_ByAge ==
    /\ roller = "raw"
    /\ roller' = "tiers"
    /\ raw' = { r \in raw : r + RawKept >= now }
    /\ UNCHANGED <<now, minutes, hours, mark, received, late>>

\* prune: never past the minute tier's watermark.
PruneRaw ==
    LET folded == mark["minute"]
    IN /\ roller = "raw"
       /\ roller' = "tiers"
       /\ raw' = IF folded + RawKept < now
                 THEN { r \in raw : folded > 0 => r > folded }
                 ELSE { r \in raw : folded > 0 => r + RawKept >= now }
       /\ UNCHANGED <<now, minutes, hours, mark, received, late>>

\* prune: the minute tier ages out; hours are kept longer than is modelled.
PruneMinutes ==
    /\ roller = "tiers"
    /\ roller' = "idle"
    /\ minutes' = { r \in minutes : Floor(r, Minute) + MinuteKept >= now }
    /\ UNCHANGED <<now, raw, hours, mark, received, late>>

\* A step fails and Once returns; or the server is restarted.
RollFails ==
    /\ roller # "idle"
    /\ roller' = "idle"
    /\ UNCHANGED <<now, raw, minutes, hours, mark, received, late>>

Roll == FoldRawToMinutes \/ FoldUp \/ PruneRaw \/ PruneMinutes \/ RollFails

=============================================================================
