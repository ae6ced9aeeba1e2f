-------------------------------- MODULE Fit ---------------------------------
(***************************************************************************)
(* What the catalogue says of whether a model runs on a machine: the       *)
(* profiles of this host and of the fleet's nodes (internal/models/        *)
(* fleet.go, hardware.go, catalog.go), as the telemetry store holds them,  *)
(* and the calculator of footprints and verdicts (fit.go, plan.go).        *)
(*                                                                         *)
(* Memory is in MB, a model's parameters in tenths of a billion, contexts  *)
(* in units of 1024 tokens, and the floating point of the code is exact    *)
(* down to a MB.  Throughput, and with it the order among machines of one  *)
(* verdict and of the planner's table, is left out.                        *)
(***************************************************************************)
EXTENDS Integers, Sequences, FiniteSetsExt, SequencesExt

CONSTANTS
    Machines,   \* the fleet's nodes
    Here,       \* this host
    Cards,      \* machine -> the sizes of its cards
    Ram,        \* machine -> its memory
    Loads,      \* what may be in use on a card, or of a machine's memory
    Weights,    \* the models, by their parameters
    Contexts,   \* context windows asked for
    FleetStale, \* how old a node's last reading may be
    HardwareTTL,\* how long a probe of this host is reused
    KeepRaw,    \* how long raw samples are kept
    LastTick,   \* bound: ticks are 1 .. LastTick
    MaxTrouble  \* bound: readings without nvidia-smi, restarts, changes of backends

VARIABLES
    load,       \* the memory in use on each card of each machine
    facts,      \* the machines whose agent has seen their cards
    row,        \* what the store has of each node, and of its newest sample
    declared,   \* the nodes some backend is declared to run on
    loopback,   \* is a backend addressed on this host?
    profile,    \* Catalog.hardware: the cached profile of this host
    clock,
    trouble     \* how much of its bound has happened

vars == <<load, facts, row, declared, loopback, profile, clock, trouble>>

All == Machines \cup {Here}

WellFormed ==
    /\ Here \notin Machines
    /\ \A n \in All : Cards[n] \in Seq(Nat) /\ Ram[n] \in Nat
    /\ Loads \subseteq Nat /\ Weights \subseteq Nat \ {0} /\ Contexts \subseteq Nat
    /\ FleetStale \in Nat /\ LastTick \in Nat

\* A node's row.  at is 0 without a sample, whose used is of its cards and left
\* of its memory; truth, what was in use on each card when the sample was taken,
\* and blind, that its cards were not read, are history.
NoRow == [known |-> FALSE, cards |-> FALSE, at |-> 0, used |-> 0, left |-> 0,
          truth |-> <<>>, blind |-> FALSE]

NoProfile == [at |-> 0, runs |-> FALSE, left |-> 0, truth |-> <<>>]

TypeOK ==
    /\ \A n \in All : load[n] \in [DOMAIN Cards[n] -> Loads]
    /\ facts \subseteq Machines /\ declared \subseteq Machines
    /\ \A n \in Machines : row[n].at <= clock /\ (row[n].at > 0 => row[n].known)
    /\ loopback \in BOOLEAN /\ profile.at \in 0 .. clock
    /\ clock \in 1 .. LastTick /\ trouble \in 0 .. MaxTrouble

Init ==
    /\ load = [n \in All |-> [i \in DOMAIN Cards[n] |-> 0]]
    /\ facts = {} /\ row = [n \in Machines |-> NoRow]
    /\ declared \in SUBSET Machines /\ loopback \in BOOLEAN
    /\ profile = NoProfile
    /\ clock = 1 /\ trouble = 0

-----------------------------------------------------------------------------
(* Footprints                                                              *)

\* Bits per weight, in hundredths, and the candidates of the planner in order.
QuantBPW == [Q5_K_M |-> 565, Q4_K_M |-> 485, IQ4_XS |-> 425, Q3_K_M |-> 390]
Candidates == <<"Q5_K_M", "Q4_K_M", "IQ4_XS", "Q3_K_M">>
DefaultQuant == "Q4_K_M"

\* Layers by size; the smallest models have heads of 64, the others of 128.
GeometryBands == <<<<15, 16>>, <<35, 28>>, <<50, 36>>, <<90, 32>>, <<150, 40>>,
                   <<280, 48>>, <<400, 64>>>>
Layers(p) ==
    LET bands == { i \in DOMAIN GeometryBands : p <= GeometryBands[i][1] }
    IN IF bands = {} THEN 80 ELSE GeometryBands[Min(bands)][2]
HeadDim(p) == IF p <= 15 THEN 64 ELSE 128

\* 10^9 weights of a hundredth of a bit are 1.192 MB.
WeightsMB(p, q) == (p * QuantBPW[q] * 1192) \div 10000
\* Two caches of eight heads, a byte for each element.
KVCacheMB(p, c) == (2 * Layers(p) * 8 * HeadDim(p) * c) \div 1024
OverheadMB(c) == 320 + 32 * c
TotalMB(p, q, c) == WeightsMB(p, q) + KVCacheMB(p, c) + OverheadMB(c)

-----------------------------------------------------------------------------
(* Profiles                                                                *)

Sum(s) == MapThenSumSet(LAMBDA i : s[i], DOMAIN s)

\* The card with the most memory; the first of several.
Largest(sizes) ==
    CHOOSE i \in DOMAIN sizes : \A k \in DOMAIN sizes :
        sizes[k] < sizes[i] \/ (sizes[k] = sizes[i] /\ i <= k)

\* Mutant: what is in use is charged to the first card.
NodeGPUs_First(n) ==
    [i \in DOMAIN Cards[n] |->
        [total |-> Cards[n][i],
         free |-> Cards[n][i] - (IF i = 1 THEN Min({row[n].used, Cards[n][i]}) ELSE 0)]]

\* A report has the sum over the cards, and the largest is charged with it.
NodeGPUs(n) ==
    [i \in DOMAIN Cards[n] |->
        [total |-> Cards[n][i],
         free |-> Cards[n][i] - (IF i = Largest(Cards[n])
                                 THEN Min({row[n].used, Cards[n][i]}) ELSE 0)]]

HardwareFromNode(n) ==
    [host |-> n, runs |-> TRUE, reportedAt |-> row[n].at,
     gpus |-> IF row[n].cards THEN NodeGPUs(n) ELSE <<>>,
     ram |-> IF row[n].at > 0 THEN Ram[n] ELSE 0, left |-> row[n].left]

\* A backend is declared to run on it and it has never reported.
NeverHeard(n) == [host |-> n, runs |-> TRUE, reportedAt |-> 0, gpus |-> <<>>,
                  ram |-> 0, left |-> 0]

Local == [host |-> Here, runs |-> profile.runs, reportedAt |-> 0,
          ram |-> Ram[Here], left |-> profile.left,
          gpus |-> [i \in DOMAIN Cards[Here] |->
                       [total |-> Cards[Here][i],
                        free |-> Cards[Here][i] - profile.truth[i]]]]

\* The profile a request sees: the cached one if it is not too old.
Fresh == profile.at > 0 /\ clock - profile.at < HardwareTTL

\* Where a model would be served.
Hosts ==
    { Local : x \in { y \in {Here} : profile.runs } }
        \cup { IF row[n].known THEN HardwareFromNode(n) ELSE NeverHeard(n) : n \in declared }

\* What weights are judged against: any node with a reading, too.
FitHosts ==
    Hosts \cup { HardwareFromNode(n) : n \in { m \in Machines \ declared : row[m].at > 0 } }

HasGPU(hw) == hw.gpus # <<>>
PrimaryGPU(hw) == hw.gpus[Largest([i \in DOMAIN hw.gpus |-> hw.gpus[i].total])]

\* The best equipped: by the memory of its card, then by its own.
PrimaryHost ==
    LET VRAM(hw) == IF HasGPU(hw) THEN PrimaryGPU(hw).total ELSE 0
    IN CHOOSE hw \in Hosts : \A k \in Hosts :
          VRAM(k) < VRAM(hw) \/ (VRAM(k) = VRAM(hw) /\ k.ram <= hw.ram)

IsStale(hw) == hw.reportedAt > 0 /\ clock - hw.reportedAt > FleetStale

-----------------------------------------------------------------------------
(* Verdicts                                                                *)

Fits(hw, verdict, layers, total) ==
    [host |-> hw.host, verdict |-> verdict, layers |-> layers, total |-> total]

\* Without a card the memory that is left decides, and none left is not known.
EstimateFit(p, q, c, hw) ==
    LET total  == TotalMB(p, q, c)
        free   == PrimaryGPU(hw).free
        usable == Max({0, free - OverheadMB(c) - KVCacheMB(p, c)})
        onGPU  == Min({Layers(p), (usable * Layers(p)) \div WeightsMB(p, q)})
    IN CASE ~hw.runs \/ IsStale(hw)  -> Fits(hw, "unknown", 0, total)
         [] hw.runs /\ ~IsStale(hw) /\ ~HasGPU(hw) ->
                Fits(hw, IF hw.left > 0 /\ total > hw.left THEN "no" ELSE "partial", 0, total)
         [] OTHER ->
                IF 10 * total <= 9 * free THEN Fits(hw, "fits", Layers(p), total)
                ELSE IF total <= free THEN Fits(hw, "tight", Layers(p), total)
                ELSE IF onGPU > 0 THEN Fits(hw, "partial", onGPU, total)
                ELSE Fits(hw, "no", 0, total)

Rank(verdict) ==
    CASE verdict = "fits" -> 4 [] verdict = "tight" -> 3 [] verdict = "partial" -> 2
      [] verdict = "no" -> 1 [] OTHER -> 0

\* With no machine to grade there still is a footprint.
EstimateFleetFit(p, q, c) ==
    IF FitHosts = {} THEN { Fits([host |-> Here], "unknown", 0, TotalMB(p, q, c)) }
    ELSE { EstimateFit(p, q, c, hw) : hw \in FitHosts }

BestFit(fits) == CHOOSE f \in fits : \A k \in fits : Rank(k.verdict) <= Rank(f.verdict)

\* The first candidate that fits, or the default.
PickQuant(p, c, hw) ==
    LET fitting == { i \in DOMAIN Candidates :
                       EstimateFit(p, Candidates[i], c, hw).verdict = "fits" }
    IN IF ~hw.runs \/ ~HasGPU(hw) \/ fitting = {} THEN DefaultQuant
       ELSE Candidates[Min(fitting)]

\* A model of the plan: its quantization and its verdict, on one machine.
Recommend(p, c) ==
    LET quant == PickQuant(p, c, PrimaryHost)
    IN [quant |-> quant, fit |-> EstimateFit(p, quant, c, PrimaryHost)]

-----------------------------------------------------------------------------
(* Steps                                                                   *)

Trouble == trouble < MaxTrouble /\ trouble' = trouble + 1

\* What may be left of a machine's memory when it is read.
Available(n) == { Max({0, Ram[n] - l}) : l \in Loads }

\* A model is loaded on a card, or unloaded.
Use(n) ==
    /\ \E i \in DOMAIN Cards[n], l \in Loads :
          l # load[n][i] /\ load' = [load EXCEPT ![n][i] = l]
    /\ UNCHANGED <<facts, row, declared, loopback, profile, clock, trouble>>

\* collect, send and Ingest.  Without nvidia-smi the agent keeps its list of
\* cards, and the sample has nothing in use.
Report(n, sees) ==
    /\ row[n].at < clock
    /\ IF sees THEN UNCHANGED trouble ELSE Trouble
    /\ facts' = facts \cup IF sees /\ Cards[n] # <<>> THEN {n} ELSE {}
    /\ \E left \in Available(n) :
         row' = [row EXCEPT ![n] =
                   [known |-> TRUE, cards |-> n \in facts', at |-> clock,
                    used |-> IF sees THEN Sum(load[n]) ELSE 0, left |-> left,
                    truth |-> load[n], blind |-> ~sees]]
    /\ UNCHANGED <<load, declared, loopback, profile, clock>>

\* An agent starts with no cards.
RestartAgent(n) ==
    /\ n \in facts /\ Trouble
    /\ facts' = facts \ {n}
    /\ UNCHANGED <<load, row, declared, loopback, profile, clock>>

\* The roller ages raw samples out, the newest like any other.
PruneRaw ==
    /\ \E n \in Machines : row[n].at > 0 /\ clock - row[n].at > KeepRaw
    /\ row' = [n \in Machines |->
                 IF clock - row[n].at > KeepRaw
                 THEN [row[n] EXCEPT !.at = 0, !.used = 0, !.left = 0,
                                     !.truth = <<>>, !.blind = FALSE]
                 ELSE row[n]]
    /\ UNCHANGED <<load, facts, declared, loopback, profile, clock, trouble>>

Forget(n) ==
    /\ row[n].known /\ Trouble
    /\ row' = [row EXCEPT ![n] = NoRow]
    /\ UNCHANGED <<load, facts, declared, loopback, profile, clock>>

\* The cached profile was made for another set of backends.
SetBackends ==
    /\ Trouble
    /\ declared' \in SUBSET Machines /\ loopback' \in BOOLEAN
    /\ profile' = NoProfile
    /\ UNCHANGED <<load, facts, row, clock>>

\* A request finds the cache empty or old.
Hardware ==
    /\ ~Fresh
    /\ \E left \in Available(Here) :
         profile' = [at |-> clock, runs |-> loopback, left |-> left, truth |-> load[Here]]
    /\ UNCHANGED <<load, facts, row, declared, loopback, clock, trouble>>

Tick ==
    /\ clock < LastTick /\ clock' = clock + 1
    /\ UNCHANGED <<load, facts, row, declared, loopback, profile, trouble>>

Next ==
    \/ \E n \in All : Use(n)
    \/ \E n \in Machines : (\E sees \in BOOLEAN : Report(n, sees)) \/ RestartAgent(n) \/ Forget(n)
    \/ PruneRaw \/ SetBackends \/ Hardware \/ Tick

Spec == Init /\ [][Next]_vars

-----------------------------------------------------------------------------
(* Properties                                                              *)

\* What was in use on the machine a verdict is about, when it was read.
Truth(n) == IF n = Here THEN profile.truth ELSE row[n].truth

\* A node that was read, with its cards.
Read(n) == n = Here \/ (row[n].at > 0 /\ ~row[n].blind)

Room(n, i) == Cards[n][i] - Truth(n)[i]

\* What was left of its memory.
Left(n) == IF n = Here THEN profile.left ELSE row[n].left

\* A verdict promises nothing the machine did not have: what fits has a card
\* with room for all of it, and what is split has one for its share - however
\* the use a node reports is spread over its cards.  Only a node without a
\* sample, or with one that was read without nvidia-smi, is exempt.
Promised(f, p, q, c) ==
    /\ f.verdict \in {"fits", "tight"} =>
          \E i \in DOMAIN Cards[f.host] : Room(f.host, i) >= f.total
    /\ f.verdict = "partial" /\ f.layers > 0 =>
          \E i \in DOMAIN Cards[f.host] :
              Room(f.host, i) * Layers(p) >= f.layers * WeightsMB(p, q)
                                   + (KVCacheMB(p, c) + OverheadMB(c)) * Layers(p)

\* What is to run without a card has the memory for all of it, whether or not
\* nvidia-smi ran; only a machine with none left at all, which the code takes
\* for one whose memory is not known, is exempt.
Held(f) ==
    f.verdict = "partial" /\ f.layers = 0 => Left(f.host) >= f.total \/ Left(f.host) = 0

\* Nor does it rule out what a machine with one card was read to have room for.
Offered(n, p, q, c) ==
    /\ n = Here \/ clock - row[n].at <= FleetStale
    /\ n = Here => profile.runs
    /\ Len(Cards[n]) = 1 /\ 10 * TotalMB(p, q, c) <= 9 * Room(n, 1)

\* Verdicts say what the machines were read to be capable of, and the planner
\* steps down from a faithful quantization no further than it must
\* (EstimateFit, nodeGPUs, finishCPUOnly, BestFit, Recommend).
VerdictsHold ==
    Fresh =>
      \A p \in Weights, c \in Contexts :
        /\ \A q \in DOMAIN QuantBPW :
             LET fits == EstimateFleetFit(p, q, c)
             IN /\ \A f \in fits :
                      /\ Read(f.host) => Promised(f, p, q, c)
                      /\ f.host = Here \/ row[f.host].at > 0 => Held(f)
                /\ (\E n \in All : Read(n) /\ Offered(n, p, q, c)) =>
                       BestFit(fits).verdict = "fits"
        /\ Hosts # {} =>
             LET plan == Recommend(p, c)
                 best == PrimaryHost
             IN \A q \in DOMAIN QuantBPW :
                    EstimateFit(p, q, c, best).verdict = "fits" =>
                        /\ plan.fit.verdict = "fits"
                        /\ WeightsMB(p, q) <= WeightsMB(p, plan.quant)

\* A node that went quiet is graded as unknown: past its age its figures "are
\* reported as unknown rather than used, because a machine that stopped
\* reporting last night still has a plausible profile in the database"
\* (fleet.go).
QuietIsUnknown ==
    \A n \in declared :
        row[n].known /\ (row[n].at = 0 \/ clock - row[n].at > FleetStale) =>
            EstimateFit(Min(Weights), DefaultQuant, Min(Contexts), HardwareFromNode(n)).verdict
                = "unknown"
=============================================================================
