----------------------- MODULE FleetTelemetry_proofs ------------------------
(***************************************************************************)
(* Theorems about FleetTelemetry, for every backlog cap, bucket length,    *)
(* retention and set of reading times.                                     *)
(***************************************************************************)
EXTENDS FleetTelemetry, FiniteSetTheorems, WellFoundedInduction, TLAPS

(* Lemmas on the operators                                                 *)

\* A nonempty set of naturals has a least element.
LEMMA LeastElement ==
    ASSUME NEW S \in SUBSET Nat, S # {}
    PROVE  \E m \in S : \A q \in S : m <= q
<1>1. PICK m \in S : \A q \in S : ~ (<<q, m>> \in OpToRel(<, Nat))
  BY NatLessThanWellFounded, WFMin, Zenon
<1>2. \A q \in S : ~ (q < m)
  BY <1>1 DEF OpToRel
<1> QED
  BY <1>2

\* What the cap of the backlog leaves is a part of the backlog, no larger than
\* the cap.
LEMMA NewestFits ==
    ASSUME NEW S \in SUBSET Nat, IsFiniteSet(S)
    PROVE  /\ Newest(S) \subseteq S
           /\ IsFiniteSet(Newest(S))
           /\ Cardinality(Newest(S)) <= MaxPending
<1>1. Newest(S) \subseteq S
  BY DEF Newest
<1>2. IsFiniteSet(Newest(S))
  BY <1>1, FS_Subset
<1>3. CASE Newest(S) = {}
  BY <1>1, <1>2, <1>3, FS_EmptySet, AgentAssumption
<1>4. CASE Newest(S) # {}
  <2>1. PICK m \in Newest(S) : \A q \in Newest(S) : m <= q
    BY <1>1, <1>4, LeastElement
  <2> DEFINE above == { q \in S : q > m }
  <2>2. /\ IsFiniteSet(above) /\ Cardinality(above) \in Nat
        /\ Cardinality(above) < MaxPending
    BY <2>1, FS_Subset, FS_CardinalityType DEF Newest
  <2>3. Newest(S) \ {m} \subseteq above
    <3> SUFFICES ASSUME NEW q \in Newest(S), q # m PROVE q > m
      BY <1>1
    <3>1. q \in Nat /\ m \in Nat
      BY <1>1, <2>1
    <3> QED
      BY <2>1, <3>1
  <2>4. Cardinality(Newest(S) \ {m}) <= Cardinality(above)
    BY <2>2, <2>3, FS_Subset
  <2>5. Cardinality(Newest(S) \ {m}) = Cardinality(Newest(S)) - 1
    BY <1>2, <2>1, FS_RemoveElement
  <2>6. Cardinality(Newest(S)) \in Nat
    BY <1>2, FS_CardinalityType
  <2> QED
    BY <1>1, <1>2, <2>2, <2>4, <2>5, <2>6, AgentAssumption
<1> QED
  BY <1>3, <1>4

\* The readings the cap drops are older than those it keeps.
LEMMA NewestAreNewer ==
    ASSUME NEW S \in SUBSET Nat, IsFiniteSet(S),
           NEW r \in S \ Newest(S), NEW q \in Newest(S)
    PROVE  q > r
<1> SUFFICES ASSUME ~ (q > r) PROVE FALSE
  OBVIOUS
<1> DEFINE above(x) == { y \in S : y > x }
<1>1. q \in S /\ q \in Nat /\ r \in Nat
  BY DEF Newest
<1>2. above(r) \subseteq above(q)
  <2> SUFFICES ASSUME NEW y \in S, y > r PROVE y > q
    OBVIOUS
  <2>1. y \in Nat
    OBVIOUS
  <2> QED
    BY <1>1, <2>1
<1>3. IsFiniteSet(above(q)) /\ IsFiniteSet(above(r))
  BY FS_Subset
<1>4. Cardinality(above(r)) <= Cardinality(above(q))
  BY <1>2, <1>3, FS_Subset
<1>5. Cardinality(above(r)) \in Nat /\ Cardinality(above(q)) \in Nat
  BY <1>3, FS_CardinalityType
<1>6. Cardinality(above(q)) < MaxPending /\ ~ (Cardinality(above(r)) < MaxPending)
  BY DEF Newest
<1> QED
  BY <1>4, <1>5, <1>6, AgentAssumption

\* A bucket begins no later than the reading it is for, and ends after it.
LEMMA FloorBounds ==
    ASSUME NEW t \in Nat, NEW size \in Nat, size > 0
    PROVE  Floor(t, size) \in 0 .. t /\ t < Floor(t, size) + size
<1>1. t % size \in 0 .. (size - 1)
  OBVIOUS
<1>2. t = size * (t \div size) + (t % size)
  OBVIOUS
<1>3. size * (t \div size) \in Nat
  OBVIOUS
<1> QED
  BY <1>1, <1>2, <1>3 DEF Floor

\* What comes after the start of a bucket is in it or in a later one.
LEMMA FloorMonotone ==
    ASSUME NEW size \in Nat, size > 0, NEW a \in Nat, NEW t \in Nat,
           t >= Floor(a, size)
    PROVE  Floor(t, size) >= Floor(a, size)
<1> DEFINE k == a \div size
           d == t \div size
<1>1. k \in Nat /\ d \in Nat
  OBVIOUS
<1>2. a % size \in 0 .. (size - 1) /\ t % size \in 0 .. (size - 1)
  OBVIOUS
<1>3. a = size * k + (a % size) /\ t = size * d + (t % size)
  OBVIOUS
<1>4. size * k \in Nat /\ size * d \in Nat
  BY <1>1
<1> HIDE DEF k, d
<1>5. Floor(a, size) = size * k /\ Floor(t, size) = size * d
  BY <1>2, <1>3, <1>4 DEF Floor
<1>6. d >= k
  <2> SUFFICES ASSUME d <= k - 1 PROVE FALSE
    BY <1>1
  <2>1. size * d <= size * k - size
    BY <1>1
  <2> QED
    BY <1>2, <1>3, <1>4, <1>5, <2>1
<1>7. size * d >= size * k
  BY <1>1, <1>6
<1> QED
  BY <1>5, <1>7

-----------------------------------------------------------------------------
(* Type correctness                                                        *)

\* What the types rest on: no reading is of the future, and none was received
\* that was not taken.
TypeInv == TypeOK /\ taken \subseteq 0 .. now /\ received \subseteq taken

\* Whatever saveSpool leaves on disk is a backlog.
LEMMA SavedType ==
    ASSUME TypeInv, NEW file \in Saved
    PROVE  /\ file \in SUBSET taken /\ IsFiniteSet(file)
           /\ Cardinality(file) <= MaxPending
BY DEF TypeInv, TypeOK, AgentTypeOK, Saved

\* The initial states are well typed.
LEMMA TypeInit == Init => TypeInv
<1> SUFFICES ASSUME Init PROVE TypeInv
  OBVIOUS
<1> USE DEF Init, AgentInit, RollupInit
<1>1. AgentTypeOK
  BY FS_EmptySet, AgentAssumption DEF AgentTypeOK
<1>2. RollupTypeOK
  BY RollupAssumption DEF RollupTypeOK
<1> QED
  BY <1>1, <1>2 DEF TypeInv, TypeOK

\* Every step of the agent, the network, the roller and the operator keeps the
\* types.
LEMMA TypeStep == TypeInv /\ [Next]_vars => TypeInv'
<1> SUFFICES ASSUME TypeInv, [Next]_vars PROVE TypeInv'
  OBVIOUS
<1> USE DEF TypeInv, TypeOK, AgentTypeOK, RollupTypeOK
<1>1. CASE Clock
  BY <1>1 DEF Clock, Tick, agentVars
<1>2. CASE Read
  <2> DEFINE held == pending \cup {now}
  <2>1. held \in SUBSET Nat /\ IsFiniteSet(held)
    BY FS_AddElement
  <2>2. /\ Newest(held) \subseteq held /\ IsFiniteSet(Newest(held))
        /\ Cardinality(Newest(held)) <= MaxPending
    BY <2>1, NewestFits
  <2>3. pending' = Newest(held) /\ taken' = taken \cup {now}
    BY <1>2 DEF Read, Collect
  <2> HIDE DEF held
  <2>4. AgentTypeOK'
    BY <1>2, <2>2, <2>3 DEF Read, Collect, held
  <2>5. RollupTypeOK' /\ now' = now /\ received' = received
    BY <1>2 DEF Read, rollupVars
  <2>6. wire' = wire /\ ok' = ok
    BY <1>2 DEF Read
  <2> QED
    BY <2>3, <2>4, <2>5, <2>6
<1>3. CASE Send
  BY <1>3 DEF Send, BeginSend, rollupVars
<1>4. CASE Lose
  BY <1>4 DEF Lose, agentVars, rollupVars
<1>5. CASE Delivered
  <2>1. IsFiniteSet(pending') /\ Cardinality(pending') <= MaxPending
    BY <1>5, FS_EmptySet, AgentAssumption DEF Delivered, SendSucceeds
  <2> QED
    BY <1>5, <2>1 DEF Delivered, SendSucceeds, rollupVars
<1>6. CASE Agent
  <2>0. {} \in SUBSET taken /\ IsFiniteSet({}) /\ Cardinality({}) <= MaxPending
    BY FS_EmptySet, AgentAssumption
  <2>1. CASE SendFails
    <3>1. spool' \in Saved
      BY <2>1 DEF SendFails
    <3> QED
      BY <1>6, <2>1, <3>1, SavedType DEF SendFails, Agent, rollupVars
  <2>2. CASE ClearSpool
    <3>1. spool' \in SUBSET taken /\ IsFiniteSet(spool')
          /\ Cardinality(spool') <= MaxPending
      <4>1. spool' = {} \/ spool' = spool
        BY <2>2 DEF ClearSpool
      <4> QED
        BY <2>0, <4>1
    <3> QED
      BY <1>6, <2>2, <3>1 DEF ClearSpool, Agent, rollupVars
  <2>3. ASSUME NEW file, Reload(file), file \in SUBSET taken,
               IsFiniteSet(file), Cardinality(file) <= MaxPending
        PROVE  TypeInv'
    BY <1>6, <2>3 DEF Reload, Agent, rollupVars
  <2>4. CASE Stop
    <3>1. PICK file \in Saved : Reload(file)
      BY <2>4 DEF Stop
    <3> QED
      BY <2>3, <3>1, SavedType
  <2>5. CASE Crash
    BY <2>0, <2>3, <2>5 DEF Crash
  <2> QED
    BY <1>6, <2>1, <2>2, <2>4, <2>5 DEF Agent, AgentStep
<1>7. CASE Roller
  <2>1. /\ AgentTypeOK' /\ wire' \in SUBSET SUBSET taken' /\ ok' \in BOOLEAN
        /\ taken' = taken
    BY <1>7 DEF Roller, agentVars
  <2>2. /\ now' = now /\ received' = received /\ late' = late
        /\ roller' \in {"idle", "hours", "raw", "tiers"}
    BY <1>7 DEF Roller, Roll, FoldRawToMinutes, FoldUp, PruneRaw, PruneMinutes,
                RollFails
  <2>3. /\ raw' \in SUBSET received /\ minutes' \in SUBSET received
        /\ hours' \in SUBSET received
    BY <1>7 DEF Roller, Roll, FoldRawToMinutes, FoldUp, PruneRaw, PruneMinutes,
                RollFails, Replace
  <2>4. mark' \in [{"minute", "hour"} -> 0 .. now]
    <3>1. Floor(now, Minute) \in 0 .. now /\ Floor(now, Hour) \in 0 .. now
      <4>1. /\ Minute \in Nat /\ Minute > 0 /\ Hour \in Nat /\ Hour > 0
            /\ now \in Nat
        BY RollupAssumption
      <4> QED
        BY <4>1, FloorBounds
    <3>2. \/ mark' = mark
          \/ mark' = [mark EXCEPT !["minute"] = Floor(now, Minute)]
          \/ mark' = [mark EXCEPT !["hour"] = Floor(now, Hour)]
      BY <1>7 DEF Roller, Roll, FoldRawToMinutes, FoldUp, PruneRaw,
                  PruneMinutes, RollFails
    <3>3. mark \in [{"minute", "hour"} -> 0 .. now]
      OBVIOUS
    <3> QED
      BY <3>1, <3>2, <3>3, Zenon
  <2> QED
    BY <2>1, <2>2, <2>3, <2>4
<1>8. CASE ForgetNode
  BY <1>8 DEF ForgetNode, Forget
<1>9. ASSUME NEW batch \in wire, Report(batch) PROVE TypeInv'
  BY <1>9 DEF Report, Ingest, agentVars
<1>10. CASE UNCHANGED vars
  BY <1>10 DEF vars, agentVars, rollupVars
<1> QED
  BY <1>1, <1>2, <1>3, <1>4, <1>5, <1>6, <1>7, <1>8, <1>9, <1>10 DEF Next

\* The strengthened types hold always.
LEMMA TypeInvariant == Spec => []TypeInv
BY TypeInit, TypeStep, PTL DEF Spec

\* The agent's backlog and its spool are within the cap and hold readings it
\* took, and the server's tables hold readings it received.
THEOREM TypeCorrect == Spec => []TypeOK
<1>1. TypeInv => TypeOK
  BY DEF TypeInv
<1> QED
  BY <1>1, TypeInvariant, PTL

-----------------------------------------------------------------------------
(* No reading is lost on the way                                           *)

\* A 200 is read by the push it answers, and stands for a stored backlog.
AnswerInv == ok => at = "sending" /\ pending \subseteq received \cup gone

ArrivalInv == OutageSurvived /\ AnswerInv

\* Initially there is nothing to lose.
LEMMA ArrivalInit == Init => ArrivalInv
BY DEF Init, AgentInit, RollupInit, ArrivalInv, OutageSurvived, AnswerInv

\* Every step keeps each reading somewhere: a reading leaves the backlog to the
\* history of what the agent gave up, or under an answer for a stored backlog.
LEMMA ArrivalStep == TypeInv /\ ArrivalInv /\ [Next]_vars => ArrivalInv'
<1> SUFFICES ASSUME TypeInv, ArrivalInv, [Next]_vars PROVE ArrivalInv'
  OBVIOUS
<1> USE DEF ArrivalInv, OutageSurvived, AnswerInv
<1>1. CASE Clock
  BY <1>1 DEF Clock, Tick, agentVars
<1>2. CASE Read
  BY <1>2 DEF Read, Collect, rollupVars
<1>3. CASE Send
  BY <1>3 DEF Send, BeginSend, rollupVars
<1>4. CASE Lose
  BY <1>4 DEF Lose, agentVars, rollupVars
<1>5. CASE Delivered
  BY <1>5 DEF Delivered, SendSucceeds, rollupVars
<1>6. CASE Agent
  BY <1>6 DEF Agent, AgentStep, SendFails, ClearSpool, Stop, Crash, Reload,
              rollupVars
<1>7. CASE Roller
  BY <1>7 DEF Roller, Roll, FoldRawToMinutes, FoldUp, PruneRaw, PruneMinutes,
              RollFails, agentVars
<1>8. CASE ForgetNode
  BY <1>8 DEF ForgetNode, Forget
<1>9. ASSUME NEW batch \in wire, Report(batch) PROVE ArrivalInv'
  BY <1>9 DEF Report, Ingest, agentVars
<1>10. CASE UNCHANGED vars
  BY <1>10 DEF vars, agentVars, rollupVars
<1> QED
  BY <1>1, <1>2, <1>3, <1>4, <1>5, <1>6, <1>7, <1>8, <1>9, <1>10 DEF Next

\* Whatever the network, the disk and the operator do, a reading is in the
\* backlog, was received, or is one of those the agent is known to give up.
THEOREM NothingLost == Spec => []OutageSurvived
<1>1. ArrivalInv => OutageSurvived
  BY DEF ArrivalInv
<1> QED
  BY <1>1, ArrivalInit, ArrivalStep, TypeInvariant, PTL DEF Spec

\* The cap gives up older readings than any it keeps, whatever its size.
THEOREM CapKeepsRecent == Spec => RecentKept
<1>1. TypeInv => [Read => \A r \in gone' \ gone, q \in pending' : q > r]_vars
  <2> SUFFICES ASSUME TypeInv, Read,
                      NEW r \in gone' \ gone, NEW q \in pending'
               PROVE  q > r
    OBVIOUS
  <2> DEFINE held == pending \cup {now}
  <2>1. held \in SUBSET Nat /\ IsFiniteSet(held)
    BY FS_AddElement DEF TypeInv, TypeOK, AgentTypeOK, RollupTypeOK
  <2>2. r \in held \ Newest(held) /\ q \in Newest(held)
    BY DEF Read, Collect
  <2> QED
    BY <2>1, <2>2, NewestAreNewer
<1> QED
  BY <1>1, TypeInvariant, PTL DEF RecentKept

-----------------------------------------------------------------------------
(* Nothing is pruned before it is summarised                               *)

\* The folds stop at the start of a minute, and what a bucket stands for is
\* below the watermark.
FoldedInv ==
    /\ Floor(mark["minute"], Minute) = mark["minute"]
    /\ \A r \in minutes \cup hours : Folded(r)

\* Above the watermark readings are raw; below it a bucket stands for them.
SummaryInv ==
    /\ \A r \in received : ~ Folded(r) => r \in raw
    /\ \A r \in received \ (late \cup EdgeOfMinute) :
          Folded(r) => r \in minutes \cup AgedOut

RollInv == FoldedInv /\ SummaryInv

\* Initially nothing is received and nothing is folded.
LEMMA RollInit == Init => RollInv
<1> SUFFICES ASSUME Init PROVE RollInv
  OBVIOUS
<1>1. mark["minute"] = 0 /\ minutes = {} /\ hours = {} /\ received = {}
  BY DEF Init, RollupInit
<1>2. Floor(0, Minute) = 0
  BY FloorBounds, RollupAssumption
<1> QED
  BY <1>1, <1>2 DEF RollInv, FoldedInv, SummaryInv

\* A fold of raw readings keeps the invariant: a reading that is not folded yet
\* is in the window, and one that is keeps its bucket, for every reading of the
\* window is in a later minute.
LEMMA FoldKeeps == TypeInv /\ RollInv /\ Roller /\ FoldRawToMinutes => RollInv'
<1> SUFFICES ASSUME TypeInv, RollInv, Roller, FoldRawToMinutes PROVE RollInv'
  OBVIOUS
<1> DEFINE from == mark["minute"]
           until == Floor(now, Minute)
           window == { r \in raw : r <= until /\ (from > 0 => r > from) }
<1>1. /\ Minute \in Nat /\ Minute > 0 /\ now \in Nat /\ MinuteKept \in Nat
      /\ received \in SUBSET (0 .. now)
      /\ raw \in SUBSET received /\ minutes \in SUBSET received
      /\ hours \in SUBSET received /\ late \in SUBSET received
      /\ mark \in [{"minute", "hour"} -> 0 .. now]
  BY RollupAssumption DEF TypeInv, TypeOK, RollupTypeOK
<1>2. from \in Nat /\ until \in 0 .. now
  BY <1>1, FloorBounds
<1>3. Floor(until, Minute) = until
  <2>1. Floor(until, Minute) >= until
    BY <1>1, <1>2, FloorMonotone
  <2>2. Floor(until, Minute) \in 0 .. until
    BY <1>1, <1>2, FloorBounds
  <2> QED
    BY <1>2, <2>1, <2>2
<1>4. /\ now' = now /\ raw' = raw /\ hours' = hours
      /\ received' = received /\ late' = late
  BY DEF FoldRawToMinutes
<1>5. EdgeOfMinute' = EdgeOfMinute /\ AgedOut' = AgedOut
  BY <1>4 DEF EdgeOfMinute, AgedOut
<1>6. CASE UNCHANGED <<minutes, mark>>
  BY <1>4, <1>5, <1>6 DEF RollInv, FoldedInv, SummaryInv, Folded
<1>7. CASE /\ minutes' = Replace(minutes, Minute, window)
           /\ mark' = [mark EXCEPT !["minute"] = until]
           /\ IF from > 0 THEN until > from ELSE \E r \in raw : until > r
  <2>1. mark'["minute"] = until
    BY <1>1, <1>7
  <2>2. until > 0 /\ until >= from
    BY <1>1, <1>2, <1>7
  <2> HIDE DEF from, until
  <2>3. \A r \in received : Folded(r) => Folded(r)' /\ r <= from /\ from > 0
    BY <1>1, <1>2, <2>1, <2>2 DEF Folded, from
  <2>4. \A r \in received : Folded(r)' <=> r <= until
    BY <2>1, <2>2 DEF Folded
  <2>5. FoldedInv'
    <3>1. \A r \in minutes' \cup hours' : Folded(r)'
      <4>1. \A r \in window : Folded(r)'
        BY <1>1, <2>4
      <4>2. minutes' \subseteq window \cup minutes
        BY <1>7 DEF Replace
      <4> QED
        BY <1>1, <1>4, <2>3, <4>1, <4>2 DEF RollInv, FoldedInv
    <3> QED
      BY <1>3, <2>1, <3>1 DEF FoldedInv
  <2>6. \A r \in received : ~ Folded(r)' => r \in raw
    BY <2>3 DEF RollInv, SummaryInv
  <2>7. ASSUME NEW r \in received \ (late \cup EdgeOfMinute), Folded(r)'
        PROVE  r \in minutes' \cup AgedOut
    <3>1. CASE ~ Folded(r)
      <4>1. r \in raw
        BY <3>1 DEF RollInv, SummaryInv
      <4>2. r <= until
        BY <2>4, <2>7
      <4>3. from > 0 => r > from
        BY <1>1, <1>2, <3>1 DEF Folded, from
      <4> QED
        BY <1>7, <4>1, <4>2, <4>3 DEF Replace
    <3>2. CASE Folded(r) /\ r \in minutes
      <4> SUFFICES ASSUME NEW q \in window PROVE Floor(r, Minute) # Floor(q, Minute)
        BY <1>7, <3>2 DEF Replace
      <4>1. r \in Nat /\ q \in Nat
        BY <1>1
      <4>2. from > 0 /\ r <= from /\ q > from
        BY <2>3, <3>2
      <4>3. Floor(from, Minute) = from
        BY DEF RollInv, FoldedInv, from
      <4>4. r # from
        BY <1>1, <4>1, <4>3 DEF EdgeOfMinute, Floor
      <4>5. Floor(q, Minute) >= from
        BY <1>1, <1>2, <4>1, <4>2, <4>3, FloorMonotone
      <4>6. Floor(r, Minute) \in 0 .. r
        BY <1>1, <4>1, FloorBounds
      <4> QED
        BY <1>2, <4>1, <4>2, <4>4, <4>5, <4>6
    <3>3. CASE r \in AgedOut
      BY <3>3
    <3> QED
      BY <3>1, <3>2, <3>3 DEF RollInv, SummaryInv
  <2> QED
    BY <1>4, <1>5, <2>5, <2>6, <2>7 DEF RollInv, SummaryInv
<1> QED
  BY <1>6, <1>7 DEF FoldRawToMinutes

\* Every step keeps the invariant: reports arrive above the watermark or late,
\* a pruned reading is below the watermark, and a dropped bucket was old.
LEMMA RollStep == TypeInv /\ RollInv /\ [Next]_vars => RollInv'
<1> SUFFICES ASSUME TypeInv, RollInv, [Next]_vars PROVE RollInv'
  OBVIOUS
<1> USE DEF RollInv, FoldedInv, SummaryInv, Folded, EdgeOfMinute, AgedOut
<1>0. /\ now \in Nat /\ Minute \in Nat /\ MinuteKept \in Nat /\ RawKept \in Nat
      /\ received \in SUBSET (0 .. now) /\ taken \in SUBSET (0 .. now)
      /\ raw \in SUBSET received /\ minutes \in SUBSET received
      /\ hours \in SUBSET received /\ late \in SUBSET received
      /\ mark \in [{"minute", "hour"} -> 0 .. now]
  BY RollupAssumption DEF TypeInv, TypeOK, RollupTypeOK
<1>1. CASE Clock
  <2>1. /\ now' = now + 1
        /\ UNCHANGED <<raw, minutes, hours, mark, received, late>>
    BY <1>1 DEF Clock, Tick
  <2>2. \A r \in AgedOut : r \in AgedOut'
    <3> SUFFICES ASSUME NEW r \in AgedOut PROVE r \in AgedOut'
      OBVIOUS
    <3>1. r \in Nat /\ Floor(r, Minute) \in Nat
      BY <1>0, FloorBounds, RollupAssumption
    <3> QED
      BY <1>0, <2>1, <3>1
  <2> QED
    BY <2>1, <2>2
<1>2. CASE Read \/ Send \/ Lose \/ Delivered \/ Agent \/ UNCHANGED vars
  BY <1>2 DEF Read, Send, Lose, Delivered, Agent, vars, rollupVars
<1>3. CASE Roller
  <2>1. CASE FoldRawToMinutes
    BY <1>3, <2>1, FoldKeeps
  <2>2. CASE FoldUp
    <3>1. UNCHANGED <<now, raw, minutes, received, late>>
          /\ mark'["minute"] = mark["minute"]
      BY <1>0, <2>2 DEF FoldUp
    <3>2. hours' \subseteq minutes \cup hours
      BY <2>2 DEF FoldUp, Replace
    <3> QED
      BY <3>1, <3>2
  <2>3. CASE PruneRaw
    <3>1. UNCHANGED <<now, minutes, hours, mark, received, late>>
      BY <2>3 DEF PruneRaw
    <3>2. ASSUME NEW r \in raw, ~ Folded(r) PROVE r \in raw'
      BY <1>0, <2>3, <3>2 DEF PruneRaw
    <3> QED
      BY <3>1, <3>2
  <2>4. CASE PruneMinutes
    <3>1. UNCHANGED <<now, raw, hours, mark, received, late>>
      BY <2>4 DEF PruneMinutes
    <3>2. minutes' \subseteq minutes
      BY <2>4 DEF PruneMinutes
    <3>3. ASSUME NEW r \in minutes PROVE r \in minutes' \cup AgedOut
      <4>1. r \in Nat /\ Floor(r, Minute) \in Nat
        BY <1>0, FloorBounds, RollupAssumption
      <4> QED
        BY <1>0, <2>4, <4>1 DEF PruneMinutes
    <3> QED
      BY <3>1, <3>2, <3>3
  <2>5. CASE RollFails
    BY <2>5 DEF RollFails
  <2> QED
    BY <1>3, <2>1, <2>2, <2>3, <2>4, <2>5 DEF Roller, Roll
<1>4. CASE ForgetNode
  BY <1>0, <1>4 DEF ForgetNode, Forget
<1>5. ASSUME NEW batch \in wire, Report(batch) PROVE RollInv'
  BY <1>0, <1>5 DEF Report, Ingest
<1> QED
  BY <1>1, <1>2, <1>3, <1>4, <1>5 DEF Next

\* Whatever the retention and however the roller fails, a reading that came in
\* time is raw, or in a minute bucket, or older than minute buckets are kept.
THEOREM Summarised == Spec => []SummarisedUnlessLate
<1>1. RollInv => SummarisedUnlessLate
  BY DEF RollInv, SummaryInv, SummarisedUnlessLate
<1> QED
  BY <1>1, RollInit, RollStep, TypeInvariant, PTL DEF Spec

=============================================================================
