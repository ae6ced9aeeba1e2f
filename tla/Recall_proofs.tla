---------------------------- MODULE Recall_proofs ----------------------------
(***************************************************************************)
(* Theorems about Recall, for every set of messages, conversations and     *)
(* embedding models, every batch size and every number of faults.          *)
(***************************************************************************)
EXTENDS Recall, TLAPS

-----------------------------------------------------------------------------
(* Types.  Two processes may count a failure of the same message, so one   *)
(* that both hold has an attempt to spare; and only a process that runs    *)
(* holds a batch.                                                          *)

Holds(p, m) == index[p].at = "embed" /\ m \in index[p].items

Spare ==
    \A m \in Messages, p, q \in Processes :
        /\ Holds(p, m) => attempts[m] <= MaxAttempts
        /\ p # q /\ Holds(p, m) /\ Holds(q, m) => attempts[m] < MaxAttempts

Busy ==
    /\ index["server"].at # "idle" => model["server"] # "down"
    /\ index["command"].at # "idle" => command = "drain"
    /\ command = "off" <=> model["command"] = "down"

TypeInv == TypeOK /\ Spare /\ Busy

\* A process with a batch has a model.
LEMMA BusyUp ==
    ASSUME TypeInv, NEW p \in Processes, index[p].at # "idle"
    PROVE  model[p] \in Models
BY DEF TypeInv, TypeOK, Busy, Processes

\* What a claim takes: spoken messages with an attempt left.
Taken(items) ==
    [at |-> IF items = {} THEN "idle" ELSE "embed", items |-> items, pin |-> "none"]

LEMMA ClaimTakes ==
    ASSUME NEW p \in Processes, Claim(p)
    PROVE  \E items \in SUBSET (Claimable \cap Spoken) :
              index' = [index EXCEPT ![p] = Taken(items)]
<1>1. PICK rows \in SUBSET Claimable : Take(p, rows \cap Spoken)
  BY DEF Claim, Batches
<1>2. index' = [index EXCEPT ![p] = Taken(rows \cap Spoken)]
  BY <1>1 DEF Take, EndPass, Idle, Taken
<1> QED
  BY <1>2

\* Every step keeps the types.
LEMMA TypeStep == TypeInv /\ [Next]_vars => TypeOK'
<1> SUFFICES ASSUME TypeInv, [Next]_vars PROVE TypeOK'
  OBVIOUS
<1> USE RecallAssumption
<1>1. ASSUME NEW m \in Messages, AppendMessages(m) PROVE TypeOK'
  BY <1>1 DEF AppendMessages, procs, TypeInv, TypeOK
<1>2. ASSUME NEW m \in Messages, Enqueue(m) PROVE TypeOK'
  BY <1>2 DEF Enqueue, AddToQueue, Kept, store, procs, TypeInv, TypeOK
<1>3. ASSUME NEW m \in Messages, EnqueueFails(m) PROVE TypeOK'
  BY <1>3 DEF EnqueueFails, Trouble, Spoken, store, procs, TypeInv, TypeOK
<1>4. ASSUME NEW m \in Messages, DeleteMessage(m) PROVE TypeOK'
  BY <1>4 DEF DeleteMessage, Erase, Dequeue, Kept, procs, TypeInv, TypeOK
<1>5. ASSUME NEW s \in Sessions, CreateSession(s) PROVE TypeOK'
  BY <1>5 DEF CreateSession, work, procs, TypeInv, TypeOK
<1>6. ASSUME NEW s \in Sessions, Purge(s) PROVE TypeOK'
  BY <1>6 DEF Purge, Erase, Dequeue, Kept, procs, TypeInv, TypeOK
<1>7. ASSUME NEW s \in Sessions, DeleteSession(s) PROVE TypeOK'
  BY <1>7 DEF DeleteSession, Erase, Dequeue, Kept, procs, TypeInv, TypeOK
<1>8. ASSUME NEW p \in Processes, Claim(p) PROVE TypeOK'
  <2>1. PICK items \in SUBSET (Claimable \cap Spoken) :
          index' = [index EXCEPT ![p] = Taken(items)]
    BY <1>8, ClaimTakes
  <2>2. Taken(items) \in [at : {"idle", "embed", "pin", "read", "write"},
                          items : SUBSET Messages, pin : Models \cup {"none"}]
    BY DEF Taken, Claimable, TypeInv, TypeOK
  <2>3. index' \in [Processes -> [at : {"idle", "embed", "pin", "read", "write"},
                                  items : SUBSET Messages,
                                  pin : Models \cup {"none"}]]
    BY <2>1, <2>2 DEF TypeInv, TypeOK
  <2> HIDE DEF Taken
  <2>4. /\ queue' \subseteq Messages
        /\ attempts' \in [Messages -> 0 .. MaxAttempts + 1]
    BY <1>8 DEF Claim, Dequeue, TypeInv, TypeOK
  <2>5. /\ model' \in [Processes -> Models \cup {"down"}]
        /\ command' \in {"off", "clear", "requeue", "drain"}
    BY <1>8 DEF Claim, Take, EndPass, TypeInv, TypeOK
  <2> QED
    BY <1>8, <2>3, <2>4, <2>5 DEF Claim, store, TypeInv, TypeOK
<1>9. ASSUME NEW p \in Processes, Embed(p) PROVE TypeOK'
  BY <1>9, SMTT(30) DEF Embed, store, work, TypeInv, TypeOK
<1>10. ASSUME NEW p \in Processes, EmbedFails(p) PROVE TypeOK'
  BY <1>10 DEF EmbedFails, EndPass, Idle, store, TypeInv, TypeOK, Processes,
        Spare, Holds
<1>11. ASSUME NEW p \in Processes, SetPin(p) PROVE TypeOK'
  <2>1. model[p] \in Models
    BY <1>11, BusyUp DEF SetPin
  <2> QED
    BY <1>11, <2>1, ZenonT(60) DEF SetPin, work, TypeInv, TypeOK
<1>12. ASSUME NEW p \in Processes, ReadPin(p) PROVE TypeOK'
  <2>1. [index[p] EXCEPT !.at = "write", !.pin = pin]
          \in [at : {"idle", "embed", "pin", "read", "write"},
              items : SUBSET Messages, pin : Models \cup {"none"}]
    <3>1. index[p] \in [at : {"idle", "embed", "pin", "read", "write"},
                        items : SUBSET Messages, pin : Models \cup {"none"}]
          /\ pin \in Models \cup {"none"}
      BY DEF TypeInv, TypeOK
    <3> QED
      BY <3>1
  <2>2. index' \in [Processes -> [at : {"idle", "embed", "pin", "read", "write"},
                                  items : SUBSET Messages,
                                  pin : Models \cup {"none"}]]
    BY <1>12, <2>1 DEF ReadPin, TypeInv, TypeOK
  <2> QED
    BY <1>12, <2>2 DEF ReadPin, store, work, TypeInv, TypeOK
<1>13. ASSUME NEW p \in Processes, Write(p) PROVE TypeOK'
  <2>1. model[p] \in Models
    BY <1>13, BusyUp DEF Write
  <2>2. /\ vectors' \in [Messages -> Models \cup {"none"}]
        /\ terms' \subseteq Messages
        /\ index' \in [Processes -> [at : {"idle", "embed", "pin", "read", "write"},
                                     items : SUBSET Messages,
                                     pin : Models \cup {"none"}]]
    BY <1>13, <2>1 DEF Write, Idle, TypeInv, TypeOK
  <2>3. /\ queue' \subseteq Messages
        /\ attempts' \in [Messages -> 0 .. MaxAttempts + 1]
    BY <1>13 DEF Write, Dequeue, TypeInv, TypeOK
  <2> QED
    BY <1>13, <2>2, <2>3 DEF Write, TypeInv, TypeOK
<1>14. ASSUME NEW p \in Processes, Rollback(p) PROVE TypeOK'
  BY <1>14 DEF Rollback, EndPass, Idle, store, work, TypeInv, TypeOK,
        Processes
<1>15. ASSUME NEW p \in Processes, StoreFails(p) PROVE TypeOK'
  BY <1>15 DEF StoreFails, EndPass, Idle, Trouble, store, work, TypeInv,
        TypeOK, Processes
<1>16. CASE Rebuild
  BY <1>16 DEF Rebuild, ClearIndex, Trouble, Spoken, Pinned, TypeInv, TypeOK
<1>17. CASE Requeue
  BY <1>17 DEF Requeue, QueueEverything, AddToQueue, Spoken, Indexed, store,
        TypeInv, TypeOK
<1>18. CASE Forget
  BY <1>18 DEF Forget, Erase, Dequeue, Kept, Trouble, TypeInv, TypeOK
<1>19. CASE Sweep
  BY <1>19 DEF Sweep, Spoken, store, TypeInv, TypeOK
<1>20. CASE Unpin
  BY <1>20 DEF Unpin, Pinned, Indexed, work, TypeInv, TypeOK
<1>21. CASE AdminFails
  BY <1>21 DEF AdminFails, Trouble, store, work, TypeInv, TypeOK
<1>22. ASSUME NEW m \in Models, StartServer(m) PROVE TypeOK'
  BY <1>22 DEF StartServer, Up, store, work, TypeInv, TypeOK, Processes
<1>23. ASSUME NEW m \in Models, StartCommand(m) PROVE TypeOK'
  BY <1>23 DEF StartCommand, Trouble, store, work, TypeInv, TypeOK, Processes
<1>24. CASE StopServer
  BY <1>24 DEF StopServer, Up, Trouble, Idle, Spoken, store, TypeInv, TypeOK,
        Processes
<1>25. CASE CommandClears
  BY <1>25 DEF CommandClears, ClearIndex, Spoken, Pinned, TypeInv, TypeOK
<1>26. CASE CommandQueues
  BY <1>26 DEF CommandQueues, QueueEverything, AddToQueue, Spoken, Indexed,
        store, TypeInv, TypeOK
<1>27. CASE CommandEnds
  BY <1>27 DEF CommandEnds, EndPass, Idle, Trouble, store, work, TypeInv,
        TypeOK, Processes
<1>28. CASE UNCHANGED vars
  BY <1>28 DEF vars, store, work, procs, TypeInv, TypeOK
<1> QED
  BY <1>1, <1>2, <1>3, <1>4, <1>5, <1>6, <1>7, <1>8, <1>9, <1>10, <1>11,
        <1>12, <1>13, <1>14, <1>15, <1>16, <1>17, <1>18, <1>19, <1>20, <1>21,
        <1>22, <1>23, <1>24, <1>25, <1>26, <1>27, <1>28 DEF Next, IndexBatch

\* Every step keeps the spare attempts.
LEMMA SpareStep == TypeInv /\ [Next]_vars => Spare'
<1> SUFFICES ASSUME TypeInv, [Next]_vars PROVE Spare'
  OBVIOUS
<1> USE RecallAssumption
<1>1. ASSUME NEW m \in Messages, AppendMessages(m) PROVE Spare'
  BY <1>1 DEF AppendMessages, procs, Holds, Spare, Processes, TypeInv, TypeOK
<1>2. ASSUME NEW m \in Messages, Enqueue(m) PROVE Spare'
  BY <1>2 DEF Enqueue, AddToQueue, Kept, store, procs, Holds, Spare,
        Processes, TypeInv, TypeOK
<1>3. ASSUME NEW m \in Messages, EnqueueFails(m) PROVE Spare'
  BY <1>3 DEF EnqueueFails, Trouble, Spoken, store, procs, Holds, Spare,
        Processes, TypeInv, TypeOK
<1>4. ASSUME NEW m \in Messages, DeleteMessage(m) PROVE Spare'
  BY <1>4 DEF DeleteMessage, Erase, Dequeue, Kept, procs, Holds, Spare,
        Processes, TypeInv, TypeOK
<1>5. ASSUME NEW s \in Sessions, CreateSession(s) PROVE Spare'
  BY <1>5 DEF CreateSession, work, procs, Holds, Spare, Processes, TypeInv,
        TypeOK
<1>6. ASSUME NEW s \in Sessions, Purge(s) PROVE Spare'
  BY <1>6 DEF Purge, Erase, Dequeue, Kept, procs, Holds, Spare, Processes,
        TypeInv, TypeOK
<1>7. ASSUME NEW s \in Sessions, DeleteSession(s) PROVE Spare'
  BY <1>7 DEF DeleteSession, Erase, Dequeue, Kept, procs, Holds, Spare,
        Processes, TypeInv, TypeOK
<1>8. ASSUME NEW p \in Processes, Claim(p) PROVE Spare'
  <2>1. PICK items \in SUBSET (Claimable \cap Spoken) :
          index' = [index EXCEPT ![p] = Taken(items)]
    BY <1>8, ClaimTakes
  <2>2. items \subseteq Messages /\ \A m \in items : attempts[m] < MaxAttempts
    BY DEF Claimable, TypeInv, TypeOK
  <2>3. /\ attempts \in [Messages -> Nat] /\ attempts' \in [Messages -> Nat]
        /\ \A m \in Messages : attempts'[m] <= attempts[m]
    BY <1>8 DEF Claim, Dequeue, TypeInv, TypeOK
  <2>4. \A m \in Messages, o \in Processes :
          Holds(o, m)' => Holds(o, m) \/ (o = p /\ m \in items)
    BY <2>1 DEF Taken, Holds, TypeInv, TypeOK
  <2>5. ASSUME NEW m \in Messages, NEW o \in Processes, Holds(o, m)'
        PROVE  attempts'[m] <= MaxAttempts
    BY <2>2, <2>3, <2>4, <2>5 DEF TypeInv, Spare
  <2>6. ASSUME NEW m \in Messages, NEW o \in Processes, NEW q \in Processes,
               o # q, Holds(o, m)', Holds(q, m)'
        PROVE  attempts'[m] < MaxAttempts
    BY <2>2, <2>3, <2>4, <2>6 DEF TypeInv, Spare
  <2> QED
    BY <2>5, <2>6 DEF Spare
<1>9. ASSUME NEW p \in Processes, Embed(p) PROVE Spare'
  BY <1>9 DEF Embed, store, work, Holds, Spare, Processes, TypeInv, TypeOK
<1>10. ASSUME NEW p \in Processes, EmbedFails(p) PROVE Spare'
  BY <1>10 DEF EmbedFails, EndPass, Idle, store, Holds, Spare, Processes,
        TypeInv, TypeOK
<1>11. ASSUME NEW p \in Processes, SetPin(p) PROVE Spare'
  BY <1>11 DEF SetPin, work, Holds, Spare, Processes, TypeInv, TypeOK
<1>12. ASSUME NEW p \in Processes, ReadPin(p) PROVE Spare'
  BY <1>12 DEF ReadPin, store, work, Holds, Spare, Processes, TypeInv, TypeOK
<1>13. ASSUME NEW p \in Processes, Write(p) PROVE Spare'
  BY <1>13 DEF Write, Dequeue, Idle, Holds, Spare, Processes, TypeInv, TypeOK
<1>14. ASSUME NEW p \in Processes, Rollback(p) PROVE Spare'
  BY <1>14 DEF Rollback, EndPass, Idle, store, work, Holds, Spare, Processes,
        TypeInv, TypeOK
<1>15. ASSUME NEW p \in Processes, StoreFails(p) PROVE Spare'
  BY <1>15 DEF StoreFails, EndPass, Idle, Trouble, store, work, Holds, Spare,
        Processes, TypeInv, TypeOK
<1>16. CASE Rebuild
  BY <1>16 DEF Rebuild, ClearIndex, Trouble, Spoken, Pinned, Holds, Spare,
        Processes, TypeInv, TypeOK
<1>17. CASE Requeue
  BY <1>17 DEF Requeue, QueueEverything, AddToQueue, Spoken, Indexed, store,
        Holds, Spare, Processes, TypeInv, TypeOK
<1>18. CASE Forget
  BY <1>18 DEF Forget, Erase, Dequeue, Kept, Trouble, Holds, Spare, Processes,
        TypeInv, TypeOK
<1>19. CASE Sweep
  BY <1>19 DEF Sweep, Spoken, store, Holds, Spare, Processes, TypeInv, TypeOK
<1>20. CASE Unpin
  BY <1>20 DEF Unpin, Pinned, Indexed, work, Holds, Spare, Processes, TypeInv,
        TypeOK
<1>21. CASE AdminFails
  BY <1>21 DEF AdminFails, Trouble, store, work, Holds, Spare, Processes,
        TypeInv, TypeOK
<1>22. ASSUME NEW m \in Models, StartServer(m) PROVE Spare'
  BY <1>22 DEF StartServer, Up, store, work, Holds, Spare, Processes, TypeInv,
        TypeOK
<1>23. ASSUME NEW m \in Models, StartCommand(m) PROVE Spare'
  BY <1>23 DEF StartCommand, Trouble, store, work, Holds, Spare, Processes,
        TypeInv, TypeOK
<1>24. CASE StopServer
  BY <1>24 DEF StopServer, Up, Trouble, Idle, Spoken, store, Holds, Spare,
        Processes, TypeInv, TypeOK
<1>25. CASE CommandClears
  BY <1>25 DEF CommandClears, ClearIndex, Spoken, Pinned, Holds, Spare,
        Processes, TypeInv, TypeOK
<1>26. CASE CommandQueues
  BY <1>26 DEF CommandQueues, QueueEverything, AddToQueue, Spoken, Indexed,
        store, Holds, Spare, Processes, TypeInv, TypeOK
<1>27. CASE CommandEnds
  BY <1>27 DEF CommandEnds, EndPass, Idle, Trouble, store, work, Holds, Spare,
        Processes, TypeInv, TypeOK
<1>28. CASE UNCHANGED vars
  BY <1>28 DEF vars, store, work, procs, Holds, Spare, Processes, TypeInv,
        TypeOK
<1> QED
  BY <1>1, <1>2, <1>3, <1>4, <1>5, <1>6, <1>7, <1>8, <1>9, <1>10, <1>11,
        <1>12, <1>13, <1>14, <1>15, <1>16, <1>17, <1>18, <1>19, <1>20, <1>21,
        <1>22, <1>23, <1>24, <1>25, <1>26, <1>27, <1>28 DEF Next, IndexBatch

\* Every step keeps the batches with the processes that run.
LEMMA BusyStep == TypeInv /\ [Next]_vars => Busy'
<1> SUFFICES ASSUME TypeInv, [Next]_vars PROVE Busy'
  OBVIOUS
<1> USE RecallAssumption
<1>1. ASSUME NEW m \in Messages, AppendMessages(m) PROVE Busy'
  BY <1>1 DEF AppendMessages, procs, Busy, Processes, TypeInv, TypeOK
<1>2. ASSUME NEW m \in Messages, Enqueue(m) PROVE Busy'
  BY <1>2 DEF Enqueue, AddToQueue, Kept, store, procs, Busy, Processes,
        TypeInv, TypeOK
<1>3. ASSUME NEW m \in Messages, EnqueueFails(m) PROVE Busy'
  BY <1>3 DEF EnqueueFails, Trouble, Spoken, store, procs, Busy, Processes,
        TypeInv, TypeOK
<1>4. ASSUME NEW m \in Messages, DeleteMessage(m) PROVE Busy'
  BY <1>4 DEF DeleteMessage, Erase, Dequeue, Kept, procs, Busy, Processes,
        TypeInv, TypeOK
<1>5. ASSUME NEW s \in Sessions, CreateSession(s) PROVE Busy'
  BY <1>5 DEF CreateSession, work, procs, Busy, Processes, TypeInv, TypeOK
<1>6. ASSUME NEW s \in Sessions, Purge(s) PROVE Busy'
  BY <1>6 DEF Purge, Erase, Dequeue, Kept, procs, Busy, Processes, TypeInv,
        TypeOK
<1>7. ASSUME NEW s \in Sessions, DeleteSession(s) PROVE Busy'
  BY <1>7 DEF DeleteSession, Erase, Dequeue, Kept, procs, Busy, Processes,
        TypeInv, TypeOK
<1>8. ASSUME NEW p \in Processes, Claim(p) PROVE Busy'
  BY <1>8 DEF Claim, Batches, Claimable, Take, Dequeue, EndPass, Idle, store,
        Busy, Processes, TypeInv, TypeOK, Runs, Up
<1>9. ASSUME NEW p \in Processes, Embed(p) PROVE Busy'
  BY <1>9 DEF Embed, store, work, Busy, Processes, TypeInv, TypeOK
<1>10. ASSUME NEW p \in Processes, EmbedFails(p) PROVE Busy'
  BY <1>10 DEF EmbedFails, EndPass, Idle, store, Busy, Processes, TypeInv,
        TypeOK
<1>11. ASSUME NEW p \in Processes, SetPin(p) PROVE Busy'
  BY <1>11 DEF SetPin, work, Busy, Processes, TypeInv, TypeOK
<1>12. ASSUME NEW p \in Processes, ReadPin(p) PROVE Busy'
  BY <1>12 DEF ReadPin, store, work, Busy, Processes, TypeInv, TypeOK
<1>13. ASSUME NEW p \in Processes, Write(p) PROVE Busy'
  BY <1>13 DEF Write, Dequeue, Idle, Busy, Processes, TypeInv, TypeOK
<1>14. ASSUME NEW p \in Processes, Rollback(p) PROVE Busy'
  BY <1>14 DEF Rollback, EndPass, Idle, store, work, Busy, Processes, TypeInv,
        TypeOK
<1>15. ASSUME NEW p \in Processes, StoreFails(p) PROVE Busy'
  BY <1>15 DEF StoreFails, EndPass, Idle, Trouble, store, work, Busy,
        Processes, TypeInv, TypeOK
<1>16. CASE Rebuild
  BY <1>16 DEF Rebuild, ClearIndex, Trouble, Spoken, Pinned, Busy, Processes,
        TypeInv, TypeOK
<1>17. CASE Requeue
  BY <1>17 DEF Requeue, QueueEverything, AddToQueue, Spoken, Indexed, store,
        Busy, Processes, TypeInv, TypeOK
<1>18. CASE Forget
  BY <1>18 DEF Forget, Erase, Dequeue, Kept, Trouble, Busy, Processes,
        TypeInv, TypeOK
<1>19. CASE Sweep
  BY <1>19 DEF Sweep, Spoken, store, Busy, Processes, TypeInv, TypeOK
<1>20. CASE Unpin
  BY <1>20 DEF Unpin, Pinned, Indexed, work, Busy, Processes, TypeInv, TypeOK
<1>21. CASE AdminFails
  BY <1>21 DEF AdminFails, Trouble, store, work, Busy, Processes, TypeInv,
        TypeOK
<1>22. ASSUME NEW m \in Models, StartServer(m) PROVE Busy'
  BY <1>22 DEF StartServer, Up, store, work, Busy, Processes, TypeInv, TypeOK
<1>23. ASSUME NEW m \in Models, StartCommand(m) PROVE Busy'
  BY <1>23 DEF StartCommand, Trouble, store, work, Busy, Processes, TypeInv,
        TypeOK
<1>24. CASE StopServer
  BY <1>24 DEF StopServer, Up, Trouble, Idle, Spoken, store, Busy, Processes,
        TypeInv, TypeOK
<1>25. CASE CommandClears
  BY <1>25 DEF CommandClears, ClearIndex, Spoken, Pinned, Busy, Processes,
        TypeInv, TypeOK
<1>26. CASE CommandQueues
  BY <1>26 DEF CommandQueues, QueueEverything, AddToQueue, Spoken, Indexed,
        store, Busy, Processes, TypeInv, TypeOK
<1>27. CASE CommandEnds
  BY <1>27 DEF CommandEnds, EndPass, Idle, Trouble, store, work, Busy,
        Processes, TypeInv, TypeOK
<1>28. CASE UNCHANGED vars
  BY <1>28 DEF vars, store, work, procs, Busy, Processes, TypeInv, TypeOK
<1> QED
  BY <1>1, <1>2, <1>3, <1>4, <1>5, <1>6, <1>7, <1>8, <1>9, <1>10, <1>11,
        <1>12, <1>13, <1>14, <1>15, <1>16, <1>17, <1>18, <1>19, <1>20, <1>21,
        <1>22, <1>23, <1>24, <1>25, <1>26, <1>27, <1>28 DEF Next, IndexBatch

\* The initial state has the types.
LEMMA TypeInit == Init => TypeInv
<1>1. Init => TypeOK
  <2>1. Idle \in [at : {"idle", "embed", "pin", "read", "write"},
                  items : SUBSET Messages, pin : Models \cup {"none"}]
    BY DEF Idle
  <2>2. Init => index \in [Processes -> [at : {"idle", "embed", "pin", "read", "write"},
                                         items : SUBSET Messages,
                                         pin : Models \cup {"none"}]]
    BY <2>1 DEF Init
  <2>3. 0 \in 0 .. MaxAttempts + 1 /\ 0 \in 0 .. MaxTrouble
    BY RecallAssumption
  <2>4. Init => attempts \in [Messages -> 0 .. MaxAttempts + 1]
    BY <2>3 DEF Init
  <2>5. Init => /\ session \in [Sessions -> {"none", "open", "gone"}]
                /\ message \in [Messages -> {"none", "spoken", "silent", "gone"}]
                /\ vectors \in [Messages -> Models \cup {"none"}]
                /\ model \in [Processes -> Models \cup {"down"}]
    BY DEF Init
  <2> QED
    BY <2>2, <2>3, <2>4, <2>5 DEF Init, TypeOK
<1>2. Init => Spare
  BY DEF Init, Spare, Holds, Idle
<1>3. Init => Busy
  BY DEF Init, Busy, Idle, Processes
<1> QED
  BY <1>1, <1>2, <1>3 DEF TypeInv

\* The types hold for good.
LEMMA TypeInvariant == Spec => []TypeInv
<1>1. TypeInv /\ [Next]_vars => TypeInv'
  BY TypeStep, SpareStep, BusyStep DEF TypeInv
<1> QED
  BY <1>1, TypeInit, PTL DEF Spec

\* Type correctness: a message never counts more failures than the limit and
\* one, though two processes index.
THEOREM TypeCorrect == Spec => []TypeOK
BY TypeInvariant, PTL DEF TypeInv

-----------------------------------------------------------------------------
(* What is erased is not found.  A batch was taken from spoken messages,   *)
(* and a message that is kept is still spoken when the batch is written.   *)

Batched ==
    \A p \in Processes : \A m \in index[p].items : message[m] \in {"spoken", "gone"}

FoundInv == NothingErasedFound /\ Batched

\* Every step keeps the batches spoken.
LEMMA BatchedStep == TypeInv /\ Batched /\ [Next]_vars => Batched'
<1> SUFFICES ASSUME TypeInv /\ Batched, [Next]_vars PROVE Batched'
  OBVIOUS
<1> USE RecallAssumption
<1>1. ASSUME NEW m \in Messages, AppendMessages(m) PROVE Batched'
  BY <1>1 DEF AppendMessages, procs, Batched, Processes, TypeInv, TypeOK
<1>2. ASSUME NEW m \in Messages, Enqueue(m) PROVE Batched'
  BY <1>2 DEF Enqueue, AddToQueue, Kept, store, procs, Batched, Processes,
        TypeInv, TypeOK
<1>3. ASSUME NEW m \in Messages, EnqueueFails(m) PROVE Batched'
  BY <1>3 DEF EnqueueFails, Trouble, Spoken, store, procs, Batched, Processes,
        TypeInv, TypeOK
<1>4. ASSUME NEW m \in Messages, DeleteMessage(m) PROVE Batched'
  BY <1>4 DEF DeleteMessage, Erase, Dequeue, Kept, procs, Batched, Processes,
        TypeInv, TypeOK
<1>5. ASSUME NEW s \in Sessions, CreateSession(s) PROVE Batched'
  BY <1>5 DEF CreateSession, work, procs, Batched, Processes, TypeInv, TypeOK
<1>6. ASSUME NEW s \in Sessions, Purge(s) PROVE Batched'
  BY <1>6 DEF Purge, Erase, Dequeue, Kept, procs, Batched, Processes, TypeInv,
        TypeOK
<1>7. ASSUME NEW s \in Sessions, DeleteSession(s) PROVE Batched'
  BY <1>7 DEF DeleteSession, Erase, Dequeue, Kept, procs, Batched, Processes,
        TypeInv, TypeOK
<1>8. ASSUME NEW p \in Processes, Claim(p) PROVE Batched'
  <2>1. PICK items \in SUBSET (Claimable \cap Spoken) :
          index' = [index EXCEPT ![p] = Taken(items)]
    BY <1>8, ClaimTakes
  <2>2. \A m \in items : message'[m] = "spoken"
    BY <1>8 DEF Claim, store, Spoken
  <2>3. message' = message
    BY <1>8 DEF Claim, store
  <2> QED
    BY <2>1, <2>2, <2>3 DEF Taken, Batched, TypeInv, TypeOK
<1>9. ASSUME NEW p \in Processes, Embed(p) PROVE Batched'
  BY <1>9 DEF Embed, store, work, Batched, Processes, TypeInv, TypeOK
<1>10. ASSUME NEW p \in Processes, EmbedFails(p) PROVE Batched'
  BY <1>10 DEF EmbedFails, EndPass, Idle, store, Batched, Processes, TypeInv,
        TypeOK
<1>11. ASSUME NEW p \in Processes, SetPin(p) PROVE Batched'
  BY <1>11 DEF SetPin, work, Batched, Processes, TypeInv, TypeOK
<1>12. ASSUME NEW p \in Processes, ReadPin(p) PROVE Batched'
  BY <1>12 DEF ReadPin, store, work, Batched, Processes, TypeInv, TypeOK
<1>13. ASSUME NEW p \in Processes, Write(p) PROVE Batched'
  BY <1>13 DEF Write, Dequeue, Idle, Batched, Processes, TypeInv, TypeOK
<1>14. ASSUME NEW p \in Processes, Rollback(p) PROVE Batched'
  BY <1>14 DEF Rollback, EndPass, Idle, store, work, Batched, Processes,
        TypeInv, TypeOK
<1>15. ASSUME NEW p \in Processes, StoreFails(p) PROVE Batched'
  BY <1>15 DEF StoreFails, EndPass, Idle, Trouble, store, work, Batched,
        Processes, TypeInv, TypeOK
<1>16. CASE Rebuild
  BY <1>16 DEF Rebuild, ClearIndex, Trouble, Spoken, Pinned, Batched,
        Processes, TypeInv, TypeOK
<1>17. CASE Requeue
  BY <1>17 DEF Requeue, QueueEverything, AddToQueue, Spoken, Indexed, store,
        Batched, Processes, TypeInv, TypeOK
<1>18. CASE Forget
  BY <1>18 DEF Forget, Erase, Dequeue, Kept, Trouble, Batched, Processes,
        TypeInv, TypeOK
<1>19. CASE Sweep
  BY <1>19 DEF Sweep, Spoken, store, Batched, Processes, TypeInv, TypeOK
<1>20. CASE Unpin
  BY <1>20 DEF Unpin, Pinned, Indexed, work, Batched, Processes, TypeInv,
        TypeOK
<1>21. CASE AdminFails
  BY <1>21 DEF AdminFails, Trouble, store, work, Batched, Processes, TypeInv,
        TypeOK
<1>22. ASSUME NEW m \in Models, StartServer(m) PROVE Batched'
  BY <1>22 DEF StartServer, Up, store, work, Batched, Processes, TypeInv,
        TypeOK
<1>23. ASSUME NEW m \in Models, StartCommand(m) PROVE Batched'
  BY <1>23 DEF StartCommand, Trouble, store, work, Batched, Processes,
        TypeInv, TypeOK
<1>24. CASE StopServer
  BY <1>24 DEF StopServer, Up, Trouble, Idle, Spoken, store, Batched,
        Processes, TypeInv, TypeOK
<1>25. CASE CommandClears
  BY <1>25 DEF CommandClears, ClearIndex, Spoken, Pinned, Batched, Processes,
        TypeInv, TypeOK
<1>26. CASE CommandQueues
  BY <1>26 DEF CommandQueues, QueueEverything, AddToQueue, Spoken, Indexed,
        store, Batched, Processes, TypeInv, TypeOK
<1>27. CASE CommandEnds
  BY <1>27 DEF CommandEnds, EndPass, Idle, Trouble, store, work, Batched,
        Processes, TypeInv, TypeOK
<1>28. CASE UNCHANGED vars
  BY <1>28 DEF vars, store, work, procs, Batched, Processes, TypeInv, TypeOK
<1> QED
  BY <1>1, <1>2, <1>3, <1>4, <1>5, <1>6, <1>7, <1>8, <1>9, <1>10, <1>11,
        <1>12, <1>13, <1>14, <1>15, <1>16, <1>17, <1>18, <1>19, <1>20, <1>21,
        <1>22, <1>23, <1>24, <1>25, <1>26, <1>27, <1>28 DEF Next, IndexBatch

\* Every step keeps the index to what is stored.
LEMMA FoundStep == TypeInv /\ FoundInv /\ [Next]_vars => NothingErasedFound'
<1> SUFFICES ASSUME TypeInv /\ FoundInv, [Next]_vars PROVE NothingErasedFound'
  OBVIOUS
<1> USE RecallAssumption
<1>1. ASSUME NEW m \in Messages, AppendMessages(m) PROVE NothingErasedFound'
  BY <1>1 DEF AppendMessages, procs, FoundInv, NothingErasedFound, Indexed,
        Spoken, TypeInv, TypeOK
<1>2. ASSUME NEW m \in Messages, Enqueue(m) PROVE NothingErasedFound'
  BY <1>2 DEF Enqueue, AddToQueue, Kept, store, procs, FoundInv,
        NothingErasedFound, Indexed, Spoken, TypeInv, TypeOK
<1>3. ASSUME NEW m \in Messages, EnqueueFails(m) PROVE NothingErasedFound'
  BY <1>3 DEF EnqueueFails, Trouble, Spoken, store, procs, FoundInv,
        NothingErasedFound, Indexed, TypeInv, TypeOK
<1>4. ASSUME NEW m \in Messages, DeleteMessage(m) PROVE NothingErasedFound'
  BY <1>4 DEF DeleteMessage, Erase, Dequeue, Kept, procs, FoundInv,
        NothingErasedFound, Indexed, Spoken, TypeInv, TypeOK
<1>5. ASSUME NEW s \in Sessions, CreateSession(s) PROVE NothingErasedFound'
  BY <1>5 DEF CreateSession, work, procs, FoundInv, NothingErasedFound,
        Indexed, Spoken, TypeInv, TypeOK
<1>6. ASSUME NEW s \in Sessions, Purge(s) PROVE NothingErasedFound'
  BY <1>6 DEF Purge, Erase, Dequeue, Kept, procs, FoundInv,
        NothingErasedFound, Indexed, Spoken, TypeInv, TypeOK
<1>7. ASSUME NEW s \in Sessions, DeleteSession(s) PROVE NothingErasedFound'
  BY <1>7 DEF DeleteSession, Erase, Dequeue, Kept, procs, FoundInv,
        NothingErasedFound, Indexed, Spoken, TypeInv, TypeOK
<1>8. ASSUME NEW p \in Processes, Claim(p) PROVE NothingErasedFound'
  BY <1>8 DEF Claim, Batches, Claimable, Take, Dequeue, EndPass, Idle, store,
        FoundInv, NothingErasedFound, Indexed, Spoken, TypeInv, TypeOK
<1>9. ASSUME NEW p \in Processes, Embed(p) PROVE NothingErasedFound'
  BY <1>9 DEF Embed, store, work, FoundInv, NothingErasedFound, Indexed,
        Spoken, TypeInv, TypeOK
<1>10. ASSUME NEW p \in Processes, EmbedFails(p) PROVE NothingErasedFound'
  BY <1>10 DEF EmbedFails, EndPass, Idle, store, FoundInv, NothingErasedFound,
        Indexed, Spoken, TypeInv, TypeOK
<1>11. ASSUME NEW p \in Processes, SetPin(p) PROVE NothingErasedFound'
  BY <1>11 DEF SetPin, work, FoundInv, NothingErasedFound, Indexed, Spoken,
        TypeInv, TypeOK
<1>12. ASSUME NEW p \in Processes, ReadPin(p) PROVE NothingErasedFound'
  BY <1>12 DEF ReadPin, store, work, FoundInv, NothingErasedFound, Indexed,
        Spoken, TypeInv, TypeOK
<1>13. ASSUME NEW p \in Processes, Write(p) PROVE NothingErasedFound'
  BY <1>13 DEF Write, Dequeue, Idle, FoundInv, NothingErasedFound, Indexed,
        Spoken, TypeInv, TypeOK, Batched, Kept
<1>14. ASSUME NEW p \in Processes, Rollback(p) PROVE NothingErasedFound'
  BY <1>14 DEF Rollback, EndPass, Idle, store, work, FoundInv,
        NothingErasedFound, Indexed, Spoken, TypeInv, TypeOK
<1>15. ASSUME NEW p \in Processes, StoreFails(p) PROVE NothingErasedFound'
  BY <1>15 DEF StoreFails, EndPass, Idle, Trouble, store, work, FoundInv,
        NothingErasedFound, Indexed, Spoken, TypeInv, TypeOK
<1>16. CASE Rebuild
  BY <1>16 DEF Rebuild, ClearIndex, Trouble, Spoken, Pinned, FoundInv,
        NothingErasedFound, Indexed, TypeInv, TypeOK
<1>17. CASE Requeue
  BY <1>17 DEF Requeue, QueueEverything, AddToQueue, Spoken, Indexed, store,
        FoundInv, NothingErasedFound, TypeInv, TypeOK
<1>18. CASE Forget
  BY <1>18 DEF Forget, Erase, Dequeue, Kept, Trouble, FoundInv,
        NothingErasedFound, Indexed, Spoken, TypeInv, TypeOK
<1>19. CASE Sweep
  BY <1>19 DEF Sweep, Spoken, store, FoundInv, NothingErasedFound, Indexed,
        TypeInv, TypeOK
<1>20. CASE Unpin
  BY <1>20 DEF Unpin, Pinned, Indexed, work, FoundInv, NothingErasedFound,
        Spoken, TypeInv, TypeOK
<1>21. CASE AdminFails
  BY <1>21 DEF AdminFails, Trouble, store, work, FoundInv, NothingErasedFound,
        Indexed, Spoken, TypeInv, TypeOK
<1>22. ASSUME NEW m \in Models, StartServer(m) PROVE NothingErasedFound'
  BY <1>22 DEF StartServer, Up, store, work, FoundInv, NothingErasedFound,
        Indexed, Spoken, TypeInv, TypeOK
<1>23. ASSUME NEW m \in Models, StartCommand(m) PROVE NothingErasedFound'
  BY <1>23 DEF StartCommand, Trouble, store, work, FoundInv,
        NothingErasedFound, Indexed, Spoken, TypeInv, TypeOK
<1>24. CASE StopServer
  BY <1>24 DEF StopServer, Up, Trouble, Idle, Spoken, store, FoundInv,
        NothingErasedFound, Indexed, TypeInv, TypeOK
<1>25. CASE CommandClears
  BY <1>25 DEF CommandClears, ClearIndex, Spoken, Pinned, FoundInv,
        NothingErasedFound, Indexed, TypeInv, TypeOK
<1>26. CASE CommandQueues
  BY <1>26 DEF CommandQueues, QueueEverything, AddToQueue, Spoken, Indexed,
        store, FoundInv, NothingErasedFound, TypeInv, TypeOK
<1>27. CASE CommandEnds
  BY <1>27 DEF CommandEnds, EndPass, Idle, Trouble, store, work, FoundInv,
        NothingErasedFound, Indexed, Spoken, TypeInv, TypeOK
<1>28. CASE UNCHANGED vars
  BY <1>28 DEF vars, store, work, procs, FoundInv, NothingErasedFound,
        Indexed, Spoken, TypeInv, TypeOK
<1> QED
  BY <1>1, <1>2, <1>3, <1>4, <1>5, <1>6, <1>7, <1>8, <1>9, <1>10, <1>11,
        <1>12, <1>13, <1>14, <1>15, <1>16, <1>17, <1>18, <1>19, <1>20, <1>21,
        <1>22, <1>23, <1>24, <1>25, <1>26, <1>27, <1>28 DEF Next, IndexBatch

\* Nothing that was erased is found, and both halves of the index hold the
\* same messages, whatever was erased while a batch was on its way.
THEOREM ErasedNotFound == Spec => []NothingErasedFound
<1>1. Init => FoundInv
  BY DEF Init, FoundInv, NothingErasedFound, Indexed, Spoken, Batched, Idle, Processes
<1>2. TypeInv /\ FoundInv /\ [Next]_vars => FoundInv'
  BY BatchedStep, FoundStep DEF FoundInv
<1>3. FoundInv => NothingErasedFound
  BY DEF FoundInv
<1> QED
  BY <1>1, <1>2, <1>3, TypeInvariant, PTL DEF Spec

-----------------------------------------------------------------------------
(* One embedder.  While nothing was mixed, the pin is absent or the model  *)
(* of whoever runs (a reindex about to clear excepted), and is there as    *)
(* long as there is a vector, or a batch about to become one.              *)

PinInv ==
    mixed \/
    /\ \A m \in Indexed : vectors[m] = pin
    /\ model["server"] # "down" => pin \in {"none", model["server"]}
    /\ command \in {"requeue", "drain"} => pin \in {"none", model["command"]}
    /\ \A p \in Processes : index[p].at \in {"read", "write"} => pin = model[p]
    /\ model["server"] # "down" /\ model["command"] # "down"
         => model["server"] = model["command"]

\* Every step keeps the pin with the vectors.
LEMMA PinStep == TypeInv /\ PinInv /\ [Next]_vars => PinInv'
<1> SUFFICES ASSUME TypeInv /\ PinInv, [Next]_vars PROVE PinInv'
  OBVIOUS
<1> USE RecallAssumption
<1>1. ASSUME NEW m \in Messages, AppendMessages(m) PROVE PinInv'
  BY <1>1 DEF AppendMessages, procs, PinInv, Indexed, Busy, Processes,
        TypeInv, TypeOK
<1>2. ASSUME NEW m \in Messages, Enqueue(m) PROVE PinInv'
  BY <1>2 DEF Enqueue, AddToQueue, Kept, store, procs, PinInv, Indexed, Busy,
        Processes, TypeInv, TypeOK
<1>3. ASSUME NEW m \in Messages, EnqueueFails(m) PROVE PinInv'
  BY <1>3 DEF EnqueueFails, Trouble, Spoken, store, procs, PinInv, Indexed,
        Busy, Processes, TypeInv, TypeOK
<1>4. ASSUME NEW m \in Messages, DeleteMessage(m) PROVE PinInv'
  BY <1>4 DEF DeleteMessage, Erase, Dequeue, Kept, procs, PinInv, Indexed,
        Busy, Processes, TypeInv, TypeOK
<1>5. ASSUME NEW s \in Sessions, CreateSession(s) PROVE PinInv'
  BY <1>5 DEF CreateSession, work, procs, PinInv, Indexed, Busy, Processes,
        TypeInv, TypeOK
<1>6. ASSUME NEW s \in Sessions, Purge(s) PROVE PinInv'
  BY <1>6 DEF Purge, Erase, Dequeue, Kept, procs, PinInv, Indexed, Busy,
        Processes, TypeInv, TypeOK
<1>7. ASSUME NEW s \in Sessions, DeleteSession(s) PROVE PinInv'
  BY <1>7 DEF DeleteSession, Erase, Dequeue, Kept, procs, PinInv, Indexed,
        Busy, Processes, TypeInv, TypeOK
<1>8. ASSUME NEW p \in Processes, Claim(p) PROVE PinInv'
  <2>1. PICK items \in SUBSET (Claimable \cap Spoken) :
          index' = [index EXCEPT ![p] = Taken(items)]
    BY <1>8, ClaimTakes
  <2>2. \A o \in Processes : index'[o].at \in {"read", "write"} =>
          o # p /\ index'[o] = index[o]
    BY <2>1 DEF Taken, TypeInv, TypeOK
  <2>3. UNCHANGED <<vectors, pin, mixed>>
    BY <1>8 DEF Claim, store
  <2>4. \/ UNCHANGED <<model, command>>
        \/ /\ p = "command" /\ command' = "off"
           /\ model' = [model EXCEPT !["command"] = "down"]
    BY <1>8 DEF Claim, Take, EndPass, Processes
  <2> QED
    BY <2>2, <2>3, <2>4 DEF PinInv, Indexed, Processes, TypeInv, TypeOK
<1>9. ASSUME NEW p \in Processes, Embed(p) PROVE PinInv'
  BY <1>9 DEF Embed, store, work, PinInv, Indexed, Busy, Processes, TypeInv,
        TypeOK
<1>10. ASSUME NEW p \in Processes, EmbedFails(p) PROVE PinInv'
  BY <1>10 DEF EmbedFails, EndPass, Idle, store, PinInv, Indexed, Busy,
        Processes, TypeInv, TypeOK
<1>11. ASSUME NEW p \in Processes, SetPin(p) PROVE PinInv'
  BY <1>11 DEF SetPin, work, PinInv, Indexed, Busy, Processes, TypeInv, TypeOK
<1>12. ASSUME NEW p \in Processes, ReadPin(p) PROVE PinInv'
  BY <1>12 DEF ReadPin, store, work, PinInv, Indexed, Busy, Processes,
        TypeInv, TypeOK
<1>13. ASSUME NEW p \in Processes, Write(p) PROVE PinInv'
  BY <1>13 DEF Write, Dequeue, Idle, PinInv, Indexed, Busy, Processes,
        TypeInv, TypeOK
<1>14. ASSUME NEW p \in Processes, Rollback(p) PROVE PinInv'
  BY <1>14 DEF Rollback, EndPass, Idle, store, work, PinInv, Indexed, Busy,
        Processes, TypeInv, TypeOK
<1>15. ASSUME NEW p \in Processes, StoreFails(p) PROVE PinInv'
  BY <1>15 DEF StoreFails, EndPass, Idle, Trouble, store, work, PinInv,
        Indexed, Busy, Processes, TypeInv, TypeOK
<1>16. CASE Rebuild
  BY <1>16 DEF Rebuild, ClearIndex, Trouble, Spoken, Pinned, PinInv, Indexed,
        Busy, Processes, TypeInv, TypeOK
<1>17. CASE Requeue
  BY <1>17 DEF Requeue, QueueEverything, AddToQueue, Spoken, Indexed, store,
        PinInv, Busy, Processes, TypeInv, TypeOK
<1>18. CASE Forget
  BY <1>18 DEF Forget, Erase, Dequeue, Kept, Trouble, PinInv, Indexed, Busy,
        Processes, TypeInv, TypeOK
<1>19. CASE Sweep
  BY <1>19 DEF Sweep, Spoken, store, PinInv, Indexed, Busy, Processes,
        TypeInv, TypeOK
<1>20. CASE Unpin
  BY <1>20 DEF Unpin, Pinned, Indexed, work, PinInv, Busy, Processes, TypeInv,
        TypeOK
<1>21. CASE AdminFails
  BY <1>21 DEF AdminFails, Trouble, store, work, PinInv, Indexed, Busy,
        Processes, TypeInv, TypeOK
<1>22. ASSUME NEW m \in Models, StartServer(m) PROVE PinInv'
  BY <1>22 DEF StartServer, Up, store, work, PinInv, Indexed, Busy, Processes,
        TypeInv, TypeOK
<1>23. ASSUME NEW m \in Models, StartCommand(m) PROVE PinInv'
  BY <1>23 DEF StartCommand, Trouble, store, work, PinInv, Indexed, Busy,
        Processes, TypeInv, TypeOK
<1>24. CASE StopServer
  BY <1>24 DEF StopServer, Up, Trouble, Idle, Spoken, store, PinInv, Indexed,
        Busy, Processes, TypeInv, TypeOK
<1>25. CASE CommandClears
  BY <1>25 DEF CommandClears, ClearIndex, Spoken, Pinned, PinInv, Indexed,
        Busy, Processes, TypeInv, TypeOK
<1>26. CASE CommandQueues
  BY <1>26 DEF CommandQueues, QueueEverything, AddToQueue, Spoken, Indexed,
        store, PinInv, Busy, Processes, TypeInv, TypeOK
<1>27. CASE CommandEnds
  BY <1>27 DEF CommandEnds, EndPass, Idle, Trouble, store, work, PinInv,
        Indexed, Busy, Processes, TypeInv, TypeOK
<1>28. CASE UNCHANGED vars
  BY <1>28 DEF vars, store, work, procs, PinInv, Indexed, Busy, Processes,
        TypeInv, TypeOK
<1> QED
  BY <1>1, <1>2, <1>3, <1>4, <1>5, <1>6, <1>7, <1>8, <1>9, <1>10, <1>11,
        <1>12, <1>13, <1>14, <1>15, <1>16, <1>17, <1>18, <1>19, <1>20, <1>21,
        <1>22, <1>23, <1>24, <1>25, <1>26, <1>27, <1>28 DEF Next, IndexBatch

\* Every vector is of the pinned model, unless the pin was removed under
\* vectors or a batch, or two models were configured at once.
THEOREM PinNamesTheModel == Spec => []OneModel
<1>1. Init => PinInv
  BY DEF Init, PinInv, Indexed, Idle, Processes
<1>2. TypeInv /\ PinInv /\ [Next]_vars => PinInv'
  BY PinStep
<1>3. PinInv => OneModel
  BY DEF PinInv, OneModel
<1> QED
  BY <1>1, <1>2, <1>3, TypeInvariant, PTL DEF Spec

-----------------------------------------------------------------------------
(* Nothing falls between the conversation and the index.                   *)

\* Every step accounts for every message.
LEMMA AccountedStep == TypeInv /\ Accounted /\ [Next]_vars => Accounted'
<1> SUFFICES ASSUME TypeInv /\ Accounted, [Next]_vars PROVE Accounted'
  OBVIOUS
<1> USE RecallAssumption
<1>1. ASSUME NEW m \in Messages, AppendMessages(m) PROVE Accounted'
  BY <1>1 DEF AppendMessages, procs, Accounted, Indexed, Spoken, TypeInv,
        TypeOK
<1>2. ASSUME NEW m \in Messages, Enqueue(m) PROVE Accounted'
  BY <1>2 DEF Enqueue, AddToQueue, Kept, store, procs, Accounted, Indexed,
        Spoken, TypeInv, TypeOK
<1>3. ASSUME NEW m \in Messages, EnqueueFails(m) PROVE Accounted'
  BY <1>3 DEF EnqueueFails, Trouble, Spoken, store, procs, Accounted, Indexed,
        TypeInv, TypeOK
<1>4. ASSUME NEW m \in Messages, DeleteMessage(m) PROVE Accounted'
  BY <1>4 DEF DeleteMessage, Erase, Dequeue, Kept, procs, Accounted, Indexed,
        Spoken, TypeInv, TypeOK
<1>5. ASSUME NEW s \in Sessions, CreateSession(s) PROVE Accounted'
  BY <1>5 DEF CreateSession, work, procs, Accounted, Indexed, Spoken, TypeInv,
        TypeOK
<1>6. ASSUME NEW s \in Sessions, Purge(s) PROVE Accounted'
  BY <1>6 DEF Purge, Erase, Dequeue, Kept, procs, Accounted, Indexed, Spoken,
        TypeInv, TypeOK
<1>7. ASSUME NEW s \in Sessions, DeleteSession(s) PROVE Accounted'
  BY <1>7 DEF DeleteSession, Erase, Dequeue, Kept, procs, Accounted, Indexed,
        Spoken, TypeInv, TypeOK
<1>8. ASSUME NEW p \in Processes, Claim(p) PROVE Accounted'
  BY <1>8 DEF Claim, Batches, Claimable, Take, Dequeue, EndPass, Idle, store,
        Accounted, Indexed, Spoken, TypeInv, TypeOK
<1>9. ASSUME NEW p \in Processes, Embed(p) PROVE Accounted'
  BY <1>9 DEF Embed, store, work, Accounted, Indexed, Spoken, TypeInv, TypeOK
<1>10. ASSUME NEW p \in Processes, EmbedFails(p) PROVE Accounted'
  BY <1>10 DEF EmbedFails, EndPass, Idle, store, Accounted, Indexed, Spoken,
        TypeInv, TypeOK
<1>11. ASSUME NEW p \in Processes, SetPin(p) PROVE Accounted'
  BY <1>11 DEF SetPin, work, Accounted, Indexed, Spoken, TypeInv, TypeOK
<1>12. ASSUME NEW p \in Processes, ReadPin(p) PROVE Accounted'
  BY <1>12 DEF ReadPin, store, work, Accounted, Indexed, Spoken, TypeInv,
        TypeOK
<1>13. ASSUME NEW p \in Processes, Write(p) PROVE Accounted'
  BY <1>13 DEF Write, Dequeue, Idle, Accounted, Indexed, Spoken, TypeInv,
        TypeOK
<1>14. ASSUME NEW p \in Processes, Rollback(p) PROVE Accounted'
  BY <1>14 DEF Rollback, EndPass, Idle, store, work, Accounted, Indexed,
        Spoken, TypeInv, TypeOK
<1>15. ASSUME NEW p \in Processes, StoreFails(p) PROVE Accounted'
  BY <1>15 DEF StoreFails, EndPass, Idle, Trouble, store, work, Accounted,
        Indexed, Spoken, TypeInv, TypeOK
<1>16. CASE Rebuild
  BY <1>16 DEF Rebuild, ClearIndex, Trouble, Spoken, Pinned, Accounted,
        Indexed, TypeInv, TypeOK
<1>17. CASE Requeue
  BY <1>17 DEF Requeue, QueueEverything, AddToQueue, Spoken, Indexed, store,
        Accounted, TypeInv, TypeOK
<1>18. CASE Forget
  BY <1>18 DEF Forget, Erase, Dequeue, Kept, Trouble, Accounted, Indexed,
        Spoken, TypeInv, TypeOK
<1>19. CASE Sweep
  BY <1>19 DEF Sweep, Spoken, store, Accounted, Indexed, TypeInv, TypeOK
<1>20. CASE Unpin
  BY <1>20 DEF Unpin, Pinned, Indexed, work, Accounted, Spoken, TypeInv,
        TypeOK
<1>21. CASE AdminFails
  BY <1>21 DEF AdminFails, Trouble, store, work, Accounted, Indexed, Spoken,
        TypeInv, TypeOK
<1>22. ASSUME NEW m \in Models, StartServer(m) PROVE Accounted'
  BY <1>22 DEF StartServer, Up, store, work, Accounted, Indexed, Spoken,
        TypeInv, TypeOK
<1>23. ASSUME NEW m \in Models, StartCommand(m) PROVE Accounted'
  BY <1>23 DEF StartCommand, Trouble, store, work, Accounted, Indexed, Spoken,
        TypeInv, TypeOK
<1>24. CASE StopServer
  BY <1>24 DEF StopServer, Up, Trouble, Idle, Spoken, store, Accounted,
        Indexed, TypeInv, TypeOK
<1>25. CASE CommandClears
  BY <1>25 DEF CommandClears, ClearIndex, Spoken, Pinned, Accounted, Indexed,
        TypeInv, TypeOK
<1>26. CASE CommandQueues
  BY <1>26 DEF CommandQueues, QueueEverything, AddToQueue, Spoken, Indexed,
        store, Accounted, TypeInv, TypeOK
<1>27. CASE CommandEnds
  BY <1>27 DEF CommandEnds, EndPass, Idle, Trouble, store, work, Accounted,
        Indexed, Spoken, TypeInv, TypeOK
<1>28. CASE UNCHANGED vars
  BY <1>28 DEF vars, store, work, procs, Accounted, Indexed, Spoken, TypeInv,
        TypeOK
<1> QED
  BY <1>1, <1>2, <1>3, <1>4, <1>5, <1>6, <1>7, <1>8, <1>9, <1>10, <1>11,
        <1>12, <1>13, <1>14, <1>15, <1>16, <1>17, <1>18, <1>19, <1>20, <1>21,
        <1>22, <1>23, <1>24, <1>25, <1>26, <1>27, <1>28 DEF Next, IndexBatch

\* Every message to be indexed is indexed, queued, about to be queued, or
\* owed a backfill.
THEOREM NothingLost == Spec => []Accounted
<1>1. Init => Accounted
  BY DEF Init, Accounted, Indexed, Spoken
<1>2. TypeInv /\ Accounted /\ [Next]_vars => Accounted'
  BY AccountedStep
<1> QED
  BY <1>1, <1>2, TypeInvariant, PTL DEF Spec

=============================================================================
