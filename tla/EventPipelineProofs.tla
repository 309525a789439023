------------------------ MODULE EventPipelineProofs ------------------------
(***************************************************************************)
(* Theorems about OutboxRelay and EventPipeline for every set of events    *)
(* and requests and every number of retries and failures.                  *)
(***************************************************************************)
EXTENDS EventPipeline, FiniteSetTheorems, TLAPS

\* The invariant holds before anything has happened.
LEMMA InitIndInv == Init => IndInv
<1> SUFFICES ASSUME Init PROVE IndInv
  OBVIOUS
<1> USE DEF Init, RelayInit
<1>1. TypeOK
  BY DEF TypeOK, RelayTypeOK, Stages, Ingesters
<1>2. StoredEvents = {} /\ Cardinality(StoredEvents) = 0
  <2>1. StoredEvents = {}
    BY DEF StoredEvents, Stored
  <2> QED
    BY <2>1, FS_EmptySet
<1>3. SentIsInLog /\ OffsetsInOrder /\ EventsInHand /\ OneInsertOfEach /\ RowOnce
  BY DEF SentIsInLog, OffsetsInOrder, EventsInHand, OneInsertOfEach, RowOnce, Active, HoldsEvent, Ingesters
<1>4. HandledBeforePosition /\ ReplayedIsStored
  BY DEF HandledBeforePosition, ReplayedIsStored
<1>5. CountsAreBehind /\ TaskAloneCountsAll /\ TaskAloneReadsLast
  BY <1>2 DEF CountsAreBehind, TaskAloneCountsAll, TaskAloneReadsLast, Ingesters
<1> QED
  BY <1>1, <1>3, <1>4, <1>5 DEF IndInv

-----------------------------------------------------------------------------
(* The relay *)

\* The topic only grows, by one record at a time.
LEMMA LogGrows ==
  ASSUME TypeOK, RelayNext
  PROVE  /\ log' \in Seq(Events)
         /\ Len(log') >= Len(log)
         /\ \A p \in 1..Len(log) : log'[p] = log[p]
<1> USE DEF TypeOK, RelayTypeOK
<1>1. CASE UNCHANGED log
  BY <1>1
<1>2. CASE \E e \in Events : log' = Append(log, e)
  BY <1>2
<1> QED
  BY <1>1, <1>2 DEF RelayNext, RelayProgress, Emit, SelectBatch, Send, CommitBatch, RelayFails, RelayCrash, RelayRestart

\* A step of the relay keeps its rows, its batch and the topic of their types, and a
\* row is marked only after its event was sent.
LEMMA RelayStep ==
  ASSUME TypeOK, SentIsInLog, RelayNext
  PROVE  RelayTypeOK' /\ SentIsInLog'
<1> USE DEF RelayTypeOK, SentIsInLog
<1>0. RelayTypeOK
  BY DEF TypeOK
<1>1. ASSUME NEW e \in Events, Emit(e) PROVE RelayTypeOK' /\ SentIsInLog'
  BY <1>0, <1>1 DEF Emit
<1>2. CASE SelectBatch
  BY <1>0, <1>2 DEF SelectBatch, Waiting
<1>3. ASSUME NEW e \in Events, Send(e) PROVE RelayTypeOK' /\ SentIsInLog'
  BY <1>0, <1>3 DEF Send, Turn
<1>4. CASE CommitBatch
  BY <1>0, <1>4 DEF CommitBatch, MarkPublished
<1>5. CASE RelayFails
  <2>1. RelayTypeOK' /\ (UNCHANGED <<row, log>> => SentIsInLog')
    BY <1>0, <1>5, RelayAssumption DEF RelayFails, BatchLost, OneMoreFault, TaskGoesOn, MarkPublished, Turn
  <2>2. ASSUME NEW e \in Events, log' = Append(log, e), UNCHANGED row PROVE SentIsInLog'
    BY <1>0, <1>5, <2>2 DEF RelayFails, BatchLost
  <2>3. ASSUME sent = taken, MarkPublished(taken), UNCHANGED log PROVE SentIsInLog'
    BY <1>0, <1>5, <2>3 DEF RelayFails, BatchLost, MarkPublished
  <2> QED
    BY <1>5, <2>1, <2>2, <2>3 DEF RelayFails
<1>6. CASE RelayCrash
  BY <1>0, <1>6, RelayAssumption DEF RelayCrash, BatchLost, OneMoreFault
<1>7. CASE RelayRestart
  BY <1>0, <1>7 DEF RelayRestart
<1> QED
  BY <1>1, <1>2, <1>3, <1>4, <1>5, <1>6, <1>7 DEF RelayNext, RelayProgress

\* A row marked as published was sent, also when batches are lost half way.
LEMMA RelayKeepsIndInv ==
  ASSUME IndInv, RelayNext, UNCHANGED consumerVars
  PROVE  IndInv'
<1> USE DEF IndInv
<1>0. UNCHANGED <<service, loop, offset, position, upto, attempt, stage, event, read, letter>>
  BY DEF consumerVars, taskVars, txVars
<1>1. UNCHANGED <<rows, counter, parked, replayed>>
  BY DEF consumerVars, storeVars
<1>2. TypeOK' /\ SentIsInLog'
  BY <1>0, <1>1, RelayStep DEF TypeOK
<1>3. OffsetsInOrder' /\ EventsInHand' /\ HandledBeforePosition' /\ ReplayedIsStored'
  <2>1. Len(log) \in Nat /\ Len(log') \in Nat
    BY <1>2 DEF TypeOK, RelayTypeOK
  <2>2. OffsetsInOrder'
    BY <1>0, <1>1, <2>1, LogGrows DEF OffsetsInOrder, TypeOK
  <2>3. EventsInHand'
    <3>1. Active(Loop) => position \in 1..Len(log)
      BY <2>1 DEF EventsInHand, OffsetsInOrder, TypeOK
    <3>2. \A i \in Ingesters : letter[i] > 0 => letter[i] \in parked /\ letter[i] \in 1..Len(log)
      BY DEF EventsInHand, OffsetsInOrder
    <3> QED
      BY <1>0, <1>1, <2>1, <3>1, <3>2, LogGrows DEF EventsInHand, Active, Ingesters
  <2>4. HandledBeforePosition'
    <3>1. \A p \in 1..(position - 1) : p \in 1..Len(log)
      BY <2>1 DEF OffsetsInOrder, TypeOK
    <3> QED
      BY <1>0, <1>1, <3>1, LogGrows DEF HandledBeforePosition, Stored
  <2>5. ReplayedIsStored'
    <3>1. \A p \in replayed : p \in 1..Len(log)
      BY DEF OffsetsInOrder, TypeOK
    <3> QED
      BY <1>1, <3>1, LogGrows DEF ReplayedIsStored, Stored
  <2> QED
    BY <2>2, <2>3, <2>4, <2>5
<1>4. OneInsertOfEach' /\ RowOnce'
  BY <1>0, <1>1 DEF OneInsertOfEach, RowOnce, HoldsEvent, Stored
<1>5. StoredEvents' = StoredEvents
  BY <1>1 DEF StoredEvents, Stored
<1>6. CountsAreBehind' /\ TaskAloneCountsAll' /\ TaskAloneReadsLast'
  BY <1>0, <1>1, <1>5 DEF CountsAreBehind, TaskAloneCountsAll, TaskAloneReadsLast
<1> QED
  BY <1>2, <1>3, <1>4, <1>6

-----------------------------------------------------------------------------
(* The consumer *)

\* There are only so many stored events.
LEMMA StoredFinite ==
  ASSUME TypeOK
  PROVE  IsFiniteSet(StoredEvents) /\ Cardinality(StoredEvents) \in Nat
<1>1. StoredEvents \subseteq Events
  BY DEF StoredEvents
<1> QED
  BY <1>1, RelayAssumption, FS_Subset, FS_CardinalityType

\* What a step keeps that touches neither the topic nor the store.
LEMMA StoreUntouched ==
  ASSUME IndInv, UNCHANGED <<relayVars, rows, replayed>>
  PROVE  /\ SentIsInLog' /\ RowOnce' /\ ReplayedIsStored'
         /\ StoredEvents' = StoredEvents
         /\ Cardinality(StoredEvents) \in Nat
<1>1. SentIsInLog' /\ RowOnce' /\ ReplayedIsStored'
  BY DEF IndInv, relayVars, SentIsInLog, RowOnce, ReplayedIsStored, Stored
<1>2. StoredEvents' = StoredEvents
  BY DEF StoredEvents, Stored
<1> QED
  BY <1>1, <1>2, StoredFinite DEF IndInv

\* Ingester i has left its transaction.
Closed(i) ==
  \E label \in {"idle", "parking", "done"} : Close(i, label) /\ (i # Loop => label = "done")

\* What is known of everybody's transactions once i has left its own.
LEMMA ClosedState ==
  ASSUME TypeOK, NEW i \in Ingesters, Closed(i)
  PROVE  /\ stage' \in [Ingesters -> Stages]
         /\ event' \in [Ingesters -> Events \cup {0}]
         /\ read' \in [Ingesters -> Nat]
         /\ letter' \in [Ingesters -> Nat]
         /\ stage'[i] \in {"idle", "parking", "done"}
         /\ i \in Requests => stage'[i] = "done"
         /\ read'[i] = 0 /\ letter'[i] = 0
         /\ \A j \in Ingesters \ {i} :
              stage'[j] = stage[j] /\ event'[j] = event[j] /\ read'[j] = read[j] /\ letter'[j] = letter[j]
<1>1. PICK label \in {"idle", "parking", "done"} : Close(i, label) /\ (i # Loop => label = "done")
  BY DEF Closed
<1>2. label \in Stages
  BY DEF Stages
<1> QED
  BY <1>1, <1>2, PipelineAssumption DEF TypeOK, Close

\* An error takes its ingester out of its transaction.
LEMMA AbortCloses ==
  ASSUME TypeOK, NEW i \in Ingesters, Abort(i)
  PROVE  Closed(i) /\ attempt' \in Nat
<1>1. Closed(i)
  BY DEF Abort, Closed
<1>2. attempt' \in Nat
  BY DEF Abort, TypeOK
<1> QED
  BY <1>1, <1>2

\* A transaction that leaves nothing disturbs nobody.
LEMMA ClosedKeepsIndInv ==
  ASSUME IndInv, NEW i \in Ingesters, Active(i), Closed(i), attempt' \in Nat, faults' \in Nat,
         UNCHANGED <<relayVars, service, taskVars, storeVars>>
  PROVE  IndInv'
<1> USE DEF IndInv
<1>0. UNCHANGED <<guarded, row, relay, taken, sent, log, loop, offset, position, upto, rows, counter, parked, replayed>>
  BY DEF relayVars, taskVars, storeVars
<1>l. Loop \in Ingesters /\ Loop \notin Requests /\ Requests \subseteq Ingesters
  BY PipelineAssumption DEF Ingesters
<1>s. StoredEvents' = StoredEvents /\ Cardinality(StoredEvents) \in Nat
  BY <1>0, StoredFinite DEF StoredEvents, Stored
<1>1. TypeOK' /\ SentIsInLog'
  BY <1>0, ClosedState DEF TypeOK, RelayTypeOK, SentIsInLog
<1>2. OffsetsInOrder'
  BY <1>0 DEF OffsetsInOrder
<1>3. EventsInHand'
  <2>1. \A j \in Ingesters : Active(j)' => j # i /\ Active(j) /\ event'[j] = event[j]
    BY ClosedState DEF Active
  <2>2. \A j \in Ingesters : letter'[j] > 0 => j # i /\ letter'[j] = letter[j] /\ event'[j] = event[j]
    BY ClosedState
  <2>3. letter'[Loop] = 0
    BY <1>l, ClosedState DEF EventsInHand
  <2>4. stage'[Loop] = "parking" => position <= upto
    BY <1>l, ClosedState DEF EventsInHand
  <2>5. \A j \in Ingesters : letter'[j] > 0 => letter'[j] \in parked' /\ event'[j] = log'[letter'[j]]
    BY <1>0, <2>2 DEF EventsInHand
  <2> QED
    BY <1>0, <1>l, <2>1, <2>3, <2>4, <2>5 DEF EventsInHand
<1>4. OneInsertOfEach'
  <2>1. \A j \in Ingesters : \A e \in Events : HoldsEvent(j, e)' => HoldsEvent(j, e)
    BY ClosedState DEF HoldsEvent
  <2>2. \A j \in Ingesters : stage'[j] = "ready" => j # i /\ stage[j] = stage'[j] /\ event'[j] = event[j]
    BY ClosedState
  <2>3. \A e \in Events : Stored(e)' = Stored(e)
    BY <1>0 DEF Stored
  <2>4. \A j \in Ingesters : stage'[j] = "ready" => Stored(event[j])'
    BY <1>0, <2>2 DEF OneInsertOfEach, Stored
  <2> QED
    BY <2>1, <2>2, <2>3, <2>4 DEF OneInsertOfEach
<1>5. RowOnce' /\ HandledBeforePosition' /\ ReplayedIsStored'
  BY <1>0 DEF RowOnce, HandledBeforePosition, ReplayedIsStored, Stored
<1>6. CountsAreBehind'
  BY <1>0, <1>s, ClosedState DEF CountsAreBehind
<1>7. TaskAloneCountsAll' /\ TaskAloneReadsLast'
  BY <1>0, <1>l, <1>s, ClosedState DEF TaskAloneCountsAll, TaskAloneReadsLast, Active
<1> QED
  BY <1>1, <1>2, <1>3, <1>4, <1>5, <1>6, <1>7

\* An insert is of an event that is not stored and that nobody else inserts.
LEMMA InsertKeepsIndInv ==
  ASSUME IndInv, NEW i \in Ingesters, Insert(i), UNCHANGED relayVars, faults' \in Nat
  PROVE  IndInv'
<1> USE DEF IndInv
<1>a. CASE Abort(i)
  <2>1. Active(i) /\ UNCHANGED <<service, taskVars, storeVars>>
    BY DEF Insert, Active
  <2> QED
    BY <1>a, <2>1, AbortCloses, ClosedKeepsIndInv
<1>b. CASE Inserted(i) /\ UNCHANGED attempt /\ (\A j \in Ingesters : ~HoldsEvent(j, event[i])) /\ ~Stored(event[i])
  <2>0. /\ UNCHANGED <<guarded, row, relay, taken, sent, log>>
        /\ Loop \in Ingesters
        /\ \A q \in Requests : q \in Ingesters /\ q # Loop
    BY PipelineAssumption DEF Ingesters, relayVars
  <2>u. UNCHANGED <<service, loop, offset, position, upto, attempt, rows, counter, parked, replayed, event, read, letter>>
    BY <1>b DEF Insert, Inserted, Goto, taskVars, txVars, storeVars
  <2>q. /\ SentIsInLog' /\ RowOnce' /\ ReplayedIsStored'
        /\ StoredEvents' = StoredEvents /\ Cardinality(StoredEvents) \in Nat
    BY <2>u, StoreUntouched
  <2>1. TypeOK'
    BY <1>b, <2>0, <2>u DEF Insert, Inserted, Goto, TypeOK, RelayTypeOK, Stages
  <2>2. OffsetsInOrder'
    BY <1>b, <2>0, <2>u DEF Insert, Inserted, Goto, OffsetsInOrder, TypeOK
  <2>3. EventsInHand'
    BY <1>b, <2>0, <2>u DEF Insert, Inserted, Goto, EventsInHand, OffsetsInOrder, Active, TypeOK
  <2>4. OneInsertOfEach'
    BY <1>b, <2>0, <2>u DEF Insert, Inserted, Goto, OneInsertOfEach, HoldsEvent, Stored, TypeOK
  <2>5. HandledBeforePosition'
    BY <1>b, <2>0, <2>u DEF Insert, Inserted, Goto, HandledBeforePosition, Stored, OffsetsInOrder, TypeOK
  <2>6. CountsAreBehind' /\ TaskAloneCountsAll' /\ TaskAloneReadsLast'
    BY <1>b, <2>0, <2>u, <2>q DEF Insert, Inserted, Goto, CountsAreBehind, TaskAloneCountsAll, TaskAloneReadsLast, TypeOK
  <2> QED
    BY <2>q, <2>1, <2>2, <2>3, <2>4, <2>5, <2>6
<1> QED
  BY <1>a, <1>b DEF Insert

\* An ingester that is alone writes what follows the counter.
LEMMA WriteCounterKeepsIndInv ==
  ASSUME IndInv, NEW i \in Ingesters, WriteCounter(i), UNCHANGED relayVars, faults' \in Nat
  PROVE  IndInv'
<1> USE DEF IndInv
<1>a. CASE Abort(i)
  <2>1. Active(i) /\ UNCHANGED <<service, taskVars, storeVars>>
    BY DEF WriteCounter, Active
  <2> QED
    BY <1>a, <2>1, AbortCloses, ClosedKeepsIndInv
<1>b. CASE Goto(i, "flushed") /\ UNCHANGED attempt /\ (read[i] = 0 => counter = 0)
  <2>0. /\ UNCHANGED <<guarded, row, relay, taken, sent, log>>
        /\ Loop \in Ingesters
        /\ \A q \in Requests : q \in Ingesters /\ q # Loop
    BY PipelineAssumption DEF Ingesters, relayVars
  <2>u. UNCHANGED <<service, loop, offset, position, upto, attempt, rows, counter, parked, replayed, event, read, letter>>
    BY <1>b DEF WriteCounter, Goto, taskVars, txVars, storeVars
  <2>q. /\ SentIsInLog' /\ RowOnce' /\ ReplayedIsStored'
        /\ StoredEvents' = StoredEvents /\ Cardinality(StoredEvents) \in Nat
    BY <2>u, StoreUntouched
  <2>1. TypeOK'
    BY <1>b, <2>0, <2>u DEF WriteCounter, Goto, TypeOK, RelayTypeOK, Stages
  <2>2. OffsetsInOrder'
    BY <1>b, <2>0, <2>u DEF WriteCounter, Goto, OffsetsInOrder, TypeOK
  <2>3. EventsInHand'
    BY <1>b, <2>0, <2>u DEF WriteCounter, Goto, EventsInHand, OffsetsInOrder, Active, TypeOK
  <2>4. OneInsertOfEach'
    BY <1>b, <2>0, <2>u DEF WriteCounter, Goto, OneInsertOfEach, HoldsEvent, Stored, TypeOK
  <2>5. HandledBeforePosition'
    BY <1>b, <2>0, <2>u DEF WriteCounter, Goto, HandledBeforePosition, Stored, OffsetsInOrder, TypeOK
  <2>6. CountsAreBehind' /\ TaskAloneCountsAll' /\ TaskAloneReadsLast'
    BY <1>b, <2>0, <2>u, <2>q DEF WriteCounter, Goto, CountsAreBehind, TaskAloneCountsAll, TaskAloneReadsLast, TypeOK
  <2> QED
    BY <2>q, <2>1, <2>2, <2>3, <2>4, <2>5, <2>6
<1> QED
  BY <1>a, <1>b DEF WriteCounter

\* What is read is at most the number of stored events.
LEMMA ReadCounterKeepsIndInv ==
  ASSUME IndInv, NEW i \in Ingesters, ReadCounter(i), UNCHANGED relayVars, faults' \in Nat
  PROVE  IndInv'
<1> USE DEF IndInv, ReadCounter, taskVars, storeVars
<1>0. /\ UNCHANGED <<guarded, row, relay, taken, sent, log>>
      /\ Loop \in Ingesters
      /\ \A q \in Requests : q \in Ingesters /\ q # Loop
  BY PipelineAssumption DEF Ingesters, relayVars
<1>l. Len(log) \in Nat /\ Len(log') = Len(log)
  BY <1>0 DEF TypeOK, RelayTypeOK
<1>q. /\ SentIsInLog' /\ RowOnce' /\ ReplayedIsStored'
      /\ StoredEvents' = StoredEvents /\ Cardinality(StoredEvents) \in Nat
  BY StoreUntouched
<1>1. TypeOK'
  BY <1>0, <1>l DEF TypeOK, RelayTypeOK, Stages
<1>2. OffsetsInOrder'
  BY <1>0, <1>l DEF OffsetsInOrder, TypeOK
<1>3. EventsInHand'
  BY <1>0, <1>l DEF EventsInHand, OffsetsInOrder, Active, TypeOK
<1>4. OneInsertOfEach'
  BY <1>0, <1>l DEF OneInsertOfEach, HoldsEvent, Stored, TypeOK
<1>5. HandledBeforePosition'
  BY <1>0, <1>l DEF HandledBeforePosition, Stored, OffsetsInOrder, TypeOK
<1>6. CountsAreBehind' /\ TaskAloneCountsAll' /\ TaskAloneReadsLast'
  BY <1>0, <1>q DEF CountsAreBehind, TaskAloneCountsAll, TaskAloneReadsLast, TypeOK
<1> QED
  BY <1>q, <1>1, <1>2, <1>3, <1>4, <1>5, <1>6

\* Fetching moves only the end of the batch.
LEMMA FetchKeepsIndInv ==
  ASSUME IndInv, Fetch, UNCHANGED relayVars, faults' \in Nat
  PROVE  IndInv'
<1> USE DEF IndInv, Fetch, Between, taskVars, txVars, storeVars
<1>0. /\ UNCHANGED <<guarded, row, relay, taken, sent, log>>
      /\ Loop \in Ingesters
      /\ \A q \in Requests : q \in Ingesters /\ q # Loop
  BY PipelineAssumption DEF Ingesters, relayVars
<1>l. Len(log) \in Nat /\ Len(log') = Len(log)
  BY <1>0 DEF TypeOK, RelayTypeOK
<1>q. /\ SentIsInLog' /\ RowOnce' /\ ReplayedIsStored'
      /\ StoredEvents' = StoredEvents /\ Cardinality(StoredEvents) \in Nat
  BY StoreUntouched
<1>1. TypeOK'
  BY <1>0, <1>l DEF TypeOK, RelayTypeOK, Stages
<1>2. OffsetsInOrder'
  <2>1. upto' \in Nat /\ position <= upto'
    BY <1>l DEF TypeOK
  <2>2. offset \in Nat /\ position \in Nat /\ offset < position
    BY DEF TypeOK, OffsetsInOrder
  <2>3. \A u \in Nat : position <= u => offset <= u /\ position <= u + 1
    BY <2>2
  <2>4. upto' <= Len(log)
    BY <1>l DEF TypeOK
  <2>5. parked' \subseteq 1..Len(log')
    BY <1>l DEF OffsetsInOrder
  <2> QED
    BY <1>l, <2>1, <2>2, <2>3, <2>4, <2>5 DEF OffsetsInOrder
<1>3. EventsInHand'
  BY <1>0, <1>l DEF EventsInHand, OffsetsInOrder, Active, TypeOK
<1>4. OneInsertOfEach'
  BY <1>0, <1>l DEF OneInsertOfEach, HoldsEvent, Stored, TypeOK
<1>5. HandledBeforePosition'
  BY <1>0, <1>l DEF HandledBeforePosition, Stored, OffsetsInOrder, TypeOK
<1>6. CountsAreBehind' /\ TaskAloneCountsAll' /\ TaskAloneReadsLast'
  BY <1>0, <1>q DEF CountsAreBehind, TaskAloneCountsAll, TaskAloneReadsLast, TypeOK
<1> QED
  BY <1>q, <1>1, <1>2, <1>3, <1>4, <1>5, <1>6

\* The task begins with the record at its position.
LEMMA HandleKeepsIndInv ==
  ASSUME IndInv, Handle, UNCHANGED relayVars, faults' \in Nat
  PROVE  IndInv'
<1> USE DEF IndInv, Handle, Between, Begin, taskVars, storeVars
<1>0. /\ UNCHANGED <<guarded, row, relay, taken, sent, log>>
      /\ Loop \in Ingesters
      /\ \A q \in Requests : q \in Ingesters /\ q # Loop
  BY PipelineAssumption DEF Ingesters, relayVars
<1>l. Len(log) \in Nat /\ Len(log') = Len(log)
  BY <1>0 DEF TypeOK, RelayTypeOK
<1>q. /\ SentIsInLog' /\ RowOnce' /\ ReplayedIsStored'
      /\ StoredEvents' = StoredEvents /\ Cardinality(StoredEvents) \in Nat
  BY StoreUntouched
<1>1. TypeOK'
  <2>1. position \in 1..Len(log) /\ log[position] \in Events
    BY <1>0 DEF OffsetsInOrder, TypeOK, RelayTypeOK
  <2> QED
    BY <1>0, <1>l, <1>q, <2>1 DEF TypeOK, RelayTypeOK, Stages
<1>2. OffsetsInOrder'
  BY <1>0, <1>l DEF OffsetsInOrder, TypeOK
<1>3. EventsInHand'
  <2>1. position \in 1..Len(log) /\ log[position] \in Events
    BY <1>0 DEF OffsetsInOrder, TypeOK, RelayTypeOK
  <2> QED
    BY <1>0, <1>l, <1>q, <2>1 DEF EventsInHand, OffsetsInOrder, Active, TypeOK
<1>4. OneInsertOfEach'
  BY <1>0, <1>l DEF OneInsertOfEach, HoldsEvent, Stored, TypeOK
<1>5. HandledBeforePosition'
  BY <1>0, <1>l DEF HandledBeforePosition, Stored, OffsetsInOrder, TypeOK
<1>6. CountsAreBehind' /\ TaskAloneCountsAll' /\ TaskAloneReadsLast'
  BY <1>0, <1>q DEF CountsAreBehind, TaskAloneCountsAll, TaskAloneReadsLast, TypeOK
<1> QED
  BY <1>q, <1>1, <1>2, <1>3, <1>4, <1>5, <1>6

\* A record that is put aside has its dead letter.
LEMMA ParkKeepsIndInv ==
  ASSUME IndInv, Park, UNCHANGED relayVars, faults' \in Nat
  PROVE  IndInv'
<1> USE DEF IndInv, Park, Goto, txVars, taskVars, storeVars
<1>0. /\ UNCHANGED <<guarded, row, relay, taken, sent, log>>
      /\ Loop \in Ingesters
      /\ \A q \in Requests : q \in Ingesters /\ q # Loop
  BY PipelineAssumption DEF Ingesters, relayVars
<1>l. Len(log) \in Nat /\ Len(log') = Len(log)
  BY <1>0 DEF TypeOK, RelayTypeOK
<1>q. /\ SentIsInLog' /\ RowOnce' /\ ReplayedIsStored'
      /\ StoredEvents' = StoredEvents /\ Cardinality(StoredEvents) \in Nat
  BY StoreUntouched
<1>1. TypeOK'
  BY <1>0, <1>l DEF TypeOK, RelayTypeOK, Stages
<1>2. OffsetsInOrder'
  <2>1. offset' \in Nat /\ position' \in Nat /\ upto' \in Nat
    BY DEF TypeOK
  <2>2. offset' <= upto' /\ offset' < position' /\ position' <= upto' + 1 /\ upto' <= Len(log)
    BY <1>l DEF TypeOK, OffsetsInOrder, EventsInHand
  <2>3. parked' \subseteq 1..Len(log)
    <3>1. stage[Loop] = "parking" => position \in 1..Len(log)
      BY <1>l DEF TypeOK, OffsetsInOrder, EventsInHand
    <3> QED
      BY <3>1 DEF OffsetsInOrder
  <2> QED
    BY <1>l, <2>2, <2>3 DEF OffsetsInOrder
<1>3. EventsInHand'
  BY <1>0, <1>l DEF EventsInHand, OffsetsInOrder, Active, TypeOK
<1>4. OneInsertOfEach'
  BY <1>0, <1>l DEF OneInsertOfEach, HoldsEvent, Stored, TypeOK
<1>5. HandledBeforePosition'
  BY <1>0, <1>l DEF HandledBeforePosition, Stored, OffsetsInOrder, TypeOK
<1>6. CountsAreBehind' /\ TaskAloneCountsAll' /\ TaskAloneReadsLast'
  BY <1>0, <1>q DEF CountsAreBehind, TaskAloneCountsAll, TaskAloneReadsLast, TypeOK
<1> QED
  BY <1>q, <1>1, <1>2, <1>3, <1>4, <1>5, <1>6

\* Only handled records are committed.
LEMMA CommitOffsetsKeepsIndInv ==
  ASSUME IndInv, CommitOffsets, UNCHANGED relayVars, faults' \in Nat
  PROVE  IndInv'
<1> USE DEF IndInv, CommitOffsets, Between, taskVars, txVars, storeVars
<1>0. /\ UNCHANGED <<guarded, row, relay, taken, sent, log>>
      /\ Loop \in Ingesters
      /\ \A q \in Requests : q \in Ingesters /\ q # Loop
  BY PipelineAssumption DEF Ingesters, relayVars
<1>l. Len(log) \in Nat /\ Len(log') = Len(log)
  BY <1>0 DEF TypeOK, RelayTypeOK
<1>q. /\ SentIsInLog' /\ RowOnce' /\ ReplayedIsStored'
      /\ StoredEvents' = StoredEvents /\ Cardinality(StoredEvents) \in Nat
  BY StoreUntouched
<1>1. TypeOK'
  BY <1>0, <1>l DEF TypeOK, RelayTypeOK, Stages
<1>2. OffsetsInOrder'
  BY <1>0, <1>l DEF OffsetsInOrder, TypeOK
<1>3. EventsInHand'
  BY <1>0, <1>l DEF EventsInHand, OffsetsInOrder, Active, TypeOK
<1>4. OneInsertOfEach'
  BY <1>0, <1>l DEF OneInsertOfEach, HoldsEvent, Stored, TypeOK
<1>5. HandledBeforePosition'
  BY <1>0, <1>l DEF HandledBeforePosition, Stored, OffsetsInOrder, TypeOK
<1>6. CountsAreBehind' /\ TaskAloneCountsAll' /\ TaskAloneReadsLast'
  BY <1>0, <1>q DEF CountsAreBehind, TaskAloneCountsAll, TaskAloneReadsLast, TypeOK
<1> QED
  BY <1>q, <1>1, <1>2, <1>3, <1>4, <1>5, <1>6

\* A restart changes nothing but the task.
LEMMA ConsumerRestartKeepsIndInv ==
  ASSUME IndInv, ConsumerRestart, UNCHANGED relayVars, faults' \in Nat
  PROVE  IndInv'
<1> USE DEF IndInv, ConsumerRestart, taskVars, txVars, storeVars
<1>0. /\ UNCHANGED <<guarded, row, relay, taken, sent, log>>
      /\ Loop \in Ingesters
      /\ \A q \in Requests : q \in Ingesters /\ q # Loop
  BY PipelineAssumption DEF Ingesters, relayVars
<1>l. Len(log) \in Nat /\ Len(log') = Len(log)
  BY <1>0 DEF TypeOK, RelayTypeOK
<1>q. /\ SentIsInLog' /\ RowOnce' /\ ReplayedIsStored'
      /\ StoredEvents' = StoredEvents /\ Cardinality(StoredEvents) \in Nat
  BY StoreUntouched
<1>1. TypeOK'
  BY <1>0, <1>l DEF TypeOK, RelayTypeOK, Stages
<1>2. OffsetsInOrder'
  BY <1>0 DEF OffsetsInOrder
<1>3. EventsInHand'
  BY <1>0, <1>l DEF EventsInHand, OffsetsInOrder, Active, TypeOK
<1>4. OneInsertOfEach'
  BY <1>0, <1>l DEF OneInsertOfEach, HoldsEvent, Stored, TypeOK
<1>5. HandledBeforePosition'
  BY <1>0, <1>l DEF HandledBeforePosition, Stored, OffsetsInOrder, TypeOK
<1>6. CountsAreBehind' /\ TaskAloneCountsAll' /\ TaskAloneReadsLast'
  BY <1>0, <1>q DEF CountsAreBehind, TaskAloneCountsAll, TaskAloneReadsLast, TypeOK
<1> QED
  BY <1>q, <1>1, <1>2, <1>3, <1>4, <1>5, <1>6

\* A task that ends leaves no transaction behind.
LEMMA TaskFailsKeepsIndInv ==
  ASSUME IndInv, TaskFails, UNCHANGED relayVars, faults' \in Nat
  PROVE  IndInv'
<1> USE DEF IndInv, TaskFails, OneMoreFault, Goto, txVars, taskVars, storeVars
<1>0. /\ UNCHANGED <<guarded, row, relay, taken, sent, log>>
      /\ Loop \in Ingesters
      /\ \A q \in Requests : q \in Ingesters /\ q # Loop
  BY PipelineAssumption DEF Ingesters, relayVars
<1>l. Len(log) \in Nat /\ Len(log') = Len(log)
  BY <1>0 DEF TypeOK, RelayTypeOK
<1>q. /\ SentIsInLog' /\ RowOnce' /\ ReplayedIsStored'
      /\ StoredEvents' = StoredEvents /\ Cardinality(StoredEvents) \in Nat
  BY StoreUntouched
<1>1. TypeOK'
  BY <1>0, <1>l DEF TypeOK, RelayTypeOK, Stages
<1>2. OffsetsInOrder'
  <2>1. offset' \in Nat /\ position' \in Nat /\ upto' \in Nat
    BY DEF TypeOK
  <2>2. offset' <= upto' /\ offset' < position' /\ position' <= upto' + 1 /\ upto' <= Len(log)
    BY <1>l DEF TypeOK, OffsetsInOrder, EventsInHand
  <2>3. parked' \subseteq 1..Len(log)
    <3>1. stage[Loop] = "parking" => position \in 1..Len(log)
      BY <1>l DEF TypeOK, OffsetsInOrder, EventsInHand
    <3> QED
      BY <3>1 DEF OffsetsInOrder
  <2> QED
    BY <1>l, <2>2, <2>3 DEF OffsetsInOrder
<1>3. EventsInHand'
  BY <1>0, <1>l DEF EventsInHand, OffsetsInOrder, Active, TypeOK
<1>4. OneInsertOfEach'
  BY <1>0, <1>l DEF OneInsertOfEach, HoldsEvent, Stored, TypeOK
<1>5. HandledBeforePosition'
  BY <1>0, <1>l DEF HandledBeforePosition, Stored, OffsetsInOrder, TypeOK
<1>6. CountsAreBehind' /\ TaskAloneCountsAll' /\ TaskAloneReadsLast'
  BY <1>0, <1>q DEF CountsAreBehind, TaskAloneCountsAll, TaskAloneReadsLast, TypeOK
<1> QED
  BY <1>q, <1>1, <1>2, <1>3, <1>4, <1>5, <1>6

\* A request takes any event that was committed.
LEMMA PostKeepsIndInv ==
  ASSUME IndInv, NEW i \in Requests, Post(i), UNCHANGED relayVars, faults' \in Nat
  PROVE  IndInv'
<1> USE DEF IndInv, Post, Begin, taskVars, storeVars
<1>0. /\ UNCHANGED <<guarded, row, relay, taken, sent, log>>
      /\ Loop \in Ingesters
      /\ \A q \in Requests : q \in Ingesters /\ q # Loop
  BY PipelineAssumption DEF Ingesters, relayVars
<1>l. Len(log) \in Nat /\ Len(log') = Len(log)
  BY <1>0 DEF TypeOK, RelayTypeOK
<1>q. /\ SentIsInLog' /\ RowOnce' /\ ReplayedIsStored'
      /\ StoredEvents' = StoredEvents /\ Cardinality(StoredEvents) \in Nat
  BY StoreUntouched
<1>1. TypeOK'
  BY <1>0, <1>l DEF TypeOK, RelayTypeOK, Stages
<1>2. OffsetsInOrder'
  BY <1>0, <1>l DEF OffsetsInOrder, TypeOK
<1>3. EventsInHand'
  BY <1>0, <1>l DEF EventsInHand, OffsetsInOrder, Active, TypeOK
<1>4. OneInsertOfEach'
  BY <1>0, <1>l DEF OneInsertOfEach, HoldsEvent, Stored, TypeOK
<1>5. HandledBeforePosition'
  BY <1>0, <1>l DEF HandledBeforePosition, Stored, OffsetsInOrder, TypeOK
<1>6. CountsAreBehind' /\ TaskAloneCountsAll' /\ TaskAloneReadsLast'
  BY <1>0, <1>q DEF CountsAreBehind, TaskAloneCountsAll, TaskAloneReadsLast, TypeOK
<1> QED
  BY <1>q, <1>1, <1>2, <1>3, <1>4, <1>5, <1>6

\* A replay takes the event of its dead letter.
LEMMA ReplayKeepsIndInv ==
  ASSUME IndInv, NEW i \in Requests, Replay(i), UNCHANGED relayVars, faults' \in Nat
  PROVE  IndInv'
<1> USE DEF IndInv, Replay, Begin, taskVars, storeVars
<1>0. /\ UNCHANGED <<guarded, row, relay, taken, sent, log>>
      /\ Loop \in Ingesters
      /\ \A q \in Requests : q \in Ingesters /\ q # Loop
  BY PipelineAssumption DEF Ingesters, relayVars
<1>l. Len(log) \in Nat /\ Len(log') = Len(log)
  BY <1>0 DEF TypeOK, RelayTypeOK
<1>q. /\ SentIsInLog' /\ RowOnce' /\ ReplayedIsStored'
      /\ StoredEvents' = StoredEvents /\ Cardinality(StoredEvents) \in Nat
  BY StoreUntouched
<1>1. TypeOK'
  <2>1. PICK p \in parked : Begin(i, log[p], p)
    OBVIOUS
  <2>2. p \in 1..Len(log) /\ log[p] \in Events
    BY <2>1 DEF OffsetsInOrder, TypeOK, RelayTypeOK
  <2> QED
    BY <1>0, <1>l, <1>q, <2>1, <2>2 DEF TypeOK, RelayTypeOK, Stages
<1>2. OffsetsInOrder'
  BY <1>0, <1>l DEF OffsetsInOrder, TypeOK
<1>3. EventsInHand'
  <2>1. PICK p \in parked : Begin(i, log[p], p)
    OBVIOUS
  <2>2. p \in 1..Len(log) /\ log[p] \in Events
    BY <2>1 DEF OffsetsInOrder, TypeOK, RelayTypeOK
  <2> QED
    BY <1>0, <1>l, <1>q, <2>1, <2>2 DEF EventsInHand, OffsetsInOrder, Active, TypeOK
<1>4. OneInsertOfEach'
  BY <1>0, <1>l DEF OneInsertOfEach, HoldsEvent, Stored, TypeOK
<1>5. HandledBeforePosition'
  BY <1>0, <1>l DEF HandledBeforePosition, Stored, OffsetsInOrder, TypeOK
<1>6. CountsAreBehind' /\ TaskAloneCountsAll' /\ TaskAloneReadsLast'
  BY <1>0, <1>q DEF CountsAreBehind, TaskAloneCountsAll, TaskAloneReadsLast, TypeOK
<1> QED
  BY <1>q, <1>1, <1>2, <1>3, <1>4, <1>5, <1>6

\* A crash ends every transaction, and the task falls back to the committed offset.
LEMMA ConsumerCrashKeepsIndInv ==
  ASSUME IndInv, ConsumerCrash, UNCHANGED relayVars, faults' \in Nat
  PROVE  IndInv'
<1> USE DEF IndInv, ConsumerCrash, OneMoreFault, taskVars, storeVars
<1>0. /\ UNCHANGED <<guarded, row, relay, taken, sent, log>>
      /\ Loop \in Ingesters
      /\ \A q \in Requests : q \in Ingesters /\ q # Loop
  BY PipelineAssumption DEF Ingesters, relayVars
<1>l. Len(log) \in Nat /\ Len(log') = Len(log)
  BY <1>0 DEF TypeOK, RelayTypeOK
<1>q. /\ SentIsInLog' /\ RowOnce' /\ ReplayedIsStored'
      /\ StoredEvents' = StoredEvents /\ Cardinality(StoredEvents) \in Nat
  BY StoreUntouched
<1>1. TypeOK'
  BY <1>0, <1>l DEF TypeOK, RelayTypeOK, Stages
<1>2. OffsetsInOrder'
  <2>1. offset' \in Nat /\ position' \in Nat /\ upto' \in Nat
    BY DEF TypeOK
  <2>2. offset' <= upto' /\ offset' < position' /\ position' <= upto' + 1 /\ upto' <= Len(log)
    BY <1>l DEF TypeOK, OffsetsInOrder, EventsInHand
  <2>3. parked' \subseteq 1..Len(log)
    <3>1. stage[Loop] = "parking" => position \in 1..Len(log)
      BY <1>l DEF TypeOK, OffsetsInOrder, EventsInHand
    <3> QED
      BY <3>1 DEF OffsetsInOrder
  <2> QED
    BY <1>l, <2>2, <2>3 DEF OffsetsInOrder
<1>3. EventsInHand'
  BY <1>0, <1>l DEF EventsInHand, OffsetsInOrder, Active, TypeOK
<1>4. OneInsertOfEach'
  BY <1>0, <1>l DEF OneInsertOfEach, HoldsEvent, Stored, TypeOK
<1>5. HandledBeforePosition'
  BY <1>0, <1>l DEF HandledBeforePosition, Stored, OffsetsInOrder, TypeOK
<1>6. CountsAreBehind' /\ TaskAloneCountsAll' /\ TaskAloneReadsLast'
  <2>1. CountsAreBehind'
    BY <1>0, <1>q DEF CountsAreBehind, TypeOK
  <2>2. \A q \in Requests : stage'[q] = "idle" => stage[q] = "idle"
    BY <1>0
  <2>3. TaskAloneCountsAll'
    BY <1>q, <2>2 DEF TaskAloneCountsAll
  <2>4. TaskAloneReadsLast'
    BY <1>0 DEF TaskAloneReadsLast
  <2> QED
    BY <2>1, <2>3, <2>4
<1> QED
  BY <1>q, <1>1, <1>2, <1>3, <1>4, <1>5, <1>6

\* What a commit leaves: of an event that was not stored one row, and one more in the
\* counter than was read of it.
LEMMA EffectsKeepIndInv ==
  ASSUME IndInv, NEW i \in Ingesters, stage[i] \in {"flushed", "ready"}, Effects(i), Closed(i),
         attempt' \in Nat, faults' \in Nat,
         UNCHANGED <<relayVars, service, loop, offset, upto>>,
         \/ UNCHANGED position
         \/ i = Loop /\ stage'[Loop] = "idle" /\ position' = position + 1
  PROVE  IndInv'
<1> USE DEF IndInv
<1>0. UNCHANGED <<guarded, row, relay, taken, sent, log>>
  BY DEF relayVars
<1>l. Loop \in Ingesters /\ Loop \notin Requests /\ Requests \subseteq Ingesters
  BY PipelineAssumption DEF Ingesters
<1>e. event[i] \in Events
  BY DEF EventsInHand, Active
<1>n. Len(log) \in Nat /\ Len(log') = Len(log)
  BY <1>0 DEF TypeOK, RelayTypeOK
<1>r. /\ rows' \in [Events -> Nat]
      /\ \A e \in Events : rows'[e] = IF stage[i] = "flushed" /\ e = event[i] THEN rows[e] + 1 ELSE rows[e]
  BY <1>e DEF Effects, TypeOK
<1>t. /\ \A e \in Events : Stored(e)' <=> Stored(e) \/ (stage[i] = "flushed" /\ e = event[i])
      /\ stage[i] = "ready" => Stored(event[i])
  <2>1. \A e \in Events : Stored(e)' <=> Stored(e) \/ (stage[i] = "flushed" /\ e = event[i])
    BY <1>r DEF Stored, TypeOK
  <2>2. stage[i] = "ready" => Stored(event[i])
    BY DEF OneInsertOfEach
  <2> QED
    BY <2>1, <2>2, <1>e
<1>u. stage[i] = "flushed" => ~Stored(event[i])
  BY <1>e DEF OneInsertOfEach, HoldsEvent
<1>s. /\ Cardinality(StoredEvents) \in Nat
      /\ Cardinality(StoredEvents') = Cardinality(StoredEvents) + IF stage[i] = "flushed" THEN 1 ELSE 0
  <2>1. StoredEvents' = IF stage[i] = "flushed" THEN StoredEvents \cup {event[i]} ELSE StoredEvents
    BY <1>e, <1>t DEF StoredEvents
  <2>2. stage[i] = "flushed" => event[i] \notin StoredEvents
    BY <1>u DEF StoredEvents
  <2>3. stage[i] = "flushed" => Cardinality(StoredEvents \cup {event[i]}) = Cardinality(StoredEvents) + 1
    BY <2>2, StoredFinite, FS_AddElement
  <2> QED
    BY <2>1, <2>3, StoredFinite
<1>o. \A j \in Ingesters \ {i} : \A e \in Events : stage[i] = "flushed" /\ HoldsEvent(j, e) => e # event[i]
  BY <1>e DEF OneInsertOfEach, HoldsEvent
<1>1. TypeOK' /\ SentIsInLog'
  <2>1. replayed' \in SUBSET parked /\ parked' = parked
    BY DEF Effects, EventsInHand, TypeOK
  <2>2. counter' \in Nat
    BY DEF Effects, TypeOK
  <2>3. position' \in Nat
    BY DEF TypeOK
  <2>4. RelayTypeOK'
    BY <1>0 DEF TypeOK, RelayTypeOK
  <2>5. SentIsInLog'
    BY <1>0 DEF SentIsInLog
  <2>6. TypeOK'
    BY <1>r, <2>1, <2>2, <2>3, <2>4, ClosedState DEF TypeOK
  <2> QED
    BY <2>5, <2>6
<1>2. OffsetsInOrder'
  <2>1. i = Loop => position <= upto
    BY DEF EventsInHand, Active
  <2>2. offset <= upto /\ offset < position' /\ position' <= upto + 1 /\ upto <= Len(log)
    BY <1>l, <2>1 DEF OffsetsInOrder, TypeOK
  <2> QED
    BY <1>n, <2>2 DEF OffsetsInOrder, Effects
<1>3. EventsInHand'
  <2>1. \A j \in Ingesters : Active(j)' => j # i /\ Active(j) /\ event'[j] = event[j]
    BY ClosedState DEF Active
  <2>2. \A j \in Ingesters : letter'[j] > 0 => j # i /\ letter'[j] = letter[j] /\ event'[j] = event[j]
    BY ClosedState
  <2>3. letter'[Loop] = 0
    BY <1>l, ClosedState DEF EventsInHand
  <2>4. stage'[Loop] = "parking" => position' <= upto'
    BY <1>l, ClosedState DEF EventsInHand, Active
  <2>5. \A j \in Ingesters : letter'[j] > 0 => letter'[j] \in parked' /\ event'[j] = log'[letter'[j]]
    BY <1>0, <2>2 DEF EventsInHand, Effects
  <2>6. Active(Loop)' => UNCHANGED position
    BY <1>l, <2>1
  <2> QED
    BY <1>0, <1>l, <2>1, <2>3, <2>4, <2>5, <2>6 DEF EventsInHand
<1>4. OneInsertOfEach'
  <2>1. \A j \in Ingesters : \A e \in Events : HoldsEvent(j, e)' => j # i /\ HoldsEvent(j, e)
    BY ClosedState DEF HoldsEvent
  <2>2. \A j \in Ingesters : stage'[j] = "ready" => j # i /\ stage[j] = stage'[j] /\ event'[j] = event[j]
    BY ClosedState
  <2>3. \A j \in Ingesters : stage'[j] = "ready" => event[j] \in Events /\ Stored(event[j])
    BY <2>2 DEF OneInsertOfEach, EventsInHand, Active
  <2>4. \A j \in Ingesters : stage'[j] = "ready" => rows'[event'[j]] > 0
    BY <1>r, <2>2, <2>3 DEF Stored, TypeOK
  <2>5. \A j \in Ingesters : \A e \in Events : HoldsEvent(j, e)' => ~Stored(e)'
    BY <1>t, <1>o, <2>1 DEF OneInsertOfEach
  <2> QED
    BY <2>1, <2>4, <2>5 DEF OneInsertOfEach, Stored
<1>5. RowOnce'
  BY <1>r, <1>u, <1>e DEF RowOnce, Stored, TypeOK
<1>6. HandledBeforePosition' /\ ReplayedIsStored'
  <2>1. \A p \in 1..Len(log) : log[p] \in Events
    BY DEF TypeOK, RelayTypeOK
  <2>2. \A p \in 1..Len(log) : Stored(log[p]) => rows'[log[p]] > 0
    <3>1. \A e \in Events : rows[e] > 0 => rows'[e] > 0
      BY <1>r DEF TypeOK
    <3> QED
      BY <2>1, <3>1 DEF Stored
  <2>3. rows'[event[i]] > 0
    BY <1>e, <1>r, <1>t DEF Stored, TypeOK
  <2>4. HandledBeforePosition'
    <3>1. ASSUME NEW p \in 1..(position' - 1), p < position PROVE rows'[log[p]] > 0 \/ p \in parked
      <4>1. p \in 1..(position - 1) /\ p \in 1..Len(log)
        BY <1>n, <3>1 DEF TypeOK, OffsetsInOrder
      <4> QED
        BY <2>2, <4>1 DEF HandledBeforePosition
    <3>2. ASSUME NEW p \in 1..(position' - 1), ~(p < position) PROVE rows'[log[p]] > 0
      <4>1. i = Loop /\ p = position
        BY <3>2 DEF TypeOK
      <4>2. log[p] = event[i]
        BY <4>1 DEF EventsInHand, Active
      <4> QED
        BY <2>3, <4>2
    <3> QED
      BY <1>0, <3>1, <3>2 DEF HandledBeforePosition, Stored, Effects
  <2>5. ReplayedIsStored'
    <3>1. ASSUME NEW p \in replayed PROVE rows'[log[p]] > 0
      <4>1. p \in 1..Len(log)
        BY <3>1 DEF TypeOK, OffsetsInOrder
      <4> QED
        BY <2>2, <4>1 DEF ReplayedIsStored
    <3>2. letter[i] > 0 => rows'[log[letter[i]]] > 0
      BY <2>3 DEF EventsInHand
    <3> QED
      BY <1>0, <3>1, <3>2 DEF ReplayedIsStored, Stored, Effects
  <2> QED
    BY <2>4, <2>5
<1>7. CountsAreBehind'
  <2>1. service = "analytics" => counter' <= Cardinality(StoredEvents')
    BY <1>s DEF Effects, HoldsCounter, CountsAreBehind, TypeOK
  <2>2. \A j \in Ingesters : read'[j] <= Cardinality(StoredEvents')
    BY <1>s, ClosedState DEF CountsAreBehind, TypeOK
  <2>3. service = "notification" => counter' = 0
    BY DEF Effects, HoldsCounter, CountsAreBehind
  <2> QED
    BY <2>1, <2>2, <2>3 DEF CountsAreBehind
<1>8. TaskAloneCountsAll' /\ TaskAloneReadsLast'
  <2>1. SUFFICES ASSUME service = "analytics", \A q \in Requests : stage'[q] = "idle"
                 PROVE  counter' = Cardinality(StoredEvents') /\ stage'[Loop] \notin {"read", "flushed"}
    BY DEF TaskAloneCountsAll, TaskAloneReadsLast
  <2>2. i = Loop
    BY <2>1, ClosedState DEF Ingesters
  <2>3. \A q \in Requests : stage[q] = "idle"
    BY <1>l, <2>1, <2>2, ClosedState
  <2>4. counter = Cardinality(StoredEvents) /\ (stage[Loop] = "flushed" => read[Loop] = counter)
    BY <2>1, <2>3 DEF TaskAloneCountsAll, TaskAloneReadsLast
  <2>5. stage'[Loop] \notin {"read", "flushed"}
    BY <2>2, ClosedState
  <2> QED
    BY <1>s, <2>1, <2>2, <2>4, <2>5 DEF Effects, HoldsCounter, TypeOK
<1> QED
  BY <1>1, <1>2, <1>3, <1>4, <1>5, <1>6, <1>7, <1>8

\* A commit leaves its effects, and the task goes on to the next record.
LEMMA CommitKeepsIndInv ==
  ASSUME IndInv, NEW i \in Ingesters, Commit(i), UNCHANGED relayVars, faults' \in Nat
  PROVE  IndInv'
<1>1. Closed(i) /\ attempt' \in Nat
  BY DEF Commit, Closed, IndInv, TypeOK
<1>2. \/ UNCHANGED position
      \/ i = Loop /\ stage'[Loop] = "idle" /\ position' = position + 1
  <2>1. i = Loop => stage'[Loop] = "idle"
    BY DEF Commit, Close, IndInv, TypeOK
  <2> QED
    BY <2>1 DEF Commit
<1> QED
  BY <1>1, <1>2, EffectsKeepIndInv DEF Commit

\* An attempt that fails leaves nothing or what its commit leaves.
LEMMA IngestFailsKeepsIndInv ==
  ASSUME IndInv, NEW i \in Ingesters, IngestFails(i), UNCHANGED relayVars
  PROVE  IndInv'
<1>1. Active(i) /\ Closed(i) /\ attempt' \in Nat /\ faults' \in Nat
  BY AbortCloses DEF IngestFails, OneMoreFault, Active, IndInv, TypeOK, RelayTypeOK
<1>2. CASE UNCHANGED storeVars
  BY <1>1, <1>2, ClosedKeepsIndInv DEF IngestFails
<1>3. CASE stage[i] \in {"flushed", "ready"} /\ Effects(i)
  BY <1>1, <1>3, EffectsKeepIndInv DEF IngestFails, taskVars
<1> QED
  BY <1>2, <1>3 DEF IngestFails

-----------------------------------------------------------------------------
(* The specification *)

\* Every step keeps the invariant.
LEMMA NextKeepsIndInv == IndInv /\ [Next]_vars => IndInv'
<1> SUFFICES ASSUME IndInv, [Next]_vars PROVE IndInv'
  OBVIOUS
<1>f. UNCHANGED faults => faults' \in Nat
  BY DEF IndInv, TypeOK, RelayTypeOK
<1>1. CASE RelayNext /\ UNCHANGED consumerVars
  BY <1>1, RelayKeepsIndInv
<1>2. CASE ConsumerNext /\ UNCHANGED relayVars
  <2>1. ASSUME NEW i \in Ingesters, IngestProgress(i), UNCHANGED faults PROVE IndInv'
    BY <1>f, <1>2, <2>1, InsertKeepsIndInv, ReadCounterKeepsIndInv, WriteCounterKeepsIndInv, CommitKeepsIndInv DEF IngestProgress
  <2>2. ASSUME NEW i \in Ingesters, IngestFails(i) PROVE IndInv'
    BY <1>2, <2>2, IngestFailsKeepsIndInv
  <2>3. CASE TaskProgress /\ UNCHANGED faults
    BY <1>f, <1>2, <2>3, FetchKeepsIndInv, HandleKeepsIndInv, ParkKeepsIndInv, CommitOffsetsKeepsIndInv, ConsumerRestartKeepsIndInv DEF TaskProgress
  <2>4. CASE TaskFails
    <3>1. faults' \in Nat
      BY <2>4 DEF TaskFails, OneMoreFault, IndInv, TypeOK, RelayTypeOK
    <3> QED
      BY <1>2, <2>4, <3>1, TaskFailsKeepsIndInv
  <2>5. ASSUME NEW q \in Requests, Post(q) \/ Replay(q), UNCHANGED faults PROVE IndInv'
    BY <1>f, <1>2, <2>5, PostKeepsIndInv, ReplayKeepsIndInv
  <2>6. CASE ConsumerCrash
    <3>1. faults' \in Nat
      BY <2>6 DEF ConsumerCrash, OneMoreFault, IndInv, TypeOK, RelayTypeOK
    <3> QED
      BY <1>2, <2>6, <3>1, ConsumerCrashKeepsIndInv
  <2> QED
    BY <1>2, <2>1, <2>2, <2>3, <2>4, <2>5, <2>6 DEF ConsumerNext
<1>3. CASE UNCHANGED vars
  <2>0. UNCHANGED <<relayVars, faults, service, loop, offset, position, upto, attempt, stage, event, read, letter, rows, counter, parked, replayed>>
    BY <1>3 DEF vars, consumerVars, taskVars, txVars, storeVars
  <2> USE DEF IndInv, Stored, StoredEvents, HoldsEvent, HoldsCounter, Active
  <2>1. UNCHANGED <<guarded, row, relay, taken, sent, log>>
    BY <2>0 DEF relayVars
  <2>2. TypeOK' /\ SentIsInLog' /\ OffsetsInOrder' /\ EventsInHand'
    BY <2>0, <2>1 DEF TypeOK, RelayTypeOK, SentIsInLog, OffsetsInOrder, EventsInHand
  <2>3. OneInsertOfEach' /\ RowOnce' /\ HandledBeforePosition' /\ ReplayedIsStored'
    BY <2>0, <2>1 DEF OneInsertOfEach, RowOnce, HandledBeforePosition, ReplayedIsStored
  <2>4. CountsAreBehind' /\ TaskAloneCountsAll' /\ TaskAloneReadsLast'
    BY <2>0, <2>1 DEF CountsAreBehind, TaskAloneCountsAll, TaskAloneReadsLast
  <2> QED
    BY <2>2, <2>3, <2>4
<1> QED
  BY <1>1, <1>2, <1>3 DEF Next

\* Every reachable state satisfies the inductive invariant, the bookkeeping of relay,
\* consumer task and ingestions; the properties below follow from it.
THEOREM InvariantHolds == Spec => []IndInv
  BY InitIndInv, NextKeepsIndInv, PTL DEF Spec

\* Every variable stays in its set; a batch has sent only what it took.
THEOREM TypesHold == Spec => []TypeOK
<1>1. IndInv => TypeOK
  BY DEF IndInv
<1> QED
  BY <1>1, InvariantHolds, PTL

\* publish_batch: a row marked as published is in the topic, however often a batch is
\* lost after some of its rows were sent.
THEOREM PublishedOnlyIfSent == Spec => []PublishedIsInLog
<1>1. IndInv => PublishedIsInLog
  BY DEF IndInv, SentIsInLog, PublishedIsInLog
<1> QED
  BY <1>1, InvariantHolds, PTL

\* The consumers commit offsets only behind records that had their effect or have a
\* dead letter: a crash or a lost commit of offsets skips none.
THEOREM NoRecordSkipped == Spec => []NothingSkipped
<1>1. IndInv => NothingSkipped
  <2> SUFFICES ASSUME IndInv PROVE NothingSkipped
    OBVIOUS
  <2>1. \A p \in 1..offset : p \in 1..(position - 1)
    BY DEF IndInv, OffsetsInOrder, TypeOK
  <2> QED
    BY <2>1 DEF IndInv, HandledBeforePosition, NothingSkipped
<1> QED
  BY <1>1, InvariantHolds, PTL

\* Records that are delivered again, replays and posted events that race with the task
\* leave one row for an event.
THEOREM OneRowForAnEvent == Spec => []RowOnce
<1>1. IndInv => RowOnce
  BY DEF IndInv
<1> QED
  BY <1>1, InvariantHolds, PTL

\* However the read-modify-write of racing ingestions interleaves, the counter of
\* analytics never exceeds the events that are stored.
THEOREM CounterIsNeverAhead == Spec => []CounterNeverAhead
<1>1. IndInv => CounterNeverAhead
  <2> SUFFICES ASSUME IndInv PROVE CounterNeverAhead
    OBVIOUS
  <2>1. Cardinality(StoredEvents) \in Nat
    BY StoredFinite DEF IndInv
  <2> QED
    BY <2>1 DEF IndInv, CountsAreBehind, CounterNeverAhead, TypeOK
<1> QED
  BY <1>1, InvariantHolds, PTL

\* While requests ingest nothing the counter is exact, over retries, crashes and records
\* that are delivered again.
THEOREM TaskAloneIsExact == Spec => []TaskAloneCountsAll
<1>1. IndInv => TaskAloneCountsAll
  BY DEF IndInv
<1> QED
  BY <1>1, InvariantHolds, PTL

\* A dead letter is marked as replayed only together with the effect of its event.
THEOREM ReplayedHasItsEffect == Spec => []ReplayedIsStored
<1>1. IndInv => ReplayedIsStored
  BY DEF IndInv
<1> QED
  BY <1>1, InvariantHolds, PTL

-----------------------------------------------------------------------------
(* Refinement *)

\* What the relay has taken or sent, and what an ingester works on, was committed.
CommittedFirst ==
  /\ taken \subseteq Emitted
  /\ \A p \in 1..Len(log) : log[p] \in Emitted
  /\ \A i \in Ingesters : Active(i) => event[i] \in Emitted

\* Neither the relay nor a crash makes an event of a row that is not committed.
LEMMA RelayKeepsCommitted ==
  ASSUME IndInv, CommittedFirst, RelayNext
  PROVE  /\ Emitted \subseteq Emitted'
         /\ taken' \subseteq Emitted' /\ \A p \in 1..Len(log') : log'[p] \in Emitted'
<1> USE DEF IndInv, TypeOK, RelayTypeOK, CommittedFirst, Emitted
<1>1. ASSUME NEW e \in Events, Emit(e)
      PROVE  /\ Emitted \subseteq Emitted'
             /\ taken' \subseteq Emitted' /\ \A p \in 1..Len(log') : log'[p] \in Emitted'
  BY <1>1 DEF Emit
<1>2. CASE UNCHANGED <<row, log>> /\ taken' \subseteq taken \cup Waiting
  BY <1>2 DEF Waiting
<1>3. ASSUME NEW e \in taken, log' = Append(log, e), UNCHANGED row, taken' \subseteq taken
      PROVE  /\ Emitted \subseteq Emitted'
             /\ taken' \subseteq Emitted' /\ \A p \in 1..Len(log') : log'[p] \in Emitted'
  BY <1>3
<1>4. CASE MarkPublished(taken) /\ UNCHANGED log /\ taken' = {}
  BY <1>4 DEF MarkPublished
<1>5. \/ \E e \in Events : Emit(e)
      \/ UNCHANGED <<row, log>> /\ taken' \subseteq taken \cup Waiting
      \/ \E e \in taken : log' = Append(log, e) /\ UNCHANGED row /\ taken' \subseteq taken
      \/ MarkPublished(taken) /\ UNCHANGED log /\ taken' = {}
  BY DEF RelayNext, RelayProgress, SelectBatch, Send, Turn, CommitBatch, RelayFails, RelayCrash,
         RelayRestart, BatchLost, Waiting
<1> QED
  BY <1>1, <1>2, <1>3, <1>4, <1>5

\* What an ingester works on is in the topic, or was committed when a request began.
LEMMA NextCommitted == IndInv /\ CommittedFirst /\ [Next]_vars => CommittedFirst'
<1> SUFFICES ASSUME IndInv, CommittedFirst, [Next]_vars PROVE CommittedFirst'
  OBVIOUS
<1> USE DEF IndInv, TypeOK, RelayTypeOK
<1>1. CASE RelayNext /\ UNCHANGED consumerVars
  BY <1>1, RelayKeepsCommitted DEF CommittedFirst, consumerVars, txVars, Active
<1>2. CASE ConsumerNext /\ UNCHANGED relayVars
  <2>0. UNCHANGED <<row, taken, log>>
    BY <1>2 DEF relayVars
  <2>1. ASSUME NEW i \in Ingesters, Active(i)'
        PROVE  \/ Active(i) /\ event'[i] = event[i]
               \/ event'[i] \in Emitted
    <3>1. ASSUME NEW j \in Ingesters, IngestProgress(j) \/ IngestFails(j)
          PROVE  Active(i) /\ event'[i] = event[i]
      BY <2>1, <3>1 DEF IngestProgress, Insert, Inserted, ReadCounter, WriteCounter, Commit,
                        IngestFails, Abort, Close, Goto, Active, txVars, Stages
    <3>2. CASE Fetch \/ Park \/ CommitOffsets \/ ConsumerRestart \/ TaskFails
      BY <2>1, <3>2 DEF Fetch, Park, CommitOffsets, ConsumerRestart, TaskFails, Goto, Active,
                        txVars, Stages
    <3>3. CASE Handle
      <4>1. log[position] \in Emitted
        BY <3>3 DEF Handle, OffsetsInOrder, CommittedFirst
      <4> QED
        BY <2>1, <3>3, <4>1 DEF Handle, Begin, Active, Stages
    <3>4. ASSUME NEW q \in Requests, Post(q)
          PROVE  (Active(i) /\ event'[i] = event[i]) \/ event'[i] \in Emitted
      BY <2>1, <3>4 DEF Post, Begin, Active, Stages, Emitted
    <3>5. ASSUME NEW q \in Requests, Replay(q)
          PROVE  (Active(i) /\ event'[i] = event[i]) \/ event'[i] \in Emitted
      <4>1. PICK p \in parked : Begin(q, log[p], p)
        BY <3>5 DEF Replay
      <4>2. log[p] \in Emitted
        BY DEF OffsetsInOrder, CommittedFirst
      <4> QED
        BY <2>1, <4>1, <4>2 DEF Begin, Active, Stages
    <3>6. CASE ConsumerCrash
      BY <2>1, <3>6 DEF ConsumerCrash, Active
    <3> QED
      BY <1>2, <3>1, <3>2, <3>3, <3>4, <3>5, <3>6 DEF ConsumerNext, TaskProgress
  <2> QED
    BY <2>0, <2>1 DEF CommittedFirst, Emitted
<1>3. CASE UNCHANGED vars
  BY <1>3 DEF vars, relayVars, consumerVars, txVars, CommittedFirst, Emitted, Active
<1> QED
  BY <1>1, <1>2, <1>3 DEF Next

\* Nothing reaches a consumer that its request has not committed.
THEOREM CommittedBeforeConsumed == Spec => []CommittedFirst
<1>1. Init => CommittedFirst
  BY DEF Init, RelayInit, CommittedFirst, Active
<1> QED
  BY <1>1, NextCommitted, InvariantHolds, PTL DEF Spec

\* The store at first is that of EventEffects.
LEMMA EffectsInit == Init => Abstract!Init
  BY DEF Init, RelayInit, Abstract!Init, Emitted, StoredEvents, Stored, Aside, Settled

\* A step of the relay commits one event or is a stutter: records that are appended show
\* none of the dead letters in another light.
LEMMA RelayStepIsAbstract ==
  ASSUME IndInv, CommittedFirst, RelayNext, UNCHANGED consumerVars
  PROVE  Abstract!Next \/ UNCHANGED Abstract!effectVars
<1> USE DEF IndInv, TypeOK, RelayTypeOK
<1>1. UNCHANGED <<rows, counter, parked, replayed>>
  BY DEF consumerVars, storeVars
<1>2. \A p \in parked : log'[p] = log[p]
  BY LogGrows DEF OffsetsInOrder
<1>3. UNCHANGED <<StoredEvents, counter, Aside, Settled>>
  BY <1>1, <1>2 DEF StoredEvents, Stored, Aside, Settled
<1>4. ASSUME NEW e \in Events, Emit(e) PROVE Abstract!Emit(e)
  BY <1>3, <1>4 DEF Emit, Emitted, Abstract!Emit
<1>5. ASSUME ~(\E e \in Events : Emit(e)) PROVE UNCHANGED Emitted
  <2>1. UNCHANGED row \/ MarkPublished(taken)
    BY <1>5 DEF RelayNext, RelayProgress, SelectBatch, Send, CommitBatch, RelayFails, RelayCrash,
                RelayRestart
  <2> QED
    BY <2>1 DEF MarkPublished, Emitted, CommittedFirst
<1> QED
  BY <1>3, <1>4, <1>5 DEF Abstract!Next, Abstract!effectVars

\* What a transaction leaves is one event's effect, the mark of its dead letter, or both.
LEMMA EffectsAreAbstract ==
  ASSUME IndInv, CommittedFirst, NEW i \in Ingesters, stage[i] \in {"flushed", "ready"},
         Effects(i), UNCHANGED <<row, log>>
  PROVE  Abstract!Next \/ UNCHANGED Abstract!effectVars
<1> USE DEF IndInv, TypeOK, RelayTypeOK
<1>1. event[i] \in Emitted /\ event[i] \in Events
  BY DEF CommittedFirst, EventsInHand, Active
<1>2. UNCHANGED <<Emitted, Aside>>
  BY DEF Effects, Emitted, Aside
<1>3. /\ letter[i] > 0 => Settled' = Settled \cup {event[i]} /\ event[i] \in Aside
      /\ ~(letter[i] > 0) => UNCHANGED Settled
  BY DEF Effects, EventsInHand, Settled, Aside
<1>4. CASE stage[i] = "flushed"
  <2>1. event[i] \notin StoredEvents
    BY <1>1, <1>4 DEF OneInsertOfEach, HoldsEvent, StoredEvents
  <2>2. StoredEvents' = StoredEvents \cup {event[i]}
    BY <1>1, <1>4 DEF Effects, StoredEvents, Stored
  <2>3. counter' \in 0 .. Cardinality(StoredEvents) + 1
    <3>1. Cardinality(StoredEvents) \in Nat
      BY StoredFinite
    <3>2. read[i] <= Cardinality(StoredEvents)
      BY DEF CountsAreBehind
    <3>3. counter <= Cardinality(StoredEvents)
      BY <3>1 DEF CountsAreBehind
    <3> QED
      BY <3>1, <3>2, <3>3 DEF Effects
  <2>4. Settled' \in {Settled, Settled \cup (Aside \cap {event[i]})}
    BY <1>3
  <2>5. Abstract!TakeEffect(event[i])
    <3> HIDE DEF IndInv, TypeOK, RelayTypeOK
    <3>1. event[i] \in Emitted \ StoredEvents
      BY <1>1, <2>1
    <3>2. Abstract!Cardinality(StoredEvents) = Cardinality(StoredEvents)
      BY DEF Abstract!Cardinality, Cardinality
    <3> QED
      BY <1>2, <2>2, <2>3, <2>4, <3>1, <3>2 DEF Abstract!TakeEffect
  <2> QED
    BY <1>1, <2>5 DEF Abstract!Next
<1>5. CASE stage[i] = "ready"
  <2>1. event[i] \in StoredEvents
    BY <1>1, <1>5 DEF OneInsertOfEach, StoredEvents
  <2>2. UNCHANGED <<StoredEvents, counter>>
    BY <1>5 DEF Effects, HoldsCounter, StoredEvents, Stored
  <2>3. letter[i] > 0 => Abstract!Settle(event[i])
    BY <1>2, <1>3, <2>1, <2>2 DEF Abstract!Settle
  <2> QED
    BY <1>1, <1>2, <1>3, <2>2, <2>3 DEF Abstract!Next, Abstract!effectVars
<1> QED
  BY <1>4, <1>5

\* Every step of the relay, the task, a request or a crash is a step of EventEffects or a
\* stutter.
LEMMA AbstractStep ==
  IndInv /\ CommittedFirst /\ [Next]_vars => [Abstract!Next]_(Abstract!effectVars)
<1> SUFFICES ASSUME IndInv, CommittedFirst, [Next]_vars
             PROVE  Abstract!Next \/ UNCHANGED Abstract!effectVars
  OBVIOUS
<1>0. ASSUME UNCHANGED <<row, log, storeVars>> PROVE UNCHANGED Abstract!effectVars
  BY <1>0 DEF storeVars, Abstract!effectVars, Emitted, StoredEvents, Stored, Aside, Settled
<1>1. CASE RelayNext /\ UNCHANGED consumerVars
  BY <1>1, RelayStepIsAbstract
<1>2. CASE ConsumerNext /\ UNCHANGED relayVars
  <2>0. UNCHANGED <<row, log>>
    BY <1>2 DEF relayVars
  <2>1. ASSUME NEW i \in Ingesters, IngestProgress(i) \/ IngestFails(i)
        PROVE  UNCHANGED storeVars \/ (stage[i] \in {"flushed", "ready"} /\ Effects(i))
    BY <2>1 DEF IngestProgress, Insert, ReadCounter, WriteCounter, Commit, IngestFails
  <2>2. CASE Fetch \/ Handle \/ CommitOffsets \/ ConsumerRestart \/ ConsumerCrash
    BY <1>0, <2>0, <2>2 DEF Fetch, Handle, Begin, CommitOffsets, ConsumerRestart, ConsumerCrash
  <2>3. ASSUME NEW q \in Requests, Post(q) \/ Replay(q) PROVE UNCHANGED storeVars
    BY <2>3 DEF Post, Replay, Begin
  <2>4. CASE Park \/ TaskFails
    <3>1. CASE UNCHANGED storeVars
      BY <1>0, <2>0, <3>1
    <3>2. CASE ~UNCHANGED storeVars
      <4>1. /\ stage[Loop] = "parking" /\ parked' = parked \cup {position}
            /\ UNCHANGED <<rows, counter, replayed>>
        BY <2>4, <3>2 DEF Park, TaskFails, storeVars
      <4>2. position \in 1..Len(log)
        BY <4>1 DEF IndInv, TypeOK, RelayTypeOK, EventsInHand, OffsetsInOrder
      <4>3. log[position] \in Emitted /\ log[position] \in Events
        BY <4>2 DEF CommittedFirst, Emitted
      <4>4. Aside' = Aside \cup {log[position]}
        BY <2>0, <4>1 DEF Aside
      <4>5. UNCHANGED <<Emitted, StoredEvents, counter, Settled>>
        BY <2>0, <4>1 DEF Emitted, StoredEvents, Stored, Settled
      <4>6. Abstract!PutAside(log[position])
        BY <4>3, <4>4, <4>5 DEF Abstract!PutAside
      <4> QED
        BY <4>3, <4>6 DEF Abstract!Next
    <3> QED
      BY <3>1, <3>2
  <2> QED
    BY <1>0, <1>2, <2>0, <2>1, <2>2, <2>3, <2>4, EffectsAreAbstract DEF ConsumerNext, TaskProgress
<1>3. CASE UNCHANGED vars
  BY <1>0, <1>3 DEF vars, relayVars, consumerVars
<1> QED
  BY <1>1, <1>2, <1>3 DEF Next

\* Over batches that are lost, records delivered again, retries, replays and crashes the
\* pipeline does what EventEffects says: a committed event takes effect once and for good.
THEOREM PipelineImplementsEffects == Spec => EffectsSpec
  BY EffectsInit, AbstractStep, InvariantHolds, CommittedBeforeConsumed, PTL
  DEF Spec, EffectsSpec, Abstract!Spec
=============================================================================
