--------------------------- MODULE EventPipeline ---------------------------
(***************************************************************************)
(* An event from its outbox row to its effect in the notification or the   *)
(* analytics service: the relay and the topic of OutboxRelay, the consumer *)
(* task of one of the two services with its retries, dead letters and      *)
(* offsets, and requests that ingest events beside it (the replay of a     *)
(* dead letter, POST /internal/events).                                    *)
(*                                                                         *)
(* Every ingestion is a transaction of one event, READ COMMITTED.  In      *)
(* analytics it inserts the event and adds one to a counter, in Python:    *)
(* read, add, write.  In notification it inserts the notification.  All    *)
(* events count in the same counter and have a recipient who wants them.   *)
(***************************************************************************)
EXTENDS OutboxRelay

CONSTANTS
  Requests,   \* requests that ingest an event
  Loop,       \* the ingester that is the consumer task
  MaxRetries  \* consumer_max_retries

ASSUME PipelineAssumption ==
  /\ Loop \notin Requests
  /\ MaxRetries \in Nat \ {0}

Ingesters == Requests \cup {Loop}

VARIABLES
  service,   \* analytics or notification; fixed
  loop,      \* the task: running, ended by an error, down with its process
  offset,    \* the committed offset: records handled for good
  position,  \* the record it is at
  upto,      \* the last record of the batch it has fetched
  attempt,   \* of handling the record
  stage,     \* stage[i]: how far the transaction of ingester i is
  event,     \* event[i]: the event it ingests
  read,      \* read[i]: the counter it read
  letter,    \* letter[i]: the dead letter it replays, 0 for none
  rows,      \* rows[e]: committed rows of the event (event_store, notifications)
  counter,   \* the counter: 0 while it has no row
  parked,    \* records with a dead letter
  replayed   \* those whose dead letter is marked as replayed

taskVars == <<loop, offset, position, upto>>
txVars == <<event, read, letter>>
storeVars == <<rows, counter, parked, replayed>>
consumerVars == <<service, taskVars, attempt, stage, txVars, storeVars>>
vars == <<relayVars, faults, consumerVars>>

Stages == {"idle", "new", "inserted", "read", "flushed", "ready", "parking", "done"}

TypeOK ==
  /\ RelayTypeOK
  /\ service \in {"analytics", "notification"}
  /\ loop \in {"running", "ended", "down"}
  /\ offset \in Nat
  /\ position \in Nat
  /\ upto \in Nat
  /\ attempt \in Nat
  /\ stage \in [Ingesters -> Stages]
  /\ event \in [Ingesters -> Events \cup {0}]
  /\ read \in [Ingesters -> Nat]
  /\ letter \in [Ingesters -> Nat]
  /\ rows \in [Events -> Nat]
  /\ counter \in Nat
  /\ parked \in SUBSET Nat
  /\ replayed \in SUBSET parked

Init ==
  /\ RelayInit
  /\ service \in {"analytics", "notification"}
  /\ loop = "running"
  /\ offset = 0
  /\ position = 1
  /\ upto = 0
  /\ attempt = 1
  /\ stage = [i \in Ingesters |-> "idle"]
  /\ event = [i \in Ingesters |-> 0]
  /\ read = [i \in Ingesters |-> 0]
  /\ letter = [i \in Ingesters |-> 0]
  /\ rows = [e \in Events |-> 0]
  /\ counter = 0
  /\ parked = {}
  /\ replayed = {}

Goto(i, label) == stage' = [stage EXCEPT ![i] = label] /\ UNCHANGED txVars

\* The session is closed.
Close(i, label) ==
  /\ stage' = [stage EXCEPT ![i] = label]
  /\ event' = [event EXCEPT ![i] = 0]
  /\ read' = [read EXCEPT ![i] = 0]
  /\ letter' = [letter EXCEPT ![i] = 0]

-----------------------------------------------------------------------------
(* An ingestion *)

Stored(e) == rows[e] > 0

\* Until its transaction ends the row it has inserted makes others wait.
HoldsEvent(i, e) == stage[i] \in {"inserted", "read", "flushed"} /\ event[i] = e

HoldsCounter(i) == service = "analytics" /\ stage[i] = "flushed"

\* The look for an earlier ingestion.
Begin(i, e, p) ==
  /\ stage' = [stage EXCEPT ![i] = IF Stored(e) THEN "ready" ELSE "new"]
  /\ event' = [event EXCEPT ![i] = e]
  /\ letter' = [letter EXCEPT ![i] = p]
  /\ UNCHANGED <<service, taskVars, attempt, read, storeVars>>

\* An error ends the transaction.  The task handles the record again until the
\* retries are used up, a request is answered.
Abort(i) ==
  IF i # Loop
  THEN Close(i, "done") /\ UNCHANGED attempt
  ELSE IF attempt < MaxRetries
       THEN Close(i, "idle") /\ attempt' = attempt + 1
       ELSE Close(i, "parking") /\ UNCHANGED attempt

\* Notification has nothing more to write.
Inserted(i) == Goto(i, IF service = "analytics" THEN "inserted" ELSE "flushed")

\* Faulty variant: no unique index.
InsertUnindexed(i) ==
  /\ stage[i] = "new"
  /\ Inserted(i)
  /\ UNCHANGED <<service, taskVars, attempt, storeVars>>

\* The unique index: wait for an uncommitted row of the event, fail on a committed one.
Insert(i) ==
  /\ stage[i] = "new"
  /\ \A j \in Ingesters : ~HoldsEvent(j, event[i])
  /\ \/ /\ ~Stored(event[i])
        /\ Inserted(i)
        /\ UNCHANGED attempt
     \/ /\ Stored(event[i])
        /\ Abort(i)
  /\ UNCHANGED <<service, taskVars, storeVars>>

ReadCounter(i) ==
  /\ stage[i] = "inserted"
  /\ stage' = [stage EXCEPT ![i] = "read"]
  /\ read' = [read EXCEPT ![i] = counter]
  /\ UNCHANGED <<service, taskVars, attempt, event, letter, storeVars>>

\* Faulty variant: the counter is committed before the event.
WriteCounterApart(i) ==
  /\ stage[i] = "read"
  /\ counter' = read[i] + 1
  /\ Goto(i, "flushed")
  /\ UNCHANGED <<service, taskVars, attempt, rows, parked, replayed>>

\* An UPDATE with the value computed from what was read, or the INSERT of the first
\* row; it waits for the row lock, and the INSERT fails when the row is there.
WriteCounter(i) ==
  /\ stage[i] = "read"
  /\ \A j \in Ingesters : ~HoldsCounter(j)
  /\ \/ /\ read[i] = 0 => counter = 0
        /\ Goto(i, "flushed")
        /\ UNCHANGED attempt
     \/ /\ read[i] = 0
        /\ counter > 0
        /\ Abort(i)
  /\ UNCHANGED <<service, taskVars, storeVars>>

\* What the transaction of i leaves in the database.
Effects(i) ==
  /\ rows' = IF stage[i] = "flushed" THEN [rows EXCEPT ![event[i]] = @ + 1] ELSE rows
  /\ counter' = IF HoldsCounter(i) THEN read[i] + 1 ELSE counter
  /\ replayed' = IF letter[i] > 0 THEN replayed \cup {letter[i]} ELSE replayed
  /\ UNCHANGED parked

Commit(i) ==
  /\ stage[i] \in {"flushed", "ready"}
  /\ Effects(i)
  /\ IF i = Loop
     THEN Close(i, "idle") /\ position' = position + 1 /\ attempt' = 1
     ELSE Close(i, "done") /\ UNCHANGED <<position, attempt>>
  /\ UNCHANGED <<service, loop, offset, upto>>

\* Any await may raise; an error of the commit does not say that it did not happen.
IngestFails(i) ==
  /\ stage[i] \notin {"idle", "parking", "done"}
  /\ OneMoreFault
  /\ Abort(i)
  /\ \/ UNCHANGED storeVars
     \/ stage[i] \in {"flushed", "ready"} /\ Effects(i)
  /\ UNCHANGED <<service, taskVars>>

-----------------------------------------------------------------------------
(* The consumer task *)

Between == loop = "running" /\ stage[Loop] = "idle"

\* getmany: some of the records that are there.
Fetch ==
  /\ Between
  /\ offset = upto
  /\ upto' \in position..Len(log)
  /\ UNCHANGED <<service, loop, offset, position, attempt, stage, txVars, storeVars>>

Handle ==
  /\ Between
  /\ position <= upto
  /\ Begin(Loop, log[position], 0)

\* The last attempt has failed: the record is put aside.
Park ==
  /\ stage[Loop] = "parking"
  /\ parked' = parked \cup {position}
  /\ position' = position + 1
  /\ attempt' = 1
  /\ Goto(Loop, "idle")
  /\ UNCHANGED <<service, loop, offset, upto, rows, counter, replayed>>

\* Faulty variant: offsets are committed as soon as records are fetched.
CommitOffsetsEarly ==
  /\ Between
  /\ offset < upto
  /\ offset' = upto
  /\ UNCHANGED <<service, loop, position, upto, attempt, stage, txVars, storeVars>>

CommitOffsets ==
  /\ Between
  /\ position > upto
  /\ offset < upto
  /\ offset' = upto
  /\ UNCHANGED <<service, loop, position, upto, attempt, stage, txVars, storeVars>>

\* An error of Kafka between records, or of the database while a record is put
\* aside (its row may be committed), goes through the task and ends it.
TaskFails ==
  /\ loop = "running"
  /\ stage[Loop] \in {"idle", "parking"}
  /\ OneMoreFault
  /\ loop' = "ended"
  /\ Goto(Loop, "idle")
  /\ \/ UNCHANGED parked
     \/ stage[Loop] = "parking" /\ parked' = parked \cup {position}
  /\ UNCHANGED <<service, offset, position, upto, attempt, rows, counter, replayed>>

-----------------------------------------------------------------------------
(* Requests, and the process *)

Post(q) ==
  /\ stage[q] = "idle"
  /\ loop # "down"
  /\ \E e \in Events : row[e] # "absent" /\ Begin(q, e, 0)

\* Faulty variant: the dead letter is marked first.
ReplayMarkedFirst(q) ==
  /\ stage[q] = "idle"
  /\ loop # "down"
  /\ \E p \in parked :
       /\ stage' = [stage EXCEPT ![q] = "new"]
       /\ event' = [event EXCEPT ![q] = log[p]]
       /\ replayed' = replayed \cup {p}
  /\ UNCHANGED <<service, taskVars, attempt, read, letter, rows, counter, parked>>

Replay(q) ==
  /\ stage[q] = "idle"
  /\ loop # "down"
  /\ \E p \in parked : Begin(q, log[p], p)

\* The task that starts again is given the records from the committed offset on.
ConsumerCrash ==
  /\ loop # "down"
  /\ OneMoreFault
  /\ loop' = "down"
  /\ stage' = [i \in Ingesters |-> IF i = Loop \/ stage[i] = "idle" THEN "idle" ELSE "done"]
  /\ event' = [i \in Ingesters |-> 0]
  /\ read' = [i \in Ingesters |-> 0]
  /\ letter' = [i \in Ingesters |-> 0]
  /\ position' = offset + 1
  /\ upto' = offset
  /\ attempt' = 1
  /\ UNCHANGED <<service, offset, storeVars>>

\* Faulty variant: the task starts again at the end of the topic.
ConsumerRestartLatest ==
  /\ loop = "down"
  /\ loop' = "running"
  /\ position' = Len(log) + 1
  /\ upto' = Len(log)
  /\ offset' = Len(log)
  /\ UNCHANGED <<service, attempt, stage, txVars, storeVars>>

ConsumerRestart ==
  /\ loop = "down"
  /\ loop' = "running"
  /\ UNCHANGED <<service, offset, position, upto, attempt, stage, txVars, storeVars>>

-----------------------------------------------------------------------------

IngestProgress(i) ==
  \/ Insert(i)
  \/ ReadCounter(i)
  \/ WriteCounter(i)
  \/ Commit(i)

TaskProgress ==
  \/ Fetch
  \/ Handle
  \/ Park
  \/ CommitOffsets
  \/ ConsumerRestart

ConsumerNext ==
  \/ \E i \in Ingesters : IngestProgress(i) /\ UNCHANGED faults
  \/ \E i \in Ingesters : IngestFails(i)
  \/ TaskProgress /\ UNCHANGED faults
  \/ TaskFails
  \/ \E q \in Requests : (Post(q) \/ Replay(q)) /\ UNCHANGED faults
  \/ ConsumerCrash

Next ==
  \/ RelayNext /\ UNCHANGED consumerVars
  \/ ConsumerNext /\ UNCHANGED relayVars

Spec == Init /\ [][Next]_vars

\* Tasks, transactions and restarts go on; nothing is assumed of failures.
Fairness ==
  /\ WF_vars(RelayProgress /\ UNCHANGED consumerVars)
  /\ WF_vars(TaskProgress /\ UNCHANGED <<relayVars, faults>>)
  /\ \A i \in Ingesters : WF_vars(IngestProgress(i) /\ UNCHANGED <<relayVars, faults>>)

FairSpec == Spec /\ Fairness

-----------------------------------------------------------------------------
(* The inductive invariant *)

Active(i) == stage[i] \notin {"idle", "parking", "done"}

StoredEvents == {e \in Events : Stored(e)}

SentIsInLog ==
  \A e \in Events : (e \in sent \/ row[e] = "published") => \E p \in 1..Len(log) : log[p] = e

OffsetsInOrder ==
  /\ offset <= upto
  /\ offset < position
  /\ position <= upto + 1
  /\ upto <= Len(log)
  /\ parked \subseteq 1..Len(log)

\* An ingester works on its record, or on the one of its dead letter.
EventsInHand ==
  /\ \A i \in Ingesters : Active(i) => event[i] \in Events
  /\ \A i \in Ingesters : letter[i] > 0 => letter[i] \in parked /\ event[i] = log[letter[i]]
  /\ letter[Loop] = 0
  /\ Active(Loop) => position <= upto /\ event[Loop] = log[position]
  /\ stage[Loop] = "parking" => position <= upto

\* The unique index.
OneInsertOfEach ==
  /\ \A i \in Ingesters : stage[i] = "ready" => Stored(event[i])
  /\ \A i \in Ingesters : \A e \in Events : HoldsEvent(i, e) => ~Stored(e)
  /\ \A i, j \in Ingesters : \A e \in Events : HoldsEvent(i, e) /\ HoldsEvent(j, e) => i = j

HandledBeforePosition ==
  \A p \in 1..(position - 1) : Stored(log[p]) \/ p \in parked

CountsAreBehind ==
  /\ service = "analytics" => counter <= Cardinality(StoredEvents)
  /\ \A i \in Ingesters : read[i] <= Cardinality(StoredEvents)
  /\ service = "notification" => counter = 0

-----------------------------------------------------------------------------
(* Properties *)

\* A record the consumer group will not see again has had its effect or a dead letter.
NothingSkipped ==
  \A p \in 1..offset : Stored(log[p]) \/ p \in parked

\* One row for an event, whatever is sent, fetched or asked for twice.
RowOnce == \A e \in Events : rows[e] <= 1

\* The counter never counts an event twice, nor one that is not stored.
CounterNeverAhead == counter <= Cardinality(StoredEvents)

\* As long as nothing but the task ingests, the counter counts every stored event.
TaskAloneCountsAll ==
  (service = "analytics" /\ \A q \in Requests : stage[q] = "idle")
     => counter = Cardinality(StoredEvents)

\* A dead letter marked as replayed has had its effect.
ReplayedIsStored == \A p \in replayed : Stored(log[p])

\* What the task has read is the counter as long as it is alone.
TaskAloneReadsLast ==
  (service = "analytics" /\ \A q \in Requests : stage[q] = "idle")
     => (stage[Loop] \in {"read", "flushed"} => read[Loop] = counter)

\* The invariant the proofs are by.
IndInv ==
  /\ TypeOK
  /\ SentIsInLog
  /\ OffsetsInOrder
  /\ EventsInHand
  /\ OneInsertOfEach
  /\ RowOnce
  /\ HandledBeforePosition
  /\ CountsAreBehind
  /\ TaskAloneCountsAll
  /\ TaskAloneReadsLast
  /\ ReplayedIsStored

\* Every committed event has its effect or a dead letter, or an error has ended a task.
EveryEventArrives ==
  \A e \in Events :
    row[e] = "waiting" ~>
      \/ Stored(e)
      \/ \E p \in parked : log[p] = e
      \/ relay = "ended"
      \/ loop = "ended"

-----------------------------------------------------------------------------
(* Refinement *)

Emitted == {e \in Events : row[e] # "absent"}
Aside == {log[p] : p \in parked}
Settled == {log[p] : p \in replayed}

Abstract == INSTANCE EventEffects WITH
  emitted <- Emitted, stored <- StoredEvents, aside <- Aside, settled <- Settled

\* Seen without relay, topic, offsets and transactions the pipeline behaves as
\* EventEffects: a committed event takes effect once and for good.
EffectsSpec == Abstract!Spec
=============================================================================
