---------------------------- MODULE OutboxRelay ----------------------------
(***************************************************************************)
(* The way of an event from the outbox table of a service into its Kafka   *)
(* topic: OutboxRelay.publish_batch and the task of the service that calls *)
(* it in a loop.  Four services have such a task.  The one of enrollment   *)
(* catches every error and goes on (guarded); in auth, progress and        *)
(* publishing an error ends the task, and nothing starts it again before   *)
(* the process is restarted.                                               *)
(*                                                                         *)
(* An event is the number of its row in the order of created_at.  Rows are *)
(* committed in any order: a transaction that began early may commit late. *)
(***************************************************************************)
EXTENDS Integers, FiniteSets, Sequences

CONSTANTS
  Events,     \* outbox rows, ordered by created_at
  BatchSize,  \* batch_size of publish_batch
  MaxFaults   \* bound on the failures of all parts

ASSUME RelayAssumption ==
  /\ Events \subseteq Nat
  /\ IsFiniteSet(Events)
  /\ BatchSize \in Nat \ {0}
  /\ MaxFaults \in Nat

VARIABLES
  guarded,  \* whether the task catches the errors of publish_batch; fixed
  row,      \* row[e]: absent, waiting (committed, not published), published
  relay,    \* the task: running, ended by an error, down with its process
  taken,    \* the rows of the batch the task has selected
  sent,     \* those it has sent
  log,      \* the topic
  faults    \* failures so far

relayVars == <<guarded, row, relay, taken, sent, log>>

RelayTypeOK ==
  /\ guarded \in BOOLEAN
  /\ row \in [Events -> {"absent", "waiting", "published"}]
  /\ relay \in {"running", "ended", "down"}
  /\ taken \in SUBSET Events
  /\ sent \in SUBSET taken
  /\ log \in Seq(Events)
  /\ faults \in Nat

RelayInit ==
  /\ guarded \in BOOLEAN
  /\ row = [e \in Events |-> "absent"]
  /\ relay = "running"
  /\ taken = {}
  /\ sent = {}
  /\ log = <<>>
  /\ faults = 0

OneMoreFault ==
  /\ faults < MaxFaults
  /\ faults' = faults + 1

Waiting == {e \in Events : row[e] = "waiting"}

\* The request that wrote the event commits.
Emit(e) ==
  /\ row[e] = "absent"
  /\ row' = [row EXCEPT ![e] = "waiting"]
  /\ UNCHANGED <<guarded, relay, taken, sent, log, faults>>

\* The query of publish_batch: the oldest rows not yet published.
SelectBatch ==
  /\ relay = "running"
  /\ taken = {}
  /\ Waiting # {}
  /\ taken' = {e \in Waiting : Cardinality({d \in Waiting : d < e}) < BatchSize}
  /\ UNCHANGED <<guarded, row, relay, sent, log, faults>>

\* The event whose turn it is.
Turn(e) == e \in taken \ sent /\ \A d \in taken \ sent : e <= d

Send(e) ==
  /\ relay = "running"
  /\ Turn(e)
  /\ log' = Append(log, e)
  /\ sent' = sent \cup {e}
  /\ UNCHANGED <<guarded, row, relay, taken, faults>>

MarkPublished(S) == row' = [e \in Events |-> IF e \in S THEN "published" ELSE row[e]]

CommitBatch ==
  /\ relay = "running"
  /\ taken # {}
  /\ sent = taken
  /\ MarkPublished(taken)
  /\ taken' = {}
  /\ sent' = {}
  /\ UNCHANGED <<guarded, relay, log, faults>>

\* The error rolls the batch back, also what has been sent of it, ...
BatchLost ==
  /\ OneMoreFault
  /\ taken' = {}
  /\ sent' = {}
  /\ UNCHANGED guarded

\* ... and goes through the loop of the task unless the task catches it.
TaskGoesOn == relay' = IF guarded THEN "running" ELSE "ended"

\* Select, send or commit raises; a send or a commit may have happened all the same.
RelayFails ==
  /\ relay = "running"
  /\ BatchLost
  /\ TaskGoesOn
  /\ \/ UNCHANGED <<row, log>>
     \/ \E e \in Events : Turn(e) /\ log' = Append(log, e) /\ UNCHANGED row
     \/ /\ sent = taken
        /\ taken # {}
        /\ MarkPublished(taken)
        /\ UNCHANGED log

RelayCrash ==
  /\ relay # "down"
  /\ BatchLost
  /\ relay' = "down"
  /\ UNCHANGED <<row, log>>

RelayRestart ==
  /\ relay = "down"
  /\ relay' = "running"
  /\ UNCHANGED <<guarded, row, taken, sent, log, faults>>

RelayProgress ==
  \/ SelectBatch
  \/ \E e \in Events : Send(e)
  \/ CommitBatch
  \/ RelayRestart

RelayNext ==
  \/ \E e \in Events : Emit(e)
  \/ RelayProgress
  \/ RelayFails
  \/ RelayCrash

-----------------------------------------------------------------------------

\* A row marked as published is in the topic, however often batches are lost.
PublishedIsInLog ==
  \A e \in Events : row[e] = "published" => \E p \in 1..Len(log) : log[p] = e
=============================================================================
