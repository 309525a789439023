----------------------------- MODULE Publishing -----------------------------
(***************************************************************************)
(* The publishing service: the versions of one course, the Temporal        *)
(* workflow that takes each from preflight through review to the live      *)
(* course, and the requests that create, approve, reject, retry, cancel    *)
(* and activate versions meanwhile.                                        *)
(*                                                                         *)
(* Temporal keeps a run's place durably and executes an activity until an  *)
(* attempt reports success: no activity has a retry policy, so attempts    *)
(* are not limited, and an attempt that committed may not get to report.   *)
(* Statements of one transaction with no call to another system between    *)
(* them are one step.                                                      *)
(*                                                                         *)
(* Two routes raise today before they change anything: a retry in          *)
(* reset_for_version (values(metadata={}) names no attribute of the        *)
(* steps), a cancellation in temporal.cancel_workflow (the client has no   *)
(* such method).  With Mended = {} the module is that code; Mended names   *)
(* the routes taken as they are meant, and the theorems hold for every     *)
(* Mended.                                                                 *)
(***************************************************************************)
EXTENDS Naturals, FiniteSets

CONSTANTS
  Versions,    \* the versions of one course, each created by one request
  Requests,    \* the other requests
  Kinds,       \* what they may be
  Mended,      \* the routes, of retry and cancel, that get past their faulty call
  OverBudget,  \* versions that may exceed the visual enrichment budget
  MaxEvents,   \* bound on the events written for one version
  NoVersion    \* current_version_id of a course never activated

ASSUME PublishingAssumption ==
  /\ Kinds \subseteq {"approve", "reject", "retry", "cancel", "activate"}
  /\ Mended \subseteq {"retry", "cancel"}
  /\ OverBudget \subseteq Versions
  /\ MaxEvents \in Nat
  /\ NoVersion \notin Versions
  /\ Versions \cap Requests = {}

VARIABLES
  status,     \* status[v]: committed status of the version row
  approval,   \* its approval_state
  activated,  \* whether its activated_at is set
  runId,      \* its run_id, the number of a run; 0 for NULL
  creating,   \* where the request that creates v is
  run,        \* where the latest workflow run of v is
  runs,       \* how many runs of v were started
  decision,   \* _approval of the latest run
  cancelling, \* versions whose run has a cancellation to process
  attempt,    \* the attempt of an activity of v that is under way
  loaded,     \* the status that attempt loaded
  request,    \* the other requests, with what they read of the row
  chosen,     \* the active versions an activation found besides its own
  current,    \* the course's current_version_id
  late,       \* versions with an abandoned activate-version call on its way
  points,     \* versions with vectors in the Qdrant collection
  announced,  \* announced[v]: committed CoursePublished outbox rows
  served,     \* history: versions the course service has activated
  approved,   \* history: versions whose workflow got an approve signal
  reviewed    \* history: those approved by a request that found them in review

rowVars == <<status, approval, activated>>
runVars == <<runId, creating, run, runs, decision, cancelling>>
attemptVars == <<attempt, loaded>>
liveVars == <<current, late, points, announced, served, approved, reviewed>>

publishingVars == <<rowVars, runVars, attemptVars, request, chosen, liveVars>>

InFlight == {"PREPARING", "REVIEW_REQUIRED", "PUBLISHING"}

Status == InFlight \cup {"READY", "FAILED", "CANCELLED", "SUPERSEDED"}

\* The activities of a run and what it waits for, in order.
Stages ==
  {"preflight", "awaiting", "approving", "rejecting", "extract", "chunk",
   "embed", "index", "quality", "finalize", "failing"}

Finalizing == {"calling", "served", "chosen"}

\* Where a request under way may be.
Labels == {"read", "signalled", "prepared", "started", "chosen", "calling"}

\* A request that is not under way.
Idle == [at |-> "idle", kind |-> "none", version |-> NoVersion,
         status |-> "ABSENT", approval |-> "PENDING", run |-> 0]

Init ==
  /\ status = [v \in Versions |-> "ABSENT"]
  /\ approval = [v \in Versions |-> "PENDING"]
  /\ activated = [v \in Versions |-> FALSE]
  /\ runId = [v \in Versions |-> 0]
  /\ creating = [v \in Versions |-> "idle"]
  /\ run = [v \in Versions |-> "none"]
  /\ runs = [v \in Versions |-> 0]
  /\ decision = [v \in Versions |-> "none"]
  /\ cancelling = {}
  /\ attempt = [v \in Versions |-> "none"]
  /\ loaded = [v \in Versions |-> "ABSENT"]
  /\ request = [q \in Requests |-> Idle]
  /\ chosen = [a \in Versions \cup Requests |-> {}]
  /\ current = NoVersion
  /\ late = {}
  /\ points = {}
  /\ announced = [v \in Versions |-> 0]
  /\ served = {}
  /\ approved = {}
  /\ reviewed = {}

Open(v) == run[v] \in Stages

\* An UPDATE of a version row waits for the transaction that finalizes it.
RowFree(v) == attempt[v] \notin Finalizing

\* idx_one_publishing_per_course: the other versions of the course that are
\* committed in flight, and those that may still be.
OthersInFlight(v) == {u \in Versions \ {v} : status[u] \in InFlight}

IndexWaits(v) ==
  \E u \in Versions \ {v} :
    \/ creating[u] = "pending"
    \/ u \in OthersInFlight(v) /\ ~RowFree(u)

IndexFree(v) == ~IndexWaits(v) /\ OthersInFlight(v) = {}

\* get_active_version_id_for_course.
ActiveBesides(v) == {u \in Versions \ {v} : status[u] = "READY" /\ activated[u]}

-----------------------------------------------------------------------------
(* POST /versions *)

CreatingAt(v, label) == creating' = [creating EXCEPT ![v] = label]

\* PUBLISHING_IN_PROGRESS when another version is in flight.
CreateCheck(v) ==
  /\ creating[v] = "idle"
  /\ OthersInFlight(v) = {}
  /\ CreatingAt(v, "checked")
  /\ UNCHANGED <<rowVars, runId, run, runs, decision, cancelling, attemptVars, request, chosen, liveVars>>

CreateInsert(v) ==
  /\ creating[v] = "checked"
  /\ ~IndexWaits(v)
  /\ CreatingAt(v, IF IndexFree(v) THEN "pending" ELSE "over")
  /\ UNCHANGED <<rowVars, runId, run, runs, decision, cancelling, attemptVars, request, chosen, liveVars>>

\* The manifest is in MinIO, the rows are written.
CreateCommit(v) ==
  /\ creating[v] = "pending"
  /\ CreatingAt(v, "starting")
  /\ status' = [status EXCEPT ![v] = "PREPARING"]
  /\ UNCHANGED <<approval, activated, runId, run, runs, decision, cancelling, attemptVars, request, chosen, liveVars>>

\* start_workflow: refused while a run with the workflow's id is open.
StartRun(v) ==
  /\ ~Open(v)
  /\ run' = [run EXCEPT ![v] = "preflight"]
  /\ runs' = [runs EXCEPT ![v] = @ + 1]
  /\ decision' = [decision EXCEPT ![v] = "none"]
  /\ cancelling' = cancelling \ {v}

CreateStart(v) ==
  /\ creating[v] = "starting"
  /\ StartRun(v)
  /\ CreatingAt(v, "started")
  /\ UNCHANGED <<rowVars, runId, attemptVars, request, chosen, liveVars>>

\* attach_run writes the id of the run this request started, which is the first
\* one whatever was started since.
CreateAttach(v) ==
  /\ creating[v] = "started"
  /\ RowFree(v)
  /\ CreatingAt(v, "over")
  /\ runId' = [runId EXCEPT ![v] = 1]
  /\ UNCHANGED <<rowVars, run, runs, decision, cancelling, attemptVars, request, chosen, liveVars>>

\* Temporal did not answer, whether it started the run or not: FAILED, written
\* over whatever the run has made of the row.
CreateFailed(v) ==
  /\ creating[v] \in {"starting", "started"}
  /\ RowFree(v)
  /\ CreatingAt(v, "over")
  /\ status' = [status EXCEPT ![v] = "FAILED"]
  /\ UNCHANGED <<approval, activated, runId, run, runs, decision, cancelling, attemptVars, request, chosen, liveVars>>

\* The process dies, or fails where nothing catches it.
CreateDies(v) ==
  /\ creating[v] \in {"checked", "pending", "starting", "started"}
  /\ CreatingAt(v, "over")
  /\ UNCHANGED <<rowVars, runId, run, runs, decision, cancelling, attemptVars, request, chosen, liveVars>>
-----------------------------------------------------------------------------
(* The workflow run and its activities *)

At(v, stage) == run' = [run EXCEPT ![v] = stage]

\* An attempt that committed reports, and the run goes on, or its report is
\* lost and the activity is executed again.
Reports(v, stage) == At(v, stage) \/ UNCHANGED run

\* The row lock on an activity's step row lets one attempt run at a time.
Attempt(v, label) ==
  /\ attempt[v] = "none"
  /\ attempt' = [attempt EXCEPT ![v] = label]

AttemptEnds(v) ==
  /\ attempt' = [attempt EXCEPT ![v] = "none"]
  /\ loaded' = [loaded EXCEPT ![v] = "ABSENT"]

\* An attempt can outlive its stage when the run was cancelled meanwhile.
ReportsFrom(v, stage, next) ==
  IF run[v] = stage THEN Reports(v, next) ELSE UNCHANGED run

PreflightBegin(v) ==
  /\ run[v] = "preflight"
  /\ Attempt(v, "reviewing")
  /\ loaded' = [loaded EXCEPT ![v] = status[v]]
  /\ UNCHANGED <<rowVars, runVars, request, chosen, liveVars>>

\* REVIEW_REQUIRED is written unless that is what the attempt loaded: the ORM
\* leaves a column out of the UPDATE that has not changed since.
BackToReview(v) ==
  IF loaded[v] = "REVIEW_REQUIRED"
  THEN UNCHANGED status
  ELSE IndexFree(v) /\ status' = [status EXCEPT ![v] = "REVIEW_REQUIRED"]

\* The version is up for review; an attempt that fails leaves its row alone.
PreflightEnd(v) ==
  /\ attempt[v] = "reviewing"
  /\ BackToReview(v)
  /\ AttemptEnds(v)
  /\ ReportsFrom(v, "preflight", "awaiting")
  /\ UNCHANGED <<approval, activated, runId, creating, runs, decision, cancelling, request, chosen, liveVars>>

\* Faulty variant: the run does not wait for a decision.
WakeUndecided(v) ==
  /\ run[v] = "awaiting"
  /\ At(v, IF decision[v] = "reject" THEN "rejecting" ELSE "approving")
  /\ UNCHANGED <<rowVars, runId, creating, runs, decision, cancelling, attemptVars, request, chosen, liveVars>>

\* Signals that came before the wait count; of several the last one does.
Wake(v) ==
  /\ run[v] = "awaiting"
  /\ decision[v] # "none"
  /\ At(v, IF decision[v] = "approve" THEN "approving" ELSE "rejecting")
  /\ UNCHANGED <<rowVars, runId, creating, runs, decision, cancelling, attemptVars, request, chosen, liveVars>>

MarkRejected(v) ==
  /\ run[v] = "rejecting"
  /\ RowFree(v)
  /\ status' = [status EXCEPT ![v] = "CANCELLED"]
  /\ approval' = [approval EXCEPT ![v] = "REJECTED"]
  /\ Reports(v, "closed")
  /\ UNCHANGED <<activated, runId, creating, runs, decision, cancelling, attemptVars, request, chosen, liveVars>>

\* Faulty variant: no partial unique index.
MarkPublishingUnindexed(v) ==
  /\ run[v] = "approving"
  /\ RowFree(v)
  /\ status' = [status EXCEPT ![v] = "PUBLISHING"]
  /\ approval' = [approval EXCEPT ![v] = "APPROVED"]
  /\ Reports(v, "extract")
  /\ UNCHANGED <<activated, runId, creating, runs, decision, cancelling, attemptVars, request, chosen, liveVars>>

MarkPublishing(v) ==
  /\ run[v] = "approving"
  /\ RowFree(v)
  /\ IndexFree(v)
  /\ status' = [status EXCEPT ![v] = "PUBLISHING"]
  /\ approval' = [approval EXCEPT ![v] = "APPROVED"]
  /\ Reports(v, "extract")
  /\ UNCHANGED <<activated, runId, creating, runs, decision, cancelling, attemptVars, request, chosen, liveVars>>

ExtractBegin(v) ==
  /\ run[v] = "extract"
  /\ Attempt(v, "extracting")
  /\ loaded' = [loaded EXCEPT ![v] = status[v]]
  /\ UNCHANGED <<rowVars, runVars, request, chosen, liveVars>>

ExtractEnd(v) ==
  /\ attempt[v] = "extracting"
  /\ AttemptEnds(v)
  /\ ReportsFrom(v, "extract", "chunk")
  /\ UNCHANGED <<rowVars, runId, creating, runs, decision, cancelling, request, chosen, liveVars>>

\* BUDGET_EXCEEDED: the activity fails, hence is executed again.  Which pages count is up
\* to OCR and the vision model: one attempt exceeds the budget and another may not.
BudgetGate(v) ==
  /\ attempt[v] = "extracting"
  /\ v \in OverBudget
  /\ BackToReview(v)
  /\ AttemptEnds(v)
  /\ UNCHANGED <<approval, activated, runVars, request, chosen, liveVars>>

\* chunk_content, generate_embeddings, generate_quality_report: artifacts and
\* rows of their own, which the next stage gets by id.
ContentStage(v) ==
  /\ attempt[v] = "none"
  /\ \/ run[v] = "chunk" /\ Reports(v, "embed")
     \/ run[v] = "embed" /\ Reports(v, "index")
     \/ run[v] = "quality" /\ Reports(v, "finalize")
  /\ UNCHANGED <<rowVars, runId, creating, runs, decision, cancelling, attemptVars, request, chosen, liveVars>>

\* upsert_version_safe: delete, then upsert.
IndexDelete(v) ==
  /\ run[v] = "index"
  /\ Attempt(v, "indexing")
  /\ points' = points \ {v}
  /\ UNCHANGED <<rowVars, runVars, loaded, request, chosen, current, late, announced, served, approved, reviewed>>

\* Faulty variant: the upsert's error is swallowed.
IndexUpsertMaybe(v) ==
  /\ attempt[v] = "indexing"
  /\ AttemptEnds(v)
  /\ points' \in {points, points \cup {v}}
  /\ ReportsFrom(v, "index", "quality")
  /\ UNCHANGED <<rowVars, runId, creating, runs, decision, cancelling, request, chosen, current, late, announced, served, approved, reviewed>>

IndexUpsert(v) ==
  /\ attempt[v] = "indexing"
  /\ AttemptEnds(v)
  /\ points' = points \cup {v}
  /\ ReportsFrom(v, "index", "quality")
  /\ UNCHANGED <<rowVars, runId, creating, runs, decision, cancelling, request, chosen, current, late, announced, served, approved, reviewed>>

\* Faulty variant: only a version that is PUBLISHING can be finalized.
FinalizeFlushOnce(v) ==
  /\ run[v] = "finalize"
  /\ status[v] = "PUBLISHING"
  /\ Attempt(v, "calling")
  /\ UNCHANGED <<rowVars, runVars, loaded, request, chosen, liveVars>>

\* finalize_version: READY is flushed, then the course service is called.
FinalizeFlush(v) ==
  /\ run[v] = "finalize"
  /\ Attempt(v, "calling")
  /\ UNCHANGED <<rowVars, runVars, loaded, request, chosen, liveVars>>

\* CourseService.activate_course_version, in its own transaction.
FinalizeServed(v) ==
  /\ attempt[v] = "calling"
  /\ attempt' = [attempt EXCEPT ![v] = "served"]
  /\ current' = v
  /\ served' = served \cup {v}
  /\ UNCHANGED <<rowVars, runVars, loaded, request, chosen, late, points, announced, approved, reviewed>>

\* Faulty variant: the course service is told after the commit.
FinalizeChooseUnserved(v) ==
  /\ attempt[v] \in {"calling", "served"}
  /\ Cardinality(ActiveBesides(v)) <= 1
  /\ attempt' = [attempt EXCEPT ![v] = "chosen"]
  /\ chosen' = [chosen EXCEPT ![v] = ActiveBesides(v)]
  /\ UNCHANGED <<rowVars, runVars, loaded, request, liveVars>>

\* activate_version finds whom to supersede; of two it can make nothing.
FinalizeChoose(v) ==
  /\ attempt[v] = "served"
  /\ Cardinality(ActiveBesides(v)) <= 1
  /\ attempt' = [attempt EXCEPT ![v] = "chosen"]
  /\ chosen' = [chosen EXCEPT ![v] = ActiveBesides(v)]
  /\ UNCHANGED <<rowVars, runVars, loaded, request, liveVars>>

\* The rows of an activation of v by a: previous ones SUPERSEDED, v active.
Activated(a, v, s) ==
  /\ \A u \in chosen[a] : RowFree(u)
  /\ status' = [u \in Versions |->
                  IF u = v THEN s ELSE IF u \in chosen[a] THEN "SUPERSEDED" ELSE status[u]]
  /\ activated' = [activated EXCEPT ![v] = TRUE]

FinalizeCommit(v) ==
  /\ attempt[v] = "chosen"
  /\ announced[v] < MaxEvents
  /\ Activated(v, v, "READY")
  /\ AttemptEnds(v)
  /\ chosen' = [chosen EXCEPT ![v] = {}]
  /\ announced' = [announced EXCEPT ![v] = @ + 1]
  /\ ReportsFrom(v, "finalize", "closed")
  /\ UNCHANGED <<approval, runId, creating, runs, decision, cancelling, request, current, late, points, served, approved, reviewed>>

\* The call fails or times out, or there are two versions to supersede: the
\* except clause commits, and with it the flushed READY.  A call that timed
\* out may still be served.
FinalizeFailed(v) ==
  /\ attempt[v] \in {"calling", "served"}
  /\ AttemptEnds(v)
  /\ status' = [status EXCEPT ![v] = "READY"]
  /\ late' \in IF attempt[v] = "calling" THEN {late, late \cup {v}} ELSE {late}
  /\ UNCHANGED <<approval, activated, runVars, request, chosen, current, points, announced, served, approved, reviewed>>

ServeLate(v) ==
  /\ v \in late
  /\ late' = late \ {v}
  /\ current' = v
  /\ served' = served \cup {v}
  /\ UNCHANGED <<rowVars, runVars, attemptVars, request, chosen, points, announced, approved, reviewed>>

\* The worker dies, or the transaction cannot be committed.
AttemptDies(v) ==
  /\ attempt[v] # "none"
  /\ AttemptEnds(v)
  /\ chosen' = [chosen EXCEPT ![v] = {}]
  /\ UNCHANGED <<rowVars, runVars, request, liveVars>>

\* Cancellation reaches the run: while it waits for a decision it ends; while
\* an activity runs, that fails and the run marks the version failed.
Cancel(v) ==
  /\ v \in cancelling
  /\ Open(v)
  /\ cancelling' = cancelling \ {v}
  /\ At(v, IF run[v] \in {"awaiting", "failing"} THEN "closed" ELSE "failing")
  /\ UNCHANGED <<rowVars, runId, creating, runs, decision, attemptVars, request, chosen, liveVars>>

\* Faulty variant: a cancelled version cannot be marked failed.
MarkFailedGuarded(v) ==
  /\ run[v] = "failing"
  /\ status[v] # "CANCELLED"
  /\ RowFree(v)
  /\ status' = [status EXCEPT ![v] = "FAILED"]
  /\ Reports(v, "closed")
  /\ UNCHANGED <<approval, activated, runId, creating, runs, decision, cancelling, attemptVars, request, chosen, liveVars>>

MarkFailed(v) ==
  /\ run[v] = "failing"
  /\ RowFree(v)
  /\ status' = [status EXCEPT ![v] = "FAILED"]
  /\ Reports(v, "closed")
  /\ UNCHANGED <<approval, activated, runId, creating, runs, decision, cancelling, attemptVars, request, chosen, liveVars>>

\* DELETE of the vectors of superseded versions after retention_days, long
\* after every attempt of their runs has ended.
CleanUp(v) ==
  /\ status[v] = "SUPERSEDED"
  /\ ~Open(v)
  /\ attempt[v] = "none"
  /\ v \in points
  /\ points' = points \ {v}
  /\ UNCHANGED <<rowVars, runVars, attemptVars, request, chosen, current, late, announced, served, approved, reviewed>>
-----------------------------------------------------------------------------
(* The other requests *)

Goto(q, label) == request' = [request EXCEPT ![q].at = label]

\* The request has its answer, or has failed.
Ends(q) == request' = [request EXCEPT ![q] = [Idle EXCEPT !.at = "over"]]

\* Each route loads the version first; 404 when there is none.
Receive(q) ==
  /\ request[q].at = "idle"
  /\ \E k \in Kinds, v \in Versions :
       /\ status[v] # "ABSENT"
       /\ request' = [request EXCEPT ![q] =
                       [at |-> "read", kind |-> k, version |-> v, status |-> status[v],
                        approval |-> approval[v], run |-> runId[v]]]
  /\ UNCHANGED <<rowVars, runVars, attemptVars, chosen, liveVars>>

\* A request to Temporal is for the run whose id was read, or for the latest.
Reaches(q) == Open(request[q].version) /\ request[q].run \in {0, runs[request[q].version]}

\* approve and reject: the signal goes out before the status is looked at.  A
\* run that has had its decision does not look at _approval again.
Signal(q) ==
  LET v == request[q].version IN
  /\ request[q].kind \in {"approve", "reject"}
  /\ request[q].at = "read"
  /\ Reaches(q)
  /\ Goto(q, "signalled")
  /\ decision' = IF run[v] \in {"preflight", "awaiting"}
                 THEN [decision EXCEPT ![v] = request[q].kind]
                 ELSE decision
  /\ approved' = IF request[q].kind = "approve" THEN approved \cup {v} ELSE approved
  /\ reviewed' = IF request[q].kind = "approve" /\ request[q].status = "REVIEW_REQUIRED"
                 THEN reviewed \cup {v}
                 ELSE reviewed
  /\ UNCHANGED <<rowVars, runId, creating, run, runs, cancelling, attemptVars, chosen, current, late, points, announced, served>>

Verdict(q) == IF request[q].kind = "approve" THEN "APPROVED" ELSE "REJECTED"

\* mark_approval_requested, on the row as the session loaded it at first.
RecordVerdict(q) ==
  LET v == request[q].version IN
  /\ request[q].kind \in {"approve", "reject"}
  /\ request[q].at = "signalled"
  /\ IF request[q].status # "REVIEW_REQUIRED"
     THEN Ends(q) /\ UNCHANGED approval
     ELSE /\ RowFree(v)
          /\ Ends(q)
          /\ approval' = IF request[q].approval = Verdict(q)
                         THEN approval
                         ELSE [approval EXCEPT ![v] = Verdict(q)]
  /\ UNCHANGED <<status, activated, runVars, attemptVars, chosen, liveVars>>

\* prepare_retry resets the step rows too, hence waits for a late attempt.
Retry(q) ==
  LET v == request[q].version IN
  /\ request[q].kind = "retry"
  /\ request[q].at = "read"
  /\ IF status[v] # "FAILED"
     THEN Ends(q) /\ UNCHANGED <<status, approval>>
     ELSE /\ "retry" \in Mended
          /\ attempt[v] = "none"
          /\ IndexFree(v)
          /\ Goto(q, "prepared")
          /\ status' = [status EXCEPT ![v] = "PREPARING"]
          /\ approval' = [approval EXCEPT ![v] = "PENDING"]
  /\ UNCHANGED <<activated, runVars, attemptVars, chosen, liveVars>>

RetryStart(q) ==
  /\ request[q].kind = "retry"
  /\ request[q].at = "prepared"
  /\ StartRun(request[q].version)
  /\ request' = [request EXCEPT ![q].at = "started",
                               ![q].run = runs[request[q].version] + 1]
  /\ UNCHANGED <<rowVars, runId, creating, attemptVars, chosen, liveVars>>

RetryAttach(q) ==
  /\ request[q].kind = "retry"
  /\ request[q].at = "started"
  /\ RowFree(request[q].version)
  /\ Ends(q)
  /\ runId' = [runId EXCEPT ![request[q].version] = request[q].run]
  /\ UNCHANGED <<rowVars, creating, run, runs, decision, cancelling, attemptVars, chosen, liveVars>>

RequestCancel(q) ==
  /\ request[q].kind = "cancel"
  /\ request[q].at = "read"
  /\ "cancel" \in Mended
  /\ Reaches(q)
  /\ Goto(q, "signalled")
  /\ cancelling' = cancelling \cup {request[q].version}
  /\ UNCHANGED <<rowVars, runId, creating, run, runs, decision, attemptVars, chosen, liveVars>>

\* mark_cancelled, on the row as the session loaded it at first.
RecordCancel(q) ==
  LET v == request[q].version IN
  /\ request[q].kind = "cancel"
  /\ request[q].at = "signalled"
  /\ IF request[q].status \notin InFlight
     THEN Ends(q) /\ UNCHANGED status
     ELSE /\ RowFree(v)
          /\ Ends(q)
          /\ status' = [status EXCEPT ![v] = "CANCELLED"]
  /\ UNCHANGED <<approval, activated, runVars, attemptVars, chosen, liveVars>>

ActivateChoose(q) ==
  LET v == request[q].version IN
  /\ request[q].kind = "activate"
  /\ request[q].at = "read"
  /\ IF status[v] # "READY" \/ Cardinality(ActiveBesides(v)) > 1
     THEN Ends(q) /\ UNCHANGED chosen
     ELSE /\ Goto(q, "chosen")
          /\ chosen' = [chosen EXCEPT ![q] = ActiveBesides(v)]
  /\ UNCHANGED <<rowVars, runVars, attemptVars, liveVars>>

\* Committed, then the course service is told.
ActivateCommit(q) ==
  LET v == request[q].version IN
  /\ request[q].at = "chosen"
  /\ RowFree(v)
  /\ Activated(q, v, status[v])
  /\ Goto(q, "calling")
  /\ chosen' = [chosen EXCEPT ![q] = {}]
  /\ UNCHANGED <<approval, runVars, attemptVars, liveVars>>

ActivateServed(q) ==
  /\ request[q].at = "calling"
  /\ Ends(q)
  /\ current' = request[q].version
  /\ served' = served \cup {request[q].version}
  /\ UNCHANGED <<rowVars, runVars, attemptVars, chosen, late, points, announced, approved, reviewed>>

\* An exception, an answer that does not come, or the process dies; the call
\* that was not answered may still be served.
Fail(q) ==
  /\ request[q].at \in Labels
  /\ Ends(q)
  /\ chosen' = [chosen EXCEPT ![q] = {}]
  /\ late' \in IF request[q].at = "calling" THEN {late, late \cup {request[q].version}} ELSE {late}
  /\ UNCHANGED <<rowVars, runVars, attemptVars, current, points, announced, served, approved, reviewed>>

-----------------------------------------------------------------------------
CreateNext(v) ==
  \/ CreateCheck(v)
  \/ CreateInsert(v)
  \/ CreateCommit(v)
  \/ CreateStart(v)
  \/ CreateAttach(v)
  \/ CreateFailed(v)
  \/ CreateDies(v)

\* What the worker does for a run when nothing fails.
WorkerStep(v) ==
  \/ PreflightBegin(v)
  \/ PreflightEnd(v)
  \/ Wake(v)
  \/ MarkRejected(v)
  \/ MarkPublishing(v)
  \/ ExtractBegin(v)
  \/ ExtractEnd(v)
  \/ BudgetGate(v)
  \/ ContentStage(v)
  \/ IndexDelete(v)
  \/ IndexUpsert(v)
  \/ FinalizeFlush(v)
  \/ FinalizeServed(v)
  \/ FinalizeChoose(v)
  \/ FinalizeCommit(v)
  \/ Cancel(v)
  \/ MarkFailed(v)

WorkerFault(v) == FinalizeFailed(v) \/ AttemptDies(v)

RequestNext(q) ==
  \/ Receive(q)
  \/ Signal(q)
  \/ RecordVerdict(q)
  \/ Retry(q)
  \/ RetryStart(q)
  \/ RetryAttach(q)
  \/ RequestCancel(q)
  \/ RecordCancel(q)
  \/ ActivateChoose(q)
  \/ ActivateCommit(q)
  \/ ActivateServed(q)
  \/ Fail(q)

Next ==
  \/ \E v \in Versions :
       \/ CreateNext(v)
       \/ WorkerStep(v)
       \/ WorkerFault(v)
       \/ ServeLate(v)
       \/ CleanUp(v)
  \/ \E q \in Requests : RequestNext(q)

Spec == Init /\ [][Next]_publishingVars

\* The action is taken and the run goes on.
Advancing(A, v) == A /\ run'[v] # run[v]

\* Temporal hands out what a run has reached until an attempt reports, no
\* attempt lasts for ever, and of attempts made again and again one gets through
\* each call it makes, and one reports.
Fairness ==
  \A v \in Versions :
    /\ WF_publishingVars(PreflightBegin(v))
    /\ WF_publishingVars(Wake(v))
    /\ WF_publishingVars(ExtractBegin(v))
    /\ WF_publishingVars(Advancing(ContentStage(v), v))
    /\ WF_publishingVars(IndexDelete(v))
    /\ WF_publishingVars(FinalizeFlush(v))
    /\ WF_publishingVars(AttemptDies(v))
    /\ WF_publishingVars(Cancel(v))
    /\ WF_publishingVars(Advancing(MarkRejected(v) \/ MarkPublishing(v) \/ MarkFailed(v), v))
    /\ SF_publishingVars(FinalizeServed(v))
    /\ SF_publishingVars(FinalizeChoose(v))
    /\ SF_publishingVars(Advancing(\/ PreflightEnd(v)
                                 \/ ExtractEnd(v)
                                 \/ IndexUpsert(v)
                                 \/ FinalizeCommit(v), v))

FairSpec == Spec /\ Fairness

-----------------------------------------------------------------------------
(* Properties *)

RequestRecord ==
  [at : Labels \cup {"idle", "over"}, kind : Kinds \cup {"none"}, version : Versions \cup {NoVersion},
   status : Status \cup {"ABSENT"}, approval : {"PENDING", "APPROVED", "REJECTED"}, run : Nat]

\* A request under way is about a version that exists.
RequestsTypeOK ==
  /\ request \in [Requests -> RequestRecord]
  /\ \A q \in Requests : request[q].at \in Labels =>
       request[q].version \in Versions /\ request[q].status \in Status

\* Every variable stays in its set.
TypeOK ==
  /\ status \in [Versions -> Status \cup {"ABSENT"}]
  /\ approval \in [Versions -> {"PENDING", "APPROVED", "REJECTED"}]
  /\ activated \in [Versions -> BOOLEAN]
  /\ runId \in [Versions -> Nat]
  /\ creating \in [Versions -> {"idle", "checked", "pending", "starting", "started", "over"}]
  /\ run \in [Versions -> Stages \cup {"none", "closed"}]
  /\ runs \in [Versions -> Nat]
  /\ decision \in [Versions -> {"none", "approve", "reject"}]
  /\ cancelling \in SUBSET Versions
  /\ attempt \in [Versions -> Finalizing \cup {"none", "reviewing", "extracting", "indexing"}]
  /\ loaded \in [Versions -> Status \cup {"ABSENT"}]
  /\ RequestsTypeOK
  /\ chosen \in [Versions \cup Requests -> SUBSET Versions]
  /\ current \in Versions \cup {NoVersion}
  /\ late \in SUBSET Versions
  /\ points \in SUBSET Versions
  /\ announced \in [Versions -> 0 .. MaxEvents]
  /\ served \in SUBSET Versions
  /\ approved \in SUBSET Versions
  /\ reviewed \in SUBSET Versions

\* At most one version of the course is in flight, although creation checks
\* long before it inserts, a retry brings a failed version back, and the
\* activities of a run write PUBLISHING or REVIEW_REQUIRED over any status.
OneInFlight ==
  \A u, v \in Versions : status[u] \in InFlight /\ status[v] \in InFlight => u = v

\* Students are never told of a version the course service was not switched to:
\* the CoursePublished event commits only after its activation was served,
\* however often finalize_version is executed.
AnnouncedWasServed == \A v \in Versions : announced[v] > 0 => v \in served

\* Whatever is cancelled, retried or executed twice, a version is not published
\* unless its workflow got an approve signal.
NothingPublishedUnapproved ==
  \A v \in Versions :
    status[v] \in {"PUBLISHING", "READY", "SUPERSEDED"} \/ v \in served => v \in approved

\* The row a request has inserted and not yet committed is alone in flight: the
\* index keeps everyone else's write waiting for it.
PendingAlone ==
  \A v \in Versions : creating[v] = "pending" =>
    /\ OthersInFlight(v) = {}
    /\ \A u \in Versions : creating[u] = "pending" => u = v

\* An attempt that chooses whom to supersede has had the version served.
ServedBeforeChosen ==
  \A v \in Versions : attempt[v] \in {"served", "chosen"} => v \in served

Approving == {"approving", "extract", "chunk", "embed", "index", "quality", "finalize"}

\* The approve signal is where the way to the live course begins: a run beyond
\* its decision, an attempt to finalize, a call on its way, an activation and
\* the versions it supersedes all have theirs behind them.
ApprovalComesFirst ==
  /\ \A v \in Versions :
       \/ decision[v] = "approve"
       \/ run[v] \in Approving
       \/ attempt[v] \in Finalizing \cup {"extracting", "indexing"}
       \/ v \in late
       => v \in approved
  /\ \A q \in Requests :
       request[q].at \in {"chosen", "calling"} => request[q].version \in approved
  /\ \A a \in Versions \cup Requests : chosen[a] \subseteq approved

\* The inductive invariant.
IndInv ==
  /\ TypeOK
  /\ OneInFlight
  /\ PendingAlone
  /\ AnnouncedWasServed
  /\ ServedBeforeChosen
  /\ NothingPublishedUnapproved
  /\ ApprovalComesFirst

\* What semantic search offers can be searched: the course's current version,
\* once READY and activated, has its vectors, although an attempt to index
\* deletes them first and a clean-up deletes those of superseded versions.
SearchableIsIndexed ==
  \A v \in Versions :
    current = v /\ status[v] = "READY" /\ activated[v] => v \in points

\* Only versions in review can be approved: what is being published was
\* approved by a request that found it in review.
OnlyReviewedIsPublished ==
  \A v \in Versions : status[v] = "PUBLISHING" => v \in reviewed

\* Activation supersedes any previously active version: there is one at most.
OneActive ==
  \A u, v \in Versions :
    /\ status[u] = "READY" /\ activated[u]
    /\ status[v] = "READY" /\ activated[v]
    => u = v

\* Approval recorded, publishing will resume: whatever attempts fail or are
\* executed twice, an approved run publishes its version, unless it is
\* cancelled, over the budget, or kept out by another version in flight.
ApprovalResumes ==
  \A v \in Versions \ OverBudget :
    run[v] = "approving" ~> announced[v] > 0 \/ run[v] = "closed" \/ ~IndexFree(v)

\* A cancellation that Temporal has accepted ends the run, whatever the run was
\* doing and whatever became of the version's row.
CancellationEndsRun ==
  \A v \in Versions : v \in cancelling ~> run[v] = "closed"

-----------------------------------------------------------------------------
(* Refinement *)

PlaceOf(s) ==
  CASE s \in InFlight                         -> "flight"
    [] s = "READY"                            -> "ready"
    [] s = "SUPERSEDED"                       -> "superseded"
    [] s \in {"ABSENT", "FAILED", "CANCELLED"} -> "out"

Life == INSTANCE VersionLife WITH place <- [v \in Versions |-> PlaceOf(status[v])]

\* Seen without runs, attempts and requests the versions of the course behave as
\* VersionLife, whatever is executed twice, cancelled, retried or comes late.
LifeSpec == Life!Spec
=============================================================================
