------------------------------- MODULE AIJobs -------------------------------
(***************************************************************************)
(* The instructor jobs of the ai service: one Mongo document per job, a    *)
(* task or an event stream that works on it in one of several processes,   *)
(* a route that cancels it, and the start-up that fails what is incomplete.*)
(* No write is conditional on the status it overwrites.                    *)
(***************************************************************************)
EXTENDS Naturals

CONSTANTS Jobs, Processes,
          MaxStarts    \* bound: starts of processes in a behaviour

ASSUME JobsAssumption == MaxStarts \in Nat /\ Processes \cap {"none", "failed"} = {}

VARIABLES
    status,      \* the document's status, "none" before it is created
    result,      \* whether the document has a result
    error,       \* "none", "failed", or the process whose start-up marked it
    stage,       \* where its worker is
    kind,        \* started as a task or as a stream
    home,        \* the process it was sent to
    alive,       \* the processes that run
    starts,
    usage,       \* AssistantAnswerGenerated events sent for the job
    cancelled    \* history: the worker's stage at the last cancel

jobsVars == <<status, result, error, stage, kind, home, alive, starts, usage, cancelled>>
document == <<status, result, error>>
setting  == <<kind, home, alive, starts>>

Incomplete == {"QUEUED", "RUNNING"}
Final      == {"COMPLETED", "FAILED", "CANCELLED"}
Working    == {"admitting", "retrieving", "generating", "generated", "confirmed"}
Ending     == {"failing", "marking", "stored"}
Cut        == {"dead", "unmanned"}
Over       == {"over"} \cup Cut

JobsInit ==
    /\ status = [j \in Jobs |-> "none"]
    /\ result = [j \in Jobs |-> FALSE]
    /\ error = [j \in Jobs |-> "none"]
    /\ stage = [j \in Jobs |-> "new"]
    /\ kind \in [Jobs -> {"task", "stream"}]
    /\ home \in [Jobs -> Processes]
    /\ alive = Processes
    /\ starts = 0
    /\ usage = [j \in Jobs |-> 0]
    /\ cancelled = [j \in Jobs |-> "none"]

Goes(j, from, to) == stage[j] = from /\ stage' = [stage EXCEPT ![j] = to]
Writes(j, s) == status' = [status EXCEPT ![j] = s]

(***************************************************************************)
(* enqueue_job and stream_job                                              *)
(***************************************************************************)
\* The course is not ready, the caller does not own it, or is over its rate limit
Refuse(j) ==
    /\ home[j] \in alive
    /\ Goes(j, "new", "over")
    /\ UNCHANGED <<document, setting, usage, cancelled>>

Enqueue(j) ==
    /\ kind[j] = "task" /\ home[j] \in alive
    /\ Goes(j, "new", "admitting")
    /\ Writes(j, "QUEUED")
    /\ UNCHANGED <<result, error, setting, usage, cancelled>>

BeginStream(j) ==
    /\ kind[j] = "stream" /\ home[j] \in alive
    /\ Goes(j, "new", "retrieving")
    /\ Writes(j, "RUNNING")
    /\ UNCHANGED <<result, error, setting, usage, cancelled>>

\* The insert is applied and raises all the same.  It is outside every try: the
\* request fails, no worker is started and nothing marks the document failed.
InsertRaises(j) ==
    /\ home[j] \in alive
    /\ Goes(j, "new", "unmanned")
    /\ Writes(j, IF kind[j] = "task" THEN "QUEUED" ELSE "RUNNING")
    /\ UNCHANGED <<result, error, setting, usage, cancelled>>

(***************************************************************************)
(* _process_job, and the same steps of stream_job                          *)
(***************************************************************************)
\* The rate limit may refuse the task; RUNNING is written over whatever is there
WriteRunning(j) ==
    /\ Goes(j, "admitting", "retrieving")
    /\ Writes(j, "RUNNING")
    /\ UNCHANGED <<result, error, setting, usage, cancelled>>

\* _ensure_not_cancelled, after retrieving and after the model answered
Looks(j, from, to) ==
    /\ Goes(j, from, IF status[j] = "CANCELLED" THEN "failing" ELSE to)
    /\ UNCHANGED <<document, setting, usage, cancelled>>

LookBeforeModel(j) == Looks(j, "retrieving", "generating")
ModelAnswers(j) ==
    /\ Goes(j, "generating", "generated")
    /\ UNCHANGED <<document, setting, usage, cancelled>>
LookBeforeWrite(j) == Looks(j, "generated", "confirmed")

\* Faulty variant: the result is not stored with the status.
WriteCompletedAlone(j) ==
    /\ Goes(j, "confirmed", "stored")
    /\ Writes(j, "COMPLETED")
    /\ UNCHANGED <<result, error, setting, usage, cancelled>>

WriteCompleted(j) ==
    /\ Goes(j, "confirmed", "stored")
    /\ Writes(j, "COMPLETED")
    /\ result' = [result EXCEPT ![j] = TRUE]
    /\ UNCHANGED <<error, setting, usage, cancelled>>

\* A failure to send is logged and swallowed
EmitUsage(j) ==
    /\ Goes(j, "stored", "over")
    /\ \E sent \in {0, 1} : usage' = [usage EXCEPT ![j] = @ + sent]
    /\ UNCHANGED <<document, setting, cancelled>>

(***************************************************************************)
(* Failures: any step may raise, a write also after it was applied         *)
(***************************************************************************)
StepRaises(j) ==
    /\ stage[j] \in Working
    /\ stage' = [stage EXCEPT ![j] = "failing"]
    /\ \/ UNCHANGED document
       \/ stage[j] = "admitting" /\ Writes(j, "RUNNING") /\ UNCHANGED <<result, error>>
       \/ stage[j] = "confirmed" /\ Writes(j, "COMPLETED")
            /\ result' = [result EXCEPT ![j] = TRUE] /\ UNCHANGED error
    /\ UNCHANGED <<setting, usage, cancelled>>

\* Faulty variant: a cancelled job is marked failed as well.
ReadBeforeMarkBlind(j) ==
    /\ Goes(j, "failing", "marking")
    /\ UNCHANGED <<document, setting, usage, cancelled>>

\* Faulty variant: nothing is marked.
ReadBeforeMarkNothing(j) ==
    /\ Goes(j, "failing", "over")
    /\ UNCHANGED <<document, setting, usage, cancelled>>

\* _mark_failed reads, then writes
ReadBeforeMark(j) ==
    /\ Goes(j, "failing", IF status[j] = "CANCELLED" THEN "over" ELSE "marking")
    /\ UNCHANGED <<document, setting, usage, cancelled>>

MarkFailed(j) ==
    /\ Goes(j, "marking", "over")
    /\ Writes(j, "FAILED")
    /\ error' = [error EXCEPT ![j] = "failed"]
    /\ UNCHANGED <<result, setting, usage, cancelled>>

\* _mark_failed raises as well; the client of a stream leaves, and what that
\* raises is no Exception.  Nothing is written.
Abandon(j) ==
    /\ \/ stage[j] \in {"failing", "marking"}
       \/ kind[j] = "stream" /\ stage[j] \in Working \cup Ending
    /\ stage' = [stage EXCEPT ![j] = "dead"]
    /\ UNCHANGED <<document, setting, usage, cancelled>>

(***************************************************************************)
(* Requests and processes                                                  *)
(***************************************************************************)
Cancel(j) ==
    /\ status[j] # "none" /\ cancelled[j] = "none"
    /\ Writes(j, "CANCELLED")
    /\ cancelled' = [cancelled EXCEPT ![j] = stage[j]]
    /\ UNCHANGED <<result, error, stage, setting, usage>>

Crash(p) ==
    /\ p \in alive
    /\ alive' = alive \ {p}
    /\ stage' = [j \in Jobs |->
                   IF home[j] = p /\ stage[j] \in Working \cup Ending THEN "dead" ELSE stage[j]]
    /\ UNCHANGED <<document, kind, home, starts, usage, cancelled>>

\* mark_incomplete_jobs_failed, of every process's jobs; a failure is swallowed
Start(p) ==
    /\ p \notin alive /\ starts < MaxStarts
    /\ alive' = alive \cup {p} /\ starts' = starts + 1
    /\ \/ /\ status' = [j \in Jobs |-> IF status[j] \in Incomplete THEN "FAILED" ELSE status[j]]
          /\ error' = [j \in Jobs |-> IF status[j] \in Incomplete THEN p ELSE error[j]]
       \/ UNCHANGED <<status, error>>
    /\ UNCHANGED <<result, stage, kind, home, usage, cancelled>>

WorkerSteps(j) ==
    \/ WriteRunning(j) \/ LookBeforeModel(j) \/ ModelAnswers(j) \/ LookBeforeWrite(j)
    \/ WriteCompleted(j) \/ EmitUsage(j)
    \/ StepRaises(j) \/ ReadBeforeMark(j) \/ MarkFailed(j)

JobsNext ==
    \/ \E j \in Jobs :
         \/ Refuse(j) \/ Enqueue(j) \/ BeginStream(j) \/ InsertRaises(j)
         \/ Cancel(j) \/ Abandon(j)
         \/ WriteRunning(j) \/ LookBeforeModel(j) \/ ModelAnswers(j) \/ LookBeforeWrite(j)
         \/ WriteCompleted(j) \/ EmitUsage(j)
         \/ StepRaises(j) \/ ReadBeforeMark(j) \/ MarkFailed(j)
    \/ \E p \in Processes : Crash(p) \/ Start(p)

\* A worker goes on: its calls have timeouts
JobsFairness == \A j \in Jobs : WF_jobsVars(WorkerSteps(j))
JobsSpec == JobsInit /\ [][JobsNext]_jobsVars /\ JobsFairness

(***************************************************************************)
(* Properties                                                              *)
(***************************************************************************)
JobsTypeOK ==
    /\ status \in [Jobs -> {"none"} \cup Incomplete \cup Final]
    /\ result \in [Jobs -> BOOLEAN]
    /\ error \in [Jobs -> {"none", "failed"} \cup Processes]
    /\ stage \in [Jobs -> {"new"} \cup Working \cup Ending \cup Over]
    /\ kind \in [Jobs -> {"task", "stream"}]
    /\ home \in [Jobs -> Processes]
    /\ alive \in SUBSET Processes
    /\ starts \in Nat
    /\ usage \in [Jobs -> Nat]
    /\ cancelled \in [Jobs -> {"none"} \cup Working \cup Ending \cup Over]

\* A cancel is lost only when it falls between a look and the write after it: before
\* RUNNING is written, before COMPLETED is, or before FAILED is.  Any other cancel
\* stands, whatever fails, ends or restarts afterwards.
CancelLostOnlyByRace ==
    \A j \in Jobs : cancelled[j] # "none" /\ status[j] # "CANCELLED" =>
        cancelled[j] \in {"admitting", "confirmed", "marking"}

\* A usage event is sent at most once, and only for a job whose result was stored.
UsageMeansResult == \A j \in Jobs : usage[j] <= 1 /\ (usage[j] = 1 => result[j])

\* A document that claims two outcomes has a reason: a completed job carries an error
\* only if another process started while it ran, and a failed one has a result only
\* if the write that completed it raised.
OutcomesContradictOnlyByOverlap ==
    \A j \in Jobs :
        /\ status[j] = "COMPLETED" /\ error[j] # "none" => error[j] \in Processes \ {home[j]}
        /\ status[j] = "FAILED" /\ result[j] => error[j] = "failed" /\ usage[j] = 0

\* "Job interrupted by service restart" is true when the start-up was that of the
\* job's own process; another's start-up says it of a job that is still worked on.
InterruptedIsGone ==
    \A j \in Jobs : error[j] = home[j] => stage[j] \in Cut

\* A job that is created ends, unless its worker was cut off or never began because
\* the insert raised.
JobsEnd ==
    \A j \in Jobs : status[j] \in Incomplete ~> (status[j] \in Final \/ stage[j] \in Cut)

\* What the document says happened, happened: it is COMPLETED and FAILED, or failed by
\* a restart and alive, only by overlap, and usage is only reported of stored results.
OutcomesAreExplained ==
    /\ UsageMeansResult
    /\ OutcomesContradictOnlyByOverlap
    /\ InterruptedIsGone

(***************************************************************************)
(* The inductive invariant behind the theorems of AIProofs, in parts       *)
(***************************************************************************)
\* What is there while, and after, a worker is at some stage.
StagesTell(j) ==
    /\ stage[j] = "new" =>
         status[j] = "none" /\ error[j] = "none" /\ ~result[j] /\ cancelled[j] = "none"
    /\ stage[j] = "stored" => result[j]
    /\ stage[j] = "over" => status[j] \notin Incomplete
    /\ home[j] \notin alive => stage[j] \in {"new"} \cup Over
    /\ usage[j] > 0 => stage[j] = "over" /\ usage[j] = 1 /\ result[j]
    /\ result[j] => status[j] \in Final /\ stage[j] \in Ending \cup Over

\* Who wrote the error.
ErrorsTell(j) ==
    /\ error[j] = home[j] => stage[j] \in Cut /\ status[j] \in {"FAILED", "CANCELLED"}
    /\ error[j] = "failed" => stage[j] = "over" /\ status[j] \in {"FAILED", "CANCELLED"}
    /\ status[j] = "FAILED" /\ result[j] => error[j] = "failed" /\ usage[j] = 0

\* When the last cancel was, as long as it may still be lost.
CancelsTell(j) ==
    /\ stage[j] = "admitting" => cancelled[j] \in {"none", "admitting"}
    /\ stage[j] \in {"confirmed", "marking"} =>
         cancelled[j] \in {"none", "admitting", "confirmed", "marking"}
    /\ cancelled[j] # "none" /\ status[j] # "CANCELLED" =>
         cancelled[j] \in {"admitting", "confirmed", "marking"}

JobsIndInv == JobsTypeOK /\ \A j \in Jobs : StagesTell(j) /\ ErrorsTell(j) /\ CancelsTell(j)
=============================================================================
