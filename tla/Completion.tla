----------------------------- MODULE Completion -----------------------------
(***************************************************************************)
(* Completing the modules of a course and cancelling an enrollment:        *)
(* ProgressService.complete_module and EnrollmentService.cancel_enrollment *)
(* run by concurrent requests, and the call each makes to the other        *)
(* service (mark_completed, cancel_progress), which commits there first.   *)
(*                                                                         *)
(* A transaction's own writes are applied when it commits; from the flush  *)
(* until then it holds the row locks of PostgreSQL (READ COMMITTED), on    *)
(* which the UPDATEs of other transactions wait.  An UPDATE that waited    *)
(* overwrites what was committed meanwhile: rows are addressed by id.      *)
(***************************************************************************)
EXTENDS LearnerRecords

CONSTANTS
  Completers,   \* complete_module requests
  Cancellers,   \* cancel requests
  MaxInFlight,  \* bound on complete_module requests running at once
  None          \* no target, no module yet

ASSUME CompletionAssumption ==
  /\ Completers \cap Cancellers = {}
  /\ MaxInFlight \in Nat
  /\ IsFiniteSet(Completers)
  /\ None \notin Enrollments \cup Modules

Requests == Completers \cup Cancellers

VARIABLES
  pc,            \* where each request is
  target,        \* the enrollment it is about
  module,        \* the module a completer completes
  loaded,        \* the status of the progress row a completer's session loaded
  counted,       \* the completed modules it counted
  issues,        \* whether it has inserted the certificate and the event
  call,          \* its call to the other service: none, sent, served, lost
  certificates,  \* enrollments with a committed certificate
  events         \* events[e]: committed CourseCompleted outbox rows

localVars == <<pc, target, module, loaded, counted, issues, call>>

completionVars == <<recordVars, localVars, certificates, events>>

CompleterRunning ==
  {"entered", "loaded", "flushed", "counted", "syncing", "synced", "stored", "written"}

CancellerRunning == {"read", "cancelling"}

Ended == {"rejected", "already", "done", "failed"}

\* Every enrollment as Admission leaves it.
Init ==
  /\ status = [e \in Enrollments |-> "ENROLLED"]
  /\ progress = [e \in Enrollments |-> FreshProgress]
  /\ done = [e \in Enrollments |-> {}]
  /\ pc = [r \in Requests |-> "idle"]
  /\ target = [r \in Requests |-> None]
  /\ module = [r \in Completers |-> None]
  /\ loaded = [r \in Completers |-> "ABSENT"]
  /\ counted = [r \in Completers |-> 0]
  /\ issues = [r \in Completers |-> FALSE]
  /\ call = [r \in Requests |-> "none"]
  /\ certificates = {}
  /\ events = [e \in Enrollments |-> 0]

Goto(r, label) == pc' = [pc EXCEPT ![r] = label]

\* Row locks, held from the flush to the end of the transaction.
HoldsModuleRow(q, e, m) ==
  /\ pc[q] \in {"flushed", "counted", "syncing", "synced", "stored", "written"}
  /\ target[q] = e
  /\ module[q] = m

HoldsProgressRow(q, e) == pc[q] \in {"stored", "written"} /\ target[q] = e

HoldsEnrollmentRow(x, e) == pc[x] = "cancelling" /\ target[x] = e

ModuleRowFree(e, m) == \A q \in Completers : ~HoldsModuleRow(q, e, m)

ProgressRowFree(e) == \A q \in Completers : ~HoldsProgressRow(q, e)

EnrollmentRowFree(e) == \A x \in Cancellers : ~HoldsEnrollmentRow(x, e)

InFlight == {q \in Completers : pc[q] \in CompleterRunning}

-----------------------------------------------------------------------------
(* complete_module *)

\* The enrollment row is read once, at the start.
ReceiveCompletion(r) ==
  /\ pc[r] = "idle"
  /\ Cardinality(InFlight) < MaxInFlight
  /\ \E e \in Enrollments, m \in Modules :
       /\ target' = [target EXCEPT ![r] = e]
       /\ module' = [module EXCEPT ![r] = m]
       /\ Goto(r, IF status[e] \in {"ABSENT", "CANCELLED"} THEN "rejected" ELSE "entered")
  /\ UNCHANGED <<recordVars, loaded, counted, issues, call, certificates, events>>

\* A module already completed ends the request: nothing is counted again.
LoadProgress(r) ==
  LET e == target[r] IN
  /\ pc[r] = "entered"
  /\ \/ /\ ~ProgressExists(e)
        /\ Goto(r, "rejected")
        /\ UNCHANGED loaded
     \/ /\ ProgressExists(e)
        /\ module[r] \in done[e]
        /\ Goto(r, "already")
        /\ UNCHANGED loaded
     \/ /\ ProgressExists(e)
        /\ module[r] \notin done[e]
        /\ Goto(r, "loaded")
        /\ loaded' = [loaded EXCEPT ![r] = progress[e].status]
  /\ UNCHANGED <<recordVars, target, module, counted, issues, call, certificates, events>>

FlushModule(r) ==
  /\ pc[r] = "loaded"
  /\ ModuleRowFree(target[r], module[r])
  /\ Goto(r, "flushed")
  /\ UNCHANGED <<recordVars, target, module, loaded, counted, issues, call, certificates, events>>

\* Faulty variant: off by one.
AlmostCompleted(n) == Modules # {} /\ n + 1 >= Cardinality(Modules)

AllCompleted(n) == Modules # {} /\ n = Cardinality(Modules)

\* The counts see the committed rows and the request's own.
CountModules(r) ==
  LET n == Cardinality(done[target[r]] \cup {module[r]}) IN
  /\ pc[r] = "flushed"
  /\ counted' = [counted EXCEPT ![r] = n]
  /\ IF AllCompleted(n)
     THEN Goto(r, "syncing") /\ call' = [call EXCEPT ![r] = "sent"]
     ELSE Goto(r, "counted") /\ UNCHANGED call
  /\ UNCHANGED <<recordVars, target, module, loaded, issues, certificates, events>>

\* EnrollmentService.mark_completed, in a transaction of its own and also when
\* its caller has given up.  Only COMPLETED is looked at: any other status,
\* CANCELLED included, is overwritten.
ServeMarkCompleted(r) ==
  LET e == target[r] IN
  /\ call[r] = "sent"
  /\ RowExists(e)
  /\ \/ status[e] = "COMPLETED"
     \/ EnrollmentRowFree(e)
  /\ status' = [status EXCEPT ![e] = "COMPLETED"]
  /\ call' = [call EXCEPT ![r] = "served"]
  /\ UNCHANGED <<progress, done, pc, target, module, loaded, counted, issues, certificates, events>>

MarkCompletedReply(r) ==
  /\ pc[r] = "syncing"
  /\ call[r] = "served"
  /\ Goto(r, "synced")
  /\ UNCHANGED <<recordVars, target, module, loaded, counted, issues, call, certificates, events>>

\* The UPDATE of the progress row: before the certificate is looked up when
\* the course is completed (the query autoflushes), else at the end.
FlushProgress(r) ==
  /\ \/ pc[r] = "counted" /\ Goto(r, "written")
     \/ pc[r] = "synced" /\ Goto(r, "stored")
  /\ ProgressRowFree(target[r])
  /\ UNCHANGED <<recordVars, target, module, loaded, counted, issues, call, certificates, events>>

\* Faulty variant: no look at the existing certificate, hence a second event.
IssueAgain(r) ==
  /\ pc[r] = "stored"
  /\ issues' = [issues EXCEPT ![r] = TRUE]
  /\ Goto(r, "written")
  /\ UNCHANGED <<recordVars, target, module, loaded, counted, call, certificates, events>>

\* An existing certificate is returned without a second event.
IssueCertificate(r) ==
  /\ pc[r] = "stored"
  /\ issues' = [issues EXCEPT ![r] = target[r] \notin certificates]
  /\ Goto(r, "written")
  /\ UNCHANGED <<recordVars, target, module, loaded, counted, call, certificates, events>>

\* Faulty variant: COMPLETED one module early.
NewStatusEarly(r) ==
  IF counted[r] + 1 >= Cardinality(Modules) THEN "COMPLETED" ELSE "IN_PROGRESS"

NewStatus(r) ==
  IF AllCompleted(counted[r])
  THEN "COMPLETED"
  ELSE IF loaded[r] = "NOT_STARTED" THEN "IN_PROGRESS" ELSE loaded[r]

Commit(r) ==
  LET e == target[r] IN
  /\ pc[r] = "written"
  /\ Goto(r, "done")
  /\ done' = [done EXCEPT ![e] = @ \cup {module[r]}]
  /\ progress' = [progress EXCEPT ![e] =
                    [status |-> Written(loaded[r], NewStatus(r), progress[e].status),
                     count |-> counted[r]]]
  /\ certificates' = IF issues[r] THEN certificates \cup {e} ELSE certificates
  /\ events' = IF issues[r] THEN [events EXCEPT ![e] = @ + 1] ELSE events
  /\ UNCHANGED <<status, target, module, loaded, counted, issues, call>>

-----------------------------------------------------------------------------
(* cancel_enrollment *)

\* The route reads the row once; the guards look at what it read.
ReceiveCancel(x) ==
  /\ pc[x] = "idle"
  /\ \E e \in Enrollments :
       /\ target' = [target EXCEPT ![x] = e]
       /\ \/ status[e] \in {"ABSENT", "COMPLETED"} /\ Goto(x, "rejected")
          \/ status[e] = "CANCELLED" /\ Goto(x, "already")
          \/ status[e] = "ENROLLED" /\ Goto(x, "read")
  /\ UNCHANGED <<recordVars, module, loaded, counted, issues, call, certificates, events>>

\* The UPDATE of the enrollment row, then the call to the progress service.
FlushCancel(x) ==
  /\ pc[x] = "read"
  /\ EnrollmentRowFree(target[x])
  /\ Goto(x, "cancelling")
  /\ call' = [call EXCEPT ![x] = "sent"]
  /\ UNCHANGED <<recordVars, target, module, loaded, counted, issues, certificates, events>>

\* ProgressService.cancel_progress, whatever the status of the row was.
ServeCancelProgress(x) ==
  LET e == target[x] IN
  /\ call[x] = "sent"
  /\ ProgressExists(e)
  /\ \/ progress[e].status = "CANCELLED"
     \/ ProgressRowFree(e)
  /\ progress' = [progress EXCEPT ![e].status = "CANCELLED"]
  /\ call' = [call EXCEPT ![x] = "served"]
  /\ UNCHANGED <<status, done, pc, target, module, loaded, counted, issues, certificates, events>>

\* Faulty variant: a failed call is treated like an answer.
CommitCancelAnyway(x) ==
  /\ pc[x] = "cancelling"
  /\ call[x] \in {"served", "lost"}
  /\ Goto(x, "done")
  /\ status' = [status EXCEPT ![target[x]] = "CANCELLED"]
  /\ UNCHANGED <<progress, done, target, module, loaded, counted, issues, call, certificates, events>>

CommitCancel(x) ==
  /\ pc[x] = "cancelling"
  /\ call[x] = "served"
  /\ Goto(x, "done")
  /\ status' = [status EXCEPT ![target[x]] = "CANCELLED"]
  /\ UNCHANGED <<progress, done, target, module, loaded, counted, issues, call, certificates, events>>

-----------------------------------------------------------------------------
(* Failures *)

\* The call does not reach the other service, or is answered with an error.
LoseCall(r) ==
  /\ call[r] = "sent"
  /\ call' = [call EXCEPT ![r] = "lost"]
  /\ UNCHANGED <<recordVars, pc, target, module, loaded, counted, issues, certificates, events>>

\* The transaction is rolled back and its row locks are gone; a call that is
\* still on its way may be served later.
Abort(r) ==
  /\ Goto(r, "failed")
  /\ UNCHANGED <<recordVars, target, module, loaded, counted, issues, call, certificates, events>>

CallFailed(r) == pc[r] \in {"syncing", "cancelling"} /\ call[r] = "lost" /\ Abort(r)

\* An exception, a timeout of the call, a failed commit or a crash.
Fail(r) == pc[r] \in CompleterRunning \cup CancellerRunning /\ Abort(r)

-----------------------------------------------------------------------------
CompleterStep(r) ==
  \/ LoadProgress(r)
  \/ FlushModule(r)
  \/ CountModules(r)
  \/ MarkCompletedReply(r)
  \/ FlushProgress(r)
  \/ IssueCertificate(r)
  \/ Commit(r)
  \/ CallFailed(r)

CancellerStep(x) == FlushCancel(x) \/ CommitCancel(x) \/ CallFailed(x)

Next ==
  \/ \E r \in Completers :
       \/ ReceiveCompletion(r)
       \/ CompleterStep(r)
       \/ ServeMarkCompleted(r)
  \/ \E x \in Cancellers :
       \/ ReceiveCancel(x)
       \/ CancellerStep(x)
       \/ ServeCancelProgress(x)
  \/ \E r \in Requests : LoseCall(r) \/ Fail(r)

Spec == Init /\ [][Next]_completionVars

\* Handlers keep running and calls are delivered; no failure, timeout or crash
\* is counted on.
Fairness ==
  /\ \A r \in Completers :
       WF_completionVars(CompleterStep(r)) /\ WF_completionVars(ServeMarkCompleted(r))
  /\ \A x \in Cancellers :
       WF_completionVars(CancellerStep(x)) /\ WF_completionVars(ServeCancelProgress(x))

FairSpec == Spec /\ Fairness

-----------------------------------------------------------------------------
(* Properties *)

\* Every variable stays in its set.
TypeOK ==
  /\ RecordsTypeOK
  /\ pc \in [Requests -> CompleterRunning \cup CancellerRunning \cup Ended \cup {"idle"}]
  /\ target \in [Requests -> Enrollments \cup {None}]
  /\ module \in [Completers -> Modules \cup {None}]
  /\ loaded \in [Completers -> ProgressStatus \cup {"ABSENT"}]
  /\ counted \in [Completers -> 0 .. Cardinality(Modules)]
  /\ issues \in [Completers -> BOOLEAN]
  /\ call \in [Requests -> {"none", "sent", "served", "lost"}]
  /\ certificates \in SUBSET Enrollments
  /\ events \in [Enrollments -> Nat]

\* A certificate exists only where every required module is committed as
\* completed, although each request counts its own uncommitted module.
CertificateMeansAllModulesDone ==
  \A e \in certificates : Modules # {} /\ done[e] = Modules

\* One CourseCompleted event per certificate and none without one, also when
\* two requests complete the same last module.
OneEventPerCertificate ==
  \A e \in Enrollments : events[e] = IF e \in certificates THEN 1 ELSE 0

\* The enrollment service is told before the progress service commits: a
\* certified enrollment is COMPLETED, or a cancellation committed on it.
CertifiedIsCompletedOrCancelled ==
  \A e \in certificates :
    \/ status[e] = "COMPLETED"
    \/ \E x \in Cancellers : target[x] = e /\ pc[x] = "done"

\* A progress row shows COMPLETED only together with a certificate.
CompletedProgressIsCertified ==
  \A e \in Enrollments : progress[e].status = "COMPLETED" => e \in certificates

\* The stored percentage never runs ahead of the modules completed: concurrent
\* completions may lose an update, never invent one.
PercentNeverAhead ==
  \A e \in Enrollments : progress[e].count <= Cardinality(done[e])

\* A cancelled enrollment has its progress cancelled too, unless a completion
\* committed on it: the progress service is told before the cancel commits.
CancelReachesProgress ==
  \A e \in Enrollments : status[e] = "CANCELLED" =>
    \/ progress[e].status = "CANCELLED"
    \/ \E q \in Completers : target[q] = e /\ pc[q] = "done"

Quiet(e) ==
  \A r \in Requests : target[r] = e => pc[r] \in Ended

\* When the last module is completed the course is: with every required module
\* done and no request running there is a certificate.
AllDoneIsCertified ==
  \A e \in Enrollments :
    Modules # {} /\ done[e] = Modules /\ Quiet(e) => e \in certificates

\* Every request ends although the two services call each other while holding
\* row locks: no wait relies on a timeout to be broken.
EveryRequestEnds ==
  \A r \in Requests : pc[r] # "idle" ~> pc[r] \in Ended

\* The inductive invariant behind the theorems of CompletionProofs, in parts.
\* A request that has not arrived has called nobody; one that has is about an
\* enrollment and, if a completer, a module.
Arrived ==
  /\ \A r \in Requests :
       IF pc[r] = "idle" THEN call[r] = "none" ELSE target[r] \in Enrollments
  /\ \A q \in Completers :
       /\ pc[q] # "idle" => module[q] \in Modules
       /\ issues[q] => pc[q] \in {"written", "done", "failed"}

\* Two requests never hold one progress row.
RowLocks ==
  \A q1, q2 \in Completers :
    /\ pc[q1] \in {"stored", "written"}
    /\ pc[q2] \in {"stored", "written"}
    /\ target[q1] = target[q2]
    => q1 = q2

\* What a request counted stays true while it runs: modules are not undone.
CountsHold ==
  \A q \in Completers :
    pc[q] \in {"counted", "syncing", "synced", "stored", "written"} =>
      counted[q] <= Cardinality(done[target[q]] \cup {module[q]})

\* The requests between the count that found all modules and the commit.
Finishing(q) ==
  pc[q] \in {"syncing", "synced", "stored"} \/ (pc[q] = "written" /\ issues[q])

FinishingSawAll ==
  \A q \in Completers :
    /\ pc[q] = "counted" => ~AllCompleted(counted[q])
    /\ Finishing(q) => /\ AllCompleted(counted[q])
                       /\ done[target[q]] \cup {module[q]} = Modules

\* Under the lock on the progress row the look at the certificate stays true.
CertificateLooked ==
  \A q \in Completers : pc[q] = "written" =>
    /\ issues[q] => target[q] \notin certificates
    /\ AllCompleted(counted[q]) => issues[q] \/ target[q] \in certificates

\* A served mark_completed shows in the enrollment row until a cancel commits.
ServedIsCompleted ==
  \A q \in Completers :
    /\ Finishing(q) /\ pc[q] # "syncing" => call[q] = "served"
    /\ call[q] = "served" =>
         \/ status[target[q]] = "COMPLETED"
         \/ \E x \in Cancellers : target[x] = target[q] /\ pc[x] = "done"

\* A served cancel_progress shows in the progress row until a completion commits.
ServedIsCancelled ==
  \A x \in Cancellers : call[x] = "served" =>
    \/ progress[target[x]].status = "CANCELLED"
    \/ \E q \in Completers : target[q] = target[x] /\ pc[q] = "done"

IndInv ==
  /\ TypeOK
  /\ Arrived
  /\ RowLocks
  /\ CountsHold
  /\ FinishingSawAll
  /\ CertificateLooked
  /\ ServedIsCompleted
  /\ ServedIsCancelled
  /\ CertificateMeansAllModulesDone
  /\ OneEventPerCertificate
  /\ CertifiedIsCompletedOrCancelled
  /\ CompletedProgressIsCertified
  /\ PercentNeverAhead
  /\ CancelReachesProgress
=============================================================================
