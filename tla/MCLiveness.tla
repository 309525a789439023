----------------------------- MODULE MCLiveness -----------------------------
(***************************************************************************)
(* Finite instances of the components of the ai service and of the shared  *)
(* breaker, and of Admission and Completion under fairness.  The first     *)
(* state picks the part that a behaviour is about, and the variables of    *)
(* the others stay as they are.                                            *)
(***************************************************************************)
EXTENDS AIJobs, Assistant, CircuitBreaker

CONSTANTS alice, bob, course, e1, e2, m1, m2, p1, NoLimit, NoKey, NoAsk, Free, None

VARIABLES
    part,
    row, progress, done, enrolling, seat, lock, pending, initCalls, outbox, passed, overlapped,
    row2, progress2, done2, completing, target, module, loaded, counted, issues, roundTrip,
    certificates, events

(***************************************************************************)
(* Two students after the single seat of a course; two modules completed   *)
(* by two requests while a third cancels                                   *)
(***************************************************************************)
Admission == INSTANCE Admission WITH
    Enrollments <- {e1, e2}, Modules <- {m1}, Courses <- {course},
    Asks <- {[student |-> s, course |-> course, key |-> NoKey] : s \in {alice, bob}},
    Prerequisites <- [c \in {course} |-> {}], Capacity <- [c \in {course} |-> 1],
    status <- row, pc <- enrolling, ask <- seat

Completion == INSTANCE Completion WITH
    Enrollments <- {e1}, Modules <- {m1, m2}, MaxInFlight <- 2,
    Completers <- {alice, bob}, Cancellers <- {course},
    status <- row2, progress <- progress2, done <- done2,
    pc <- completing, call <- roundTrip

enrollVars == <<row, progress, done, enrolling, seat, lock, pending, initCalls, outbox, passed,
                overlapped>>
completeVars == <<row2, progress2, done2, completing, target, module, loaded, counted, issues,
                  roundTrip, certificates, events>>
partVars == <<part, enrollVars, completeVars, jobsVars, assistantVars, breakerVars>>

(***************************************************************************)
(* The assistant: query after query, of which only the enrollment matters  *)
(***************************************************************************)
OneAsk == {[mode |-> "graph", role |-> "student", scope |-> "course", question |-> "why"]}
NothingFound == {<<>>}

(***************************************************************************)
(* One part at a time                                                      *)
(***************************************************************************)
Only(this, vs) == part = this /\ UNCHANGED <<part, vs>>

\* The choices of the first state that are not about the part that is picked
Resting ==
    /\ part # "jobs" => \A j \in Jobs : kind[j] = "task" /\ home[j] = p1
    /\ part # "assistant" => enrolled
    /\ part # "breaker" => up

InitParts ==
    /\ part \in {"admission", "completion", "jobs", "assistant", "breaker"}
    /\ Admission!Init /\ Completion!Init
    /\ JobsInit /\ AssistantInit /\ BreakerInit
    /\ Resting

NextParts ==
    \/ Admission!Next /\ Only("admission", <<completeVars, jobsVars, assistantVars, breakerVars>>)
    \/ Completion!Next /\ Only("completion", <<enrollVars, jobsVars, assistantVars, breakerVars>>)
    \/ JobsNext /\ Only("jobs", <<enrollVars, completeVars, assistantVars, breakerVars>>)
    \/ AssistantNext /\ Only("assistant", <<enrollVars, completeVars, jobsVars, breakerVars>>)
    \/ BreakerNext /\ Only("breaker", <<enrollVars, completeVars, jobsVars, assistantVars>>)

\* The fairness of each module, asked of the part that is picked
FairParts ==
    /\ \A e \in {e1, e2} :
         WF_enrollVars(part = "admission" /\ enrolling[e] # "idle" /\ Admission!Step(e))
    /\ \A r \in {alice, bob} :
         /\ WF_completeVars(part = "completion" /\ Completion!CompleterStep(r))
         /\ WF_completeVars(part = "completion" /\ Completion!ServeMarkCompleted(r))
    /\ WF_completeVars(part = "completion" /\ Completion!CancellerStep(course))
    /\ WF_completeVars(part = "completion" /\ Completion!ServeCancelProgress(course))
    /\ \A j \in Jobs : WF_jobsVars(part = "jobs" /\ WorkerSteps(j))
    /\ WF_assistantVars(part = "assistant" /\ EnrolKeyExpires)
    /\ \A q \in Queries : WF_assistantVars(part = "assistant" /\ SetEnrolKey(q))
    /\ WF_breakerVars(part = "breaker" /\ TimeoutPasses)
    /\ \A c \in Callers :
         /\ SF_breakerVars(part = "breaker" /\ Attempt(c))
         /\ SF_breakerVars(part = "breaker" /\ HostAnswers(c))
         /\ SF_breakerVars(part = "breaker" /\ RecordSuccess(c))
         /\ SF_breakerVars(part = "breaker" /\ RecordFailure(c))

SpecParts == InitParts /\ [][NextParts]_partVars /\ FairParts

\* No enrollment request waits for ever, though the lock's holder or the owner of a
\* clashing row may crash, and no completion or cancellation, though the two services
\* call each other under row locks (Admission and Completion, EveryRequestEnds).
EveryRequestEnds == Admission!EveryRequestEnds /\ Completion!EveryRequestEnds
=============================================================================
