------------------------------ MODULE AIProofs ------------------------------
(***************************************************************************)
(* Theorems about AIJobs for every set of jobs and of processes and every  *)
(* number of starts, and about Assistant for every set of queries, every   *)
(* result of a search and all thresholds.                                  *)
(***************************************************************************)
EXTENDS AIJobs, Assistant, WellFoundedInduction, TLAPS

\* The invariant holds before anything has happened.
LEMMA InitJobs == JobsInit => JobsIndInv
<1> SUFFICES ASSUME JobsInit PROVE JobsIndInv
  OBVIOUS
<1>1. JobsTypeOK
  BY DEF JobsInit, JobsTypeOK
<1>2. \A j \in Jobs : StagesTell(j) /\ ErrorsTell(j) /\ CancelsTell(j)
  <2> SUFFICES ASSUME NEW j \in Jobs PROVE StagesTell(j) /\ ErrorsTell(j) /\ CancelsTell(j)
    OBVIOUS
  <2>1. home[j] \notin {"none", "failed"}
    BY <1>1, JobsAssumption DEF JobsTypeOK
  <2> QED
    BY <2>1 DEF JobsInit, StagesTell, ErrorsTell, CancelsTell, Incomplete, Working, Ending, Cut, Over
<1> QED
  BY <1>1, <1>2 DEF JobsIndInv

\* A step that leaves the processes alone and changes at most one job keeps the
\* invariant if it keeps that of the job.
LEMMA OneJob ==
  ASSUME JobsIndInv, JobsTypeOK', NEW j \in Jobs, UNCHANGED <<home, alive>>,
         \A k \in Jobs \ {j} :
            /\ status'[k] = status[k] /\ result'[k] = result[k] /\ error'[k] = error[k]
            /\ stage'[k] = stage[k] /\ usage'[k] = usage[k] /\ cancelled'[k] = cancelled[k],
         StagesTell(j)', ErrorsTell(j)', CancelsTell(j)'
  PROVE  JobsIndInv'
<1> SUFFICES ASSUME NEW k \in Jobs, k # j
             PROVE  StagesTell(k)' /\ ErrorsTell(k)' /\ CancelsTell(k)'
  BY DEF JobsIndInv
<1> QED
  BY DEF JobsIndInv, StagesTell, ErrorsTell, CancelsTell

\* What the steps of a worker, a failure and a cancel keep.
LEMMA WorkerKeeps ==
  ASSUME JobsIndInv, NEW j \in Jobs,
         \/ Refuse(j) \/ Enqueue(j) \/ BeginStream(j) \/ InsertRaises(j) \/ Cancel(j)
         \/ Abandon(j) \/ WorkerSteps(j)
  PROVE  JobsIndInv'
<1> USE JobsAssumption DEF JobsIndInv, JobsTypeOK, document, setting, Goes, Writes, Incomplete, Final, Working, Ending, Cut, Over
<1>0. home[j] \in Processes /\ home[j] \notin {"none", "failed"}
  BY JobsAssumption
<1>1. CASE Refuse(j)
  <2>1. JobsTypeOK'
    BY <1>1 DEF Refuse
  <2>2. StagesTell(j)' /\ ErrorsTell(j)' /\ CancelsTell(j)'
    BY <1>0, <1>1 DEF Refuse, StagesTell, ErrorsTell, CancelsTell
  <2> QED
    BY <1>1, <2>1, <2>2, OneJob DEF Refuse
<1>2. CASE Enqueue(j)
  <2>1. JobsTypeOK'
    BY <1>2 DEF Enqueue
  <2>2. StagesTell(j)' /\ ErrorsTell(j)' /\ CancelsTell(j)'
    BY <1>0, <1>2 DEF Enqueue, StagesTell, ErrorsTell, CancelsTell
  <2> QED
    BY <1>2, <2>1, <2>2, OneJob DEF Enqueue
<1>3. CASE BeginStream(j)
  <2>1. JobsTypeOK'
    BY <1>3 DEF BeginStream
  <2>2. StagesTell(j)' /\ ErrorsTell(j)' /\ CancelsTell(j)'
    BY <1>0, <1>3 DEF BeginStream, StagesTell, ErrorsTell, CancelsTell
  <2> QED
    BY <1>3, <2>1, <2>2, OneJob DEF BeginStream
<1>4. CASE Cancel(j)
  <2>0. stage[j] # "new"
    BY <1>0, <1>4 DEF Cancel, StagesTell
  <2>1. JobsTypeOK'
    BY <1>4, <2>0 DEF Cancel
  <2>2. StagesTell(j)' /\ ErrorsTell(j)' /\ CancelsTell(j)'
    BY <1>0, <1>4 DEF Cancel, StagesTell, ErrorsTell, CancelsTell
  <2> QED
    BY <1>4, <2>1, <2>2, OneJob DEF Cancel
<1>5. CASE Abandon(j)
  <2>1. JobsTypeOK'
    BY <1>5 DEF Abandon
  <2>2. StagesTell(j)' /\ ErrorsTell(j)' /\ CancelsTell(j)'
    BY <1>0, <1>5 DEF Abandon, StagesTell, ErrorsTell, CancelsTell
  <2> QED
    BY <1>5, <2>1, <2>2, OneJob DEF Abandon
<1>6. CASE WriteRunning(j)
  <2>1. JobsTypeOK'
    BY <1>6 DEF WriteRunning
  <2>2. StagesTell(j)' /\ ErrorsTell(j)' /\ CancelsTell(j)'
    BY <1>0, <1>6 DEF WriteRunning, StagesTell, ErrorsTell, CancelsTell
  <2> QED
    BY <1>6, <2>1, <2>2, OneJob DEF WriteRunning
<1>7. CASE LookBeforeModel(j)
  <2>1. JobsTypeOK'
    BY <1>7 DEF LookBeforeModel, Looks
  <2>2. StagesTell(j)' /\ ErrorsTell(j)' /\ CancelsTell(j)'
    BY <1>0, <1>7 DEF LookBeforeModel, Looks, StagesTell, ErrorsTell, CancelsTell
  <2> QED
    BY <1>7, <2>1, <2>2, OneJob DEF LookBeforeModel, Looks
<1>8. CASE ModelAnswers(j)
  <2>1. JobsTypeOK'
    BY <1>8 DEF ModelAnswers
  <2>2. StagesTell(j)' /\ ErrorsTell(j)' /\ CancelsTell(j)'
    BY <1>0, <1>8 DEF ModelAnswers, StagesTell, ErrorsTell, CancelsTell
  <2> QED
    BY <1>8, <2>1, <2>2, OneJob DEF ModelAnswers
<1>9. CASE LookBeforeWrite(j)
  <2>1. JobsTypeOK'
    BY <1>9 DEF LookBeforeWrite, Looks
  <2>2. StagesTell(j)' /\ ErrorsTell(j)' /\ CancelsTell(j)'
    BY <1>0, <1>9 DEF LookBeforeWrite, Looks, StagesTell, ErrorsTell, CancelsTell
  <2> QED
    BY <1>9, <2>1, <2>2, OneJob DEF LookBeforeWrite, Looks
<1>10. CASE WriteCompleted(j)
  <2>1. JobsTypeOK'
    BY <1>10 DEF WriteCompleted
  <2>2. StagesTell(j)' /\ ErrorsTell(j)' /\ CancelsTell(j)'
    BY <1>0, <1>10 DEF WriteCompleted, StagesTell, ErrorsTell, CancelsTell
  <2> QED
    BY <1>10, <2>1, <2>2, OneJob DEF WriteCompleted
<1>11. CASE EmitUsage(j)
  <2>1. JobsTypeOK'
    BY <1>11 DEF EmitUsage
  <2>2. StagesTell(j)' /\ ErrorsTell(j)' /\ CancelsTell(j)'
    BY <1>0, <1>11 DEF EmitUsage, StagesTell, ErrorsTell, CancelsTell
  <2> QED
    BY <1>11, <2>1, <2>2, OneJob DEF EmitUsage
<1>12. CASE StepRaises(j)
  <2>1. JobsTypeOK'
    BY <1>12 DEF StepRaises
  <2>2. StagesTell(j)' /\ ErrorsTell(j)' /\ CancelsTell(j)'
    BY <1>0, <1>12 DEF StepRaises, StagesTell, ErrorsTell, CancelsTell
  <2> QED
    BY <1>12, <2>1, <2>2, OneJob DEF StepRaises
<1>13. CASE ReadBeforeMark(j)
  <2>1. JobsTypeOK'
    BY <1>13 DEF ReadBeforeMark
  <2>2. StagesTell(j)' /\ ErrorsTell(j)' /\ CancelsTell(j)'
    BY <1>0, <1>13 DEF ReadBeforeMark, StagesTell, ErrorsTell, CancelsTell
  <2> QED
    BY <1>13, <2>1, <2>2, OneJob DEF ReadBeforeMark
<1>14. CASE MarkFailed(j)
  <2>1. JobsTypeOK'
    BY <1>14 DEF MarkFailed
  <2>2. StagesTell(j)' /\ ErrorsTell(j)' /\ CancelsTell(j)'
    BY <1>0, <1>14 DEF MarkFailed, StagesTell, ErrorsTell, CancelsTell
  <2> QED
    BY <1>14, <2>1, <2>2, OneJob DEF MarkFailed
<1>15. CASE InsertRaises(j)
  <2>1. JobsTypeOK'
    BY <1>15 DEF InsertRaises
  <2>2. StagesTell(j)' /\ ErrorsTell(j)' /\ CancelsTell(j)'
    BY <1>0, <1>15 DEF InsertRaises, StagesTell, ErrorsTell, CancelsTell
  <2> QED
    BY <1>15, <2>1, <2>2, OneJob DEF InsertRaises
<1> QED
  BY <1>1, <1>2, <1>3, <1>4, <1>5, <1>6, <1>7, <1>8, <1>9, <1>10, <1>11, <1>12, <1>13, <1>14, <1>15 DEF WorkerSteps

\* What the end of a process keeps: its workers are cut off.
LEMMA CrashKeeps ==
  ASSUME JobsIndInv, NEW p \in Processes, Crash(p)
  PROVE  JobsIndInv'
<1> USE DEF JobsIndInv, JobsTypeOK, document, Incomplete, Final, Working, Ending, Cut, Over, Crash
<1>1. JobsTypeOK'
  OBVIOUS
<1>2. ASSUME NEW j \in Jobs PROVE StagesTell(j)' /\ ErrorsTell(j)' /\ CancelsTell(j)'
  BY DEF StagesTell, ErrorsTell, CancelsTell
<1> QED
  BY <1>1, <1>2

\* What a start-up keeps: the incomplete jobs it marks are over or cut off if they are
\* those of the process itself.
LEMMA StartKeeps ==
  ASSUME JobsIndInv, NEW p \in Processes, Start(p)
  PROVE  JobsIndInv'
<1> USE JobsAssumption DEF JobsIndInv, JobsTypeOK, Incomplete, Final, Working, Ending, Cut, Over, Start
<1>1. JobsTypeOK'
  OBVIOUS
<1>2. ASSUME NEW j \in Jobs PROVE StagesTell(j)' /\ ErrorsTell(j)' /\ CancelsTell(j)'
  <2>1. home[j] \in Processes /\ p \notin {"none", "failed"}
    OBVIOUS
  <2> QED
    BY <2>1 DEF StagesTell, ErrorsTell, CancelsTell
<1> QED
  BY <1>1, <1>2

\* The invariant is inductive.
THEOREM SpecJobsIndInv == JobsSpec => []JobsIndInv
<1>1. JobsIndInv /\ [JobsNext]_jobsVars => JobsIndInv'
  <2> SUFFICES ASSUME JobsIndInv, [JobsNext]_jobsVars PROVE JobsIndInv'
    OBVIOUS
  <2>1. CASE UNCHANGED jobsVars
    BY <2>1 DEF jobsVars, JobsIndInv, JobsTypeOK, StagesTell, ErrorsTell, CancelsTell
  <2>2. CASE JobsNext
    BY <2>2, WorkerKeeps, CrashKeeps, StartKeeps DEF JobsNext, WorkerSteps
  <2> QED
    BY <2>1, <2>2
<1> QED
  BY <1>1, InitJobs, PTL DEF JobsSpec

\* Every variable keeps its type.
THEOREM SpecJobsTypeOK == JobsSpec => []JobsTypeOK
<1>1. JobsIndInv => JobsTypeOK
  BY DEF JobsIndInv
<1> QED
  BY <1>1, SpecJobsIndInv, PTL

\* A cancel is lost only when it falls between a look and the write after it.
THEOREM SpecCancelLostOnlyByRace == JobsSpec => []CancelLostOnlyByRace
<1>1. JobsIndInv => CancelLostOnlyByRace
  BY DEF JobsIndInv, CancelLostOnlyByRace, CancelsTell
<1> QED
  BY <1>1, SpecJobsIndInv, PTL

\* Usage is reported once and of stored results, contradictory documents come from
\* overlap, and a job is called interrupted by the start-up of its own process only
\* when its worker is gone.
THEOREM SpecOutcomesAreExplained == JobsSpec => []OutcomesAreExplained
<1>1. JobsIndInv => OutcomesAreExplained
  <2> SUFFICES ASSUME JobsIndInv, NEW j \in Jobs
               PROVE  /\ usage[j] <= 1 /\ (usage[j] = 1 => result[j])
                      /\ status[j] = "COMPLETED" /\ error[j] # "none" =>
                           error[j] \in Processes \ {home[j]}
                      /\ status[j] = "FAILED" /\ result[j] =>
                           error[j] = "failed" /\ usage[j] = 0
                      /\ error[j] = home[j] => stage[j] \in Cut
    BY DEF OutcomesAreExplained, UsageMeansResult, OutcomesContradictOnlyByOverlap, InterruptedIsGone
  <2> QED
    BY DEF JobsIndInv, JobsTypeOK, StagesTell, ErrorsTell
<1> QED
  BY <1>1, SpecJobsIndInv, PTL

-----------------------------------------------------------------------------
(***************************************************************************)
(* The assistant: what a query holds at each step, and what the caches     *)
(* hold for it.                                                            *)
(***************************************************************************)
Steps == {"new", "asked", "versioned", "missed", "known", "admitted", "searching",
          "assessing", "caching", "reporting", "done"}
Asked   == {s \in Seq(Questions) : Len(s) <= MaxDepth + 1}
Subjects == [question : Asked, version : 0..MaxVersions, scope : Scopes]
Replies == [kind : {"none", "answer", "refusal", "clarification"},
            confidence : {"low", "medium", "high"}, about : Subjects]
Chunk  == [score : Int, header : Nat, text : Nat]
Chunks == Seq(Chunk)
Held    == [mode : Modes, role : Roles, scope : Scopes, question : Asked]
Read    == [version : 0..MaxVersions, enrolled : BOOLEAN, chunks : Chunks]
Kept    == [question : Asked, scope : Scopes]

\* AssistantTypeOK, with every variable a function from its domain
AssistantTypes ==
    /\ ready \in 0..MaxVersions /\ enrolled \in BOOLEAN /\ changes \in 0..MaxChanges
    /\ enrolKey \in {"none", "0", "1"}
    /\ answers \in [DOMAIN answers -> Replies]
    /\ contexts \in [Queries -> Kept]
    /\ step \in [Queries -> Steps]
    /\ ask \in [Queries -> Held] /\ got \in [Queries -> Read]
    /\ reply \in [Queries -> Replies]

\* Once it has read the version a query keeps it, and has a reply, to what it asked, only
\* when it is over with searching; what it is about to cache is an answer.
QueryTells(q) ==
    /\ step[q] \notin {"new", "asked", "done"} => got[q].version > 0
    /\ reply[q].kind # "none" =>
         step[q] \in {"caching", "reporting"} /\ reply[q].about = About(q)
    /\ step[q] = "caching" => reply[q].kind = "answer"

\* A cached answer is about what its key names.
CacheTells ==
    \A k \in DOMAIN answers :
        answers[k].kind = "answer" /\ answers[k].about = k /\ k.version \in 1..MaxVersions

AssistantInv ==
    /\ AssistantTypes
    /\ \A q \in Queries : QueryTells(q) /\ contexts[q].scope = "course"
    /\ CacheTells

\* The bounds and what may be asked and found, without the thresholds.
LEMMA AssistantBounds ==
  /\ MaxVersions \in Nat /\ MaxChanges \in Nat /\ MaxDepth \in Nat
  /\ Asks \subseteq Asking /\ ChunkLists \subseteq Chunks /\ <<>> \in Asked
BY AssistantAssumption DEF Chunks, Chunk, Asked

\* Before anything is asked the caches are empty and no query holds anything.
LEMMA InitAssistant == AssistantInit => AssistantInv
<1> SUFFICES ASSUME AssistantInit PROVE AssistantInv
  OBVIOUS
<1>1. AssistantTypes
  <2>1. NoContext \in Kept /\ Unasked \in Held
    BY AssistantBounds DEF NoContext, Unasked, Kept, Held, Scopes, Modes, Roles
  <2>2. Unread \in Read
    BY AssistantBounds DEF Unread, Read, Chunks
  <2>3. NoReply \in Replies
    BY AssistantBounds DEF NoReply, Nothing, Replies, Subjects, Scopes
  <2>4. 1 \in 0..MaxVersions /\ 0 \in 0..MaxChanges
    BY AssistantAssumption
  <2> QED
    BY <2>1, <2>2, <2>3, <2>4 DEF AssistantInit, AssistantTypes, Steps
<1>2. \A q \in Queries : QueryTells(q) /\ contexts[q].scope = "course"
  BY DEF AssistantInit, QueryTells, NoContext, NoReply, Unread
<1>3. CacheTells
  BY DEF AssistantInit, CacheTells
<1> QED
  BY <1>1, <1>2, <1>3 DEF AssistantInv

\* One query goes on with what it may hold, leaves the other queries alone, and what is
\* cached and kept is still right.
MovesTo(q, to) ==
    /\ step' = [step EXCEPT ![q] = to]
    /\ UNCHANGED world /\ enrolKey' \in {"none", "0", "1"}
    /\ answers' \in [DOMAIN answers' -> Replies] /\ CacheTells'
    /\ contexts' \in [Queries -> Kept] /\ \A p \in Queries : contexts'[p].scope = "course"
    /\ ask' \in [Queries -> Held] /\ got' \in [Queries -> Read] /\ reply' \in [Queries -> Replies]
    /\ \A p \in Queries \ {q} :
         ask'[p] = ask[p] /\ got'[p].version = got[p].version /\ reply'[p] = reply[p]
    /\ QueryTells(q)'

\* Such a step keeps the invariant.
LEMMA QueryMoves ==
  ASSUME AssistantInv, NEW q \in Queries, NEW to \in Steps, MovesTo(q, to)
  PROVE  AssistantInv'
<1>1. AssistantTypes'
  BY DEF AssistantInv, AssistantTypes, MovesTo, world
<1>2. ASSUME NEW p \in Queries \ {q} PROVE QueryTells(p)'
  BY DEF AssistantInv, AssistantTypes, QueryTells, MovesTo, About
<1> QED
  BY <1>1, <1>2 DEF AssistantInv, MovesTo

\* A query that ends takes what it held with it, and leaves the answers and the kept
\* questions as they were.
LEMMA EndsKeeps ==
  ASSUME AssistantInv, NEW q \in Queries, Ends(q),
         UNCHANGED <<world, contexts>>, enrolKey' \in {"none", "0", "1"},
         answers' \in [DOMAIN answers' -> Replies], CacheTells'
  PROVE  AssistantInv'
<1> USE AssistantBounds DEF AssistantInv, AssistantTypes, Ends
<1>1. ask' \in [Queries -> Held]
  BY DEF Unasked, Held, Scopes, Modes, Roles
<1>2. got' \in [Queries -> Read]
  BY DEF Unread, Read, Chunks
<1>3. reply' \in [Queries -> Replies]
  BY DEF NoReply, Nothing, Replies, Subjects, Scopes
<1>4. QueryTells(q)'
  BY DEF QueryTells, NoReply
<1>5. PICK to \in {"new", "done"} : step' = [step EXCEPT ![q] = to]
  OBVIOUS
<1>6. MovesTo(q, to)
  BY <1>1, <1>2, <1>3, <1>4, <1>5 DEF MovesTo
<1> QED
  BY <1>6, QueryMoves DEF Steps

\* A question about one module or asset is not asked back: the routes ask back only
\* when the search had the course for its scope.
LEMMA OnlyCourseIsAskedBack ==
  ASSUME NEW scope \in Scopes, NEW chunks,
         \/ GraphRoute(scope, chunks).to = "clarify"
         \/ StreamRoute(scope, chunks).to = "clarify"
  PROVE  scope = "course"
<1>1. CASE GraphRoute(scope, chunks).to = "clarify"
  BY <1>1 DEF GraphRoute, Ambiguous, Scopes
<1>2. CASE StreamRoute(scope, chunks).to = "clarify"
  BY <1>2 DEF StreamRoute, Ambiguous, Scopes
<1> QED
  BY <1>1, <1>2

\* What a query is about is a question, a version and a scope.
LEMMA SubjectsAsked == ASSUME AssistantInv, NEW q \in Queries PROVE About(q) \in Subjects
BY DEF AssistantInv, AssistantTypes, About, Subjects, Held, Read

\* A query that has been assessed holds no chunk any more, and its reply names the
\* version it read.
LEMMA AssessedKeeps ==
  ASSUME AssistantInv, NEW q \in Queries, NEW to \in {"caching", "reporting"},
         NEW answer \in {"answer", "refusal", "clarification"},
         NEW confidence \in {"low", "medium", "high"},
         Assessed(q, to, Reply(answer, confidence, About(q))),
         to = "caching" => answer = "answer",
         contexts' \in [Queries -> Kept], \A p \in Queries : contexts'[p].scope = "course"
  PROVE  AssistantInv'
<1> USE DEF AssistantInv, AssistantTypes, Assessed, GoesOn, Answers
<1>1. got' \in [Queries -> Read] /\ got'[q].version = got[q].version
  <2>1. <<>> \in Chunks
    BY DEF Chunks
  <2> QED
    BY <2>1 DEF Read
<1>2. Reply(answer, confidence, About(q)) \in Replies
  BY SubjectsAsked DEF Reply, Replies
<1>3. reply' \in [Queries -> Replies] /\ reply'[q] = Reply(answer, confidence, About(q))
  BY <1>2
<1>4. QueryTells(q)'
  BY <1>1, <1>3 DEF QueryTells, Reply, About
<1>5. MovesTo(q, to)
  BY <1>1, <1>3, <1>4 DEF MovesTo, world, CacheTells
<1> QED
  BY <1>5, QueryMoves DEF Steps

\* Chunks of a part of the course are as many and as long, with the highest score.
LEMMA ScoredAlike ==
  ASSUME NEW chunks \in Chunks
  PROVE  [i \in DOMAIN chunks |-> [chunks[i] EXCEPT !.score = 100]] \in Chunks
<1> DEFINE alike == [i \in 1 .. Len(chunks) |-> [chunks[i] EXCEPT !.score = 100]]
<1>1. chunks \in Seq(Chunk)
  BY DEF Chunks
<1>2. Len(chunks) \in Nat /\ DOMAIN chunks = 1 .. Len(chunks)
      /\ \A i \in 1 .. Len(chunks) : chunks[i] \in Chunk
  BY <1>1
<1>3. alike \in [1 .. Len(chunks) -> Chunk]
  BY <1>2 DEF Chunk
<1>4. alike \in Seq(Chunk)
  BY <1>2, <1>3
<1> QED
  BY <1>2, <1>4 DEF Chunks

\* Every step of a query keeps what queries and caches are known to hold.
LEMMA QueryKeeps ==
  ASSUME AssistantInv, NEW q \in Queries,
         \/ Ask(q) \/ \E original \in Queries : Clarify(q, original)
         \/ ReadVersion(q) \/ ReadEnrolKey(q) \/ ReadEnrollment(q) \/ SetEnrolKey(q)
         \/ LookUp(q) \/ Retrieve(q) \/ AnswersRefused(q) \/ AsksBack(q) \/ Generate(q)
         \/ CacheAnswer(q) \/ Report(q) \/ QueryFails(q)
  PROVE  AssistantInv'
<1> USE AssistantBounds
    DEF AssistantInv, AssistantTypes, world, caches, GoesOn, CacheTells, QueryTells, About
<1>1. CASE Ask(q)
  <2>1. ask' \in [Queries -> Held]
    <3>1. PICK a \in Asks : ask' = [ask EXCEPT ![q] = [a EXCEPT !.question = <<a.question>>]]
      BY <1>1 DEF Ask
    <3>2. a \in Asking /\ <<a.question>> \in Asked
      BY DEF Asking, Asked
    <3>3. [a EXCEPT !.question = <<a.question>>] \in Held
      BY <3>2 DEF Asking, Held
    <3> QED
      BY <3>1, <3>3
  <2>2. MovesTo(q, "asked")
    BY <1>1, <2>1 DEF MovesTo, Ask
  <2> QED
    BY <2>2, QueryMoves DEF Steps
<1>2. ASSUME NEW original \in Queries, Clarify(q, original) PROVE AssistantInv'
  <2>1. PICK role \in {a.role : a \in Asks}, clarification \in Questions :
          ask' = [ask EXCEPT ![q] =
                    [mode |-> "graph", role |-> role, scope |-> contexts[original].scope,
                     question |-> Append(contexts[original].question, clarification)]]
    BY <1>2 DEF Clarify
  <2>4. Append(contexts[original].question, clarification) \in Asked
    <3>1. /\ contexts[original].question \in Seq(Questions) /\ MaxDepth \in Nat
          /\ Len(contexts[original].question) <= MaxDepth
      BY <1>2 DEF Clarify, Kept, Asked
    <3> QED
      BY <3>1 DEF Asked
  <2>2. ask' \in [Queries -> Held]
    <3>1. contexts[original].scope \in Scopes /\ role \in Roles
      BY DEF Kept, Asking
    <3>2. [mode |-> "graph", role |-> role, scope |-> contexts[original].scope,
           question |-> Append(contexts[original].question, clarification)] \in Held
      BY <2>4, <3>1 DEF Held, Modes
    <3> QED
      BY <2>1, <3>2
  <2>3. MovesTo(q, "asked")
    BY <1>2, <2>2 DEF MovesTo, Clarify
  <2> QED
    BY <2>3, QueryMoves DEF Steps
<1>3. CASE ReadVersion(q)
  <2>1. got' \in [Queries -> Read] /\ got'[q].version = ready
    <3>1. got[q] \in Read /\ ready \in 0..MaxVersions
      OBVIOUS
    <3>2. [got[q] EXCEPT !.version = ready] \in Read
      BY <3>1 DEF Read
    <3>3. got' = [got EXCEPT ![q] = [got[q] EXCEPT !.version = ready]]
      BY <1>3 DEF ReadVersion
    <3> QED
      BY <3>1, <3>2, <3>3 DEF Read
  <2>2. QueryTells(q)'
    <3>1. reply[q].kind = "none" /\ reply' = reply
      BY <1>3 DEF ReadVersion
    <3>2. got'[q].version > 0
      BY <1>3, <2>1, AssistantBounds DEF ReadVersion
    <3>3. step'[q] = "versioned"
      BY <1>3 DEF ReadVersion
    <3> QED
      BY <3>1, <3>2, <3>3
  <2>3. /\ step' = [step EXCEPT ![q] = "versioned"] /\ got' = [got EXCEPT ![q].version = ready]
        /\ UNCHANGED <<world, caches, ask, reply>>
    BY <1>3 DEF ReadVersion
  <2>4. MovesTo(q, "versioned")
    BY <2>1, <2>2, <2>3 DEF MovesTo
  <2> QED
    BY <2>4, QueryMoves DEF Steps
<1>4. CASE ReadEnrolKey(q)
  <2>1. CASE Ends(q)
    BY <1>4, <2>1, EndsKeeps DEF ReadEnrolKey
  <2>2. CASE ~Ends(q)
    <3>1. PICK to \in Steps : step' = [step EXCEPT ![q] = to]
      BY <1>4, <2>2 DEF ReadEnrolKey, Admits, Steps
    <3>2. QueryTells(q)'
      BY <1>4, <2>2 DEF ReadEnrolKey, Admits
    <3>3. MovesTo(q, to)
      BY <1>4, <2>2, <3>1, <3>2 DEF MovesTo, ReadEnrolKey, Admits
    <3> QED
      BY <3>3, QueryMoves
  <2> QED
    BY <2>1, <2>2
<1>5. CASE ReadEnrollment(q)
  <2>1. got' \in [Queries -> Read] /\ got'[q].version = got[q].version
    <3>1. got' = [got EXCEPT ![q].enrolled = enrolled] /\ enrolled \in BOOLEAN
      BY <1>5 DEF ReadEnrollment
    <3>2. got[q] \in Read
      OBVIOUS
    <3>3. [got[q] EXCEPT !.enrolled = enrolled] \in Read
      BY <3>1, <3>2 DEF Read
    <3>4. got' = [got EXCEPT ![q] = [got[q] EXCEPT !.enrolled = enrolled]]
      BY <3>1
    <3> QED
      BY <3>2, <3>3, <3>4 DEF Read
  <2>2. /\ step[q] = "missed" /\ step' = [step EXCEPT ![q] = "known"]
        /\ got' = [got EXCEPT ![q].enrolled = enrolled]
        /\ UNCHANGED <<world, caches, ask, reply>>
    BY <1>5 DEF ReadEnrollment
  <2>3. QueryTells(q)' /\ \A p \in Queries \ {q} : got'[p].version = got[p].version
    BY <2>1, <2>2
  <2>4. MovesTo(q, "known")
    BY <2>1, <2>2, <2>3 DEF MovesTo
  <2> QED
    BY <2>4, QueryMoves DEF Steps
<1>6. CASE SetEnrolKey(q)
  <2>1. CASE Ends(q)
    BY <1>6, <2>1, EndsKeeps DEF SetEnrolKey
  <2>2. CASE ~Ends(q)
    <3>1. PICK to \in Steps : step' = [step EXCEPT ![q] = to]
      BY <1>6, <2>2 DEF SetEnrolKey, Admits, Steps
    <3>2. QueryTells(q)'
      BY <1>6, <2>2 DEF SetEnrolKey, Admits
    <3>3. MovesTo(q, to)
      BY <1>6, <2>2, <3>1, <3>2 DEF MovesTo, SetEnrolKey, Admits
    <3> QED
      BY <3>3, QueryMoves
  <2> QED
    BY <2>1, <2>2
<1>7. CASE LookUp(q)
  <2>1. CASE Key(q) \in DOMAIN answers
    <3>1. answers[Key(q)].kind = "answer" /\ answers[Key(q)].about = About(q)
      BY <2>1 DEF Key
    <3>2. reply' \in [Queries -> Replies] /\ reply'[q] = answers[Key(q)]
      BY <1>7, <2>1 DEF LookUp, Answers
    <3>3. QueryTells(q)'
      BY <1>7, <2>1, <3>1, <3>2 DEF LookUp
    <3>4. \A p \in Queries \ {q} : ask'[p] = ask[p] /\ got'[p].version = got[p].version /\ reply'[p] = reply[p]
      BY <1>7, <2>1 DEF LookUp, Answers
    <3>5. MovesTo(q, "reporting")
      BY <1>7, <2>1, <3>2, <3>3, <3>4 DEF MovesTo, LookUp
    <3> QED
      BY <3>5, QueryMoves DEF Steps
  <2>2. CASE Key(q) \notin DOMAIN answers
    <3>1. QueryTells(q)'
      BY <1>7, <2>2 DEF LookUp
    <3>2. MovesTo(q, "searching")
      BY <1>7, <2>2, <3>1 DEF MovesTo, LookUp
    <3> QED
      BY <3>2, QueryMoves DEF Steps
  <2> QED
    BY <2>1, <2>2
<1>8. CASE Retrieve(q)
  <2>1. PICK chunks \in ChunkLists :
          got' = [got EXCEPT ![q].chunks =
                   IF ask[q].scope = "asset"
                   THEN [i \in DOMAIN chunks |-> [chunks[i] EXCEPT !.score = 100]] ELSE chunks]
    BY <1>8 DEF Retrieve
  <2>2. chunks \in Chunks
    OBVIOUS
  <2>3. [i \in DOMAIN chunks |-> [chunks[i] EXCEPT !.score = 100]] \in Chunks
    BY <2>2, ScoredAlike
  <2>4. PICK found \in Chunks : got' = [got EXCEPT ![q].chunks = found]
    BY <2>1, <2>2, <2>3
  <2>5. got' \in [Queries -> Read] /\ got'[q].version = got[q].version
    <3>1. got[q] \in Read
      OBVIOUS
    <3>2. [got[q] EXCEPT !.chunks = found] \in Read
      BY <2>4, <3>1 DEF Read
    <3>3. got' = [got EXCEPT ![q] = [got[q] EXCEPT !.chunks = found]]
      BY <2>4
    <3> QED
      BY <3>1, <3>2, <3>3 DEF Read
  <2>6. QueryTells(q)'
    BY <1>8, <2>5 DEF Retrieve
  <2>7. \A p \in Queries \ {q} : got'[p].version = got[p].version /\ reply'[p] = reply[p]
    BY <1>8, <2>4 DEF Retrieve
  <2>8. step' = [step EXCEPT ![q] = "assessing"] /\ UNCHANGED <<world, caches, ask, reply>>
    BY <1>8 DEF Retrieve
  <2>9. MovesTo(q, "assessing")
    BY <2>5, <2>6, <2>7, <2>8 DEF MovesTo
  <2> QED
    BY <2>9, QueryMoves DEF Steps
<1>9. CASE AnswersRefused(q)
  BY <1>9, AssessedKeeps DEF AnswersRefused
<1>10. CASE AsksBack(q)
  <2>1. ask[q].scope = "course" /\ ask[q].question \in Asked
    BY <1>10, OnlyCourseIsAskedBack DEF AsksBack, RouteOf, Held
  <2>2. contexts' \in [Queries -> Kept] /\ \A p \in Queries : contexts'[p].scope = "course"
    BY <1>10, <2>1 DEF AsksBack, Kept, Scopes
  <2> QED
    BY <1>10, <2>2, AssessedKeeps DEF AsksBack
<1>11. CASE Generate(q)
  <2>1. RouteOf(q).confidence \in {"low", "medium", "high"}
    BY <1>11 DEF Generate, RouteOf, GraphRoute, StreamRoute, Confidence
  <2> QED
    BY <1>11, <2>1, AssessedKeeps DEF Generate
<1>12. CASE CacheAnswer(q)
  <2>1. reply[q].kind = "answer" /\ reply[q].about = Key(q)
        /\ got[q].version \in 1..MaxVersions
    <3>1. step[q] = "caching" /\ got[q].version \in 0..MaxVersions
      BY <1>12 DEF CacheAnswer, Read
    <3>2. got[q].version > 0 /\ reply[q].kind = "answer" /\ reply[q].about = Key(q)
      BY <3>1 DEF Key
    <3> QED
      BY <3>1, <3>2
  <2>2. answers' \in [DOMAIN answers' -> Replies]
    BY <1>12 DEF CacheAnswer
  <2>3. CacheTells'
    BY <1>12, <2>1 DEF CacheAnswer, Key
  <2>4. CASE Ends(q)
    BY <1>12, <2>2, <2>3, <2>4, EndsKeeps DEF CacheAnswer
  <2>5. CASE ~Ends(q)
    <3>1. UNCHANGED <<ask, got, reply, world, enrolKey, contexts>>
          /\ step' = [step EXCEPT ![q] = "reporting"]
      BY <1>12, <2>5 DEF CacheAnswer
    <3>2. QueryTells(q)'
      BY <1>12, <3>1 DEF CacheAnswer
    <3>3. MovesTo(q, "reporting")
      BY <2>2, <2>3, <3>1, <3>2 DEF MovesTo
    <3> QED
      BY <3>3, QueryMoves DEF Steps
  <2> QED
    BY <2>4, <2>5
<1>13. CASE Report(q) \/ QueryFails(q)
  BY <1>13, EndsKeeps DEF Report, QueryFails
<1> QED
  BY <1>1, <1>2, <1>3, <1>4, <1>5, <1>6, <1>7, <1>8, <1>9, <1>10, <1>11, <1>12, <1>13

\* Every step keeps what queries and caches are known to hold.
LEMMA NextAssistant == AssistantInv /\ [AssistantNext]_assistantVars => AssistantInv'
<1> SUFFICES ASSUME AssistantInv, [AssistantNext]_assistantVars PROVE AssistantInv'
  OBVIOUS
<1> USE DEF AssistantInv, AssistantTypes, QueryTells, CacheTells, About, world, caches
<1>1. CASE Publish \/ EnrollOrLeave
  <2>1. PICK v \in 0..MaxVersions, e \in BOOLEAN : ChangesBy(v, e)
    BY <1>1 DEF Publish, EnrollOrLeave
  <2>2. ready' \in 0..MaxVersions /\ enrolled' \in BOOLEAN /\ changes' \in 0..MaxChanges
    BY <2>1, AssistantBounds DEF ChangesBy
  <2> QED
    BY <2>1, <2>2 DEF ChangesBy
<1>2. CASE EnrolKeyExpires
  BY <1>2 DEF EnrolKeyExpires
<1>3. CASE EntryExpires
  <2>1. CASE UNCHANGED contexts
    <3>1. /\ DOMAIN answers' \subseteq DOMAIN answers
          /\ answers' = [l \in DOMAIN answers' |-> answers[l]]
          /\ UNCHANGED <<world, enrolKey, step, ask, got, reply>>
      BY <1>3, <2>1 DEF EntryExpires, NoContext
    <3>2. answers' \in [DOMAIN answers' -> Replies] /\ CacheTells'
      BY <3>1
    <3> QED
      BY <2>1, <3>1, <3>2
  <2>2. CASE ~UNCHANGED contexts
    <3>1. NoContext \in Kept /\ NoContext.scope = "course"
      BY AssistantBounds DEF NoContext, Scopes, Kept
    <3>2. PICK q \in Queries : contexts' = [contexts EXCEPT ![q] = NoContext]
      BY <1>3, <2>2 DEF EntryExpires
    <3>3. contexts' \in [Queries -> Kept] /\ \A p \in Queries : contexts'[p].scope = "course"
      BY <3>1, <3>2
    <3> QED
      BY <1>3, <2>2, <3>3 DEF EntryExpires
  <2> QED
    BY <2>1, <2>2
<1>4. CASE UNCHANGED assistantVars
  BY <1>4 DEF assistantVars
<1> QED
  BY <1>1, <1>2, <1>3, <1>4, QueryKeeps DEF AssistantNext

\* What is known of queries and caches holds in every state.
THEOREM SpecAssistantInv == AssistantSpec => []AssistantInv
BY InitAssistant, NextAssistant, PTL DEF AssistantSpec

\* Every reply is to the question, from the version and within the scope of its own query,
\* whatever is published, cached and asked back meanwhile; only answers are cached, and only
\* questions about the whole course asked back.
THEOREM SpecAnswersKeepTheirQuestion == AssistantSpec => []AnswersKeepTheirQuestion
<1>1. AssistantInv => AnswersKeepTheirQuestion
  <2> SUFFICES ASSUME AssistantInv PROVE AnswersKeepTheirQuestion
    OBVIOUS
  <2>1. AssistantTypeOK
    BY DEF AssistantInv, AssistantTypes, CacheTells, AssistantTypeOK, Replies, Held, Read, Kept, Asked
  <2>2. AnsweredItsQuestion /\ OnlyAnswersAreCached /\ ClarifiedHadNoScope
    BY DEF AssistantInv, QueryTells, CacheTells, AnsweredItsQuestion, OnlyAnswersAreCached,
           ClarifiedHadNoScope
  <2> QED
    BY <2>1, <2>2 DEF AnswersKeepTheirQuestion
<1> QED
  BY <1>1, SpecAssistantInv, PTL

\* What holds at 0 and from each number to the next one holds up to n.
LEMMA UpTo ==
  ASSUME NEW S, NEW n \in Nat, 0 \in S, \A i \in 1..n : i - 1 \in S => i \in S
  PROVE  \A i \in 0..n : i \in S
<1> DEFINE without == {i \in Nat : i \in 0..n /\ i \notin S}
<1> SUFFICES ASSUME without # {} PROVE FALSE
  OBVIOUS
<1>1. PICK k \in without : \A l \in without : ~(<<l, k>> \in OpToRel(<, Nat))
  <2> HIDE DEF without
  <2>1. without \subseteq Nat
    BY DEF without
  <2> QED
    BY <2>1, NatLessThanWellFounded, WFMin
<1>2. \A l \in without : ~(l < k)
  BY <1>1 DEF OpToRel
<1>3. k \in 1..n /\ k - 1 \in Nat /\ k - 1 \in 0..n /\ k - 1 < k /\ k \notin S
  OBVIOUS
<1>4. k - 1 \notin without
  BY <1>2, <1>3
<1> QED
  BY <1>3, <1>4

\* The highest of the scores is one of them, so that it can be compared with a threshold.
LEMMA TopScoreIsOne ==
  ASSUME NEW n \in Nat \ {0}, NEW s \in [1..n -> Int]
  PROVE  TopScore(s) \in Int
<1> DEFINE IsTop(m, k) == \A i \in 1..k : s[m] >= s[i]
           S == {k \in 0..n : k = 0 \/ \E m \in 1..k : IsTop(m, k)}
<1>1. 0 \in S
  OBVIOUS
<1>2. ASSUME NEW k \in 1..n, k - 1 \in S PROVE k \in S
  <2>1. CASE k = 1
    <3>1. 1 \in 1..k /\ IsTop(1, k)
      BY <2>1
    <3> QED
      BY <3>1
  <2>2. CASE k # 1
    <3>1. k - 1 # 0
      BY <2>2
    <3>2. PICK m \in 1 .. k - 1 : IsTop(m, k - 1)
      BY <1>2, <3>1
    <3>3. /\ s[k] \in Int /\ s[m] \in Int /\ \A i \in 1 .. k - 1 : s[i] \in Int
          /\ k \in 1..k /\ m \in 1..k
      OBVIOUS
    <3>4. IsTop(k, k) \/ IsTop(m, k)
      BY <3>2, <3>3
    <3> HIDE DEF IsTop
    <3> QED
      BY <3>3, <3>4
  <2> QED
    BY <2>1, <2>2
<1>3. n \in S
  <2> HIDE DEF S
  <2>1. \A k \in 0..n : k \in S
    BY <1>1, <1>2, UpTo
  <2> QED
    BY <2>1
<1>4. PICK m \in 1..n : \A i \in 1..n : s[m] >= s[i]
  BY <1>3
<1>5. s[m] \in ToSet(s) /\ \A x \in ToSet(s) : s[m] >= x
  BY <1>4 DEF ToSet
<1>6. TopScore(s) \in ToSet(s)
  BY <1>5 DEF TopScore, Max
<1> QED
  BY <1>6 DEF ToSet

\* The two routes, though written twice, decide alike on whatever is retrieved.
THEOREM RoutesDecideAlike ==
  ASSUME NEW scope \in Scopes, NEW chunks \in Chunks
  PROVE  GraphRoute(scope, chunks) = StreamRoute(scope, chunks)
<1> USE AssistantAssumption
<1>1. CASE chunks = <<>>
  BY <1>1 DEF GraphRoute, StreamRoute
<1>2. CASE chunks # <<>>
  <2>1. DOMAIN chunks = 1 .. Len(chunks) /\ Len(chunks) \in Nat \ {0}
    BY <1>2 DEF Chunks
  <2>2. \A i \in 1 .. Len(chunks) : chunks[i].score \in Int
    <3>1. \A i \in 1 .. Len(chunks) : chunks[i] \in Chunk
      BY DEF Chunks
    <3> QED
      BY <3>1 DEF Chunk
  <2>3. Scores(chunks) \in [1 .. Len(chunks) -> Int]
    BY <2>1, <2>2 DEF Scores
  <2>4. TopScore(Scores(chunks)) \in Int /\ RelevanceThreshold \in Int
    BY <2>1, <2>3, TopScoreIsOne
  <2> QED
    BY <1>2, <2>4 DEF GraphRoute, StreamRoute
<1> QED
  BY <1>1, <1>2

\* Whatever a query retrieved, POST /ask and GET /ask/stream would have decided alike.
THEOREM SpecRoutesAgree == AssistantSpec => []RoutesAgree
<1>1. AssistantInv => RoutesAgree
  BY RoutesDecideAlike DEF AssistantInv, AssistantTypes, Read, RoutesAgree
<1> QED
  BY <1>1, SpecAssistantInv, PTL

-----------------------------------------------------------------------------
(***************************************************************************)
(* The prompt: what the loop over the chunks selects.                      *)
(***************************************************************************)
\* f begins with b, and g computes each of its values from the one before.
FollowsFrom(f, b, g, n) == f = [i \in 0..n |-> IF i = 0 THEN b ELSE g[<<i, f[i - 1]>>]]

\* There are such values.
LEMMA ValuesFollow ==
  ASSUME NEW V, NEW b \in V, NEW n \in Nat, NEW g \in [(1..n) \X V -> V]
  PROVE  \E f \in [0..n -> V] : FollowsFrom(f, b, g, n)
<1> DEFINE Follows(f, k) == \A i \in 0..k : f[i] = IF i = 0 THEN b ELSE g[<<i, f[i - 1]>>]
           S == {k \in 0..n : \E f \in [0..k -> V] : Follows(f, k)}
<1>1. 0 \in S
  <2> DEFINE f == [i \in 0..0 |-> b]
  <2>1. f \in [0..0 -> V] /\ Follows(f, 0)
    OBVIOUS
  <2>2. 0 \in 0..n
    OBVIOUS
  <2> HIDE DEF f, Follows
  <2> QED
    BY <2>1, <2>2
<1>2. ASSUME NEW k \in 1..n, k - 1 \in S PROVE k \in S
  <2>1. PICK f \in [0 .. k - 1 -> V] : Follows(f, k - 1)
    BY <1>2
  <2> DEFINE next == [i \in 0..k |-> IF i = k THEN g[<<k, f[k - 1]>>] ELSE f[i]]
  <2>2. f[k - 1] \in V /\ g[<<k, f[k - 1]>>] \in V /\ \A i \in 0 .. k - 1 : f[i] \in V
    OBVIOUS
  <2>3. next \in [0..k -> V]
    BY <2>2
  <2>4. \A i \in 0 .. k - 1 : next[i] = f[i]
    OBVIOUS
  <2>5. next[k] = g[<<k, next[k - 1]>>]
    <3>1. k \in 0..k /\ k - 1 \in 0 .. k - 1
      OBVIOUS
    <3>2. next[k] = g[<<k, f[k - 1]>>]
      BY <3>1
    <3> HIDE DEF next
    <3> QED
      BY <2>4, <3>1, <3>2
  <2> HIDE DEF next
  <2>6. Follows(next, k)
    <3> SUFFICES ASSUME NEW i \in 0..k
                 PROVE  next[i] = IF i = 0 THEN b ELSE g[<<i, next[i - 1]>>]
      OBVIOUS
    <3>1. CASE i = k
      BY <2>5, <3>1
    <3>2. CASE i # k
      <4>1. i \in 0 .. k - 1 /\ (i # 0 => i - 1 \in 0 .. k - 1)
        BY <3>2
      <4> QED
        BY <2>1, <2>4, <4>1
    <3> QED
      BY <3>1, <3>2
  <2> HIDE DEF Follows
  <2> QED
    BY <2>3, <2>6
<1>3. n \in S
  <2> HIDE DEF S
  <2>1. \A i \in 0..n : i \in S
    BY <1>1, <1>2, UpTo
  <2> QED
    BY <2>1
<1>4. PICK f \in [0..n -> V] : Follows(f, n)
  BY <1>3
<1>5. FollowsFrom(f, b, g, n)
  BY <1>4 DEF FollowsFrom
<1> HIDE DEF Follows
<1> QED
  BY <1>5

\* Sums are what they are meant to be: each is the one before and one element more.
LEMMA SumsAre ==
  ASSUME NEW s \in Seq(Int)
  PROVE  /\ Sums(s) \in [0..Len(s) -> Int]
         /\ Sums(s)[0] = 0
         /\ \A i \in 1..Len(s) : Sums(s)[i] = Sums(s)[i - 1] + s[i]
<1> DEFINE n == Len(s)
           g == [p \in (1..n) \X Int |-> p[2] + s[p[1]]]
           Sum(f) == f = [i \in 0..n |-> IF i = 0 THEN 0 ELSE f[i - 1] + s[i]]
<1>1. n \in Nat /\ \A i \in 1..n : s[i] \in Int
  OBVIOUS
<1> HIDE DEF n
<1>2. g \in [(1..n) \X Int -> Int]
  BY <1>1
<1>3. \A i \in 1..n, x \in Int : g[<<i, x>>] = x + s[i]
  OBVIOUS
<1> HIDE DEF g
<1>4. PICK f \in [0..n -> Int] : FollowsFrom(f, 0, g, n)
  <2> DEFINE V == Int
             none == 0
  <2>1. n \in Nat /\ none \in V /\ g \in [(1..n) \X V -> V]
    BY <1>1, <1>2
  <2> HIDE DEF V, none
  <2>2. \E f \in [0..n -> V] : FollowsFrom(f, none, g, n)
    BY <2>1, ValuesFollow
  <2> QED
    BY <2>2 DEF V, none
<1>5. Sum(f)
  <2>1. \A i \in 0..n : i # 0 => i \in 1..n /\ i - 1 \in 0..n
    BY <1>1
  <2>2. \A i \in 0..n : f[i] = IF i = 0 THEN 0 ELSE f[i - 1] + s[i]
    BY <1>3, <1>4, <2>1 DEF FollowsFrom
  <2> QED
    BY <2>2
<1>6. Sum(Sums(s))
  BY <1>5 DEF Sums, n
<1>7. Sums(s) = f
  <2> DEFINE h == Sums(s)
             S == {i \in 0..n : h[i] = f[i]}
  <2>1. 0 \in S
    BY <1>1, <1>5, <1>6
  <2>2. ASSUME NEW i \in 1..n, i - 1 \in S PROVE i \in S
    BY <1>1, <1>5, <1>6, <2>2
  <2>3. \A i \in 0..n : i \in S
    <3> HIDE DEF S
    <3> QED
      BY <1>1, <2>1, <2>2, UpTo
  <2>4. h = [i \in 0..n |-> h[i]]
    BY <1>6
  <2> HIDE DEF h
  <2>5. h = f
    BY <2>3, <2>4
  <2> QED
    BY <2>5 DEF h
<1> HIDE DEF Sum
<1>8. /\ Sums(s)[0] = 0
      /\ \A i \in 1..n : Sums(s)[i] = Sums(s)[i - 1] + s[i]
  BY <1>1, <1>6 DEF Sum
<1> QED
  BY <1>7, <1>8 DEF n

\* A sequence that begins as another does has its sums.
LEMMA TotalOfAppend ==
  ASSUME NEW s \in Seq(Int), NEW x \in Int
  PROVE  Total(Append(s, x)) = Total(s) + x /\ Total(s) \in Int
<1> DEFINE n == Len(s)
           t == Append(s, x)
           S == {i \in 0..n : Sums(t)[i] = Sums(s)[i]}
<1>1. n \in Nat /\ t \in Seq(Int) /\ Len(t) = n + 1 /\ t[n + 1] = x /\ \A i \in 1..n : t[i] = s[i]
  OBVIOUS
<1> HIDE DEF t, n
<1>2. /\ Sums(t)[0] = 0 /\ Sums(s)[0] = 0 /\ Sums(s)[n] \in Int
      /\ \A i \in 1..n + 1 : Sums(t)[i] = Sums(t)[i - 1] + t[i]
      /\ \A i \in 1..n : Sums(s)[i] = Sums(s)[i - 1] + s[i]
  <2>1. /\ Sums(t)[0] = 0
        /\ \A i \in 1..Len(t) : Sums(t)[i] = Sums(t)[i - 1] + t[i]
    BY <1>1, SumsAre
  <2>2. /\ Sums(s) \in [0..n -> Int] /\ Sums(s)[0] = 0
        /\ \A i \in 1..n : Sums(s)[i] = Sums(s)[i - 1] + s[i]
    BY SumsAre DEF n
  <2> QED
    BY <1>1, <2>1, <2>2
<1>3. \A i \in 1..n : i - 1 \in S => i \in S
  BY <1>1, <1>2
<1>4. 0 \in S
  BY <1>1, <1>2
<1>5. n \in S
  <2> HIDE DEF S
  <2>1. \A i \in 0..n : i \in S
    BY <1>1, <1>3, <1>4, UpTo
  <2> QED
    BY <1>1, <2>1
<1>6. Sums(t)[n + 1] = Sums(t)[n] + x
  BY <1>1, <1>2
<1> QED
  BY <1>1, <1>2, <1>5, <1>6 DEF Total, t, n

Selection == [chosen : Seq(Chunk), full : BOOLEAN, used : Int]

\* A chunk counts a number of tokens, and the truncated one is a chunk again.
LEMMA ChunkCounts ==
  ASSUME NEW c \in Chunk
  PROVE  Tokens(c) \in Nat /\ Truncated(c) \in Chunk
<1>1. MaxInput \in Nat /\ Reserve \in Nat /\ Overhead \in Nat /\ Reserve < MaxInput
  BY AssistantAssumption
<1>2. c.header \in Nat /\ c.text \in Nat
  BY DEF Chunk
<1>3. MaxInput - Reserve \in Nat
  BY <1>1
<1>4. Tokens(c) \in Nat
  BY <1>1, <1>2 DEF Tokens
<1>5. Truncated(c) \in Chunk
  BY <1>2, <1>3 DEF Truncated, Chunk
<1> QED
  BY <1>4, <1>5

\* What the chosen chunks count is the sum that the loop keeps.
LEMMA UsedOfAppend ==
  ASSUME NEW chosen \in Seq(Chunk), NEW c \in Chunk
  PROVE  /\ Used(Append(chosen, c)) = Used(chosen) + Tokens(c)
         /\ Used(chosen) \in Int
<1> DEFINE s == [i \in DOMAIN chosen |-> Tokens(chosen[i])]
           t == [i \in DOMAIN Append(chosen, c) |-> Tokens(Append(chosen, c)[i])]
<1>1. \A i \in DOMAIN chosen : chosen[i] \in Chunk
  OBVIOUS
<1>2. s \in Seq(Int) /\ Len(s) = Len(chosen)
  <2>1. \A i \in DOMAIN chosen : s[i] \in Int
    BY <1>1, ChunkCounts
  <2> QED
    BY <2>1
<1>3. t = Append(s, Tokens(c))
  <2>1. DOMAIN t = 1 .. Len(chosen) + 1 /\ DOMAIN Append(s, Tokens(c)) = 1 .. Len(chosen) + 1
    BY <1>2
  <2>2. ASSUME NEW i \in 1 .. Len(chosen) + 1 PROVE t[i] = Append(s, Tokens(c))[i]
    BY <1>2
  <2> QED
    BY <2>1, <2>2, <1>2
<1>4. Tokens(c) \in Int
  BY ChunkCounts
<1> HIDE DEF s, t
<1>5. Total(t) = Total(s) + Tokens(c) /\ Total(s) \in Int
  BY <1>2, <1>3, <1>4, TotalOfAppend
<1> QED
  BY <1>5 DEF Used, s, t

\* Nothing chosen counts nothing.
LEMMA NothingUsed == Used(<<>>) = 0
<1> DEFINE s == [i \in DOMAIN <<>> |-> Tokens(<<>>[i])]
<1>1. s \in Seq(Int) /\ Len(s) = 0
  OBVIOUS
<1>2. Total(s) = 0
  <2> HIDE DEF s
  <2> QED
    BY <1>1, SumsAre DEF Total
<1> QED
  BY <1>2 DEF Used

\* A turn of the loop keeps the kinds of what it changes.
LEMMA ConsiderSelects ==
  ASSUME NEW scope, NEW sel \in Selection, NEW c \in Chunk
  PROVE  Consider(scope, sel, c) \in Selection
<1> DEFINE r == Consider(scope, sel, c)
<1>1. sel.chosen \in Seq(Chunk) /\ sel.full \in BOOLEAN /\ sel.used \in Int
  BY DEF Selection
<1>2. Append(sel.chosen, c) \in Seq(Chunk) /\ <<Truncated(c)>> \in Seq(Chunk)
  BY <1>1, ChunkCounts
<1>3. sel.used + Tokens(c) \in Int
  BY <1>1, ChunkCounts
<1>4. \/ r = [sel EXCEPT !.full = TRUE]
      \/ r = [sel EXCEPT !.chosen = <<Truncated(c)>>, !.full = TRUE]
      \/ r = [sel EXCEPT !.chosen = Append(sel.chosen, c), !.used = sel.used + Tokens(c)]
  BY DEF Consider
<1> HIDE DEF r
<1>5. r \in Selection
  BY <1>2, <1>3, <1>4 DEF Selection
<1> QED
  BY <1>5 DEF r

\* The loop goes from each selection to the next one.
LEMMA SelectionsAre ==
  ASSUME NEW scope, NEW chunks \in Seq(Chunk)
  PROVE  /\ Selections(scope, chunks) \in [0..Len(chunks) -> Selection]
         /\ Selections(scope, chunks)[0] = Unselected
         /\ \A i \in 1..Len(chunks) :
              Selections(scope, chunks)[i]
                = Consider(scope, Selections(scope, chunks)[i - 1], chunks[i])
<1> DEFINE n == Len(chunks)
           g == [p \in (1..n) \X Selection |-> Consider(scope, p[2], chunks[p[1]])]
           Loop(f) == f = [i \in 0..n |-> IF i = 0 THEN Unselected
                                          ELSE Consider(scope, f[i - 1], chunks[i])]
<1>1. n \in Nat /\ \A i \in 1..n : chunks[i] \in Chunk
  OBVIOUS
<1>2. Unselected \in Selection
  BY DEF Unselected, Selection
<1> HIDE DEF n
<1>3. g \in [(1..n) \X Selection -> Selection]
  BY <1>1, ConsiderSelects
<1>4. \A i \in 1..n, x \in Selection : g[<<i, x>>] = Consider(scope, x, chunks[i])
  OBVIOUS
<1> HIDE DEF g
<1>5. PICK f \in [0..n -> Selection] : FollowsFrom(f, Unselected, g, n)
  BY <1>1, <1>2, <1>3, ValuesFollow
<1>6. Loop(f)
  <2>1. \A i \in 0..n : i # 0 => i \in 1..n /\ i - 1 \in 0..n
    BY <1>1
  <2>2. \A i \in 0..n : f[i] = IF i = 0 THEN Unselected ELSE Consider(scope, f[i - 1], chunks[i])
    BY <1>4, <1>5, <2>1 DEF FollowsFrom
  <2> QED
    BY <2>2
<1>7. Loop(Selections(scope, chunks))
  BY <1>6 DEF Selections, n
<1>8. Selections(scope, chunks) = f
  <2> DEFINE h == Selections(scope, chunks)
             S == {i \in 0..n : h[i] = f[i]}
  <2>1. 0 \in S
    BY <1>1, <1>6, <1>7
  <2>2. ASSUME NEW i \in 1..n, i - 1 \in S PROVE i \in S
    BY <1>1, <1>6, <1>7, <2>2
  <2>3. \A i \in 0..n : i \in S
    <3> HIDE DEF S
    <3> QED
      BY <1>1, <2>1, <2>2, UpTo
  <2>4. h = [i \in 0..n |-> h[i]]
    BY <1>7
  <2> HIDE DEF h
  <2>5. h = f
    BY <2>3, <2>4
  <2> QED
    BY <2>5 DEF h
<1>9. /\ Selections(scope, chunks)[0] = Unselected
      /\ \A i \in 1..n : Selections(scope, chunks)[i]
                           = Consider(scope, Selections(scope, chunks)[i - 1], chunks[i])
  BY <1>1, <1>7
<1> QED
  BY <1>8, <1>9 DEF n

\* After i turns: a first chunk that is too long for the budget was truncated and ended the
\* loop; otherwise the first chunks are chosen, all of them until one of them did not fit.
SelectedAfter(scope, chunks, i, sel) ==
    /\ chunks # <<>> /\ Tokens(chunks[1]) > MaxInput =>
         IF i = 0 THEN sel = Unselected
         ELSE sel.full /\ sel.chosen = <<Truncated(chunks[1])>>
    /\ ~(chunks # <<>> /\ Tokens(chunks[1]) > MaxInput) =>
         LET k == Len(sel.chosen)
         IN /\ k <= i /\ (i > 0 => k > 0)
            /\ sel.chosen = SubSeq(chunks, 1, k)
            /\ sel.used = Used(sel.chosen) /\ sel.used <= MaxInput
            /\ scope # "asset" => k <= MaxChunks
            /\ ~sel.full => k = i
            /\ sel.full => k < i /\ \/ scope # "asset" /\ k = MaxChunks
                                    \/ sel.used + Tokens(chunks[k + 1]) > MaxInput

\* The loop keeps that.
LEMMA TurnSelects ==
  ASSUME NEW scope, NEW chunks \in Seq(Chunk), NEW i \in 1..Len(chunks),
         NEW sel \in Selection, SelectedAfter(scope, chunks, i - 1, sel)
  PROVE  SelectedAfter(scope, chunks, i, Consider(scope, sel, chunks[i]))
<1> DEFINE c == chunks[i]
           r == Consider(scope, sel, c)
           k == Len(sel.chosen)
           tooLong == chunks # <<>> /\ Tokens(chunks[1]) > MaxInput
<1>1. /\ Len(chunks) \in Nat /\ i \in Nat /\ i > 0 /\ i <= Len(chunks) /\ chunks # <<>>
      /\ \A j \in 1..Len(chunks) : chunks[j] \in Chunk
  OBVIOUS
<1>2. MaxInput \in Nat /\ MaxChunks \in Nat /\ MaxChunks > 0
  BY AssistantAssumption
<1>3. /\ c \in Chunk /\ Tokens(c) \in Nat
      /\ sel.chosen \in Seq(Chunk) /\ sel.full \in BOOLEAN /\ sel.used \in Int /\ k \in Nat
  BY <1>1, ChunkCounts DEF Selection
<1>4. sel.chosen = <<>> <=> k = 0
  BY <1>3
<1>5. CASE tooLong
  <2>1. CASE i = 1
    <3>1. sel.chosen = <<>> /\ sel.full = FALSE
      BY <1>1, <1>5, <2>1 DEF SelectedAfter, Unselected
    <3>2. Len(sel.chosen) = 0 /\ ~(0 >= MaxChunks)
      BY <1>2, <3>1
    <3>3. r = [sel EXCEPT !.chosen = <<Truncated(c)>>, !.full = TRUE]
      BY <1>5, <2>1, <3>1, <3>2 DEF Consider
    <3>4. r.full /\ r.chosen = <<Truncated(chunks[1])>>
      BY <2>1, <3>3 DEF Selection
    <3> HIDE DEF r
    <3> QED
      BY <1>1, <1>5, <3>4 DEF SelectedAfter, r, c
  <2>2. CASE i # 1
    <3>1. sel.full /\ sel.chosen = <<Truncated(chunks[1])>>
      BY <1>1, <1>5, <2>2 DEF SelectedAfter
    <3>2. r = [sel EXCEPT !.full = TRUE]
      BY <3>1 DEF Consider
    <3>3. r.full /\ r.chosen = <<Truncated(chunks[1])>>
      BY <3>1, <3>2 DEF Selection
    <3> HIDE DEF r
    <3> QED
      BY <1>1, <1>5, <3>3 DEF SelectedAfter, r, c
  <2> QED
    BY <2>1, <2>2
<1>6. CASE ~tooLong
  <2>1. /\ k <= i - 1 /\ (i - 1 > 0 => k > 0)
        /\ sel.chosen = SubSeq(chunks, 1, k)
        /\ sel.used = Used(sel.chosen) /\ sel.used <= MaxInput
        /\ scope # "asset" => k <= MaxChunks
        /\ ~sel.full => k = i - 1
        /\ sel.full => k < i - 1 /\ \/ scope # "asset" /\ k = MaxChunks
                                    \/ sel.used + Tokens(chunks[k + 1]) > MaxInput
    BY <1>6 DEF SelectedAfter
  <2> DEFINE kr == Len(r.chosen)
             Wanted == /\ kr <= i /\ (i > 0 => kr > 0)
                       /\ r.chosen = SubSeq(chunks, 1, kr)
                       /\ r.used = Used(r.chosen) /\ r.used <= MaxInput
                       /\ scope # "asset" => kr <= MaxChunks
                       /\ ~r.full => kr = i
                       /\ r.full => kr < i /\ \/ scope # "asset" /\ kr = MaxChunks
                                              \/ r.used + Tokens(chunks[kr + 1]) > MaxInput
  <2>2. CASE sel.full
    <3>1. r = [sel EXCEPT !.full = TRUE]
      BY <2>2 DEF Consider
    <3>2. r.chosen = sel.chosen /\ r.used = sel.used /\ r.full
      BY <3>1 DEF Selection
    <3> HIDE DEF r, c
    <3>3. Wanted
      BY <1>1, <1>2, <1>3, <2>1, <2>2, <3>2
    <3> QED
      BY <1>6, <3>3 DEF SelectedAfter, r, c
  <2>3. CASE ~sel.full /\ \/ scope # "asset" /\ k >= MaxChunks
                          \/ sel.chosen # <<>> /\ sel.used + Tokens(c) > MaxInput
    <3>1. r = [sel EXCEPT !.full = TRUE]
      BY <2>3 DEF Consider
    <3>2. r.chosen = sel.chosen /\ r.used = sel.used /\ r.full
      BY <3>1 DEF Selection
    <3>3. k = i - 1 /\ k + 1 = i /\ c = chunks[k + 1] /\ k > 0
      BY <1>1, <1>2, <1>3, <1>4, <2>1, <2>3
    <3> HIDE DEF r, c
    <3>4. Wanted
      BY <1>1, <1>2, <1>3, <2>1, <2>3, <3>2, <3>3
    <3> QED
      BY <1>6, <3>4 DEF SelectedAfter, r, c
  <2>4. CASE ~sel.full /\ ~(\/ scope # "asset" /\ k >= MaxChunks
                            \/ sel.chosen # <<>> /\ sel.used + Tokens(c) > MaxInput)
    <3>1. k = i - 1
      BY <2>1, <2>4
    <3>2. sel.chosen = <<>> => i = 1 /\ ~(Tokens(c) > MaxInput) /\ sel.used = 0
      BY <1>1, <1>4, <1>6, <2>1, <3>1, NothingUsed
    <3>3. r = [sel EXCEPT !.chosen = Append(@, c), !.used = @ + Tokens(c)]
      BY <2>4, <3>2 DEF Consider
    <3>4. /\ r.chosen = Append(sel.chosen, c) /\ r.used = sel.used + Tokens(c)
          /\ r.full = FALSE
      BY <2>4, <3>3 DEF Selection
    <3>5. sel.used + Tokens(c) <= MaxInput
      BY <1>2, <1>3, <2>4, <3>2
    <3>6. Len(r.chosen) = i
      BY <1>1, <1>3, <3>1, <3>4
    <3>7. r.chosen = SubSeq(chunks, 1, i)
      BY <1>1, <1>3, <2>1, <3>1, <3>4
    <3>8. r.used = Used(r.chosen)
      BY <1>3, <2>1, <3>4, UsedOfAppend
    <3> HIDE DEF r, c
    <3>9. Wanted
      BY <1>1, <1>2, <1>3, <2>1, <2>4, <3>1, <3>4, <3>5, <3>6, <3>7, <3>8
    <3> QED
      BY <1>6, <3>9 DEF SelectedAfter, r, c
  <2> QED
    BY <1>3, <2>2, <2>3, <2>4
<1> QED
  BY <1>5, <1>6

\* What is selected of any chunks fills the budgets of the prompt and exceeds the one of
\* tokens only by a truncated chunk with a long header.
THEOREM SelectionFillsBudget ==
  ASSUME NEW scope \in Scopes, NEW chunks \in Chunks
  PROVE  FillsBudget(scope, chunks)
<1> DEFINE n == Len(chunks)
           all == Selections(scope, chunks)
           S == {i \in 0..n : SelectedAfter(scope, chunks, i, all[i])}
           sel == all[n]
           k == Len(sel.chosen)
           tooLong == chunks # <<>> /\ Tokens(chunks[1]) > MaxInput
<1>1. chunks \in Seq(Chunk) /\ n \in Nat /\ \A i \in 1..n : chunks[i] \in Chunk
  BY DEF Chunks
<1>2. /\ all \in [0..n -> Selection] /\ all[0] = Unselected
      /\ \A i \in 1..n : all[i] = Consider(scope, all[i - 1], chunks[i])
  BY <1>1, SelectionsAre
<1> HIDE DEF all
<1>3. 0 \in S
  <2>1. SubSeq(chunks, 1, 0) = <<>> /\ MaxInput >= 0 /\ MaxChunks >= 0
    BY <1>1, AssistantAssumption
  <2>2. SelectedAfter(scope, chunks, 0, Unselected)
    BY <2>1, NothingUsed DEF SelectedAfter, Unselected
  <2> QED
    BY <1>1, <1>2, <2>2
<1>4. ASSUME NEW i \in 1..n, i - 1 \in S PROVE i \in S
  <2>1. all[i - 1] \in Selection /\ SelectedAfter(scope, chunks, i - 1, all[i - 1])
    BY <1>1, <1>2, <1>4
  <2>2. SelectedAfter(scope, chunks, i, Consider(scope, all[i - 1], chunks[i]))
    BY <1>1, <2>1, TurnSelects
  <2> QED
    BY <1>1, <1>2, <2>2
<1>5. sel \in Selection /\ SelectedAfter(scope, chunks, n, sel)
  <2>1. n \in S
    <3> HIDE DEF S
    <3>1. \A i \in 0..n : i \in S
      BY <1>1, <1>3, <1>4, UpTo
    <3> QED
      BY <1>1, <3>1
  <2> QED
    BY <1>1, <1>2, <2>1
<1>6. SelectContext(scope, chunks) = sel.chosen
  BY DEF SelectContext, all
<1> HIDE DEF sel
<1>7. sel.chosen \in Seq(Chunk) /\ k \in Nat
  BY <1>5 DEF Selection
<1>8. chunks # <<>> => n > 0
  BY <1>1
<1>9. CASE tooLong
  <2> DEFINE c == chunks[1]
             t == Truncated(c)
  <2>1. n > 0 /\ c \in Chunk /\ sel.chosen = <<t>> /\ t \in Chunk
    BY <1>1, <1>5, <1>8, <1>9, ChunkCounts DEF SelectedAfter
  <2>2. /\ c.header \in Nat /\ c.text \in Nat
        /\ MaxInput \in Nat /\ Reserve \in Nat /\ Overhead \in Nat
    BY <2>1, AssistantAssumption DEF Chunk
  <2>3. t.header = c.header /\ t.text \in Int /\ t.text <= MaxInput - Reserve
    BY <2>1, <2>2 DEF Truncated, Chunk
  <2>4. Tokens(t) > MaxInput => c.header + Overhead > Reserve
    BY <2>2, <2>3 DEF Tokens
  <2>5. Used(<<t>>) = Tokens(t)
    <3>1. Append(<<>>, t) = <<t>> /\ <<>> \in Seq(Chunk)
      OBVIOUS
    <3>2. Used(Append(<<>>, t)) = Used(<<>>) + Tokens(t) /\ Tokens(t) \in Nat
      BY <2>1, <3>1, UsedOfAppend, ChunkCounts
    <3> QED
      BY <3>1, <3>2, NothingUsed
  <2>6. Len(<<t>>) = 1
    OBVIOUS
  <2> HIDE DEF t, c
  <2> QED
    BY <1>6, <1>9, <2>1, <2>4, <2>5, <2>6 DEF FillsBudget, c
<1>10. CASE ~tooLong
  <2>1. /\ n > 0 => k > 0
        /\ sel.chosen = SubSeq(chunks, 1, k)
        /\ Used(sel.chosen) <= MaxInput
        /\ k < n => \/ scope # "asset" /\ k = MaxChunks
                    \/ Used(sel.chosen) + Tokens(chunks[k + 1]) > MaxInput
    BY <1>1, <1>5, <1>7, <1>10 DEF SelectedAfter, Selection
  <2> QED
    BY <1>6, <1>8, <1>10, <2>1 DEF FillsBudget
<1> QED
  BY <1>9, <1>10

\* Whatever a query retrieved, the prompt takes as much of it as the budgets allow.
THEOREM SpecRoutesAndPromptsHold == AssistantSpec => []RoutesAndPromptsHold
<1>1. AssistantInv => ContextFillsBudget
  BY SelectionFillsBudget DEF AssistantInv, AssistantTypes, Read, ContextFillsBudget
<1>2. ContextFillsBudget /\ RoutesAgree => RoutesAndPromptsHold
  BY DEF RoutesAndPromptsHold
<1> QED
  BY <1>1, <1>2, SpecAssistantInv, SpecRoutesAgree, PTL
=============================================================================
