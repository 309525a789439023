-------------------------- MODULE CompletionProofs --------------------------
(***************************************************************************)
(* Theorems about Completion for every set of requests, enrollments and    *)
(* modules.                                                                *)
(***************************************************************************)
EXTENDS Completion, FiniteSetTheorems, TLAPS

\* Sets of modules are finite, and no larger than the set of all of them.
LEMMA ModuleCount ==
  ASSUME NEW S \in SUBSET Modules
  PROVE  /\ IsFiniteSet(S)
         /\ Cardinality(S) \in 0 .. Cardinality(Modules)
         /\ Cardinality(S) = Cardinality(Modules) => S = Modules
BY FS_Subset, FS_CardinalityType, ModulesAssumption

\* Completing further modules never makes a count smaller.
LEMMA CountGrows ==
  ASSUME NEW T \in SUBSET Modules, NEW S \in SUBSET T
  PROVE  Cardinality(S) <= Cardinality(T)
BY FS_Subset, ModuleCount

\* The initial rows and requests are of their types.
LEMMA InitTypeOK == Init => TypeOK
<1> SUFFICES ASSUME Init PROVE TypeOK
  OBVIOUS
<1>1. 0 \in 0 .. Cardinality(Modules)
  BY FS_CardinalityType, ModulesAssumption
<1>2. RecordsTypeOK
  BY <1>1 DEF Init, RecordsTypeOK, ProgressRow, NoProgress, FreshProgress, RowStatus, ProgressStatus
<1> QED
  BY <1>1, <1>2 DEF Init, TypeOK

\* Every variable stays in its set; a count is one of a set of modules.
LEMMA NextTypeOK ==
  TypeOK /\ Arrived /\ [Next]_completionVars => TypeOK'
<1> SUFFICES ASSUME TypeOK, Arrived, [Next]_completionVars
             PROVE  TypeOK'
  OBVIOUS
<1> USE CompletionAssumption DEF TypeOK, RecordsTypeOK, recordVars, Goto, Requests, Arrived, CompleterRunning, CancellerRunning, Ended
<1>1. ASSUME NEW r \in Completers, ReceiveCompletion(r) PROVE TypeOK'
  <2>1. pc' \in [Requests -> CompleterRunning \cup CancellerRunning \cup Ended \cup {"idle"}]
    BY <1>1 DEF ReceiveCompletion
  <2> QED
    BY <1>1, <2>1 DEF ReceiveCompletion
<1>2. ASSUME NEW r \in Completers, LoadProgress(r) PROVE TypeOK'
  <2>1. target[r] \in Enrollments
    BY <1>2 DEF LoadProgress
  <2>2. progress[target[r]].status \in ProgressStatus \cup {"ABSENT"}
    BY <2>1 DEF ProgressRow
  <2> QED
    BY <1>2, <2>1, <2>2 DEF LoadProgress
<1>3. ASSUME NEW r \in Completers, FlushModule(r) PROVE TypeOK'
  BY <1>3 DEF FlushModule
<1>4. ASSUME NEW r \in Completers, CountModules(r) PROVE TypeOK'
  <2> DEFINE n == Cardinality(done[target[r]] \cup {module[r]})
  <2>1. done[target[r]] \cup {module[r]} \in SUBSET Modules
    BY <1>4 DEF CountModules
  <2>2. n \in 0 .. Cardinality(Modules)
    BY <2>1, ModuleCount
  <2>3. counted' = [counted EXCEPT ![r] = n]
    BY <1>4 DEF CountModules
  <2> HIDE DEF n
  <2>4. CASE call' = [call EXCEPT ![r] = "sent"] /\ pc' = [pc EXCEPT ![r] = "syncing"]
    BY <1>4, <2>2, <2>3, <2>4 DEF CountModules
  <2>5. CASE UNCHANGED call /\ pc' = [pc EXCEPT ![r] = "counted"]
    BY <1>4, <2>2, <2>3, <2>5 DEF CountModules
  <2> QED
    BY <1>4, <2>4, <2>5 DEF CountModules
<1>5. ASSUME NEW r \in Completers, MarkCompletedReply(r) PROVE TypeOK'
  BY <1>5 DEF MarkCompletedReply
<1>6. ASSUME NEW r \in Completers, FlushProgress(r) PROVE TypeOK'
  BY <1>6 DEF FlushProgress
<1>7. ASSUME NEW r \in Completers, IssueCertificate(r) PROVE TypeOK'
  BY <1>7 DEF IssueCertificate
<1>8. ASSUME NEW r \in Completers, Commit(r) PROVE TypeOK'
  <2> DEFINE e == target[r]
             new == [status |-> Written(loaded[r], NewStatus(r), progress[e].status),
                     count |-> counted[r]]
  <2>1. e \in Enrollments /\ module[r] \in Modules
    BY <1>8 DEF Commit
  <2>2. progress[e] \in ProgressRow /\ loaded[r] \in ProgressStatus \cup {"ABSENT"}
    BY <2>1
  <2>3. new.status \in ProgressStatus \cup {"ABSENT"}
    BY <2>2 DEF NewStatus, Written, ProgressRow, ProgressStatus
  <2>4. new.count \in 0 .. Cardinality(Modules)
    OBVIOUS
  <2>5. new \in ProgressRow
    BY <2>3, <2>4 DEF ProgressRow
  <2>6. progress' = [progress EXCEPT ![e] = new]
    BY <1>8 DEF Commit
  <2> HIDE DEF new
  <2>7. progress' \in [Enrollments -> ProgressRow]
    BY <2>1, <2>5, <2>6
  <2>8. done' \in [Enrollments -> SUBSET Modules]
    BY <1>8, <2>1 DEF Commit
  <2>9. certificates' \in SUBSET Enrollments
    BY <1>8, <2>1 DEF Commit
  <2>10. events' \in [Enrollments -> Nat]
    BY <1>8, <2>1 DEF Commit
  <2>11. pc' \in [Requests -> CompleterRunning \cup CancellerRunning \cup Ended \cup {"idle"}]
    BY <1>8 DEF Commit
  <2> QED
    BY <1>8, <2>7, <2>8, <2>9, <2>10, <2>11 DEF Commit
<1>9. ASSUME NEW r \in Completers, ServeMarkCompleted(r) PROVE TypeOK'
  BY <1>9 DEF ServeMarkCompleted, RowStatus
<1>10. ASSUME NEW x \in Cancellers, ReceiveCancel(x) PROVE TypeOK'
  BY <1>10 DEF ReceiveCancel
<1>11. ASSUME NEW x \in Cancellers, FlushCancel(x) PROVE TypeOK'
  BY <1>11 DEF FlushCancel
<1>12. ASSUME NEW x \in Cancellers, CommitCancel(x) PROVE TypeOK'
  BY <1>12 DEF CommitCancel, RowStatus
<1>13. ASSUME NEW x \in Cancellers, ServeCancelProgress(x) PROVE TypeOK'
  <2>1. progress' = [progress EXCEPT ![target[x]].status = "CANCELLED"]
    BY <1>13 DEF ServeCancelProgress
  <2>2. target[x] \in Enrollments
    BY <1>13 DEF ServeCancelProgress
  <2>3. [progress[target[x]] EXCEPT !.status = "CANCELLED"] \in ProgressRow
    BY <2>2 DEF ProgressRow, ProgressStatus
  <2>4. progress' \in [Enrollments -> ProgressRow]
    BY <2>1, <2>2, <2>3
  <2> QED
    BY <1>13, <2>4 DEF ServeCancelProgress
<1>14. ASSUME NEW r \in Requests, CallFailed(r) PROVE TypeOK'
  BY <1>14 DEF CallFailed, Abort
<1>15. ASSUME NEW r \in Requests, LoseCall(r) PROVE TypeOK'
  BY <1>15 DEF LoseCall
<1>16. ASSUME NEW r \in Requests, Fail(r) PROVE TypeOK'
  BY <1>16 DEF Fail, Abort, CompleterRunning, CancellerRunning
<1>17. CASE UNCHANGED completionVars
  BY <1>17 DEF completionVars, localVars
<1> QED
  BY <1>1, <1>2, <1>3, <1>4, <1>5, <1>6, <1>7, <1>8, <1>9,
     <1>10, <1>11, <1>12, <1>13, <1>14, <1>15, <1>16, <1>17
     DEF Next, CompleterStep, CancellerStep

\* A target and a module are chosen once, and calls follow them.
LEMMA NextArrived ==
  TypeOK /\ Arrived /\ [Next]_completionVars => Arrived'
<1> SUFFICES ASSUME TypeOK, Arrived, [Next]_completionVars
             PROVE  Arrived'
  OBVIOUS
<1> USE CompletionAssumption DEF TypeOK, RecordsTypeOK, recordVars, Goto, Requests, Arrived
<1>1. ASSUME NEW r \in Completers, ReceiveCompletion(r) PROVE Arrived'
  BY <1>1 DEF ReceiveCompletion
<1>2. ASSUME NEW r \in Completers, LoadProgress(r) PROVE Arrived'
  BY <1>2 DEF LoadProgress
<1>3. ASSUME NEW r \in Completers, FlushModule(r) PROVE Arrived'
  BY <1>3 DEF FlushModule
<1>4. ASSUME NEW r \in Completers, CountModules(r) PROVE Arrived'
  BY <1>4 DEF CountModules
<1>5. ASSUME NEW r \in Completers, MarkCompletedReply(r) PROVE Arrived'
  BY <1>5 DEF MarkCompletedReply
<1>6. ASSUME NEW r \in Completers, FlushProgress(r) PROVE Arrived'
  BY <1>6 DEF FlushProgress
<1>7. ASSUME NEW r \in Completers, IssueCertificate(r) PROVE Arrived'
  BY <1>7 DEF IssueCertificate
<1>8. ASSUME NEW r \in Completers, Commit(r) PROVE Arrived'
  BY <1>8 DEF Commit
<1>9. ASSUME NEW r \in Completers, ServeMarkCompleted(r) PROVE Arrived'
  BY <1>9 DEF ServeMarkCompleted
<1>10. ASSUME NEW x \in Cancellers, ReceiveCancel(x) PROVE Arrived'
  BY <1>10 DEF ReceiveCancel
<1>11. ASSUME NEW x \in Cancellers, FlushCancel(x) PROVE Arrived'
  BY <1>11 DEF FlushCancel
<1>12. ASSUME NEW x \in Cancellers, CommitCancel(x) PROVE Arrived'
  BY <1>12 DEF CommitCancel
<1>13. ASSUME NEW x \in Cancellers, ServeCancelProgress(x) PROVE Arrived'
  BY <1>13 DEF ServeCancelProgress
<1>14. ASSUME NEW r \in Requests, CallFailed(r) PROVE Arrived'
  BY <1>14 DEF CallFailed, Abort
<1>15. ASSUME NEW r \in Requests, LoseCall(r) PROVE Arrived'
  BY <1>15 DEF LoseCall
<1>16. ASSUME NEW r \in Requests, Fail(r) PROVE Arrived'
  BY <1>16 DEF Fail, Abort, CompleterRunning, CancellerRunning
<1>17. CASE UNCHANGED completionVars
  BY <1>17 DEF completionVars, localVars
<1> QED
  BY <1>1, <1>2, <1>3, <1>4, <1>5, <1>6, <1>7, <1>8, <1>9,
     <1>10, <1>11, <1>12, <1>13, <1>14, <1>15, <1>16, <1>17
     DEF Next, CompleterStep, CancellerStep

\* FlushProgress waits for the row to be free.
LEMMA NextRowLocks ==
  TypeOK /\ RowLocks /\ [Next]_completionVars => RowLocks'
<1> SUFFICES ASSUME TypeOK, RowLocks, [Next]_completionVars
             PROVE  RowLocks'
  OBVIOUS
<1> USE CompletionAssumption DEF TypeOK, RecordsTypeOK, recordVars, Goto, Requests, RowLocks
<1>1. ASSUME NEW r \in Completers, ReceiveCompletion(r) PROVE RowLocks'
  BY <1>1 DEF ReceiveCompletion
<1>2. ASSUME NEW r \in Completers, LoadProgress(r) PROVE RowLocks'
  BY <1>2 DEF LoadProgress
<1>3. ASSUME NEW r \in Completers, FlushModule(r) PROVE RowLocks'
  BY <1>3 DEF FlushModule
<1>4. ASSUME NEW r \in Completers, CountModules(r) PROVE RowLocks'
  BY <1>4 DEF CountModules
<1>5. ASSUME NEW r \in Completers, MarkCompletedReply(r) PROVE RowLocks'
  BY <1>5 DEF MarkCompletedReply
<1>6. ASSUME NEW r \in Completers, FlushProgress(r) PROVE RowLocks'
  BY <1>6 DEF FlushProgress, ProgressRowFree, HoldsProgressRow
<1>7. ASSUME NEW r \in Completers, IssueCertificate(r) PROVE RowLocks'
  BY <1>7 DEF IssueCertificate
<1>8. ASSUME NEW r \in Completers, Commit(r) PROVE RowLocks'
  BY <1>8 DEF Commit
<1>9. ASSUME NEW r \in Completers, ServeMarkCompleted(r) PROVE RowLocks'
  BY <1>9 DEF ServeMarkCompleted
<1>10. ASSUME NEW x \in Cancellers, ReceiveCancel(x) PROVE RowLocks'
  BY <1>10 DEF ReceiveCancel
<1>11. ASSUME NEW x \in Cancellers, FlushCancel(x) PROVE RowLocks'
  BY <1>11 DEF FlushCancel
<1>12. ASSUME NEW x \in Cancellers, CommitCancel(x) PROVE RowLocks'
  BY <1>12 DEF CommitCancel
<1>13. ASSUME NEW x \in Cancellers, ServeCancelProgress(x) PROVE RowLocks'
  BY <1>13 DEF ServeCancelProgress
<1>14. ASSUME NEW r \in Requests, CallFailed(r) PROVE RowLocks'
  BY <1>14 DEF CallFailed, Abort
<1>15. ASSUME NEW r \in Requests, LoseCall(r) PROVE RowLocks'
  BY <1>15 DEF LoseCall
<1>16. ASSUME NEW r \in Requests, Fail(r) PROVE RowLocks'
  BY <1>16 DEF Fail, Abort, CompleterRunning, CancellerRunning
<1>17. CASE UNCHANGED completionVars
  BY <1>17 DEF completionVars, localVars
<1> QED
  BY <1>1, <1>2, <1>3, <1>4, <1>5, <1>6, <1>7, <1>8, <1>9,
     <1>10, <1>11, <1>12, <1>13, <1>14, <1>15, <1>16, <1>17
     DEF Next, CompleterStep, CancellerStep

\* The modules counted by a running request stay completed.
LEMMA NextCountsHold ==
  TypeOK /\ Arrived /\ CountsHold /\ [Next]_completionVars => CountsHold'
<1> SUFFICES ASSUME TypeOK, Arrived, CountsHold, [Next]_completionVars
             PROVE  CountsHold'
  OBVIOUS
<1> USE CompletionAssumption DEF TypeOK, RecordsTypeOK, recordVars, Goto, Requests, CountsHold
<1>1. ASSUME NEW r \in Completers, ReceiveCompletion(r) PROVE CountsHold'
  BY <1>1 DEF ReceiveCompletion
<1>2. ASSUME NEW r \in Completers, LoadProgress(r) PROVE CountsHold'
  BY <1>2 DEF LoadProgress
<1>3. ASSUME NEW r \in Completers, FlushModule(r) PROVE CountsHold'
  BY <1>3 DEF FlushModule
<1>4. ASSUME NEW r \in Completers, CountModules(r) PROVE CountsHold'
  <2> DEFINE S == done[target[r]] \cup {module[r]}
  <2>1. S \in SUBSET Modules
    BY <1>4 DEF CountModules, Arrived
  <2>2. Cardinality(S) \in Nat
    BY <2>1, ModuleCount
  <2>3. /\ counted' = [counted EXCEPT ![r] = Cardinality(S)]
        /\ UNCHANGED <<done, target, module>>
        /\ \A q \in Completers : q # r => pc'[q] = pc[q]
    BY <1>4 DEF CountModules
  <2>4. counted'[r] <= Cardinality((done[target[r]] \cup {module[r]})')
    BY <2>2, <2>3
  <2> QED
    BY <2>3, <2>4
<1>5. ASSUME NEW r \in Completers, MarkCompletedReply(r) PROVE CountsHold'
  BY <1>5 DEF MarkCompletedReply
<1>6. ASSUME NEW r \in Completers, FlushProgress(r) PROVE CountsHold'
  BY <1>6 DEF FlushProgress
<1>7. ASSUME NEW r \in Completers, IssueCertificate(r) PROVE CountsHold'
  BY <1>7 DEF IssueCertificate
<1>8. ASSUME NEW r \in Completers, Commit(r) PROVE CountsHold'
  <2> SUFFICES ASSUME NEW q \in Completers,
                      pc[q] \in {"counted", "syncing", "synced", "stored", "written"}
               PROVE  counted[q] <= Cardinality((done[target[q]] \cup {module[q]})')
    BY <1>8 DEF Commit
  <2> DEFINE S == done[target[q]] \cup {module[q]}
             T == (done[target[q]] \cup {module[q]})'
  <2>1. target[q] \in Enrollments /\ module[q] \in Modules /\ target[r] \in Enrollments /\ module[r] \in Modules
    BY <1>8 DEF Commit, Arrived
  <2>2. T \in SUBSET Modules /\ S \in SUBSET T
    BY <1>8, <2>1 DEF Commit
  <2>3. counted[q] <= Cardinality(S)
    OBVIOUS
  <2> HIDE DEF S, T
  <2>4. Cardinality(S) <= Cardinality(T)
    BY <2>2, CountGrows
  <2>5. Cardinality(S) \in Nat /\ Cardinality(T) \in Nat /\ counted[q] \in Nat
    BY <2>2, ModuleCount
  <2> QED
    BY <2>3, <2>4, <2>5 DEF T
<1>9. ASSUME NEW r \in Completers, ServeMarkCompleted(r) PROVE CountsHold'
  BY <1>9 DEF ServeMarkCompleted
<1>10. ASSUME NEW x \in Cancellers, ReceiveCancel(x) PROVE CountsHold'
  BY <1>10 DEF ReceiveCancel
<1>11. ASSUME NEW x \in Cancellers, FlushCancel(x) PROVE CountsHold'
  BY <1>11 DEF FlushCancel
<1>12. ASSUME NEW x \in Cancellers, CommitCancel(x) PROVE CountsHold'
  BY <1>12 DEF CommitCancel
<1>13. ASSUME NEW x \in Cancellers, ServeCancelProgress(x) PROVE CountsHold'
  BY <1>13 DEF ServeCancelProgress
<1>14. ASSUME NEW r \in Requests, CallFailed(r) PROVE CountsHold'
  BY <1>14 DEF CallFailed, Abort
<1>15. ASSUME NEW r \in Requests, LoseCall(r) PROVE CountsHold'
  BY <1>15 DEF LoseCall
<1>16. ASSUME NEW r \in Requests, Fail(r) PROVE CountsHold'
  BY <1>16 DEF Fail, Abort, CompleterRunning, CancellerRunning
<1>17. CASE UNCHANGED completionVars
  BY <1>17 DEF completionVars, localVars
<1> QED
  BY <1>1, <1>2, <1>3, <1>4, <1>5, <1>6, <1>7, <1>8, <1>9,
     <1>10, <1>11, <1>12, <1>13, <1>14, <1>15, <1>16, <1>17
     DEF Next, CompleterStep, CancellerStep

\* Whoever calls mark_completed has counted every module, and none is undone.
LEMMA NextFinishingSawAll ==
  TypeOK /\ Arrived /\ FinishingSawAll /\ [Next]_completionVars => FinishingSawAll'
<1> SUFFICES ASSUME TypeOK, Arrived, FinishingSawAll, [Next]_completionVars
             PROVE  FinishingSawAll'
  OBVIOUS
<1> USE CompletionAssumption DEF TypeOK, RecordsTypeOK, recordVars, Goto, Requests, FinishingSawAll, Finishing, Arrived
<1>1. ASSUME NEW r \in Completers, ReceiveCompletion(r) PROVE FinishingSawAll'
  BY <1>1 DEF ReceiveCompletion
<1>2. ASSUME NEW r \in Completers, LoadProgress(r) PROVE FinishingSawAll'
  BY <1>2 DEF LoadProgress
<1>3. ASSUME NEW r \in Completers, FlushModule(r) PROVE FinishingSawAll'
  BY <1>3 DEF FlushModule
<1>4. ASSUME NEW r \in Completers, CountModules(r) PROVE FinishingSawAll'
  <2> DEFINE S == done[target[r]] \cup {module[r]}
  <2>1. S \in SUBSET Modules
    BY <1>4 DEF CountModules
  <2>2. AllCompleted(Cardinality(S)) => S = Modules
    BY <2>1, ModuleCount DEF AllCompleted
  <2>3. counted' = [counted EXCEPT ![r] = Cardinality(S)]
    BY <1>4 DEF CountModules
  <2>4. CASE AllCompleted(Cardinality(S))
    BY <1>4, <2>2, <2>3, <2>4 DEF CountModules
  <2>5. CASE ~AllCompleted(Cardinality(S))
    BY <1>4, <2>3, <2>5 DEF CountModules
  <2> QED
    BY <2>4, <2>5
<1>5. ASSUME NEW r \in Completers, MarkCompletedReply(r) PROVE FinishingSawAll'
  BY <1>5 DEF MarkCompletedReply
<1>6. ASSUME NEW r \in Completers, FlushProgress(r) PROVE FinishingSawAll'
  BY <1>6 DEF FlushProgress
<1>7. ASSUME NEW r \in Completers, IssueCertificate(r) PROVE FinishingSawAll'
  BY <1>7 DEF IssueCertificate
<1>8. ASSUME NEW r \in Completers, Commit(r) PROVE FinishingSawAll'
  BY <1>8 DEF Commit
<1>9. ASSUME NEW r \in Completers, ServeMarkCompleted(r) PROVE FinishingSawAll'
  BY <1>9 DEF ServeMarkCompleted
<1>10. ASSUME NEW x \in Cancellers, ReceiveCancel(x) PROVE FinishingSawAll'
  BY <1>10 DEF ReceiveCancel
<1>11. ASSUME NEW x \in Cancellers, FlushCancel(x) PROVE FinishingSawAll'
  BY <1>11 DEF FlushCancel
<1>12. ASSUME NEW x \in Cancellers, CommitCancel(x) PROVE FinishingSawAll'
  BY <1>12 DEF CommitCancel
<1>13. ASSUME NEW x \in Cancellers, ServeCancelProgress(x) PROVE FinishingSawAll'
  BY <1>13 DEF ServeCancelProgress
<1>14. ASSUME NEW r \in Requests, CallFailed(r) PROVE FinishingSawAll'
  BY <1>14 DEF CallFailed, Abort
<1>15. ASSUME NEW r \in Requests, LoseCall(r) PROVE FinishingSawAll'
  BY <1>15 DEF LoseCall
<1>16. ASSUME NEW r \in Requests, Fail(r) PROVE FinishingSawAll'
  BY <1>16 DEF Fail, Abort, CompleterRunning, CancellerRunning
<1>17. CASE UNCHANGED completionVars
  BY <1>17 DEF completionVars, localVars
<1> QED
  BY <1>1, <1>2, <1>3, <1>4, <1>5, <1>6, <1>7, <1>8, <1>9,
     <1>10, <1>11, <1>12, <1>13, <1>14, <1>15, <1>16, <1>17
     DEF Next, CompleterStep, CancellerStep

\* The lock on the progress row keeps the looked-up certificate as it was.
LEMMA NextCertificateLooked ==
  TypeOK /\ Arrived /\ RowLocks /\ FinishingSawAll /\ CertificateLooked /\ [Next]_completionVars => CertificateLooked'
<1> SUFFICES ASSUME TypeOK, Arrived, RowLocks, FinishingSawAll, CertificateLooked, [Next]_completionVars
             PROVE  CertificateLooked'
  OBVIOUS
<1> USE CompletionAssumption DEF TypeOK, RecordsTypeOK, recordVars, Goto, Requests, CertificateLooked, RowLocks, Arrived, FinishingSawAll
<1>1. ASSUME NEW r \in Completers, ReceiveCompletion(r) PROVE CertificateLooked'
  BY <1>1 DEF ReceiveCompletion
<1>2. ASSUME NEW r \in Completers, LoadProgress(r) PROVE CertificateLooked'
  BY <1>2 DEF LoadProgress
<1>3. ASSUME NEW r \in Completers, FlushModule(r) PROVE CertificateLooked'
  BY <1>3 DEF FlushModule
<1>4. ASSUME NEW r \in Completers, CountModules(r) PROVE CertificateLooked'
  BY <1>4 DEF CountModules
<1>5. ASSUME NEW r \in Completers, MarkCompletedReply(r) PROVE CertificateLooked'
  BY <1>5 DEF MarkCompletedReply
<1>6. ASSUME NEW r \in Completers, FlushProgress(r) PROVE CertificateLooked'
  BY <1>6 DEF FlushProgress
<1>7. ASSUME NEW r \in Completers, IssueCertificate(r) PROVE CertificateLooked'
  BY <1>7 DEF IssueCertificate
<1>8. ASSUME NEW r \in Completers, Commit(r) PROVE CertificateLooked'
  BY <1>8 DEF Commit
<1>9. ASSUME NEW r \in Completers, ServeMarkCompleted(r) PROVE CertificateLooked'
  BY <1>9 DEF ServeMarkCompleted
<1>10. ASSUME NEW x \in Cancellers, ReceiveCancel(x) PROVE CertificateLooked'
  BY <1>10 DEF ReceiveCancel
<1>11. ASSUME NEW x \in Cancellers, FlushCancel(x) PROVE CertificateLooked'
  BY <1>11 DEF FlushCancel
<1>12. ASSUME NEW x \in Cancellers, CommitCancel(x) PROVE CertificateLooked'
  BY <1>12 DEF CommitCancel
<1>13. ASSUME NEW x \in Cancellers, ServeCancelProgress(x) PROVE CertificateLooked'
  BY <1>13 DEF ServeCancelProgress
<1>14. ASSUME NEW r \in Requests, CallFailed(r) PROVE CertificateLooked'
  BY <1>14 DEF CallFailed, Abort
<1>15. ASSUME NEW r \in Requests, LoseCall(r) PROVE CertificateLooked'
  BY <1>15 DEF LoseCall
<1>16. ASSUME NEW r \in Requests, Fail(r) PROVE CertificateLooked'
  BY <1>16 DEF Fail, Abort, CompleterRunning, CancellerRunning
<1>17. CASE UNCHANGED completionVars
  BY <1>17 DEF completionVars, localVars
<1> QED
  BY <1>1, <1>2, <1>3, <1>4, <1>5, <1>6, <1>7, <1>8, <1>9,
     <1>10, <1>11, <1>12, <1>13, <1>14, <1>15, <1>16, <1>17
     DEF Next, CompleterStep, CancellerStep

\* A served mark_completed is visible in the row until a cancellation commits.
LEMMA NextServedIsCompleted ==
  TypeOK /\ Arrived /\ ServedIsCompleted /\ [Next]_completionVars => ServedIsCompleted'
<1> SUFFICES ASSUME TypeOK, Arrived, ServedIsCompleted, [Next]_completionVars
             PROVE  ServedIsCompleted'
  OBVIOUS
<1> USE CompletionAssumption DEF TypeOK, RecordsTypeOK, recordVars, Goto, Requests, ServedIsCompleted, Finishing, Arrived
<1>1. ASSUME NEW r \in Completers, ReceiveCompletion(r) PROVE ServedIsCompleted'
  BY <1>1 DEF ReceiveCompletion
<1>2. ASSUME NEW r \in Completers, LoadProgress(r) PROVE ServedIsCompleted'
  BY <1>2 DEF LoadProgress
<1>3. ASSUME NEW r \in Completers, FlushModule(r) PROVE ServedIsCompleted'
  BY <1>3 DEF FlushModule
<1>4. ASSUME NEW r \in Completers, CountModules(r) PROVE ServedIsCompleted'
  BY <1>4 DEF CountModules
<1>5. ASSUME NEW r \in Completers, MarkCompletedReply(r) PROVE ServedIsCompleted'
  BY <1>5 DEF MarkCompletedReply
<1>6. ASSUME NEW r \in Completers, FlushProgress(r) PROVE ServedIsCompleted'
  BY <1>6 DEF FlushProgress
<1>7. ASSUME NEW r \in Completers, IssueCertificate(r) PROVE ServedIsCompleted'
  BY <1>7 DEF IssueCertificate
<1>8. ASSUME NEW r \in Completers, Commit(r) PROVE ServedIsCompleted'
  BY <1>8 DEF Commit
<1>9. ASSUME NEW r \in Completers, ServeMarkCompleted(r) PROVE ServedIsCompleted'
  BY <1>9 DEF ServeMarkCompleted
<1>10. ASSUME NEW x \in Cancellers, ReceiveCancel(x) PROVE ServedIsCompleted'
  BY <1>10 DEF ReceiveCancel
<1>11. ASSUME NEW x \in Cancellers, FlushCancel(x) PROVE ServedIsCompleted'
  BY <1>11 DEF FlushCancel
<1>12. ASSUME NEW x \in Cancellers, CommitCancel(x) PROVE ServedIsCompleted'
  BY <1>12 DEF CommitCancel
<1>13. ASSUME NEW x \in Cancellers, ServeCancelProgress(x) PROVE ServedIsCompleted'
  BY <1>13 DEF ServeCancelProgress
<1>14. ASSUME NEW r \in Requests, CallFailed(r) PROVE ServedIsCompleted'
  BY <1>14 DEF CallFailed, Abort
<1>15. ASSUME NEW r \in Requests, LoseCall(r) PROVE ServedIsCompleted'
  BY <1>15 DEF LoseCall
<1>16. ASSUME NEW r \in Requests, Fail(r) PROVE ServedIsCompleted'
  BY <1>16 DEF Fail, Abort, CompleterRunning, CancellerRunning
<1>17. CASE UNCHANGED completionVars
  BY <1>17 DEF completionVars, localVars
<1> QED
  BY <1>1, <1>2, <1>3, <1>4, <1>5, <1>6, <1>7, <1>8, <1>9,
     <1>10, <1>11, <1>12, <1>13, <1>14, <1>15, <1>16, <1>17
     DEF Next, CompleterStep, CancellerStep

\* A served cancel_progress is visible in the row until a completion commits.
LEMMA NextServedIsCancelled ==
  TypeOK /\ Arrived /\ ServedIsCancelled /\ [Next]_completionVars => ServedIsCancelled'
<1> SUFFICES ASSUME TypeOK, Arrived, ServedIsCancelled, [Next]_completionVars
             PROVE  ServedIsCancelled'
  OBVIOUS
<1> USE CompletionAssumption DEF TypeOK, RecordsTypeOK, recordVars, Goto, Requests, ServedIsCancelled, Arrived
<1>1. ASSUME NEW r \in Completers, ReceiveCompletion(r) PROVE ServedIsCancelled'
  BY <1>1 DEF ReceiveCompletion
<1>2. ASSUME NEW r \in Completers, LoadProgress(r) PROVE ServedIsCancelled'
  BY <1>2 DEF LoadProgress
<1>3. ASSUME NEW r \in Completers, FlushModule(r) PROVE ServedIsCancelled'
  BY <1>3 DEF FlushModule
<1>4. ASSUME NEW r \in Completers, CountModules(r) PROVE ServedIsCancelled'
  BY <1>4 DEF CountModules
<1>5. ASSUME NEW r \in Completers, MarkCompletedReply(r) PROVE ServedIsCancelled'
  BY <1>5 DEF MarkCompletedReply
<1>6. ASSUME NEW r \in Completers, FlushProgress(r) PROVE ServedIsCancelled'
  BY <1>6 DEF FlushProgress
<1>7. ASSUME NEW r \in Completers, IssueCertificate(r) PROVE ServedIsCancelled'
  BY <1>7 DEF IssueCertificate
<1>8. ASSUME NEW r \in Completers, Commit(r) PROVE ServedIsCancelled'
  BY <1>8 DEF Commit
<1>9. ASSUME NEW r \in Completers, ServeMarkCompleted(r) PROVE ServedIsCancelled'
  BY <1>9 DEF ServeMarkCompleted
<1>10. ASSUME NEW x \in Cancellers, ReceiveCancel(x) PROVE ServedIsCancelled'
  BY <1>10 DEF ReceiveCancel
<1>11. ASSUME NEW x \in Cancellers, FlushCancel(x) PROVE ServedIsCancelled'
  BY <1>11 DEF FlushCancel
<1>12. ASSUME NEW x \in Cancellers, CommitCancel(x) PROVE ServedIsCancelled'
  BY <1>12 DEF CommitCancel
<1>13. ASSUME NEW x \in Cancellers, ServeCancelProgress(x) PROVE ServedIsCancelled'
  BY <1>13 DEF ServeCancelProgress
<1>14. ASSUME NEW r \in Requests, CallFailed(r) PROVE ServedIsCancelled'
  BY <1>14 DEF CallFailed, Abort
<1>15. ASSUME NEW r \in Requests, LoseCall(r) PROVE ServedIsCancelled'
  BY <1>15 DEF LoseCall
<1>16. ASSUME NEW r \in Requests, Fail(r) PROVE ServedIsCancelled'
  BY <1>16 DEF Fail, Abort, CompleterRunning, CancellerRunning
<1>17. CASE UNCHANGED completionVars
  BY <1>17 DEF completionVars, localVars
<1> QED
  BY <1>1, <1>2, <1>3, <1>4, <1>5, <1>6, <1>7, <1>8, <1>9,
     <1>10, <1>11, <1>12, <1>13, <1>14, <1>15, <1>16, <1>17
     DEF Next, CompleterStep, CancellerStep

\* A certificate is committed with the last module, and no module is undone.
LEMMA NextCertificateMeansAllModulesDone ==
  TypeOK /\ Arrived /\ FinishingSawAll /\ CertificateMeansAllModulesDone /\ [Next]_completionVars => CertificateMeansAllModulesDone'
<1> SUFFICES ASSUME TypeOK, Arrived, FinishingSawAll, CertificateMeansAllModulesDone, [Next]_completionVars
             PROVE  CertificateMeansAllModulesDone'
  OBVIOUS
<1> USE CompletionAssumption DEF TypeOK, RecordsTypeOK, recordVars, Goto, Requests, CertificateMeansAllModulesDone, Arrived
<1>1. ASSUME NEW r \in Completers, ReceiveCompletion(r) PROVE CertificateMeansAllModulesDone'
  BY <1>1 DEF ReceiveCompletion
<1>2. ASSUME NEW r \in Completers, LoadProgress(r) PROVE CertificateMeansAllModulesDone'
  BY <1>2 DEF LoadProgress
<1>3. ASSUME NEW r \in Completers, FlushModule(r) PROVE CertificateMeansAllModulesDone'
  BY <1>3 DEF FlushModule
<1>4. ASSUME NEW r \in Completers, CountModules(r) PROVE CertificateMeansAllModulesDone'
  BY <1>4 DEF CountModules
<1>5. ASSUME NEW r \in Completers, MarkCompletedReply(r) PROVE CertificateMeansAllModulesDone'
  BY <1>5 DEF MarkCompletedReply
<1>6. ASSUME NEW r \in Completers, FlushProgress(r) PROVE CertificateMeansAllModulesDone'
  BY <1>6 DEF FlushProgress
<1>7. ASSUME NEW r \in Completers, IssueCertificate(r) PROVE CertificateMeansAllModulesDone'
  BY <1>7 DEF IssueCertificate
<1>8. ASSUME NEW r \in Completers, Commit(r) PROVE CertificateMeansAllModulesDone'
  BY <1>8 DEF Commit, FinishingSawAll, Finishing, AllCompleted
<1>9. ASSUME NEW r \in Completers, ServeMarkCompleted(r) PROVE CertificateMeansAllModulesDone'
  BY <1>9 DEF ServeMarkCompleted
<1>10. ASSUME NEW x \in Cancellers, ReceiveCancel(x) PROVE CertificateMeansAllModulesDone'
  BY <1>10 DEF ReceiveCancel
<1>11. ASSUME NEW x \in Cancellers, FlushCancel(x) PROVE CertificateMeansAllModulesDone'
  BY <1>11 DEF FlushCancel
<1>12. ASSUME NEW x \in Cancellers, CommitCancel(x) PROVE CertificateMeansAllModulesDone'
  BY <1>12 DEF CommitCancel
<1>13. ASSUME NEW x \in Cancellers, ServeCancelProgress(x) PROVE CertificateMeansAllModulesDone'
  BY <1>13 DEF ServeCancelProgress
<1>14. ASSUME NEW r \in Requests, CallFailed(r) PROVE CertificateMeansAllModulesDone'
  BY <1>14 DEF CallFailed, Abort
<1>15. ASSUME NEW r \in Requests, LoseCall(r) PROVE CertificateMeansAllModulesDone'
  BY <1>15 DEF LoseCall
<1>16. ASSUME NEW r \in Requests, Fail(r) PROVE CertificateMeansAllModulesDone'
  BY <1>16 DEF Fail, Abort, CompleterRunning, CancellerRunning
<1>17. CASE UNCHANGED completionVars
  BY <1>17 DEF completionVars, localVars
<1> QED
  BY <1>1, <1>2, <1>3, <1>4, <1>5, <1>6, <1>7, <1>8, <1>9,
     <1>10, <1>11, <1>12, <1>13, <1>14, <1>15, <1>16, <1>17
     DEF Next, CompleterStep, CancellerStep

\* Certificate and event are inserted by the same transaction.
LEMMA NextOneEventPerCertificate ==
  TypeOK /\ Arrived /\ CertificateLooked /\ OneEventPerCertificate /\ [Next]_completionVars => OneEventPerCertificate'
<1> SUFFICES ASSUME TypeOK, Arrived, CertificateLooked, OneEventPerCertificate, [Next]_completionVars
             PROVE  OneEventPerCertificate'
  OBVIOUS
<1> USE CompletionAssumption DEF TypeOK, RecordsTypeOK, recordVars, Goto, Requests, OneEventPerCertificate, Arrived
<1>1. ASSUME NEW r \in Completers, ReceiveCompletion(r) PROVE OneEventPerCertificate'
  BY <1>1 DEF ReceiveCompletion
<1>2. ASSUME NEW r \in Completers, LoadProgress(r) PROVE OneEventPerCertificate'
  BY <1>2 DEF LoadProgress
<1>3. ASSUME NEW r \in Completers, FlushModule(r) PROVE OneEventPerCertificate'
  BY <1>3 DEF FlushModule
<1>4. ASSUME NEW r \in Completers, CountModules(r) PROVE OneEventPerCertificate'
  BY <1>4 DEF CountModules
<1>5. ASSUME NEW r \in Completers, MarkCompletedReply(r) PROVE OneEventPerCertificate'
  BY <1>5 DEF MarkCompletedReply
<1>6. ASSUME NEW r \in Completers, FlushProgress(r) PROVE OneEventPerCertificate'
  BY <1>6 DEF FlushProgress
<1>7. ASSUME NEW r \in Completers, IssueCertificate(r) PROVE OneEventPerCertificate'
  BY <1>7 DEF IssueCertificate
<1>8. ASSUME NEW r \in Completers, Commit(r) PROVE OneEventPerCertificate'
  BY <1>8 DEF Commit, CertificateLooked
<1>9. ASSUME NEW r \in Completers, ServeMarkCompleted(r) PROVE OneEventPerCertificate'
  BY <1>9 DEF ServeMarkCompleted
<1>10. ASSUME NEW x \in Cancellers, ReceiveCancel(x) PROVE OneEventPerCertificate'
  BY <1>10 DEF ReceiveCancel
<1>11. ASSUME NEW x \in Cancellers, FlushCancel(x) PROVE OneEventPerCertificate'
  BY <1>11 DEF FlushCancel
<1>12. ASSUME NEW x \in Cancellers, CommitCancel(x) PROVE OneEventPerCertificate'
  BY <1>12 DEF CommitCancel
<1>13. ASSUME NEW x \in Cancellers, ServeCancelProgress(x) PROVE OneEventPerCertificate'
  BY <1>13 DEF ServeCancelProgress
<1>14. ASSUME NEW r \in Requests, CallFailed(r) PROVE OneEventPerCertificate'
  BY <1>14 DEF CallFailed, Abort
<1>15. ASSUME NEW r \in Requests, LoseCall(r) PROVE OneEventPerCertificate'
  BY <1>15 DEF LoseCall
<1>16. ASSUME NEW r \in Requests, Fail(r) PROVE OneEventPerCertificate'
  BY <1>16 DEF Fail, Abort, CompleterRunning, CancellerRunning
<1>17. CASE UNCHANGED completionVars
  BY <1>17 DEF completionVars, localVars
<1> QED
  BY <1>1, <1>2, <1>3, <1>4, <1>5, <1>6, <1>7, <1>8, <1>9,
     <1>10, <1>11, <1>12, <1>13, <1>14, <1>15, <1>16, <1>17
     DEF Next, CompleterStep, CancellerStep

\* mark_completed is answered before the certificate is committed.
LEMMA NextCertifiedIsCompletedOrCancelled ==
  TypeOK /\ Arrived /\ ServedIsCompleted /\ CertifiedIsCompletedOrCancelled /\ [Next]_completionVars => CertifiedIsCompletedOrCancelled'
<1> SUFFICES ASSUME TypeOK, Arrived, ServedIsCompleted, CertifiedIsCompletedOrCancelled, [Next]_completionVars
             PROVE  CertifiedIsCompletedOrCancelled'
  OBVIOUS
<1> USE CompletionAssumption DEF TypeOK, RecordsTypeOK, recordVars, Goto, Requests, CertifiedIsCompletedOrCancelled, Arrived
<1>1. ASSUME NEW r \in Completers, ReceiveCompletion(r) PROVE CertifiedIsCompletedOrCancelled'
  BY <1>1 DEF ReceiveCompletion
<1>2. ASSUME NEW r \in Completers, LoadProgress(r) PROVE CertifiedIsCompletedOrCancelled'
  BY <1>2 DEF LoadProgress
<1>3. ASSUME NEW r \in Completers, FlushModule(r) PROVE CertifiedIsCompletedOrCancelled'
  BY <1>3 DEF FlushModule
<1>4. ASSUME NEW r \in Completers, CountModules(r) PROVE CertifiedIsCompletedOrCancelled'
  BY <1>4 DEF CountModules
<1>5. ASSUME NEW r \in Completers, MarkCompletedReply(r) PROVE CertifiedIsCompletedOrCancelled'
  BY <1>5 DEF MarkCompletedReply
<1>6. ASSUME NEW r \in Completers, FlushProgress(r) PROVE CertifiedIsCompletedOrCancelled'
  BY <1>6 DEF FlushProgress
<1>7. ASSUME NEW r \in Completers, IssueCertificate(r) PROVE CertifiedIsCompletedOrCancelled'
  BY <1>7 DEF IssueCertificate
<1>8. ASSUME NEW r \in Completers, Commit(r) PROVE CertifiedIsCompletedOrCancelled'
  BY <1>8 DEF Commit, ServedIsCompleted, Finishing
<1>9. ASSUME NEW r \in Completers, ServeMarkCompleted(r) PROVE CertifiedIsCompletedOrCancelled'
  BY <1>9 DEF ServeMarkCompleted
<1>10. ASSUME NEW x \in Cancellers, ReceiveCancel(x) PROVE CertifiedIsCompletedOrCancelled'
  BY <1>10 DEF ReceiveCancel
<1>11. ASSUME NEW x \in Cancellers, FlushCancel(x) PROVE CertifiedIsCompletedOrCancelled'
  BY <1>11 DEF FlushCancel
<1>12. ASSUME NEW x \in Cancellers, CommitCancel(x) PROVE CertifiedIsCompletedOrCancelled'
  BY <1>12 DEF CommitCancel
<1>13. ASSUME NEW x \in Cancellers, ServeCancelProgress(x) PROVE CertifiedIsCompletedOrCancelled'
  BY <1>13 DEF ServeCancelProgress
<1>14. ASSUME NEW r \in Requests, CallFailed(r) PROVE CertifiedIsCompletedOrCancelled'
  BY <1>14 DEF CallFailed, Abort
<1>15. ASSUME NEW r \in Requests, LoseCall(r) PROVE CertifiedIsCompletedOrCancelled'
  BY <1>15 DEF LoseCall
<1>16. ASSUME NEW r \in Requests, Fail(r) PROVE CertifiedIsCompletedOrCancelled'
  BY <1>16 DEF Fail, Abort, CompleterRunning, CancellerRunning
<1>17. CASE UNCHANGED completionVars
  BY <1>17 DEF completionVars, localVars
<1> QED
  BY <1>1, <1>2, <1>3, <1>4, <1>5, <1>6, <1>7, <1>8, <1>9,
     <1>10, <1>11, <1>12, <1>13, <1>14, <1>15, <1>16, <1>17
     DEF Next, CompleterStep, CancellerStep

\* The status COMPLETED is written with the certificate or after it.
LEMMA NextCompletedProgressIsCertified ==
  TypeOK /\ Arrived /\ CertificateLooked /\ CompletedProgressIsCertified /\ [Next]_completionVars => CompletedProgressIsCertified'
<1> SUFFICES ASSUME TypeOK, Arrived, CertificateLooked, CompletedProgressIsCertified, [Next]_completionVars
             PROVE  CompletedProgressIsCertified'
  OBVIOUS
<1> USE CompletionAssumption DEF TypeOK, RecordsTypeOK, recordVars, Goto, Requests, CompletedProgressIsCertified, Arrived
<1>1. ASSUME NEW r \in Completers, ReceiveCompletion(r) PROVE CompletedProgressIsCertified'
  BY <1>1 DEF ReceiveCompletion
<1>2. ASSUME NEW r \in Completers, LoadProgress(r) PROVE CompletedProgressIsCertified'
  BY <1>2 DEF LoadProgress
<1>3. ASSUME NEW r \in Completers, FlushModule(r) PROVE CompletedProgressIsCertified'
  BY <1>3 DEF FlushModule
<1>4. ASSUME NEW r \in Completers, CountModules(r) PROVE CompletedProgressIsCertified'
  BY <1>4 DEF CountModules
<1>5. ASSUME NEW r \in Completers, MarkCompletedReply(r) PROVE CompletedProgressIsCertified'
  BY <1>5 DEF MarkCompletedReply
<1>6. ASSUME NEW r \in Completers, FlushProgress(r) PROVE CompletedProgressIsCertified'
  BY <1>6 DEF FlushProgress
<1>7. ASSUME NEW r \in Completers, IssueCertificate(r) PROVE CompletedProgressIsCertified'
  BY <1>7 DEF IssueCertificate
<1>8. ASSUME NEW r \in Completers, Commit(r) PROVE CompletedProgressIsCertified'
  BY <1>8 DEF Commit, CertificateLooked, NewStatus, Written
<1>9. ASSUME NEW r \in Completers, ServeMarkCompleted(r) PROVE CompletedProgressIsCertified'
  BY <1>9 DEF ServeMarkCompleted
<1>10. ASSUME NEW x \in Cancellers, ReceiveCancel(x) PROVE CompletedProgressIsCertified'
  BY <1>10 DEF ReceiveCancel
<1>11. ASSUME NEW x \in Cancellers, FlushCancel(x) PROVE CompletedProgressIsCertified'
  BY <1>11 DEF FlushCancel
<1>12. ASSUME NEW x \in Cancellers, CommitCancel(x) PROVE CompletedProgressIsCertified'
  BY <1>12 DEF CommitCancel
<1>13. ASSUME NEW x \in Cancellers, ServeCancelProgress(x) PROVE CompletedProgressIsCertified'
  BY <1>13 DEF ServeCancelProgress
<1>14. ASSUME NEW r \in Requests, CallFailed(r) PROVE CompletedProgressIsCertified'
  BY <1>14 DEF CallFailed, Abort
<1>15. ASSUME NEW r \in Requests, LoseCall(r) PROVE CompletedProgressIsCertified'
  BY <1>15 DEF LoseCall
<1>16. ASSUME NEW r \in Requests, Fail(r) PROVE CompletedProgressIsCertified'
  BY <1>16 DEF Fail, Abort, CompleterRunning, CancellerRunning
<1>17. CASE UNCHANGED completionVars
  BY <1>17 DEF completionVars, localVars
<1> QED
  BY <1>1, <1>2, <1>3, <1>4, <1>5, <1>6, <1>7, <1>8, <1>9,
     <1>10, <1>11, <1>12, <1>13, <1>14, <1>15, <1>16, <1>17
     DEF Next, CompleterStep, CancellerStep

\* Both the stored count and the written one are counts of completed modules.
LEMMA NextPercentNeverAhead ==
  TypeOK /\ Arrived /\ CountsHold /\ PercentNeverAhead /\ [Next]_completionVars => PercentNeverAhead'
<1> SUFFICES ASSUME TypeOK, Arrived, CountsHold, PercentNeverAhead, [Next]_completionVars
             PROVE  PercentNeverAhead'
  OBVIOUS
<1> USE CompletionAssumption DEF TypeOK, RecordsTypeOK, recordVars, Goto, Requests, PercentNeverAhead
<1>1. ASSUME NEW r \in Completers, ReceiveCompletion(r) PROVE PercentNeverAhead'
  BY <1>1 DEF ReceiveCompletion
<1>2. ASSUME NEW r \in Completers, LoadProgress(r) PROVE PercentNeverAhead'
  BY <1>2 DEF LoadProgress
<1>3. ASSUME NEW r \in Completers, FlushModule(r) PROVE PercentNeverAhead'
  BY <1>3 DEF FlushModule
<1>4. ASSUME NEW r \in Completers, CountModules(r) PROVE PercentNeverAhead'
  BY <1>4 DEF CountModules
<1>5. ASSUME NEW r \in Completers, MarkCompletedReply(r) PROVE PercentNeverAhead'
  BY <1>5 DEF MarkCompletedReply
<1>6. ASSUME NEW r \in Completers, FlushProgress(r) PROVE PercentNeverAhead'
  BY <1>6 DEF FlushProgress
<1>7. ASSUME NEW r \in Completers, IssueCertificate(r) PROVE PercentNeverAhead'
  BY <1>7 DEF IssueCertificate
<1>8. ASSUME NEW r \in Completers, Commit(r) PROVE PercentNeverAhead'
  <2> SUFFICES ASSUME NEW e \in Enrollments
               PROVE  progress'[e].count <= Cardinality(done'[e])
    OBVIOUS
  <2> DEFINE T == done'[e]
  <2>1. target[r] \in Enrollments /\ module[r] \in Modules
    BY <1>8 DEF Commit, Arrived
  <2>2. T \in SUBSET Modules /\ done[e] \in SUBSET T /\ (e = target[r] => T = done[e] \cup {module[r]})
    BY <1>8, <2>1 DEF Commit
  <2>3. e = target[r] => counted[r] <= Cardinality(T)
    BY <1>8, <2>2 DEF Commit, CountsHold
  <2>4. progress[e].count <= Cardinality(done[e])
    OBVIOUS
  <2>5. progress'[e].count = progress[e].count \/ (e = target[r] /\ progress'[e].count = counted[r])
    BY <1>8, <2>1 DEF Commit
  <2> HIDE DEF T
  <2>6. Cardinality(done[e]) <= Cardinality(T)
    BY <2>2, CountGrows
  <2>7. Cardinality(done[e]) \in Nat /\ Cardinality(T) \in Nat
    BY <2>2, ModuleCount
  <2>8. progress[e].count \in Nat
    BY DEF ProgressRow
  <2>9. progress'[e].count <= Cardinality(T)
    BY <2>3, <2>4, <2>5, <2>6, <2>7, <2>8
  <2> QED
    BY <2>9 DEF T
<1>9. ASSUME NEW r \in Completers, ServeMarkCompleted(r) PROVE PercentNeverAhead'
  BY <1>9 DEF ServeMarkCompleted
<1>10. ASSUME NEW x \in Cancellers, ReceiveCancel(x) PROVE PercentNeverAhead'
  BY <1>10 DEF ReceiveCancel
<1>11. ASSUME NEW x \in Cancellers, FlushCancel(x) PROVE PercentNeverAhead'
  BY <1>11 DEF FlushCancel
<1>12. ASSUME NEW x \in Cancellers, CommitCancel(x) PROVE PercentNeverAhead'
  BY <1>12 DEF CommitCancel
<1>13. ASSUME NEW x \in Cancellers, ServeCancelProgress(x) PROVE PercentNeverAhead'
  BY <1>13 DEF ServeCancelProgress
<1>14. ASSUME NEW r \in Requests, CallFailed(r) PROVE PercentNeverAhead'
  BY <1>14 DEF CallFailed, Abort
<1>15. ASSUME NEW r \in Requests, LoseCall(r) PROVE PercentNeverAhead'
  BY <1>15 DEF LoseCall
<1>16. ASSUME NEW r \in Requests, Fail(r) PROVE PercentNeverAhead'
  BY <1>16 DEF Fail, Abort, CompleterRunning, CancellerRunning
<1>17. CASE UNCHANGED completionVars
  BY <1>17 DEF completionVars, localVars
<1> QED
  BY <1>1, <1>2, <1>3, <1>4, <1>5, <1>6, <1>7, <1>8, <1>9,
     <1>10, <1>11, <1>12, <1>13, <1>14, <1>15, <1>16, <1>17
     DEF Next, CompleterStep, CancellerStep

\* cancel_progress is answered before the cancellation is committed.
LEMMA NextCancelReachesProgress ==
  TypeOK /\ Arrived /\ ServedIsCancelled /\ CancelReachesProgress /\ [Next]_completionVars => CancelReachesProgress'
<1> SUFFICES ASSUME TypeOK, Arrived, ServedIsCancelled, CancelReachesProgress, [Next]_completionVars
             PROVE  CancelReachesProgress'
  OBVIOUS
<1> USE CompletionAssumption DEF TypeOK, RecordsTypeOK, recordVars, Goto, Requests, CancelReachesProgress, Arrived
<1>1. ASSUME NEW r \in Completers, ReceiveCompletion(r) PROVE CancelReachesProgress'
  BY <1>1 DEF ReceiveCompletion
<1>2. ASSUME NEW r \in Completers, LoadProgress(r) PROVE CancelReachesProgress'
  BY <1>2 DEF LoadProgress
<1>3. ASSUME NEW r \in Completers, FlushModule(r) PROVE CancelReachesProgress'
  BY <1>3 DEF FlushModule
<1>4. ASSUME NEW r \in Completers, CountModules(r) PROVE CancelReachesProgress'
  BY <1>4 DEF CountModules
<1>5. ASSUME NEW r \in Completers, MarkCompletedReply(r) PROVE CancelReachesProgress'
  BY <1>5 DEF MarkCompletedReply
<1>6. ASSUME NEW r \in Completers, FlushProgress(r) PROVE CancelReachesProgress'
  BY <1>6 DEF FlushProgress
<1>7. ASSUME NEW r \in Completers, IssueCertificate(r) PROVE CancelReachesProgress'
  BY <1>7 DEF IssueCertificate
<1>8. ASSUME NEW r \in Completers, Commit(r) PROVE CancelReachesProgress'
  BY <1>8 DEF Commit
<1>9. ASSUME NEW r \in Completers, ServeMarkCompleted(r) PROVE CancelReachesProgress'
  BY <1>9 DEF ServeMarkCompleted
<1>10. ASSUME NEW x \in Cancellers, ReceiveCancel(x) PROVE CancelReachesProgress'
  BY <1>10 DEF ReceiveCancel
<1>11. ASSUME NEW x \in Cancellers, FlushCancel(x) PROVE CancelReachesProgress'
  BY <1>11 DEF FlushCancel
<1>12. ASSUME NEW x \in Cancellers, CommitCancel(x) PROVE CancelReachesProgress'
  BY <1>12 DEF CommitCancel, ServedIsCancelled
<1>13. ASSUME NEW x \in Cancellers, ServeCancelProgress(x) PROVE CancelReachesProgress'
  BY <1>13 DEF ServeCancelProgress
<1>14. ASSUME NEW r \in Requests, CallFailed(r) PROVE CancelReachesProgress'
  BY <1>14 DEF CallFailed, Abort
<1>15. ASSUME NEW r \in Requests, LoseCall(r) PROVE CancelReachesProgress'
  BY <1>15 DEF LoseCall
<1>16. ASSUME NEW r \in Requests, Fail(r) PROVE CancelReachesProgress'
  BY <1>16 DEF Fail, Abort, CompleterRunning, CancellerRunning
<1>17. CASE UNCHANGED completionVars
  BY <1>17 DEF completionVars, localVars
<1> QED
  BY <1>1, <1>2, <1>3, <1>4, <1>5, <1>6, <1>7, <1>8, <1>9,
     <1>10, <1>11, <1>12, <1>13, <1>14, <1>15, <1>16, <1>17
     DEF Next, CompleterStep, CancellerStep

-----------------------------------------------------------------------------
(* The inductive invariant and what follows from it *)

\* Nothing has happened to any enrollment.
LEMMA InitIndInv == Init => IndInv
<1> SUFFICES ASSUME Init PROVE IndInv
  OBVIOUS
<1>1. TypeOK
  BY InitTypeOK
<1>2. Arrived /\ RowLocks /\ CountsHold /\ FinishingSawAll /\ CertificateLooked
  BY CompletionAssumption DEF Init, Arrived, RowLocks, CountsHold, FinishingSawAll, Finishing,
         CertificateLooked, Requests
<1>3. ServedIsCompleted /\ ServedIsCancelled
  BY DEF Init, ServedIsCompleted, ServedIsCancelled, Finishing, Requests
<1>4. /\ CertificateMeansAllModulesDone /\ OneEventPerCertificate
      /\ CertifiedIsCompletedOrCancelled /\ CompletedProgressIsCertified /\ CancelReachesProgress
  BY DEF Init, CertificateMeansAllModulesDone, OneEventPerCertificate, CancelReachesProgress,
         CertifiedIsCompletedOrCancelled, CompletedProgressIsCertified, FreshProgress
<1>5. PercentNeverAhead
  BY FS_EmptySet DEF Init, PercentNeverAhead, FreshProgress
<1> QED
  BY <1>1, <1>2, <1>3, <1>4, <1>5 DEF IndInv

\* Every step keeps every part.
LEMMA NextIndInv == IndInv /\ [Next]_completionVars => IndInv'
BY NextTypeOK,
   NextArrived,
   NextRowLocks,
   NextCountsHold,
   NextFinishingSawAll,
   NextCertificateLooked,
   NextServedIsCompleted,
   NextServedIsCancelled,
   NextCertificateMeansAllModulesDone,
   NextOneEventPerCertificate,
   NextCertifiedIsCompletedOrCancelled,
   NextCompletedProgressIsCertified,
   NextPercentNeverAhead,
   NextCancelReachesProgress
   DEF IndInv

\* IndInv holds in every reachable state, for any number of requests.
THEOREM SpecIndInv == Spec => []IndInv
BY InitIndInv, NextIndInv, PTL DEF Spec

\* Type correctness, for any set of requests, enrollments and modules.
THEOREM SpecTypeOK == Spec => []TypeOK
<1>1. IndInv => TypeOK
  BY DEF IndInv
<1> QED
  BY <1>1, SpecIndInv, PTL

\* complete_module commits a certificate only where every required module is
\* committed as completed.
THEOREM SpecCertificateMeansAllModulesDone == Spec => []CertificateMeansAllModulesDone
<1>1. IndInv => CertificateMeansAllModulesDone
  BY DEF IndInv
<1> QED
  BY <1>1, SpecIndInv, PTL

\* However many requests complete the last module, one certificate and one
\* CourseCompleted event are committed.
THEOREM SpecOneEventPerCertificate == Spec => []OneEventPerCertificate
<1>1. IndInv => OneEventPerCertificate
  BY DEF IndInv
<1> QED
  BY <1>1, SpecIndInv, PTL

\* No failure leaves a certificate on an enrollment the enrollment service was
\* not told about.
THEOREM SpecCertifiedIsCompletedOrCancelled == Spec => []CertifiedIsCompletedOrCancelled
<1>1. IndInv => CertifiedIsCompletedOrCancelled
  BY DEF IndInv
<1> QED
  BY <1>1, SpecIndInv, PTL

\* The dashboard shows no course as completed that has no certificate.
THEOREM SpecCompletedProgressIsCertified == Spec => []CompletedProgressIsCertified
<1>1. IndInv => CompletedProgressIsCertified
  BY DEF IndInv
<1> QED
  BY <1>1, SpecIndInv, PTL

\* Lost updates of progress_percent only ever lose: the stored percentage is one
\* the completed modules justify.
THEOREM SpecPercentNeverAhead == Spec => []PercentNeverAhead
<1>1. IndInv => PercentNeverAhead
  BY DEF IndInv
<1> QED
  BY <1>1, SpecIndInv, PTL

\* No failure leaves an enrollment cancelled whose progress the progress service
\* was not told to cancel.
THEOREM SpecCancelReachesProgress == Spec => []CancelReachesProgress
<1>1. IndInv => CancelReachesProgress
  BY DEF IndInv
<1> QED
  BY <1>1, SpecIndInv, PTL
=============================================================================
