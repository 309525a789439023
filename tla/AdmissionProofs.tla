--------------------------- MODULE AdmissionProofs ---------------------------
(***************************************************************************)
(* Theorems about Admission for every set of requests, asks and courses.   *)
(***************************************************************************)
EXTENDS Admission, FiniteSetTheorems, TLAPS

\* The initial rows and requests are of their types.
LEMMA InitTypeOK == Init => TypeOK
<1> SUFFICES ASSUME Init PROVE TypeOK
  OBVIOUS
<1>1. 0 \in 0 .. Cardinality(Modules)
  BY FS_CardinalityType, ModulesAssumption
<1>2. RecordsTypeOK
  BY <1>1 DEF Init, RecordsTypeOK, ProgressRow, NoProgress, RowStatus, ProgressStatus
<1> QED
  BY <1>2 DEF Init, TypeOK, Running, Ended, InLock

\* Every step keeps every variable in its set.
LEMMA NextTypeOK == TypeOK /\ [Next]_admissionVars => TypeOK'
<1> SUFFICES ASSUME TypeOK, [Next]_admissionVars PROVE TypeOK'
  OBVIOUS
<1> USE DEF TypeOK, RecordsTypeOK, recordVars, Goto, Locked, Unlocked, Running, Ended, InLock
<1>0. 0 \in 0 .. Cardinality(Modules)
  BY FS_CardinalityType, ModulesAssumption
<1>1. ASSUME NEW r \in Enrollments, RequestNext(r) PROVE TypeOK'
  <2>1. CASE Receive(r)
    BY <2>1 DEF Receive
  <2>2. CASE PassContext(r)
    BY <2>2 DEF PassContext
  <2>3. CASE RejectContext(r)
    BY <2>3 DEF RejectContext
  <2>4. CASE Acquire(r)
    BY <2>4 DEF Acquire
  <2>5. CASE AcquireTimeout(r)
    BY <2>5 DEF AcquireTimeout
  <2>6. CASE Recheck(r)
    <3>1. CASE Existing(ask[r])
      BY <2>6, <3>1 DEF Recheck
    <3>2. CASE ~Existing(ask[r])
      BY <2>6, <3>2 DEF Recheck
    <3> QED
      BY <3>1, <3>2
  <2>7. CASE CountSeats(r)
    <3>1. CASE CourseFull(ask[r].course)
      BY <2>7, <3>1 DEF CountSeats
    <3>2. CASE ~CourseFull(ask[r].course)
      BY <2>7, <3>2, AdmissionAssumption DEF CountSeats
    <3> QED
      BY <3>1, <3>2
  <2>8. CASE Insert(r)
    <3>1. CASE InsertRefused(r)
      BY <2>8, <3>1 DEF Insert
    <3>2. CASE ~InsertRefused(r)
      BY <2>8, <3>2 DEF Insert
    <3> QED
      BY <3>1, <3>2
  <2>9. CASE InitializeReply(r)
    BY <2>9 DEF InitializeReply
  <2>10. CASE InitializeTimeout(r)
    BY <2>10 DEF InitializeTimeout, Raise
  <2>11. CASE Return(r)
    BY <2>11 DEF Return
  <2>12. CASE Commit(r)
    BY <2>12 DEF Commit, RowStatus
  <2>13. CASE Rollback(r)
    BY <2>13 DEF Rollback
  <2>14. CASE Fail(r)
    BY <2>14 DEF Fail, Raise
  <2>15. CASE Crash(r)
    BY <2>15 DEF Crash
  <2>16. CASE RedisFails(r)
    BY <2>16 DEF RedisFails
  <2> QED
    BY <1>1, <2>1, <2>2, <2>3, <2>4, <2>5, <2>6, <2>7, <2>8, <2>9, <2>10, <2>11, <2>12, <2>13, <2>14, <2>15, <2>16 DEF RequestNext, Step
<1>2. ASSUME NEW e \in Enrollments, ServeNext(e) PROVE TypeOK'
  <2>1. FreshProgress \in ProgressRow
    BY <1>0 DEF FreshProgress, ProgressRow, ProgressStatus
  <2>2. CASE ServeInitialize(e)
    BY <2>1, <2>2 DEF ServeInitialize, InitializeProgressRows
  <2>3. CASE LoseInitialize(e)
    BY <2>3 DEF LoseInitialize
  <2> QED
    BY <1>2, <2>2, <2>3 DEF ServeNext
<1>3. ASSUME NEW c \in Courses, LockExpires(c) PROVE TypeOK'
  BY <1>3 DEF LockExpires
<1>4. ASSUME NEW e \in Enrollments, NEW s \in {"CANCELLED", "COMPLETED"}, RowMoves(e, s)
      PROVE TypeOK'
  BY <1>4 DEF RowMoves, RowStatus
<1>5. CASE UNCHANGED admissionVars
  BY <1>5 DEF admissionVars, requestVars
<1> QED
  BY <1>1, <1>2, <1>3, <1>4, <1>5 DEF Next

\* Rows are flushed, committed and rolled back with their request.
LEMMA NextRowsFollowRequests == TypeOK /\ RowsFollowRequests /\ [Next]_admissionVars => RowsFollowRequests'
<1> SUFFICES ASSUME TypeOK, RowsFollowRequests, [Next]_admissionVars PROVE RowsFollowRequests'
  OBVIOUS
<1> USE DEF TypeOK, RecordsTypeOK, RowsFollowRequests, RowExists, recordVars, Goto, Running, InLock
<1>1. ASSUME NEW r \in Enrollments, RequestNext(r) PROVE RowsFollowRequests'
  <2>1. CASE Receive(r)
    BY <2>1 DEF Receive
  <2>2. CASE PassContext(r)
    BY <2>2 DEF PassContext
  <2>3. CASE RejectContext(r)
    BY <2>3 DEF RejectContext
  <2>4. CASE Acquire(r)
    BY <2>4 DEF Acquire
  <2>5. CASE AcquireTimeout(r)
    BY <2>5 DEF AcquireTimeout
  <2>6. CASE Recheck(r)
    BY <2>6 DEF Recheck
  <2>7. CASE CountSeats(r)
    BY <2>7 DEF CountSeats
  <2>8. CASE Insert(r)
    BY <2>8 DEF Insert
  <2>9. CASE InitializeReply(r)
    BY <2>9 DEF InitializeReply
  <2>10. CASE InitializeTimeout(r)
    BY <2>10 DEF InitializeTimeout, Raise
  <2>11. CASE Return(r)
    BY <2>11 DEF Return
  <2>12. CASE Commit(r)
    BY <2>12 DEF Commit
  <2>13. CASE Rollback(r)
    BY <2>13 DEF Rollback
  <2>14. CASE Fail(r)
    BY <2>14 DEF Fail, Raise
  <2>15. CASE Crash(r)
    BY <2>15 DEF Crash
  <2>16. CASE RedisFails(r)
    BY <2>16 DEF RedisFails
  <2> QED
    BY <1>1, <2>1, <2>2, <2>3, <2>4, <2>5, <2>6, <2>7, <2>8, <2>9, <2>10, <2>11, <2>12, <2>13, <2>14, <2>15, <2>16 DEF RequestNext, Step
<1>2. ASSUME NEW e \in Enrollments, ServeNext(e) PROVE RowsFollowRequests'
  BY <1>2 DEF ServeNext, ServeInitialize, LoseInitialize, InitializeProgressRows
<1>3. ASSUME NEW c \in Courses, LockExpires(c) PROVE RowsFollowRequests'
  BY <1>3 DEF LockExpires
<1>4. ASSUME NEW e \in Enrollments, NEW s \in {"CANCELLED", "COMPLETED"}, RowMoves(e, s)
      PROVE RowsFollowRequests'
  BY <1>4 DEF RowMoves
<1>5. CASE UNCHANGED admissionVars
  BY <1>5 DEF admissionVars, requestVars
<1> QED
  BY <1>1, <1>2, <1>3, <1>4, <1>5 DEF Next

\* The insert waits for clashing pending rows and is refused by committed ones.
LEMMA NextNoClash == TypeOK /\ RowsFollowRequests /\ NoClash /\ [Next]_admissionVars => NoClash'
<1> SUFFICES ASSUME TypeOK, RowsFollowRequests, NoClash, [Next]_admissionVars PROVE NoClash'
  OBVIOUS
<1> USE DEF TypeOK, RecordsTypeOK, RowsFollowRequests, NoClash, Present, RowExists, recordVars, Goto
<1>1. ASSUME NEW r \in Enrollments, RequestNext(r) PROVE NoClash'
  <2>1. CASE Receive(r)
    BY <2>1 DEF Receive
  <2>2. CASE PassContext(r)
    BY <2>2 DEF PassContext
  <2>3. CASE RejectContext(r)
    BY <2>3 DEF RejectContext
  <2>4. CASE Acquire(r)
    BY <2>4 DEF Acquire
  <2>5. CASE AcquireTimeout(r)
    BY <2>5 DEF AcquireTimeout
  <2>6. CASE Recheck(r)
    BY <2>6 DEF Recheck
  <2>7. CASE CountSeats(r)
    BY <2>7 DEF CountSeats
  <2>8. CASE Insert(r)
    BY <2>8 DEF Insert, InsertBlocked, InsertRefused, Clashes, SameSeat
  <2>9. CASE InitializeReply(r)
    BY <2>9 DEF InitializeReply
  <2>10. CASE InitializeTimeout(r)
    BY <2>10 DEF InitializeTimeout, Raise
  <2>11. CASE Return(r)
    BY <2>11 DEF Return
  <2>12. CASE Commit(r)
    BY <2>12 DEF Commit
  <2>13. CASE Rollback(r)
    BY <2>13 DEF Rollback
  <2>14. CASE Fail(r)
    BY <2>14 DEF Fail, Raise
  <2>15. CASE Crash(r)
    BY <2>15 DEF Crash
  <2>16. CASE RedisFails(r)
    BY <2>16 DEF RedisFails
  <2> QED
    BY <1>1, <2>1, <2>2, <2>3, <2>4, <2>5, <2>6, <2>7, <2>8, <2>9, <2>10, <2>11, <2>12, <2>13, <2>14, <2>15, <2>16 DEF RequestNext, Step
<1>2. ASSUME NEW e \in Enrollments, ServeNext(e) PROVE NoClash'
  BY <1>2 DEF ServeNext, ServeInitialize, LoseInitialize, InitializeProgressRows
<1>3. ASSUME NEW c \in Courses, LockExpires(c) PROVE NoClash'
  BY <1>3 DEF LockExpires
<1>4. ASSUME NEW e \in Enrollments, NEW s \in {"CANCELLED", "COMPLETED"}, RowMoves(e, s)
      PROVE NoClash'
  BY <1>4 DEF RowMoves
<1>5. CASE UNCHANGED admissionVars
  BY <1>5 DEF admissionVars, requestVars
<1> QED
  BY <1>1, <1>2, <1>3, <1>4, <1>5 DEF Next

\* Progress rows are never deleted, and looked at before anything is written.
LEMMA NextProgressBeforeRow == TypeOK /\ ProgressBeforeRow /\ [Next]_admissionVars => ProgressBeforeRow'
<1> SUFFICES ASSUME TypeOK, ProgressBeforeRow, [Next]_admissionVars PROVE ProgressBeforeRow'
  OBVIOUS
<1> USE DEF TypeOK, RecordsTypeOK, ProgressBeforeRow, ProgressExists, recordVars, Goto
<1>1. ASSUME NEW r \in Enrollments, RequestNext(r) PROVE ProgressBeforeRow'
  <2>1. CASE Receive(r)
    BY <2>1 DEF Receive
  <2>2. CASE PassContext(r)
    BY <2>2 DEF PassContext
  <2>3. CASE RejectContext(r)
    BY <2>3 DEF RejectContext
  <2>4. CASE Acquire(r)
    BY <2>4 DEF Acquire
  <2>5. CASE AcquireTimeout(r)
    BY <2>5 DEF AcquireTimeout
  <2>6. CASE Recheck(r)
    BY <2>6 DEF Recheck
  <2>7. CASE CountSeats(r)
    BY <2>7 DEF CountSeats
  <2>8. CASE Insert(r)
    BY <2>8 DEF Insert
  <2>9. CASE InitializeReply(r)
    BY <2>9 DEF InitializeReply
  <2>10. CASE InitializeTimeout(r)
    BY <2>10 DEF InitializeTimeout, Raise
  <2>11. CASE Return(r)
    BY <2>11 DEF Return
  <2>12. CASE Commit(r)
    BY <2>12 DEF Commit
  <2>13. CASE Rollback(r)
    BY <2>13 DEF Rollback
  <2>14. CASE Fail(r)
    BY <2>14 DEF Fail, Raise
  <2>15. CASE Crash(r)
    BY <2>15 DEF Crash
  <2>16. CASE RedisFails(r)
    BY <2>16 DEF RedisFails
  <2> QED
    BY <1>1, <2>1, <2>2, <2>3, <2>4, <2>5, <2>6, <2>7, <2>8, <2>9, <2>10, <2>11, <2>12, <2>13, <2>14, <2>15, <2>16 DEF RequestNext, Step
<1>2. ASSUME NEW e \in Enrollments, ServeNext(e) PROVE ProgressBeforeRow'
  BY <1>2 DEF ServeNext, ServeInitialize, LoseInitialize, InitializeProgressRows, FreshProgress
<1>3. ASSUME NEW c \in Courses, LockExpires(c) PROVE ProgressBeforeRow'
  BY <1>3 DEF LockExpires
<1>4. ASSUME NEW e \in Enrollments, NEW s \in {"CANCELLED", "COMPLETED"}, RowMoves(e, s)
      PROVE ProgressBeforeRow'
  BY <1>4 DEF RowMoves
<1>5. CASE UNCHANGED admissionVars
  BY <1>5 DEF admissionVars, requestVars
<1> QED
  BY <1>1, <1>2, <1>3, <1>4, <1>5 DEF Next

\* What was passed once stays passed.
LEMMA NextPassedBeforeLock == TypeOK /\ RowsFollowRequests /\ PassedBeforeLock /\ [Next]_admissionVars => PassedBeforeLock'
<1> SUFFICES ASSUME TypeOK, RowsFollowRequests, PassedBeforeLock, [Next]_admissionVars PROVE PassedBeforeLock'
  OBVIOUS
<1> USE DEF TypeOK, RecordsTypeOK, RowsFollowRequests, PassedBeforeLock, RowExists, recordVars, Goto, InLock
<1>1. ASSUME NEW r \in Enrollments, RequestNext(r) PROVE PassedBeforeLock'
  <2>1. CASE Receive(r)
    BY <2>1 DEF Receive
  <2>2. CASE PassContext(r)
    <3>1. \A p \in Prerequisites[ask[r].course] : <<ask[r].student, p>> \in passed
      <4> SUFFICES ASSUME NEW p \in Prerequisites[ask[r].course]
                   PROVE  <<ask[r].student, p>> \in passed
        OBVIOUS
      <4>1. PICK e \in Enrollments : /\ status[e] = "COMPLETED"
                                     /\ ask[e].student = ask[r].student
                                     /\ ask[e].course = p
        BY <2>2 DEF PassContext, PrerequisitesMet
      <4>2. <<ask[e].student, ask[e].course>> \in passed
        BY <4>1
      <4> QED
        BY <4>1, <4>2
    <3> QED
      BY <2>2, <3>1 DEF PassContext
  <2>3. CASE RejectContext(r)
    BY <2>3 DEF RejectContext
  <2>4. CASE Acquire(r)
    BY <2>4 DEF Acquire
  <2>5. CASE AcquireTimeout(r)
    BY <2>5 DEF AcquireTimeout
  <2>6. CASE Recheck(r)
    BY <2>6 DEF Recheck
  <2>7. CASE CountSeats(r)
    BY <2>7 DEF CountSeats
  <2>8. CASE Insert(r)
    BY <2>8 DEF Insert
  <2>9. CASE InitializeReply(r)
    BY <2>9 DEF InitializeReply
  <2>10. CASE InitializeTimeout(r)
    BY <2>10 DEF InitializeTimeout, Raise
  <2>11. CASE Return(r)
    BY <2>11 DEF Return
  <2>12. CASE Commit(r)
    BY <2>12 DEF Commit
  <2>13. CASE Rollback(r)
    BY <2>13 DEF Rollback
  <2>14. CASE Fail(r)
    BY <2>14 DEF Fail, Raise
  <2>15. CASE Crash(r)
    BY <2>15 DEF Crash
  <2>16. CASE RedisFails(r)
    BY <2>16 DEF RedisFails
  <2> QED
    BY <1>1, <2>1, <2>2, <2>3, <2>4, <2>5, <2>6, <2>7, <2>8, <2>9, <2>10, <2>11, <2>12, <2>13, <2>14, <2>15, <2>16 DEF RequestNext, Step
<1>2. ASSUME NEW e \in Enrollments, ServeNext(e) PROVE PassedBeforeLock'
  BY <1>2 DEF ServeNext, ServeInitialize, LoseInitialize, InitializeProgressRows
<1>3. ASSUME NEW c \in Courses, LockExpires(c) PROVE PassedBeforeLock'
  BY <1>3 DEF LockExpires
<1>4. ASSUME NEW e \in Enrollments, NEW s \in {"CANCELLED", "COMPLETED"}, RowMoves(e, s)
      PROVE PassedBeforeLock'
  BY <1>4 DEF RowMoves
<1>5. CASE UNCHANGED admissionVars
  BY <1>5 DEF admissionVars, requestVars
<1> QED
  BY <1>1, <1>2, <1>3, <1>4, <1>5 DEF Next

\* The outbox row joins the transaction of the enrollment row.
LEMMA NextEventPerRow == TypeOK /\ RowsFollowRequests /\ EventPerRow /\ [Next]_admissionVars => EventPerRow'
<1> SUFFICES ASSUME TypeOK, RowsFollowRequests, EventPerRow, [Next]_admissionVars PROVE EventPerRow'
  OBVIOUS
<1> USE DEF TypeOK, RecordsTypeOK, RowsFollowRequests, EventPerRow, RowExists, recordVars, Goto
<1>1. ASSUME NEW r \in Enrollments, RequestNext(r) PROVE EventPerRow'
  <2>1. CASE Receive(r)
    BY <2>1 DEF Receive
  <2>2. CASE PassContext(r)
    BY <2>2 DEF PassContext
  <2>3. CASE RejectContext(r)
    BY <2>3 DEF RejectContext
  <2>4. CASE Acquire(r)
    BY <2>4 DEF Acquire
  <2>5. CASE AcquireTimeout(r)
    BY <2>5 DEF AcquireTimeout
  <2>6. CASE Recheck(r)
    BY <2>6 DEF Recheck
  <2>7. CASE CountSeats(r)
    BY <2>7 DEF CountSeats
  <2>8. CASE Insert(r)
    BY <2>8 DEF Insert
  <2>9. CASE InitializeReply(r)
    BY <2>9 DEF InitializeReply
  <2>10. CASE InitializeTimeout(r)
    BY <2>10 DEF InitializeTimeout, Raise
  <2>11. CASE Return(r)
    BY <2>11 DEF Return
  <2>12. CASE Commit(r)
    BY <2>12 DEF Commit
  <2>13. CASE Rollback(r)
    BY <2>13 DEF Rollback
  <2>14. CASE Fail(r)
    BY <2>14 DEF Fail, Raise
  <2>15. CASE Crash(r)
    BY <2>15 DEF Crash
  <2>16. CASE RedisFails(r)
    BY <2>16 DEF RedisFails
  <2> QED
    BY <1>1, <2>1, <2>2, <2>3, <2>4, <2>5, <2>6, <2>7, <2>8, <2>9, <2>10, <2>11, <2>12, <2>13, <2>14, <2>15, <2>16 DEF RequestNext, Step
<1>2. ASSUME NEW e \in Enrollments, ServeNext(e) PROVE EventPerRow'
  BY <1>2 DEF ServeNext, ServeInitialize, LoseInitialize, InitializeProgressRows
<1>3. ASSUME NEW c \in Courses, LockExpires(c) PROVE EventPerRow'
  BY <1>3 DEF LockExpires
<1>4. ASSUME NEW e \in Enrollments, NEW s \in {"CANCELLED", "COMPLETED"}, RowMoves(e, s)
      PROVE EventPerRow'
  BY <1>4 DEF RowMoves
<1>5. CASE UNCHANGED admissionVars
  BY <1>5 DEF admissionVars, requestVars
<1> QED
  BY <1>1, <1>2, <1>3, <1>4, <1>5 DEF Next

\* Whoever leaves the lock's section, by return or by exception, releases it,
\* unless Redis fails.
LEMMA NextNoLeakedLock == TypeOK /\ NoLeakedLock /\ [Next]_admissionVars => NoLeakedLock'
<1> SUFFICES ASSUME TypeOK, NoLeakedLock, [Next]_admissionVars PROVE NoLeakedLock'
  OBVIOUS
<1> USE DEF TypeOK, NoLeakedLock, recordVars, Goto, Locked, Unlocked, InLock, Running
<1>1. ASSUME NEW r \in Enrollments, RequestNext(r) PROVE NoLeakedLock'
  <2>1. CASE Receive(r)
    BY <2>1 DEF Receive
  <2>2. CASE PassContext(r)
    BY <2>2 DEF PassContext
  <2>3. CASE RejectContext(r)
    BY <2>3 DEF RejectContext
  <2>4. CASE Acquire(r)
    BY <2>4 DEF Acquire
  <2>5. CASE AcquireTimeout(r)
    BY <2>5 DEF AcquireTimeout
  <2>6. CASE Recheck(r)
    BY <2>6 DEF Recheck
  <2>7. CASE CountSeats(r)
    BY <2>7 DEF CountSeats
  <2>8. CASE Insert(r)
    BY <2>8 DEF Insert
  <2>9. CASE InitializeReply(r)
    BY <2>9 DEF InitializeReply
  <2>10. CASE InitializeTimeout(r)
    BY <2>10 DEF InitializeTimeout, Raise
  <2>11. CASE Return(r)
    BY <2>11 DEF Return
  <2>12. CASE Commit(r)
    BY <2>12 DEF Commit
  <2>13. CASE Rollback(r)
    BY <2>13 DEF Rollback
  <2>14. CASE Fail(r)
    BY <2>14 DEF Fail, Raise
  <2>15. CASE Crash(r)
    BY <2>15 DEF Crash
  <2>16. CASE RedisFails(r)
    BY <2>16 DEF RedisFails
  <2> QED
    BY <1>1, <2>1, <2>2, <2>3, <2>4, <2>5, <2>6, <2>7, <2>8, <2>9, <2>10, <2>11, <2>12, <2>13, <2>14, <2>15, <2>16 DEF RequestNext, Step
<1>2. ASSUME NEW e \in Enrollments, ServeNext(e) PROVE NoLeakedLock'
  BY <1>2 DEF ServeNext, ServeInitialize, LoseInitialize, InitializeProgressRows
<1>3. ASSUME NEW c \in Courses, LockExpires(c) PROVE NoLeakedLock'
  BY <1>3 DEF LockExpires
<1>4. ASSUME NEW e \in Enrollments, NEW s \in {"CANCELLED", "COMPLETED"}, RowMoves(e, s)
      PROVE NoLeakedLock'
  BY <1>4 DEF RowMoves
<1>5. CASE UNCHANGED admissionVars
  BY <1>5 DEF admissionVars, requestVars
<1> QED
  BY <1>1, <1>2, <1>3, <1>4, <1>5 DEF Next

\* The rows counted against a course's capacity are finitely many.
LEMMA ActiveFinite ==
  ASSUME NEW c \in Courses
  PROVE  IsFiniteSet(ActiveIn(c)) /\ Cardinality(ActiveIn(c)) \in Nat
<1>1. ActiveIn(c) \in SUBSET Enrollments
  BY DEF ActiveIn
<1> QED
  BY <1>1, AdmissionAssumption, FS_Subset, FS_CardinalityType

\* A step that frees seats or drops admitted requests leaves room.
LEMMA RoomKept ==
  ASSUME NEW c \in Courses, Capacity[c] # NoLimit, RoomIn(c),
         ActiveIn(c)' \subseteq ActiveIn(c), Admitted(c)' \subseteq Admitted(c)
  PROVE  RoomIn(c)'
<1> DEFINE new == ActiveIn(c)'
<1>0. new \in SUBSET ActiveIn(c) /\ IsFiniteSet(ActiveIn(c))
  BY ActiveFinite
<1> HIDE DEF new
<1>1. Cardinality(new) <= Cardinality(ActiveIn(c)) /\ IsFiniteSet(new)
  BY <1>0, FS_Subset
<1>2. Cardinality(ActiveIn(c)) \in Nat /\ Cardinality(new) \in Nat
  BY <1>0, <1>1, FS_CardinalityType
<1>3. Capacity[c] \in Nat
  BY AdmissionAssumption
<1> QED
  BY <1>1, <1>2, <1>3 DEF RoomIn, new

\* Without an overlap, the seat counted for a request is there when it commits.
LEMMA NextSeatForAdmitted ==
  TypeOK /\ RowsFollowRequests /\ SeatForAdmitted /\ [Next]_admissionVars => SeatForAdmitted'
<1> SUFFICES ASSUME TypeOK, RowsFollowRequests, SeatForAdmitted, [Next]_admissionVars,
                    NEW c \in Courses, Capacity[c] # NoLimit, c \notin overlapped'
             PROVE  RoomIn(c)'
  BY DEF SeatForAdmitted
<1> USE DEF TypeOK, RecordsTypeOK, recordVars, Goto
<1>0. ASSUME overlapped \subseteq overlapped',
             ActiveIn(c)' \subseteq ActiveIn(c), Admitted(c)' \subseteq Admitted(c)
      PROVE  RoomIn(c)'
  BY <1>0, RoomKept DEF SeatForAdmitted
<1>1. ASSUME NEW r \in Enrollments, RequestNext(r) PROVE RoomIn(c)'
  <2> USE DEF ActiveIn, Admitted
  <2>1. CASE Receive(r)
    <3>1. status[r] # "ENROLLED"
      BY <2>1 DEF Receive, RowsFollowRequests, RowExists
    <3> QED
      BY <2>1, <3>1, <1>0 DEF Receive
  <2>2. CASE PassContext(r)
    BY <2>2, <1>0 DEF PassContext
  <2>3. CASE RejectContext(r)
    BY <2>3, <1>0 DEF RejectContext
  <2>4. CASE Acquire(r)
    BY <2>4, <1>0 DEF Acquire
  <2>5. CASE AcquireTimeout(r)
    BY <2>5, <1>0 DEF AcquireTimeout
  <2>6. CASE Recheck(r)
    BY <2>6, <1>0 DEF Recheck
  <2>7. CASE CountSeats(r)
    <3>1. CASE CourseFull(ask[r].course)
      BY <2>7, <3>1, <1>0 DEF CountSeats
    <3>2. CASE ~CourseFull(ask[r].course) /\ ask[r].course # c
      BY <2>7, <3>2, <1>0 DEF CountSeats
    <3>3. CASE ~CourseFull(ask[r].course) /\ ask[r].course = c
      <4>1. Admitted(c) = {} /\ c \notin overlapped
        BY <2>7, <3>3 DEF CountSeats
      <4>2. ~(Cardinality(ActiveIn(c)) >= Capacity[c])
        BY <3>3 DEF CourseFull
      <4>3. ActiveIn(c)' = ActiveIn(c)
        BY <2>7 DEF CountSeats
      <4>4. \A q1, q2 \in Admitted(c)' : q1 = q2
        BY <2>7, <4>1 DEF CountSeats
      <4>5. Capacity[c] \in Nat /\ Cardinality(ActiveIn(c)) \in Nat
        BY AdmissionAssumption, ActiveFinite
      <4> HIDE DEF ActiveIn, Admitted
      <4> QED
        BY ONLY <4>2, <4>3, <4>4, <4>5 DEF RoomIn
    <3> QED
      BY <3>1, <3>2, <3>3
  <2>8. CASE Insert(r)
    BY <2>8, <1>0 DEF Insert
  <2>9. CASE InitializeReply(r)
    BY <2>9, <1>0 DEF InitializeReply
  <2>10. CASE InitializeTimeout(r)
    BY <2>10, <1>0 DEF InitializeTimeout, Raise
  <2>11. CASE Return(r)
    BY <2>11, <1>0 DEF Return
  <2>12. CASE Commit(r)
    <3>1. CASE ask[r].course # c
      BY <2>12, <3>1, <1>0 DEF Commit
    <3>2. CASE ask[r].course = c
      <4>1. r \in Admitted(c) /\ RoomIn(c)
        BY <2>12, <3>2 DEF Commit, SeatForAdmitted
      <4>2. Cardinality(ActiveIn(c)) < Capacity[c] /\ Admitted(c) = {r}
        BY <4>1 DEF RoomIn
      <4>3. Admitted(c)' = {}
        BY <2>12, <3>2, <4>2 DEF Commit
      <4>4. ActiveIn(c)' = ActiveIn(c) \cup {r}
        BY <2>12, <3>2 DEF Commit
      <4>5. r \notin ActiveIn(c)
        BY <2>12 DEF Commit, RowsFollowRequests, RowExists
      <4>6. Cardinality(ActiveIn(c)') = Cardinality(ActiveIn(c)) + 1
        BY ONLY <4>4, <4>5, ActiveFinite, FS_AddElement
      <4>7. Capacity[c] \in Nat /\ Cardinality(ActiveIn(c)) \in Nat
        BY AdmissionAssumption, ActiveFinite
      <4> QED
        BY ONLY <4>2, <4>3, <4>6, <4>7 DEF RoomIn
    <3> QED
      BY <3>1, <3>2
  <2>13. CASE Rollback(r)
    BY <2>13, <1>0 DEF Rollback
  <2>14. CASE Fail(r)
    BY <2>14, <1>0 DEF Fail, Raise
  <2>15. CASE Crash(r)
    BY <2>15, <1>0 DEF Crash
  <2>16. CASE RedisFails(r)
    BY <2>16, <1>0 DEF RedisFails
  <2> QED
    BY <1>1, <2>1, <2>2, <2>3, <2>4, <2>5, <2>6, <2>7, <2>8, <2>9, <2>10, <2>11, <2>12, <2>13, <2>14, <2>15, <2>16 DEF RequestNext, Step
<1>2. ASSUME NEW e \in Enrollments, ServeNext(e) PROVE RoomIn(c)'
  BY <1>2, <1>0 DEF ServeNext, ServeInitialize, LoseInitialize, ActiveIn, Admitted
<1>3. ASSUME NEW d \in Courses, LockExpires(d) PROVE RoomIn(c)'
  BY <1>3, <1>0 DEF LockExpires, ActiveIn, Admitted
<1>4. ASSUME NEW e \in Enrollments, NEW s \in {"CANCELLED", "COMPLETED"}, RowMoves(e, s)
      PROVE RoomIn(c)'
  BY <1>4, <1>0 DEF RowMoves, ActiveIn, Admitted
<1>5. CASE UNCHANGED admissionVars
  BY <1>5, <1>0 DEF admissionVars, requestVars, ActiveIn, Admitted
<1> QED
  BY <1>1, <1>2, <1>3, <1>4, <1>5 DEF Next

-----------------------------------------------------------------------------
(* The inductive invariant and what follows from it *)

\* No request has arrived, no row, lock or call exists.
LEMMA InitIndInv == Init => IndInv
<1> SUFFICES ASSUME Init PROVE IndInv
  OBVIOUS
<1>1. TypeOK
  BY InitTypeOK
<1>2. RowsFollowRequests /\ NoClash /\ ProgressBeforeRow /\ PassedBeforeLock /\ EventPerRow
  BY DEF Init, RowsFollowRequests, NoClash, ProgressBeforeRow, PassedBeforeLock,
         EventPerRow, RowExists, Present, InLock
<1>3. NoLeakedLock
  BY DEF Init, NoLeakedLock
<1>4. SeatForAdmitted
  <2> SUFFICES ASSUME NEW c \in Courses, Capacity[c] # NoLimit PROVE RoomIn(c)
    BY DEF SeatForAdmitted
  <2>1. ActiveIn(c) = {} /\ Admitted(c) = {}
    BY DEF Init, ActiveIn, Admitted
  <2>2. Cardinality(ActiveIn(c)) = 0
    BY <2>1, FS_EmptySet
  <2>3. Capacity[c] \in Nat
    BY AdmissionAssumption
  <2> QED
    BY <2>1, <2>2, <2>3 DEF RoomIn
<1> QED
  BY <1>1, <1>2, <1>3, <1>4 DEF IndInv

\* Every step keeps every part.
LEMMA NextIndInv == IndInv /\ [Next]_admissionVars => IndInv'
BY NextTypeOK, NextRowsFollowRequests, NextNoClash, NextProgressBeforeRow,
   NextPassedBeforeLock, NextEventPerRow, NextNoLeakedLock, NextSeatForAdmitted
   DEF IndInv

\* IndInv holds in every reachable state: the rows, the locks, the history and
\* the progress of every request stay related as its parts say.
THEOREM SpecIndInv == Spec => []IndInv
BY InitIndInv, NextIndInv, PTL DEF Spec

\* Type correctness, for any set of requests, courses and asks.
THEOREM SpecTypeOK == Spec => []TypeOK
<1>1. IndInv => TypeOK
  BY DEF IndInv
<1> QED
  BY <1>1, SpecIndInv, PTL

\* enroll never gives a student two rows for one course or one idempotency
\* key, for any number of requests and whatever happens to the lock.
THEOREM SpecOneRowPerStudentCourse == Spec => []OneRowPerStudentCourse
<1>1. IndInv => OneRowPerStudentCourse
  BY DEF IndInv, NoClash, Present, OneRowPerStudentCourse
<1> QED
  BY <1>1, SpecIndInv, PTL

\* A committed enrollment has its progress rows: enroll awaits the answer of
\* the progress service before its route commits.
THEOREM SpecEnrolledHasProgress == Spec => []EnrolledHasProgress
<1>1. IndInv => EnrolledHasProgress
  BY DEF IndInv, RowsFollowRequests, ProgressBeforeRow, EnrolledHasProgress
<1> QED
  BY <1>1, SpecIndInv, PTL

\* Whoever holds a row passed the prerequisites, although they are read before
\* the lock is taken.
THEOREM SpecEnrolledHadPrerequisites == Spec => []EnrolledHadPrerequisites
<1>1. IndInv => EnrolledHadPrerequisites
  BY DEF IndInv, RowsFollowRequests, PassedBeforeLock, EnrolledHadPrerequisites
<1> QED
  BY <1>1, SpecIndInv, PTL

\* A locked course is locked by a request of it that is inside the lock, whose
\* process died or whose own call to Redis failed; nothing else that enroll
\* returns, raises or waits for too long leaves its course locked.
THEOREM SpecNoLeakedLock == Spec => []NoLeakedLock
<1>1. IndInv => NoLeakedLock
  BY DEF IndInv
<1> QED
  BY <1>1, SpecIndInv, PTL

\* A course can hold more ENROLLED rows than max_capacity only after two of
\* its admissions overlapped between the count of seats and the commit.
THEOREM SpecOverCapacityOnlyByOverlap == Spec => []OverCapacityOnlyByOverlap
<1>1. IndInv => OverCapacityOnlyByOverlap
  BY DEF IndInv, SeatForAdmitted, RoomIn, OverCapacityOnlyByOverlap
<1> QED
  BY <1>1, SpecIndInv, PTL

\* A held lock is given up by its holder or by the TTL, never by the release
\* of another request.
THEOREM SpecForeignLockKept == Spec => ForeignLockKept
<1> DEFINE Kept == \A c \in Courses :
       (lock[c] # Free /\ lock'[c] # lock[c]) =>
         \/ pc'[lock[c]] # pc[lock[c]]
         \/ lock'[c] = Free /\ pc' = pc
<1>1. TypeOK /\ [Next]_admissionVars => [Kept]_admissionVars
  <2> SUFFICES ASSUME TypeOK, Next PROVE Kept
    OBVIOUS
  <2> USE DEF TypeOK, recordVars, Goto, Locked, Unlocked, Running, InLock
  <2>1. ASSUME NEW r \in Enrollments, RequestNext(r) PROVE Kept
    <3>1. UNCHANGED lock \/ Locked(r) \/ (Unlocked(r) /\ pc'[r] # pc[r])
      BY <2>1 DEF RequestNext, Step, Receive, PassContext, RejectContext, Acquire,
        AcquireTimeout, Recheck, CountSeats, Insert, InitializeReply, InitializeTimeout,
        Return, Commit, Rollback, Fail, Raise, RedisFails, Crash
    <3> QED
      BY <3>1
  <2>2. ASSUME NEW e \in Enrollments, ServeNext(e) PROVE Kept
    BY <2>2 DEF ServeNext, ServeInitialize, LoseInitialize, InitializeProgressRows
  <2>3. ASSUME NEW d \in Courses, LockExpires(d) PROVE Kept
    BY <2>3 DEF LockExpires
  <2>4. ASSUME NEW e \in Enrollments, NEW s \in {"CANCELLED", "COMPLETED"}, RowMoves(e, s)
        PROVE Kept
    BY <2>4 DEF RowMoves
  <2> QED
    BY <2>1, <2>2, <2>3, <2>4 DEF Next
<1> QED
  BY <1>1, SpecTypeOK, PTL DEF Spec, ForeignLockKept

-----------------------------------------------------------------------------
(* Refinement *)

\* A step that leaves the table and its history alone is a stutter of the ledger.
LEMMA LedgerStutters ==
  ASSUME UNCHANGED <<status, progress, outbox, passed>>,
         \A e \in Enrollments : RowExists(e) => ask'[e] = ask[e]
  PROVE  UNCHANGED Ledger!ledgerVars
<1>1. LedgerRows' = LedgerRows
  BY DEF LedgerRows, RowExists
<1>2. Prepared' = Prepared
  BY DEF Prepared, ProgressExists
<1> QED
  BY <1>1, <1>2 DEF Ledger!ledgerVars

\* The empty table is the ledger's initial state.
LEMMA LedgerInit == Init => Ledger!Init
BY DEF Init, Ledger!Init, Ledger!NoRow, LedgerRows, RowExists, Prepared, ProgressExists, NoProgress

\* The commit is the ledger's Enroll; the other steps of a request stutter.
LEMMA LedgerCommit ==
  ASSUME IndInv, NEW r \in Enrollments, Commit(r)
  PROVE  Ledger!Enroll(r, ask[r]) /\ ask[r] \in Asks
<1> USE DEF IndInv, TypeOK, RecordsTypeOK
<1>1. ask[r] \in Asks /\ ask' = ask
  BY DEF Commit
<1>2. ~RowExists(r) /\ r \in pending
  BY DEF Commit, RowsFollowRequests
<1>3. LedgerRows' = [LedgerRows EXCEPT ![r] = [status |-> "ENROLLED", ask |-> ask[r]]]
  BY <1>1 DEF Commit, LedgerRows, RowExists
<1>4. \A f \in Ledger!RowsOf : RowExists(f) /\ LedgerRows[f].ask = ask[f]
  BY DEF Ledger!RowsOf, LedgerRows
<1>5. \A f \in Ledger!RowsOf : ~Clashes(LedgerRows[f].ask, ask[r])
  BY <1>2, <1>4 DEF NoClash, Present, Ledger!RowsOf
<1>6. \A p \in Prerequisites[ask[r].course] : <<ask[r].student, p>> \in passed
  BY DEF Commit, PassedBeforeLock
<1>7. r \in Prepared \ Ledger!RowsOf
  BY <1>2, <1>4 DEF Commit, ProgressBeforeRow, Prepared
<1>8. Prepared' = Prepared
  BY DEF Commit, Prepared, ProgressExists
<1> QED
  BY <1>1, <1>3, <1>5, <1>6, <1>7, <1>8 DEF Ledger!Enroll, Commit

\* The progress service's answer, served in time or late, is the ledger's Prepare.
LEMMA LedgerPrepare ==
  ASSUME TypeOK, NEW e \in Enrollments, ServeInitialize(e)
  PROVE  Ledger!Prepare(e)
<1>1. LedgerRows' = LedgerRows
  BY DEF ServeInitialize, LedgerRows, RowExists
<1>2. Prepared' = Prepared \cup {e}
  BY DEF TypeOK, RecordsTypeOK, ServeInitialize, InitializeProgressRows, Prepared,
    ProgressExists, FreshProgress
<1> QED
  BY <1>1, <1>2 DEF Ledger!Prepare, ServeInitialize

\* Every step of a request, a call or a row is a step of the ledger or a stutter.
LEMMA LedgerStep == IndInv /\ [Next]_admissionVars => [Ledger!Next]_(Ledger!ledgerVars)
<1> SUFFICES ASSUME IndInv, [Next]_admissionVars
             PROVE  Ledger!Next \/ UNCHANGED Ledger!ledgerVars
  OBVIOUS
<1> USE DEF IndInv, TypeOK, RecordsTypeOK
<1>1. ASSUME NEW r \in Enrollments, RequestNext(r)
      PROVE  Ledger!Next \/ UNCHANGED Ledger!ledgerVars
  <2>1. CASE Commit(r)
    BY <2>1, LedgerCommit DEF Ledger!Next
  <2>2. CASE Receive(r)
    <3>1. \A e \in Enrollments : RowExists(e) => ask'[e] = ask[e]
      BY <2>2 DEF Receive, RowsFollowRequests
    <3> QED
      BY <2>2, <3>1, LedgerStutters DEF Receive, recordVars
  <2>3. CASE ~Commit(r) /\ ~Receive(r)
    <3>1. UNCHANGED <<status, progress, outbox, passed, ask>>
      BY <1>1, <2>3 DEF RequestNext, Step, PassContext, RejectContext, Acquire,
        AcquireTimeout, Recheck, CountSeats, Insert, InitializeReply, InitializeTimeout,
        Return, Rollback, Fail, Raise, RedisFails, Crash, recordVars
    <3> QED
      BY <3>1, LedgerStutters
  <2> QED
    BY <2>1, <2>2, <2>3
<1>2. ASSUME NEW e \in Enrollments, ServeNext(e)
      PROVE  Ledger!Next \/ UNCHANGED Ledger!ledgerVars
  <2>1. CASE ServeInitialize(e)
    BY <2>1, LedgerPrepare DEF Ledger!Next
  <2>2. CASE LoseInitialize(e)
    BY <2>2, LedgerStutters DEF LoseInitialize, recordVars
  <2> QED
    BY <1>2, <2>1, <2>2 DEF ServeNext
<1>3. ASSUME NEW c \in Courses, LockExpires(c) PROVE UNCHANGED Ledger!ledgerVars
  BY <1>3, LedgerStutters DEF LockExpires, recordVars
<1>4. ASSUME NEW e \in Enrollments, NEW s \in {"CANCELLED", "COMPLETED"}, RowMoves(e, s)
      PROVE  Ledger!Next
  <2>1. e \in Ledger!RowsOf /\ LedgerRows[e].ask = ask[e]
    BY <1>4 DEF RowMoves, Ledger!RowsOf, LedgerRows, RowExists
  <2>2. LedgerRows' = [LedgerRows EXCEPT ![e].status = s] /\ Prepared' = Prepared
    BY <1>4 DEF RowMoves, LedgerRows, RowExists, Prepared, ProgressExists
  <2>3. CASE s = "CANCELLED"
    <3>1. Ledger!Leave(e)
      BY <1>4, <2>1, <2>2, <2>3 DEF RowMoves, Ledger!Leave
    <3> QED
      BY <3>1 DEF Ledger!Next
  <2>4. CASE s = "COMPLETED"
    <3>1. Ledger!Finish(e)
      BY <1>4, <2>1, <2>2, <2>4 DEF RowMoves, Ledger!Finish
    <3> QED
      BY <3>1 DEF Ledger!Next
  <2> QED
    BY <2>3, <2>4
<1>5. CASE UNCHANGED admissionVars
  BY <1>5, LedgerStutters DEF admissionVars, requestVars, recordVars
<1> QED
  BY <1>1, <1>2, <1>3, <1>4, <1>5 DEF Next

\* The table behaves as AdmissionLedger, for any number of requests: rows appear
\* one per student and course, after the prerequisites and after the progress rows
\* of their id, with their event.
THEOREM SpecImplementsLedger == Spec => LedgerSpec
BY LedgerInit, LedgerStep, SpecIndInv, PTL DEF Spec, LedgerSpec, Ledger!Spec
=============================================================================
