------------------------------ MODULE Admission ------------------------------
(***************************************************************************)
(* POST /enrollments: EnrollmentService.enroll run by any number of        *)
(* concurrent requests, with the per-course Redis lock, the enrollment     *)
(* table and its unique constraints, and the call that creates the         *)
(* progress rows.  A request is named by the enrollment id it would        *)
(* generate, which also stands for its lock token.                         *)
(*                                                                         *)
(* The lock is released when the service method returns; the transaction   *)
(* commits afterwards, in the route.  A row is therefore pending, seen by  *)
(* no other transaction, from its flush until the commit.                  *)
(***************************************************************************)
EXTENDS LearnerRecords

CONSTANTS
  Asks,           \* the requests' inputs: [student, course, key] records
  Courses,
  Prerequisites,  \* [Courses -> SUBSET Courses]
  Capacity,       \* [Courses -> Nat \cup {NoLimit}]
  NoLimit,
  NoKey,          \* the idempotency_key column when none was sent
  NoAsk,          \* before a request has arrived
  Free            \* the Redis key of a course's lock does not exist

ASSUME AdmissionAssumption ==
  /\ \A a \in Asks : a.course \in Courses
  /\ Prerequisites \in [Courses -> SUBSET Courses]
  /\ \A c \in Courses : Capacity[c] \in Nat \/ Capacity[c] = NoLimit
  /\ NoAsk \notin Asks
  /\ Free \notin Enrollments
  /\ IsFiniteSet(Enrollments)

VARIABLES
  pc,         \* where each request is
  ask,        \* what it asks for
  lock,       \* lock[c]: token stored under lock:enrollment:{c}
  pending,    \* requests whose row is flushed and not committed
  initCalls,  \* initialize_progress calls on their way to the progress service
  outbox,     \* ids with a committed EnrollmentCreated event
  passed,     \* history: <<student, course>> that were COMPLETED at some time
  overlapped  \* history: courses whose seats were counted while another
              \* admitted request had not committed its row

requestVars == <<pc, ask, lock, pending, initCalls, outbox, passed, overlapped>>

admissionVars == <<recordVars, requestVars>>

\* Between acquire and the finally clause.
InLock == {"locked", "fresh", "counted", "initialising", "written"}

\* Still running in the service or in the route.
Running == {"received", "waiting", "returned", "aborting", "cut"} \cup InLock

Ended == {"enrolled", "hit", "rejected", "failed", "stranded", "crashed"}

Init ==
  /\ status = [e \in Enrollments |-> "ABSENT"]
  /\ progress = [e \in Enrollments |-> NoProgress]
  /\ done = [e \in Enrollments |-> {}]
  /\ pc = [r \in Enrollments |-> "idle"]
  /\ ask = [r \in Enrollments |-> NoAsk]
  /\ lock = [c \in Courses |-> Free]
  /\ pending = {}
  /\ initCalls = {}
  /\ outbox = {}
  /\ passed = {}
  /\ overlapped = {}

SameSeat(a, b) == a.student = b.student /\ a.course = b.course

\* The unique constraints of the table: one row per student and course, one
\* per student and idempotency key.
Clashes(a, b) ==
  \/ SameSeat(a, b)
  \/ a.student = b.student /\ a.key = b.key /\ a.key # NoKey

\* get_by_student_course: committed rows only, whatever their status.
Existing(a) == \E e \in Enrollments : RowExists(e) /\ SameSeat(ask[e], a)

\* count_active_by_course.
ActiveIn(c) ==
  {e \in Enrollments : status[e] = "ENROLLED" /\ ask[e].course = c}

PrerequisitesMet(a) ==
  \A p \in Prerequisites[a.course] :
    \E e \in Enrollments : /\ status[e] = "COMPLETED"
                           /\ ask[e].student = a.student
                           /\ ask[e].course = p

\* Requests that got past the capacity check and have not committed.
Admitted(c) ==
  {q \in Enrollments : /\ pc[q] \in {"counted", "initialising", "written", "returned"}
                       /\ ask[q].course = c}

Goto(r, label) == pc' = [pc EXCEPT ![r] = label]

-----------------------------------------------------------------------------
(* RedisLock *)

\* SET NX: only an absent key is set.
Locked(r) ==
  /\ lock[ask[r].course] = Free
  /\ lock' = [lock EXCEPT ![ask[r].course] = r]

\* Faulty variant: DEL without comparing the token.
UnlockedBlindly(r) == lock' = [lock EXCEPT ![ask[r].course] = Free]

\* The release script deletes the key only while it holds the caller's token.
Unlocked(r) ==
  lock' = [lock EXCEPT ![ask[r].course] = IF @ = r THEN Free ELSE @]

\* EX ttl: the key disappears by itself, whatever its holder is doing.
LockExpires(c) ==
  /\ lock[c] # Free
  /\ lock' = [lock EXCEPT ![c] = Free]
  /\ UNCHANGED <<recordVars, pc, ask, pending, initCalls, outbox, passed, overlapped>>

-----------------------------------------------------------------------------
(* The enroll handler *)

Receive(r) ==
  /\ pc[r] = "idle"
  /\ \E a \in Asks :
       /\ ask' = [ask EXCEPT ![r] = a]
       /\ Goto(r, IF Existing(a) THEN "hit" ELSE "received")
  /\ UNCHANGED <<recordVars, lock, pending, initCalls, outbox, passed, overlapped>>

\* The course context and the student summary are fetched, the prerequisites
\* read, all of it before the lock.
PassContext(r) ==
  /\ pc[r] = "received"
  /\ PrerequisitesMet(ask[r])
  /\ Goto(r, "waiting")
  /\ UNCHANGED <<recordVars, ask, lock, pending, initCalls, outbox, passed, overlapped>>

\* COURSE_NOT_READY, a course or auth service that answers with an error, or
\* ENROLLMENT_PREREQUISITES_NOT_MET.
RejectContext(r) ==
  /\ pc[r] = "received"
  /\ Goto(r, "rejected")
  /\ UNCHANGED <<recordVars, ask, lock, pending, initCalls, outbox, passed, overlapped>>

Acquire(r) ==
  /\ pc[r] = "waiting"
  /\ Locked(r)
  /\ Goto(r, "locked")
  /\ UNCHANGED <<recordVars, ask, pending, initCalls, outbox, passed, overlapped>>

\* Faulty variant: no limit to the attempts.
AcquireForever(r) == FALSE /\ Goto(r, "rejected")

\* ENROLLMENT_IN_PROGRESS after 5 s of attempts.
AcquireTimeout(r) ==
  /\ pc[r] = "waiting"
  /\ lock[ask[r].course] # Free
  /\ Goto(r, "rejected")
  /\ UNCHANGED <<recordVars, ask, lock, pending, initCalls, outbox, passed, overlapped>>

Recheck(r) ==
  /\ pc[r] = "locked"
  /\ IF Existing(ask[r])
     THEN Goto(r, "hit") /\ Unlocked(r)
     ELSE Goto(r, "fresh") /\ UNCHANGED lock
  /\ UNCHANGED <<recordVars, ask, pending, initCalls, outbox, passed, overlapped>>

\* Faulty variant: > for >=.
CourseOverfull(c) ==
  /\ Capacity[c] # NoLimit
  /\ Cardinality(ActiveIn(c)) > Capacity[c]

CourseFull(c) ==
  /\ Capacity[c] # NoLimit
  /\ Cardinality(ActiveIn(c)) >= Capacity[c]

CountSeats(r) ==
  LET c == ask[r].course IN
  /\ pc[r] = "fresh"
  /\ IF CourseFull(c)
     THEN Goto(r, "rejected") /\ Unlocked(r) /\ UNCHANGED overlapped
     ELSE /\ Goto(r, "counted")
          /\ overlapped' = IF Admitted(c) = {} THEN overlapped ELSE overlapped \cup {c}
          /\ UNCHANGED lock
  /\ UNCHANGED <<recordVars, ask, pending, initCalls, outbox, passed>>

\* The INSERT waits while another transaction holds a clashing row, and fails
\* on a committed one.  A failed flush has rolled the session's transaction
\* back: the SELECT in the except clause raises PendingRollbackError, so the
\* request fails where the clause would return the existing row.  A row that
\* went in is followed by the call to the progress service.
InsertBlocked(r) == \E q \in pending : Clashes(ask[q], ask[r])

InsertRefused(r) == \E e \in Enrollments : RowExists(e) /\ Clashes(ask[e], ask[r])

Insert(r) ==
  /\ pc[r] = "counted"
  /\ ~InsertBlocked(r)
  /\ IF InsertRefused(r)
     THEN /\ Goto(r, "failed")
          /\ Unlocked(r)
          /\ UNCHANGED <<pending, initCalls>>
     ELSE /\ Goto(r, "initialising")
          /\ pending' = pending \cup {r}
          /\ initCalls' = initCalls \cup {r}
          /\ UNCHANGED lock
  /\ UNCHANGED <<recordVars, ask, outbox, passed, overlapped>>

\* The progress service's endpoint, in its own transaction, also when the
\* caller has given up.
ServeInitialize(e) ==
  /\ e \in initCalls
  /\ initCalls' = initCalls \ {e}
  /\ InitializeProgressRows(e)
  /\ UNCHANGED <<status, pc, ask, lock, pending, outbox, passed, overlapped>>

\* Connection refused, circuit breaker open, or an error before the commit.
LoseInitialize(e) ==
  /\ e \in initCalls
  /\ initCalls' = initCalls \ {e}
  /\ UNCHANGED <<recordVars, pc, ask, lock, pending, outbox, passed, overlapped>>

\* Faulty variant: the call is sent and its answer not looked at.
InitializeUnchecked(r) ==
  /\ pc[r] = "initialising"
  /\ Goto(r, "written")
  /\ UNCHANGED <<recordVars, ask, lock, pending, initCalls, outbox, passed, overlapped>>

\* The answer arrives; the audit rows and the outbox row join the transaction.
InitializeReply(r) ==
  /\ pc[r] = "initialising"
  /\ r \notin initCalls
  /\ ProgressExists(r)
  /\ Goto(r, "written")
  /\ UNCHANGED <<recordVars, ask, lock, pending, initCalls, outbox, passed, overlapped>>

Return(r) ==
  /\ pc[r] = "written"
  /\ Goto(r, "returned")
  /\ Unlocked(r)
  /\ UNCHANGED <<recordVars, ask, pending, initCalls, outbox, passed, overlapped>>

\* Faulty variant: the event is not part of the transaction.
CommitSilently(r) ==
  /\ pc[r] = "returned"
  /\ Goto(r, "enrolled")
  /\ status' = [status EXCEPT ![r] = "ENROLLED"]
  /\ pending' = pending \ {r}
  /\ UNCHANGED <<progress, done, ask, lock, initCalls, outbox, passed, overlapped>>

Commit(r) ==
  /\ pc[r] = "returned"
  /\ Goto(r, "enrolled")
  /\ status' = [status EXCEPT ![r] = "ENROLLED"]
  /\ pending' = pending \ {r}
  /\ outbox' = outbox \cup {r}
  /\ UNCHANGED <<progress, done, ask, lock, initCalls, passed, overlapped>>

-----------------------------------------------------------------------------
(* Failures *)

\* Any await may raise: the finally clause releases the lock, unless that
\* raises too, and the session is closed without a commit afterwards.
Raise(r) ==
  /\ Goto(r, "aborting")
  /\ Unlocked(r)
  /\ UNCHANGED <<recordVars, ask, pending, initCalls, outbox, passed, overlapped>>

Fail(r) == pc[r] \in Running \ {"aborting", "cut"} /\ Raise(r)

\* The HTTP client gives up after 10 s; the call may still be served.
InitializeTimeout(r) == pc[r] = "initialising" /\ Raise(r)

\* Redis does not answer: the release raises before it is applied, or the SET
\* is applied and its reply lost before the try block is entered.  Either way
\* the key is left to its TTL.
RedisFails(r) ==
  /\ \/ pc[r] \in InLock /\ UNCHANGED lock
     \/ pc[r] = "waiting" /\ Locked(r)
  /\ Goto(r, "cut")
  /\ UNCHANGED <<recordVars, ask, pending, initCalls, outbox, passed, overlapped>>

Rollback(r) ==
  /\ pc[r] \in {"aborting", "cut"}
  /\ Goto(r, IF pc[r] = "cut" THEN "stranded" ELSE "failed")
  /\ pending' = pending \ {r}
  /\ UNCHANGED <<recordVars, ask, lock, initCalls, outbox, passed, overlapped>>

\* The process dies: PostgreSQL rolls back, the Redis key stays until its TTL.
Crash(r) ==
  /\ pc[r] \in Running
  /\ Goto(r, "crashed")
  /\ pending' = pending \ {r}
  /\ UNCHANGED <<recordVars, ask, lock, initCalls, outbox, passed, overlapped>>

-----------------------------------------------------------------------------
\* The other endpoints of the service, as the enroll handler sees them: a
\* committed row becomes CANCELLED or COMPLETED.  Completion models how; that
\* a row can leave either status again is shown there.
RowMoves(e, s) ==
  /\ RowExists(e)
  /\ status' = [status EXCEPT ![e] = s]
  /\ passed' = IF s = "COMPLETED"
               THEN passed \cup {<<ask[e].student, ask[e].course>>}
               ELSE passed
  /\ UNCHANGED <<progress, done, pc, ask, lock, pending, initCalls, outbox, overlapped>>

\* The steps a request takes by itself when nothing raises.
Step(r) ==
  \/ Receive(r)
  \/ PassContext(r)
  \/ RejectContext(r)
  \/ Acquire(r)
  \/ AcquireTimeout(r)
  \/ Recheck(r)
  \/ CountSeats(r)
  \/ Insert(r)
  \/ InitializeReply(r)
  \/ InitializeTimeout(r)
  \/ Return(r)
  \/ Commit(r)
  \/ Rollback(r)

RequestNext(r) == Step(r) \/ Fail(r) \/ RedisFails(r) \/ Crash(r)

ServeNext(e) == ServeInitialize(e) \/ LoseInitialize(e)

Next ==
  \/ \E r \in Enrollments : RequestNext(r) \/ ServeNext(r)
  \/ \E c \in Courses : LockExpires(c)
  \/ \E e \in Enrollments, s \in {"CANCELLED", "COMPLETED"} : RowMoves(e, s)

Spec == Init /\ [][Next]_admissionVars

\* The event loop keeps running every handler, httpx and RedisLock.acquire
\* have timeouts; nothing is assumed of failures, nor that a request arrives.
Fairness ==
  \A r \in Enrollments : WF_admissionVars(pc[r] # "idle" /\ Step(r))

FairSpec == Spec /\ Fairness

-----------------------------------------------------------------------------
(* Properties *)

\* Every variable stays in its set.
TypeOK ==
  /\ RecordsTypeOK
  /\ pc \in [Enrollments -> Running \cup Ended \cup {"idle"}]
  /\ ask \in [Enrollments -> Asks \cup {NoAsk}]
  /\ \A r \in Enrollments : pc[r] # "idle" => ask[r] \in Asks
  /\ lock \in [Courses -> Enrollments \cup {Free}]
  /\ pending \in SUBSET Enrollments
  /\ initCalls \in SUBSET Enrollments
  /\ outbox \in SUBSET Enrollments
  /\ overlapped \in SUBSET Courses

\* A student never has two rows for a course, nor two rows for one
\* idempotency key, although the lock is released before the commit and may
\* expire under its holder: the recheck under the lock does not see a pending
\* row, only the table's constraints keep the second attempt out.
OneRowPerStudentCourse ==
  \A e, f \in Enrollments :
    RowExists(e) /\ RowExists(f) /\ Clashes(ask[e], ask[f]) => e = f

\* No committed enrollment lacks its progress rows, whichever calls, replies
\* or processes were lost: without them every module completion and every
\* cancellation of that enrollment would fail with 404.
EnrolledHasProgress ==
  \A e \in Enrollments : RowExists(e) => ProgressExists(e)

\* Prerequisites are read before the lock and used long after: still, whoever
\* has a row for a course has passed every prerequisite of it.
EnrolledHadPrerequisites ==
  \A e \in Enrollments : RowExists(e) =>
    \A p \in Prerequisites[ask[e].course] : <<ask[e].student, p>> \in passed

\* Whenever a course is locked, the key belongs to a request of that course that
\* is inside the lock, whose process died, or whose own call to Redis failed.  No
\* other return, error or timeout of the handler leaves the course locked behind it.
NoLeakedLock ==
  \A c \in Courses : lock[c] # Free =>
    /\ pc[lock[c]] \in InLock \cup {"cut", "stranded", "crashed"}
    /\ ask[lock[c]].course = c

\* A step of another request never takes a held lock away: after its TTL ran
\* out and someone else acquired the lock, a late release leaves it alone.
ForeignLockKept ==
  [][\A c \in Courses :
       (lock[c] # Free /\ lock'[c] # lock[c]) =>
         \/ pc'[lock[c]] # pc[lock[c]]
         \/ lock'[c] = Free /\ pc' = pc]_admissionVars

\* A course never holds more ENROLLED rows than its max_capacity.
CapacityRespected ==
  \A c \in Courses :
    Capacity[c] # NoLimit => Cardinality(ActiveIn(c)) <= Capacity[c]

\* The only way past max_capacity is two admissions that overlap: seats
\* counted for one request while another was admitted and not yet committed.
OverCapacityOnlyByOverlap ==
  \A c \in Courses :
    Capacity[c] # NoLimit /\ c \notin overlapped =>
      Cardinality(ActiveIn(c)) <= Capacity[c]

\* Every request that arrives ends, whoever crashed holding the lock or a
\* clashing row: none runs for ever, and an ended request stays ended.
EveryRequestEnds ==
  \A r \in Enrollments : []<>(pc[r] \in {"idle"} \cup Ended)

\* The inductive invariant behind the theorems of AdmissionProofs, in parts.
\* A request's row is pending while it is between its insert and its end, and
\* committed exactly when the request ended as enrolled.
RowsFollowRequests ==
  \A r \in Enrollments :
    /\ pc[r] \in {"initialising", "written", "returned"} => r \in pending
    /\ r \in pending => pc[r] \in {"initialising", "written", "returned", "aborting", "cut"}
    /\ RowExists(r) <=> pc[r] = "enrolled"

Present(e) == RowExists(e) \/ e \in pending

\* Pending rows count for the constraints as committed ones do.
NoClash ==
  \A e, f \in Enrollments :
    Present(e) /\ Present(f) /\ Clashes(ask[e], ask[f]) => e = f

\* The answer of the progress service is awaited before anything is written.
ProgressBeforeRow ==
  \A r \in Enrollments :
    pc[r] \in {"written", "returned", "enrolled"} => ProgressExists(r)

\* What the prerequisite check saw stays true of the history.
PassedBeforeLock ==
  \A r \in Enrollments :
    /\ status[r] = "COMPLETED" => <<ask[r].student, ask[r].course>> \in passed
    /\ pc[r] \in InLock \cup {"waiting", "returned", "enrolled"} =>
         \A p \in Prerequisites[ask[r].course] : <<ask[r].student, p>> \in passed

EventPerRow == outbox = {e \in Enrollments : RowExists(e)}

\* Without an overlap there is room for the one admitted request.
RoomIn(c) ==
  /\ Cardinality(ActiveIn(c)) <= Capacity[c]
  /\ \A q1, q2 \in Admitted(c) : q1 = q2
  /\ Admitted(c) # {} => Cardinality(ActiveIn(c)) < Capacity[c]

SeatForAdmitted ==
  \A c \in Courses : Capacity[c] # NoLimit /\ c \notin overlapped => RoomIn(c)

IndInv ==
  /\ TypeOK
  /\ RowsFollowRequests
  /\ NoClash
  /\ ProgressBeforeRow
  /\ PassedBeforeLock
  /\ EventPerRow
  /\ NoLeakedLock
  /\ SeatForAdmitted

\* The table, seen without requests and locks, behaves as AdmissionLedger.
LedgerRows ==
  [e \in Enrollments |->
     IF RowExists(e) THEN [status |-> status[e], ask |-> ask[e]]
                     ELSE [status |-> "ABSENT"]]

Prepared == {e \in Enrollments : ProgressExists(e)}

Ledger == INSTANCE AdmissionLedger WITH
  rows <- LedgerRows, announced <- outbox, prepared <- Prepared

LedgerSpec == Ledger!Spec
=============================================================================
