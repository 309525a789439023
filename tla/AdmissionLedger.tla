--------------------------- MODULE AdmissionLedger ---------------------------
(***************************************************************************)
(* What the enrollment service promises about its table, with no requests, *)
(* locks or transactions: a student gets at most one row per course and    *)
(* per idempotency key, only after passing the prerequisites, only for an  *)
(* id whose progress rows the progress service has, and every row is       *)
(* announced by one EnrollmentCreated event, in the same step.             *)
(***************************************************************************)
CONSTANTS
  Enrollments,    \* row ids
  Asks,           \* what may be asked for: student, course, idempotency key
  Clashes(_, _),  \* two asks that may not both have a row
  Prerequisites   \* [course -> courses to complete before it]

VARIABLES
  rows,       \* rows[e]: the row with id e, or NoRow
  announced,  \* ids of the rows an EnrollmentCreated event was written for
  prepared,   \* ids that have progress rows, also where no row came of it
  passed      \* <<student, course>> pairs that were COMPLETED at some time

ledgerVars == <<rows, announced, prepared, passed>>

NoRow == [status |-> "ABSENT"]

RowsOf == {e \in Enrollments : rows[e].status # "ABSENT"}

Init ==
  /\ rows = [e \in Enrollments |-> NoRow]
  /\ announced = {}
  /\ prepared = {}
  /\ passed = {}

\* Progress comes first, and is never taken back.
Prepare(e) ==
  /\ prepared' = prepared \cup {e}
  /\ UNCHANGED <<rows, announced, passed>>

Enroll(e, a) ==
  /\ e \in prepared \ RowsOf
  /\ \A f \in RowsOf : ~Clashes(rows[f].ask, a)
  /\ \A p \in Prerequisites[a.course] : <<a.student, p>> \in passed
  /\ rows' = [rows EXCEPT ![e] = [status |-> "ENROLLED", ask |-> a]]
  /\ announced' = announced \cup {e}
  /\ UNCHANGED <<prepared, passed>>

Leave(e) ==
  /\ e \in RowsOf
  /\ rows' = [rows EXCEPT ![e].status = "CANCELLED"]
  /\ UNCHANGED <<announced, prepared, passed>>

Finish(e) ==
  /\ e \in RowsOf
  /\ rows' = [rows EXCEPT ![e].status = "COMPLETED"]
  /\ passed' = passed \cup {<<rows[e].ask.student, rows[e].ask.course>>}
  /\ UNCHANGED <<announced, prepared>>

Next ==
  \E e \in Enrollments :
    \/ Prepare(e)
    \/ \E a \in Asks : Enroll(e, a)
    \/ Leave(e)
    \/ Finish(e)

Spec == Init /\ [][Next]_ledgerVars
=============================================================================
