--------------------------- MODULE LearnerRecords ---------------------------
(***************************************************************************)
(* The rows in which the enrollment service and the progress service keep  *)
(* a learner's state: one enrollment row (enrollment.enrollments), one     *)
(* progress row (progress.student_progress) and one row per required       *)
(* module (progress.module_progress) for every enrollment id.              *)
(* Each service commits its own rows; no transaction spans both.           *)
(***************************************************************************)
EXTENDS Naturals, FiniteSets

CONSTANTS
  Enrollments,  \* ids of enrollment rows; an attempt to enroll generates one
  Modules       \* the required modules of the course enrolled in

ASSUME ModulesAssumption == IsFiniteSet(Modules)

VARIABLES
  status,    \* status[e]:   committed status of the enrollment row
  progress,  \* progress[e]: committed progress row, status and percentage
  done       \* done[e]:     modules whose committed row has is_completed

recordVars == <<status, progress, done>>

RowStatus == {"ENROLLED", "CANCELLED", "COMPLETED"}

ProgressStatus == {"NOT_STARTED", "IN_PROGRESS", "COMPLETED", "CANCELLED"}

\* progress_percent is kept as the number of modules it stands for: for a
\* fixed total, _calculate_percent is injective in the count.
ProgressRow ==
  [status : ProgressStatus \cup {"ABSENT"}, count : 0 .. Cardinality(Modules)]

NoProgress == [status |-> "ABSENT", count |-> 0]

FreshProgress == [status |-> "NOT_STARTED", count |-> 0]

RowExists(e) == status[e] # "ABSENT"

ProgressExists(e) == progress[e].status # "ABSENT"

\* The ORM writes a column only when the new value differs from the value it
\* loaded; a column left out of the UPDATE keeps what the row holds by then.
Written(loaded, new, row) == IF new = loaded THEN row ELSE new

\* ProgressService.initialize_progress in a transaction of its own: a second
\* call for the same enrollment changes nothing.
InitializeProgressRows(e) ==
  /\ progress' = IF ProgressExists(e)
                 THEN progress
                 ELSE [progress EXCEPT ![e] = FreshProgress]
  /\ UNCHANGED done

RecordsTypeOK ==
  /\ status \in [Enrollments -> RowStatus \cup {"ABSENT"}]
  /\ progress \in [Enrollments -> ProgressRow]
  /\ done \in [Enrollments -> SUBSET Modules]
=============================================================================
