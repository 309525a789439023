----------------------------- MODULE MCAdmission -----------------------------
(***************************************************************************)
(* Finite instances of Admission.                                          *)
(***************************************************************************)
EXTENDS Admission, TLC

CONSTANTS alice, bob, basics, advanced, key

\* Two students after the single seat of one course.
SeatAsks ==
  {[student |-> alice, course |-> basics, key |-> NoKey],
   [student |-> bob, course |-> basics, key |-> NoKey]}

\* One of them may also take the course that requires it, with an idempotency
\* key that is sometimes used for the first already.
PathAsks ==
  {[student |-> alice, course |-> basics, key |-> NoKey],
   [student |-> alice, course |-> basics, key |-> key],
   [student |-> alice, course |-> advanced, key |-> key],
   [student |-> bob, course |-> basics, key |-> NoKey]}

\* Requests are interchangeable.
AdmissionSymmetry == Permutations(Enrollments)

OneCourse == {basics}

TwoCourses == {basics, advanced}

NoPrerequisites == [c \in OneCourse |-> {}]

BasicsFirst == [c \in TwoCourses |-> IF c = advanced THEN {basics} ELSE {}]

OneSeat == [c \in OneCourse |-> 1]

OneSeatInBasics == [c \in TwoCourses |-> IF c = basics THEN 1 ELSE NoLimit]
=============================================================================
