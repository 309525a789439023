------------------------------ MODULE MCCourse ------------------------------
(***************************************************************************)
(* Finite instances of CourseEditing.                                      *)
(***************************************************************************)
EXTENDS CourseEditing, TLC

CONSTANTS m1, m2

\* Two modules, in this order
TwoModules == (m1 :> 0) @@ (m2 :> 1)
=============================================================================
