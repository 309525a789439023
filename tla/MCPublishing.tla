---------------------------- MODULE MCPublishing ----------------------------
(***************************************************************************)
(* Finite instances of Publishing.                                         *)
(***************************************************************************)
EXTENDS Publishing, TLC

\* Versions are interchangeable, and so are requests.
PublishingSymmetry == Permutations(Versions) \cup Permutations(Requests)
=============================================================================
