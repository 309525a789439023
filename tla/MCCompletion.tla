---------------------------- MODULE MCCompletion ----------------------------
(***************************************************************************)
(* Finite instances of Completion.                                         *)
(***************************************************************************)
EXTENDS Completion, TLC

\* Requests of one kind and the modules are interchangeable.
RequestSymmetry ==
  Permutations(Completers) \cup Permutations(Cancellers) \cup Permutations(Modules)
=============================================================================
