-------------------------- MODULE MCTemplateCache --------------------------
(* A small instance of TemplateCache for TLC. *)
EXTENDS TemplateCache, TLC

\* The tables of the code agree; constants, so evaluated once and in no state.
ASSUME CopyAssumption == DefaultCopyIsComplete

Symmetry == Permutations(Replicas) \cup Permutations(Loads)
=============================================================================
