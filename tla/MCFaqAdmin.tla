----------------------------- MODULE MCFaqAdmin -----------------------------
(* A small instance of FaqAdmin for TLC. *)
EXTENDS FaqAdmin, TLC

Symmetry == Permutations(Admins) \cup Permutations(Categories)
=============================================================================
