----------------------------- MODULE MCGrooming -----------------------------
(* Grooming on a small instance. *)
EXTENDS Grooming, TLC

Symmetry == Permutations(Entities) \cup Permutations(Docs) \cup Permutations(Tasks)
              \cup Permutations(Texts) \cup Permutations(Names)
=============================================================================
