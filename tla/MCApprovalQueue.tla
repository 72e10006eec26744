--------------------------- MODULE MCApprovalQueue --------------------------
(***************************************************************************)
(* Instances of ApprovalQueue for TLC: every suggestion is about the same  *)
(* document, which is where approvals meet.  Requests are interchangeable, *)
(* and suggestions are, too, when all of them come from the grooming scan. *)
(***************************************************************************)
EXTENDS ApprovalQueue, TLC

CONSTANT d1

SameDoc == [s \in Suggestions |-> d1]

Symmetry == Permutations(Requests)
Both == Symmetry \cup Permutations(Suggestions)
=============================================================================
