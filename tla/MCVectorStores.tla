--------------------------- MODULE MCVectorStores ---------------------------
(***************************************************************************)
(* Instances of VectorStores for TLC: a text of one chunk and one of two.  *)
(***************************************************************************)
EXTENDS VectorStores, TLC

CONSTANTS a, b

Sizes == [x \in Texts \cup {NoText} |-> CASE x = a -> 1 [] x = b -> 2 [] OTHER -> 0]

Symmetry == Permutations(Embedders) \cup Permutations(Docs) \cup Permutations(Spaces)
=============================================================================
