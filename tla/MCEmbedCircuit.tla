--------------------------- MODULE MCEmbedCircuit ---------------------------
(* The circuit with one document that never embeds, one that is only marked, *)
(* and an ordinary one.                                                      *)
EXTENDS EmbedCircuit
=============================================================================
