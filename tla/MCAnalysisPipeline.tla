------------------------- MODULE MCAnalysisPipeline -------------------------
(* Two requests for an analysis of one document, a tag, and a custom field:   *)
(* the kind that has a policy and whose map a creation drops, and the kind    *)
(* that has neither.                                                          *)
EXTENDS AnalysisPipeline

CONSTANTS t, f

KindOf == [e \in Entities |-> IF e = t THEN "tags" ELSE "custom_fields"]
=============================================================================
