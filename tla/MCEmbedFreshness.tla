--------------------------- MODULE MCEmbedFreshness -------------------------
(***************************************************************************)
(* Instances of EmbedFreshness for TLC.  Tasks of one kind are             *)
(* interchangeable, and so are documents: neither is ever compared or      *)
(* ordered, so the permutations below are symmetries of Spec; where no tag *)
(* set is the inbox's (InboxTags = {}), tag sets are interchangeable, too. *)
(* The run of the liveness properties uses no symmetry; it starts at the   *)
(* tag set t1 with every document indexed; other tag sets differ in name.  *)
(***************************************************************************)
EXTENDS EmbedFreshness, TLC

Symmetry == Permutations(Workers) \cup Permutations(Docs)
SymmetryOfTags == Symmetry \cup Permutations(TagSets)

CONSTANT t1

LiveInit == Init /\ tags = [d \in Docs |-> t1] /\ tracked = Docs
LiveSpec == LiveInit /\ [][Next]_vars /\ Fairness

\* Edits whose webhooks all arrive, and the tasks of these webhooks: nothing
\* else happens in the run embed_overtaken.
WebhookNext ==
  \/ \E d \in Docs, t \in TagSets : EditDocument(d, t)
  \/ \E w \in Workers, d \in Docs : ReceiveWebhook(w, d)
  \/ \E w \in Workers : Progress(w)
WebhookSpec == Init /\ tracked = Docs /\ [][WebhookNext]_vars
=============================================================================
