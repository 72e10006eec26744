------------------------- MODULE SuggestionLifecycle ------------------------
(***************************************************************************)
(* What the approval queue promises of a suggestion: it is submitted,      *)
(* decided at most once, and an approval is final.  A suggestion whose row *)
(* changed while another request was deciding on it is contested: nothing  *)
(* is promised of it any more.                                             *)
(***************************************************************************)
CONSTANTS Suggestions, Docs, DocOf

VARIABLE phase

Phases == {"new", "pending", "approved", "rejected", "deleted", "contested"}

In(p) == {s \in Suggestions : phase[s] = p}

Init == phase = [s \in Suggestions |-> "new"]

Submit(s) ==
  /\ phase[s] = "new"
  /\ phase' = [phase EXCEPT ![s] = "pending"]

\* One request decides on document d: it approves one suggestion or none (yes),
\* rejects others (no), and some that it decides on turn out contested.
Decide(d, yes, no, contested) ==
  /\ yes \cup no \cup contested \subseteq {s \in In("pending") : DocOf[s] = d}
  /\ \A s, t \in yes : s = t
  /\ phase' = [s \in Suggestions |->
                 CASE s \in contested -> "contested"
                   [] s \in yes \ contested -> "approved"
                   [] s \in no \ (yes \cup contested) -> "rejected"
                   [] OTHER -> phase[s]]

Clear ==
  phase' = [s \in Suggestions |-> IF phase[s] = "rejected" THEN "deleted" ELSE phase[s]]

Next ==
  \/ \E s \in Suggestions : Submit(s)
  \/ \E d \in Docs, yes, no, contested \in SUBSET Suggestions : Decide(d, yes, no, contested)
  \/ Clear

Spec == Init /\ [][Next]_phase
=============================================================================
