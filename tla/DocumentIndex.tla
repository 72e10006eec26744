---------------------------- MODULE DocumentIndex ---------------------------
(***************************************************************************)
(* What a vector store promises of a document: it is there as a whole,     *)
(* known to be there in part, or not there, and one text never turns into  *)
(* another without the document being taken out in between.  Nothing is    *)
(* promised of a document that two writers have torn until it is taken out.*)
(***************************************************************************)
CONSTANTS Stores, Docs, Texts

VARIABLE index

States == Texts \cup {"none", "part", "torn"}

Init == index = [s \in Stores |-> [d \in Docs |-> "none"]]

Put(s, d)    == index[s][d] = "none"
Remove(s, d) == index'[s][d] = "none"
Tear(s, d)   == index'[s][d] = "torn"
Keep(s, d)   == index'[s][d] = index[s][d]

\* One store changes, any number of its documents at once.
Next ==
  /\ index' \in [Stores -> [Docs -> States]]
  /\ \E s \in Stores :
       /\ \A d \in Docs : Keep(s, d) \/ Put(s, d) \/ Remove(s, d) \/ Tear(s, d)
       /\ \A t \in Stores \ {s}, d \in Docs : Keep(t, d)

Spec == Init /\ [][Next]_index
=============================================================================
