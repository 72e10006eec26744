------------------------- MODULE MCDiscoveryMemory --------------------------
(***************************************************************************)
(* Instances of DiscoveryMemory for TLC: two texts, each near itself, and  *)
(* of which a search for the first finds the second, but not the other way *)
(* round; so a revision may bring a memory near another one.               *)
(***************************************************************************)
EXTENDS DiscoveryMemory

CONSTANTS f1, f2, r1, r2, s1, s2, m1, m2

OneWay == {<<f1, f1>>, <<f2, f2>>, <<f1, f2>>}

\* Sessions, ids and requests are alike: take them in one order.
InOrder ==
  /\ questions' = 1 => open' \subseteq {s1} /\ \A t \in Tasks : sess'[t] # s2
  /\ m2 \in used' => m1 \in used'
  /\ pc[r2] = "idle" /\ pc'[r2] # "idle" => pc[r1] # "idle"

\* Two kinds of behaviours are explored: one question, whose session yields facts,
\* with anything that can be done to memories, and one event; or two questions, to
\* one session or to two, with extractions that yield none, and two events.
OneOfTwo ==
  IF questions' < 2 THEN events' < 2
  ELSE used' = {} /\ \A t \in Tasks : pc'[t] \notin {"store", "revise", "add", "unembed"}

\* Two tasks at a time are at work: two requests, or one and the loop.
TwoAtATime == Cardinality({t \in Tasks : pc'[t] # "idle"}) <= 2

MCNext == Next /\ InOrder /\ OneOfTwo /\ TwoAtATime
MCSpec == Init /\ [][MCNext]_vars /\ WF_vars(Expire) /\ WF_vars(Step(Loop))
=============================================================================
