------------------------ MODULE InboxAutomationProofs -----------------------
(***************************************************************************)
(* Proofs about InboxAutomation, for every set of documents, every choice  *)
(* of loops, settings and failures, and every bound.                       *)
(***************************************************************************)
EXTENDS InboxAutomation, TLAPS

\* The parts of InboxInv that speak of the loops.
LoopsOK ==
  /\ pc \in [Loops -> Phases]
  /\ todo \in [Loops -> SUBSET Docs]
  /\ known \in [Loops -> SUBSET Docs]
  /\ cur \in [Loops -> Docs \cup {NoDoc}]
  /\ \A l \in Loops : pc[l] \in {"analysis", "apply", "mark"} => cur[l] \in Docs

LoopsInv ==
  /\ LoopsOK
  /\ "poll" \in Loops => known["poll"] = {} /\ pc["poll"] # "mark"
  /\ BatchInv

\* And those that speak of the rest.
TableInv ==
  /\ inbox \subseteq Docs
  /\ analyzed \subseteq tracked /\ tracked \subseteq Docs
  /\ automation \in BOOLEAN
  /\ events \in 0..MaxEvents
  /\ polled \subseteq tracked /\ attempted \subseteq Docs

LEMMA InvParts ==
  /\ InboxInv <=> LoopsInv /\ TableInv
  /\ InboxInv' <=> LoopsInv' /\ TableInv'
  BY DEF InboxInv, TypeOK, PollInv, LoopsInv, LoopsOK, TableInv

\* A loop that ends its run, or goes on without taking a document, keeps what
\* holds of the loops, as long as no document is marked.
LEMMA StopKeeps ==
  ASSUME NEW ls, LoopsInv, Stop(ls), analyzed' \subseteq analyzed
  PROVE  LoopsInv'
  BY ConstantsAssumption DEF LoopsInv, LoopsOK, BatchInv, Stop, Phases

LEMMA GoKeeps ==
  ASSUME NEW l \in Loops, NEW p \in Phases, LoopsInv, Go(l, p),
         analyzed' \subseteq analyzed,
         pc[l] \in {"analysis", "apply", "mark"}, p = "mark" => l = "batch"
  PROVE  LoopsInv'
  BY ConstantsAssumption DEF LoopsInv, LoopsOK, BatchInv, Go, Phases

LEMMA ReturnKeeps ==
  ASSUME NEW l \in Loops, LoopsInv, Return(l), analyzed' = analyzed,
         pc[l] \in {"analysis", "apply"}
  PROVE  LoopsInv'
<1>1. CASE l = "batch"
  <2>1. Go(l, "mark") /\ "mark" \in Phases  BY <1>1 DEF Return, Phases
  <2>. QED  BY <1>1, <2>1, GoKeeps
<1>2. CASE l # "batch"
  <2>1. Go(l, "next") /\ "next" \in Phases  BY <1>2 DEF Return, Phases
  <2>. QED  BY <2>1, GoKeeps
<1>. QED  BY <1>1, <1>2

LEMMA StayKeeps ==
  ASSUME LoopsInv, UNCHANGED loops, analyzed' \subseteq analyzed
  PROVE  LoopsInv'
  BY DEF LoopsInv, LoopsOK, BatchInv, loops

-----------------------------------------------------------------------------
LEMMA InitInv == Init => InboxInv
<1>. SUFFICES ASSUME Init PROVE InboxInv
  OBVIOUS
<1>1. LoopsInv
  BY ConstantsAssumption DEF Init, LoopsInv, LoopsOK, BatchInv, Phases
<1>2. TableInv
  BY ConstantsAssumption DEF Init, TableInv
<1>. QED  BY <1>1, <1>2, InvParts

LEMMA EnvironmentInv ==
  ASSUME InboxInv, Environment
  PROVE  InboxInv'
<1>. USE InvParts, ConstantsAssumption
<1>1. ASSUME NEW d \in Docs, EnterInbox(d) \/ LeaveInbox(d) \/ StampEmbed(d)
      PROVE  InboxInv'
  <2>1. LoopsInv'
    BY <1>1, StayKeeps DEF EnterInbox, LeaveInbox, StampEmbed, table
  <2>2. TableInv'
    BY <1>1 DEF EnterInbox, LeaveInbox, StampEmbed, TableInv, Event, table, history
  <2>. QED  BY <2>1, <2>2, InvParts
<1>2. ASSUME NEW ds, DeleteRows(ds), UNCHANGED <<inbox, automation, loops, attempted>>,
             Event
      PROVE  InboxInv'
  <2>1. LoopsInv'
    BY <1>2, StayKeeps DEF DeleteRows
  <2>2. TableInv'
    BY <1>2 DEF DeleteRows, TableInv, Event
  <2>. QED  BY <2>1, <2>2, InvParts
<1>3. CASE ResetTracking
  BY <1>2, <1>3 DEF ResetTracking
<1>4. ASSUME NEW ds \in SUBSET Docs, ResetRejected(ds) PROVE InboxInv'
  BY <1>2, <1>4 DEF ResetRejected
<1>5. CASE SwitchAutomation
  <2>1. LoopsInv'
    <3>1. CASE automation
      BY <1>5, <3>1, StopKeeps DEF SwitchAutomation, table
    <3>2. CASE ~automation
      BY <1>5, <3>2, StayKeeps DEF SwitchAutomation, table
    <3>. QED  BY <3>1, <3>2
  <2>2. TableInv'
    BY <1>5 DEF SwitchAutomation, TableInv, Event, table, history
  <2>. QED  BY <2>1, <2>2, InvParts
<1>6. CASE Restart
  <2>1. LoopsInv'
    BY <1>6, StopKeeps DEF Restart, table
  <2>2. TableInv'
    BY <1>6 DEF Restart, TableInv, Event, table, history
  <2>. QED  BY <2>1, <2>2, InvParts
<1>. QED  BY <1>1, <1>3, <1>4, <1>5, <1>6 DEF Environment

\* A run reads the table into its list, takes a document, and marks it: the
\* three steps that an invariant of the list and the table can be broken by.
LEMMA SelectInv ==
  ASSUME InboxInv, NEW l \in Loops, Select(l)
  PROVE  InboxInv'
<1>. USE InvParts
<1> DEFINE ds == todo[l] \ (IF l = "poll" THEN tracked ELSE analyzed)
<1>1. Keep(l, ds) /\ ds \subseteq todo[l]
  BY DEF Select
<1>2. l # "poll" => ds \cap analyzed = {}
  OBVIOUS
<1>. HIDE DEF ds
<1>3. LoopsOK'
  BY <1>1 DEF Keep, LoopsInv, LoopsOK, TableInv, Phases
<1>4. "poll" \in Loops => known'["poll"] = {} /\ pc'["poll"] # "mark"
  BY <1>1 DEF Keep, LoopsInv, LoopsOK
<1>5. BatchInv'
  BY <1>1, <1>2 DEF Keep, LoopsInv, LoopsOK, BatchInv, table
<1>6. TableInv'
  BY <1>1 DEF Keep, TableInv, table, history
<1>. QED  BY <1>3, <1>4, <1>5, <1>6 DEF LoopsInv

LEMMA TakeInv ==
  ASSUME InboxInv, NEW l \in Loops, NEW d \in Docs, Take(l, d)
  PROVE  InboxInv'
<1>. USE InvParts
<1>1. LoopsInv'
  BY ConstantsAssumption DEF Take, LoopsInv, LoopsOK, BatchInv, TableInv, Phases
<1>2. TableInv'
  BY DEF Take, LoopsInv, LoopsOK, TableInv
<1>. QED  BY <1>1, <1>2

LEMMA MarkInv ==
  ASSUME InboxInv, NEW l \in Loops, Mark(l)
  PROVE  InboxInv'
<1>. USE InvParts
<1>1. l = "batch" \/ l = "poll"
  BY ConstantsAssumption
<1>2. CASE cur[l] \in tracked
  <2>1. analyzed' = analyzed \cup {cur[l]} /\ Go(l, "next") /\ pc[l] = "mark"
    BY <1>2 DEF Mark
  <2>2. LoopsInv'
    <3>1. LoopsOK'
      BY <2>1 DEF Go, LoopsInv, LoopsOK, Phases
    <3>2. "poll" \in Loops => known'["poll"] = {} /\ pc'["poll"] # "mark"
      BY <2>1 DEF Go, LoopsInv, LoopsOK
    <3>3. l = "batch"
      BY <1>1, <2>1 DEF LoopsInv
    <3>4. BatchInv'
      BY <2>1, <3>3 DEF Go, LoopsInv, LoopsOK, BatchInv
    <3>. QED  BY <3>1, <3>2, <3>4 DEF LoopsInv
  <2>3. TableInv'
    BY <1>2, <2>1 DEF Mark, TableInv, history
  <2>. QED  BY <2>2, <2>3
<1>3. CASE cur[l] \notin tracked
  <2>1. LoopsInv'
    BY <1>3, StopKeeps DEF Mark
  <2>2. TableInv'
    BY <1>3 DEF Mark, TableInv, history
  <2>. QED  BY <2>1, <2>2
<1>. QED  BY <1>2, <1>3

\* The other steps of a run leave the table alone.
LEMMA RunInv ==
  ASSUME InboxInv, NEW l \in Loops, Run(l) \/ AnalysisFails(l) \/ CommitFails(l)
  PROVE  InboxInv'
<1>. USE InvParts
<1>1. CASE FetchInbox(l)
  <2>1. LoopsInv'
    BY <1>1, ConstantsAssumption
    DEF FetchInbox, LoopsInv, LoopsOK, BatchInv, TableInv, table, Phases
  <2>2. TableInv'
    BY <1>1 DEF FetchInbox, TableInv, table, history
  <2>. QED  BY <2>1, <2>2
<1>2. ASSUME NEW d \in Docs, Collide(l, d) PROVE InboxInv'
  <2>1. LoopsInv'  BY <1>2, StopKeeps DEF Collide, table
  <2>2. TableInv'  BY <1>2 DEF Collide, TableInv, table, history
  <2>. QED  BY <2>1, <2>2
<1>3. CASE Enqueue(l)
  <2>1. PICK apply \in AutoApply : IF apply THEN Go(l, "apply") ELSE Return(l)
    BY <1>3 DEF Enqueue
  <2>2. LoopsInv'
    <3>1. CASE apply
      BY <1>3, <2>1, <3>1, GoKeeps DEF Enqueue, table, Phases
    <3>2. CASE ~apply
      BY <1>3, <2>1, <3>2, ReturnKeeps DEF Enqueue, table
    <3>. QED  BY <3>1, <3>2
  <2>3. TableInv'
    BY <1>3 DEF Enqueue, TableInv, LoopsInv, LoopsOK, table
  <2>. QED  BY <2>2, <2>3
<1>4. CASE AnalysisFails(l)
  <2>1. LoopsInv'  BY <1>4, ReturnKeeps DEF AnalysisFails, table
  <2>2. TableInv'
    BY <1>4 DEF AnalysisFails, TableInv, LoopsInv, LoopsOK, table
  <2>. QED  BY <2>1, <2>2
<1>5. CASE Apply(l)
  <2>1. LoopsInv'  BY <1>5, ReturnKeeps DEF Apply, table
  <2>2. TableInv'  BY <1>5 DEF Apply, TableInv, table, history
  <2>. QED  BY <2>1, <2>2
<1>6. CASE CommitFails(l)
  <2>1. LoopsInv'  BY <1>6, StopKeeps DEF CommitFails, table
  <2>2. TableInv'  BY <1>6, ConstantsAssumption
                   DEF CommitFails, TableInv, table, history, Event
  <2>. QED  BY <2>1, <2>2
<1>7. CASE Finish(l)
  <2>1. LoopsInv'  BY <1>7, StopKeeps DEF Finish, table
  <2>2. TableInv'  BY <1>7 DEF Finish, TableInv, table, history
  <2>. QED  BY <2>1, <2>2
<1>. QED
  BY <1>1, <1>2, <1>3, <1>4, <1>5, <1>6, <1>7, SelectInv, TakeInv, MarkInv DEF Run

\* The inductive invariant of the two loops holds whatever resets, embed
\* stamps, settings switches and restarts come between their steps.
THEOREM InboxInvHolds == Spec => []InboxInv
<1>1. InboxInv /\ [Next]_vars => InboxInv'
  <2>. SUFFICES ASSUME InboxInv, [Next]_vars PROVE InboxInv'
    OBVIOUS
  <2>1. CASE UNCHANGED vars
    <3>1. LoopsInv'
      BY <2>1, StayKeeps, InvParts DEF vars, table
    <3>2. TableInv'
      BY <2>1, InvParts DEF vars, table, history, TableInv
    <3>. QED  BY <3>1, <3>2, InvParts
  <2>. QED  BY <2>1, EnvironmentInv, RunInv DEF Next
<1>. QED  BY InitInv, <1>1, PTL DEF Spec

\* Every state has the types the code gives it: in particular a mark of the
\* batch never survives, or recreates, a deleted row.
THEOREM TypeCorrect == Spec => []TypeOK
<1>1. InboxInv => TypeOK
  BY DEF InboxInv
<1>. QED  BY InboxInvHolds, <1>1, PTL

\* A document is submitted by a Take step and by no other.
LEMMA OnlyTakeSubmits ==
  ASSUME InboxInv, Next, NEW k \in Loops, NEW d, Submits(k, d)
  PROVE  Take(k, d) /\ d \in Docs
<1>. USE InvParts DEF Submits, LoopsInv, LoopsOK
<1>1. ASSUME Environment PROVE FALSE
  BY <1>1 DEF Environment, EnterInbox, LeaveInbox, StampEmbed, ResetTracking,
              ResetRejected, SwitchAutomation, Restart, Stop, loops
<1>2. ASSUME NEW l \in Loops, FetchInbox(l) \/ Select(l) PROVE FALSE
  BY <1>2 DEF FetchInbox, Select, Keep
<1>3. ASSUME NEW l \in Loops, Enqueue(l) \/ AnalysisFails(l) \/ Apply(l) PROVE FALSE
  BY <1>3 DEF Enqueue, AnalysisFails, Apply, Return, Go
<1>4. ASSUME NEW l \in Loops, Mark(l) \/ CommitFails(l) \/ Finish(l) PROVE FALSE
  BY <1>4 DEF Mark, CommitFails, Finish, Stop, Go
<1>5. ASSUME NEW l \in Loops, NEW x \in Docs, Collide(l, x) PROVE FALSE
  BY <1>5 DEF Collide, Stop
<1>6. PICK l \in Loops, x \in Docs : Take(l, x)
  BY <1>1, <1>2, <1>3, <1>4, <1>5 DEF Next, Run
<1>7. l = k /\ x = d
  BY <1>6 DEF Take
<1>. QED  BY <1>6, <1>7

\* The poller submits a document at most once as long as its row is there:
\* writing the row before the submission is what makes it so.
THEOREM PolledOnceHolds == Spec => PolledOnce
<1> DEFINE Step == \A d \in Docs : "poll" \in Loops /\ Submits("poll", d) => d \notin polled
<1>1. InboxInv /\ [Next]_vars => [Step]_vars
  <2>. SUFFICES ASSUME InboxInv, Next, NEW d \in Docs, "poll" \in Loops, Submits("poll", d)
                PROVE  d \notin polled
    OBVIOUS
  <2>1. Take("poll", d)
    BY OnlyTakeSubmits
  <2>. QED  BY <2>1, InvParts DEF Take, LoopsInv, TableInv
<1>. QED  BY InboxInvHolds, <1>1, PTL DEF Spec, PolledOnce

\* The batch submits no document that is marked, although it chose its list
\* before its first await.
THEOREM BatchSkipsMarkedHolds == Spec => BatchSkipsMarked
<1> DEFINE Step == \A d \in Docs : "batch" \in Loops /\ Submits("batch", d) => d \notin analyzed
<1>1. InboxInv /\ [Next]_vars => [Step]_vars
  <2>. SUFFICES ASSUME InboxInv, Next, NEW d \in Docs, "batch" \in Loops, Submits("batch", d)
                PROVE  d \notin analyzed
    OBVIOUS
  <2>1. Take("batch", d)
    BY OnlyTakeSubmits
  <2>. QED  BY <2>1, InvParts DEF Take, LoopsInv, BatchInv
<1>. QED  BY InboxInvHolds, <1>1, PTL DEF Spec, BatchSkipsMarked
=============================================================================
