------------------------ MODULE ApprovalQueueProofs -------------------------
(***************************************************************************)
(* Proofs about ApprovalQueue, for any suggestions, documents, requests,   *)
(* operations and failures: its invariants, and that it implements the     *)
(* life cycle of a suggestion.                                             *)
(***************************************************************************)
EXTENDS ApprovalQueue, TLAPS

-----------------------------------------------------------------------------
(* Types.                                                                  *)

\* The helpers keep the types of the variables of the requests.
LEMMA GoType ==
  ASSUME RequestsOK, NEW r \in Requests, pc[r] \notin {"idle", "next"},
         NEW p \in {"analyze", "applied", "enqueue"}, Go(r, p),
         p = "applied" => pc[r] = "decide" /\ op[r] \in Approving
  PROVE  RequestsOK'
  BY DEF RequestsOK, Go

LEMMA HoldType ==
  ASSUME RequestsOK, NEW r \in Requests, NEW p \in {"analyze", "decide", "enqueue"},
         NEW s \in Suggestions, NEW st \in Statuses, NEW ss \in SUBSET Suggestions,
         Hold(r, p, s, st, ss), p = "decide" => st = "pending"
  PROVE  RequestsOK'
  BY DEF RequestsOK, Hold

LEMMA LeaveType ==
  ASSUME RequestsOK, NEW r \in Requests, NEW ss \in SUBSET Suggestions, Leave(r, ss)
  PROVE  RequestsOK'
  BY DEF RequestsOK, Leave, Hold, Statuses

LEMMA RaiseType ==
  ASSUME RequestsOK, NEW r \in Requests, Raise(r)
  PROVE  RequestsOK'
<1>1. PICK ss \in SUBSET Suggestions : Leave(r, ss)
  BY DEF Raise, RequestsOK
<1> QED BY <1>1, LeaveType

LEMMA StutterType ==
  ASSUME TypeOK, UNCHANGED vars
  PROVE  TypeOK'
  BY DEF TypeOK, DatabaseOK, PaperlessOK, RequestsOK, HistoryOK, vars, database,
         paperless, requests, history

LEMMA InitType == Init => TypeOK
<1> SUFFICES ASSUME Init PROVE TypeOK
  OBVIOUS
<1>1. DatabaseOK /\ PaperlessOK
  BY QueueAssumption DEF Init, DatabaseOK, PaperlessOK, Statuses, Events
<1>2. RequestsOK
  BY DEF Init, RequestsOK, Statuses, Rejecting, Judging
<1> QED BY <1>1, <1>2, QueueAssumption DEF Init, TypeOK, HistoryOK

\* Requests that come in, read rows and wait for analyses.
LEMMA RequestType ==
  ASSUME TypeOK, NEW r \in Requests,
         \/ \E s \in Suggestions :
              \/ AutoApply(r, s) \/ EnqueueFresh(r, s)
              \/ LoadForApproval(r, s) \/ LoadForRejection(r, s) \/ StartAnalysis(r, s)
         \/ \E o \in Ops, ss \in SUBSET Suggestions : Receive(r, o, ss)
         \/ FinishAnalysis(r) \/ AnalysisFails(r)
  PROVE  TypeOK'
<1> USE QueueAssumption DEF TypeOK
<1>1. ASSUME NEW s \in Suggestions, AutoApply(r, s)
      PROVE  TypeOK'
  BY <1>1 DEF AutoApply, DatabaseOK, PaperlessOK, RequestsOK, HistoryOK, Statuses,
     paperless, history, Approving
<1>2. ASSUME NEW o \in Ops, NEW ss \in SUBSET Suggestions, Receive(r, o, ss)
      PROVE  TypeOK'
  BY <1>2 DEF Receive, DatabaseOK, PaperlessOK, RequestsOK, HistoryOK,
     database, paperless, history
<1>3. ASSUME NEW s \in Suggestions, EnqueueFresh(r, s)
      PROVE  TypeOK'
  <2>1. RequestsOK'
    BY <1>3, LeaveType DEF EnqueueFresh, RequestsOK
  <2> QED BY <1>3, <2>1 DEF EnqueueFresh, DatabaseOK, PaperlessOK, HistoryOK,
             Statuses, paperless, history
<1>4. ASSUME NEW s \in Suggestions, LoadForApproval(r, s)
      PROVE  TypeOK'
  <2>1. RequestsOK'
    BY <1>4, HoldType, RaiseType DEF LoadForApproval, RequestsOK, Statuses
  <2> QED BY <1>4, <2>1 DEF LoadForApproval, DatabaseOK, PaperlessOK, HistoryOK,
             database, paperless, history
<1>5. ASSUME NEW s \in Suggestions, LoadForRejection(r, s)
      PROVE  TypeOK'
  <2>1. todo[r] \ {s} \in SUBSET Suggestions
    BY DEF RequestsOK
  <2>2. RequestsOK'
    BY <1>5, <2>1, HoldType, LeaveType DEF LoadForRejection, Statuses
  <2> QED BY <1>5, <2>2 DEF LoadForRejection, DatabaseOK, PaperlessOK, HistoryOK,
             database, paperless, history
<1>6. ASSUME NEW s \in Suggestions, StartAnalysis(r, s)
      PROVE  TypeOK'
  <2>1. RequestsOK'
    BY <1>6, HoldType, LeaveType DEF StartAnalysis, RequestsOK, DatabaseOK
  <2> QED BY <1>6, <2>1 DEF StartAnalysis, DatabaseOK, PaperlessOK, HistoryOK,
             database, paperless, history
<1>7. CASE FinishAnalysis(r)
  <2>1. cur[r] \in Suggestions /\ todo[r] \in SUBSET Suggestions
    BY <1>7 DEF FinishAnalysis, RequestsOK
  <2>2. PICK st \in Statuses :
          Hold(r, IF st = "pending" THEN "decide" ELSE "enqueue", cur[r], st, todo[r])
    BY <1>7, <2>1 DEF FinishAnalysis, RequestsOK, DatabaseOK
  <2>3. RequestsOK'
    BY <2>1, <2>2, HoldType
  <2> QED BY <1>7, <2>3 DEF FinishAnalysis, DatabaseOK, PaperlessOK, HistoryOK,
             database, paperless, history
<1>8. CASE AnalysisFails(r)
  <2>1. RequestsOK'
    BY <1>8, RaiseType DEF AnalysisFails
  <2> QED BY <1>8, <2>1 DEF AnalysisFails, DatabaseOK, PaperlessOK, HistoryOK,
             database, paperless, history
<1> QED BY <1>1, <1>2, <1>3, <1>4, <1>5, <1>6, <1>7, <1>8

\* Requests that decide.
LEMMA DecisionType ==
  ASSUME TypeOK, NEW r \in Requests,
         \/ Patch(r) \/ PatchFails(r)
         \/ CommitApproval(r) \/ CommitRejection(r) \/ CommitFails(r)
  PROVE  TypeOK'
<1> USE QueueAssumption DEF TypeOK
<1>0. cur[r] \in Suggestions /\ todo[r] \in SUBSET Suggestions
  BY DEF Patch, PatchFails, CommitApproval, CommitRejection, CommitFails, RequestsOK
<1>1. CASE Patch(r)
  <2>1. RequestsOK'
    BY <1>1, GoType DEF Patch
  <2> QED BY <1>0, <1>1, <2>1 DEF Patch, Apply, DatabaseOK, PaperlessOK, HistoryOK,
             database, history
<1>2. CASE PatchFails(r)
  <2>1. RequestsOK'
    BY <1>2, RaiseType DEF PatchFails
  <2> QED BY <1>0, <1>2, <2>1 DEF PatchFails, Apply, DatabaseOK, PaperlessOK,
             HistoryOK, database, paperless
<1>3. CASE CommitApproval(r)
  <2>1. RequestsOK'
    BY <1>0, <1>3, LeaveType DEF CommitApproval
  <2>2. DatabaseOK'
    BY <1>0, <1>3 DEF CommitApproval, DatabaseOK, Statuses, Events
  <2>3. HistoryOK'
    BY <1>0, <1>3 DEF CommitApproval, HistoryOK, Overtakes, Siblings, Pending
  <2> QED BY <1>3, <2>1, <2>2, <2>3 DEF CommitApproval, PaperlessOK, paperless
<1>4. CASE CommitRejection(r)
  <2>1. RequestsOK'
    BY <1>0, <1>4, LeaveType, GoType DEF CommitRejection
  <2>2. status' \in [Suggestions -> Statuses]
    BY <1>0, <1>4 DEF CommitRejection, DatabaseOK, Statuses
  <2>3. audit' \in [Suggestions -> Seq(Events)]
    BY <1>0, <1>4 DEF CommitRejection, DatabaseOK, Events
  <2>4. dismissed' \subseteq Grooming
    BY <1>4 DEF CommitRejection, NewDismissals, DatabaseOK
  <2> QED BY <1>0, <1>4, <2>1, <2>2, <2>3, <2>4 DEF CommitRejection, DatabaseOK,
             PaperlessOK, HistoryOK, Overtakes, paperless
<1>5. CASE CommitFails(r)
  <2>1. RequestsOK'
    BY <1>5, RaiseType DEF CommitFails
  <2> QED BY <1>0, <1>5, <2>1 DEF CommitFails, DatabaseOK, PaperlessOK, HistoryOK,
             database, paperless
<1> QED BY <1>1, <1>2, <1>3, <1>4, <1>5

LEMMA NextType == TypeOK /\ [Next]_vars => TypeOK'
<1> SUFFICES ASSUME TypeOK, [Next]_vars PROVE TypeOK'
  OBVIOUS
<1>1. ASSUME NEW r \in Requests, Step(r) PROVE TypeOK'
  BY <1>1, RequestType, DecisionType DEF Step
<1>2. ASSUME NEW s \in Suggestions, Enqueue(s) PROVE TypeOK'
  BY <1>2 DEF Enqueue, TypeOK, DatabaseOK, PaperlessOK, RequestsOK, HistoryOK,
     Statuses, paperless, requests, history
<1>3. CASE ResetRejected
  BY <1>3 DEF ResetRejected, TypeOK, DatabaseOK, PaperlessOK, RequestsOK, HistoryOK,
     Statuses, paperless, requests, history
<1>4. CASE Restart
  BY <1>4, QueueAssumption DEF Restart, TypeOK, DatabaseOK, PaperlessOK, RequestsOK,
     HistoryOK, Statuses, database, paperless
<1> QED BY <1>1, <1>2, <1>3, <1>4, StutterType DEF Next

\* Every variable of the queue keeps its type; a request that decides holds a row
\* it has read as pending.
THEOREM TypeCorrect == Spec => []TypeOK
  BY InitType, NextType, PTL DEF Spec

-----------------------------------------------------------------------------
(* The rows that requests hold.                                            *)

\* History only grows.
LEMMA OvertakenGrows ==
  ASSUME [Next]_vars
  PROVE  overtaken \subseteq overtaken'
<1>1. ASSUME NEW r \in Requests, Step(r) PROVE overtaken \subseteq overtaken'
  <2>1. CASE CommitApproval(r) \/ CommitRejection(r)
    BY <2>1 DEF CommitApproval, CommitRejection
  <2>2. CASE \E s \in Suggestions : AutoApply(r, s) \/ EnqueueFresh(r, s)
    BY <2>2 DEF AutoApply, EnqueueFresh, history
  <2>3. CASE \E s \in Suggestions :
               LoadForApproval(r, s) \/ LoadForRejection(r, s) \/ StartAnalysis(r, s)
    BY <2>3 DEF LoadForApproval, LoadForRejection, StartAnalysis, history
  <2>4. CASE \E o \in Ops, ss \in SUBSET Suggestions : Receive(r, o, ss)
    BY <2>4 DEF Receive, history
  <2>5. CASE FinishAnalysis(r) \/ AnalysisFails(r) \/ Patch(r)
    BY <2>5 DEF FinishAnalysis, AnalysisFails, Patch, history
  <2>6. CASE PatchFails(r) \/ CommitFails(r)
    BY <2>6 DEF PatchFails, CommitFails
  <2> QED BY <1>1, <2>1, <2>2, <2>3, <2>4, <2>5, <2>6 DEF Step
<1>2. CASE ResetRejected \/ Restart \/ \E s \in Suggestions : Enqueue(s)
  BY <1>2 DEF ResetRejected, Restart, Enqueue, history
<1>3. CASE UNCHANGED vars
  BY <1>3 DEF vars, history
<1> QED BY <1>1, <1>2, <1>3 DEF Next

\* A request that leaves its suggestion holds nothing.
LEMMA LeaveHeld ==
  ASSUME RequestsOK, NEW r \in Requests, NEW ss, Leave(r, ss)
  PROVE  \A q \in Requests, t \in Suggestions : Holds(q, t)' => Holds(q, t)
  BY QueueAssumption DEF RequestsOK, Leave, Hold, Holds

LEMMA RaiseHeld ==
  ASSUME RequestsOK, NEW r \in Requests, Raise(r)
  PROVE  \A q \in Requests, t \in Suggestions : Holds(q, t)' => Holds(q, t)
<1>1. PICK ss : Leave(r, ss)
  BY DEF Raise
<1> QED BY <1>1, LeaveHeld

\* Requests other than those of a commit: what they come to hold is pending.
LEMMA RequestHeld ==
  ASSUME TypeOK, HeldIsPending, NEW r \in Requests,
         \/ \E s \in Suggestions :
              \/ AutoApply(r, s) \/ EnqueueFresh(r, s)
              \/ LoadForApproval(r, s) \/ LoadForRejection(r, s) \/ StartAnalysis(r, s)
         \/ \E o \in Ops, ss \in SUBSET Suggestions : Receive(r, o, ss)
         \/ FinishAnalysis(r) \/ AnalysisFails(r)
         \/ Patch(r) \/ PatchFails(r) \/ CommitFails(r)
  PROVE  HeldIsPending'
<1> USE DEF TypeOK, RequestsOK, DatabaseOK, HeldIsPending, Holds, history
<1>1. ASSUME NEW s \in Suggestions, AutoApply(r, s) PROVE HeldIsPending'
  <2>1. \A q \in Requests, t \in Suggestions : Holds(q, t)' => Holds(q, t)
    BY <1>1 DEF AutoApply
  <2>2. \A t \in Suggestions : status[t] = "pending" => status'[t] = "pending"
    BY <1>1 DEF AutoApply
  <2> QED BY <1>1, <2>1, <2>2 DEF AutoApply
<1>2. ASSUME NEW s \in Suggestions, EnqueueFresh(r, s) PROVE HeldIsPending'
  BY <1>2, QueueAssumption DEF EnqueueFresh, Leave, Hold
<1>3. ASSUME NEW s \in Suggestions, LoadForApproval(r, s) PROVE HeldIsPending'
  <2>1. CASE status[s] = "pending"
    <3>1. Hold(r, "decide", s, "pending", todo[r] \ {s}) /\ UNCHANGED <<database, history>>
      BY <1>3, <2>1 DEF LoadForApproval
    <3> QED BY <2>1, <3>1 DEF Hold, database
  <2>2. CASE status[s] # "pending"
    BY <1>3, <2>2, RaiseHeld DEF LoadForApproval, database
  <2> QED BY <2>1, <2>2
<1>4. ASSUME NEW s \in Suggestions, LoadForRejection(r, s) PROVE HeldIsPending'
  BY <1>4, QueueAssumption DEF LoadForRejection, Leave, Hold, database
<1>5. ASSUME NEW s \in Suggestions, StartAnalysis(r, s) PROVE HeldIsPending'
  BY <1>5, QueueAssumption DEF StartAnalysis, Leave, Hold, database
<1>6. ASSUME NEW o \in Ops, NEW ss \in SUBSET Suggestions, Receive(r, o, ss)
      PROVE  HeldIsPending'
  BY <1>6 DEF Receive, database
<1>7. CASE FinishAnalysis(r)
  BY <1>7 DEF FinishAnalysis, Hold, database
<1>8. CASE AnalysisFails(r)
  BY <1>8, RaiseHeld DEF AnalysisFails, database
<1>9. CASE Patch(r)
  BY <1>9 DEF Patch, Go, database
<1>10. CASE PatchFails(r)
  BY <1>10, RaiseHeld DEF PatchFails, database
<1>11. CASE CommitFails(r)
  BY <1>11, RaiseHeld DEF CommitFails, database
<1> QED BY <1>1, <1>2, <1>3, <1>4, <1>5, <1>6, <1>7, <1>8, <1>9, <1>10, <1>11

\* A commit puts every other row it changes and somebody holds into overtaken.
LEMMA CommitHeld ==
  ASSUME TypeOK, HeldIsPending, NEW r \in Requests,
         CommitApproval(r) \/ CommitRejection(r)
  PROVE  HeldIsPending'
<1> SUFFICES ASSUME NEW q \in Requests, NEW t \in Suggestions \ overtaken', Holds(q, t)'
             PROVE  status'[t] = "pending"
  BY DEF HeldIsPending
<1>1. q # r
  BY QueueAssumption DEF CommitApproval, CommitRejection, Leave, Hold, Go, Holds,
     TypeOK, RequestsOK
<1>2. Holds(q, t)
  BY <1>1 DEF CommitApproval, CommitRejection, Leave, Hold, Go, Holds, TypeOK, RequestsOK
<1>3. t \notin overtaken
  BY DEF CommitApproval, CommitRejection
<1>4. status[t] = "pending"
  BY <1>2, <1>3 DEF HeldIsPending
<1>5. status'[t] = status[t]
  <2>1. CASE CommitApproval(r)
    BY <1>1, <1>2, <2>1 DEF CommitApproval, Overtakes, Siblings, Pending, TypeOK, DatabaseOK
  <2>2. CASE CommitRejection(r)
    BY <1>1, <1>2, <2>2 DEF CommitRejection, Overtakes, TypeOK, DatabaseOK
  <2> QED BY <2>1, <2>2
<1> QED BY <1>4, <1>5

LEMMA NextHeld == TypeOK /\ HeldIsPending /\ [Next]_vars => HeldIsPending'
<1> SUFFICES ASSUME TypeOK, HeldIsPending, [Next]_vars PROVE HeldIsPending'
  OBVIOUS
<1>1. ASSUME NEW r \in Requests, Step(r) PROVE HeldIsPending'
  BY <1>1, RequestHeld, CommitHeld DEF Step
<1>2. ASSUME NEW s \in Suggestions, Enqueue(s) PROVE HeldIsPending'
  BY <1>2 DEF Enqueue, HeldIsPending, Holds, TypeOK, DatabaseOK, requests, history
<1>3. CASE ResetRejected
  BY <1>3 DEF ResetRejected, HeldIsPending, Holds, TypeOK, DatabaseOK, requests, history
<1>4. CASE Restart
  BY <1>4, QueueAssumption DEF Restart, HeldIsPending, Holds, database
<1>5. CASE UNCHANGED vars
  BY <1>5 DEF vars, HeldIsPending, Holds, database, requests, history
<1> QED BY <1>1, <1>2, <1>3, <1>4, <1>5 DEF Next

LEMMA InitHeld == Init => HeldIsPending
  BY QueueAssumption DEF Init, HeldIsPending, Holds

\* Whatever overlaps, a request about to write a decision holds a pending row,
\* unless the row changed under it.
THEOREM HeldIsPendingHolds == Spec => []HeldIsPending
  BY InitHeld, NextHeld, TypeCorrect, PTL DEF Spec

-----------------------------------------------------------------------------
(* What a step does to a suggestion.                                       *)

\* Suggestion s is decided on, with event e; unless it is overtaken, it was
\* pending.
DecidedOn(s, e) ==
  /\ audit'[s] = Append(audit[s], e)
  /\ status'[s] = IF e = "approved" THEN "approved" ELSE "rejected"
  /\ s \in overtaken' \/ status[s] = "pending"

Moves(s) ==
  \/ status'[s] = status[s] /\ audit'[s] = audit[s]
  \/ status[s] = "new" /\ status'[s] = "pending" /\ audit'[s] = audit[s]
  \/ status[s] = "rejected" /\ status'[s] = "deleted" /\ audit'[s] = audit[s]
  \/ \E e \in Events : DecidedOn(s, e)

LEMMA CommitApprovalMoves ==
  ASSUME TypeOK, HeldIsPending, NEW r \in Requests, CommitApproval(r)
  PROVE  \A s \in Suggestions : Moves(s)
<1> SUFFICES ASSUME NEW s \in Suggestions PROVE Moves(s)
  OBVIOUS
<1>1. cur[r] \in overtaken \/ status[cur[r]] = "pending"
  BY DEF CommitApproval, HeldIsPending, Holds, TypeOK, RequestsOK
<1>2. overtaken \subseteq overtaken'
  BY DEF CommitApproval
<1>3. CASE s = cur[r]
  <2>1. audit'[s] = Append(audit[s], "approved") /\ status'[s] = "approved"
    BY <1>3 DEF CommitApproval, Siblings
  <2>2. DecidedOn(s, "approved")
    BY <1>1, <1>2, <1>3, <2>1 DEF DecidedOn
  <2> QED BY <2>2 DEF Moves, Events
<1>4. CASE s # cur[r] /\ s \in (IF op[r] = "bulk_approve" THEN {} ELSE Siblings(cur[r]))
  <2>1. status[s] = "pending"
    BY <1>4 DEF Siblings, Pending
  <2>2. audit'[s] = Append(audit[s], "superseded") /\ status'[s] = "rejected"
    BY <1>4 DEF CommitApproval
  <2>3. DecidedOn(s, "superseded")
    BY <2>1, <2>2 DEF DecidedOn
  <2> QED BY <2>3 DEF Moves, Events
<1>5. CASE s # cur[r] /\ s \notin (IF op[r] = "bulk_approve" THEN {} ELSE Siblings(cur[r]))
  BY <1>5 DEF CommitApproval, Moves
<1> QED BY <1>3, <1>4, <1>5

LEMMA CommitRejectionMoves ==
  ASSUME TypeOK, HeldIsPending, NEW r \in Requests, CommitRejection(r)
  PROVE  \A s \in Suggestions : Moves(s)
<1> SUFFICES ASSUME NEW s \in Suggestions PROVE Moves(s)
  OBVIOUS
<1>1. cur[r] \in overtaken \/ status[cur[r]] = "pending"
  BY DEF CommitRejection, HeldIsPending, Holds, TypeOK, RequestsOK
<1>2. overtaken \subseteq overtaken'
  BY DEF CommitRejection
<1>3. CASE s = cur[r]
  <2>1. audit'[s] = Append(audit[s], "rejected") /\ status'[s] = "rejected"
    BY <1>3 DEF CommitRejection, TypeOK, DatabaseOK
  <2>2. DecidedOn(s, "rejected")
    BY <1>1, <1>2, <1>3, <2>1 DEF DecidedOn
  <2> QED BY <2>2 DEF Moves, Events
<1>4. CASE s # cur[r]
  BY <1>4 DEF CommitRejection, Moves, TypeOK, DatabaseOK
<1> QED BY <1>3, <1>4

LEMMA NextMoves ==
  ASSUME TypeOK, HeldIsPending, [Next]_vars
  PROVE  \A s \in Suggestions : Moves(s)
<1> USE DEF Moves
<1>1. ASSUME NEW r \in Requests, Step(r) PROVE \A s \in Suggestions : Moves(s)
  <2>1. CASE CommitApproval(r) \/ CommitRejection(r)
    BY <2>1, CommitApprovalMoves, CommitRejectionMoves
  <2>2. CASE \E s \in Suggestions : AutoApply(r, s) \/ EnqueueFresh(r, s)
    BY <2>2 DEF AutoApply, EnqueueFresh, TypeOK, DatabaseOK
  <2>3. CASE \E s \in Suggestions :
               LoadForApproval(r, s) \/ LoadForRejection(r, s) \/ StartAnalysis(r, s)
    BY <2>3 DEF LoadForApproval, LoadForRejection, StartAnalysis, database
  <2>4. CASE \E o \in Ops, ss \in SUBSET Suggestions : Receive(r, o, ss)
    BY <2>4 DEF Receive, database
  <2>5. CASE FinishAnalysis(r) \/ AnalysisFails(r) \/ Patch(r)
    BY <2>5 DEF FinishAnalysis, AnalysisFails, Patch, database
  <2>6. CASE PatchFails(r) \/ CommitFails(r)
    BY <2>6 DEF PatchFails, CommitFails, database
  <2> QED BY <1>1, <2>1, <2>2, <2>3, <2>4, <2>5, <2>6 DEF Step
<1>2. CASE \E s \in Suggestions : Enqueue(s)
  BY <1>2 DEF Enqueue, TypeOK, DatabaseOK
<1>3. CASE ResetRejected
  BY <1>3 DEF ResetRejected
<1>4. CASE Restart \/ UNCHANGED vars
  BY <1>4 DEF Restart, vars, database
<1> QED BY <1>1, <1>2, <1>3, <1>4 DEF Next

-----------------------------------------------------------------------------
(* The audit log and the dismissals.                                       *)

LEMMA NextAudit ==
  TypeOK /\ HeldIsPending /\ AuditTellsStatus /\ [Next]_vars => AuditTellsStatus'
<1> SUFFICES ASSUME TypeOK, HeldIsPending, AuditTellsStatus, [Next]_vars,
                    NEW s \in Suggestions
             PROVE  AuditOK(s)'
  BY DEF AuditTellsStatus
<1>1. overtaken \subseteq overtaken'
  BY OvertakenGrows
<1>2. audit[s] \in Seq(Events) /\ Len(audit[s]) \in Nat
  BY DEF TypeOK, DatabaseOK
<1>3. AuditOK(s)
  BY DEF AuditTellsStatus
<1>4. CASE \E e \in Events : DecidedOn(s, e)
  <2>1. PICK e \in Events : DecidedOn(s, e)
    BY <1>4
  <2>2. /\ Len(audit'[s]) = Len(audit[s]) + 1
        /\ audit'[s][Len(audit[s]) + 1] = e
    BY <1>2, <2>1 DEF DecidedOn
  <2> QED BY <1>1, <1>2, <1>3, <2>1, <2>2 DEF AuditOK, DecidedOn, Events
<1>5. CASE audit'[s] = audit[s]
  <2>1. \/ status'[s] = status[s]
        \/ status[s] = "new" /\ status'[s] = "pending"
        \/ status[s] = "rejected" /\ status'[s] = "deleted"
        \/ \E e \in Events : DecidedOn(s, e)
    BY NextMoves DEF Moves
  <2> QED BY <1>1, <1>2, <1>3, <1>4, <1>5, <2>1 DEF AuditOK
<1> QED BY <1>4, <1>5, NextMoves DEF Moves

LEMMA InitAudit == Init => AuditTellsStatus
<1> SUFFICES ASSUME Init, NEW s \in Suggestions PROVE AuditOK(s)
  BY DEF AuditTellsStatus
<1>1. audit[s] = <<>> /\ status[s] = "new"
  BY Zenon DEF Init
<1>2. Len(<<>>) = 0
  OBVIOUS
<1>3. Len(audit[s]) = 0
  BY Zenon, <1>1, <1>2
<1> QED BY <1>1, <1>3 DEF AuditOK

\* The audit log of a suggestion and its status never part.
THEOREM AuditTellsStatusHolds == Spec => []AuditTellsStatus
  BY InitAudit, NextAudit, TypeCorrect, HeldIsPendingHolds, PTL DEF Spec

\* Only a rejection makes a dismissal.
LEMMA NewDismissal ==
  ASSUME TypeOK, [Next]_vars, NEW s \in dismissed' \ dismissed
  PROVE  audit'[s] = Append(audit[s], "rejected")
<1>1. ASSUME NEW r \in Requests, Step(r)
      PROVE  CommitRejection(r) /\ s = cur[r]
  <2>1. CASE CommitRejection(r)
    BY <2>1 DEF CommitRejection, NewDismissals
  <2>2. CASE CommitApproval(r)
    BY <2>2 DEF CommitApproval
  <2>3. CASE \E t \in Suggestions : AutoApply(r, t) \/ EnqueueFresh(r, t)
    BY <2>3 DEF AutoApply, EnqueueFresh
  <2>4. CASE \E t \in Suggestions :
               LoadForApproval(r, t) \/ LoadForRejection(r, t) \/ StartAnalysis(r, t)
    BY <2>4 DEF LoadForApproval, LoadForRejection, StartAnalysis, database
  <2>5. CASE \E o \in Ops, ss \in SUBSET Suggestions : Receive(r, o, ss)
    BY <2>5 DEF Receive, database
  <2>6. CASE FinishAnalysis(r) \/ AnalysisFails(r) \/ Patch(r)
    BY <2>6 DEF FinishAnalysis, AnalysisFails, Patch, database
  <2>7. CASE PatchFails(r) \/ CommitFails(r)
    BY <2>7 DEF PatchFails, CommitFails, database
  <2> QED BY <1>1, <2>1, <2>2, <2>3, <2>4, <2>5, <2>6, <2>7 DEF Step
<1>2. ~ \/ ResetRejected \/ Restart \/ UNCHANGED vars
        \/ \E t \in Suggestions : Enqueue(t)
  BY DEF ResetRejected, Restart, vars, database, Enqueue
<1>3. PICK r \in Requests : Step(r)
  BY <1>2 DEF Next
<1>4. CommitRejection(r) /\ s = cur[r]
  BY <1>1, <1>3
<1> QED BY <1>4 DEF CommitRejection, TypeOK, DatabaseOK, RequestsOK

LEMMA AppendEmpty == Append(<<>>, "rejected") = <<"rejected">>
  OBVIOUS

LEMMA NextDismissal ==
  /\ TypeOK /\ HeldIsPending /\ AuditTellsStatus /\ DismissalIsJudgment
  /\ [Next]_vars
  => DismissalIsJudgment'
<1> SUFFICES ASSUME TypeOK, HeldIsPending, AuditTellsStatus, DismissalIsJudgment,
                    [Next]_vars, NEW s \in dismissed' \ overtaken'
             PROVE  audit'[s] = <<"rejected">>
  BY DEF DismissalIsJudgment
<1>1. s \in Suggestions /\ s \notin overtaken
  BY NextType, QueueAssumption, OvertakenGrows DEF TypeOK, DatabaseOK
<1>2. audit[s] \in Seq(Events)
  BY <1>1 DEF TypeOK, DatabaseOK
<1>3. status[s] = "pending" => audit[s] = <<>>
  BY <1>1, <1>2 DEF AuditTellsStatus, AuditOK
<1>4. CASE s \in dismissed
  <2>1. audit[s] = <<"rejected">>
    BY <1>1, <1>4 DEF DismissalIsJudgment
  <2>2. ~ \E e \in Events : DecidedOn(s, e)
    BY <1>3, <2>1 DEF DecidedOn
  <2> QED BY <1>1, <2>1, <2>2, NextMoves DEF Moves
<1>5. CASE s \notin dismissed
  <2>1. audit'[s] = Append(audit[s], "rejected")
    BY <1>5, NewDismissal
  <2>2. audit'[s] # audit[s]
    BY <1>2, <2>1
  <2>3. status[s] = "pending"
    BY <1>1, <2>2, NextMoves DEF Moves, DecidedOn
  <2> QED BY <1>3, <2>1, <2>3, AppendEmpty
<1> QED BY <1>4, <1>5

LEMMA InitDismissal == Init => DismissalIsJudgment
  BY DEF Init, DismissalIsJudgment

\* A dismissal stands for a rejection, and for nothing else.
THEOREM DismissalIsJudgmentHolds == Spec => []DismissalIsJudgment
  BY InitDismissal, NextDismissal, TypeCorrect, HeldIsPendingHolds,
     AuditTellsStatusHolds, PTL DEF Spec

-----------------------------------------------------------------------------
(* The queue and Paperless.                                                *)

\* A request commits an approval only after its PATCH.
AppliedIsPatched == \A r \in Requests : pc[r] = "applied" => cur[r] \in patches

AppliedInv == ApprovedWasApplied /\ AppliedIsPatched

\* A request that leaves its suggestion has nothing applied, others go on.
LEMMA LeaveApplied ==
  ASSUME RequestsOK, NEW r \in Requests, NEW ss, Leave(r, ss)
  PROVE  \A q \in Requests : pc'[q] = "applied" => q # r /\ pc[q] = "applied" /\ cur'[q] = cur[q]
  BY DEF RequestsOK, Leave, Hold

LEMMA RaiseApplied ==
  ASSUME RequestsOK, NEW r \in Requests, Raise(r)
  PROVE  \A q \in Requests : pc'[q] = "applied" => q # r /\ pc[q] = "applied" /\ cur'[q] = cur[q]
<1>1. PICK ss : Leave(r, ss)
  BY DEF Raise
<1> QED BY <1>1, LeaveApplied

\* What the steps of a request that read, wait or give up do to approvals: none
\* is new, and each that is applied was applied before.
LEMMA RequestApplied ==
  ASSUME TypeOK, NEW r \in Requests,
         \/ \E s \in Suggestions :
              \/ AutoApply(r, s) \/ EnqueueFresh(r, s)
              \/ LoadForApproval(r, s) \/ LoadForRejection(r, s) \/ StartAnalysis(r, s)
         \/ \E o \in Ops, ss \in SUBSET Suggestions : Receive(r, o, ss)
         \/ FinishAnalysis(r) \/ AnalysisFails(r)
  PROVE  /\ \A q \in Requests : pc'[q] = "applied" => pc[q] = "applied" /\ cur'[q] = cur[q]
         /\ \A q \in Requests : pc[q] = "applied" => pc'[q] = "applied" /\ cur'[q] = cur[q]
         /\ \A t \in Suggestions : status'[t] = "approved" <=> status[t] = "approved"
         /\ UNCHANGED <<paperless, history>>
<1> DEFINE Same == /\ \A q \in Requests : pc'[q] = "applied" => pc[q] = "applied" /\ cur'[q] = cur[q]
                   /\ \A q \in Requests : pc[q] = "applied" => pc'[q] = "applied" /\ cur'[q] = cur[q]
                   /\ \A t \in Suggestions : status'[t] = "approved" <=> status[t] = "approved"
                   /\ UNCHANGED <<paperless, history>>
<1> USE DEF TypeOK, RequestsOK, DatabaseOK, paperless, history
<1>1. ASSUME NEW s \in Suggestions, AutoApply(r, s) PROVE Same
  BY <1>1 DEF AutoApply
<1>2. ASSUME NEW s \in Suggestions, EnqueueFresh(r, s) PROVE Same
  BY <1>2 DEF EnqueueFresh, Leave, Hold
<1>3. ASSUME NEW s \in Suggestions, LoadForApproval(r, s) PROVE Same
  <2>1. CASE status[s] = "pending"
    BY <1>3, <2>1 DEF LoadForApproval, Hold, database
  <2>2. CASE status[s] # "pending"
    BY <1>3, <2>2 DEF LoadForApproval, Raise, Leave, Hold, database
  <2> QED BY <2>1, <2>2
<1>4. ASSUME NEW s \in Suggestions, LoadForRejection(r, s) PROVE Same
  BY <1>4 DEF LoadForRejection, Leave, Hold, database
<1>5. ASSUME NEW s \in Suggestions, StartAnalysis(r, s) PROVE Same
  BY <1>5 DEF StartAnalysis, Leave, Hold, database
<1>6. ASSUME NEW o \in Ops, NEW ss \in SUBSET Suggestions, Receive(r, o, ss) PROVE Same
  BY <1>6 DEF Receive, database
<1>7. CASE FinishAnalysis(r)
  BY <1>7 DEF FinishAnalysis, Hold, database
<1>8. CASE AnalysisFails(r)
  BY <1>8 DEF AnalysisFails, Raise, Leave, Hold, database
<1> QED BY <1>1, <1>2, <1>3, <1>4, <1>5, <1>6, <1>7, <1>8

LEMMA NextApplied == TypeOK /\ AppliedInv /\ [Next]_vars => AppliedInv'
<1> SUFFICES ASSUME TypeOK, AppliedInv, [Next]_vars PROVE AppliedInv'
  OBVIOUS
<1> USE DEF AppliedInv, ApprovedWasApplied, AppliedIsPatched
<1>1. ASSUME NEW r \in Requests, Step(r) PROVE AppliedInv'
  <2>0. RequestsOK /\ DatabaseOK
    BY DEF TypeOK
  <2>1. CASE \/ \E s \in Suggestions :
                  \/ AutoApply(r, s) \/ EnqueueFresh(r, s)
                  \/ LoadForApproval(r, s) \/ LoadForRejection(r, s) \/ StartAnalysis(r, s)
             \/ \E o \in Ops, ss \in SUBSET Suggestions : Receive(r, o, ss)
             \/ FinishAnalysis(r) \/ AnalysisFails(r)
    BY <2>1, RequestApplied DEF paperless
  <2>2. CASE Patch(r)
    BY <2>0, <2>2 DEF Patch, Apply, Go, RequestsOK, database
  <2>3. CASE PatchFails(r)
    BY <2>0, <2>3, RaiseApplied DEF PatchFails, Apply, database, paperless
  <2>4. CASE CommitApproval(r)
    <3>1. \A t \in Suggestions : status'[t] = "approved" => t = cur[r] \/ status[t] = "approved"
      BY <2>4 DEF CommitApproval
    <3> QED BY <2>0, <2>4, <3>1, LeaveApplied DEF CommitApproval, paperless
  <2>5. CASE CommitRejection(r)
    <3>1. \A t \in Suggestions : status'[t] = "approved" => status[t] = "approved"
      BY <2>0, <2>5 DEF CommitRejection, DatabaseOK
    <3>2. \A q \in Requests : pc'[q] = "applied" => pc[q] = "applied" /\ cur'[q] = cur[q]
      BY <2>0, <2>5, LeaveApplied DEF CommitRejection, Go, RequestsOK
    <3> QED BY <2>5, <3>1, <3>2 DEF CommitRejection, paperless
  <2>6. CASE CommitFails(r)
    BY <2>0, <2>6, RaiseApplied DEF CommitFails, database, paperless
  <2> QED BY <1>1, <2>1, <2>2, <2>3, <2>4, <2>5, <2>6 DEF Step
<1>2. CASE \E s \in Suggestions : Enqueue(s)
  BY <1>2 DEF Enqueue, TypeOK, DatabaseOK, paperless, requests
<1>3. CASE ResetRejected
  BY <1>3 DEF ResetRejected, TypeOK, DatabaseOK, paperless, requests
<1>4. CASE Restart
  BY <1>4 DEF Restart, database, paperless
<1>5. CASE UNCHANGED vars
  BY <1>5 DEF vars, database, paperless, requests
<1> QED BY <1>1, <1>2, <1>3, <1>4, <1>5 DEF Next

LEMMA InitApplied == Init => AppliedInv
  BY DEF Init, AppliedInv, ApprovedWasApplied, AppliedIsPatched

\* The queue never says "approved" of values that Paperless did not get.
THEOREM ApprovedWasAppliedHolds == Spec => []ApprovedWasApplied
<1>1. Spec => []AppliedInv
  BY InitApplied, NextApplied, TypeCorrect, PTL DEF Spec
<1>2. AppliedInv => ApprovedWasApplied
  BY DEF AppliedInv
<1> QED BY <1>1, <1>2, PTL

\* The values a document got last are approved, or about to be.
Accounted(s) ==
  \/ s \in {NoSuggestion} \cup overtaken \cup cutShort
  \/ status[s] = "approved"
  \/ \E r \in Requests : pc[r] = "applied" /\ cur[r] = s

LEMMA StepLatest ==
  ASSUME TypeOK, HeldIsPending, NEW r \in Requests, Step(r), NEW d \in Docs,
         Accounted(latest[d])
  PROVE  Accounted(latest[d])' \/ latest'[d] # latest[d]
<1> SUFFICES ASSUME latest'[d] = latest[d] PROVE Accounted(latest[d])'
  OBVIOUS
<1> DEFINE s == latest[d]
<1>0. RequestsOK /\ DatabaseOK /\ s \in Suggestions \cup {NoSuggestion}
  BY DEF TypeOK, PaperlessOK
<1>1. CASE \/ \E t \in Suggestions :
                \/ AutoApply(r, t) \/ EnqueueFresh(r, t)
                \/ LoadForApproval(r, t) \/ LoadForRejection(r, t) \/ StartAnalysis(r, t)
           \/ \E o \in Ops, ss \in SUBSET Suggestions : Receive(r, o, ss)
           \/ FinishAnalysis(r) \/ AnalysisFails(r)
  BY <1>0, <1>1, RequestApplied DEF Accounted, history
<1>2. CASE Patch(r)
  BY <1>0, <1>2 DEF Accounted, Patch, Go, RequestsOK, database, history
<1>3. CASE PatchFails(r)
  <2>1. \A q \in Requests : pc[q] = "applied" => pc'[q] = "applied" /\ cur'[q] = cur[q]
    BY <1>0, <1>3 DEF PatchFails, Raise, Leave, Hold, RequestsOK
  <2> QED BY <1>3, <2>1 DEF Accounted, PatchFails, database
<1>4. CASE CommitApproval(r)
  <2>1. \A q \in Requests \ {r} : pc[q] = "applied" => pc'[q] = "applied" /\ cur'[q] = cur[q]
    BY <1>0, <1>4 DEF CommitApproval, Leave, Hold, RequestsOK
  <2>2. status'[cur[r]] = "approved"
    BY <1>0, <1>4 DEF CommitApproval, Siblings, RequestsOK
  <2>3. s \in Suggestions /\ status[s] = "approved" => status'[s] = "approved"
    BY <1>4 DEF CommitApproval, Siblings, Pending
  <2> QED BY <1>0, <1>4, <2>1, <2>2, <2>3 DEF Accounted, CommitApproval
<1>5. CASE CommitRejection(r)
  <2>1. \A q \in Requests : pc[q] = "applied" => pc'[q] = "applied" /\ cur'[q] = cur[q]
    BY <1>0, <1>5 DEF CommitRejection, Leave, Hold, Go, RequestsOK
  <2>2. cur[r] \in Suggestions \ overtaken => status[cur[r]] = "pending"
    BY <1>5, <1>0 DEF CommitRejection, HeldIsPending, Holds, RequestsOK
  <2>3. s \in Suggestions \ overtaken /\ status[s] = "approved" => status'[s] = "approved"
    BY <1>0, <1>5, <2>2 DEF CommitRejection, DatabaseOK
  <2> QED BY <1>0, <1>5, <2>1, <2>3 DEF Accounted, CommitRejection
<1>6. CASE CommitFails(r)
  <2>1. \A q \in Requests \ {r} : pc[q] = "applied" => pc'[q] = "applied" /\ cur'[q] = cur[q]
    BY <1>0, <1>6 DEF CommitFails, Raise, Leave, Hold, RequestsOK
  <2> QED BY <1>6, <2>1 DEF Accounted, CommitFails, database
<1> QED BY <1>1, <1>2, <1>3, <1>4, <1>5, <1>6 DEF Step

\* A PATCH makes the last values of a document those of a suggestion in flight, or
\* of one whose approval was cut short.
LEMMA StepPatched ==
  ASSUME TypeOK, NEW r \in Requests, Step(r), NEW d \in Docs, latest'[d] # latest[d]
  PROVE  Accounted(latest[d])'
<1>0. RequestsOK /\ PaperlessOK
  BY DEF TypeOK
<1>1. CASE Patch(r)
  BY <1>0, <1>1, QueueAssumption DEF Patch, Apply, Go, RequestsOK, PaperlessOK, Accounted
<1>2. CASE PatchFails(r)
  <2>1. latest' = [latest EXCEPT ![DocOf[cur[r]]] = cur[r]] /\ cutShort' = cutShort \cup {cur[r]}
    BY <1>2 DEF PatchFails, Apply, paperless
  <2>2. latest'[d] = cur[r]
    BY <1>0, <2>1 DEF PaperlessOK
  <2> QED BY <2>1, <2>2 DEF Accounted
<1>3. CASE ~(Patch(r) \/ PatchFails(r))
  <2>1. UNCHANGED latest
    <3>1. CASE CommitApproval(r) \/ CommitRejection(r) \/ CommitFails(r)
      BY <3>1 DEF CommitApproval, CommitRejection, CommitFails, paperless
    <3> QED BY <1>3, <3>1, RequestApplied DEF Step, paperless
  <2> QED BY <2>1
<1> QED BY <1>1, <1>2, <1>3

LEMMA NextLatest ==
  TypeOK /\ HeldIsPending /\ LatestIsApproved /\ [Next]_vars => LatestIsApproved'
<1> SUFFICES ASSUME TypeOK, HeldIsPending, LatestIsApproved, [Next]_vars,
                    NEW d \in Docs
             PROVE  Accounted(latest[d])'
  BY DEF LatestIsApproved, Accounted
<1>1. Accounted(latest[d])
  BY DEF LatestIsApproved, Accounted
<1>2. latest[d] \in Suggestions \cup {NoSuggestion}
  BY DEF TypeOK, PaperlessOK
<1>3. ASSUME NEW r \in Requests, Step(r) PROVE Accounted(latest[d])'
  BY <1>1, <1>3, StepLatest, StepPatched
<1>4. CASE \E s \in Suggestions : Enqueue(s)
  BY <1>1, <1>2, <1>4 DEF Enqueue, Accounted, TypeOK, DatabaseOK, paperless, requests, history
<1>5. CASE ResetRejected
  BY <1>1, <1>2, <1>5 DEF ResetRejected, Accounted, paperless, requests, history
<1>6. CASE Restart
  BY <1>1, <1>2, <1>6 DEF Restart, Accounted, database, paperless
<1>7. CASE UNCHANGED vars
  BY <1>1, <1>7 DEF vars, Accounted, database, paperless, requests, history
<1> QED BY <1>3, <1>4, <1>5, <1>6, <1>7 DEF Next

LEMMA InitLatest == Init => LatestIsApproved
  BY DEF Init, LatestIsApproved

\* What a document got last is approved, unless its approval was cut short or
\* another request decided at the same time.
THEOREM LatestIsApprovedHolds == Spec => []LatestIsApproved
  BY InitLatest, NextLatest, TypeCorrect, HeldIsPendingHolds, PTL DEF Spec

-----------------------------------------------------------------------------
(* The life cycle of a suggestion.                                         *)

\* A step that changes no status and leaves overtaken alone is none of the life
\* cycle's.
LEMMA SamePhase ==
  ASSUME status' = status, overtaken' = overtaken
  PROVE  phase' = phase
  BY DEF phase

LEMMA SubmitPhase ==
  ASSUME TypeOK, NEW s \in Suggestions, status[s] = "new",
         status' = [status EXCEPT ![s] = "pending"], overtaken' = overtaken
  PROVE  Lifecycle!Next \/ phase' = phase
<1>1. CASE s \in overtaken
  BY <1>1 DEF phase, TypeOK, DatabaseOK
<1>2. CASE s \notin overtaken
  <2>1. phase[s] = "new" /\ phase' = [phase EXCEPT ![s] = "pending"]
    BY <1>2 DEF phase, TypeOK, DatabaseOK
  <2> QED BY <2>1 DEF Lifecycle!Next, Lifecycle!Submit
<1> QED BY <1>1, <1>2

\* Request r approves yes, which is its suggestion or nothing, and rejects no.
Commits(r, yes, no) ==
  /\ cur[r] \in Suggestions
  /\ cur[r] \in overtaken \/ status[cur[r]] = "pending"
  /\ yes \subseteq {cur[r]}
  /\ no \subseteq {cur[r]} \cup Siblings(cur[r])
  /\ yes \cap no = {}
  /\ status' = [t \in Suggestions |-> IF t \in yes THEN "approved"
                                      ELSE IF t \in no THEN "rejected" ELSE status[t]]
  /\ overtaken' = overtaken \cup Overtakes(r, yes \cup no)

\* That is one decision on one document.
LEMMA CommitPhase ==
  ASSUME NEW r \in Requests, NEW yes, NEW no, Commits(r, yes, no)
  PROVE  Lifecycle!Next
<1> USE DEF Commits
<1> DEFINE d == DocOf[cur[r]]
           lost == Overtakes(r, yes \cup no) \ overtaken
           y == yes \ overtaken
           n == no \ overtaken
<1>1. d \in Docs
  BY QueueAssumption
<1>2. y \cup n \cup lost \subseteq {t \in Lifecycle!In("pending") : DocOf[t] = d}
  <2> SUFFICES ASSUME NEW t \in (yes \cup no) \ overtaken
               PROVE  t \in Suggestions /\ phase[t] = "pending" /\ DocOf[t] = d
    BY DEF Lifecycle!In, Overtakes
  <2> QED BY DEF phase, Siblings, Pending
<1>3. phase' = [t \in Suggestions |->
                  CASE t \in lost -> "contested"
                    [] t \in y \ lost -> "approved"
                    [] t \in n \ (y \cup lost) -> "rejected"
                    [] OTHER -> phase[t]]
  <2> SUFFICES ASSUME NEW t \in Suggestions
               PROVE  (IF t \in overtaken' THEN "contested" ELSE status'[t])
                        = CASE t \in lost -> "contested"
                            [] t \in y \ lost -> "approved"
                            [] t \in n \ (y \cup lost) -> "rejected"
                            [] OTHER -> phase[t]
    BY DEF phase
  <2>1. CASE t \in overtaken
    BY <2>1 DEF phase
  <2>2. CASE t \in lost
    BY <2>2
  <2>3. CASE t \notin overtaken \cup lost
    BY <2>3 DEF phase
  <2> QED BY <2>1, <2>2, <2>3
<1>4. y \in SUBSET Suggestions /\ n \in SUBSET Suggestions /\ lost \in SUBSET Suggestions
  BY DEF Siblings, Pending, Overtakes
<1>5. \A s, t \in y : s = t
  OBVIOUS
<1>6. Lifecycle!Decide(d, y, n, lost)
  BY <1>2, <1>3, <1>5 DEF Lifecycle!Decide
<1> QED BY <1>1, <1>4, <1>6 DEF Lifecycle!Next

LEMMA LifecycleStep ==
  TypeOK /\ HeldIsPending /\ [Next]_vars => Lifecycle!Next \/ phase' = phase
<1> SUFFICES ASSUME TypeOK, HeldIsPending, [Next]_vars
             PROVE  Lifecycle!Next \/ phase' = phase
  OBVIOUS
<1>1. ASSUME NEW r \in Requests, Step(r) PROVE Lifecycle!Next \/ phase' = phase
  <2>1. CASE CommitApproval(r)
    <3> DEFINE others == IF op[r] = "bulk_approve" THEN {} ELSE Siblings(cur[r])
    <3>1. cur[r] \in Suggestions /\ (cur[r] \in overtaken \/ status[cur[r]] = "pending")
      BY <2>1 DEF CommitApproval, HeldIsPending, Holds, TypeOK, RequestsOK
    <3>2. others \subseteq Siblings(cur[r]) /\ cur[r] \notin others
      BY DEF Siblings
    <3>3. status' = [t \in Suggestions |-> IF t \in {cur[r]} THEN "approved"
                                           ELSE IF t \in others THEN "rejected" ELSE status[t]]
      BY <2>1, <3>2 DEF CommitApproval
    <3>4. overtaken' = overtaken \cup Overtakes(r, {cur[r]} \cup others)
      BY <2>1 DEF CommitApproval, Overtakes
    <3>5. Commits(r, {cur[r]}, others)
      BY <3>1, <3>2, <3>3, <3>4 DEF Commits
    <3> QED BY <3>5, CommitPhase
  <2>2. CASE CommitRejection(r)
    <3>1. cur[r] \in Suggestions /\ (cur[r] \in overtaken \/ status[cur[r]] = "pending")
      BY <2>2 DEF CommitRejection, HeldIsPending, Holds, TypeOK, RequestsOK
    <3>2. status' = [t \in Suggestions |-> IF t \in {} THEN "approved"
                                           ELSE IF t \in {cur[r]} THEN "rejected" ELSE status[t]]
      BY <2>2, <3>1 DEF CommitRejection, TypeOK, DatabaseOK
    <3>3. overtaken' = overtaken \cup Overtakes(r, {} \cup {cur[r]})
      BY <2>2 DEF CommitRejection, Overtakes
    <3>4. Commits(r, {}, {cur[r]})
      BY <3>1, <3>2, <3>3 DEF Commits
    <3> QED BY <3>4, CommitPhase
  <2>3. CASE \E s \in Suggestions : AutoApply(r, s) \/ EnqueueFresh(r, s)
    BY <2>3, SubmitPhase DEF AutoApply, EnqueueFresh, history
  <2>4. CASE \E s \in Suggestions :
               LoadForApproval(r, s) \/ LoadForRejection(r, s) \/ StartAnalysis(r, s)
    BY <2>4, SamePhase DEF LoadForApproval, LoadForRejection, StartAnalysis, database, history
  <2>5. CASE \E o \in Ops, ss \in SUBSET Suggestions : Receive(r, o, ss)
    BY <2>5, SamePhase DEF Receive, database, history
  <2>6. CASE FinishAnalysis(r) \/ AnalysisFails(r) \/ Patch(r)
    BY <2>6, SamePhase DEF FinishAnalysis, AnalysisFails, Patch, database, history
  <2>7. CASE PatchFails(r) \/ CommitFails(r)
    BY <2>7, SamePhase DEF PatchFails, CommitFails, database
  <2> QED BY <1>1, <2>1, <2>2, <2>3, <2>4, <2>5, <2>6, <2>7 DEF Step
<1>2. CASE \E s \in Suggestions : Enqueue(s)
  BY <1>2, SubmitPhase DEF Enqueue, history
<1>3. CASE ResetRejected
  <2>1. phase' = [s \in Suggestions |-> IF phase[s] = "rejected" THEN "deleted" ELSE phase[s]]
    BY <1>3 DEF ResetRejected, phase, history
  <2> QED BY <2>1 DEF Lifecycle!Next, Lifecycle!Clear
<1>4. CASE Restart \/ UNCHANGED vars
  BY <1>4, SamePhase DEF Restart, vars, database, history
<1> QED BY <1>1, <1>2, <1>3, <1>4 DEF Next

LEMMA LifecycleInit == Init => Lifecycle!Init
<1> SUFFICES ASSUME Init PROVE phase = [s \in Suggestions |-> "new"]
  BY DEF Lifecycle!Init
<1>1. status = [s \in Suggestions |-> "new"] /\ overtaken = {}
  BY Zenon DEF Init
<1> QED BY <1>1 DEF phase

\* The queue implements the life cycle: an uncontested suggestion is decided once
\* and an approval is final, for any overlap of requests, failures and restarts.
THEOREM ImplementsLifecycle == Spec => LifecycleSpec
<1>1. TypeOK /\ HeldIsPending /\ [Next]_vars => [Lifecycle!Next]_phase
  BY LifecycleStep
<1> QED BY <1>1, LifecycleInit, TypeCorrect, HeldIsPendingHolds, PTL
       DEF Spec, LifecycleSpec, Lifecycle!Spec
=============================================================================
