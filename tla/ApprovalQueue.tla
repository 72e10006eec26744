---------------------------- MODULE ApprovalQueue ---------------------------
(***************************************************************************)
(* The approval queue (backend/approval_queue.py and the routes of         *)
(* backend/main.py:120-188, 1642-1949): rows of suggestions that requests  *)
(* approve, reject, swap for a fresh analysis and clear.                   *)
(*                                                                         *)
(* A request reads a row, checks its status, awaits (the PATCH of the      *)
(* document, the analysis), and writes the status it decided on: nothing   *)
(* compares the row with the database again.  SQLAlchemy returns the row a *)
(* session still holds without reading it anew, and a SELECT on SQLite     *)
(* opens no transaction, so every commit of another request may fall in    *)
(* between.                                                                *)
(***************************************************************************)
EXTENDS Integers, Sequences

CONSTANTS
  Suggestions,   \* suggestion ids (UUIDs)
  Docs,          \* documents
  DocOf,         \* the document a suggestion is about
  Grooming,      \* suggestions made by the grooming scan
  Requests,      \* requests and background tasks that decide
  Ops,           \* the operations they carry out
  NoSuggestion,
  Failures,      \* subset of {"patch", "answer", "analysis", "commit"}
  MaxRestarts    \* bound: restarts of the application

Approving == {"approve", "bulk_approve", "auto_apply"}
Judging   == {"reject", "bulk_reject"}
Rejecting == Judging \cup {"empty"}
Swapping  == {"reanalyze", "reanalyze_all"}

ASSUME QueueAssumption ==
  /\ DocOf \in [Suggestions -> Docs]
  /\ Grooming \subseteq Suggestions
  /\ Ops \subseteq Approving \cup Rejecting \cup Swapping
  /\ NoSuggestion \notin Suggestions
  /\ Failures \subseteq {"patch", "answer", "analysis", "commit"}
  /\ MaxRestarts \in Nat

Statuses == {"new", "pending", "approved", "rejected", "deleted"}
Events   == {"approved", "rejected", "superseded"}

VARIABLES
  \* the database
  status,     \* status of a suggestion; "new": not inserted yet
  audit,      \* the decision events of its audit log, in order
  dismissed,  \* grooming suggestions with dismissal rows
  \* Paperless
  patches,    \* has a PATCH with the values of a suggestion been applied?
  latest,     \* the suggestion whose values a document got last
  \* requests
  pc, op,
  todo,       \* suggestions still to be decided on
  cur,        \* the one at hand
  row,        \* status of its row as the session read it
  restarts,
  \* history, read by no action
  overtaken,  \* suggestions whose row changed while another request held it
  cutShort    \* suggestions applied whose approval was not committed

database == <<status, audit, dismissed>>
paperless == <<patches, latest>>
requests == <<pc, op, todo, cur, row>>
history  == <<overtaken, cutShort>>
vars == <<database, paperless, requests, restarts, history>>

-----------------------------------------------------------------------------
\* Request r is about to write a decision on s from the row it holds.
Holds(r, s) ==
  /\ cur[r] = s /\ row[r] = "pending"
  /\ \/ pc[r] \in {"decide", "applied"}
     \/ pc[r] = "analyze" /\ op[r] = "reanalyze"

\* Suggestions of changed that a request other than r holds.
Overtakes(r, changed) ==
  {s \in changed : \E q \in Requests \ {r} : Holds(q, s)}

Pending == {s \in Suggestions : status[s] = "pending"}

\* Mutant of Siblings: the query forgets the condition on the status.
SiblingsDecided(s) ==
  {t \in Suggestions \ {s} : DocOf[t] = DocOf[s] /\ status[t] \in {"pending", "approved"}}

\* The pending suggestions an approval of s rejects.
Siblings(s) == {t \in Pending \ {s} : DocOf[t] = DocOf[s]}

\* Request r goes over to phase p with the suggestion it has.
Go(r, p) == pc' = [pc EXCEPT ![r] = p] /\ UNCHANGED <<op, todo, cur, row>>

\* Request r holds suggestion s, read as st, in phase p, and keeps the list ss.
Hold(r, p, s, st, ss) ==
  /\ pc' = [pc EXCEPT ![r] = p]
  /\ cur' = [cur EXCEPT ![r] = s]
  /\ row' = [row EXCEPT ![r] = st]
  /\ todo' = [todo EXCEPT ![r] = ss]
  /\ UNCHANGED op

\* Request r is done with its suggestion and keeps the list ss.
Leave(r, ss) == Hold(r, IF ss = {} THEN "idle" ELSE "next", NoSuggestion, "new", ss)

\* An exception ends the request; the loop over all pending ones catches it.
Raise(r) == Leave(r, IF op[r] = "reanalyze_all" THEN todo[r] ELSE {})

Init ==
  /\ status = [s \in Suggestions |-> "new"]
  /\ audit = [s \in Suggestions |-> <<>>]
  /\ dismissed = {}
  /\ patches = {}
  /\ latest = [d \in Docs |-> NoSuggestion]
  /\ pc = [r \in Requests |-> "idle"]
  /\ op = [r \in Requests |-> "reject"]
  /\ todo = [r \in Requests |-> {}]
  /\ cur = [r \in Requests |-> NoSuggestion]
  /\ row = [r \in Requests |-> "new"]
  /\ restarts = 0
  /\ overtaken = {} /\ cutShort = {}

-----------------------------------------------------------------------------
(* Requests.                                                               *)

\* enqueue: inserts a row; an existing one is returned as it is.
Enqueue(s) ==
  /\ status[s] = "new"
  /\ status' = [status EXCEPT ![s] = "pending"]
  /\ UNCHANGED <<audit, dismissed, paperless, requests, restarts, history>>

\* A route is called, for one suggestion, a list of them, or all pending ones.
Receive(r, o, ss) ==
  /\ pc[r] = "idle" /\ o \in Ops \ {"auto_apply"}
  /\ ss # {} /\ \A s \in ss : status[s] # "new"
  /\ o \in {"approve", "reject", "reanalyze"} => \A s, t \in ss : s = t
  /\ o \in {"empty", "reanalyze_all"} => ss = Pending
  /\ pc' = [pc EXCEPT ![r] = "next"]
  /\ op' = [op EXCEPT ![r] = o]
  /\ todo' = [todo EXCEPT ![r] = ss]
  /\ UNCHANGED <<cur, row, database, paperless, restarts, history>>

\* submit_for_analysis with auto_apply: enqueue, then approve at once.
AutoApply(r, s) ==
  /\ pc[r] = "idle" /\ "auto_apply" \in Ops
  /\ status[s] = "new"
  /\ status' = [status EXCEPT ![s] = "pending"]
  /\ pc' = [pc EXCEPT ![r] = "next"]
  /\ op' = [op EXCEPT ![r] = "auto_apply"]
  /\ todo' = [todo EXCEPT ![r] = {s}]
  /\ UNCHANGED <<cur, row, audit, dismissed, paperless, restarts, history>>

\* approve reads the row: anything but a pending one is a ValueError.
LoadForApproval(r, s) ==
  /\ op[r] \in Approving /\ pc[r] = "next" /\ s \in todo[r]
  /\ IF status[s] = "pending" THEN Hold(r, "decide", s, "pending", todo[r] \ {s})
                              ELSE Raise(r)
  /\ UNCHANGED <<database, paperless, restarts, history>>

\* Mutant of LoadForRejection: an approved suggestion may be rejected.
LoadForRejectionUnchecked(r, s) ==
  /\ op[r] \in Rejecting /\ pc[r] = "next" /\ s \in todo[r]
  /\ status[s] \in {"pending", "approved"}
  /\ Hold(r, "decide", s, "pending", todo[r] \ {s})
  /\ UNCHANGED <<database, paperless, restarts, history>>

\* reject reads the row: a rejected one is left alone, an approved or a deleted
\* one is a ValueError, which only the emptying of the queue ignores.
LoadForRejection(r, s) ==
  /\ op[r] \in Rejecting /\ pc[r] = "next" /\ s \in todo[r]
  /\ \/ status[s] = "pending" /\ Hold(r, "decide", s, "pending", todo[r] \ {s})
     \/ status[s] = "rejected" /\ Leave(r, todo[r] \ {s})
     \/ /\ status[s] \in {"approved", "deleted"}
        /\ Leave(r, IF op[r] = "empty" THEN todo[r] \ {s} ELSE {})
  /\ UNCHANGED <<database, paperless, restarts, history>>

\* Re-analysis of one suggestion reads its row, whatever its status, and keeps
\* it; the loop over all of them has only the id.
StartAnalysis(r, s) ==
  /\ op[r] \in Swapping /\ pc[r] = "next" /\ s \in todo[r]
  /\ IF op[r] = "reanalyze" /\ status[s] = "deleted"
       THEN Leave(r, {})
       ELSE Hold(r, "analyze", s, status[s], todo[r] \ {s})
  /\ UNCHANGED <<database, paperless, restarts, history>>

\* Mutant of FinishAnalysis: the loop, too, trusts the status it listed.
FinishAnalysisStale(r) ==
  /\ pc[r] = "analyze"
  /\ Hold(r, IF row[r] = "pending" THEN "decide" ELSE "enqueue", cur[r], row[r], todo[r])
  /\ UNCHANGED <<database, paperless, restarts, history>>

\* The analysis is there.  reject is called on the row the session holds, or,
\* in a session of its own, on the row as it is now; it ignores the ValueError.
FinishAnalysis(r) ==
  /\ pc[r] = "analyze"
  /\ LET st == IF op[r] = "reanalyze" THEN row[r] ELSE status[cur[r]] IN
       Hold(r, IF st = "pending" THEN "decide" ELSE "enqueue", cur[r], st, todo[r])
  /\ UNCHANGED <<database, paperless, restarts, history>>

AnalysisFails(r) ==
  /\ "analysis" \in Failures /\ pc[r] = "analyze"
  /\ Raise(r)
  /\ UNCHANGED <<database, paperless, restarts, history>>

\* The fresh suggestion s of the same document is enqueued.
EnqueueFresh(r, s) ==
  /\ pc[r] = "enqueue" /\ status[s] = "new" /\ DocOf[s] = DocOf[cur[r]]
  /\ status' = [status EXCEPT ![s] = "pending"]
  /\ Leave(r, todo[r])
  /\ UNCHANGED <<audit, dismissed, paperless, restarts, history>>

-----------------------------------------------------------------------------
(* Decisions.                                                              *)

\* _patch_paperless: the document gets the values of the suggestion.
Apply(s) ==
  /\ patches' = patches \cup {s}
  /\ latest' = [latest EXCEPT ![DocOf[s]] = s]

Patch(r) ==
  /\ op[r] \in Approving /\ pc[r] = "decide"
  /\ Apply(cur[r])
  /\ Go(r, "applied")
  /\ UNCHANGED <<database, restarts, history>>

\* Mutant of PatchFails: the error is logged and the approval goes on.
PatchErrorSwallowed(r) ==
  /\ op[r] \in Approving /\ pc[r] = "decide"
  /\ "patch" \in Failures
  /\ Go(r, "applied")
  /\ UNCHANGED <<database, paperless, restarts, history>>

\* Paperless refuses the PATCH, or its answer is lost after it applied it.
PatchFails(r) ==
  /\ op[r] \in Approving /\ pc[r] = "decide"
  /\ \/ "patch" \in Failures /\ UNCHANGED <<paperless, cutShort>>
     \/ "answer" \in Failures /\ Apply(cur[r]) /\ cutShort' = cutShort \cup {cur[r]}
  /\ Raise(r)
  /\ UNCHANGED <<database, restarts, overtaken>>

\* approve commits the status and the event, and rejects the pending siblings
\* unless many suggestions are approved at once.
CommitApproval(r) ==
  /\ pc[r] = "applied" /\ status[cur[r]] # "deleted"
  /\ LET s == cur[r]
         others == IF op[r] = "bulk_approve" THEN {} ELSE Siblings(s)
     IN /\ status' = [t \in Suggestions |-> CASE t = s -> "approved"
                                              [] t \in others -> "rejected"
                                              [] OTHER -> status[t]]
        /\ audit' = [t \in Suggestions |-> CASE t = s -> Append(audit[t], "approved")
                                             [] t \in others -> Append(audit[t], "superseded")
                                             [] OTHER -> audit[t]]
        /\ overtaken' = overtaken \cup Overtakes(r, others \cup {s})
  /\ Leave(r, todo[r])
  /\ UNCHANGED <<dismissed, paperless, restarts, cutShort>>

\* _record_grooming_dismissals, if the rejection is a judgment.
NewDismissals(r) == IF op[r] \in Judging THEN {cur[r]} \cap Grooming ELSE {}

\* reject commits the status, the event and the dismissals.
CommitRejection(r) ==
  /\ op[r] \notin Approving /\ pc[r] = "decide" /\ status[cur[r]] # "deleted"
  /\ LET s == cur[r] IN
       /\ status' = [status EXCEPT ![s] = "rejected"]
       /\ audit' = [audit EXCEPT ![s] = Append(@, "rejected")]
       /\ dismissed' = dismissed \cup NewDismissals(r)
       /\ overtaken' = overtaken \cup Overtakes(r, {s})
  /\ IF op[r] \in Swapping THEN Go(r, "enqueue") ELSE Leave(r, todo[r])
  /\ UNCHANGED <<paperless, restarts, cutShort>>

\* A commit fails: the row is gone (StaleDataError), or the database is locked.
CommitFails(r) ==
  /\ \/ pc[r] = "applied"
     \/ pc[r] = "decide" /\ op[r] \notin Approving
  /\ "commit" \in Failures \/ status[cur[r]] = "deleted"
  /\ cutShort' = IF pc[r] = "applied" THEN cutShort \cup {cur[r]} ELSE cutShort
  /\ Raise(r)
  /\ UNCHANGED <<database, paperless, restarts, overtaken>>

-----------------------------------------------------------------------------
\* POST /api/tracking/reset-rejected deletes every rejected suggestion.
ResetRejected ==
  /\ status' = [s \in Suggestions |-> IF status[s] = "rejected" THEN "deleted" ELSE status[s]]
  /\ UNCHANGED <<audit, dismissed, paperless, requests, restarts, history>>

\* The application stops and starts: every request is lost.
Restart ==
  /\ restarts < MaxRestarts /\ restarts' = restarts + 1
  /\ pc' = [r \in Requests |-> "idle"]
  /\ todo' = [r \in Requests |-> {}]
  /\ cur' = [r \in Requests |-> NoSuggestion]
  /\ row' = [r \in Requests |-> "new"]
  /\ cutShort' = cutShort \cup {s \in Suggestions :
                                  \E r \in Requests : pc[r] = "applied" /\ cur[r] = s}
  /\ UNCHANGED <<op, database, paperless, overtaken>>

Step(r) ==
  \/ \E s \in Suggestions :
       \/ AutoApply(r, s) \/ EnqueueFresh(r, s)
       \/ LoadForApproval(r, s) \/ LoadForRejection(r, s) \/ StartAnalysis(r, s)
  \/ \E o \in Ops, ss \in SUBSET Suggestions : Receive(r, o, ss)
  \/ FinishAnalysis(r) \/ AnalysisFails(r)
  \/ Patch(r) \/ PatchFails(r)
  \/ CommitApproval(r) \/ CommitRejection(r) \/ CommitFails(r)

Next ==
  \/ \E s \in Suggestions : Enqueue(s)
  \/ \E r \in Requests : Step(r)
  \/ ResetRejected \/ Restart

Spec == Init /\ [][Next]_vars

-----------------------------------------------------------------------------
(* Properties.                                                             *)

DatabaseOK ==
  /\ status \in [Suggestions -> Statuses]
  /\ audit \in [Suggestions -> Seq(Events)]
  /\ dismissed \subseteq Grooming

PaperlessOK ==
  /\ patches \subseteq Suggestions
  /\ latest \in [Docs -> Suggestions \cup {NoSuggestion}]

RequestsOK ==
  /\ pc \in [Requests -> {"idle", "next", "analyze", "decide", "applied", "enqueue"}]
  /\ op \in [Requests -> Approving \cup Rejecting \cup Swapping]
  /\ todo \in [Requests -> SUBSET Suggestions]
  /\ cur \in [Requests -> Suggestions \cup {NoSuggestion}]
  /\ row \in [Requests -> Statuses]
  /\ \A r \in Requests : /\ pc[r] \notin {"idle", "next"} => cur[r] \in Suggestions
                         /\ pc[r] \in {"decide", "applied"} => row[r] = "pending"
                         /\ pc[r] = "applied" => op[r] \in Approving

HistoryOK == overtaken \subseteq Suggestions /\ cutShort \subseteq Suggestions

TypeOK ==
  DatabaseOK /\ PaperlessOK /\ RequestsOK /\ restarts \in 0..MaxRestarts /\ HistoryOK

\* The queue never says "approved" of values that Paperless did not get
\* (approval_queue.py:288-348): whatever fails, is lost or overlaps between the
\* PATCH and the commit.
ApprovedWasApplied ==
  \A s \in Suggestions : status[s] = "approved" => s \in patches

\* What a document got last is an approved suggestion, or its approval is about
\* to be committed; excepted are approvals that were cut short after the PATCH,
\* and suggestions that another request decided on at the same time.
LatestIsApproved ==
  \A d \in Docs :
    LET s == latest[d] IN
    s \notin {NoSuggestion} \cup overtaken \cup cutShort =>
      \/ status[s] = "approved"
      \/ \E r \in Requests : pc[r] = "applied" /\ cur[r] = s

AuditOK(s) ==
  LET n == Len(audit[s]) IN
  /\ n > 0 => \/ audit[s][n] = "approved" /\ status[s] = "approved"
              \/ audit[s][n] # "approved" /\ status[s] \in {"rejected", "deleted"}
  /\ n = 0 <=> status[s] \in {"new", "pending"}
  /\ s \notin overtaken => n <= 1

\* The audit log tells the status of every suggestion, and tells of one decision
\* unless another request decided on it at the same time.
AuditTellsStatus == \A s \in Suggestions : AuditOK(s)

\* docs/DECISIONS.md D-23: a dismissal stands for a rejection.  A suggestion that
\* is pending, approved or merely superseded has none, and none outlives a change
\* of mind, unless another request decided on the suggestion at the same time.
DismissalIsJudgment ==
  \A s \in dismissed \ overtaken : audit[s] = <<"rejected">>

\* A request that is about to write a decision holds a row that is still
\* pending, unless the row changed under it.
HeldIsPending ==
  \A r \in Requests, s \in Suggestions \ overtaken :
    Holds(r, s) => status[s] = "pending"

\* The phase of a suggestion in the life cycle: the refinement mapping.
phase == [s \in Suggestions |-> IF s \in overtaken THEN "contested" ELSE status[s]]

Lifecycle == INSTANCE SuggestionLifecycle WITH phase <- phase

\* The queue implements the life cycle: an uncontested suggestion is decided once,
\* whatever requests overlap, and an approval is final.
LifecycleSpec == Lifecycle!Spec

-----------------------------------------------------------------------------
(* What comments and messages say of the code, and the code does not do.   *)

\* approval_queue.py:412-415: a suggestion that "is already 'approved'; cannot
\* reject".
ApprovedStaysApproved ==
  \A s \in Suggestions :
    (\E i \in 1..Len(audit[s]) : audit[s][i] = "approved") => status[s] = "approved"
=============================================================================
