--------------------------- MODULE InboxAutomation --------------------------
(***************************************************************************)
(* How documents of the Paperless inbox get analysed: the inbox poller and *)
(* the scheduled batch (backend/inbox_monitor.py, backend/main.py:120-245).*)
(*                                                                         *)
(* Both loops list the inbox, filter the list with the document_tracking   *)
(* table and then take one document after the other: insert its row, await *)
(* its analysis, enqueue (or apply) the suggestion.  They share the table  *)
(* with each other, with the embed stamps and with the reset routes, and   *)
(* lock nothing.  What becomes of a suggestion is in ApprovalQueue; here   *)
(* any document may have a rejected one.                                   *)
(***************************************************************************)
EXTENDS Integers

CONSTANTS
  Docs,        \* documents of Paperless
  Loops,       \* {"poll"}, or {"poll", "batch"} if schedule_cron is set
  AutoApply,   \* values of auto_apply: a subset of BOOLEAN
  Failures,    \* what may fail: a subset of {"analysis", "patch", "commit"}
  NoDoc,       \* the document of a loop that is between documents
  MaxEvents    \* bound: inbox tags set, resets, switches of automation_enabled,
               \* restarts and failed commits in all

ASSUME ConstantsAssumption ==
  /\ Loops \subseteq {"poll", "batch"}
  /\ AutoApply \subseteq BOOLEAN /\ AutoApply # {}
  /\ Failures \subseteq {"analysis", "patch", "commit"}
  /\ NoDoc \notin Docs
  /\ MaxEvents \in Nat

VARIABLES
  inbox,      \* documents that carry the inbox tag in Paperless
  tracked,    \* documents with a row in document_tracking
  analyzed,   \* rows with last_analyzed_at set
  automation, \* automation_enabled
  \* the loops
  pc, todo, known, cur,
  events,     \* counts what MaxEvents events
  \* history, read by no action
  polled,     \* documents the poller took since their row was last deleted
  attempted   \* documents whose analysis has ended, well or not

table   == <<tracked, analyzed>>
loops   == <<pc, todo, known, cur>>
history == <<polled, attempted>>
vars == <<inbox, table, automation, loops, events, history>>

-----------------------------------------------------------------------------
Init ==
  /\ inbox \in SUBSET Docs
  /\ tracked = {} /\ analyzed = {}
  /\ automation = TRUE
  /\ pc = [l \in Loops |-> "idle"]
  /\ todo = [l \in Loops |-> {}]
  /\ known = [l \in Loops |-> {}]
  /\ cur = [l \in Loops |-> NoDoc]
  /\ events = 0
  /\ polled = {} /\ attempted = {}

\* One of the bounded events.
Event == events < MaxEvents /\ events' = events + 1

\* Loop l goes on in phase p with the document it has.
Go(l, p) == pc' = [pc EXCEPT ![l] = p] /\ UNCHANGED <<todo, known, cur>>

\* The loops in ls end their runs: nothing of a run outlives it.
Stop(ls) ==
  /\ pc' = [l \in Loops |-> IF l \in ls THEN "idle" ELSE pc[l]]
  /\ todo' = [l \in Loops |-> IF l \in ls THEN {} ELSE todo[l]]
  /\ known' = [l \in Loops |-> IF l \in ls THEN {} ELSE known[l]]
  /\ cur' = [l \in Loops |-> IF l \in ls THEN NoDoc ELSE cur[l]]

\* submit_for_analysis has returned: the batch still marks the document.
Return(l) == Go(l, IF l = "batch" THEN "mark" ELSE "next")

\* The rows of ds are deleted.
DeleteRows(ds) ==
  /\ tracked' = tracked \ ds
  /\ analyzed' = analyzed \ ds
  /\ polled' = polled \ ds

-----------------------------------------------------------------------------
(* A run of either loop.                                                   *)

\* The timer fires: list the documents of the inbox.
FetchInbox(l) ==
  /\ automation /\ pc[l] = "idle" /\ inbox # {}
  /\ pc' = [pc EXCEPT ![l] = "listed"]
  /\ todo' = [todo EXCEPT ![l] = inbox]
  /\ UNCHANGED <<known, cur, inbox, table, automation, events, history>>

\* Of the listed documents loop l keeps ds.  The batch holds on to the rows it
\* read (`tracked` in run_batch) and does not read them again.
Keep(l, ds) ==
  /\ pc[l] = "listed"
  /\ pc' = [pc EXCEPT ![l] = "next"]
  /\ todo' = [todo EXCEPT ![l] = ds]
  /\ known' = [known EXCEPT ![l] = IF l = "poll" THEN {} ELSE ds \cap tracked]
  /\ UNCHANGED <<cur, inbox, table, automation, events, history>>

\* Mutants of Select: the batch skips every document with a row, or none.
SelectUnseen(l) == Keep(l, todo[l] \ tracked)
SelectAll(l) == Keep(l, IF l = "poll" THEN todo[l] \ tracked ELSE todo[l])

\* Filter the list with the table as it is now: the poller keeps what has no
\* row, the batch what has no row or no last_analyzed_at.
Select(l) == Keep(l, todo[l] \ (IF l = "poll" THEN tracked ELSE analyzed))

\* Mutant of Take: the poller leaves the row for later.
TakeWithoutRow(l, d) ==
  /\ pc[l] = "next" /\ d \in todo[l]
  /\ d \notin known[l] => d \notin tracked
  /\ tracked' = IF l = "poll" THEN tracked ELSE tracked \cup {d}
  /\ pc' = [pc EXCEPT ![l] = "analysis"]
  /\ todo' = [todo EXCEPT ![l] = @ \ {d}]
  /\ known' = [known EXCEPT ![l] = @ \ {d}]
  /\ cur' = [cur EXCEPT ![l] = d]
  /\ polled' = IF l = "poll" THEN polled \cup {d} ELSE polled
  /\ UNCHANGED <<inbox, analyzed, automation, events, attempted>>

\* The next document: commit its row unless the list was read with it, and
\* submit it for analysis.
Take(l, d) ==
  /\ pc[l] = "next" /\ d \in todo[l]
  /\ d \notin known[l] => d \notin tracked
  /\ tracked' = IF d \in known[l] THEN tracked ELSE tracked \cup {d}
  /\ pc' = [pc EXCEPT ![l] = "analysis"]
  /\ todo' = [todo EXCEPT ![l] = @ \ {d}]
  /\ known' = [known EXCEPT ![l] = @ \ {d}]
  /\ cur' = [cur EXCEPT ![l] = d]
  /\ polled' = IF l = "poll" THEN polled \cup {d} ELSE polled
  /\ UNCHANGED <<inbox, analyzed, automation, events, attempted>>

\* Mutant of Collide: the exception ends the loop, not only its run.
CollideEndsLoop(l, d) ==
  /\ pc[l] = "next" /\ d \in todo[l]
  /\ d \in tracked \ known[l]
  /\ Go(l, "ended")
  /\ UNCHANGED <<inbox, table, automation, events, history>>

\* Another task has inserted the row meanwhile: the IntegrityError ends the run.
Collide(l, d) ==
  /\ pc[l] = "next" /\ d \in todo[l]
  /\ d \in tracked \ known[l]
  /\ Stop({l})
  /\ UNCHANGED <<inbox, table, automation, events, history>>

\* The analysis ends and its suggestion is enqueued; auto_apply goes on to
\* approve it.
Enqueue(l) ==
  /\ pc[l] = "analysis"
  /\ attempted' = attempted \cup {cur[l]}
  /\ \E apply \in AutoApply : IF apply THEN Go(l, "apply") ELSE Return(l)
  /\ UNCHANGED <<inbox, table, automation, events, polled>>

\* The analysis fails; submit_for_analysis swallows the exception.
AnalysisFails(l) ==
  /\ "analysis" \in Failures /\ pc[l] = "analysis"
  /\ attempted' = attempted \cup {cur[l]}
  /\ Return(l)
  /\ UNCHANGED <<inbox, table, automation, events, polled>>

\* auto_apply: the document gets the suggested tags, which never include the
\* inbox tag, or the PATCH fails and the suggestion stays pending.
Apply(l) ==
  /\ pc[l] = "apply"
  /\ \/ inbox' = inbox \ {cur[l]}
     \/ "patch" \in Failures /\ UNCHANGED inbox
  /\ Return(l)
  /\ UNCHANGED <<table, automation, events, history>>

\* Mutant of Mark: whether the row still exists is not noticed.
MarkBlindly(l) ==
  /\ pc[l] = "mark"
  /\ analyzed' = analyzed \cup {cur[l]} /\ Go(l, "next")
  /\ UNCHANGED <<inbox, tracked, automation, events, history>>

\* The batch sets last_analyzed_at, even after a failure.  session.get returns
\* the row it already has: if that was deleted meanwhile, the UPDATE matches
\* nothing and the StaleDataError ends the run.
Mark(l) ==
  /\ pc[l] = "mark"
  /\ IF cur[l] \in tracked
       THEN analyzed' = analyzed \cup {cur[l]} /\ Go(l, "next")
       ELSE Stop({l}) /\ UNCHANGED analyzed
  /\ UNCHANGED <<inbox, tracked, automation, events, history>>

\* A commit of the run's session fails: the session is unusable until it is
\* rolled back, so the run ends at its next statement.  An approval has sent
\* its PATCH by then.
CommitFails(l) ==
  /\ "commit" \in Failures /\ Event
  /\ \/ pc[l] \in {"analysis", "apply", "mark"}
     \/ pc[l] = "next" /\ todo[l] # {}
  /\ inbox' = IF pc[l] = "apply" THEN inbox \ {cur[l]} ELSE inbox
  /\ Stop({l})
  /\ UNCHANGED <<table, automation, history>>

Finish(l) ==
  /\ pc[l] = "next" /\ todo[l] = {}
  /\ Stop({l})
  /\ UNCHANGED <<inbox, table, automation, events, history>>

-----------------------------------------------------------------------------
(* Other tasks and routes.                                                 *)

\* A user or a consumer sets the inbox tag, or a user, an approval or a
\* deletion of the document removes it.
EnterInbox(d) ==
  /\ d \notin inbox /\ inbox' = inbox \cup {d}
  /\ Event
  /\ UNCHANGED <<table, automation, loops, history>>

LeaveInbox(d) ==
  /\ d \in inbox /\ inbox' = inbox \ {d}
  /\ UNCHANGED <<table, automation, loops, events, history>>

\* A re-embed of the document (a webhook, say) stamps its row, and inserts it
\* if there is none (_record_document_embed).
StampEmbed(d) ==
  /\ d \notin tracked /\ tracked' = tracked \cup {d}
  /\ UNCHANGED <<inbox, analyzed, automation, loops, events, history>>

\* POST /api/tracking/reset
ResetTracking ==
  /\ Event
  /\ DeleteRows(Docs)
  /\ UNCHANGED <<inbox, automation, loops, attempted>>

\* POST /api/tracking/reset-rejected: the documents in ds have a rejected
\* suggestion.
ResetRejected(ds) ==
  /\ Event
  /\ DeleteRows(ds)
  /\ UNCHANGED <<inbox, automation, loops, attempted>>

\* PUT /api/settings switches automation off, which cancels the poller at the
\* await it is in, or on.  A running batch goes on.
SwitchAutomation ==
  /\ Event
  /\ automation' = ~automation
  /\ IF automation THEN Stop({"poll"}) ELSE UNCHANGED loops
  /\ UNCHANGED <<inbox, table, history>>

\* The application stops and starts: both runs are lost.
Restart ==
  /\ Event
  /\ Stop(Loops)
  /\ UNCHANGED <<inbox, table, automation, history>>

-----------------------------------------------------------------------------
Environment ==
  \/ \E d \in Docs : EnterInbox(d) \/ LeaveInbox(d) \/ StampEmbed(d)
  \/ \E ds \in SUBSET Docs : ResetRejected(ds)
  \/ ResetTracking \/ SwitchAutomation \/ Restart

Run(l) ==
  \/ FetchInbox(l) \/ Select(l) \/ \E d \in Docs : Take(l, d) \/ Collide(l, d)
  \/ Enqueue(l) \/ Apply(l) \/ Mark(l) \/ Finish(l)

Next ==
  \/ Environment
  \/ \E l \in Loops : Run(l) \/ AnalysisFails(l) \/ CommitFails(l)

Spec == Init /\ [][Next]_vars

\* The poll interval and the cron expression come due again and again, and the
\* event loop runs what can run.  Nothing else is promised.
FairSpec == Spec /\ \A l \in Loops : WF_vars(Run(l))

-----------------------------------------------------------------------------
(* Properties.                                                             *)

Phases == {"idle", "listed", "next", "analysis", "apply", "mark"}

TypeOK ==
  /\ inbox \subseteq Docs
  /\ analyzed \subseteq tracked /\ tracked \subseteq Docs
  /\ automation \in BOOLEAN
  /\ pc \in [Loops -> Phases]
  /\ todo \in [Loops -> SUBSET Docs]
  /\ known \in [Loops -> SUBSET Docs]
  /\ cur \in [Loops -> Docs \cup {NoDoc}]
  /\ \A l \in Loops : pc[l] \in {"analysis", "apply", "mark"} => cur[l] \in Docs
  /\ events \in 0..MaxEvents
  /\ polled \subseteq Docs /\ attempted \subseteq Docs

\* Loop l submits document d for analysis.
Submits(l, d) == pc[l] = "next" /\ pc'[l] = "analysis" /\ cur'[l] = d

\* The poller submits a document at most once, whatever restarts, cancellations
\* and other writers of the table come between its polls, unless a reset
\* deleted the row (inbox_monitor.py:69-77, docs/Automation.md:20).
PolledOnce ==
  [][\A d \in Docs : "poll" \in Loops /\ Submits("poll", d) => d \notin polled]_vars

\* A batch never submits a document that an earlier or the same batch has
\* marked, unless a reset deleted the row, although it works from a list and
\* from rows read before its first await (inbox_monitor.py:117-155).
BatchSkipsMarked ==
  [][\A d \in Docs : "batch" \in Loops /\ Submits("batch", d) => d \notin analyzed]_vars

\* The inductive invariant behind the two: what the poller took has a row, and
\* it inserts one for whatever it takes and marks nothing; the batch's list
\* holds nothing that is marked, nor the document it is busy with.
PollInv ==
  /\ polled \subseteq tracked
  /\ "poll" \in Loops => known["poll"] = {} /\ pc["poll"] # "mark"
BatchInv ==
  "batch" \in Loops /\ pc["batch"] \in {"next", "analysis", "apply", "mark"} =>
    /\ todo["batch"] \cap analyzed = {}
    /\ pc["batch"] # "next" => cur["batch"] \notin todo["batch"]
InboxInv == TypeOK /\ PollInv /\ BatchInv

\* docs/Automation.md:9: "When a new document appears, it is queued for analysis
\* automatically".  That holds where the scheduled batch runs as well: a document that
\* stays in the inbox while the automation is on is analysed (or its analysis fails), and
\* polls and batches cut short by a collision, a deleted row, a failed commit, a restart or
\* a cancellation are made up for.  The poller alone, which is the default configuration,
\* does not promise it: it takes every document with a row for seen, be the row an embed
\* stamp, or one of its own whose analysis was cut short.
EveryInboxDocIsAttempted ==
  "batch" \in Loops =>
    \A d \in Docs : <>[](automation /\ d \in inbox) => <>(d \in attempted)

\* After a reset the inbox monitor picks the documents of the inbox up again
\* (main.py:1810-1813): one without a row does not stay without one.  The row may be that of
\* an embed stamp; it is EveryInboxDocIsAttempted that speaks of an analysis.
ResetIsPickedUp ==
  \A d \in Docs : ~<>[](automation /\ d \in inbox \ tracked)
=============================================================================
