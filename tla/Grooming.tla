------------------------------ MODULE Grooming ------------------------------
(***************************************************************************)
(* The library of entities (backend/grooming.py, backend/main.py:297-334,  *)
(* 4200-4422): descriptions and their vectors, the mismatch scan, and      *)
(* merges, for the entities of one type.                                   *)
(*                                                                         *)
(* A task works in a database session of its own.  It loads the rows it is *)
(* about once, awaits the model or Paperless, changes the rows it has, and *)
(* commits: what is written are the columns that differ from what it       *)
(* loaded (SQLAlchemy's unit of work), whatever the row is by then.        *)
(*                                                                         *)
(* The scan is one task at a time (_scan_lock).  Scores are left open: the *)
(* classification may flag any document the entity could apply to.         *)
(***************************************************************************)
EXTENDS Integers, FiniteSets, FiniteSetsExt

CONSTANTS
  Entities,     \* ids of tags, or of correspondents (and document types alike)
  Docs,
  Names, Texts, \* names of entities and descriptions
  NoText, NoEntity,
  Tasks,        \* requests and the bulk generation
  Failures,     \* subset of {"model", "embed", "page", "edit", "delete", "query"}
  MaxSuggestions, \* grooming_max_suggestions_per_scan
  MaxFlagged,   \* bound: findings of one scan
  MaxEvents     \* bound: requests, scans and changes in Paperless, in all

ASSUME GroomingAssumption ==
  /\ NoText \notin Texts /\ NoEntity \notin Entities
  /\ "none" \notin Names \cup Texts \cup {NoText} /\ "scan" \notin Tasks
  /\ Failures \subseteq {"model", "embed", "page", "edit", "delete", "query"}
  /\ MaxSuggestions \in Nat /\ MaxFlagged \in Nat /\ MaxEvents \in Nat
  /\ IsFiniteSet(Entities) /\ IsFiniteSet(Docs)

NoVector == [name |-> "none", desc |-> "none"]
NoRow    == [name |-> "none", desc |-> "none", stored |-> FALSE, vector |-> NoVector,
             excluded |-> FALSE]

VARIABLES
  kind,        \* "tag": a document has any number of them; "single": one at most
  \* Paperless; what was never created has no name
  alive, name, carries,
  \* the database
  row,         \* of each entity: name, description, vector, flags
  changed,     \* entities new or described after they were last stamped as scanned
  behind,      \* entities stamped before the latest embed of any document
  dismissals,  \* of rejected suggestions, in force
  pending,     \* suggestions in the queue
  audited,     \* <<document, entity removed, entity kept>>
  \* tasks
  task, scan,
  events,
  \* history, read by no action
  raced,       \* entities two tasks worked on at once
  fresh,       \* entities a finished scan examined as they are, with the documents as they are
  unscanned,   \* entities stamped that changed while the scan ran, or had no vector;
               \* entities with a new name
  slipped,     \* dismissals a running scan read too early
  renamed,     \* entities have changed names
  moved,       \* documents changed since a scan fetched them
  unread,      \* entities made after a scan read the names, on a document it fetched
  lost,        \* <<document, entity>> that a merge took from a document for nothing
  excused,     \* those the merge could not know of
  given,       \* <<document, entity removed, entity kept>>, as written to Paperless
  unaudited    \* what was written by a merge that failed, or that a restart ended

paperless == <<kind, alive, name, carries>>
table     == <<row, changed, behind>>
queue     == <<dismissals, pending>>
books     == <<raced, fresh, unscanned>>
notes     == <<slipped, renamed, moved, unread>>
merges    == <<audited, lost, excused, given, unaudited>>
vars == <<paperless, table, queue, task, scan, events, books, notes, merges>>

-----------------------------------------------------------------------------
NoRows == [e \in Entities |-> NoRow]

\* A task without work, and the scan without work.
Idle == [pc |-> "idle", bulk |-> FALSE, todo |-> {}, at |-> NoEntity, rows |-> NoRows,
         listed |-> [e \in Entities |-> "none"], keep |-> NoEntity, docs |-> {},
         audits |-> {}]

IdleScan == [pc |-> "idle", incremental |-> FALSE, blocked |-> {}, covered |-> {},
             rows |-> NoRows, left |-> {}, found |-> [e \in Entities |-> {}],
             flagged |-> {}, names |-> [e \in Entities |-> "none"], docs |-> {},
             at |-> {}, fetched |-> {}, seen |-> {}, stirred |-> {}]

Event == events < MaxEvents /\ events' = events + 1

Exists(e) == row[e] # NoRow

\* What the vector of a row is computed from.
TextOf(r) == [name |-> r.name, desc |-> r.desc]

\* The columns of the loaded row old that new changes are written to entity e.
Flush(e, old, new) ==
  [c \in DOMAIN old |-> IF new[c] # old[c] THEN new[c] ELSE row[e][c]]

\* Another task, or the scan, has the row of e loaded.
IsHeld(t, e) ==
  \/ \E u \in Tasks \ {t} : task[u].rows[e] # NoRow
  \/ t # "scan" /\ scan.pc = "refresh" /\ scan.rows[e] # NoRow

Race(t, es) == raced' = raced \cup {e \in es : IsHeld(t, e)}

\* The running scan has read, or not, what changes of the entities es.
Stir(es) == IF scan.pc = "idle" THEN scan
            ELSE [scan EXCEPT !.stirred = @ \cup es, !.seen = @ \ es]

\* What a scan examines of the entities es changes.
Touch(es) ==
  /\ scan' = Stir(es)
  /\ fresh' = fresh \ es
  /\ unscanned' = unscanned \ es

\* A set of entities that a document may carry.
MayCarry(C) == C \subseteq alive /\ (kind = "single" => Cardinality(C) <= 1)

-----------------------------------------------------------------------------
(* Descriptions.                                                           *)

\* Mutant of Described: the flag that the vector is stored is not reset.
DescribedStored(r, x) == [r EXCEPT !.desc = x]

\* The row with a new description: its vector is to be computed anew.
Described(r, x) == [r EXCEPT !.desc = x, !.stored = FALSE]

\* update_entity: a description or the flag is written at once, and a description
\* without a vector is embedded then.
Update(t, e, new) ==
  /\ row' = [row EXCEPT ![e] = new]
  /\ task' = IF new.desc = NoText \/ new.stored THEN task
             ELSE [task EXCEPT ![t] = [Idle EXCEPT !.pc = "embed", !.at = e, !.rows[e] = new]]
  /\ Race(t, {e})
  /\ UNCHANGED <<paperless, behind, queue, notes, merges>>

Patch(t, e, x) ==
  /\ task[t].pc = "idle" /\ Event
  /\ Exists(e) /\ x # row[e].desc
  /\ Update(t, e, Described(row[e], x))
  /\ changed' = changed \cup {e}
  /\ Touch({e})

Exclude(t, e) ==
  /\ task[t].pc = "idle" /\ Event
  /\ Exists(e)
  /\ Update(t, e, [row[e] EXCEPT !.excluded = ~@])
  /\ scan' = Stir({e})
  /\ UNCHANGED <<changed, fresh, unscanned>>

\* The task goes on to the next entity it has to describe, or is done.
Goes(t, r) == [task EXCEPT ![t] = IF r.todo = {} THEN Idle ELSE r]

\* Descriptions are to be generated: the rows are loaded.
Generate(t, todo, bulk) ==
  /\ task[t].pc = "idle" /\ Event
  /\ todo # {}
  /\ task' = [task EXCEPT ![t] =
       [Idle EXCEPT !.pc = "describe", !.bulk = bulk, !.todo = todo,
                    !.rows = [e \in Entities |-> IF e \in todo THEN row[e] ELSE NoRow]]]
  /\ Race(t, todo)
  /\ UNCHANGED <<paperless, table, queue, scan, fresh, unscanned, notes, merges>>

\* generate_description_for
GenerateOne(t, e) == Exists(e) /\ Generate(t, {e}, FALSE)

\* start_bulk_generate, one at a time: what has a description is left out, unless the
\* caller says otherwise.
BulkGenerate(t, overwrite) ==
  /\ \A u \in Tasks : ~task[u].bulk
  /\ Generate(t, {e \in Entities : Exists(e) /\ (overwrite \/ row[e].desc = NoText)}, TRUE)

\* _generate_one: the model answers, and the description is written.
Describe(t, e, x) ==
  /\ task[t].pc = "describe" /\ e \in task[t].todo /\ Exists(e)
  /\ LET old == task[t].rows[e]
         new == Described(old, x)
     IN /\ row' = [row EXCEPT ![e] = Flush(e, old, new)]
        /\ task' = [task EXCEPT ![t].pc = "embed", ![t].at = e, ![t].todo = @ \ {e},
                                ![t].rows[e] = new]
  /\ changed' = changed \cup {e}
  /\ Touch({e})
  /\ Race(t, {e})
  /\ UNCHANGED <<paperless, behind, queue, events, notes, merges>>

\* The model fails: the next entity.  The row is gone: so is the session's work,
\* and the bulk run ends.
DescribeFails(t, e) ==
  /\ task[t].pc = "describe" /\ e \in task[t].todo
  /\ \/ /\ "model" \in Failures
        /\ task' = Goes(t, [task[t] EXCEPT !.todo = @ \ {e}, !.rows[e] = NoRow])
     \/ ~Exists(e) /\ task' = [task EXCEPT ![t] = Idle]
  /\ UNCHANGED <<paperless, table, queue, scan, events, books, notes, merges>>

\* _embed_entity_row and the commit after it.
Embed(t) ==
  /\ task[t].pc = "embed" /\ Exists(task[t].at)
  /\ LET e == task[t].at
         old == task[t].rows[e]
         new == [old EXCEPT !.stored = TRUE, !.vector = TextOf(old)]
     IN /\ row' = [row EXCEPT ![e] = Flush(e, old, new)]
        /\ task' = Goes(t, [task[t] EXCEPT !.pc = "describe", !.at = NoEntity,
                                           !.rows[e] = NoRow])
        /\ Race(t, {e})
  /\ UNCHANGED <<paperless, changed, behind, queue, scan, events, fresh, unscanned, notes,
                 merges>>

\* The embedding fails, which is logged, or the row is gone.
EmbedFails(t) ==
  /\ task[t].pc = "embed"
  /\ \/ /\ "embed" \in Failures
        /\ task' = Goes(t, [task[t] EXCEPT !.pc = "describe", !.at = NoEntity,
                                           !.rows[task[t].at] = NoRow])
     \/ ~Exists(task[t].at) /\ task' = [task EXCEPT ![t] = Idle]
  /\ UNCHANGED <<paperless, table, queue, scan, events, books, notes, merges>>

\* cancel_bulk_generate: the entity at hand is the last.
Cancel(t) ==
  /\ task[t].bulk /\ task[t].pc = "embed" /\ task[t].todo # {}
  /\ task' = [task EXCEPT ![t].todo = {}]
  /\ UNCHANGED <<paperless, table, queue, scan, events, books, notes, merges>>

-----------------------------------------------------------------------------
(* Sync with Paperless.                                                    *)

\* sync_and_list_entities: Paperless is asked, ...
Sync(t) ==
  /\ task[t].pc = "idle" /\ Event
  /\ task' = [task EXCEPT ![t] = [Idle EXCEPT !.pc = "sync",
       !.listed = [e \in Entities |-> IF e \in alive THEN name[e] ELSE "none"]]]
  /\ UNCHANGED <<paperless, table, queue, scan, books, notes, merges>>

NewRow(n) ==
  [name |-> n, desc |-> NoText, stored |-> FALSE, vector |-> NoVector, excluded |-> FALSE]

\* ... and rows are made, renamed and pruned: a new name takes a new vector, and is
\* no reason for a scan.
SyncRows(t) ==
  /\ task[t].pc = "sync"
  /\ LET listed == task[t].listed
         made == {e \in Entities : ~Exists(e) /\ listed[e] # "none"}
         Synced(e) == IF listed[e] = "none" THEN NoRow
                      ELSE IF e \in made THEN NewRow(listed[e])
                      ELSE IF row[e].name = listed[e] THEN row[e]
                      ELSE [row[e] EXCEPT !.name = listed[e], !.stored = FALSE]
         retitled == {e \in Entities : /\ Exists(e) /\ listed[e] # "none"
                                       /\ row[e].name # listed[e]}
     IN /\ row' = [e \in Entities |-> Synced(e)]
        /\ changed' = changed \cup made
        /\ scan' = Stir(made \cup retitled)
        /\ fresh' = fresh \ (made \cup retitled)
        /\ unscanned' = (unscanned \ made) \cup retitled
        /\ Race(t, {e \in Entities : Synced(e) # row[e]})
  /\ task' = [task EXCEPT ![t] = Idle]
  /\ UNCHANGED <<paperless, behind, queue, events, notes, merges>>

-----------------------------------------------------------------------------
(* Merges.                                                                 *)

\* A merge of e that will not see that the document d carries it.
Overlooked(d, e) ==
  \E t \in Tasks : /\ task[t].at = e /\ task[t].pc \in {"edit", "remove"}
                   /\ d \notin task[t].docs

\* The documents that a scan fetched, or has made a suggestion for.
AskedAbout == scan.at \cup {s.doc : s \in pending}

\* The documents carry C from now on.
Carry(C) ==
  /\ carries' = C
  /\ moved' = moved \cup {d \in AskedAbout : C[d] # carries[d]}
  /\ excused' = excused \cup {p \in Docs \X Entities :
                   p[2] \in C[p[1]] \ carries[p[1]] /\ Overlooked(p[1], p[2])}

\* merge_entities: the entities R are to become k.
Merge(t, k, R) ==
  /\ task[t].pc = "idle" /\ Event
  /\ R # {} /\ k \notin R /\ k \in alive /\ \A e \in R : name[e] # "none"
  /\ task' = [task EXCEPT ![t] = [Idle EXCEPT !.pc = "affected", !.todo = R, !.keep = k]]
  /\ UNCHANGED <<paperless, table, queue, scan, books, notes, merges>>

Carrying(e) == {d \in Docs : e \in carries[d]}

\* _fetch_entity_docs goes through the pages, and takes one that fails for the end.
Affected(e) == {D \in SUBSET Carrying(e) : D = Carrying(e) \/ "page" \in Failures}

FetchAffected(t, r) ==
  /\ task[t].pc = "affected" /\ r \in task[t].todo
  /\ \E D \in Affected(r) :
       /\ task' = [task EXCEPT ![t].pc = IF D = {} THEN "remove" ELSE "edit",
                               ![t].at = r, ![t].docs = D, ![t].rows[r] = row[r]]
       /\ excused' = IF "page" \in Failures
                       THEN excused \cup {<<d, r>> : d \in Carrying(r) \ D} ELSE excused
  /\ UNCHANGED <<paperless, table, queue, scan, events, books, notes, audited, lost, given,
                 unaudited>>

\* Mutant of Reassigned: the entity to be removed is kept.
ReassignedOnlyAdds(d, r, k) == carries[d] \cup {k}

\* Paperless's bulk edit: modify_tags, or set_correspondent and set_document_type.
Reassigned(d, r, k) == IF kind = "tag" THEN (carries[d] \ {r}) \cup {k} ELSE {k}

Reassign(t) ==
  LET r == task[t].at
      k == task[t].keep
      D == task[t].docs
  IN /\ task[t].pc = "edit" /\ k \in alive
     /\ Carry([d \in Docs |-> IF d \in D THEN Reassigned(d, r, k) ELSE carries[d]])
     /\ given' = given \cup {<<d, r, k>> : d \in D}
     /\ UNCHANGED <<kind, alive, name, table, queue, scan, events, books, slipped, renamed,
                    unread, audited, lost>>

\* What the audit log is to say of the bulk edit.
Entries(t) == {<<d, task[t].at, task[t].keep>> : d \in task[t].docs}

BulkEdit(t) ==
  /\ Reassign(t)
  /\ task' = [task EXCEPT ![t].pc = "remove", ![t].docs = {}, ![t].audits = @ \cup Entries(t)]
  /\ UNCHANGED unaudited

\* Mutant of AfterFailure: the entity whose documents were not edited is deleted all the same.
AfterFailureGoesOn(t) ==
  IF task[t].pc = "edit" THEN [task[t] EXCEPT !.pc = "remove", !.docs = {}] ELSE Idle

\* The request is an error, and its session is rolled back.
AfterFailure(t) == Idle

\* The bulk edit is done, and its answer lost.
EditUnanswered(t) ==
  /\ "edit" \in Failures
  /\ Reassign(t)
  /\ unaudited' = unaudited \cup task[t].audits \cup Entries(t)
  /\ task' = [task EXCEPT ![t] = Idle]

\* A request of the merge fails and has no effect: the list of documents, the bulk edit
\* or the deletion.
MergeFails(t) ==
  /\ \/ task[t].pc = "affected" /\ "page" \in Failures
     \/ task[t].pc = "edit" /\ ("edit" \in Failures \/ task[t].keep \notin alive)
     \/ task[t].pc = "remove" /\ "delete" \in Failures
  /\ unaudited' = unaudited \cup task[t].audits
  /\ task' = [task EXCEPT ![t] = AfterFailure(t)]
  /\ UNCHANGED <<paperless, table, queue, scan, events, books, notes, audited, lost,
                 excused, given>>

\* Paperless deletes an entity, and takes it from its documents.
Delete(e) ==
  /\ e \in alive
  /\ alive' = alive \ {e}
  /\ carries' = [d \in Docs |-> carries[d] \ {e}]
  /\ moved' = moved \cup (Carrying(e) \cap AskedAbout)

\* The entity is deleted, ...
Deleted(t) ==
  /\ task[t].pc = "remove"
  /\ Delete(task[t].at)
  /\ lost' = lost \cup {<<d, task[t].at>> : d \in Carrying(task[t].at)}
  /\ UNCHANGED <<kind, name, table, queue, scan, events, books, slipped, renamed, unread,
                 audited, excused, given>>

\* ... or refused, which is logged; the next one.
Remove(t) ==
  /\ \/ Deleted(t)
     \/ /\ task[t].pc = "remove"
        /\ "delete" \in Failures \/ task[t].at \notin alive
        /\ UNCHANGED <<paperless, table, queue, scan, events, books, notes, audited, lost,
                       excused, given>>
  /\ task' = [task EXCEPT ![t].pc = IF task[t].todo = {task[t].at} THEN "commit" ELSE "affected",
                          ![t].todo = @ \ {task[t].at}, ![t].at = NoEntity]
  /\ UNCHANGED unaudited

\* The entity is deleted, and the answer lost.
RemoveUnanswered(t) ==
  /\ "delete" \in Failures
  /\ Deleted(t)
  /\ unaudited' = unaudited \cup task[t].audits
  /\ task' = [task EXCEPT ![t] = Idle]

\* One commit at the end: the audit entries, and the rows of what was merged.
CommitMerge(t) ==
  /\ task[t].pc = "commit"
  /\ audited' = audited \cup task[t].audits
  /\ LET gone == {e \in Entities : task[t].rows[e] # NoRow} IN
       /\ row' = [e \in Entities |-> IF e \in gone THEN NoRow ELSE row[e]]
       /\ Race(t, gone)
  /\ task' = [task EXCEPT ![t] = Idle]
  /\ UNCHANGED <<paperless, changed, behind, queue, scan, events, fresh, unscanned, notes,
                 lost, excused, given, unaudited>>

-----------------------------------------------------------------------------
(* Paperless and the index.                                                *)

\* Somebody changes the entities of a document.
Retag(d, C) ==
  /\ Event /\ MayCarry(C) /\ Cardinality((C \ carries[d]) \cup (carries[d] \ C)) \in {1, 2}
  /\ Carry([carries EXCEPT ![d] = C])
  /\ UNCHANGED <<kind, alive, name, table, queue, task, scan, books, slipped, renamed,
                 unread, audited, lost, given, unaudited>>

\* An entity is made (no event: each once).
Create(e, n) ==
  /\ name[e] = "none" /\ \A f \in Entities : name[f] # n
  /\ name' = [name EXCEPT ![e] = n]
  /\ alive' = alive \cup {e}
  /\ UNCHANGED <<kind, carries, table, queue, task, scan, events, books, notes, merges>>

\* An entity is given a name that no other has.
Rename(e, n) ==
  /\ Event /\ e \in alive /\ \A f \in Entities : name[f] # n
  /\ name' = [name EXCEPT ![e] = n]
  /\ renamed' = TRUE
  /\ UNCHANGED <<kind, alive, carries, table, queue, task, scan, books, slipped, moved,
                 unread, merges>>

\* A document is embedded: every entity is to be scanned again.
DocsEmbedded ==
  /\ Event
  /\ behind' = Entities
  /\ Touch(Entities)
  /\ UNCHANGED <<paperless, row, changed, queue, task, raced, notes, merges>>

-----------------------------------------------------------------------------
(* The queue.                                                              *)

\* A finding: the document should have the entity, or not, or have another (by), or
\* somebody should look at it.
Finding(e, a, o, d) == [ent |-> e, act |-> a, by |-> o, doc |-> d]

\* What a rejection dismisses, and what the scan looks a finding up as.
Key(f) == <<f.ent, f.doc, f.act>>

\* ApprovalQueueService.reject
Reject(s) ==
  /\ pending' = pending \ {s}
  /\ dismissals' = dismissals \cup {Key(f) : f \in s.acts}
  /\ slipped' = IF scan.pc = "pending" THEN slipped \cup {Key(f) : f \in s.acts} ELSE slipped
  /\ UNCHANGED <<paperless, table, task, scan, events, books, renamed, moved, unread, merges>>

\* The suggestion is approved; Retag is what that does to the document.
Approve(s) ==
  /\ pending' = pending \ {s}
  /\ UNCHANGED <<paperless, table, dismissals, task, scan, events, books, notes, merges>>

\* The analysis of a document enqueues a suggestion.
Suggest(d) ==
  /\ Event
  /\ pending' = pending \cup {[doc |-> d, acts |-> {}, value |-> {}]}
  /\ UNCHANGED <<paperless, table, dismissals, task, scan, books, notes, merges>>

\* A dismissal is older than grooming_resuggest_after_days.
Expire(x) ==
  /\ Event
  /\ dismissals' = dismissals \ {x}
  /\ UNCHANGED <<paperless, table, pending, task, scan, books, notes, merges>>

-----------------------------------------------------------------------------
(* The scan.                                                               *)

\* The dismissals are read first, ...
StartScan(incremental) ==
  /\ scan.pc = "idle" /\ Event
  /\ scan' = [IdleScan EXCEPT !.pc = "pending", !.incremental = incremental,
                              !.blocked = dismissals]
  /\ UNCHANGED <<paperless, table, queue, task, books, notes, merges>>

\* ... the schedule's scan being incremental, ...
ScheduledScan == StartScan(TRUE)

\* ... and the administrator's complete, ...
ManualScan == StartScan(FALSE)

\* Mutant of NeedsRescan: documents that were embedded are not minded.
NeedsRescanText(e) == e \in changed

\* _entity_needs_rescan
NeedsRescan(e) == e \in changed \cup behind

\* ... then the newest embed, the documents with pending suggestions and the rows
\* (three reads, each of something else).
ReadRows ==
  /\ scan.pc = "pending"
  /\ LET todo == {e \in Entities : /\ Exists(e) /\ ~row[e].excluded
                                   /\ scan.incremental => NeedsRescan(e)}
     IN scan' = [scan EXCEPT !.pc = "refresh", !.covered = {s.doc : s \in pending},
                   !.rows = [e \in Entities |-> IF e \in todo THEN row[e] ELSE NoRow]]
  /\ UNCHANGED <<paperless, table, queue, task, events, books, notes, merges>>

Scanned == {e \in Entities : scan.rows[e] # NoRow}

\* Rows described without a vector are embedded, and those without one left out.
Refresh ==
  /\ scan.pc = "refresh"
  /\ LET old == scan.rows
         todo == {e \in Scanned : old[e].desc # NoText /\ ~old[e].stored}
     IN \E done \in SUBSET todo :
          /\ done = todo \/ "embed" \in Failures
          /\ \A e \in done : Exists(e)
          /\ LET new == [e \in Entities |-> IF e \notin done THEN old[e]
                          ELSE [old[e] EXCEPT !.stored = TRUE, !.vector = TextOf(old[e])]]
                 kept == {e \in Scanned : new[e].stored /\ new[e].vector # NoVector}
             IN /\ row' = [e \in Entities |-> IF e \in done THEN Flush(e, old[e], new[e])
                                              ELSE row[e]]
                /\ Race("scan", done)
                /\ scan' = [scan EXCEPT !.pc = "query", !.left = kept,
                     !.stirred = @ \cup (Scanned \ kept),
                     !.rows = [e \in Entities |-> IF e \in kept THEN new[e] ELSE NoRow]]
  /\ UNCHANGED <<paperless, changed, behind, queue, task, events, fresh, unscanned, notes,
                 merges>>

\* The documents like the entity are looked up, and those that carry it.
Query(e) ==
  /\ scan.pc = "query" /\ e \in scan.left
  /\ \E D \in Affected(e) : scan' = [scan EXCEPT !.left = @ \ {e}, !.found[e] = D,
                                                 !.seen = @ \cup {e}]
  /\ UNCHANGED <<paperless, table, queue, task, events, books, notes, merges>>

\* classify_tag_entity and classify_single_valued_entity, whatever the scores.
Findings ==
  {Finding(e, IF d \in scan.found[e] THEN "remove" ELSE "add", NoEntity, d) :
     e \in IF kind = "tag" THEN Scanned ELSE {}, d \in Docs}
  \cup
  {f \in {Finding(e, a, o, d) : e \in Scanned, d \in Docs, o \in Scanned \cup {NoEntity},
                                a \in {"add", "replace", "review"}} :
     /\ kind = "single"
     /\ f.by # f.ent /\ (f.act = "replace") = (f.by # NoEntity)
     /\ IF f.act = "add" THEN \A e \in Scanned : f.doc \notin scan.found[e]
        ELSE f.doc \in scan.found[f.ent]}

\* Mutant of Blocking: a rejected replacement may be asked about again as a review.
BlockingSame(f) == {Key(f)}

\* _is_dismissed: the dismissals that stand against a finding.
Blocking(f) == {<<f.ent, f.doc, a>> : a \in IF f.act \in {"replace", "review"}
                                            THEN {"replace", "review"} ELSE {f.act}}

\* The documents with the clearest findings are chosen, one suggestion for each, and
\* the names of the entities read from Paperless.
Classify ==
  /\ scan.pc = "query" /\ scan.left = {}
  /\ \E F \in SUBSET {f \in Findings : /\ Blocking(f) \cap scan.blocked = {}
                                       /\ f.doc \notin scan.covered} :
       /\ Cardinality(F) <= MaxFlagged
       /\ \A f, g \in F : f.ent = g.ent /\ f.doc = g.doc => f = g
       /\ LET docs == {f.doc : f \in F} IN
          \E D \in SUBSET docs :
            /\ Cardinality(D) = Min({MaxSuggestions, Cardinality(docs)})
            /\ scan' = [scan EXCEPT !.pc = IF D = {} THEN "stamp" ELSE "fetch",
                 !.flagged = {f \in F : f.doc \in D}, !.docs = D, !.covered = {},
                 !.blocked = {}, !.found = [e \in Entities |-> {}],
                 !.names = [e \in Entities |-> IF e \in alive THEN name[e] ELSE "none"]]
  /\ UNCHANGED <<paperless, table, queue, task, events, books, notes, merges>>

\* Document by document: what it carries now, ...
FetchDoc(d) ==
  /\ scan.pc = "fetch" /\ d \in scan.docs
  /\ scan' = [scan EXCEPT !.pc = "propose", !.at = {d}, !.fetched = carries[d],
                          !.docs = @ \ {d}]
  /\ moved' = moved \ {d}
  /\ unread' = unread \cup {e \in carries[d] : scan.names[e] = "none"}
  /\ UNCHANGED <<paperless, table, queue, task, events, books, slipped, renamed, merges>>

\* (of the entities it has a name for)
Names0 == {scan.names[e] : e \in scan.fetched} \ {"none"}

NameOf(f) == scan.rows[f.ent].name

\* Mutant of IsStale: what changed since the documents were looked up is not minded.
IsStaleNever(f) == FALSE

\* ... which findings it has outrun, ...
IsStale(f) ==
  CASE kind = "tag" /\ f.act = "add"    -> NameOf(f) \in Names0
    [] kind = "tag" /\ f.act = "remove" -> NameOf(f) \notin Names0
    [] kind = "single" /\ f.act = "add" -> scan.fetched # {}
    [] OTHER                            -> scan.fetched # {f.ent}

\* The findings of one kind.
Acting(F, a) == {f \in F : f.act = a}

\* ... what the field is to be (of two values the later finding's), ...
Corrected(F) ==
  IF kind = "tag" THEN {(Names0 \cup {NameOf(f) : f \in Acting(F, "add")})
                          \ {NameOf(f) : f \in Acting(F, "remove")}}
  ELSE LET new == {NameOf(f) : f \in Acting(F, "add")}
                    \cup {scan.rows[f.by].name : f \in Acting(F, "replace")}
       IN IF new = {} THEN {Names0} ELSE {{n} : n \in new}

\* ... and the suggestion.
Propose ==
  /\ scan.pc = "propose"
  /\ LET d == CHOOSE x \in scan.at : TRUE
         valid == {f \in scan.flagged : f.doc = d /\ ~IsStale(f)}
     IN \E v \in Corrected(valid) :
          pending' = IF valid = {} THEN pending
                     ELSE pending \cup {[doc |-> d, acts |-> valid, value |-> v]}
  /\ scan' = [scan EXCEPT !.pc = IF scan.docs = {} THEN "stamp" ELSE "fetch",
                          !.at = {}, !.fetched = {}]
  /\ UNCHANGED <<paperless, table, dismissals, task, events, books, notes, merges>>

\* Every row that is not excluded counts as scanned now.
Stamp ==
  /\ scan.pc = "stamp"
  /\ LET stamped == {e \in Entities : Exists(e) /\ ~row[e].excluded} IN
       /\ changed' = changed \ stamped
       /\ behind' = behind \ stamped
       /\ fresh' = fresh \cup scan.seen
       /\ unscanned' = (unscanned \ scan.seen) \cup scan.stirred
  /\ scan' = IdleScan
  /\ UNCHANGED <<paperless, row, queue, task, events, raced, notes, merges>>

\* The scan ends with an exception: the store fails, or a row it refreshed is gone.
ScanFails ==
  /\ \/ scan.pc \notin {"idle", "refresh"} /\ "query" \in Failures
     \/ scan.pc = "refresh" /\ \E e \in Scanned : ~Exists(e) /\ scan.rows[e].desc # NoText
                                                   /\ ~scan.rows[e].stored
  /\ scan' = IdleScan
  /\ UNCHANGED <<paperless, table, queue, task, events, books, notes, merges>>

\* The process restarts: nothing of the tasks and the scan is kept.
Restart ==
  /\ Event
  /\ unaudited' = unaudited \cup UNION {task[t].audits : t \in Tasks}
  /\ task' = [t \in Tasks |-> Idle]
  /\ scan' = IdleScan
  /\ UNCHANGED <<paperless, table, queue, books, notes, audited, lost, excused, given>>

-----------------------------------------------------------------------------
\* No two entities have one name.
NamesDiffer == \A e, f \in Entities : name[e] = name[f] => e = f \/ name[e] = "none"

\* Entities just synced, or described and scanned.
Init ==
  /\ kind \in {"tag", "single"}
  /\ name \in [Entities -> Names \cup {"none"}] /\ NamesDiffer
  /\ alive = {e \in Entities : name[e] # "none"}
  /\ carries \in [Docs -> SUBSET Entities] /\ \A d \in Docs : MayCarry(carries[d])
  /\ \E x \in Texts \cup {NoText} :
       /\ row = [e \in Entities |->
                IF e \notin alive THEN NoRow
                ELSE IF x = NoText THEN NewRow(name[e])
                ELSE [NewRow(name[e]) EXCEPT !.desc = x, !.stored = TRUE,
                                      !.vector = [name |-> name[e], desc |-> x]]]
       /\ changed = IF x = NoText THEN alive ELSE {}
       /\ fresh = IF x = NoText THEN {} ELSE alive
  /\ behind = {}
  /\ dismissals = {} /\ pending = {} /\ audited = {}
  /\ task = [t \in Tasks |-> Idle] /\ scan = IdleScan /\ events = 0
  /\ raced = {} /\ unscanned = {} /\ slipped = {} /\ renamed = FALSE
  /\ moved = {} /\ unread = {} /\ lost = {} /\ excused = {} /\ given = {} /\ unaudited = {}

TaskStep(t) ==
  \/ \E e \in Entities : \/ \E x \in Texts \cup {NoText} : Patch(t, e, x)
                         \/ Exclude(t, e)
                         \/ GenerateOne(t, e)
                         \/ DescribeFails(t, e)
                         \/ FetchAffected(t, e)
                         \/ \E x \in Texts : Describe(t, e, x)
                         \/ \E R \in SUBSET Entities : Merge(t, e, R)
  \/ \E overwrite \in BOOLEAN : BulkGenerate(t, overwrite)
  \/ Embed(t) \/ EmbedFails(t) \/ Cancel(t) \/ Sync(t) \/ SyncRows(t)
  \/ BulkEdit(t) \/ EditUnanswered(t) \/ Remove(t) \/ RemoveUnanswered(t)
  \/ MergeFails(t) \/ CommitMerge(t)

QueueStep ==
  \/ \E s \in pending : Reject(s) \/ Approve(s)
  \/ \E d \in Docs : Suggest(d)
  \/ \E x \in dismissals : Expire(x)

PaperlessStep ==
  \/ \E d \in Docs, C \in SUBSET Entities : Retag(d, C)
  \/ \E e \in Entities, n \in Names : Create(e, n) \/ Rename(e, n)
  \/ DocsEmbedded

ScanStep ==
  \/ ScheduledScan \/ ManualScan
  \/ ReadRows \/ Refresh \/ Classify \/ Propose \/ Stamp \/ ScanFails
  \/ \E e \in Entities : Query(e)
  \/ \E d \in Docs : FetchDoc(d)

Next == (\E t \in Tasks : TaskStep(t)) \/ QueueStep \/ PaperlessStep \/ ScanStep \/ Restart

Spec == Init /\ [][Next]_vars

-----------------------------------------------------------------------------
Rows == {NoRow} \cup
  [name : Names, desc : Texts \cup {NoText}, stored : BOOLEAN, excluded : BOOLEAN,
   vector : {NoVector} \cup [name : Names, desc : Texts \cup {NoText}]]

Acts == {"add", "remove", "replace", "review"}

FindingRecords == [ent : Entities, act : Acts, by : Entities \cup {NoEntity}, doc : Docs]

TaskRecords ==
  [pc : {"idle", "describe", "embed", "sync", "affected", "edit", "remove", "commit"},
   bulk : BOOLEAN, todo : SUBSET Entities, at : Entities \cup {NoEntity},
   rows : [Entities -> Rows], listed : [Entities -> Names \cup {"none"}],
   keep : Entities \cup {NoEntity}, docs : SUBSET Docs,
   audits : SUBSET (Docs \X Entities \X Entities)]

ScanRecords ==
  [pc : {"idle", "pending", "refresh", "query", "fetch", "propose", "stamp"},
   incremental : BOOLEAN, blocked : SUBSET (Entities \X Docs \X Acts), covered : SUBSET Docs,
   rows : [Entities -> Rows], left : SUBSET Entities, found : [Entities -> SUBSET Docs],
   flagged : SUBSET FindingRecords, names : [Entities -> Names \cup {"none"}],
   docs : SUBSET Docs, at : SUBSET Docs, fetched : SUBSET Entities,
   seen : SUBSET Entities, stirred : SUBSET Entities]

\* Types; a document carries entities that exist, one at most of a single-valued kind.
TypeOK ==
  /\ kind \in {"tag", "single"}
  /\ name \in [Entities -> Names \cup {"none"}]
  /\ alive \subseteq {e \in Entities : name[e] # "none"}
  /\ carries \in [Docs -> SUBSET Entities] /\ \A d \in Docs : MayCarry(carries[d])
  /\ row \in [Entities -> Rows]
  /\ changed \subseteq Entities /\ behind \subseteq Entities
  /\ dismissals \subseteq Entities \X Docs \X Acts
  /\ \A s \in pending : /\ s.doc \in Docs /\ s.acts \subseteq FindingRecords
                         /\ s.value \subseteq Names
  /\ task \in [Tasks -> TaskRecords] /\ scan \in ScanRecords
  /\ events \in 0..MaxEvents

\* Unless two tasks worked on the entity at once, a vector that counts as stored is that of the
\* name and the description the row has (embedding_stored, grooming.py:383, 433, 519).
VectorIsCurrent ==
  \A e \in Entities \ raced : row[e].stored => row[e].vector = TextOf(row[e])

\* The dismissal x is about what the finding f asks.
Asked(x, f) ==
  x[1] = f.ent /\ x[2] = f.doc /\ (x[3] = f.act \/ {x[3], f.act} = {"replace", "review"})

\* What was rejected is not asked again while the rejection is in force, and a
\* replacement and a review are the same question, unless the scan had read the
\* rejections before (grooming.py:869-881, docs/Grooming.md).
PendingIsNotDismissed ==
  \A s \in pending : \A f \in s.acts : \A x \in dismissals \ slipped : ~Asked(x, f)

\* What a merge took from a document without giving it the other entity was not
\* listed by Paperless (a page that failed), or came onto the document later.
MergeKeepsDocuments == lost \subseteq excused

\* What a merge wrote to documents is, or will be, in the audit log, unless a request
\* of the merge failed or was not answered, or the process restarted before its end.
MergeIsAudited ==
  given \subseteq audited \cup unaudited \cup UNION {task[t].audits : t \in Tasks}

\* A merge takes no entity from a document it listed without giving it the other, and a
\* merge that comes to its end loses no audit entry of what it wrote (grooming.py:740-825).
\* Of a merge that fails the audit log says nothing, whatever it wrote.
MergeIsSound == MergeKeepsDocuments /\ MergeIsAudited

\* An entity that a scheduled scan would pass over was examined as it is now, after
\* the last embed, but for those that were stamped by a scan while they changed or had no
\* vector, and those that were renamed (_entity_needs_rescan, grooming.py:104-123).
ScanMissesNothing ==
  \A e \in Entities :
    Exists(e) /\ ~row[e].excluded /\ ~NeedsRescan(e) => e \in fresh \cup unscanned

\* The entities that the suggestion s is to add, to remove and so on; those it puts in the
\* place of others; and what a field with the entities S says.
Ents(s, a)  == {f.ent : f \in Acting(s.acts, a)}
By(s)       == {f.by : f \in s.acts} \ {NoEntity}
NamesOf(S)  == {name[e] : e \in S}

\* Each of its actions does something to a document with the entities C, and the field it
\* proposes is what they make of it, but for tags that the scan had no name for.
Fits(s, C) ==
  IF kind = "tag"
  THEN /\ Ents(s, "add") \cap C = {} /\ Ents(s, "remove") \subseteq C
       /\ LET T == (C \cup Ents(s, "add")) \ Ents(s, "remove") IN
            NamesOf(T \ unread) \subseteq s.value /\ s.value \subseteq NamesOf(T)
  ELSE /\ Ents(s, "add") # {} => C = {}
       /\ Ents(s, "replace") \cup Ents(s, "review") \subseteq C
       /\ LET new == Ents(s, "add") \cup By(s) IN
          \E S \in {{e} : e \in new} \cup {C} : s.value = NamesOf(S) /\ (S = C => new = {})

\* While no entity is renamed, a suggestion fits its document for as long as nobody changes
\* it (grooming.py:1223-1270): of a tag made after the names were read, nothing is promised.
ProposalFits ==
  \A s \in pending : s.acts = {} \/ s.doc \in moved \/ renamed \/ Fits(s, carries[s.doc])

\* The inductive invariants behind these properties.  Unless two tasks worked on it at
\* once, the row a task has loaded is the row.
HeldIsRow ==
  \A e \in Entities \ raced :
    /\ \A t \in Tasks : task[t].rows[e] \in {NoRow, row[e]}
    /\ scan.pc = "refresh" => scan.rows[e] \in {NoRow, row[e]}

\* What a task has to describe or to embed is loaded; a merge leaves out what it keeps,
\* and knows of the documents of the entity it is at, or is excused.
TaskOK(t) ==
  LET r == task[t] IN
  /\ r.pc = "idle" => r = Idle
  /\ r.pc \in {"describe", "embed"} => \A e \in r.todo : r.rows[e] # NoRow
  /\ r.pc = "embed" => r.at \in Entities \ r.todo /\ r.rows[r.at] # NoRow
  /\ r.audits # {} => r.pc \in {"affected", "edit", "remove", "commit"}
  /\ r.pc \in {"affected", "edit", "remove"} => r.keep \in Entities \ r.todo
  /\ r.pc \in {"edit", "remove"} =>
       /\ r.at \in r.todo
       /\ \A d \in Carrying(r.at) : d \in r.docs \/ <<d, r.at>> \in excused
  /\ r.pc = "remove" => r.docs = {}

\* The running scan examines what is due, but for what was stirred up.
Due(e) == Exists(e) /\ ~row[e].excluded /\ NeedsRescan(e)

ScanOK ==
  /\ \A e \in Entities : Exists(e) /\ ~NeedsRescan(e) => e \in fresh \cup unscanned
  /\ \A e \in Entities : Due(e) =>
       /\ scan.pc = "refresh" => e \in Scanned \cup scan.stirred
       /\ scan.pc = "query" => e \in scan.left \cup scan.seen \cup scan.stirred
       /\ scan.pc \in {"fetch", "propose", "stamp"} => e \in scan.seen \cup scan.stirred

\* Until an entity is renamed, whoever has read a name has read the right one.
NamesOK ==
  /\ NamesDiffer
  /\ unread \subseteq {e \in Entities : name[e] # "none"}
  /\ scan.pc = "propose" => {e \in scan.fetched : scan.names[e] = "none"} \subseteq unread
  /\ ~renamed => \A e \in Entities :
       /\ {row[e].name, scan.rows[e].name, scan.names[e]} \subseteq {name[e], "none"}
       /\ \A t \in Tasks : task[t].listed[e] \in {name[e], "none"}
       /\ scan.pc \in {"fetch", "propose"} /\ e \in alive \cap Scanned =>
            scan.names[e] = name[e]

\* The documents that the scan has still to make a suggestion for.
Ahead == scan.docs \cup scan.at

\* No document has two suggestions of a scan, and what a scan is about to ask was
\* neither pending nor rejected when it began.
QueueOK ==
  /\ \A s \in pending : \A f \in s.acts : f.doc = s.doc
  /\ \A s1, s2 \in pending :
       s1.doc = s2.doc /\ s1.acts # {} /\ s2.acts # {} => s1 = s2
  /\ scan.pc = "pending" => dismissals \ slipped \subseteq scan.blocked
  /\ scan.pc \in {"refresh", "query"} =>
       /\ \A x \in dismissals \ slipped : x \in scan.blocked \/ x[2] \in scan.covered
       /\ \A s \in pending : s.acts # {} => s.doc \in scan.covered
  /\ scan.pc \in {"fetch", "propose"} =>
       /\ \A s \in pending : s.acts # {} => s.doc \notin Ahead
       /\ \A f \in scan.flagged, x \in dismissals \ slipped :
            f.doc \in Ahead => ~Asked(x, f)

\* What the scan proposes from is what it classified, and fetched.
ProposalOK ==
  /\ scan.pc \in {"fetch", "propose"} => \A f \in scan.flagged :
       /\ scan.rows[f.ent] # NoRow
       /\ kind = "tag" => f.act \in {"add", "remove"}
       /\ kind = "single" =>
            /\ f.act # "remove" /\ f.by # f.ent /\ (f.act = "replace" <=> f.by # NoEntity)
            /\ f.by # NoEntity => scan.rows[f.by] # NoRow
  /\ scan.pc # "propose" => scan.at = {}
  /\ scan.pc = "propose" => \E d \in Docs \ scan.docs :
       scan.at = {d} /\ (d \in moved \/ scan.fetched = carries[d])

GroomingInv ==
  /\ TypeOK /\ \A t \in Tasks : TaskOK(t)
  /\ HeldIsRow /\ VectorIsCurrent
  /\ ScanOK /\ NamesOK /\ QueueOK /\ ProposalOK
  /\ PendingIsNotDismissed /\ ProposalFits /\ MergeIsSound
=============================================================================
