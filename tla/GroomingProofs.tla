--------------------------- MODULE GroomingProofs ---------------------------
(***************************************************************************)
(* Proofs about Grooming, for any entities, documents, names, texts, tasks *)
(* and failures.                                                           *)
(***************************************************************************)
EXTENDS Grooming, FiniteSetTheorems, TLAPS

\* The rows that the database can have.
RealRows == [name : Names, desc : Texts \cup {NoText}, stored : BOOLEAN, excluded : BOOLEAN,
             vector : {NoVector} \cup [name : Names, desc : Texts \cup {NoText}]]

LEMMA RowSet ==
  /\ Rows = {NoRow} \cup RealRows
  /\ \A r \in RealRows : r # NoRow /\ TextOf(r) \in [name : Names, desc : Texts \cup {NoText}]
<1>1. "none" \notin Names  BY GroomingAssumption
<1>. QED  BY <1>1 DEF Rows, RealRows, NoRow, TextOf

LEMMA NewRows ==
  ASSUME NEW n \in Names
  PROVE  NewRow(n) \in RealRows
  BY DEF NewRow, RealRows

LEMMA DescribedRows ==
  ASSUME NEW r \in RealRows, NEW x \in Texts \cup {NoText}
  PROVE  /\ Described(r, x) \in RealRows /\ ~Described(r, x).stored
         /\ Described(r, x).name = r.name /\ Described(r, x).excluded = r.excluded
  BY DEF Described, RealRows

\* What is written to a row that has not changed since is the new row.
LEMMA FlushTypes ==
  ASSUME NEW e \in Entities, NEW old \in RealRows, NEW new \in RealRows, row[e] \in RealRows
  PROVE  /\ Flush(e, old, new) \in RealRows
         /\ old = row[e] => Flush(e, old, new) = new
         /\ new.name = old.name => Flush(e, old, new).name = row[e].name
         /\ new.excluded = old.excluded => Flush(e, old, new).excluded = row[e].excluded
         /\ new.stored # old.stored => Flush(e, old, new).stored = new.stored
  BY DEF Flush, RealRows

-----------------------------------------------------------------------------
(* Tasks.                                                                  *)

LEMMA Idles == Idle \in TaskRecords /\ IdleScan \in ScanRecords
<1>1. NoRows \in [Entities -> Rows]  BY RowSet DEF NoRows
<1>2. [e \in Entities |-> "none"] \in [Entities -> Names \cup {"none"}]  OBVIOUS
<1>3. [e \in Entities |-> {}] \in [Entities -> SUBSET Docs]  OBVIOUS
<1>. QED  BY <1>1, <1>2, <1>3 DEF Idle, IdleScan, TaskRecords, ScanRecords

LEMMA TaskTypes ==
  ASSUME TypeOK, NEW t \in Tasks
  PROVE  /\ task \in [Tasks -> TaskRecords] /\ task[t] \in TaskRecords
         /\ task[t].rows \in [Entities -> Rows] /\ task[t].todo \subseteq Entities
         /\ task[t].at \in Entities \cup {NoEntity} /\ task[t].keep \in Entities \cup {NoEntity}
         /\ task[t].listed \in [Entities -> Names \cup {"none"}] /\ task[t].docs \subseteq Docs
         /\ task[t].audits \subseteq Docs \X Entities \X Entities /\ task[t].bulk \in BOOLEAN
<1>1. task \in [Tasks -> TaskRecords] /\ task[t] \in TaskRecords  BY DEF TypeOK
<1>. QED  BY <1>1 DEF TaskRecords

LEMMA SetTask ==
  ASSUME TypeOK, NEW t \in Tasks, NEW r, task' = [task EXCEPT ![t] = r]
  PROVE  /\ task'[t] = r /\ \A u \in Tasks \ {t} : task'[u] = task[u]
         /\ r \in TaskRecords => task' \in [Tasks -> TaskRecords]
  BY TaskTypes

\* What the steps that change several fields of a task do to it.
ToEmbed(r, e, new) == [r EXCEPT !.pc = "embed", !.at = e, !.rows = [@ EXCEPT ![e] = new]]
Without(r, e)      == [r EXCEPT !.todo = @ \ {e}]

LEMMA DescribeTask ==
  ASSUME TypeOK, NEW t \in Tasks, NEW e \in Entities, NEW x, Describe(t, e, x)
  PROVE  task' = [task EXCEPT ![t] = ToEmbed(Without(task[t], e), e, Described(task[t].rows[e], x))]
<1>1. task \in [Tasks -> TaskRecords] /\ task[t] \in TaskRecords  BY TaskTypes
<1>. QED  BY <1>1 DEF Describe, TaskRecords, ToEmbed, Without

LEMMA WithoutFields ==
  ASSUME NEW r \in TaskRecords, NEW e \in Entities
  PROVE  LET q == Without(r, e) IN
         /\ q \in TaskRecords /\ q.todo = r.todo \ {e} /\ q.rows = r.rows
         /\ q.listed = r.listed /\ q.audits = r.audits /\ q.at = r.at /\ q.pc = r.pc
  BY DEF Without, TaskRecords

LEMMA ToEmbedFields ==
  ASSUME NEW r \in TaskRecords, NEW e \in Entities, NEW new \in Rows
  PROVE  LET q == ToEmbed(r, e, new) IN
         /\ q \in TaskRecords /\ q.pc = "embed" /\ q.at = e /\ q.todo = r.todo
         /\ q.rows[e] = new /\ \A f \in Entities \ {e} : q.rows[f] = r.rows[f]
         /\ q.listed = r.listed /\ q.audits = r.audits
<1>1. r.rows \in [Entities -> Rows]  BY DEF TaskRecords
<1>2. PICK R \in [Entities -> Rows] : R = [r.rows EXCEPT ![e] = new]  BY <1>1
<1>3. ToEmbed(r, e, new) = [r EXCEPT !.pc = "embed", !.at = e, !.rows = R]
  BY <1>2 DEF ToEmbed
<1>4. R[e] = new /\ \A f \in Entities \ {e} : R[f] = r.rows[f]  BY <1>1, <1>2
<1>. QED  BY <1>3, <1>4 DEF TaskRecords

LEMMA FetchTask ==
  ASSUME TypeOK, NEW t \in Tasks, NEW r \in Entities, FetchAffected(t, r)
  PROVE  \E D \in Affected(r) :
           /\ task' = [task EXCEPT ![t] = [task[t] EXCEPT
                !.pc = IF D = {} THEN "remove" ELSE "edit", !.at = r, !.docs = D,
                !.rows = [@ EXCEPT ![r] = row[r]]]]
           /\ excused' = IF "page" \in Failures
                           THEN excused \cup {<<d, r>> : d \in Carrying(r) \ D} ELSE excused
<1>1. task \in [Tasks -> TaskRecords] /\ task[t] \in TaskRecords  BY TaskTypes
<1>2. PICK D \in Affected(r) :
        /\ task' = [task EXCEPT ![t].pc = IF D = {} THEN "remove" ELSE "edit",
                                ![t].at = r, ![t].docs = D, ![t].rows[r] = row[r]]
        /\ excused' = IF "page" \in Failures
                        THEN excused \cup {<<d, r>> : d \in Carrying(r) \ D} ELSE excused
  BY DEF FetchAffected
<1>3. task' = [task EXCEPT ![t] = [task[t] EXCEPT
                 !.pc = IF D = {} THEN "remove" ELSE "edit", !.at = r, !.docs = D,
                 !.rows = [@ EXCEPT ![r] = row[r]]]]
  BY <1>1, <1>2 DEF TaskRecords
<1>. QED  BY <1>2, <1>3

LEMMA EditTask ==
  ASSUME TypeOK, NEW t \in Tasks, BulkEdit(t)
  PROVE  task' = [task EXCEPT ![t] = [task[t] EXCEPT !.pc = "remove", !.docs = {},
                     !.audits = @ \cup {<<d, task[t].at, task[t].keep>> : d \in task[t].docs}]]
<1>1. task \in [Tasks -> TaskRecords] /\ task[t] \in TaskRecords  BY TaskTypes
<1>. QED  BY <1>1 DEF BulkEdit, Entries, TaskRecords

\* A request that fails leaves nothing of its task.
Ends(t) == MergeFails(t) \/ EditUnanswered(t) \/ RemoveUnanswered(t)

LEMMA EndedTask ==
  ASSUME NEW t, Ends(t)
  PROVE  task' = [task EXCEPT ![t] = Idle]
<1>1. MergeFails(t) => task' = [task EXCEPT ![t] = Idle]  BY DEF MergeFails, AfterFailure
<1>2. EditUnanswered(t) => task' = [task EXCEPT ![t] = Idle]  BY ZenonT(30) DEF EditUnanswered
<1>3. RemoveUnanswered(t) => task' = [task EXCEPT ![t] = Idle]  BY ZenonT(30) DEF RemoveUnanswered
<1>. QED  BY <1>1, <1>2, <1>3 DEF Ends

LEMMA RemoveTask ==
  ASSUME TypeOK, NEW t \in Tasks, Remove(t)
  PROVE  task' = [task EXCEPT ![t] = [task[t] EXCEPT
                    !.pc = IF task[t].todo = {task[t].at} THEN "commit" ELSE "affected",
                    !.todo = @ \ {task[t].at}, !.at = NoEntity]]
<1>1. task \in [Tasks -> TaskRecords] /\ task[t] \in TaskRecords  BY TaskTypes
<1>. QED  BY <1>1 DEF Remove, TaskRecords

LEMMA CancelTask ==
  ASSUME TypeOK, NEW t \in Tasks, Cancel(t)
  PROVE  task' = [task EXCEPT ![t] = [task[t] EXCEPT !.todo = {}]]
<1>1. task \in [Tasks -> TaskRecords] /\ task[t] \in TaskRecords  BY TaskTypes
<1>. QED  BY <1>1 DEF Cancel, TaskRecords

\* A request or a bulk generation changes its own state only.
LEMMA TaskStepTypes ==
  ASSUME TypeOK, NEW t \in Tasks, TaskOK(t), TaskStep(t)
  PROVE  \E r \in TaskRecords : task' = [task EXCEPT ![t] = r]
<1>1. /\ task \in [Tasks -> TaskRecords] /\ task[t] \in TaskRecords
      /\ Idle \in TaskRecords /\ row \in [Entities -> Rows] /\ alive \subseteq Entities
      /\ name \in [Entities -> Names \cup {"none"}] /\ Idle.rows \in [Entities -> Rows]
  BY TaskTypes, Idles DEF TypeOK, TaskRecords
<1>2. task = [task EXCEPT ![t] = task[t]]  BY <1>1
<1>3. \A S \in SUBSET Entities : [task[t] EXCEPT !.todo = S] \in TaskRecords
  BY <1>1 DEF TaskRecords
<1>4. \A r \in TaskRecords : \A u \in Tasks : task' = Goes(t, r) =>
        \E q \in TaskRecords : task' = [task EXCEPT ![t] = q]
  BY <1>1 DEF Goes
<1>5. ASSUME NEW e \in Entities, NEW new \in RealRows, Update(t, e, new)
      PROVE  \E r \in TaskRecords : task' = [task EXCEPT ![t] = r]
  <2>1. [Idle.rows EXCEPT ![e] = new] \in [Entities -> Rows]  BY <1>1, RowSet
  <2>2. [Idle EXCEPT !.pc = "embed", !.at = e, !.rows = [@ EXCEPT ![e] = new]] \in TaskRecords
    BY <1>1, <2>1 DEF TaskRecords
  <2>3. task' = task \/ task' = [task EXCEPT ![t] =
           [Idle EXCEPT !.pc = "embed", !.at = e, !.rows = [@ EXCEPT ![e] = new]]]
    BY <1>5 DEF Update
  <2>. QED  BY <1>1, <1>2, <2>2, <2>3
<1>6. ASSUME NEW e \in Entities, NEW x \in Texts \cup {NoText}, Patch(t, e, x)
      PROVE  \E r \in TaskRecords : task' = [task EXCEPT ![t] = r]
  <2>1. row[e] \in RealRows /\ Update(t, e, Described(row[e], x))
    BY <1>1, <1>6, RowSet DEF Patch, Exists
  <2>. QED  BY <1>5, <2>1, DescribedRows
<1>7. ASSUME NEW e \in Entities, Exclude(t, e)
      PROVE  \E r \in TaskRecords : task' = [task EXCEPT ![t] = r]
  <2>1. row[e] \in RealRows /\ Update(t, e, [row[e] EXCEPT !.excluded = ~@])
    BY <1>1, <1>7, RowSet DEF Exclude, Exists
  <2>2. [row[e] EXCEPT !.excluded = ~@] \in RealRows  BY <2>1 DEF RealRows
  <2>. QED  BY <1>5, <2>1, <2>2
<1>8. ASSUME NEW S \in SUBSET Entities, NEW b \in BOOLEAN, Generate(t, S, b)
      PROVE  \E r \in TaskRecords : task' = [task EXCEPT ![t] = r]
  <2>1. [e \in Entities |-> IF e \in S THEN row[e] ELSE NoRow] \in [Entities -> Rows]
    BY <1>1, RowSet
  <2>2. [Idle EXCEPT !.pc = "describe", !.bulk = b, !.todo = S,
           !.rows = [e \in Entities |-> IF e \in S THEN row[e] ELSE NoRow]] \in TaskRecords
    BY <1>1, <2>1 DEF TaskRecords
  <2>. QED  BY <1>8, <2>2 DEF Generate
<1>9. ASSUME NEW e \in Entities, GenerateOne(t, e)
      PROVE  \E r \in TaskRecords : task' = [task EXCEPT ![t] = r]
  BY <1>8, <1>9 DEF GenerateOne
<1>10. ASSUME NEW b \in BOOLEAN, BulkGenerate(t, b)
       PROVE  \E r \in TaskRecords : task' = [task EXCEPT ![t] = r]
  <2>1. Generate(t, {e \in Entities : Exists(e) /\ (b \/ row[e].desc = NoText)}, TRUE)
    BY <1>10 DEF BulkGenerate
  <2>. QED  BY <1>8, <2>1
<1>11. ASSUME NEW e \in Entities, NEW x \in Texts, Describe(t, e, x)
       PROVE  \E r \in TaskRecords : task' = [task EXCEPT ![t] = r]
  <2>1. task[t].rows[e] \in RealRows
    BY <1>1, <1>11, RowSet DEF TaskOK, Describe, TaskRecords
  <2>2. Described(task[t].rows[e], x) \in Rows  BY <2>1, RowSet, DescribedRows
  <2>3. ToEmbed(Without(task[t], e), e, Described(task[t].rows[e], x)) \in TaskRecords
    BY <1>1, <2>2, ToEmbedFields, WithoutFields
  <2>. QED  BY <1>11, <2>3, DescribeTask
<1>12. ASSUME NEW e \in Entities, DescribeFails(t, e)
       PROVE  \E r \in TaskRecords : task' = [task EXCEPT ![t] = r]
  <2>1. [task[t].rows EXCEPT ![e] = NoRow] \in [Entities -> Rows]
    BY <1>1, RowSet DEF TaskRecords
  <2>2. [task[t] EXCEPT !.todo = @ \ {e}, !.rows = [@ EXCEPT ![e] = NoRow]] \in TaskRecords
    BY <1>1, <2>1 DEF TaskRecords
  <2>3. \/ task' = Goes(t, [task[t] EXCEPT !.todo = @ \ {e}, !.rows = [@ EXCEPT ![e] = NoRow]])
        \/ task' = [task EXCEPT ![t] = Idle]
    BY <1>12 DEF DescribeFails
  <2>. QED  BY <1>1, <1>4, <2>2, <2>3
<1>13. ASSUME Embed(t) \/ EmbedFails(t)
       PROVE  \E r \in TaskRecords : task' = [task EXCEPT ![t] = r]
  <2>1. [task[t].rows EXCEPT ![task[t].at] = NoRow] \in [Entities -> Rows]
    BY <1>1, RowSet DEF TaskRecords
  <2>2. [task[t] EXCEPT !.pc = "describe", !.at = NoEntity,
           !.rows = [@ EXCEPT ![task[t].at] = NoRow]] \in TaskRecords
    BY <1>1, <2>1 DEF TaskRecords
  <2>3. \/ task' = Goes(t, [task[t] EXCEPT !.pc = "describe", !.at = NoEntity,
                             !.rows = [@ EXCEPT ![task[t].at] = NoRow]])
        \/ task' = [task EXCEPT ![t] = Idle]
    BY <1>13 DEF Embed, EmbedFails
  <2>. QED  BY <1>1, <1>4, <2>2, <2>3
<1>14. ASSUME Cancel(t)
       PROVE  \E r \in TaskRecords : task' = [task EXCEPT ![t] = r]
  BY <1>1, <1>3, <1>14, CancelTask
<1>15. ASSUME Sync(t)
       PROVE  \E r \in TaskRecords : task' = [task EXCEPT ![t] = r]
  <2>1. [e \in Entities |-> IF e \in alive THEN name[e] ELSE "none"]
          \in [Entities -> Names \cup {"none"}]
    BY <1>1
  <2>2. [Idle EXCEPT !.pc = "sync", !.listed =
           [e \in Entities |-> IF e \in alive THEN name[e] ELSE "none"]] \in TaskRecords
    BY <1>1, <2>1 DEF TaskRecords
  <2>. QED  BY <1>15, <2>2 DEF Sync
<1>16. ASSUME SyncRows(t) \/ CommitMerge(t) \/ Ends(t)
       PROVE  \E r \in TaskRecords : task' = [task EXCEPT ![t] = r]
  BY <1>1, <1>16, EndedTask DEF SyncRows, CommitMerge
<1>17. ASSUME NEW k \in Entities, NEW R \in SUBSET Entities, Merge(t, k, R)
       PROVE  \E r \in TaskRecords : task' = [task EXCEPT ![t] = r]
  <2>1. [Idle EXCEPT !.pc = "affected", !.todo = R, !.keep = k] \in TaskRecords
    BY <1>1 DEF TaskRecords
  <2>. QED  BY <1>17, <2>1 DEF Merge
<1>18. ASSUME NEW r \in Entities, FetchAffected(t, r)
       PROVE  \E q \in TaskRecords : task' = [task EXCEPT ![t] = q]
  <2>1. \A D \in Affected(r) : D \in SUBSET Docs  BY DEF Affected, Carrying
  <2>2. [task[t].rows EXCEPT ![r] = row[r]] \in [Entities -> Rows]  BY <1>1 DEF TaskRecords
  <2>3. \A D \in Affected(r) : [task[t] EXCEPT
          !.pc = IF D = {} THEN "remove" ELSE "edit", !.at = r, !.docs = D,
          !.rows = [@ EXCEPT ![r] = row[r]]] \in TaskRecords
    BY <1>1, <2>1, <2>2 DEF TaskRecords
  <2>. QED  BY <1>18, <2>3, FetchTask
<1>19. ASSUME BulkEdit(t)
       PROVE  \E r \in TaskRecords : task' = [task EXCEPT ![t] = r]
  <2>1. task[t].at \in Entities /\ task[t].keep \in Entities
    BY <1>1, <1>19 DEF BulkEdit, Reassign, TaskOK, TaskRecords
  <2>2. {<<d, task[t].at, task[t].keep>> : d \in task[t].docs} \subseteq Docs \X Entities \X Entities
    BY <1>1, <2>1 DEF TaskRecords
  <2>3. [task[t] EXCEPT !.pc = "remove", !.docs = {},
           !.audits = @ \cup {<<d, task[t].at, task[t].keep>> : d \in task[t].docs}] \in TaskRecords
    BY <1>1, <2>2 DEF TaskRecords
  <2>. QED  BY <1>19, <2>3, EditTask
<1>20. ASSUME Remove(t)
       PROVE  \E r \in TaskRecords : task' = [task EXCEPT ![t] = r]
  <2>1. [task[t] EXCEPT !.pc = IF task[t].todo = {task[t].at} THEN "commit" ELSE "affected",
           !.todo = @ \ {task[t].at}, !.at = NoEntity] \in TaskRecords
    BY <1>1 DEF TaskRecords
  <2>. QED  BY <1>20, <2>1, RemoveTask
<1>. QED  BY <1>6, <1>7, <1>9, <1>10, <1>11, <1>12, <1>13, <1>14, <1>15, <1>16, <1>17, <1>18,
             <1>19, <1>20 DEF TaskStep, Ends

-----------------------------------------------------------------------------
(* Who changes what.                                                       *)

SamePaperless == UNCHANGED <<kind, alive, name, carries>>
SameRows      == UNCHANGED <<row, raced>>
SameStamps    == UNCHANGED <<changed, behind, fresh, unscanned>>
SameQueue     == UNCHANGED <<dismissals, pending, slipped>>
SameNames     == UNCHANGED <<name, renamed, unread>>
SameMerges    == UNCHANGED <<audited, lost, excused, given, unaudited>>

LEMMA TaskFrames ==
  ASSUME NEW t, NEW e, NEW x, NEW R, NEW b
  PROVE  /\ Patch(t, e, x) \/ Exclude(t, e) \/ Describe(t, e, x) =>
              SamePaperless /\ SameQueue /\ SameNames /\ SameMerges /\ scan' = Stir({e})
         /\ GenerateOne(t, e) \/ BulkGenerate(t, b) =>
              /\ SamePaperless /\ SameQueue /\ SameNames /\ SameMerges /\ UNCHANGED <<scan, row>>
              /\ SameStamps
         /\ DescribeFails(t, e) \/ EmbedFails(t) \/ Cancel(t) \/ Sync(t) \/ Merge(t, e, R) =>
              /\ SamePaperless /\ SameQueue /\ SameNames /\ SameMerges /\ UNCHANGED scan
              /\ SameRows /\ SameStamps
         /\ Embed(t) => /\ SamePaperless /\ SameQueue /\ SameNames /\ SameMerges
                        /\ UNCHANGED scan /\ SameStamps
         /\ SyncRows(t) => SamePaperless /\ SameQueue /\ SameNames /\ SameMerges
         /\ FetchAffected(t, e) => /\ SamePaperless /\ SameQueue /\ SameNames /\ UNCHANGED scan
                                   /\ SameRows /\ SameStamps
         /\ BulkEdit(t) \/ Ends(t) \/ Remove(t) =>
              SameQueue /\ SameNames /\ UNCHANGED scan /\ SameRows /\ SameStamps
         /\ MergeFails(t) => SamePaperless
         /\ CommitMerge(t) => /\ SamePaperless /\ SameQueue /\ SameNames /\ UNCHANGED scan
                              /\ SameStamps
<1>. USE DEF SamePaperless, SameRows, SameStamps, SameQueue, SameNames, SameMerges, paperless,
             queue, notes, merges, table, books
<1>1. Patch(t, e, x) => SamePaperless /\ SameQueue /\ SameNames /\ SameMerges /\ scan' = Stir({e})
  BY DEF Patch, Update, Touch
<1>2. Exclude(t, e) => SamePaperless /\ SameQueue /\ SameNames /\ SameMerges /\ scan' = Stir({e})
  BY DEF Exclude, Update
<1>3. Describe(t, e, x) => /\ SamePaperless /\ SameQueue /\ SameNames /\ SameMerges
                           /\ scan' = Stir({e})
  BY DEF Describe, Touch
<1>4. \A S, c : Generate(t, S, c) =>
              /\ SamePaperless /\ SameQueue /\ SameNames /\ SameMerges /\ UNCHANGED <<scan, row>>
              /\ SameStamps
  BY DEF Generate
<1>5. DescribeFails(t, e) => /\ SamePaperless /\ SameQueue /\ SameNames /\ SameMerges
                             /\ UNCHANGED scan /\ SameRows /\ SameStamps
  BY DEF DescribeFails
<1>6. EmbedFails(t) => /\ SamePaperless /\ SameQueue /\ SameNames /\ SameMerges
                       /\ UNCHANGED scan /\ SameRows /\ SameStamps
  BY DEF EmbedFails
<1>7. Cancel(t) \/ Sync(t) \/ Merge(t, e, R) => /\ SamePaperless /\ SameQueue /\ SameNames
               /\ SameMerges /\ UNCHANGED scan /\ SameRows /\ SameStamps
  BY DEF Cancel, Sync, Merge
<1>8. Embed(t) => /\ SamePaperless /\ SameQueue /\ SameNames /\ SameMerges
                  /\ UNCHANGED scan /\ SameStamps
  BY DEF Embed
<1>9. SyncRows(t) => SamePaperless /\ SameQueue /\ SameNames /\ SameMerges
  <2>1. SyncRows(t) => UNCHANGED <<paperless, behind, queue, events, notes, merges>>
    BY ZenonT(30) DEF SyncRows
  <2>. QED  BY <2>1
<1>10. FetchAffected(t, e) => /\ SamePaperless /\ SameQueue /\ SameNames /\ UNCHANGED scan
                              /\ SameRows /\ SameStamps
  <2>1. FetchAffected(t, e) =>
          UNCHANGED <<paperless, table, queue, scan, events, books, notes, audited, lost, given,
                      unaudited>>
    BY ZenonT(30) DEF FetchAffected
  <2>. QED  BY <2>1
<1>11. Reassign(t) \/ Deleted(t) => /\ SameQueue /\ SameNames /\ UNCHANGED scan /\ SameRows
                                      /\ SameStamps
  BY DEF Reassign, Deleted
<1>12. MergeFails(t) => /\ SameQueue /\ SameNames /\ UNCHANGED scan /\ SameRows /\ SameStamps
                        /\ SamePaperless
  BY DEF MergeFails
<1>13. /\ BulkEdit(t) \/ Ends(t) => Reassign(t) \/ Deleted(t) \/ MergeFails(t)
       /\ Remove(t) => \/ Deleted(t)
                       \/ /\ SameQueue /\ SameNames /\ UNCHANGED scan /\ SameRows
                          /\ SameStamps
  <2>1. Remove(t) => \/ Deleted(t)
                     \/ UNCHANGED <<paperless, table, queue, scan, events, books, notes, audited,
                                    lost, excused, given>>
    BY ZenonT(30) DEF Remove
  <2>2. BulkEdit(t) \/ Ends(t) => Reassign(t) \/ Deleted(t) \/ MergeFails(t)
    BY ZenonT(30) DEF BulkEdit, Ends, EditUnanswered, RemoveUnanswered
  <2>. QED  BY <2>1, <2>2
<1>14. CommitMerge(t) => /\ SamePaperless /\ SameQueue /\ SameNames /\ UNCHANGED scan /\ SameStamps
  BY DEF CommitMerge
<1>15. GenerateOne(t, e) => Generate(t, {e}, FALSE)  BY DEF GenerateOne
<1>16. BulkGenerate(t, b) => \E S : Generate(t, S, TRUE)  BY DEF BulkGenerate
<1>. HIDE DEF SamePaperless, SameRows, SameStamps, SameQueue, SameNames, SameMerges
<1>. QED
  BY <1>1, <1>2, <1>3, <1>4, <1>5, <1>6, <1>7, <1>8, <1>9, <1>10, <1>11, <1>12, <1>13, <1>14,
     <1>15, <1>16

\* What a merge does to Paperless, with and without an answer.
LEMMA Effects ==
  ASSUME NEW t
  PROVE  /\ BulkEdit(t) \/ EditUnanswered(t) => Reassign(t)
         /\ RemoveUnanswered(t) => Deleted(t)
         /\ Remove(t) => \/ Deleted(t)
                         \/ UNCHANGED <<paperless, table, queue, scan, events, books, notes,
                                        audited, lost, excused, given>>
         /\ BulkEdit(t) \/ Remove(t) => unaudited' = unaudited
         /\ Reassign(t) => /\ task[t].pc = "edit"
                           /\ UNCHANGED <<kind, alive, name, events, audited, lost>>
         /\ Deleted(t) => /\ task[t].pc = "remove" /\ Delete(task[t].at)
                          /\ UNCHANGED <<kind, name, events, audited, excused, given>>
         /\ Remove(t) => task[t].pc = "remove"
<1>1. BulkEdit(t) \/ EditUnanswered(t) => Reassign(t)  BY ZenonT(30) DEF BulkEdit, EditUnanswered
<1>2. RemoveUnanswered(t) => Deleted(t)  BY ZenonT(30) DEF RemoveUnanswered
<1>3. /\ Remove(t) => \/ Deleted(t)
                      \/ UNCHANGED <<paperless, table, queue, scan, events, books, notes, audited,
                                     lost, excused, given>>
      /\ Remove(t) => unaudited' = unaudited
  BY ZenonT(30) DEF Remove
<1>4. BulkEdit(t) => unaudited' = unaudited  BY ZenonT(30) DEF BulkEdit
<1>5. Reassign(t) => /\ task[t].pc = "edit"
                     /\ UNCHANGED <<kind, alive, name, events, audited, lost>>
  BY ZenonT(30) DEF Reassign
<1>6. Deleted(t) => /\ task[t].pc = "remove" /\ Delete(task[t].at)
                    /\ UNCHANGED <<kind, name, events, audited, excused, given>>
  BY ZenonT(30) DEF Deleted
<1>7. Remove(t) => task[t].pc = "remove"  BY ZenonT(30) DEF Remove, Deleted
<1>. QED  BY <1>1, <1>2, <1>3, <1>4, <1>5, <1>6, <1>7

LEMMA OtherFrames ==
  ASSUME NEW s, NEW x, NEW d, NEW C, NEW e, NEW n, NEW b
  PROVE  /\ Reject(s) \/ Approve(s) \/ Suggest(d) \/ Expire(x) =>
              /\ SamePaperless /\ SameRows /\ SameStamps /\ SameNames /\ SameMerges
              /\ UNCHANGED <<task, scan>>
         /\ Retag(d, C) => /\ SameRows /\ SameStamps /\ SameQueue /\ SameNames
                           /\ UNCHANGED <<task, scan>>
         /\ Create(e, n) \/ Rename(e, n) =>
              /\ SameRows /\ SameStamps /\ SameQueue /\ SameMerges
              /\ UNCHANGED <<task, scan, kind, carries, moved, unread>>
         /\ DocsEmbedded => /\ SamePaperless /\ SameRows /\ SameQueue /\ SameNames /\ SameMerges
                            /\ UNCHANGED task /\ scan' = Stir(Entities)
         /\ StartScan(b) \/ ReadRows \/ Query(e) \/ Classify \/ ScanFails =>
              /\ SamePaperless /\ SameRows /\ SameStamps /\ SameQueue /\ SameNames /\ SameMerges
              /\ UNCHANGED <<task, moved>>
         /\ Refresh => /\ SamePaperless /\ SameStamps /\ SameQueue /\ SameNames /\ SameMerges
                       /\ UNCHANGED <<task, moved>>
         /\ FetchDoc(d) => /\ SamePaperless /\ SameRows /\ SameStamps /\ SameQueue
                           /\ SameMerges /\ UNCHANGED <<task, renamed>>
         /\ Propose => /\ SamePaperless /\ SameRows /\ SameStamps /\ SameNames /\ SameMerges
                       /\ UNCHANGED <<task, moved, dismissals, slipped>>
         /\ Stamp => /\ SamePaperless /\ SameRows /\ SameQueue /\ SameNames /\ SameMerges
                     /\ UNCHANGED <<task, moved>>
         /\ Restart => /\ SamePaperless /\ SameRows /\ SameStamps /\ SameQueue /\ SameNames
                       /\ UNCHANGED moved
         /\ UNCHANGED vars =>
              /\ SamePaperless /\ SameRows /\ SameStamps /\ SameQueue /\ SameNames /\ SameMerges
              /\ UNCHANGED <<task, scan, moved>>
<1>. USE DEF SamePaperless, SameRows, SameStamps, SameQueue, SameNames, SameMerges, paperless,
             queue, notes, merges, table, books
<1>1. Reject(s) \/ Approve(s) \/ Suggest(d) \/ Expire(x) =>
        /\ SamePaperless /\ SameRows /\ SameStamps /\ SameNames /\ SameMerges
        /\ UNCHANGED <<task, scan>>
  BY DEF Reject, Approve, Suggest, Expire
<1>2. Retag(d, C) => /\ SameRows /\ SameStamps /\ SameQueue /\ SameNames
                     /\ UNCHANGED <<task, scan>>
  BY DEF Retag
<1>3. Create(e, n) \/ Rename(e, n) =>
        /\ SameRows /\ SameStamps /\ SameQueue /\ SameMerges
        /\ UNCHANGED <<task, scan, kind, carries, moved, unread>>
  BY DEF Create, Rename
<1>4. DocsEmbedded => /\ SamePaperless /\ SameRows /\ SameQueue /\ SameNames /\ SameMerges
                      /\ UNCHANGED task /\ scan' = Stir(Entities)
  BY DEF DocsEmbedded, Touch
<1>5. ASSUME StartScan(b) \/ ReadRows \/ Query(e) \/ Classify \/ ScanFails
      PROVE  /\ SamePaperless /\ SameRows /\ SameStamps /\ SameQueue /\ SameNames /\ SameMerges
             /\ UNCHANGED <<task, moved>>
  <2>1. UNCHANGED <<paperless, table, queue, task, books, notes, merges>>
    <3>1. StartScan(b) => UNCHANGED <<paperless, table, queue, task, books, notes, merges>>
      BY ZenonT(30) DEF StartScan
    <3>2. ReadRows \/ Query(e) \/ Classify \/ ScanFails =>
            UNCHANGED <<paperless, table, queue, task, events, books, notes, merges>>
      BY ZenonT(30) DEF ReadRows, Query, Classify, ScanFails
    <3>. QED  BY <1>5, <3>1, <3>2
  <2>. QED  BY <2>1
<1>6. Refresh => /\ SamePaperless /\ SameStamps /\ SameQueue /\ SameNames /\ SameMerges
                 /\ UNCHANGED <<task, moved>>
  <2>1. Refresh => UNCHANGED <<paperless, changed, behind, queue, task, events, fresh, unscanned,
                               notes, merges>>
    BY ZenonT(30) DEF Refresh
  <2>. QED  BY <2>1
<1>7. FetchDoc(d) => /\ SamePaperless /\ SameRows /\ SameStamps /\ SameQueue
                     /\ SameMerges /\ UNCHANGED <<task, renamed>>
  BY DEF FetchDoc
<1>8. Propose => /\ SamePaperless /\ SameRows /\ SameStamps /\ SameNames /\ SameMerges
                 /\ UNCHANGED <<task, moved, dismissals, slipped>>
  <2>1. Propose => UNCHANGED <<paperless, table, dismissals, task, events, books, notes, merges>>
    BY ZenonT(30) DEF Propose
  <2>. QED  BY <2>1
<1>9. Stamp => /\ SamePaperless /\ SameRows /\ SameQueue /\ SameNames /\ SameMerges
               /\ UNCHANGED <<task, moved>>
  BY DEF Stamp
<1>10. Restart => /\ SamePaperless /\ SameRows /\ SameStamps /\ SameQueue /\ SameNames
                  /\ UNCHANGED moved
  BY DEF Restart
<1>11. UNCHANGED vars =>
         /\ SamePaperless /\ SameRows /\ SameStamps /\ SameQueue /\ SameNames /\ SameMerges
         /\ UNCHANGED <<task, scan, moved>>
  BY DEF vars
<1>. HIDE DEF SamePaperless, SameRows, SameStamps, SameQueue, SameNames, SameMerges
<1>. QED
  BY <1>1, <1>2, <1>3, <1>4, <1>5, <1>6, <1>7, <1>8, <1>9, <1>10, <1>11

LEMMA TaskWriters ==
  ASSUME [Next]_vars
  PROVE  UNCHANGED task \/ (\E t \in Tasks : TaskStep(t)) \/ Restart
  BY OtherFrames DEF Next, QueueStep, PaperlessStep, ScanStep, ScheduledScan, ManualScan

\* What a scan examines is stirred up by whatever changes it.
LEMMA ScanWriters ==
  ASSUME [Next]_vars
  PROVE  UNCHANGED scan \/ (\E es \in SUBSET Entities : scan' = Stir(es)) \/ ScanStep \/ Restart
<1>1. ASSUME NEW t \in Tasks, TaskStep(t)
      PROVE  UNCHANGED scan \/ \E es \in SUBSET Entities : scan' = Stir(es)
  <2>1. SyncRows(t) => \E es \in SUBSET Entities : scan' = Stir(es)
    <3>1. SyncRows(t) => scan' = Stir(
             {e \in Entities : ~Exists(e) /\ task[t].listed[e] # "none"}
               \cup {e \in Entities : /\ Exists(e) /\ task[t].listed[e] # "none"
                                     /\ row[e].name # task[t].listed[e]})
      BY ZenonT(30) DEF SyncRows
    <3>. QED  BY <3>1
  <2>2. ASSUME NEW e \in Entities, NEW x, Patch(t, e, x) \/ Exclude(t, e) \/ Describe(t, e, x)
        PROVE  \E es \in SUBSET Entities : scan' = Stir(es)
    <3>1. scan' = Stir({e}) /\ {e} \in SUBSET Entities  BY <2>2, TaskFrames
    <3>. QED  BY <3>1
  <2>3. ASSUME NEW e, NEW R, NEW b,
               \/ GenerateOne(t, e) \/ BulkGenerate(t, b) \/ DescribeFails(t, e) \/ EmbedFails(t)
               \/ Cancel(t) \/ Sync(t) \/ Merge(t, e, R) \/ Embed(t) \/ FetchAffected(t, e)
               \/ BulkEdit(t) \/ Ends(t) \/ Remove(t) \/ CommitMerge(t)
        PROVE  UNCHANGED scan
    BY <2>3, TaskFrames
  <2>. QED  BY <1>1, <2>1, <2>2, <2>3 DEF TaskStep, Ends
<1>2. QueueStep \/ UNCHANGED vars => UNCHANGED scan
  BY OtherFrames DEF QueueStep
<1>3. PaperlessStep => UNCHANGED scan \/ scan' = Stir(Entities)
  BY OtherFrames DEF PaperlessStep
<1>. QED  BY <1>1, <1>2, <1>3 DEF Next

-----------------------------------------------------------------------------
(* The rows.                                                               *)

\* A row with a vector.
Embedded(r) == [r EXCEPT !.stored = TRUE, !.vector = TextOf(r)]

LEMMA EmbeddedRows ==
  ASSUME NEW r \in RealRows
  PROVE  /\ Embedded(r) \in RealRows /\ Embedded(r).stored
         /\ Embedded(r).vector = TextOf(Embedded(r))
         /\ Embedded(r).name = r.name /\ Embedded(r).excluded = r.excluded
<1>1. TextOf(r) \in [name : Names, desc : Texts \cup {NoText}]  BY RowSet
<1>. QED  BY <1>1 DEF Embedded, RealRows, TextOf

LEMMA ScanTypes ==
  ASSUME TypeOK
  PROVE  /\ scan \in ScanRecords /\ scan.rows \in [Entities -> Rows]
         /\ Scanned \subseteq Entities /\ \A e \in Scanned : scan.rows[e] \in RealRows
         /\ row \in [Entities -> Rows] /\ \A e \in Entities : Exists(e) => row[e] \in RealRows
<1>1. scan \in ScanRecords /\ row \in [Entities -> Rows]  BY DEF TypeOK
<1>2. scan.rows \in [Entities -> Rows]  BY <1>1 DEF ScanRecords
<1>. QED  BY <1>1, <1>2, RowSet DEF Scanned, Exists

\* What the refresh of a scan writes, and what it goes on with.
RefreshTo(done, kept) ==
  /\ \A e \in done : Exists(e) /\ scan.rows[e].desc # NoText /\ ~scan.rows[e].stored
  /\ row' = [e \in Entities |->
               IF e \in done THEN Flush(e, scan.rows[e], Embedded(scan.rows[e])) ELSE row[e]]
  /\ Race("scan", done)
  /\ scan' = [scan EXCEPT !.pc = "query", !.left = kept, !.stirred = @ \cup (Scanned \ kept),
                !.rows = [e \in Entities |-> IF e \notin kept THEN NoRow
                            ELSE IF e \in done THEN Embedded(scan.rows[e]) ELSE scan.rows[e]]]

LEMMA RefreshStep ==
  ASSUME TypeOK, Refresh
  PROVE  scan.pc = "refresh" /\ \E done, kept \in SUBSET Scanned : RefreshTo(done, kept)
<1>1. scan.pc = "refresh"  BY ZenonT(30) DEF Refresh
<1>. DEFINE todo == {e \in Scanned : scan.rows[e].desc # NoText /\ ~scan.rows[e].stored}
            new(done) == [e \in Entities |-> IF e \notin done THEN scan.rows[e]
                                             ELSE Embedded(scan.rows[e])]
            kept(done) == {e \in Scanned : new(done)[e].stored /\ new(done)[e].vector # NoVector}
<1>2. PICK done \in SUBSET todo :
        /\ \A e \in done : Exists(e)
        /\ row' = [e \in Entities |-> IF e \in done THEN Flush(e, scan.rows[e], new(done)[e])
                                      ELSE row[e]]
        /\ Race("scan", done)
        /\ scan' = [scan EXCEPT !.pc = "query", !.left = kept(done),
             !.stirred = @ \cup (Scanned \ kept(done)),
             !.rows = [e \in Entities |-> IF e \in kept(done) THEN new(done)[e] ELSE NoRow]]
  BY ZenonT(60) DEF Refresh, Embedded
<1>3. \A e \in Entities : new(done)[e] = IF e \notin done THEN scan.rows[e]
                                         ELSE Embedded(scan.rows[e])
  OBVIOUS
<1>4. done \in SUBSET Scanned /\ kept(done) \in SUBSET Scanned
  OBVIOUS
<1>5. PICK k \in SUBSET Scanned : k = kept(done)  BY <1>4
<1>. HIDE DEF new, kept
<1>6. row' = [e \in Entities |->
               IF e \in done THEN Flush(e, scan.rows[e], Embedded(scan.rows[e])) ELSE row[e]]
  BY <1>2, <1>3
<1>7. [e \in Entities |-> IF e \in k THEN new(done)[e] ELSE NoRow]
        = [e \in Entities |-> IF e \notin k THEN NoRow
                            ELSE IF e \in done THEN Embedded(scan.rows[e]) ELSE scan.rows[e]]
  BY <1>3
<1>8. scan' = [scan EXCEPT !.pc = "query", !.left = k, !.stirred = @ \cup (Scanned \ k),
                !.rows = [e \in Entities |-> IF e \notin k THEN NoRow
                            ELSE IF e \in done THEN Embedded(scan.rows[e]) ELSE scan.rows[e]]]
  BY <1>2, <1>5, <1>7
<1>9. \A e \in done : Exists(e) /\ scan.rows[e].desc # NoText /\ ~scan.rows[e].stored
  BY <1>2
<1>10. RefreshTo(done, k)
  BY <1>2, <1>6, <1>8, <1>9 DEF RefreshTo
<1>. QED  BY <1>1, <1>4, <1>10

\* The row of e is another one, of the same entity.
Rewritten(e) ==
  /\ row[e] \in RealRows /\ row'[e] \in RealRows
  /\ row'[e].name = row[e].name /\ row'[e].excluded = row[e].excluded

LEMMA PatchRow ==
  ASSUME TypeOK, NEW t \in Tasks, NEW e \in Entities, NEW x \in Texts \cup {NoText},
         Patch(t, e, x)
  PROVE  /\ row[e] \in RealRows /\ row' = [row EXCEPT ![e] = Described(row[e], x)]
         /\ Race(t, {e}) /\ task[t].pc = "idle"
<1>1. row[e] \in RealRows  BY ScanTypes DEF Patch
<1>. QED  BY <1>1 DEF Patch, Update

LEMMA PatchTask ==
  ASSUME TypeOK, NEW t \in Tasks, NEW e \in Entities, NEW x \in Texts \cup {NoText},
         Patch(t, e, x)
  PROVE  task' = task \/ task' = [task EXCEPT ![t] = ToEmbed(Idle, e, Described(row[e], x))]
<1>1. \A r : ToEmbed(Idle, e, r) = [Idle EXCEPT !.pc = "embed", !.at = e, !.rows[e] = r]
  BY DEF ToEmbed
<1>. QED  BY <1>1 DEF Patch, Update

LEMMA ExcludeRow ==
  ASSUME TypeOK, NEW t \in Tasks, NEW e \in Entities, Exclude(t, e)
  PROVE  /\ row[e] \in RealRows /\ row'[e] = [row[e] EXCEPT !.excluded = ~@]
         /\ row'[e] \in RealRows /\ row' = [row EXCEPT ![e] = row'[e]]
         /\ Race(t, {e}) /\ task[t].pc = "idle"
<1>1. row[e] \in RealRows /\ row \in [Entities -> Rows]  BY ScanTypes DEF Exclude
<1>2. [row[e] EXCEPT !.excluded = ~@] \in RealRows  BY <1>1 DEF RealRows
<1>3. /\ Race(t, {e}) /\ task[t].pc = "idle"
      /\ row' = [row EXCEPT ![e] = [row[e] EXCEPT !.excluded = ~@]]
  BY DEF Exclude, Update
<1>4. row'[e] = [row[e] EXCEPT !.excluded = ~@]  BY <1>1, <1>3
<1>. QED  BY <1>1, <1>2, <1>3, <1>4

LEMMA ExcludeTask ==
  ASSUME TypeOK, NEW t \in Tasks, NEW e \in Entities, Exclude(t, e)
  PROVE  task' = task \/ task' = [task EXCEPT ![t] = ToEmbed(Idle, e, row'[e])]
<1>1. row'[e] = [row[e] EXCEPT !.excluded = ~@]  BY ExcludeRow
<1>2. \A r : ToEmbed(Idle, e, r) = [Idle EXCEPT !.pc = "embed", !.at = e, !.rows[e] = r]
  BY DEF ToEmbed
<1>. QED  BY <1>1, <1>2 DEF Exclude, Update

LEMMA DescribeRow ==
  ASSUME TypeOK, NEW t \in Tasks, TaskOK(t), NEW e \in Entities, NEW x \in Texts,
         Describe(t, e, x)
  PROVE  LET old == task[t].rows[e] IN
         /\ old \in RealRows /\ row[e] \in RealRows /\ Race(t, {e})
         /\ row' = [row EXCEPT ![e] = Flush(e, old, Described(old, x))] /\ Rewritten(e)
<1>1. task[t].pc = "describe" /\ e \in task[t].todo /\ row[e] # NoRow
  BY DEF Describe, Exists
<1>2. task[t].rows[e] \in Rows /\ row[e] \in Rows /\ row \in [Entities -> Rows]
  BY TaskTypes, ScanTypes
<1>3. task[t].rows[e] \in RealRows /\ row[e] \in RealRows  BY <1>1, <1>2, RowSet DEF TaskOK
<1>. DEFINE old == task[t].rows[e]
            new == Described(old, x)
<1>4. row' = [row EXCEPT ![e] = Flush(e, old, new)] /\ Race(t, {e})  BY DEF Describe
<1>5. row'[e] = Flush(e, old, new)  BY <1>2, <1>4
<1>6. new \in RealRows /\ new.name = old.name /\ new.excluded = old.excluded
  BY <1>3, DescribedRows
<1>. HIDE DEF old, new
<1>7. /\ Flush(e, old, new) \in RealRows /\ Flush(e, old, new).name = row[e].name
      /\ Flush(e, old, new).excluded = row[e].excluded
  BY <1>3, <1>6, FlushTypes DEF old
<1>8. Rewritten(e)  BY <1>3, <1>5, <1>7 DEF Rewritten
<1>. QED  BY <1>3, <1>4, <1>8 DEF old, new

LEMMA EmbedRow ==
  ASSUME TypeOK, NEW t \in Tasks, TaskOK(t), Embed(t)
  PROVE  LET e   == task[t].at
             old == task[t].rows[e] IN
         /\ e \in Entities /\ old \in RealRows /\ row[e] \in RealRows /\ Race(t, {e})
         /\ row' = [row EXCEPT ![e] = Flush(e, old, Embedded(old))] /\ Rewritten(e)
<1>1. task[t].pc = "embed" /\ row[task[t].at] # NoRow  BY DEF Embed, Exists
<1>2. PICK e \in Entities : e = task[t].at  BY <1>1 DEF TaskOK
<1>3. task[t].rows[e] \in Rows /\ row[e] \in Rows /\ row \in [Entities -> Rows]
  BY TaskTypes, ScanTypes
<1>4. task[t].rows[e] \in RealRows /\ row[e] \in RealRows
  BY <1>1, <1>2, <1>3, RowSet DEF TaskOK
<1>. DEFINE old == task[t].rows[e]
            new == Embedded(old)
<1>5. row' = [row EXCEPT ![e] = Flush(e, old, new)] /\ Race(t, {e})
  BY <1>2 DEF Embed, Embedded
<1>6. row'[e] = Flush(e, old, new)  BY <1>3, <1>5
<1>7. new \in RealRows /\ new.name = old.name /\ new.excluded = old.excluded
  BY <1>4, EmbeddedRows
<1>. HIDE DEF old, new
<1>8. /\ Flush(e, old, new) \in RealRows /\ Flush(e, old, new).name = row[e].name
      /\ Flush(e, old, new).excluded = row[e].excluded
  BY <1>4, <1>7, FlushTypes DEF old
<1>9. Rewritten(e)  BY <1>4, <1>6, <1>8 DEF Rewritten
<1>. QED  BY <1>2, <1>4, <1>5, <1>9 DEF old, new

LEMMA RefreshRow ==
  ASSUME TypeOK, NEW done \in SUBSET Scanned, NEW kept \in SUBSET Scanned,
         RefreshTo(done, kept)
  PROVE  /\ row' \in [Entities -> Rows]
         /\ \A e \in Entities :
              IF e \in done
              THEN /\ scan.rows[e] \in RealRows /\ row[e] \in RealRows /\ Rewritten(e)
                   /\ row'[e] = Flush(e, scan.rows[e], Embedded(scan.rows[e]))
              ELSE row'[e] = row[e]
<1>1. /\ row' = [e \in Entities |->
              IF e \in done THEN Flush(e, scan.rows[e], Embedded(scan.rows[e])) ELSE row[e]]
      /\ \A e \in done : Exists(e)
  BY DEF RefreshTo
<1>2. ASSUME NEW e \in done
      PROVE  /\ scan.rows[e] \in RealRows /\ row[e] \in RealRows /\ Rewritten(e)
             /\ row'[e] = Flush(e, scan.rows[e], Embedded(scan.rows[e])) /\ row'[e] \in Rows
  <2>1. e \in Entities /\ scan.rows[e] \in RealRows /\ row[e] \in RealRows
    BY <1>1, ScanTypes
  <2>2. row'[e] = Flush(e, scan.rows[e], Embedded(scan.rows[e]))  BY <1>1, <2>1
  <2>. DEFINE old == scan.rows[e]
              new == Embedded(old)
  <2>3. new \in RealRows /\ new.name = old.name /\ new.excluded = old.excluded
    BY <2>1, EmbeddedRows
  <2>. HIDE DEF old, new
  <2>4. /\ Flush(e, old, new) \in RealRows /\ Flush(e, old, new).name = row[e].name
        /\ Flush(e, old, new).excluded = row[e].excluded
    BY <2>1, <2>3, FlushTypes DEF old
  <2>5. row'[e] = Flush(e, old, new)  BY <2>2 DEF old, new
  <2>. QED  BY <2>1, <2>2, <2>4, <2>5, RowSet DEF Rewritten
<1>3. \A e \in Entities \ done : row'[e] = row[e] /\ row[e] \in Rows  BY <1>1, ScanTypes
<1>4. row' \in [Entities -> Rows]  BY <1>1, <1>2, <1>3
<1>. QED  BY <1>2, <1>3, <1>4

\* The rows that a sync makes, those it gives a new name, and what becomes of a row.
Made(t) == {e \in Entities : ~Exists(e) /\ task[t].listed[e] # "none"}

Retitled(t) == {e \in Entities : /\ Exists(e) /\ task[t].listed[e] # "none"
                                 /\ row[e].name # task[t].listed[e]}

SyncedRow(t, e) ==
  IF task[t].listed[e] = "none" THEN NoRow
  ELSE IF e \in Made(t) THEN NewRow(task[t].listed[e])
  ELSE IF row[e].name = task[t].listed[e] THEN row[e]
  ELSE [row[e] EXCEPT !.name = task[t].listed[e], !.stored = FALSE]

LEMMA SyncRow ==
  ASSUME TypeOK, NEW t \in Tasks, SyncRows(t)
  PROVE  /\ row' \in [Entities -> Rows] /\ task' = [task EXCEPT ![t] = Idle]
         /\ \A e \in Entities : row'[e] = SyncedRow(t, e)
         /\ changed' = changed \cup Made(t) /\ behind' = behind
         /\ scan' = Stir(Made(t) \cup Retitled(t))
         /\ fresh' = fresh \ (Made(t) \cup Retitled(t))
         /\ unscanned' = (unscanned \ Made(t)) \cup Retitled(t)
         /\ Race(t, {e \in Entities : row'[e] # row[e]})
<1>1. /\ row' = [e \in Entities |-> SyncedRow(t, e)] /\ task' = [task EXCEPT ![t] = Idle]
      /\ changed' = changed \cup Made(t)
      /\ scan' = Stir(Made(t) \cup Retitled(t))
      /\ fresh' = fresh \ (Made(t) \cup Retitled(t))
      /\ unscanned' = (unscanned \ Made(t)) \cup Retitled(t)
      /\ UNCHANGED <<paperless, behind, queue, events, notes, merges>>
      /\ Race(t, {e \in Entities : SyncedRow(t, e) # row[e]})
  BY ZenonT(60) DEF SyncRows, SyncedRow, Made, Retitled
<1>2. \A e \in Entities : row'[e] = SyncedRow(t, e)  BY <1>1
<1>3. ASSUME NEW e \in Entities PROVE SyncedRow(t, e) \in Rows
  <2>1. PICK n \in Names \cup {"none"} : n = task[t].listed[e]  BY TaskTypes
  <2>2. PICK r \in Rows : r = row[e]  BY ScanTypes
  <2>3. SyncedRow(t, e) = IF n = "none" THEN NoRow ELSE IF e \in Made(t) THEN NewRow(n)
                          ELSE IF r.name = n THEN r ELSE [r EXCEPT !.name = n, !.stored = FALSE]
    BY <2>1, <2>2 DEF SyncedRow
  <2>4. e \in Made(t) <=> r = NoRow /\ n # "none"  BY <2>1, <2>2 DEF Made, Exists
  <2>5. r \in RealRows /\ n \in Names => [r EXCEPT !.name = n, !.stored = FALSE] \in RealRows
    BY DEF RealRows
  <2>6. n \in Names => NewRow(n) \in RealRows  BY NewRows
  <2>. HIDE DEF RealRows
  <2>. QED  BY <2>1, <2>2, <2>3, <2>4, <2>5, <2>6, RowSet
<1>4. {e \in Entities : SyncedRow(t, e) # row[e]} = {e \in Entities : row'[e] # row[e]}  BY <1>2
<1>5. row' \in [Entities -> Rows]  BY <1>1, <1>3
<1>6. behind' = behind  BY <1>1
<1>. QED  BY <1>1, <1>2, <1>4, <1>5, <1>6

LEMMA CommitRow ==
  ASSUME TypeOK, NEW t \in Tasks, CommitMerge(t)
  PROVE  LET gone == {e \in Entities : task[t].rows[e] # NoRow} IN
         /\ row' = [e \in Entities |-> IF e \in gone THEN NoRow ELSE row[e]]
         /\ row' \in [Entities -> Rows] /\ Race(t, gone) /\ task' = [task EXCEPT ![t] = Idle]
<1>1. row \in [Entities -> Rows] /\ NoRow \in Rows  BY ScanTypes, RowSet
<1>. QED  BY <1>1 DEF CommitMerge

-----------------------------------------------------------------------------
(* What a scan finds.                                                      *)

LEMMA FindingTypes ==
  ASSUME TypeOK, NEW f \in Findings
  PROVE  /\ f \in FindingRecords /\ f.ent \in Scanned /\ f.doc \in Docs
         /\ kind = "tag" => f.act \in {"add", "remove"} /\ f.by = NoEntity
         /\ kind = "single" => /\ f.act \in {"add", "replace", "review"} /\ f.by # f.ent
                               /\ (f.act = "replace" <=> f.by # NoEntity)
                               /\ f.by # NoEntity => f.by \in Scanned
<1>1. kind \in {"tag", "single"} /\ Scanned \subseteq Entities  BY ScanTypes DEF TypeOK
<1>2. CASE kind = "tag" /\ \E e \in Scanned, d \in Docs :
             f = Finding(e, IF d \in scan.found[e] THEN "remove" ELSE "add", NoEntity, d)
  <2>1. PICK e \in Scanned, d \in Docs, a \in {"add", "remove"} : f = Finding(e, a, NoEntity, d)
    BY <1>2
  <2>. QED  BY <1>1, <1>2, <2>1 DEF Finding, FindingRecords, Acts
<1>3. CASE /\ kind = "single"
           /\ f.by # f.ent /\ (f.act = "replace") = (f.by # NoEntity)
           /\ \E e \in Scanned, d \in Docs, o \in Scanned \cup {NoEntity},
                 a \in {"add", "replace", "review"} : f = Finding(e, a, o, d)
  BY <1>1, <1>3 DEF Finding, FindingRecords, Acts
<1>4. CASE f \in {Finding(e, IF d \in scan.found[e] THEN "remove" ELSE "add", NoEntity, d) :
                    e \in IF kind = "tag" THEN Scanned ELSE {}, d \in Docs}
  <2>1. kind = "tag"  BY <1>4
  <2>2. \E e \in Scanned, d \in Docs :
             f = Finding(e, IF d \in scan.found[e] THEN "remove" ELSE "add", NoEntity, d)
    BY <1>4, <2>1
  <2>. QED  BY <1>2, <2>1, <2>2
<1>. QED  BY <1>3, <1>4 DEF Findings

\* The scan goes on from its findings F with the documents D.
Classified(F, D) ==
  [scan EXCEPT !.pc = IF D = {} THEN "stamp" ELSE "fetch",
     !.flagged = {f \in F : f.doc \in D}, !.docs = D, !.covered = {},
     !.blocked = {}, !.found = [e \in Entities |-> {}],
     !.names = [e \in Entities |-> IF e \in alive THEN name[e] ELSE "none"]]

\* What may be asked.
Open(F) ==
  /\ \A f \in F : Blocking(f) \cap scan.blocked = {} /\ f.doc \notin scan.covered
  /\ \A f, g \in F : f.ent = g.ent /\ f.doc = g.doc => f = g

LEMMA ClassifyStep ==
  ASSUME TypeOK, Classify
  PROVE  /\ scan.pc = "query" /\ scan.left = {}
         /\ \E F \in SUBSET Findings, D \in SUBSET Docs :
              Open(F) /\ D \subseteq {f.doc : f \in F} /\ scan' = Classified(F, D)
<1>1. scan.pc = "query" /\ scan.left = {}  BY ZenonT(30) DEF Classify
<1>2. PICK F \in SUBSET {f \in Findings : /\ Blocking(f) \cap scan.blocked = {}
                                         /\ f.doc \notin scan.covered} :
        /\ \A f, g \in F : f.ent = g.ent /\ f.doc = g.doc => f = g
        /\ \E D \in SUBSET {f.doc : f \in F} : scan' = Classified(F, D)
  BY ZenonT(60) DEF Classify, Classified
<1>3. PICK D \in SUBSET {f.doc : f \in F} : scan' = Classified(F, D)
  BY <1>2
<1>4. \A f \in F : f \in Findings /\ Blocking(f) \cap scan.blocked = {} /\ f.doc \notin scan.covered
  OBVIOUS
<1>5. D \in SUBSET Docs
  <2>1. \A f \in F : f.doc \in Docs  BY <1>4, FindingTypes
  <2>. QED  BY <2>1
<1>6. Open(F)  BY <1>2, <1>4 DEF Open
<1>7. F \in SUBSET Findings  BY <1>4
<1>. QED  BY <1>1, <1>3, <1>5, <1>6, <1>7

ClassifiedAs(F, D, s) ==
  /\ s \in ScanRecords /\ s.pc = (IF D = {} THEN "stamp" ELSE "fetch")
  /\ \A f : f \in s.flagged <=> f \in F /\ f.doc \in D
  /\ s.docs = D /\ s.at = scan.at
  /\ \A e \in Entities : s.names[e] = IF e \in alive THEN name[e] ELSE "none"
  /\ s.rows = scan.rows /\ s.seen = scan.seen /\ s.stirred = scan.stirred

LEMMA ClassifiedIs ==
  ASSUME TypeOK, NEW F \in SUBSET Findings, NEW D \in SUBSET Docs
  PROVE  ClassifiedAs(F, D, Classified(F, D))
<1>1. scan \in ScanRecords /\ name \in [Entities -> Names \cup {"none"}]  BY DEF TypeOK
<1>2. PICK G \in SUBSET FindingRecords : G = {f \in F : f.doc \in D}  BY FindingTypes
<1>3. PICK N \in [Entities -> Names \cup {"none"}] :
        N = [e \in Entities |-> IF e \in alive THEN name[e] ELSE "none"]
  BY <1>1
<1>4. PICK E \in [Entities -> SUBSET Docs] : E = [e \in Entities |-> {}]  OBVIOUS
<1>5. PICK p \in {"stamp", "fetch"} : p = IF D = {} THEN "stamp" ELSE "fetch"  OBVIOUS
<1>6. Classified(F, D) = [scan EXCEPT !.pc = p, !.flagged = G, !.docs = D, !.covered = {},
                                      !.blocked = {}, !.found = E, !.names = N]
  BY <1>2, <1>3, <1>4, <1>5, Zenon DEF Classified
<1>7. PICK s : s = [scan EXCEPT !.pc = p, !.flagged = G, !.docs = D, !.covered = {},
                                !.blocked = {}, !.found = E, !.names = N]
  OBVIOUS
<1>8. s = Classified(F, D)  BY <1>6, <1>7
<1>9. /\ s \in ScanRecords /\ s.pc = p /\ s.flagged = G /\ s.docs = D /\ s.at = scan.at
      /\ s.names = N /\ s.rows = scan.rows /\ s.seen = scan.seen /\ s.stirred = scan.stirred
  BY <1>1, <1>7 DEF ScanRecords
<1>10. \A e \in Entities : s.names[e] = IF e \in alive THEN name[e] ELSE "none"  BY <1>3, <1>9
<1>11. s.pc = (IF D = {} THEN "stamp" ELSE "fetch")  BY <1>5, <1>9, Zenon
<1>12. \A f : f \in s.flagged <=> f \in F /\ f.doc \in D  BY <1>2, <1>9
<1>13. ClassifiedAs(F, D, s)  BY <1>9, <1>10, <1>11, <1>12, Zenon DEF ClassifiedAs
<1>. QED  BY <1>8, <1>13

\* What a scan reads of the rows.
ToScan == {e \in Entities : /\ Exists(e) /\ ~row[e].excluded
                            /\ scan.incremental => NeedsRescan(e)}

LEMMA ReadStep ==
  ASSUME TypeOK, ReadRows
  PROVE  /\ scan.pc = "pending" /\ scan' \in ScanRecords /\ scan'.pc = "refresh"
         /\ scan'.covered = {s.doc : s \in pending} /\ scan'.blocked = scan.blocked
         /\ \A e \in Entities : scan'.rows[e] = IF e \in ToScan THEN row[e] ELSE NoRow
         /\ scan'.stirred = scan.stirred /\ scan'.names = scan.names /\ scan'.at = scan.at
<1>1. /\ scan.pc = "pending"
      /\ scan' = [scan EXCEPT !.pc = "refresh", !.covered = {s.doc : s \in pending},
                   !.rows = [e \in Entities |-> IF e \in ToScan THEN row[e] ELSE NoRow]]
  BY ZenonT(60) DEF ReadRows, ToScan
<1>2. scan \in ScanRecords /\ row \in [Entities -> Rows]  BY DEF TypeOK
<1>3. PICK C \in SUBSET Docs : C = {s.doc : s \in pending}  BY DEF TypeOK
<1>4. PICK R \in [Entities -> Rows] : R = [e \in Entities |-> IF e \in ToScan THEN row[e] ELSE NoRow]
  BY <1>2, RowSet
<1>5. scan' = [scan EXCEPT !.pc = "refresh", !.covered = C, !.rows = R]  BY <1>1, <1>3, <1>4, Zenon
<1>6. /\ scan' \in ScanRecords /\ scan'.pc = "refresh" /\ scan'.covered = C /\ scan'.rows = R
      /\ scan'.blocked = scan.blocked /\ scan'.stirred = scan.stirred /\ scan'.names = scan.names
      /\ scan'.at = scan.at
  BY <1>2, <1>5 DEF ScanRecords
<1>7. \A e \in Entities : scan'.rows[e] = IF e \in ToScan THEN row[e] ELSE NoRow  BY <1>4, <1>6
<1>8. scan.pc = "pending"  BY <1>1
<1>. QED  BY <1>3, <1>6, <1>7, <1>8, Zenon

-----------------------------------------------------------------------------
(* Types.                                                                  *)

LEMMA StirTypes ==
  ASSUME TypeOK, NEW es \in SUBSET Entities
  PROVE  /\ Stir(es) \in ScanRecords /\ Stir(es).pc = scan.pc
         /\ scan.pc = "idle" => Stir(es) = scan
         /\ scan.pc # "idle" => /\ Stir(es).seen = scan.seen \ es
                                /\ Stir(es).stirred = scan.stirred \cup es
         /\ Stir(es).rows = scan.rows /\ Stir(es).left = scan.left
         /\ Stir(es).names = scan.names /\ Stir(es).docs = scan.docs /\ Stir(es).at = scan.at
         /\ Stir(es).flagged = scan.flagged /\ Stir(es).fetched = scan.fetched
         /\ Stir(es).blocked = scan.blocked /\ Stir(es).covered = scan.covered
<1>1. scan \in ScanRecords  BY DEF TypeOK
<1>. QED  BY <1>1 DEF Stir, ScanRecords

LEMMA ScanRecordStep ==
  ASSUME TypeOK, [Next]_vars
  PROVE  scan' \in ScanRecords
<1>1. /\ scan \in ScanRecords /\ IdleScan \in ScanRecords /\ row \in [Entities -> Rows]
      /\ name \in [Entities -> Names \cup {"none"}] /\ dismissals \subseteq Entities \X Docs \X Acts
      /\ \A s \in pending : s.doc \in Docs
      /\ carries \in [Docs -> SUBSET Entities]
  BY Idles DEF TypeOK
<1>2. UNCHANGED scan \/ (\E es \in SUBSET Entities : scan' = Stir(es)) \/ ScanFails \/ Stamp
        \/ Restart => scan' \in ScanRecords
  BY <1>1, StirTypes DEF ScanFails, Stamp, Restart
<1>3. ASSUME NEW b \in BOOLEAN, StartScan(b) PROVE scan' \in ScanRecords
  BY <1>1, <1>3 DEF StartScan, ScanRecords
<1>4. CASE ReadRows
  BY <1>4, ReadStep
<1>5. CASE Refresh
  <2>1. PICK done \in SUBSET Scanned, kept \in SUBSET Scanned : RefreshTo(done, kept)
    BY <1>5, RefreshStep
  <2>. DEFINE new == [e \in Entities |-> IF e \notin kept THEN NoRow
                            ELSE IF e \in done THEN Embedded(scan.rows[e]) ELSE scan.rows[e]]
  <2>2. new \in [Entities -> Rows]  BY ScanTypes, EmbeddedRows, RowSet
  <2>3. scan' = [scan EXCEPT !.pc = "query", !.left = kept, !.stirred = @ \cup (Scanned \ kept),
                             !.rows = new]
    BY <2>1 DEF RefreshTo
  <2>4. kept \subseteq Entities /\ Scanned \ kept \subseteq Entities  BY ScanTypes
  <2>. HIDE DEF new
  <2>. QED  BY <1>1, <2>2, <2>3, <2>4 DEF ScanRecords
<1>6. ASSUME NEW e \in Entities, Query(e) PROVE scan' \in ScanRecords
  <2>1. PICK D \in Affected(e) : scan' = [scan EXCEPT !.left = @ \ {e}, !.found[e] = D,
                                                     !.seen = @ \cup {e}]
    BY <1>6, ZenonT(30) DEF Query
  <2>2. D \in SUBSET Docs  BY DEF Affected, Carrying
  <2>. QED  BY <1>1, <2>1, <2>2 DEF ScanRecords
<1>7. CASE Classify
  <2>1. PICK F \in SUBSET Findings, D \in SUBSET Docs : scan' = Classified(F, D)
    BY <1>7, ClassifyStep
  <2>. QED  BY <2>1, ClassifiedIs DEF ClassifiedAs
<1>8. ASSUME NEW d \in Docs, FetchDoc(d) PROVE scan' \in ScanRecords
  BY <1>1, <1>8 DEF FetchDoc, ScanRecords
<1>9. CASE Propose
  <2>1. scan' = [scan EXCEPT !.pc = IF scan.docs = {} THEN "stamp" ELSE "fetch",
                          !.at = {}, !.fetched = {}]
    BY <1>9, ZenonT(30) DEF Propose
  <2>2. PICK p \in {"stamp", "fetch"} : p = IF scan.docs = {} THEN "stamp" ELSE "fetch"  OBVIOUS
  <2>3. scan' = [scan EXCEPT !.pc = p, !.at = {}, !.fetched = {}]  BY <2>1, <2>2, Zenon
  <2>. QED  BY <1>1, <2>3 DEF ScanRecords
<1>. QED
  BY <1>2, <1>3, <1>4, <1>5, <1>6, <1>7, <1>8, <1>9, ScanWriters DEF ScanStep, ScheduledScan, ManualScan

\* A document carries entities that exist, and one at most of a single-valued kind.
LEMMA CarriedTypes ==
  ASSUME TypeOK
  PROVE  /\ kind \in {"tag", "single"} /\ alive \subseteq Entities
         /\ name \in [Entities -> Names \cup {"none"}] /\ \A e \in alive : name[e] \in Names
         /\ carries \in [Docs -> SUBSET Entities]
         /\ \A d \in Docs : /\ carries[d] \subseteq alive /\ IsFiniteSet(carries[d])
                            /\ kind = "single" => Cardinality(carries[d]) <= 1
<1>1. \A d \in Docs : carries[d] \subseteq alive /\ carries[d] \subseteq Entities
  BY DEF TypeOK, MayCarry
<1>2. \A d \in Docs : IsFiniteSet(carries[d])
  <2>1. IsFiniteSet(Entities)  BY GroomingAssumption
  <2>. QED  BY <1>1, <2>1, FS_Subset
<1>. QED  BY <1>1, <1>2 DEF TypeOK, MayCarry

LEMMA DeleteTypes ==
  ASSUME TypeOK, NEW e \in Entities, Delete(e), UNCHANGED <<kind, name>>
  PROVE  /\ alive' = alive \ {e} /\ carries' \in [Docs -> SUBSET Entities]
         /\ \A d \in Docs : carries'[d] = carries[d] \ {e} /\ MayCarry(carries[d])'
<1>1. alive' = alive \ {e} /\ carries' = [d \in Docs |-> carries[d] \ {e}]  BY DEF Delete
<1>2. carries' \in [Docs -> SUBSET Entities] /\ \A d \in Docs : carries'[d] = carries[d] \ {e}
  BY <1>1, CarriedTypes
<1>3. ASSUME NEW d \in Docs PROVE MayCarry(carries[d])'
  <2>1. carries[d] \subseteq alive /\ IsFiniteSet(carries[d])
        /\ (kind = "single" => Cardinality(carries[d]) <= 1)
    BY CarriedTypes
  <2>2. /\ IsFiniteSet(carries[d] \ {e}) /\ Cardinality(carries[d] \ {e}) \in Nat
        /\ Cardinality(carries[d]) \in Nat
        /\ Cardinality(carries[d] \ {e}) <= Cardinality(carries[d])
    BY <2>1, FS_Subset, FS_CardinalityType
  <2>3. kind = "single" => Cardinality(carries[d] \ {e}) <= 1  BY <2>1, <2>2
  <2>4. carries'[d] \subseteq alive'  BY <1>1, <1>2, <2>1
  <2>. QED  BY <1>2, <2>3, <2>4 DEF MayCarry
<1>. QED  BY <1>1, <1>2, <1>3

LEMMA EditTypes ==
  ASSUME TypeOK, NEW t \in Tasks, Reassign(t), TaskOK(t)
  PROVE  LET r == task[t].at
             k == task[t].keep
             D == task[t].docs
         IN /\ r \in Entities /\ k \in alive /\ k # r
            /\ Carry([d \in Docs |-> IF d \in D THEN Reassigned(d, r, k) ELSE carries[d]])
            /\ given' = given \cup {<<d, r, k>> : d \in D}
            /\ UNCHANGED <<kind, alive, name>> /\ carries' \in [Docs -> SUBSET Entities]
            /\ \A d \in Docs : /\ carries'[d] = IF d \in D THEN Reassigned(d, r, k) ELSE carries[d]
                               /\ MayCarry(carries[d])'
<1>1. task[t].pc = "edit" /\ task[t].keep \in alive  BY ZenonT(30) DEF Reassign
<1>2. task[t].at \in task[t].todo /\ task[t].keep \in Entities \ task[t].todo
  BY <1>1 DEF TaskOK
<1>3. PICK r \in Entities, k \in alive : r = task[t].at /\ k = task[t].keep /\ k # r
  BY <1>1, <1>2, TaskTypes
<1>4. /\ Carry([d \in Docs |-> IF d \in task[t].docs THEN Reassigned(d, r, k) ELSE carries[d]])
      /\ given' = given \cup {<<d, r, k>> : d \in task[t].docs}
  BY <1>3, ZenonT(30) DEF Reassign
<1>5. UNCHANGED <<kind, alive, name>>  BY Effects
<1>6. ASSUME NEW d \in Docs PROVE /\ Reassigned(d, r, k) \in SUBSET Entities
                                  /\ MayCarry(Reassigned(d, r, k))
  <2>1. carries[d] \subseteq alive /\ alive \subseteq Entities /\ kind \in {"tag", "single"}
    BY CarriedTypes
  <2>2. CASE kind = "tag"  BY <2>1, <2>2 DEF Reassigned, MayCarry
  <2>3. CASE kind = "single"
    <3>1. Cardinality({k}) = 1  BY FS_Singleton
    <3>. QED  BY <2>1, <2>3, <3>1 DEF Reassigned, MayCarry
  <2>. QED  BY <2>1, <2>2, <2>3
<1>7. \A d \in Docs : carries[d] \in SUBSET Entities /\ MayCarry(carries[d])  BY DEF TypeOK
<1>8. carries' = [d \in Docs |-> IF d \in task[t].docs THEN Reassigned(d, r, k) ELSE carries[d]]
  BY <1>4 DEF Carry
<1>9. carries' \in [Docs -> SUBSET Entities]  BY <1>6, <1>7, <1>8
<1>10. \A d \in Docs :
         carries'[d] = IF d \in task[t].docs THEN Reassigned(d, r, k) ELSE carries[d]
  BY <1>8
<1>11. \A d \in Docs : MayCarry(carries'[d])  BY <1>6, <1>7, <1>10
<1>12. \A d \in Docs : MayCarry(carries[d])'  BY <1>5, <1>11 DEF MayCarry
<1>. QED  BY <1>3, <1>4, <1>5, <1>9, <1>10, <1>12

\* Paperless, as it can be.
PaperlessOK ==
  /\ kind \in {"tag", "single"} /\ name \in [Entities -> Names \cup {"none"}]
  /\ alive \subseteq {e \in Entities : name[e] # "none"}
  /\ carries \in [Docs -> SUBSET Entities] /\ \A d \in Docs : MayCarry(carries[d])

LEMMA PaperlessTypes ==
  ASSUME TypeOK, \A t \in Tasks : TaskOK(t), [Next]_vars
  PROVE  PaperlessOK'
<1>1. PaperlessOK  BY DEF TypeOK, PaperlessOK
<1>2. SamePaperless => PaperlessOK'
  BY <1>1 DEF SamePaperless, PaperlessOK, MayCarry
<1>3. ASSUME NEW t \in Tasks, Reassign(t) PROVE PaperlessOK'
  BY <1>1, <1>3, EditTypes DEF PaperlessOK
<1>4. ASSUME NEW t \in Tasks, Deleted(t) PROVE PaperlessOK'
  <2>1. UNCHANGED <<kind, name>> /\ Delete(task[t].at) /\ task[t].pc = "remove"
    BY <1>4, Effects
  <2>2. PICK r \in Entities : r = task[t].at  BY <2>1, TaskTypes DEF TaskOK
  <2>. QED  BY <1>1, <2>1, <2>2, DeleteTypes DEF PaperlessOK
<1>5. ASSUME NEW d \in Docs, NEW C \in SUBSET Entities, Retag(d, C) PROVE PaperlessOK'
  <2>1. /\ MayCarry(C) /\ carries' = [carries EXCEPT ![d] = C] /\ UNCHANGED <<kind, alive, name>>
    BY <1>5 DEF Retag, Carry
  <2>2. carries' \in [Docs -> SUBSET Entities]  BY <2>1, CarriedTypes
  <2>3. \A c \in Docs : MayCarry(carries'[c])  BY <2>1, CarriedTypes DEF TypeOK
  <2>4. \A c \in Docs : MayCarry(carries[c])'  BY <2>1, <2>3 DEF MayCarry
  <2>. QED  BY <1>1, <2>1, <2>2, <2>4 DEF PaperlessOK
<1>6. ASSUME NEW e \in Entities, NEW n \in Names, Create(e, n) \/ Rename(e, n)
      PROVE  PaperlessOK'
  <2>1. /\ name' = [name EXCEPT ![e] = n] /\ UNCHANGED <<kind, carries>>
        /\ alive' \in {alive, alive \cup {e}} /\ n # "none"
    BY <1>6, GroomingAssumption DEF Create, Rename
  <2>2. \A f \in Entities : name'[f] = IF f = e THEN n ELSE name[f]  BY <2>1, CarriedTypes
  <2>3. name' \in [Entities -> Names \cup {"none"}]  BY <2>1, CarriedTypes
  <2>4. alive' \subseteq {f \in Entities : name'[f] # "none"}  BY <1>1, <2>1, <2>2 DEF PaperlessOK
  <2>5. \A d \in Docs : MayCarry(carries[d])'  BY <1>1, <2>1 DEF PaperlessOK, MayCarry
  <2>. QED  BY <1>1, <2>1, <2>3, <2>4, <2>5 DEF PaperlessOK
<1>7. ASSUME NEW t \in Tasks, TaskStep(t)
      PROVE  SamePaperless \/ Reassign(t) \/ Deleted(t)
  <2>1. MergeFails(t) => SamePaperless  BY TaskFrames
  <2>2. BulkEdit(t) \/ EditUnanswered(t) \/ Remove(t) \/ RemoveUnanswered(t) =>
          SamePaperless \/ Reassign(t) \/ Deleted(t)
    BY Effects DEF SamePaperless, paperless
  <2>. QED  BY <1>7, <2>1, <2>2, TaskFrames DEF TaskStep
<1>8. QueueStep \/ ScanStep \/ DocsEmbedded \/ Restart \/ UNCHANGED vars => SamePaperless
  BY OtherFrames DEF QueueStep, ScanStep, ScheduledScan, ManualScan
<1>. QED  BY <1>2, <1>3, <1>4, <1>5, <1>6, <1>7, <1>8 DEF Next, PaperlessStep

LEMMA RowTypes ==
  ASSUME TypeOK, \A t \in Tasks : TaskOK(t), [Next]_vars
  PROVE  row' \in [Entities -> Rows]
<1>1. row \in [Entities -> Rows] /\ \A r \in RealRows : r \in Rows  BY ScanTypes, RowSet
<1>2. ASSUME NEW t \in Tasks, NEW e \in Entities, NEW x \in Texts \cup {NoText}, Patch(t, e, x)
      PROVE  row' \in [Entities -> Rows]
  <2>1. row[e] \in RealRows /\ row' = [row EXCEPT ![e] = Described(row[e], x)]
    BY <1>2, PatchRow
  <2>. QED  BY <1>1, <2>1, DescribedRows
<1>3. ASSUME NEW t \in Tasks, NEW e \in Entities, Exclude(t, e) PROVE row' \in [Entities -> Rows]
  <2>1. row'[e] \in RealRows /\ row' = [row EXCEPT ![e] = row'[e]]
    BY <1>3, ExcludeRow, Zenon
  <2>. QED  BY <1>1, <2>1
<1>4. ASSUME NEW t \in Tasks, NEW e \in Entities, NEW x \in Texts, Describe(t, e, x)
      PROVE  row' \in [Entities -> Rows]
  <2>1. PICK q : row' = [row EXCEPT ![e] = q]  BY <1>4, DescribeRow
  <2>2. row'[e] \in RealRows  BY <1>4, DescribeRow DEF Rewritten
  <2>. QED  BY <1>1, <2>1, <2>2
<1>5. ASSUME NEW t \in Tasks, Embed(t) PROVE row' \in [Entities -> Rows]
  <2>1. PICK e \in Entities : e = task[t].at  BY <1>5, EmbedRow
  <2>2. PICK q : row' = [row EXCEPT ![e] = q]  BY <1>5, <2>1, EmbedRow
  <2>3. row'[e] \in RealRows  BY <1>5, <2>1, EmbedRow DEF Rewritten
  <2>. QED  BY <1>1, <2>2, <2>3
<1>6. ASSUME NEW t \in Tasks, SyncRows(t) \/ CommitMerge(t) PROVE row' \in [Entities -> Rows]
  BY <1>6, SyncRow, CommitRow
<1>7. CASE Refresh  BY <1>7, RefreshStep, RefreshRow
<1>8. ASSUME NEW t \in Tasks, TaskStep(t), ~Embed(t), ~SyncRows(t), ~CommitMerge(t),
             \A e \in Entities : /\ \A x \in Texts \cup {NoText} : ~Patch(t, e, x)
                                 /\ ~Exclude(t, e)
                                 /\ \A x \in Texts : ~Describe(t, e, x)
      PROVE  UNCHANGED row
  BY <1>8, TaskFrames DEF TaskStep, SameRows, Ends
<1>9. QueueStep \/ (ScanStep /\ ~Refresh) \/ PaperlessStep \/ Restart \/ UNCHANGED vars
        => UNCHANGED row
  BY OtherFrames DEF QueueStep, ScanStep, ScheduledScan, ManualScan, PaperlessStep, SameRows
<1>. QED  BY <1>1, <1>2, <1>3, <1>4, <1>5, <1>6, <1>7, <1>8, <1>9 DEF Next

LEMMA StampTypes ==
  ASSUME TypeOK, [Next]_vars
  PROVE  changed' \subseteq Entities /\ behind' \subseteq Entities
<1>1. changed \subseteq Entities /\ behind \subseteq Entities  BY DEF TypeOK
<1>2. SameStamps => changed' \subseteq Entities /\ behind' \subseteq Entities
  BY <1>1 DEF SameStamps
<1>3. ASSUME NEW t \in Tasks, NEW e \in Entities, NEW x,
             Patch(t, e, x) \/ Exclude(t, e) \/ Describe(t, e, x)
      PROVE  changed' \subseteq Entities /\ behind' \subseteq Entities
  BY <1>1, <1>3 DEF Patch, Exclude, Describe, Update
<1>4. ASSUME NEW t \in Tasks, SyncRows(t)
      PROVE  changed' \subseteq Entities /\ behind' \subseteq Entities
  BY <1>1, <1>4, SyncRow DEF Made
<1>5. DocsEmbedded \/ Stamp => changed' \subseteq Entities /\ behind' \subseteq Entities
  BY <1>1 DEF DocsEmbedded, Stamp
<1>6. ASSUME NEW t \in Tasks, TaskStep(t), ~SyncRows(t),
             \A e \in Entities : /\ \A x \in Texts \cup {NoText} : ~Patch(t, e, x)
                                 /\ ~Exclude(t, e)
                                 /\ \A x \in Texts : ~Describe(t, e, x)
      PROVE  SameStamps
  BY <1>6, TaskFrames DEF TaskStep, Ends
<1>7. QueueStep \/ (ScanStep /\ ~Stamp) \/ (PaperlessStep /\ ~DocsEmbedded) \/ Restart
        \/ UNCHANGED vars => SameStamps
  BY OtherFrames DEF QueueStep, ScanStep, ScheduledScan, ManualScan, PaperlessStep
<1>. QED  BY <1>2, <1>3, <1>4, <1>5, <1>6, <1>7 DEF Next

\* What a scan suggests for the document d.
Valid(d) == {f \in scan.flagged : f.doc = d /\ ~IsStale(f)}

LEMMA ProposeStep ==
  ASSUME Propose, NEW d, scan.at = {d}
  PROVE  /\ scan.pc = "propose"
         /\ \E v \in Corrected(Valid(d)) :
              pending' = IF Valid(d) = {} THEN pending
                         ELSE pending \cup {[doc |-> d, acts |-> Valid(d), value |-> v]}
         /\ scan' = [scan EXCEPT !.pc = IF scan.docs = {} THEN "stamp" ELSE "fetch",
                                 !.at = {}, !.fetched = {}]
<1>1. d = CHOOSE x \in scan.at : TRUE  OBVIOUS
<1>2. scan.pc = "propose"  BY ZenonT(30) DEF Propose
<1>3. \E v \in Corrected(Valid(d)) :
        pending' = IF Valid(d) = {} THEN pending
                   ELSE pending \cup {[doc |-> d, acts |-> Valid(d), value |-> v]}
  BY <1>1, ZenonT(60) DEF Propose, Valid
<1>4. scan' = [scan EXCEPT !.pc = IF scan.docs = {} THEN "stamp" ELSE "fetch",
                           !.at = {}, !.fetched = {}]
  BY ZenonT(30) DEF Propose
<1>. QED  BY <1>2, <1>3, <1>4, Zenon

\* A suggestion in the queue.
Pending(s) == s.doc \in Docs /\ s.acts \subseteq FindingRecords /\ s.value \subseteq Names

LEMMA QueueTypes ==
  ASSUME TypeOK, ProposalOK, [Next]_vars
  PROVE  /\ dismissals' \subseteq Entities \X Docs \X Acts
         /\ \A s \in pending' : Pending(s)
<1>1. /\ dismissals \subseteq Entities \X Docs \X Acts
      /\ \A s \in pending : Pending(s)
  BY DEF TypeOK, Pending
<1>2. ASSUME NEW s \in pending, Reject(s)
      PROVE  /\ dismissals' \subseteq Entities \X Docs \X Acts
             /\ \A s2 \in pending' : Pending(s2)
  <2>1. \A f \in s.acts : Key(f) \in Entities \X Docs \X Acts
    <3>1. \A f \in s.acts : f \in FindingRecords  BY <1>1 DEF Pending
    <3>2. \A f \in FindingRecords : Key(f) \in Entities \X Docs \X Acts
      BY DEF Key, FindingRecords
    <3>. QED  BY <3>1, <3>2
  <2>2. pending' = pending \ {s} /\ dismissals' = dismissals \cup {Key(f) : f \in s.acts}
    BY <1>2 DEF Reject
  <2>. QED  BY <1>1, <2>1, <2>2
<1>3. ASSUME NEW d \in Docs, Suggest(d)
      PROVE  /\ dismissals' \subseteq Entities \X Docs \X Acts
             /\ \A s \in pending' : Pending(s)
  BY <1>1, <1>3 DEF Suggest, Pending
<1>4. ASSUME Propose
      PROVE  /\ dismissals' \subseteq Entities \X Docs \X Acts
             /\ \A s \in pending' : Pending(s)
  <2>1. scan.pc = "propose"  BY <1>4, ZenonT(30) DEF Propose
  <2>2. PICK d \in Docs : scan.at = {d}  BY <2>1 DEF ProposalOK
  <2>3. scan \in ScanRecords  BY DEF TypeOK
  <2>4. Valid(d) \subseteq FindingRecords  BY <2>3 DEF ScanRecords, Valid
  <2>5. PICK v \in Corrected(Valid(d)) : pending' = IF Valid(d) = {} THEN pending
                   ELSE pending \cup {[doc |-> d, acts |-> Valid(d), value |-> v]}
    BY <1>4, <2>2, ProposeStep, Zenon
  <2>6. dismissals' = dismissals  BY <1>4, OtherFrames
  <2>7. v \subseteq Names
    <3>1. scan.names \in [Entities -> Names \cup {"none"}] /\ scan.fetched \subseteq Entities
      BY <2>3 DEF ScanRecords
    <3>2. Names0 \subseteq Names  BY <3>1 DEF Names0
    <3>3. \A e : scan.rows[e] # NoRow /\ e \in Entities => scan.rows[e].name \in Names
      BY ScanTypes DEF Scanned, RealRows
    <3>4. \A f \in Valid(d) : /\ NameOf(f) \in Names
                              /\ kind = "single" /\ f.act = "replace" => scan.rows[f.by].name \in Names
      <4>1. SUFFICES ASSUME NEW f \in Valid(d)
                     PROVE  /\ NameOf(f) \in Names
                            /\ kind = "single" /\ f.act = "replace" => scan.rows[f.by].name \in Names
        OBVIOUS
      <4>2. f \in scan.flagged /\ f.ent \in Entities /\ f.by \in Entities \cup {NoEntity}
        BY <2>4 DEF Valid, FindingRecords
      <4>3. /\ scan.rows[f.ent] # NoRow
            /\ kind = "single" /\ f.act = "replace" => f.by # NoEntity /\ scan.rows[f.by] # NoRow
        BY <2>1, <4>2 DEF ProposalOK
      <4>. QED  BY <3>3, <4>2, <4>3 DEF NameOf
    <3>5. CASE kind = "tag"
      <4>1. v = (Names0 \cup {NameOf(f) : f \in Acting(Valid(d), "add")})
                  \ {NameOf(f) : f \in Acting(Valid(d), "remove")}
        BY <2>5, <3>5 DEF Corrected
      <4>. QED  BY <3>2, <3>4, <4>1 DEF Acting
    <3>6. CASE kind = "single"
      <4>. DEFINE new == {NameOf(f) : f \in Acting(Valid(d), "add")}
                           \cup {scan.rows[f.by].name : f \in Acting(Valid(d), "replace")}
      <4>1. new \subseteq Names  BY <3>4, <3>6 DEF Acting
      <4>2. v \in IF new = {} THEN {Names0} ELSE {{n} : n \in new}
        BY <2>5, <3>6 DEF Corrected
      <4>. HIDE DEF new
      <4>. QED  BY <3>2, <4>1, <4>2
    <3>. QED  BY <3>5, <3>6, CarriedTypes
  <2>. QED  BY <1>1, <2>2, <2>4, <2>5, <2>6, <2>7 DEF Pending
<1>5. (\E s \in pending : Approve(s)) \/ (\E x \in dismissals : Expire(x)) =>
        /\ dismissals' \subseteq Entities \X Docs \X Acts
        /\ \A s \in pending' : Pending(s)
  BY <1>1 DEF Approve, Expire
<1>6. ASSUME NEW t \in Tasks, TaskStep(t) PROVE SameQueue
  BY <1>6, TaskFrames DEF TaskStep, Ends
<1>7. (ScanStep /\ ~Propose) \/ PaperlessStep \/ Restart \/ UNCHANGED vars => SameQueue
  BY OtherFrames DEF ScanStep, ScheduledScan, ManualScan, PaperlessStep
<1>. QED  BY <1>1, <1>2, <1>3, <1>4, <1>5, <1>6, <1>7 DEF Next, QueueStep, SameQueue

LEMMA EventStep ==
  ASSUME [Next]_vars
  PROVE  UNCHANGED events \/ Event
<1>1. ASSUME NEW t, NEW e, NEW x, NEW R, NEW b
      PROVE  /\ Patch(t, e, x) \/ Exclude(t, e) \/ GenerateOne(t, e) \/ BulkGenerate(t, b) \/ Sync(t)
                  \/ Merge(t, e, R) => Event
             /\ Describe(t, e, x) \/ DescribeFails(t, e) \/ EmbedFails(t) \/ Cancel(t)
                  \/ MergeFails(t) \/ CommitMerge(t) => UNCHANGED events
  BY DEF Patch, Exclude, GenerateOne, BulkGenerate, Generate, Sync, Merge, Describe, DescribeFails,
         EmbedFails, Cancel, MergeFails, CommitMerge
<1>2. ASSUME NEW t, NEW r
      PROVE  Embed(t) \/ SyncRows(t) \/ FetchAffected(t, r) \/ BulkEdit(t) \/ Remove(t)
               \/ EditUnanswered(t) \/ RemoveUnanswered(t) => UNCHANGED events
  <2>1. Embed(t) => UNCHANGED events  BY ZenonT(30) DEF Embed
  <2>2. SyncRows(t) => UNCHANGED <<paperless, behind, queue, events, notes, merges>>
    BY ZenonT(30) DEF SyncRows
  <2>3. FetchAffected(t, r) => UNCHANGED <<paperless, table, queue, scan, events, books, notes,
                                           audited, lost, given, unaudited>>
    BY ZenonT(30) DEF FetchAffected
  <2>4. BulkEdit(t) \/ EditUnanswered(t) => UNCHANGED events  BY Effects
  <2>5. Remove(t) \/ RemoveUnanswered(t) => UNCHANGED events  BY Effects
  <2>. QED  BY <2>1, <2>2, <2>3, <2>4, <2>5
<1>3. ASSUME NEW s, NEW x, NEW d, NEW C, NEW e, NEW n, NEW b
      PROVE  /\ Suggest(d) \/ Expire(x) \/ Retag(d, C) \/ Rename(e, n) \/ DocsEmbedded
                  \/ StartScan(b) \/ Restart => Event
             /\ Reject(s) \/ Approve(s) \/ FetchDoc(d) \/ Stamp \/ ScanFails \/ Create(e, n)
                  \/ UNCHANGED vars => UNCHANGED events
  BY DEF Create, Suggest, Expire, Retag, Rename, DocsEmbedded, StartScan, Restart, Reject, Approve, FetchDoc,
         Stamp, ScanFails, vars
<1>4. ASSUME NEW e, ReadRows \/ Query(e) \/ Classify \/ Refresh \/ Propose
      PROVE  UNCHANGED events
  <2>1. ReadRows \/ Query(e) \/ Classify =>
          UNCHANGED <<paperless, table, queue, task, events, books, notes, merges>>
    BY ZenonT(30) DEF ReadRows, Query, Classify
  <2>2. Refresh => UNCHANGED <<paperless, changed, behind, queue, task, events, fresh, unscanned,
                               notes, merges>>
    BY ZenonT(30) DEF Refresh
  <2>3. Propose => UNCHANGED <<paperless, table, dismissals, task, events, books, notes, merges>>
    BY ZenonT(30) DEF Propose
  <2>. QED  BY <1>4, <2>1, <2>2, <2>3
<1>. QED
  BY <1>1, <1>2, <1>3, <1>4 DEF Next, TaskStep, QueueStep, PaperlessStep, ScanStep, ScheduledScan,
                                ManualScan

LEMMA TypeStep ==
  ASSUME TypeOK, \A t \in Tasks : TaskOK(t), ProposalOK, [Next]_vars
  PROVE  TypeOK'
<1>1. task' \in [Tasks -> TaskRecords]
  <2>1. task \in [Tasks -> TaskRecords] /\ Idle \in TaskRecords  BY Idles DEF TypeOK
  <2>2. ASSUME NEW t \in Tasks, TaskStep(t) PROVE task' \in [Tasks -> TaskRecords]
    BY <2>2, TaskStepTypes, SetTask
  <2>3. CASE Restart  BY <2>1, <2>3 DEF Restart
  <2>. QED  BY <2>1, <2>2, <2>3, TaskWriters
<1>2. events' \in 0..MaxEvents
  <2>1. MaxEvents \in Nat /\ events \in 0..MaxEvents  BY GroomingAssumption DEF TypeOK
  <2>. QED  BY <2>1, EventStep DEF Event
<1>. QED
  BY <1>1, <1>2, PaperlessTypes, RowTypes, StampTypes, QueueTypes, ScanRecordStep
  DEF TypeOK, PaperlessOK, Pending

-----------------------------------------------------------------------------
(* Vectors.                                                                *)

\* Whoever writes rows has either noted a race, or nobody else has loaded them.
LEMMA HeldStep ==
  ASSUME HeldIsRow, NEW t \in Tasks \cup {"scan"}, NEW es \in SUBSET Entities, Race(t, es),
         \A e \in Entities \ es : row'[e] = row[e],
         \A u \in Tasks \ {t} : \A e \in Entities : task'[u].rows[e] \in {NoRow, task[u].rows[e]},
         t \in Tasks => \A e \in Entities :
           \/ task'[t].rows[e] \in {NoRow, row'[e]}
           \/ e \notin es /\ task'[t].rows[e] = task[t].rows[e],
         scan'.pc = "refresh" => \A e \in Entities :
           \/ scan'.rows[e] \in {NoRow, row'[e]}
           \/ t # "scan" /\ scan.pc = "refresh" /\ scan'.rows[e] = scan.rows[e]
  PROVE  HeldIsRow'
<1>. SUFFICES ASSUME NEW e \in Entities, e \notin raced'
              PROVE  /\ \A u \in Tasks : task'[u].rows[e] \in {NoRow, row'[e]}
                     /\ scan'.pc = "refresh" => scan'.rows[e] \in {NoRow, row'[e]}
  BY DEF HeldIsRow
<1>1. e \notin raced /\ (e \in es => ~IsHeld(t, e))  BY DEF Race
<1>2. /\ \A u \in Tasks : task[u].rows[e] \in {NoRow, row[e]}
      /\ scan.pc = "refresh" => scan.rows[e] \in {NoRow, row[e]}
  BY <1>1 DEF HeldIsRow
<1>3. e \in es => /\ \A u \in Tasks \ {t} : task[u].rows[e] = NoRow
                  /\ t # "scan" /\ scan.pc = "refresh" => scan.rows[e] = NoRow
  BY <1>1 DEF IsHeld
<1>4. e \notin es => row'[e] = row[e]  OBVIOUS
<1>5. ASSUME NEW u \in Tasks PROVE task'[u].rows[e] \in {NoRow, row'[e]}
  <2>1. CASE u = t  BY <1>2, <1>4, <2>1
  <2>2. CASE u # t
    <3>1. task'[u].rows[e] \in {NoRow, task[u].rows[e]}  BY <2>2
    <3>. QED  BY <1>2, <1>3, <1>4, <2>2, <3>1
  <2>. QED  BY <2>1, <2>2
<1>6. scan'.pc = "refresh" => scan'.rows[e] \in {NoRow, row'[e]}  BY <1>2, <1>3, <1>4
<1>. QED  BY <1>5, <1>6

\* Rows stay as they are.
LEMMA HeldSame ==
  ASSUME HeldIsRow, SameRows,
         \A u \in Tasks : \A e \in Entities : task'[u].rows[e] \in {NoRow, row[e], task[u].rows[e]},
         scan'.pc = "refresh" => \A e \in Entities :
           \/ scan'.rows[e] \in {NoRow, row[e]}
           \/ scan.pc = "refresh" /\ scan'.rows[e] = scan.rows[e]
  PROVE  HeldIsRow'
<1>1. row' = row /\ raced' = raced  BY DEF SameRows
<1>. SUFFICES ASSUME NEW e \in Entities, e \notin raced
              PROVE  /\ \A u \in Tasks : task'[u].rows[e] \in {NoRow, row[e]}
                     /\ scan'.pc = "refresh" => scan'.rows[e] \in {NoRow, row[e]}
  BY <1>1 DEF HeldIsRow
<1>2. /\ \A u \in Tasks : task[u].rows[e] \in {NoRow, row[e]}
      /\ scan.pc = "refresh" => scan.rows[e] \in {NoRow, row[e]}
  BY DEF HeldIsRow
<1>. QED  BY <1>2

LEMMA VectorStep ==
  ASSUME VectorIsCurrent, raced \subseteq raced',
         \A e \in Entities \ raced' :
           row'[e] = row[e] \/ (row'[e].stored => row'[e].vector = TextOf(row'[e]))
  PROVE  VectorIsCurrent'
<1>. SUFFICES ASSUME NEW e \in Entities \ raced', row'[e].stored
              PROVE  row'[e].vector = TextOf(row'[e])
  BY DEF VectorIsCurrent, TextOf
<1>1. e \in Entities \ raced  OBVIOUS
<1>. QED  BY <1>1 DEF VectorIsCurrent, TextOf

\* A row that carries no vector, or that of its text.
Honest(r) == r.stored => r.vector = TextOf(r)

LEMMA RaceGrows ==
  ASSUME NEW t, NEW es, Race(t, es)
  PROVE  raced \subseteq raced'
  BY DEF Race

LEMMA StirHeld ==
  ASSUME TypeOK, scan' = scan \/ \E es \in SUBSET Entities : scan' = Stir(es)
  PROVE  scan'.pc = scan.pc /\ scan'.rows = scan.rows
  BY StirTypes

\* The task t writes the row r of e, and has what it wrote, or what it had, or nothing.
Writes(t, e, r, q) ==
  /\ Race(t, {e}) /\ row' = [row EXCEPT ![e] = r]
  /\ e \in raced' \/ Honest(r)
  /\ \/ task' = task /\ \A f \in Entities : task[t].rows[f] = NoRow
     \/ task' = [task EXCEPT ![t] = q]
  /\ \A f \in Entities \ {e} : q.rows[f] \in {NoRow, task[t].rows[f]}
  /\ q.rows[e] \in {NoRow, r} \/ e \in raced'
  /\ scan' = scan \/ \E es \in SUBSET Entities : scan' = Stir(es)

LEMMA OneRow ==
  ASSUME TypeOK, HeldIsRow, VectorIsCurrent, NEW t \in Tasks, NEW e \in Entities, NEW r, NEW q,
         Writes(t, e, r, q)
  PROVE  HeldIsRow' /\ VectorIsCurrent'
<1>. USE DEF Writes
<1>1. /\ row \in [Entities -> Rows] /\ task \in [Tasks -> TaskRecords]
      /\ scan'.pc = scan.pc /\ scan'.rows = scan.rows
  BY StirHeld DEF TypeOK
<1>2. row'[e] = r /\ \A f \in Entities \ {e} : row'[f] = row[f]  BY <1>1
<1>3. \A u \in Tasks \ {t} : task'[u] = task[u]  BY <1>1
<1>4. (task'[t] = task[t] /\ \A f \in Entities : task[t].rows[f] = NoRow) \/ task'[t] = q  BY <1>1
<1>5. VectorIsCurrent'
  <2>1. raced \subseteq raced'  BY RaceGrows
  <2>2. \A f \in Entities \ raced' :
          row'[f] = row[f] \/ (row'[f].stored => row'[f].vector = TextOf(row'[f]))
    BY <1>2 DEF Honest
  <2>. QED  BY <2>1, <2>2, VectorStep
<1>6. HeldIsRow'
  <2>. SUFFICES ASSUME NEW f \in Entities, f \notin raced'
                PROVE  /\ \A u \in Tasks : task'[u].rows[f] \in {NoRow, row'[f]}
                       /\ scan'.pc = "refresh" => scan'.rows[f] \in {NoRow, row'[f]}
    BY DEF HeldIsRow
  <2>1. f \notin raced /\ (f = e => ~IsHeld(t, e)) /\ t # "scan"
    BY GroomingAssumption DEF Race
  <2>2. /\ \A u \in Tasks : task[u].rows[f] \in {NoRow, row[f]}
        /\ scan.pc = "refresh" => scan.rows[f] \in {NoRow, row[f]}
    BY <2>1 DEF HeldIsRow
  <2>3. f = e => /\ \A u \in Tasks \ {t} : task[u].rows[f] = NoRow
                 /\ scan.pc = "refresh" => scan.rows[f] = NoRow
    BY <2>1 DEF IsHeld
  <2>4. task'[t].rows[f] \in {NoRow, row'[f]}
    <3>1. CASE \A g \in Entities : task'[t].rows[g] = NoRow  BY <3>1
    <3>2. CASE task'[t] = q /\ f = e  BY <1>2, <3>2
    <3>3. CASE task'[t] = q /\ f # e  BY <1>2, <2>2, <3>3
    <3>. QED  BY <1>4, <3>1, <3>2, <3>3
  <2>5. \A u \in Tasks \ {t} : task'[u].rows[f] \in {NoRow, row'[f]}
    BY <1>2, <1>3, <2>2, <2>3
  <2>6. scan'.pc = "refresh" => scan'.rows[f] \in {NoRow, row'[f]}
    BY <1>1, <1>2, <2>2, <2>3
  <2>. QED  BY <2>4, <2>5, <2>6
<1>. QED  BY <1>5, <1>6

LEMMA IdleFields ==
  /\ \A e \in Entities : Idle.rows[e] = NoRow
  /\ Idle.pc = "idle" /\ Idle.audits = {} /\ Idle.todo = {} /\ Idle.docs = {} /\ Idle.bulk = FALSE
  /\ \A e \in Entities : Idle.listed[e] = "none"
  BY DEF Idle, NoRows

LEMMA PatchVectors ==
  ASSUME TypeOK, HeldIsRow, VectorIsCurrent, NEW t \in Tasks, TaskOK(t), NEW e \in Entities,
         NEW x \in Texts \cup {NoText}, Patch(t, e, x)
  PROVE  HeldIsRow' /\ VectorIsCurrent'
<1>1. /\ row[e] \in RealRows /\ row' = [row EXCEPT ![e] = Described(row[e], x)]
      /\ Race(t, {e}) /\ task[t].pc = "idle"
  BY PatchRow
<1>2. task[t] = Idle  BY <1>1 DEF TaskOK
<1>3. PICK r \in Rows : r = Described(row[e], x) /\ Honest(r)
  BY <1>1, DescribedRows, RowSet DEF Honest
<1>4. task' = task \/ task' = [task EXCEPT ![t] = ToEmbed(Idle, e, r)]  BY <1>3, PatchTask
<1>5. /\ ToEmbed(Idle, e, r).rows[e] = r
      /\ \A f \in Entities \ {e} : ToEmbed(Idle, e, r).rows[f] = NoRow
  BY Idles, IdleFields, ToEmbedFields
<1>6. scan' = Stir({e}) /\ {e} \in SUBSET Entities  BY TaskFrames
<1>7. \A f \in Entities : task[t].rows[f] = NoRow  BY <1>2, IdleFields
<1>8. Writes(t, e, r, ToEmbed(Idle, e, r))
  BY <1>1, <1>3, <1>4, <1>5, <1>6, <1>7 DEF Writes
<1>. QED  BY <1>8, OneRow

LEMMA ExcludeVectors ==
  ASSUME TypeOK, HeldIsRow, VectorIsCurrent, NEW t \in Tasks, TaskOK(t), NEW e \in Entities,
         Exclude(t, e)
  PROVE  HeldIsRow' /\ VectorIsCurrent'
<1>1. /\ row[e] \in RealRows /\ row'[e] = [row[e] EXCEPT !.excluded = ~@]
      /\ row'[e] \in RealRows
      /\ row' = [row EXCEPT ![e] = row'[e]] /\ Race(t, {e}) /\ task[t].pc = "idle"
  BY ExcludeRow
<1>2. task[t] = Idle  BY <1>1 DEF TaskOK
<1>3. PICK r \in Rows : r = row'[e]  BY <1>1, RowSet
<1>4. task' = task \/ task' = [task EXCEPT ![t] = ToEmbed(Idle, e, r)]  BY <1>3, ExcludeTask
<1>5. e \in raced' \/ Honest(r)
  <2>1. e \notin raced' => (row[e].stored => row[e].vector = TextOf(row[e]))
    BY <1>1, RaceGrows DEF VectorIsCurrent
  <2>2. /\ [row[e] EXCEPT !.excluded = ~@].stored = row[e].stored
        /\ [row[e] EXCEPT !.excluded = ~@].vector = row[e].vector
        /\ TextOf([row[e] EXCEPT !.excluded = ~@]) = TextOf(row[e])
    BY <1>1 DEF TextOf, RealRows
  <2>. QED  BY <1>1, <1>3, <2>1, <2>2 DEF Honest
<1>6. /\ ToEmbed(Idle, e, r).rows[e] = r
      /\ \A f \in Entities \ {e} : ToEmbed(Idle, e, r).rows[f] = NoRow
  BY Idles, IdleFields, ToEmbedFields
<1>7. scan' = Stir({e}) /\ {e} \in SUBSET Entities  BY TaskFrames
<1>8. \A f \in Entities : task[t].rows[f] = NoRow  BY <1>2, IdleFields
<1>9. Writes(t, e, r, ToEmbed(Idle, e, r))
  BY <1>1, <1>3, <1>4, <1>5, <1>6, <1>7, <1>8 DEF Writes
<1>. QED  BY <1>9, OneRow

LEMMA DescribeVectors ==
  ASSUME TypeOK, HeldIsRow, VectorIsCurrent, NEW t \in Tasks, TaskOK(t), NEW e \in Entities,
         NEW x \in Texts, Describe(t, e, x)
  PROVE  HeldIsRow' /\ VectorIsCurrent'
<1>1. PICK old \in RealRows : old = task[t].rows[e]  BY DescribeRow
<1>2. PICK new \in RealRows : new = Described(old, x) /\ ~new.stored  BY DescribedRows
<1>3. PICK r : r = Flush(e, old, new)  OBVIOUS
<1>4. row[e] \in RealRows /\ Race(t, {e}) /\ row' = [row EXCEPT ![e] = r]
  <2>1. /\ row[e] \in RealRows /\ Race(t, {e})
        /\ row' = [row EXCEPT ![e] = Flush(e, task[t].rows[e], Described(task[t].rows[e], x))]
    BY DescribeRow
  <2>. QED  BY <1>1, <1>2, <1>3, <2>1
<1>5. e \in raced' \/ r = new
  <2>1. e \notin raced' => old \in {NoRow, row[e]}  BY <1>1, <1>4, RaceGrows DEF HeldIsRow
  <2>2. old # NoRow  BY RowSet
  <2>. QED  BY <1>3, <1>4, <2>1, <2>2, FlushTypes
<1>6. PICK q : q = ToEmbed(Without(task[t], e), e, new)  OBVIOUS
<1>7. task' = [task EXCEPT ![t] = q]  BY <1>1, <1>2, <1>6, DescribeTask
<1>8. q.rows[e] = new /\ \A f \in Entities \ {e} : q.rows[f] = task[t].rows[f]
  <2>1. PICK w \in TaskRecords : w = Without(task[t], e) /\ w.rows = task[t].rows
    BY TaskTypes, WithoutFields
  <2>2. new \in Rows /\ q = ToEmbed(w, e, new)  BY <1>6, <2>1, RowSet
  <2>. QED  BY <2>1, <2>2, ToEmbedFields
<1>9. scan' = Stir({e}) /\ {e} \in SUBSET Entities  BY TaskFrames
<1>10. e \in raced' \/ Honest(r)  BY <1>2, <1>5 DEF Honest
<1>11. Writes(t, e, r, q)
  BY <1>4, <1>5, <1>7, <1>8, <1>9, <1>10 DEF Writes
<1>. QED  BY <1>11, OneRow

\* The task has embedded the entity, or failed to.
Freed(r, e) == [r EXCEPT !.pc = "describe", !.at = NoEntity, !.rows = [@ EXCEPT ![e] = NoRow]]

LEMMA FreedFields ==
  ASSUME NEW r \in TaskRecords, NEW e \in Entities
  PROVE  LET q == Freed(r, e) IN
         /\ q.pc = "describe" /\ q.todo = r.todo /\ q.listed = r.listed /\ q.audits = r.audits
         /\ q.rows[e] = NoRow /\ \A f \in Entities \ {e} : q.rows[f] = r.rows[f]
<1>1. r.rows \in [Entities -> Rows]  BY DEF TaskRecords
<1>2. PICK R : R = [r.rows EXCEPT ![e] = NoRow]  OBVIOUS
<1>3. Freed(r, e) = [r EXCEPT !.pc = "describe", !.at = NoEntity, !.rows = R]
  BY <1>2 DEF Freed
<1>4. R[e] = NoRow /\ \A f \in Entities \ {e} : R[f] = r.rows[f]  BY <1>1, <1>2
<1>. QED  BY <1>3, <1>4 DEF TaskRecords

LEMMA EmbedVectors ==
  ASSUME TypeOK, HeldIsRow, VectorIsCurrent, NEW t \in Tasks, TaskOK(t), Embed(t)
  PROVE  HeldIsRow' /\ VectorIsCurrent'
<1>1. PICK e \in Entities : e = task[t].at  BY EmbedRow
<1>2. PICK old \in RealRows : old = task[t].rows[e]  BY <1>1, EmbedRow
<1>3. PICK new \in RealRows : new = Embedded(old) /\ new.vector = TextOf(new)  BY EmbeddedRows
<1>4. PICK r : r = Flush(e, old, new)  OBVIOUS
<1>5. row[e] \in RealRows /\ Race(t, {e}) /\ row' = [row EXCEPT ![e] = r]
  BY <1>1, <1>2, <1>3, <1>4, EmbedRow
<1>6. e \in raced' \/ r = new
  <2>1. e \notin raced' => old \in {NoRow, row[e]}  BY <1>2, <1>5, RaceGrows DEF HeldIsRow
  <2>2. old # NoRow  BY RowSet
  <2>. QED  BY <1>4, <1>5, <2>1, <2>2, FlushTypes
<1>7. PICK q : q \in {Idle, Freed(task[t], e)} /\ task' = [task EXCEPT ![t] = q]
  BY <1>1 DEF Embed, Goes, Freed
<1>8. q.rows[e] = NoRow /\ \A f \in Entities \ {e} : q.rows[f] \in {NoRow, task[t].rows[f]}
  BY <1>7, IdleFields, FreedFields, TaskTypes
<1>9. scan' = scan  BY TaskFrames
<1>10. e \in raced' \/ Honest(r)  BY <1>3, <1>6 DEF Honest
<1>11. Writes(t, e, r, q)
  BY <1>5, <1>7, <1>8, <1>9, <1>10 DEF Writes
<1>. QED  BY <1>11, OneRow

LEMMA SyncVectors ==
  ASSUME TypeOK, HeldIsRow, VectorIsCurrent, NEW t \in Tasks, SyncRows(t)
  PROVE  HeldIsRow' /\ VectorIsCurrent'
<1>. DEFINE es == {e \in Entities : row'[e] # row[e]}
<1>1. Race(t, es) /\ \A e \in Entities : row'[e] = SyncedRow(t, e)  BY SyncRow
<1>2. task' = [task EXCEPT ![t] = Idle] /\ es \in SUBSET Entities  BY SyncRow
<1>3. task'[t] = Idle /\ \A u \in Tasks \ {t} : task'[u] = task[u]  BY <1>2, TaskTypes
<1>4. \A e \in Entities \ es : row'[e] = row[e]  OBVIOUS
<1>. HIDE DEF es
<1>5. scan'.pc = scan.pc /\ scan'.rows = scan.rows
  <2>1. PICK S \in SUBSET Entities : S = Made(t) \cup Retitled(t)  BY DEF Made, Retitled
  <2>2. scan' = Stir(S)  BY <2>1, SyncRow
  <2>. QED  BY <2>2, StirTypes
<1>6. t # "scan"  BY GroomingAssumption
<1>7. HeldIsRow'
  <2>1. \A u \in Tasks \ {t} : \A e \in Entities : task'[u].rows[e] \in {NoRow, task[u].rows[e]}
    BY <1>3
  <2>2. \A e \in Entities : task'[t].rows[e] \in {NoRow, row'[e]}  BY <1>3, IdleFields
  <2>. QED  BY <1>1, <1>2, <1>4, <1>5, <1>6, <2>1, <2>2, HeldStep
<1>8. \A e \in Entities : row'[e] = row[e] \/ (row'[e].stored => row'[e].vector = TextOf(row'[e]))
  <2>. SUFFICES ASSUME NEW e \in Entities, row'[e] # row[e]
                PROVE  ~row'[e].stored
    OBVIOUS
  <2>1. row'[e] = SyncedRow(t, e) /\ row[e] \in Rows  BY <1>1, ScanTypes
  <2>2. task[t].listed[e] # "none" /\ e \notin Made(t) => row[e] \in RealRows
    BY <2>1, RowSet DEF Made, Exists
  <2>3. \A n : row[e] \in RealRows => ~[row[e] EXCEPT !.name = n, !.stored = FALSE].stored
    BY DEF RealRows
  <2>4. ~NoRow.stored /\ \A n : ~NewRow(n).stored  BY DEF NoRow, NewRow
  <2>. QED  BY <2>1, <2>2, <2>3, <2>4 DEF SyncedRow
<1>9. VectorIsCurrent'  BY <1>1, <1>8, RaceGrows, VectorStep
<1>. QED  BY <1>7, <1>9

LEMMA CommitVectors ==
  ASSUME TypeOK, HeldIsRow, VectorIsCurrent, NEW t \in Tasks, CommitMerge(t)
  PROVE  HeldIsRow' /\ VectorIsCurrent'
<1>. DEFINE gone == {e \in Entities : task[t].rows[e] # NoRow}
<1>1. /\ row' = [e \in Entities |-> IF e \in gone THEN NoRow ELSE row[e]] /\ Race(t, gone)
      /\ task' = [task EXCEPT ![t] = Idle] /\ gone \in SUBSET Entities
  BY CommitRow
<1>2. task'[t] = Idle /\ \A u \in Tasks \ {t} : task'[u] = task[u]  BY <1>1, TaskTypes
<1>. HIDE DEF gone
<1>3. scan' = scan /\ t # "scan"  BY TaskFrames, GroomingAssumption
<1>4. \A e \in Entities \ gone : row'[e] = row[e]  BY <1>1
<1>5. HeldIsRow'
  <2>1. \A u \in Tasks \ {t} : \A e \in Entities : task'[u].rows[e] \in {NoRow, task[u].rows[e]}
    BY <1>2
  <2>2. \A e \in Entities : task'[t].rows[e] \in {NoRow, row'[e]}  BY <1>2, IdleFields
  <2>. QED  BY <1>1, <1>3, <1>4, <2>1, <2>2, HeldStep
<1>6. \A e \in Entities : row'[e] = row[e] \/ (row'[e].stored => row'[e].vector = TextOf(row'[e]))
  BY <1>1 DEF NoRow
<1>7. VectorIsCurrent'  BY <1>1, <1>6, RaceGrows, VectorStep
<1>. QED  BY <1>5, <1>7

LEMMA GenerateVectors ==
  ASSUME TypeOK, HeldIsRow, VectorIsCurrent, NEW t \in Tasks, NEW S \in SUBSET Entities,
         NEW b \in BOOLEAN, Generate(t, S, b)
  PROVE  HeldIsRow' /\ VectorIsCurrent'
<1>1. PICK R : R = [e \in Entities |-> IF e \in S THEN row[e] ELSE NoRow]  OBVIOUS
<1>2. PICK q : q = [Idle EXCEPT !.pc = "describe", !.bulk = b, !.todo = S, !.rows = R]  OBVIOUS
<1>3. task' = [task EXCEPT ![t] = q] /\ Race(t, S)  BY <1>1, <1>2 DEF Generate
<1>4. row' = row /\ scan' = scan /\ t # "scan"  BY GroomingAssumption DEF Generate, table
<1>5. task'[t] = q /\ \A u \in Tasks \ {t} : task'[u] = task[u]  BY <1>3, TaskTypes
<1>6. q.rows = R  BY <1>2, Idles DEF TaskRecords
<1>7. \A e \in Entities : task'[t].rows[e] \in {NoRow, row'[e]}  BY <1>1, <1>4, <1>5, <1>6
<1>8. HeldIsRow'
  <2>1. \A u \in Tasks \ {t} : \A e \in Entities : task'[u].rows[e] \in {NoRow, task[u].rows[e]}
    BY <1>5
  <2>2. \A e \in Entities \ S : row'[e] = row[e]  BY <1>4
  <2>. QED  BY <1>3, <1>4, <1>7, <2>1, <2>2, HeldStep
<1>9. VectorIsCurrent'  BY <1>3, <1>4, RaceGrows, VectorStep
<1>. QED  BY <1>8, <1>9

LEMMA RefreshScan ==
  ASSUME TypeOK, NEW done \in SUBSET Scanned, NEW kept \in SUBSET Scanned,
         RefreshTo(done, kept)
  PROVE  /\ scan'.pc = "query" /\ scan'.left = kept /\ scan'.seen = scan.seen
         /\ scan'.stirred = scan.stirred \cup (Scanned \ kept)
         /\ scan'.blocked = scan.blocked /\ scan'.covered = scan.covered
         /\ scan'.names = scan.names /\ scan'.at = scan.at
         /\ \A e \in Entities :
              scan'.rows[e] = IF e \notin kept THEN NoRow
                              ELSE IF e \in done THEN Embedded(scan.rows[e]) ELSE scan.rows[e]
<1>1. PICK R : R = [e \in Entities |-> IF e \notin kept THEN NoRow
                            ELSE IF e \in done THEN Embedded(scan.rows[e]) ELSE scan.rows[e]]
  OBVIOUS
<1>2. scan' = [scan EXCEPT !.pc = "query", !.left = kept, !.stirred = @ \cup (Scanned \ kept),
                           !.rows = R]
  BY <1>1 DEF RefreshTo
<1>3. scan \in ScanRecords  BY DEF TypeOK
<1>4. /\ scan'.pc = "query" /\ scan'.left = kept /\ scan'.seen = scan.seen
      /\ scan'.stirred = scan.stirred \cup (Scanned \ kept)
      /\ scan'.blocked = scan.blocked /\ scan'.covered = scan.covered
      /\ scan'.names = scan.names /\ scan'.rows = R /\ scan'.at = scan.at
  BY <1>2, <1>3 DEF ScanRecords
<1>5. \A e \in Entities :
        R[e] = IF e \notin kept THEN NoRow
               ELSE IF e \in done THEN Embedded(scan.rows[e]) ELSE scan.rows[e]
  BY <1>1
<1>. QED  BY <1>4, <1>5

LEMMA RefreshVectors ==
  ASSUME TypeOK, HeldIsRow, VectorIsCurrent, Refresh
  PROVE  HeldIsRow' /\ VectorIsCurrent'
<1>1. scan.pc = "refresh"  BY RefreshStep
<1>2. PICK done \in SUBSET Scanned, kept \in SUBSET Scanned : RefreshTo(done, kept)
  BY RefreshStep
<1>3. \A e \in Entities :
        IF e \in done
        THEN /\ scan.rows[e] \in RealRows /\ row[e] \in RealRows /\ Rewritten(e)
             /\ row'[e] = Flush(e, scan.rows[e], Embedded(scan.rows[e]))
        ELSE row'[e] = row[e]
  BY <1>2, RefreshRow
<1>4. Race("scan", done) /\ done \in SUBSET Entities  BY <1>2, ScanTypes DEF RefreshTo
<1>5. task' = task  BY OtherFrames
<1>6. scan'.pc = "query"
  BY <1>2, RefreshScan
<1>7. HeldIsRow'
  <2>1. \A u \in Tasks \ {"scan"} : \A e \in Entities :
           task'[u].rows[e] \in {NoRow, task[u].rows[e]}
    BY <1>5
  <2>2. \A e \in Entities \ done : row'[e] = row[e]  BY <1>3
  <2>3. "scan" \notin Tasks /\ scan'.pc # "refresh"  BY <1>6, GroomingAssumption
  <2>. QED  BY <1>4, <2>1, <2>2, <2>3, HeldStep
<1>8. ASSUME NEW e \in Entities \ raced', row'[e] # row[e]
      PROVE  row'[e].stored => row'[e].vector = TextOf(row'[e])
  <2>1. e \in done /\ e \notin raced  BY <1>3, <1>4, <1>8, RaceGrows
  <2>2. scan.rows[e] = row[e]
    <3>1. scan.rows[e] \in {NoRow, row[e]}  BY <1>1, <2>1 DEF HeldIsRow
    <3>2. scan.rows[e] # NoRow  BY <2>1, <1>3, RowSet
    <3>. QED  BY <3>1, <3>2
  <2>3. PICK old \in RealRows : old = row[e]  BY <1>3, <2>1
  <2>4. PICK new \in RealRows : new = Embedded(old) /\ new.vector = TextOf(new)  BY EmbeddedRows
  <2>5. row'[e] = Flush(e, old, new)  BY <1>3, <2>1, <2>2, <2>3, <2>4
  <2>6. row'[e] = new  BY <2>3, <2>4, <2>5, FlushTypes
  <2>. QED  BY <2>4, <2>6
<1>9. VectorIsCurrent'  BY <1>4, <1>8, RaceGrows, VectorStep
<1>. QED  BY <1>7, <1>9

\* The model has failed for the entity.
Dropped(r, e) == [r EXCEPT !.todo = @ \ {e}, !.rows = [@ EXCEPT ![e] = NoRow]]

LEMMA DroppedFields ==
  ASSUME NEW r \in TaskRecords, NEW e \in Entities
  PROVE  LET q == Dropped(r, e) IN
         /\ q.pc = r.pc /\ q.todo = r.todo \ {e} /\ q.listed = r.listed /\ q.audits = r.audits
         /\ q.at = r.at /\ q.keep = r.keep /\ q.docs = r.docs
         /\ q.rows[e] = NoRow /\ \A f \in Entities \ {e} : q.rows[f] = r.rows[f]
<1>1. r.rows \in [Entities -> Rows]  BY DEF TaskRecords
<1>2. PICK R : R = [r.rows EXCEPT ![e] = NoRow]  OBVIOUS
<1>3. Dropped(r, e) = [r EXCEPT !.todo = @ \ {e}, !.rows = R]  BY <1>2 DEF Dropped
<1>4. R[e] = NoRow /\ \A f \in Entities \ {e} : R[f] = r.rows[f]  BY <1>1, <1>2
<1>. QED  BY <1>3, <1>4 DEF TaskRecords

\* What the other steps of a task leave in it.
LEMMA FailedTask ==
  ASSUME TypeOK, NEW t \in Tasks, TaskOK(t), NEW e \in Entities,
         DescribeFails(t, e) \/ EmbedFails(t)
  PROVE  \E q : /\ task' = [task EXCEPT ![t] = q]
               /\ \/ q = Idle
                  \/ task[t].pc = "describe" /\ q = Dropped(task[t], e)
                  \/ /\ task[t].pc = "embed" /\ task[t].at \in Entities
                     /\ q = Freed(task[t], task[t].at)
<1>1. CASE DescribeFails(t, e)
  <2>1. task[t].pc = "describe"  BY <1>1 DEF DescribeFails
  <2>. QED  BY <1>1, <2>1 DEF DescribeFails, Goes, Dropped
<1>2. CASE EmbedFails(t)
  <2>1. task[t].pc = "embed" /\ task[t].at \in Entities  BY <1>2 DEF EmbedFails, TaskOK
  <2>. QED  BY <1>2, <2>1 DEF EmbedFails, Goes, Freed
<1>. QED  BY <1>1, <1>2

CancelledTo(t, q) ==
  /\ task' = [task EXCEPT ![t] = q] /\ q.pc = "embed" /\ q.todo = {}
  /\ q.rows = task[t].rows /\ q.listed = task[t].listed /\ q.at = task[t].at
  /\ q.audits = task[t].audits /\ task[t].pc = "embed"

LEMMA CancelledTask ==
  ASSUME TypeOK, NEW t \in Tasks, Cancel(t)
  PROVE  \E q : CancelledTo(t, q)
<1>1. task' = [task EXCEPT ![t] = [task[t] EXCEPT !.todo = {}]]  BY CancelTask
<1>2. task[t].pc = "embed"  BY DEF Cancel
<1>3. PICK q : q = [task[t] EXCEPT !.todo = {}]  OBVIOUS
<1>4. /\ q.pc = task[t].pc /\ q.todo = {} /\ q.rows = task[t].rows /\ q.listed = task[t].listed
      /\ q.at = task[t].at /\ q.audits = task[t].audits
  BY <1>3, TaskTypes DEF TaskRecords
<1>5. task' = [task EXCEPT ![t] = q] /\ q.pc = "embed"  BY <1>1, <1>2, <1>3, <1>4
<1>6. CancelledTo(t, q)  BY <1>2, <1>4, <1>5, Zenon DEF CancelledTo
<1>. QED  BY <1>6

SyncTo(t, q) ==
  /\ task' = [task EXCEPT ![t] = q] /\ q.pc = "sync" /\ q.rows = Idle.rows
  /\ q.audits = {} /\ task[t].pc = "idle"
  /\ \A e \in Entities : q.listed[e] = IF e \in alive THEN name[e] ELSE "none"

LEMMA SyncTask ==
  ASSUME TypeOK, NEW t \in Tasks, Sync(t)
  PROVE  \E q : SyncTo(t, q)
<1>1. PICK L : L = [e \in Entities |-> IF e \in alive THEN name[e] ELSE "none"]  OBVIOUS
<1>2. task' = [task EXCEPT ![t] = [Idle EXCEPT !.pc = "sync", !.listed = L]] /\ task[t].pc = "idle"
  BY <1>1 DEF Sync
<1>3. PICK q : q = [Idle EXCEPT !.pc = "sync", !.listed = L]  OBVIOUS
<1>4. q.pc = "sync" /\ q.rows = Idle.rows /\ q.audits = {} /\ q.listed = L
  BY <1>3, Idles, IdleFields DEF TaskRecords
<1>5. \A e \in Entities : L[e] = IF e \in alive THEN name[e] ELSE "none"  BY <1>1
<1>6. task' = [task EXCEPT ![t] = q]  BY <1>2, <1>3
<1>7. \A e \in Entities : q.listed[e] = IF e \in alive THEN name[e] ELSE "none"
  BY <1>4, <1>5
<1>8. SyncTo(t, q)  BY <1>2, <1>4, <1>6, <1>7, Zenon DEF SyncTo
<1>. QED  BY <1>8

MergeTo(t, k, R, q) ==
  /\ task' = [task EXCEPT ![t] = q] /\ q.pc = "affected" /\ q.rows = Idle.rows
  /\ q.audits = {} /\ q.listed = Idle.listed /\ q.todo = R /\ q.keep = k
  /\ task[t].pc = "idle" /\ k \notin R

LEMMA MergeTask ==
  ASSUME TypeOK, NEW t \in Tasks, NEW k \in Entities, NEW R \in SUBSET Entities, Merge(t, k, R)
  PROVE  \E q : MergeTo(t, k, R, q)
<1>1. task' = [task EXCEPT ![t] = [Idle EXCEPT !.pc = "affected", !.todo = R, !.keep = k]]
      /\ task[t].pc = "idle" /\ k \notin R
  BY DEF Merge
<1>2. PICK q : q = [Idle EXCEPT !.pc = "affected", !.todo = R, !.keep = k]  OBVIOUS
<1>3. /\ q.pc = "affected" /\ q.rows = Idle.rows /\ q.audits = {} /\ q.listed = Idle.listed
      /\ q.todo = R /\ q.keep = k
  BY <1>2, Idles, IdleFields DEF TaskRecords
<1>4. task' = [task EXCEPT ![t] = q]  BY <1>1, <1>2
<1>5. MergeTo(t, k, R, q)  BY <1>1, <1>3, <1>4, Zenon DEF MergeTo
<1>. QED  BY <1>5

FetchedTo(t, r, q, D) ==
  /\ task' = [task EXCEPT ![t] = q] /\ D \in Affected(r) /\ D \in SUBSET Docs
  /\ q.pc = IF D = {} THEN "remove" ELSE "edit"
  /\ q.at = r /\ q.docs = D /\ q.todo = task[t].todo /\ q.keep = task[t].keep
  /\ q.rows[r] = row[r] /\ \A e \in Entities \ {r} : q.rows[e] = task[t].rows[e]
  /\ q.listed = task[t].listed /\ q.audits = task[t].audits
  /\ task[t].pc = "affected" /\ r \in task[t].todo
  /\ excused' = IF "page" \in Failures
                  THEN excused \cup {<<d, r>> : d \in Carrying(r) \ D} ELSE excused

LEMMA FetchedTask ==
  ASSUME TypeOK, NEW t \in Tasks, NEW r \in Entities, FetchAffected(t, r)
  PROVE  \E q, D : FetchedTo(t, r, q, D)
<1>1. PICK D \in Affected(r) :
           /\ task' = [task EXCEPT ![t] = [task[t] EXCEPT
                !.pc = IF D = {} THEN "remove" ELSE "edit", !.at = r, !.docs = D,
                !.rows = [@ EXCEPT ![r] = row[r]]]]
           /\ excused' = IF "page" \in Failures
                           THEN excused \cup {<<d, r>> : d \in Carrying(r) \ D} ELSE excused
  BY FetchTask, Zenon
<1>2. PICK R : R = [task[t].rows EXCEPT ![r] = row[r]]  OBVIOUS
<1>3. PICK p : p = IF D = {} THEN "remove" ELSE "edit"  OBVIOUS
<1>4. PICK q : q = [task[t] EXCEPT !.pc = p, !.at = r, !.docs = D, !.rows = R]  OBVIOUS
<1>5. task' = [task EXCEPT ![t] = q]  BY <1>1, <1>2, <1>3, <1>4, Zenon
<1>6. /\ q.pc = p /\ q.at = r /\ q.docs = D /\ q.todo = task[t].todo /\ q.keep = task[t].keep
      /\ q.rows = R /\ q.listed = task[t].listed /\ q.audits = task[t].audits
  BY <1>4, TaskTypes DEF TaskRecords
<1>7. R[r] = row[r] /\ \A e \in Entities \ {r} : R[e] = task[t].rows[e]  BY <1>2, TaskTypes
<1>8. task[t].pc = "affected" /\ r \in task[t].todo  BY ZenonT(30) DEF FetchAffected
<1>9. D \in SUBSET Docs  BY DEF Affected, Carrying
<1>10. /\ q.pc = IF D = {} THEN "remove" ELSE "edit"
       /\ q.rows[r] = row[r] /\ \A e \in Entities \ {r} : q.rows[e] = task[t].rows[e]
  BY <1>3, <1>6, <1>7
<1>11. /\ q.at = r /\ q.docs = D /\ q.todo = task[t].todo /\ q.keep = task[t].keep
       /\ q.listed = task[t].listed /\ q.audits = task[t].audits
  BY <1>6
<1>12. /\ D \in Affected(r)
       /\ excused' = IF "page" \in Failures
                       THEN excused \cup {<<d, r>> : d \in Carrying(r) \ D} ELSE excused
  BY <1>1
<1>13. FetchedTo(t, r, q, D)
  BY <1>5, <1>8, <1>9, <1>10, <1>11, <1>12, Zenon DEF FetchedTo
<1>. QED  BY <1>13

EditedTo(t, q) ==
  /\ task' = [task EXCEPT ![t] = q] /\ q.pc = "remove" /\ q.docs = {}
  /\ q.at = task[t].at /\ q.todo = task[t].todo /\ q.keep = task[t].keep
  /\ q.rows = task[t].rows /\ q.listed = task[t].listed
  /\ q.audits = task[t].audits \cup
       {<<d, task[t].at, task[t].keep>> : d \in task[t].docs}
  /\ task[t].pc = "edit"

LEMMA EditedTask ==
  ASSUME TypeOK, NEW t \in Tasks, BulkEdit(t)
  PROVE  \E q : EditedTo(t, q)
<1>1. PICK A : A = task[t].audits \cup {<<d, task[t].at, task[t].keep>> : d \in task[t].docs}
  OBVIOUS
<1>2. task' = [task EXCEPT ![t] = [task[t] EXCEPT !.pc = "remove", !.docs = {}, !.audits = A]]
  BY <1>1, EditTask
<1>3. task[t].pc = "edit"  BY Effects
<1>4. PICK q : q = [task[t] EXCEPT !.pc = "remove", !.docs = {}, !.audits = A]  OBVIOUS
<1>5. /\ q.pc = "remove" /\ q.docs = {} /\ q.at = task[t].at /\ q.todo = task[t].todo
      /\ q.keep = task[t].keep /\ q.rows = task[t].rows /\ q.listed = task[t].listed
      /\ q.audits = A
  BY <1>4, TaskTypes DEF TaskRecords
<1>6. task' = [task EXCEPT ![t] = q]  BY <1>2, <1>4
<1>7. q.audits = task[t].audits \cup {<<d, task[t].at, task[t].keep>> : d \in task[t].docs}
  BY <1>1, <1>5, Zenon
<1>8. EditedTo(t, q)  BY <1>3, <1>5, <1>6, <1>7, Zenon DEF EditedTo
<1>. QED  BY <1>8

RemovedTo(t, q) ==
  /\ task' = [task EXCEPT ![t] = q] /\ q.pc \in {"commit", "affected"}
  /\ q.todo = task[t].todo \ {task[t].at} /\ q.keep = task[t].keep
  /\ q.rows = task[t].rows /\ q.listed = task[t].listed
  /\ q.audits = task[t].audits /\ task[t].pc = "remove"

LEMMA RemovedTask ==
  ASSUME TypeOK, NEW t \in Tasks, Remove(t)
  PROVE  \E q : RemovedTo(t, q)
<1>1. PICK p : p = IF task[t].todo = {task[t].at} THEN "commit" ELSE "affected"  OBVIOUS
<1>2. PICK q : q = [task[t] EXCEPT !.pc = p, !.todo = @ \ {task[t].at}, !.at = NoEntity]
  OBVIOUS
<1>3. task' = [task EXCEPT ![t] = q]  BY <1>1, <1>2, RemoveTask, Zenon
<1>4. task[t].pc = "remove"  BY Effects
<1>5. /\ q.pc = p /\ q.todo = task[t].todo \ {task[t].at} /\ q.keep = task[t].keep
      /\ q.rows = task[t].rows /\ q.listed = task[t].listed /\ q.audits = task[t].audits
  BY <1>2, TaskTypes DEF TaskRecords
<1>6. q.pc \in {"commit", "affected"}  BY <1>1, <1>5
<1>7. RemovedTo(t, q)  BY <1>3, <1>4, <1>5, <1>6, Zenon DEF RemovedTo
<1>. QED  BY <1>7

-----------------------------------------------------------------------------
(* The steps of a scan.                                                    *)

LEMMA IdleScanFields ==
  /\ IdleScan.pc = "idle" /\ IdleScan.seen = {} /\ IdleScan.stirred = {} /\ IdleScan.docs = {}
  /\ IdleScan.at = {} /\ IdleScan.flagged = {} /\ IdleScan.left = {}
  /\ \A e \in Entities : IdleScan.rows[e] = NoRow /\ IdleScan.names[e] = "none"
  BY DEF IdleScan, NoRows

LEMMA StartStep ==
  ASSUME TypeOK, NEW b \in BOOLEAN, StartScan(b)
  PROVE  /\ scan.pc = "idle" /\ scan'.pc = "pending" /\ scan'.blocked = dismissals
         /\ \A e \in Entities : scan'.rows[e] = NoRow /\ scan'.names[e] = "none"
         /\ scan'.at = {}
<1>1. scan' = [IdleScan EXCEPT !.pc = "pending", !.incremental = b, !.blocked = dismissals]
      /\ scan.pc = "idle"
  BY DEF StartScan
<1>2. /\ scan'.pc = "pending" /\ scan'.blocked = dismissals /\ scan'.rows = IdleScan.rows
      /\ scan'.names = IdleScan.names /\ scan'.at = IdleScan.at
  BY <1>1, Idles DEF ScanRecords
<1>. QED  BY <1>1, <1>2, IdleScanFields

LEMMA QueryStep ==
  ASSUME TypeOK, NEW e \in Entities, Query(e)
  PROVE  /\ scan.pc = "query" /\ scan'.pc = "query" /\ e \in scan.left
         /\ scan'.left = scan.left \ {e} /\ scan'.seen = scan.seen \cup {e}
         /\ scan'.stirred = scan.stirred /\ scan'.rows = scan.rows /\ scan'.names = scan.names
         /\ scan'.blocked = scan.blocked /\ scan'.covered = scan.covered /\ scan'.at = scan.at
<1>1. PICK D : scan' = [scan EXCEPT !.left = @ \ {e}, !.found[e] = D, !.seen = @ \cup {e}]
  BY ZenonT(30) DEF Query
<1>2. scan.pc = "query" /\ e \in scan.left  BY ZenonT(30) DEF Query
<1>3. PICK F : F = [scan.found EXCEPT ![e] = D]  OBVIOUS
<1>4. scan' = [scan EXCEPT !.left = @ \ {e}, !.found = F, !.seen = @ \cup {e}]
  BY <1>1, <1>3
<1>. QED  BY <1>2, <1>4, ScanTypes DEF ScanRecords

LEMMA FetchStep ==
  ASSUME TypeOK, NEW d \in Docs, FetchDoc(d)
  PROVE  /\ scan.pc = "fetch" /\ scan'.pc = "propose" /\ d \in scan.docs
         /\ scan'.at = {d} /\ scan'.docs = scan.docs \ {d} /\ scan'.fetched = carries[d]
         /\ scan'.seen = scan.seen /\ scan'.stirred = scan.stirred /\ scan'.rows = scan.rows
         /\ scan'.names = scan.names /\ scan'.flagged = scan.flagged
         /\ moved' = moved \ {d}
<1>1. /\ scan.pc = "fetch" /\ d \in scan.docs /\ moved' = moved \ {d}
      /\ scan' = [scan EXCEPT !.pc = "propose", !.at = {d}, !.fetched = carries[d],
                              !.docs = @ \ {d}]
  BY DEF FetchDoc
<1>. QED  BY <1>1, ScanTypes DEF ScanRecords

LEMMA ProposedScan ==
  ASSUME TypeOK, Propose
  PROVE  /\ scan.pc = "propose" /\ scan'.pc \in {"stamp", "fetch"}
         /\ scan'.at = {} /\ scan'.docs = scan.docs
         /\ scan'.seen = scan.seen /\ scan'.stirred = scan.stirred /\ scan'.rows = scan.rows
         /\ scan'.names = scan.names /\ scan'.flagged = scan.flagged
<1>1. scan' = [scan EXCEPT !.pc = IF scan.docs = {} THEN "stamp" ELSE "fetch",
                           !.at = {}, !.fetched = {}]
  BY ZenonT(30) DEF Propose
<1>2. scan.pc = "propose"  BY ZenonT(30) DEF Propose
<1>3. PICK p : p = IF scan.docs = {} THEN "stamp" ELSE "fetch"  OBVIOUS
<1>4. scan' = [scan EXCEPT !.pc = p, !.at = {}, !.fetched = {}]  BY <1>1, <1>3, Zenon
<1>5. p \in {"stamp", "fetch"}  BY <1>3
<1>. QED  BY <1>2, <1>4, <1>5, ScanTypes DEF ScanRecords

\* The rows that a scan has loaded are read from the database, kept, or dropped.
LEMMA ScanRows ==
  ASSUME TypeOK, [Next]_vars, ~Refresh
  PROVE  /\ \A e \in Entities : scan'.rows[e] \in {NoRow, row[e], scan.rows[e]}
         /\ scan'.pc = "refresh" =>
              ReadRows \/ (scan.pc = "refresh" /\ scan'.rows = scan.rows)
         /\ ReadRows => \A e \in Entities : scan'.rows[e] \in {NoRow, row[e]}
<1>1. CASE ReadRows
  <2>1. \A e \in Entities : scan'.rows[e] = IF e \in ToScan THEN row[e] ELSE NoRow
    BY <1>1, ReadStep
  <2>. QED  BY <1>1, <2>1
<1>2. UNCHANGED scan \/ (\E es \in SUBSET Entities : scan' = Stir(es)) =>
        scan'.rows = scan.rows /\ scan'.pc = scan.pc
  BY StirHeld
<1>3. ASSUME NEW b \in BOOLEAN, StartScan(b)
      PROVE  scan'.pc # "refresh" /\ \A e \in Entities : scan'.rows[e] = NoRow
  BY <1>3, StartStep
<1>4. (\E e \in Entities : Query(e)) \/ (\E d \in Docs : FetchDoc(d)) \/ Propose =>
        scan'.pc # "refresh" /\ scan'.rows = scan.rows
  BY QueryStep, FetchStep, ProposedScan
<1>5. Classify => scan'.pc # "refresh" /\ scan'.rows = scan.rows
  <2>. HAVE Classify
  <2>1. PICK F \in SUBSET Findings, D \in SUBSET Docs : scan' = Classified(F, D)
    BY ClassifyStep
  <2>2. /\ Classified(F, D).pc = IF D = {} THEN "stamp" ELSE "fetch"
        /\ Classified(F, D).rows = scan.rows
    BY ClassifiedIs DEF ClassifiedAs
  <2>. QED  BY <2>1, <2>2
<1>6. Stamp \/ ScanFails \/ Restart =>
        scan'.pc # "refresh" /\ \A e \in Entities : scan'.rows[e] = NoRow
  BY IdleScanFields DEF Stamp, ScanFails, Restart
<1>. QED
  BY <1>1, <1>2, <1>3, <1>4, <1>5, <1>6, ScanWriters DEF ScanStep, ScheduledScan, ManualScan

LEMMA VectorsStep ==
  ASSUME TypeOK, \A t \in Tasks : TaskOK(t), HeldIsRow, VectorIsCurrent, [Next]_vars
  PROVE  HeldIsRow' /\ VectorIsCurrent'
<1>1. SameRows => VectorIsCurrent'  BY VectorStep DEF SameRows
<1>2. ASSUME SameRows, task' = task,
             scan'.pc = "refresh" => \A e \in Entities :
                \/ scan'.rows[e] \in {NoRow, row[e]}
                \/ scan.pc = "refresh" /\ scan'.rows[e] = scan.rows[e]
      PROVE  HeldIsRow' /\ VectorIsCurrent'
  BY <1>1, <1>2, HeldSame
<1>3. ASSUME NEW t \in Tasks, NEW r, SameRows, task' = [task EXCEPT ![t] = r], scan' = scan,
             \A e \in Entities : r.rows[e] \in {NoRow, row[e], task[t].rows[e]}
      PROVE  HeldIsRow' /\ VectorIsCurrent'
  <2>1. \A u \in Tasks : \A e \in Entities : task'[u].rows[e] \in {NoRow, row[e], task[u].rows[e]}
    BY <1>3, SetTask
  <2>. QED  BY <1>1, <1>3, <2>1, HeldSame
<1>4. ASSUME NEW t \in Tasks, TaskStep(t)
      PROVE  HeldIsRow' /\ VectorIsCurrent'
  <2>1. ASSUME NEW e \in Entities, NEW x \in Texts, Describe(t, e, x)
        PROVE  HeldIsRow' /\ VectorIsCurrent'
    BY <2>1, DescribeVectors
  <2>2. ASSUME Embed(t) \/ SyncRows(t) \/ CommitMerge(t)
        PROVE  HeldIsRow' /\ VectorIsCurrent'
    BY <2>2, EmbedVectors, SyncVectors, CommitVectors
  <2>3. ASSUME NEW e \in Entities, GenerateOne(t, e)
        PROVE  HeldIsRow' /\ VectorIsCurrent'
    <3>1. Generate(t, {e}, FALSE) /\ {e} \in SUBSET Entities  BY <2>3 DEF GenerateOne
    <3>. QED  BY <3>1, GenerateVectors
  <2>4. ASSUME NEW b \in BOOLEAN, BulkGenerate(t, b)
        PROVE  HeldIsRow' /\ VectorIsCurrent'
    <3>1. PICK S \in SUBSET Entities : Generate(t, S, TRUE)
      BY <2>4 DEF BulkGenerate
    <3>. QED  BY <3>1, GenerateVectors
  <2>5. ASSUME NEW e \in Entities, DescribeFails(t, e) \/ EmbedFails(t)
        PROVE  HeldIsRow' /\ VectorIsCurrent'
    <3>1. SameRows /\ scan' = scan  BY <2>5, TaskFrames
    <3>2. PICK q : /\ task' = [task EXCEPT ![t] = q]
               /\ \/ q = Idle
                  \/ task[t].pc = "describe" /\ q = Dropped(task[t], e)
                  \/ /\ task[t].pc = "embed" /\ task[t].at \in Entities
                     /\ q = Freed(task[t], task[t].at)
      BY <2>5, FailedTask, Zenon
    <3>3. \A f \in Entities : q.rows[f] \in {NoRow, row[f], task[t].rows[f]}
      BY <3>2, IdleFields, DroppedFields, FreedFields, TaskTypes
    <3>. QED  BY <1>3, <3>1, <3>2, <3>3
  <2>6. ASSUME Cancel(t) \/ Sync(t) \/ BulkEdit(t) \/ Ends(t) \/ Remove(t)
        PROVE  HeldIsRow' /\ VectorIsCurrent'
    <3>1. SameRows /\ scan' = scan  BY <2>6, TaskFrames
    <3>2. \E q : task' = [task EXCEPT ![t] = q] /\ (q.rows = task[t].rows \/ q.rows = Idle.rows)
      <4>1. CASE Cancel(t)  BY <4>1, CancelledTask DEF CancelledTo
      <4>2. CASE Sync(t)  BY <4>2, SyncTask DEF SyncTo
      <4>3. CASE BulkEdit(t)  BY <4>3, EditedTask DEF EditedTo
      <4>4. CASE Remove(t)  BY <4>4, RemovedTask DEF RemovedTo
      <4>5. CASE Ends(t)  BY <4>5, EndedTask
      <4>. QED  BY <2>6, <4>1, <4>2, <4>3, <4>4, <4>5
    <3>3. PICK q : task' = [task EXCEPT ![t] = q] /\ (q.rows = task[t].rows \/ q.rows = Idle.rows)
      BY <3>2
    <3>4. \A f \in Entities : q.rows[f] \in {NoRow, row[f], task[t].rows[f]}
      BY <3>3, IdleFields
    <3>. QED  BY <1>3, <3>1, <3>3, <3>4
  <2>7. ASSUME NEW e \in Entities, NEW R \in SUBSET Entities, Merge(t, e, R)
        PROVE  HeldIsRow' /\ VectorIsCurrent'
    <3>1. SameRows /\ scan' = scan  BY <2>7, TaskFrames
    <3>2. PICK q : task' = [task EXCEPT ![t] = q] /\ q.rows = Idle.rows
      BY <2>7, MergeTask DEF MergeTo
    <3>3. \A f \in Entities : q.rows[f] \in {NoRow, row[f], task[t].rows[f]}
      BY <3>2, IdleFields
    <3>. QED  BY <1>3, <3>1, <3>2, <3>3
  <2>8. ASSUME NEW e \in Entities, FetchAffected(t, e)
        PROVE  HeldIsRow' /\ VectorIsCurrent'
    <3>1. SameRows /\ scan' = scan  BY <2>8, TaskFrames
    <3>2. PICK q, D : FetchedTo(t, e, q, D)  BY <2>8, FetchedTask
    <3>3. \A f \in Entities : q.rows[f] \in {NoRow, row[f], task[t].rows[f]}
      BY <3>2 DEF FetchedTo
    <3>4. task' = [task EXCEPT ![t] = q]  BY <3>2 DEF FetchedTo
    <3>. QED  BY <1>3, <3>1, <3>3, <3>4
  <2>9. ASSUME \E e \in Entities, x \in Texts \cup {NoText} : Patch(t, e, x)
        PROVE  HeldIsRow' /\ VectorIsCurrent'
    BY <2>9, PatchVectors
  <2>10. ASSUME NEW e \in Entities, Exclude(t, e)
         PROVE  HeldIsRow' /\ VectorIsCurrent'
    BY <2>10, ExcludeVectors
  <2>11. ASSUME EmbedFails(t) PROVE HeldIsRow' /\ VectorIsCurrent'
    <3>1. task[t].at \in Entities  BY <2>11 DEF EmbedFails, TaskOK
    <3>. QED  BY <2>5, <2>11, <3>1
  <2>. QED
    BY <1>4, <2>1, <2>2, <2>3, <2>4, <2>5, <2>6, <2>7, <2>8, <2>9, <2>10, <2>11, Zenon
    DEF TaskStep, Ends
<1>5. CASE Refresh  BY <1>5, RefreshVectors
<1>6. CASE Restart
  <2>1. SameRows /\ scan' = IdleScan  BY <1>6, OtherFrames DEF Restart
  <2>2. \A u \in Tasks : task'[u] = Idle  BY <1>6 DEF Restart
  <2>3. scan'.pc # "refresh"  BY <2>1, IdleScanFields
  <2>4. \A u \in Tasks : \A e \in Entities : task'[u].rows[e] \in {NoRow, row[e], task[u].rows[e]}
    BY <2>2, IdleFields
  <2>. QED  BY <1>1, <2>1, <2>3, <2>4, HeldSame
<1>7. CASE QueueStep \/ PaperlessStep \/ (ScanStep /\ ~Refresh) \/ UNCHANGED vars
  <2>1. SameRows /\ task' = task
    BY <1>7, OtherFrames DEF QueueStep, PaperlessStep, ScanStep, ScheduledScan, ManualScan
  <2>2. CASE ~Refresh
    <3>1. scan'.pc = "refresh" => \A e \in Entities :
                \/ scan'.rows[e] \in {NoRow, row[e]}
                \/ scan.pc = "refresh" /\ scan'.rows[e] = scan.rows[e]
      BY <2>2, ScanRows
    <3>. QED  BY <1>2, <2>1, <3>1
  <2>. QED  BY <1>5, <2>2
<1>. QED  BY <1>4, <1>5, <1>6, <1>7 DEF Next

-----------------------------------------------------------------------------
(* Documents.                                                              *)

\* A task that changes no document, and the steps of others that do not.
LEMMA MovedFrames ==
  ASSUME NEW t, NEW e, NEW x, NEW R, NEW b, NEW s, NEW d, NEW n
  PROVE  /\ Patch(t, e, x) \/ Exclude(t, e) \/ Describe(t, e, x) \/ GenerateOne(t, e)
              \/ BulkGenerate(t, b) \/ DescribeFails(t, e) \/ EmbedFails(t) \/ Cancel(t) \/ Sync(t)
              \/ Merge(t, e, R) \/ Embed(t) \/ SyncRows(t) \/ FetchAffected(t, e)
              \/ MergeFails(t) \/ CommitMerge(t) => UNCHANGED <<kind, carries, moved>>
         /\ Reject(s) \/ Approve(s) \/ Suggest(d) \/ Expire(x) \/ DocsEmbedded \/ Create(e, n)
              \/ Rename(e, n) \/ StartScan(b) \/ ReadRows \/ Query(e) \/ Classify \/ ScanFails \/ Refresh
              \/ Propose \/ Stamp \/ Restart \/ UNCHANGED vars => UNCHANGED <<kind, carries, moved>>
         /\ FetchDoc(d) => UNCHANGED <<kind, carries>> /\ moved' = moved \ {d}
<1>. USE DEF paperless, notes
<1>1. Patch(t, e, x) \/ Exclude(t, e) \/ Describe(t, e, x) => UNCHANGED <<kind, carries, moved>>
  BY DEF Patch, Exclude, Update, Describe
<1>2. \A S, c : Generate(t, S, c) => UNCHANGED <<kind, carries, moved>>  BY DEF Generate
<1>3. GenerateOne(t, e) \/ BulkGenerate(t, b) => UNCHANGED <<kind, carries, moved>>
  BY <1>2 DEF GenerateOne, BulkGenerate
<1>4. DescribeFails(t, e) \/ EmbedFails(t) \/ Cancel(t) \/ Sync(t) \/ Merge(t, e, R)
        => UNCHANGED <<kind, carries, moved>>
  BY DEF DescribeFails, EmbedFails, Cancel, Sync, Merge
<1>5. Embed(t) \/ MergeFails(t) \/ CommitMerge(t) => UNCHANGED <<kind, carries, moved>>
  BY DEF Embed, MergeFails, CommitMerge
<1>6. SyncRows(t) \/ FetchAffected(t, e) => UNCHANGED <<kind, carries, moved>>
  <2>1. SyncRows(t) \/ FetchAffected(t, e) => UNCHANGED paperless /\ UNCHANGED notes
    BY ZenonT(30) DEF SyncRows, FetchAffected
  <2>. QED  BY <2>1
<1>7. Reject(s) \/ Approve(s) \/ Suggest(d) \/ Expire(x) \/ DocsEmbedded \/ Create(e, n)
              \/ Rename(e, n) \/ StartScan(b) \/ ScanFails \/ Stamp \/ Restart \/ UNCHANGED vars
        => UNCHANGED <<kind, carries, moved>>
  BY DEF Reject, Approve, Suggest, Expire, DocsEmbedded, Create, Rename, StartScan, ScanFails,
         Stamp, Restart, vars
<1>8. ReadRows \/ Query(e) \/ Classify \/ Refresh \/ Propose => UNCHANGED <<kind, carries, moved>>
  <2>1. ReadRows \/ Query(e) \/ Classify \/ Refresh \/ Propose =>
          UNCHANGED paperless /\ UNCHANGED notes
    BY ZenonT(30) DEF ReadRows, Query, Classify, Refresh, Propose
  <2>. QED  BY <2>1
<1>9. FetchDoc(d) => UNCHANGED <<kind, carries>> /\ moved' = moved \ {d}
  BY DEF FetchDoc
<1>. QED  BY <1>1, <1>3, <1>4, <1>5, <1>6, <1>7, <1>8, <1>9

\* A document that a scan asked about is noted when it changes.
LEMMA MovedStep ==
  ASSUME TypeOK, \A t \in Tasks : TaskOK(t), [Next]_vars
  PROVE  /\ kind' = kind
         /\ \A d \in AskedAbout : d \in moved' \/ carries'[d] = carries[d] \/ d \notin Docs
         /\ \/ moved \subseteq moved'
            \/ \E d \in Docs : FetchDoc(d) /\ moved' = moved \ {d} /\ carries' = carries
<1>1. ASSUME NEW C, Carry(C)
      PROVE  /\ moved \subseteq moved'
             /\ \A d \in AskedAbout : d \in moved' \/ carries'[d] = carries[d]
  BY <1>1 DEF Carry
<1>2. ASSUME NEW t \in Tasks, Reassign(t)
      PROVE  kind' = kind /\ \E C : Carry(C)
  BY <1>2, EditTypes
<1>3. ASSUME NEW t \in Tasks, Deleted(t)
      PROVE  /\ kind' = kind /\ moved \subseteq moved'
             /\ \A d \in AskedAbout : d \in moved' \/ carries'[d] = carries[d] \/ d \notin Docs
  <2>1. kind' = kind /\ Delete(task[t].at) /\ task[t].pc = "remove"  BY <1>3, Effects
  <2>2. PICK r \in Entities : r = task[t].at  BY <2>1, TaskTypes DEF TaskOK
  <2>3. Delete(r)  BY <2>1, <2>2
  <2>4. kind' = kind  BY <2>1
  <2>5. /\ moved \subseteq moved'
        /\ \A d \in AskedAbout : d \in moved' \/ carries'[d] = carries[d] \/ d \notin Docs
    <3>1. /\ moved' = moved \cup (Carrying(r) \cap AskedAbout)
          /\ carries' = [d \in Docs |-> carries[d] \ {r}]
      BY <2>3 DEF Delete
    <3>2. ASSUME NEW d \in AskedAbout, d \in Docs, d \notin moved' PROVE carries'[d] = carries[d]
      <4>1. r \notin carries[d]  BY <3>1, <3>2 DEF Carrying
      <4>. QED  BY <3>1, <3>2, <4>1
    <3>. QED  BY <3>1, <3>2
  <2>. QED  BY <2>4, <2>5
<1>4. ASSUME NEW d, NEW C, Retag(d, C)
      PROVE  kind' = kind /\ \E D : Carry(D)
  BY <1>4 DEF Retag
<1>5. UNCHANGED <<kind, carries, moved>> \/ (\E d \in Docs : FetchDoc(d))
        \/ (\E t \in Tasks : Reassign(t) \/ Deleted(t)) \/ (\E d, C : Retag(d, C))
  <2>1. ASSUME NEW t \in Tasks, TaskStep(t)
        PROVE  UNCHANGED <<kind, carries, moved>> \/ Reassign(t) \/ Deleted(t)
    <3>1. BulkEdit(t) \/ EditUnanswered(t) \/ Remove(t) \/ RemoveUnanswered(t) =>
            UNCHANGED <<kind, carries, moved>> \/ Reassign(t) \/ Deleted(t)
      BY Effects DEF paperless, notes
    <3>. QED  BY <2>1, <3>1, MovedFrames DEF TaskStep
  <2>2. QueueStep \/ ScanStep \/ Restart \/ UNCHANGED vars =>
           UNCHANGED <<kind, carries, moved>> \/ \E d \in Docs : FetchDoc(d)
    BY MovedFrames DEF QueueStep, ScanStep, ScheduledScan, ManualScan
  <2>3. PaperlessStep => UNCHANGED <<kind, carries, moved>> \/ \E d, C : Retag(d, C)
    BY MovedFrames DEF PaperlessStep
  <2>. QED  BY <2>1, <2>2, <2>3 DEF Next
<1>6. \A d : FetchDoc(d) => UNCHANGED <<kind, carries>> /\ moved' = moved \ {d}
  BY MovedFrames
<1>7. CASE UNCHANGED <<kind, carries, moved>>  BY <1>7
<1>8. CASE \E d \in Docs : FetchDoc(d)  BY <1>6, <1>8
<1>9. CASE \E t \in Tasks : Reassign(t) \/ Deleted(t)  BY <1>1, <1>2, <1>3, <1>9
<1>10. CASE \E d, C : Retag(d, C)  BY <1>1, <1>4, <1>10
<1>. QED  BY <1>5, <1>7, <1>8, <1>9, <1>10

-----------------------------------------------------------------------------
(* What a scan proposes.                                                   *)

\* At most what the scan has seen is another.
SameScan ==
  /\ scan'.pc = scan.pc /\ scan'.rows = scan.rows /\ scan'.names = scan.names
  /\ scan'.flagged = scan.flagged /\ scan'.docs = scan.docs /\ scan'.at = scan.at
  /\ scan'.fetched = scan.fetched /\ scan'.blocked = scan.blocked
  /\ scan'.covered = scan.covered /\ scan'.left = scan.left

LEMMA ScanCases ==
  ASSUME TypeOK, [Next]_vars
  PROVE  \/ SameScan \/ ReadRows \/ Refresh \/ Classify \/ Propose \/ scan' = IdleScan
         \/ (\E b \in BOOLEAN : StartScan(b)) \/ (\E e \in Entities : Query(e))
         \/ (\E d \in Docs : FetchDoc(d))
<1>1. UNCHANGED scan => SameScan  BY DEF SameScan
<1>2. ASSUME NEW es \in SUBSET Entities, scan' = Stir(es) PROVE SameScan
  BY <1>2, StirTypes DEF SameScan
<1>3. Stamp \/ ScanFails \/ Restart => scan' = IdleScan  BY DEF Stamp, ScanFails, Restart
<1>. QED  BY <1>1, <1>2, <1>3, ScanWriters DEF ScanStep, ScheduledScan, ManualScan

\* The scan goes on to what it has classified.
LEMMA ClassifiedScan ==
  ASSUME TypeOK, Classify
  PROVE  /\ scan.pc = "query" /\ scan'.pc \in {"stamp", "fetch"} /\ scan.left = {}
         /\ scan'.rows = scan.rows /\ scan'.seen = scan.seen /\ scan'.stirred = scan.stirred
         /\ \A e \in Entities : scan'.names[e] = IF e \in alive THEN name[e] ELSE "none"
         /\ scan'.at = scan.at /\ scan'.docs \in SUBSET Docs
         /\ \A f \in scan'.flagged : /\ f \in Findings /\ Blocking(f) \cap scan.blocked = {}
                                     /\ f.doc \notin scan.covered /\ f.doc \in scan'.docs
         /\ \A f, g \in scan'.flagged : f.ent = g.ent /\ f.doc = g.doc => f = g
         /\ \A d \in scan'.docs : \E f \in scan'.flagged : f.doc = d
<1>1. PICK F \in SUBSET Findings, D \in SUBSET Docs :
         Open(F) /\ D \subseteq {f.doc : f \in F} /\ scan' = Classified(F, D)
  BY ClassifyStep
<1>2. PICK s : s = Classified(F, D)  OBVIOUS
<1>3. ClassifiedAs(F, D, s)  BY <1>2, ClassifiedIs
<1>4. scan' = s  BY <1>1, <1>2
<1>5. scan.pc = "query" /\ scan.left = {}  BY ClassifyStep
<1>6. /\ \A f \in F : Blocking(f) \cap scan.blocked = {} /\ f.doc \notin scan.covered
      /\ \A f, g \in F : f.ent = g.ent /\ f.doc = g.doc => f = g
  <2>1. Open(F)  BY <1>1
  <2>. QED  BY <2>1 DEF Open
<1>7. /\ scan'.pc \in {"stamp", "fetch"} /\ scan'.at = scan.at /\ scan'.rows = scan.rows
      /\ scan'.docs = D
      /\ scan'.seen = scan.seen /\ scan'.stirred = scan.stirred
      /\ \A e \in Entities : scan'.names[e] = IF e \in alive THEN name[e] ELSE "none"
  BY <1>3, <1>4 DEF ClassifiedAs
<1>8. \A f : f \in scan'.flagged <=> f \in F /\ f.doc \in D  BY <1>3, <1>4 DEF ClassifiedAs
<1>9. \A d \in D : \E f \in F : f.doc = d  BY <1>1
<1>. HIDE DEF Open
<1>. QED  BY <1>5, <1>6, <1>7, <1>8, <1>9

LEMMA ProposalStep ==
  ASSUME TypeOK, \A t \in Tasks : TaskOK(t), ProposalOK, [Next]_vars
  PROVE  ProposalOK'
<1>. DEFINE Good(f, k, R) ==
       /\ R[f.ent] # NoRow
       /\ k = "tag" => f.act \in {"add", "remove"}
       /\ k = "single" =>
            /\ f.act # "remove" /\ f.by # f.ent /\ (f.act = "replace" <=> f.by # NoEntity)
            /\ f.by # NoEntity => R[f.by] # NoRow
<1>1. /\ kind' = kind /\ \A d \in AskedAbout : d \in moved' \/ carries'[d] = carries[d] \/ d \notin Docs
      /\ (moved \subseteq moved' \/ \E d \in Docs : FetchDoc(d))
  BY MovedStep
<1>2. scan.pc \in {"fetch", "propose"} => \A f \in scan.flagged : Good(f, kind, scan.rows)
  BY DEF ProposalOK
<1>3. /\ scan'.pc \in {"fetch", "propose"} => \A f \in scan'.flagged : Good(f, kind, scan'.rows)
      /\ scan'.pc = "propose" =>
           \E d \in Docs \ scan'.docs : scan'.at = {d} /\ (d \in moved' \/ scan'.fetched = carries'[d])
  <2>1. CASE SameScan
    <3>1. scan'.pc \in {"fetch", "propose"} => \A f \in scan'.flagged : Good(f, kind, scan'.rows)
      BY <1>2, <2>1 DEF SameScan
    <3>2. ASSUME scan.pc = "propose"
          PROVE  \E d \in Docs \ scan'.docs :
                   scan'.at = {d} /\ (d \in moved' \/ scan'.fetched = carries'[d])
      <4>1. PICK d \in Docs \ scan.docs :
              scan.at = {d} /\ (d \in moved \/ scan.fetched = carries[d])
        BY <3>2 DEF ProposalOK
      <4>2. d \in moved' \/ carries'[d] = carries[d]  BY <1>1, <4>1 DEF AskedAbout
      <4>3. moved \subseteq moved'
        <5>1. ASSUME NEW c \in Docs, FetchDoc(c) PROVE FALSE
          BY <5>1, <3>2, FetchStep
        <5>. QED  BY <1>1, <5>1
      <4>. QED  BY <2>1, <4>1, <4>2, <4>3 DEF SameScan
    <3>. QED  BY <2>1, <3>1, <3>2 DEF SameScan
  <2>2. CASE ReadRows \/ Refresh \/ (\E b \in BOOLEAN : StartScan(b)) \/ (\E e \in Entities : Query(e))
             \/ scan' = IdleScan
    <3>1. scan'.pc \notin {"fetch", "propose"}
      <4>1. Refresh => scan'.pc = "query"  BY RefreshStep, RefreshScan
      <4>2. ReadRows => scan'.pc = "refresh"  BY ReadStep, Zenon
      <4>. QED  BY <2>2, <4>1, <4>2, StartStep, QueryStep, IdleScanFields
    <3>. QED  BY <3>1
  <2>3. CASE Classify
    <3>1. scan'.pc # "propose" /\ scan'.rows = scan.rows /\ \A f \in scan'.flagged : f \in Findings
      BY <2>3, ClassifiedScan
    <3>2. ASSUME NEW f \in Findings PROVE Good(f, kind, scan.rows)
      BY FindingTypes DEF Scanned
    <3>. QED  BY <3>1, <3>2
  <2>4. ASSUME NEW d \in Docs, FetchDoc(d)
        PROVE  /\ scan'.pc \in {"fetch", "propose"} => \A f \in scan'.flagged : Good(f, kind, scan'.rows)
               /\ scan'.pc = "propose" => \E c \in Docs \ scan'.docs :
                    scan'.at = {c} /\ (c \in moved' \/ scan'.fetched = carries'[c])
    <3>1. carries' = carries  BY <2>4, MovedFrames
    <3>. QED  BY <1>2, <2>4, <3>1, FetchStep
  <2>5. CASE Propose  BY <1>2, <2>5, ProposedScan
  <2>. QED  BY <2>1, <2>2, <2>3, <2>4, <2>5, ScanCases
<1>4. scan'.pc # "propose" => scan'.at = {}
  <2>1. scan.pc # "propose" => scan.at = {}  BY DEF ProposalOK
  <2>2. SameScan => scan'.pc = scan.pc /\ scan'.at = scan.at  BY DEF SameScan
  <2>3. ReadRows => scan.pc = "pending" /\ scan'.at = scan.at  BY ReadStep, Zenon
  <2>4. Refresh => scan.pc = "refresh" /\ scan'.at = scan.at  BY RefreshStep, RefreshScan
  <2>5. Classify => scan.pc = "query" /\ scan'.at = scan.at  BY ClassifiedScan
  <2>6. ASSUME NEW e \in Entities, Query(e) PROVE scan.pc = "query" /\ scan'.at = scan.at
    BY <2>6, QueryStep
  <2>7. (\E b \in BOOLEAN : StartScan(b)) \/ Propose \/ scan' = IdleScan => scan'.at = {}
    BY StartStep, ProposedScan, IdleScanFields
  <2>8. (\E d \in Docs : FetchDoc(d)) => scan'.pc = "propose"  BY FetchStep
  <2>. QED  BY <2>1, <2>2, <2>3, <2>4, <2>5, <2>6, <2>7, <2>8, ScanCases
<1>. QED  BY <1>1, <1>3, <1>4 DEF ProposalOK

-----------------------------------------------------------------------------
(* What a task has loaded.                                                 *)

\* The part of TaskOK that is about the task alone, and the part about the documents.
Shape(r) ==
  /\ r.pc = "idle" => r = Idle
  /\ r.pc \in {"describe", "embed"} => \A e \in r.todo : r.rows[e] # NoRow
  /\ r.pc = "embed" => r.at \in Entities \ r.todo /\ r.rows[r.at] # NoRow
  /\ r.audits # {} => r.pc \in {"affected", "edit", "remove", "commit"}
  /\ r.pc \in {"affected", "edit", "remove"} => r.keep \in Entities \ r.todo
  /\ r.pc \in {"edit", "remove"} => r.at \in r.todo
  /\ r.pc = "remove" => r.docs = {}

Told(r) ==
  r.pc \in {"edit", "remove"} =>
    \A d \in Docs : r.at \in carries[d] => d \in r.docs \/ <<d, r.at>> \in excused

LEMMA TaskParts ==
  /\ \A t : TaskOK(t) <=> Shape(task[t]) /\ Told(task[t])
  /\ \A t \in Tasks : TaskOK(t)' <=> Shape(task'[t]) /\ Told(task[t])'
<1>1. \A t : TaskOK(t) <=> Shape(task[t]) /\ Told(task[t])
  BY DEF TaskOK, Shape, Told, Carrying
<1>2. \A t \in Tasks : TaskOK(t)' <=> Shape(task'[t]) /\ Told(task[t])'
  BY DEF TaskOK, Shape, Told, Carrying
<1>. QED  BY <1>1, <1>2

LEMMA IdleShape == Shape(Idle)
  BY IdleFields DEF Shape

LEMMA UpdatedShape ==
  ASSUME NEW e \in Entities, NEW r \in RealRows
  PROVE  Shape(ToEmbed(Idle, e, r))
<1>1. PICK q : q = ToEmbed(Idle, e, r)  OBVIOUS
<1>2. /\ q.pc = "embed" /\ q.at = e /\ q.todo = {} /\ q.rows[e] = r /\ q.audits = {}
  <2>1. r \in Rows  BY RowSet
  <2>2. /\ ToEmbed(Idle, e, r).pc = "embed" /\ ToEmbed(Idle, e, r).at = e
        /\ ToEmbed(Idle, e, r).todo = Idle.todo /\ ToEmbed(Idle, e, r).rows[e] = r
        /\ ToEmbed(Idle, e, r).audits = Idle.audits
    BY <2>1, Idles, ToEmbedFields
  <2>. QED  BY <1>1, <2>2, IdleFields
<1>3. r # NoRow  BY RowSet
<1>. QED  BY <1>1, <1>2, <1>3 DEF Shape

LEMMA GeneratedShape ==
  ASSUME TypeOK, NEW t \in Tasks, NEW S \in SUBSET Entities, NEW b \in BOOLEAN, Generate(t, S, b),
         \A e \in S : Exists(e)
  PROVE  Shape(task'[t])
<1>1. PICK R : R = [e \in Entities |-> IF e \in S THEN row[e] ELSE NoRow]  OBVIOUS
<1>2. PICK q : q = [Idle EXCEPT !.pc = "describe", !.bulk = b, !.todo = S, !.rows = R]  OBVIOUS
<1>3. task' = [task EXCEPT ![t] = q]  BY <1>1, <1>2 DEF Generate
<1>4. task'[t] = q  BY <1>3, TaskTypes
<1>5. q.rows = R /\ q.pc = "describe" /\ q.todo = S /\ q.audits = {}
  BY <1>2, Idles, IdleFields DEF TaskRecords
<1>6. \A e \in S : R[e] # NoRow  BY <1>1 DEF Exists
<1>. QED  BY <1>4, <1>5, <1>6 DEF Shape

LEMMA DescribedShape ==
  ASSUME TypeOK, NEW t \in Tasks, TaskOK(t), NEW e \in Entities, NEW x \in Texts, Describe(t, e, x)
  PROVE  Shape(task'[t])
<1>1. PICK old \in RealRows : old = task[t].rows[e]  BY DescribeRow
<1>2. PICK new \in RealRows : new = Described(old, x)  BY DescribedRows
<1>3. PICK w \in TaskRecords : /\ w = Without(task[t], e) /\ w.rows = task[t].rows
                               /\ w.todo = task[t].todo \ {e} /\ w.audits = task[t].audits
  BY TaskTypes, WithoutFields
<1>4. PICK q : q = ToEmbed(w, e, new)  OBVIOUS
<1>5. task' = [task EXCEPT ![t] = q]  BY <1>1, <1>2, <1>3, <1>4, DescribeTask
<1>6. task'[t] = q  BY <1>5, TaskTypes
<1>7. /\ q.pc = "embed" /\ q.at = e /\ q.todo = w.todo /\ q.audits = w.audits
      /\ q.rows[e] = new /\ \A f \in Entities \ {e} : q.rows[f] = w.rows[f]
  <2>1. new \in Rows  BY RowSet
  <2>. QED  BY <1>4, <2>1, ToEmbedFields
<1>8. task[t].pc = "describe"  BY DEF Describe
<1>9. task[t].audits = {} /\ \A f \in task[t].todo : task[t].rows[f] # NoRow
  BY <1>8, TaskParts DEF Shape
<1>10. new # NoRow /\ task[t].todo \subseteq Entities  BY RowSet, TaskTypes
<1>11. q.audits = {} /\ q.at \in Entities \ q.todo /\ q.rows[q.at] # NoRow
       /\ \A f \in q.todo : q.rows[f] # NoRow
  BY <1>3, <1>7, <1>9, <1>10
<1>. QED  BY <1>6, <1>7, <1>11 DEF Shape

LEMMA FailedShape ==
  ASSUME TypeOK, NEW t \in Tasks, TaskOK(t), NEW e \in Entities,
         DescribeFails(t, e) \/ EmbedFails(t) \/ Embed(t)
  PROVE  Shape(task'[t])
<1>1. PICK q : /\ task' = [task EXCEPT ![t] = q]
               /\ \/ q = Idle
                  \/ task[t].pc = "describe" /\ q = Dropped(task[t], e)
                  \/ /\ task[t].pc = "embed" /\ task[t].at \in Entities
                     /\ q = Freed(task[t], task[t].at)
  <2>1. CASE Embed(t)
    <3>1. task[t].pc = "embed" /\ task[t].at \in Entities
      BY <2>1, EmbedRow DEF Embed
    <3>2. \E q \in {Idle, Freed(task[t], task[t].at)} : task' = [task EXCEPT ![t] = q]
      BY <2>1 DEF Embed, Goes, Freed
    <3>. QED  BY <3>1, <3>2
  <2>. QED  BY <2>1, FailedTask, Zenon
<1>2. task'[t] = q  BY <1>1, TaskTypes
<1>3. Shape(task[t]) /\ task[t].todo \subseteq Entities /\ task[t] \in TaskRecords
  BY TaskParts, TaskTypes
<1>4. CASE q = Idle  BY <1>2, <1>4, IdleShape
<1>5. CASE task[t].pc = "describe" /\ q = Dropped(task[t], e)
  <2>1. /\ q.pc = "describe" /\ q.todo = task[t].todo \ {e} /\ q.audits = task[t].audits
        /\ \A f \in Entities \ {e} : q.rows[f] = task[t].rows[f]
    BY <1>3, <1>5, DroppedFields
  <2>. QED  BY <1>2, <1>3, <1>5, <2>1 DEF Shape
<1>6. CASE /\ task[t].pc = "embed" /\ task[t].at \in Entities
           /\ q = Freed(task[t], task[t].at)
  <2>1. PICK a \in Entities : a = task[t].at  BY <1>6
  <2>2. /\ q.pc = "describe" /\ q.todo = task[t].todo /\ q.audits = task[t].audits
        /\ \A f \in Entities \ {a} : q.rows[f] = task[t].rows[f]
    BY <1>3, <1>6, <2>1, FreedFields
  <2>. QED  BY <1>2, <1>3, <1>6, <2>1, <2>2 DEF Shape
<1>. QED  BY <1>1, <1>4, <1>5, <1>6

LEMMA ShapeStep ==
  ASSUME TypeOK, NEW t \in Tasks, TaskOK(t), TaskStep(t)
  PROVE  Shape(task'[t])
<1>1. Shape(task[t]) /\ task \in [Tasks -> TaskRecords]  BY TaskParts, TaskTypes
<1>2. ASSUME NEW e \in Entities, NEW x \in Texts \cup {NoText}, Patch(t, e, x)
      PROVE  Shape(task'[t])
  <2>1. row[e] \in RealRows /\ task[t].pc = "idle"  BY <1>2, PatchRow
  <2>2. Described(row[e], x) \in RealRows  BY <2>1, DescribedRows
  <2>3. task' = task \/ task' = [task EXCEPT ![t] = ToEmbed(Idle, e, Described(row[e], x))]
    BY <1>2, PatchTask
  <2>. QED  BY <1>1, <2>2, <2>3, UpdatedShape
<1>3. ASSUME NEW e \in Entities, Exclude(t, e) PROVE Shape(task'[t])
  <2>1. row'[e] \in RealRows  BY <1>3, ExcludeRow
  <2>2. task' = task \/ task' = [task EXCEPT ![t] = ToEmbed(Idle, e, row'[e])]
    BY <1>3, ExcludeTask
  <2>3. Shape(ToEmbed(Idle, e, row'[e]))
    <3>1. PICK r \in RealRows : r = row'[e]  BY <2>1
    <3>. QED  BY <3>1, UpdatedShape
  <2>. QED  BY <1>1, <2>2, <2>3
<1>4. ASSUME NEW e \in Entities, GenerateOne(t, e) PROVE Shape(task'[t])
  <2>1. Generate(t, {e}, FALSE) /\ {e} \in SUBSET Entities /\ \A f \in {e} : Exists(f)
    BY <1>4 DEF GenerateOne
  <2>. QED  BY <2>1, GeneratedShape
<1>5. ASSUME NEW b \in BOOLEAN, BulkGenerate(t, b) PROVE Shape(task'[t])
  <2>1. PICK S \in SUBSET Entities : Generate(t, S, TRUE) /\ \A f \in S : Exists(f)
    <3>1. PICK S : S = {e \in Entities : Exists(e) /\ (b \/ row[e].desc = NoText)}  OBVIOUS
    <3>2. Generate(t, S, TRUE)  BY <1>5, <3>1 DEF BulkGenerate
    <3>3. S \in SUBSET Entities /\ \A f \in S : Exists(f)  BY <3>1
    <3>. QED  BY <3>2, <3>3
  <2>. QED  BY <2>1, GeneratedShape
<1>6. CASE Cancel(t)
  <2>1. PICK q : CancelledTo(t, q)  BY <1>6, CancelledTask
  <2>2. task'[t] = q  BY <1>1, <2>1 DEF CancelledTo
  <2>. QED  BY <1>1, <2>1, <2>2 DEF CancelledTo, Shape
<1>7. CASE Sync(t)
  <2>1. PICK q : SyncTo(t, q)  BY <1>7, SyncTask
  <2>2. task'[t] = q  BY <1>1, <2>1 DEF SyncTo
  <2>. QED  BY <2>1, <2>2 DEF SyncTo, Shape
<1>8. ASSUME SyncRows(t) \/ CommitMerge(t) \/ Ends(t) PROVE Shape(task'[t])
  <2>1. SyncRows(t) \/ CommitMerge(t) => task' = [task EXCEPT ![t] = Idle]
    BY ZenonT(30) DEF SyncRows, CommitMerge
  <2>2. task' = [task EXCEPT ![t] = Idle]  BY <1>8, <2>1, EndedTask
  <2>. QED  BY <1>1, <2>2, IdleShape
<1>9. ASSUME NEW k \in Entities, NEW R \in SUBSET Entities, Merge(t, k, R) PROVE Shape(task'[t])
  <2>1. PICK q : MergeTo(t, k, R, q)  BY <1>9, MergeTask
  <2>2. task'[t] = q  BY <1>1, <2>1 DEF MergeTo
  <2>. QED  BY <2>1, <2>2 DEF MergeTo, Shape
<1>10. ASSUME NEW r \in Entities, FetchAffected(t, r) PROVE Shape(task'[t])
  <2>1. PICK q, D : FetchedTo(t, r, q, D)  BY <1>10, FetchedTask
  <2>2. task'[t] = q  BY <1>1, <2>1 DEF FetchedTo
  <2>3. /\ q.pc = (IF D = {} THEN "remove" ELSE "edit") /\ q.at = r /\ q.docs = D
        /\ q.todo = task[t].todo /\ q.keep = task[t].keep /\ task[t].pc = "affected"
        /\ r \in task[t].todo
    BY <2>1 DEF FetchedTo
  <2>. QED  BY <1>1, <2>2, <2>3 DEF Shape
<1>11. CASE BulkEdit(t)
  <2>1. PICK q : EditedTo(t, q)  BY <1>11, EditedTask
  <2>2. task'[t] = q  BY <1>1, <2>1 DEF EditedTo
  <2>3. /\ q.pc = "remove" /\ q.docs = {} /\ q.at = task[t].at
        /\ q.todo = task[t].todo /\ q.keep = task[t].keep /\ task[t].pc = "edit"
    BY <2>1 DEF EditedTo
  <2>. QED  BY <1>1, <2>2, <2>3 DEF Shape
<1>12. CASE Remove(t)
  <2>1. PICK q : RemovedTo(t, q)  BY <1>12, RemovedTask
  <2>2. task'[t] = q  BY <1>1, <2>1 DEF RemovedTo
  <2>3. /\ q.pc \in {"commit", "affected"} /\ q.todo = task[t].todo \ {task[t].at}
        /\ q.keep = task[t].keep /\ task[t].pc = "remove"
    BY <2>1 DEF RemovedTo
  <2>. QED  BY <1>1, <2>2, <2>3 DEF Shape
<1>13. ASSUME NEW e \in Entities, DescribeFails(t, e) PROVE Shape(task'[t])
  BY <1>13, FailedShape
<1>14. ASSUME Embed(t) \/ EmbedFails(t) PROVE Shape(task'[t])
  <2>1. task[t].at \in Entities  BY <1>1, <1>14 DEF Embed, EmbedFails, Shape
  <2>. QED  BY <1>14, <2>1, FailedShape
<1>15. ASSUME NEW e \in Entities, NEW x \in Texts, Describe(t, e, x) PROVE Shape(task'[t])
  BY <1>15, DescribedShape
<1>. QED
  BY <1>2, <1>3, <1>4, <1>5, <1>6, <1>7, <1>8, <1>9, <1>10, <1>11, <1>12, <1>13, <1>14, <1>15
  DEF TaskStep, Ends

\* A document that comes to carry an entity is known to the merge of it, or excused.
LEMMA ExcusedStep ==
  ASSUME TypeOK, \A t \in Tasks : TaskOK(t), [Next]_vars
  PROVE  /\ excused \subseteq excused'
         /\ \A u \in Tasks : task[u].pc \in {"edit", "remove"} => \A d \in Docs :
              task[u].at \in carries'[d] \ carries[d]
                => d \in task[u].docs \/ <<d, task[u].at>> \in excused'
<1>1. ASSUME NEW C, Carry(C)
      PROVE  /\ excused \subseteq excused'
             /\ \A u \in Tasks : task[u].pc \in {"edit", "remove"} => \A d \in Docs :
                  task[u].at \in carries'[d] \ carries[d]
                    => d \in task[u].docs \/ <<d, task[u].at>> \in excused'
  <2>1. /\ excused' = excused \cup {p \in Docs \X Entities :
                         p[2] \in C[p[1]] \ carries[p[1]] /\ Overlooked(p[1], p[2])}
        /\ carries' = C
    BY <1>1 DEF Carry
  <2>2. ASSUME NEW u \in Tasks, task[u].pc \in {"edit", "remove"}, NEW d \in Docs,
               task[u].at \in carries'[d] \ carries[d], d \notin task[u].docs
        PROVE  <<d, task[u].at>> \in excused'
    <3>1. PICK e \in Entities : e = task[u].at
      BY <2>2, TaskParts, TaskTypes DEF Shape
    <3>2. Overlooked(d, e)  BY <2>2, <3>1 DEF Overlooked
    <3>. QED  BY <2>1, <2>2, <3>1, <3>2
  <2>. QED  BY <2>1, <2>2
<1>2. ASSUME NEW t \in Tasks, NEW e \in Entities, FetchAffected(t, e)
      PROVE  excused \subseteq excused' /\ carries' = carries
  <2>1. carries' = carries  BY <1>2, MovedFrames
  <2>2. PICK q, D : FetchedTo(t, e, q, D)  BY <1>2, FetchedTask
  <2>. QED  BY <2>1, <2>2 DEF FetchedTo
<1>3. ASSUME NEW t \in Tasks, Deleted(t)
      PROVE  excused' = excused /\ \A d \in Docs : carries'[d] \subseteq carries[d]
  <2>1. excused' = excused /\ Delete(task[t].at)  BY <1>3, Effects
  <2>. QED  BY <2>1 DEF Delete
<1>4. UNCHANGED <<carries, excused>> \/ (\E C : Carry(C)) \/ (\E t \in Tasks : Deleted(t))
        \/ (\E t \in Tasks, e \in Entities : FetchAffected(t, e))
  <2>1. ASSUME NEW t \in Tasks, BulkEdit(t) \/ EditUnanswered(t) \/ Remove(t) \/ RemoveUnanswered(t)
        PROVE  UNCHANGED <<carries, excused>> \/ (\E C : Carry(C)) \/ Deleted(t)
    <3>1. Reassign(t) => \E C : Carry(C)  BY EditTypes
    <3>. QED  BY <2>1, <3>1, Effects DEF paperless
  <2>2. ASSUME NEW t \in Tasks, MergeFails(t) \/ CommitMerge(t)
        PROVE  UNCHANGED <<carries, excused>>
    BY <2>2 DEF MergeFails, CommitMerge, paperless
  <2>3. ASSUME NEW t \in Tasks, TaskStep(t)
        PROVE  UNCHANGED <<carries, excused>> \/ (\E C : Carry(C)) \/ Deleted(t)
                 \/ \E e \in Entities : FetchAffected(t, e)
    BY <2>1, <2>2, <2>3, TaskFrames DEF TaskStep, SamePaperless, SameMerges
  <2>4. QueueStep \/ ScanStep \/ UNCHANGED vars => UNCHANGED <<carries, excused>>
    BY OtherFrames DEF QueueStep, ScanStep, ScheduledScan, ManualScan, SamePaperless, SameMerges
  <2>5. Restart => UNCHANGED <<carries, excused>>  BY DEF Restart, paperless
  <2>6. PaperlessStep => UNCHANGED <<carries, excused>> \/ \E C : Carry(C)
    BY OtherFrames DEF PaperlessStep, SamePaperless, SameMerges, Retag
  <2>. QED  BY <2>3, <2>4, <2>5, <2>6 DEF Next
<1>. QED  BY <1>1, <1>2, <1>3, <1>4

\* A merge comes to edit or to delete an entity in two ways.
LEMMA MergePhases ==
  ASSUME TypeOK, NEW t \in Tasks, TaskOK(t), TaskStep(t), task'[t].pc \in {"edit", "remove"}
  PROVE  task'[t] = task[t] \/ (\E e \in Entities : FetchAffected(t, e)) \/ BulkEdit(t)
<1>1. Shape(task[t]) /\ task \in [Tasks -> TaskRecords]  BY TaskParts, TaskTypes
<1>2. ASSUME NEW e \in Entities, NEW x \in Texts \cup {NoText}, Patch(t, e, x)
      PROVE  task'[t] = task[t] \/ task'[t].pc = "embed"
  <2>1. Described(row[e], x) \in Rows  BY <1>2, PatchRow, DescribedRows, RowSet
  <2>2. task' = task \/ task' = [task EXCEPT ![t] = ToEmbed(Idle, e, Described(row[e], x))]
    BY <1>2, PatchTask
  <2>3. ToEmbed(Idle, e, Described(row[e], x)).pc = "embed"  BY <2>1, Idles, ToEmbedFields
  <2>. QED  BY <1>1, <2>2, <2>3
<1>3. ASSUME NEW e \in Entities, Exclude(t, e)
      PROVE  task'[t] = task[t] \/ task'[t].pc = "embed"
  <2>1. PICK r \in RealRows : r = row'[e]  BY <1>3, ExcludeRow
  <2>2. task' = task \/ task' = [task EXCEPT ![t] = ToEmbed(Idle, e, r)]
    BY <1>3, <2>1, ExcludeTask
  <2>3. ToEmbed(Idle, e, r).pc = "embed"  BY Idles, RowSet, ToEmbedFields
  <2>. QED  BY <1>1, <2>2, <2>3
<1>4. ASSUME NEW S, NEW b, Generate(t, S, b) PROVE task'[t].pc = "describe"
  <2>1. PICK R : R = [e \in Entities |-> IF e \in S THEN row[e] ELSE NoRow]  OBVIOUS
  <2>2. PICK q : q = [Idle EXCEPT !.pc = "describe", !.bulk = b, !.todo = S, !.rows = R]  OBVIOUS
  <2>3. task' = [task EXCEPT ![t] = q]  BY <1>4, <2>1, <2>2 DEF Generate
  <2>4. task'[t] = q /\ q.pc = "describe"  BY <1>1, <2>2, <2>3, Idles DEF TaskRecords
  <2>. QED  BY <2>4
<1>5. ASSUME NEW e, NEW b, GenerateOne(t, e) \/ BulkGenerate(t, b)
      PROVE  task'[t].pc = "describe"
  BY <1>4, <1>5 DEF GenerateOne, BulkGenerate
<1>6. ASSUME NEW e \in Entities, NEW x \in Texts, Describe(t, e, x)
      PROVE  task'[t].pc = "embed"
  <2>1. task' = [task EXCEPT ![t] = ToEmbed(Without(task[t], e), e, Described(task[t].rows[e], x))]
    BY <1>6, DescribeTask
  <2>2. Described(task[t].rows[e], x) \in Rows  BY <1>6, DescribeRow, DescribedRows, RowSet
  <2>3. PICK w \in TaskRecords : w = Without(task[t], e)  BY TaskTypes, WithoutFields
  <2>4. ToEmbed(w, e, Described(task[t].rows[e], x)).pc = "embed"  BY <2>2, ToEmbedFields
  <2>. QED  BY <1>1, <2>1, <2>3, <2>4
<1>7. ASSUME NEW e \in Entities, DescribeFails(t, e) \/ EmbedFails(t) \/ Embed(t)
      PROVE  task'[t].pc \in {"idle", "describe"}
  <2>1. PICK q : /\ task' = [task EXCEPT ![t] = q]
                 /\ \/ q = Idle
                    \/ task[t].pc = "describe" /\ q = Dropped(task[t], e)
                    \/ /\ task[t].pc = "embed" /\ task[t].at \in Entities
                       /\ q = Freed(task[t], task[t].at)
    <3>1. CASE Embed(t)
      <4>1. task[t].pc = "embed" /\ task[t].at \in Entities
        BY <3>1, EmbedRow DEF Embed
      <4>2. \E q \in {Idle, Freed(task[t], task[t].at)} : task' = [task EXCEPT ![t] = q]
        BY <3>1 DEF Embed, Goes, Freed
      <4>. QED  BY <4>1, <4>2
    <3>. QED  BY <1>7, <3>1, FailedTask, Zenon
  <2>2. task'[t] = q  BY <1>1, <2>1
  <2>3. task[t].pc = "describe" => Dropped(task[t], e).pc = "describe"
    BY TaskTypes, DroppedFields
  <2>4. task[t].at \in Entities => Freed(task[t], task[t].at).pc = "describe"
    BY TaskTypes, FreedFields
  <2>. QED  BY <2>1, <2>2, <2>3, <2>4, IdleFields
<1>8. ASSUME Cancel(t) PROVE task'[t].pc = "embed"
  <2>1. PICK q : CancelledTo(t, q)  BY <1>8, CancelledTask
  <2>. QED  BY <1>1, <2>1 DEF CancelledTo
<1>9. ASSUME Sync(t) PROVE task'[t].pc = "sync"
  <2>1. PICK q : SyncTo(t, q)  BY <1>9, SyncTask
  <2>. QED  BY <1>1, <2>1 DEF SyncTo
<1>10. ASSUME SyncRows(t) \/ CommitMerge(t) \/ Ends(t) PROVE task'[t].pc = "idle"
  <2>1. SyncRows(t) \/ CommitMerge(t) => task' = [task EXCEPT ![t] = Idle]
    BY ZenonT(30) DEF SyncRows, CommitMerge
  <2>2. task' = [task EXCEPT ![t] = Idle]  BY <1>10, <2>1, EndedTask
  <2>. QED  BY <1>1, <2>2, IdleFields
<1>11. ASSUME NEW k \in Entities, NEW R \in SUBSET Entities, Merge(t, k, R)
       PROVE  task'[t].pc = "affected"
  <2>1. PICK q : MergeTo(t, k, R, q)  BY <1>11, MergeTask
  <2>. QED  BY <1>1, <2>1 DEF MergeTo
<1>12. ASSUME Remove(t) PROVE task'[t].pc \in {"commit", "affected"}
  <2>1. PICK q : RemovedTo(t, q)  BY <1>12, RemovedTask
  <2>. QED  BY <1>1, <2>1 DEF RemovedTo
<1>13. EmbedFails(t) \/ Embed(t) => task'[t].pc \in {"idle", "describe"}
  <2>1. EmbedFails(t) \/ Embed(t) => task[t].at \in Entities
    BY <1>1 DEF Embed, EmbedFails, Shape
  <2>. QED  BY <1>7, <2>1
<1>. QED
  BY <1>2, <1>3, <1>5, <1>6, <1>7, <1>8, <1>9, <1>10, <1>11, <1>12, <1>13, Zenon
  DEF TaskStep, Ends

\* Which documents a merge has to tell of, it is told of.
LEMMA ToldStep ==
  ASSUME TypeOK, \A t \in Tasks : TaskOK(t), [Next]_vars, NEW u \in Tasks
  PROVE  Told(task[u])'
<1>1. /\ excused \subseteq excused'
      /\ task[u].pc \in {"edit", "remove"} => \A d \in Docs :
              task[u].at \in carries'[d] \ carries[d]
                => d \in task[u].docs \/ <<d, task[u].at>> \in excused'
  BY ExcusedStep
<1>2. Told(task[u]) /\ Shape(task[u])  BY TaskParts
<1>3. CASE task'[u] = task[u]
  BY <1>1, <1>2, <1>3 DEF Told
<1>4. CASE task'[u].pc \notin {"edit", "remove"}  BY <1>4 DEF Told
<1>5. ASSUME NEW r \in Entities, FetchAffected(u, r) PROVE Told(task[u])'
  <2>1. PICK q, D : FetchedTo(u, r, q, D)  BY <1>5, FetchedTask
  <2>2. task'[u] = q  BY <2>1, TaskTypes DEF FetchedTo
  <2>3. carries' = carries  BY <1>5, MovedFrames
  <2>4. q.at = r /\ q.docs = D  BY <2>1 DEF FetchedTo
  <2>5. ASSUME NEW d \in Docs, r \in carries[d], d \notin D PROVE <<d, r>> \in excused'
    <3>1. d \in Carrying(r)  BY <2>5 DEF Carrying
    <3>2. D # Carrying(r) /\ D \in Affected(r)  BY <2>1, <2>5, <3>1 DEF FetchedTo
    <3>3. "page" \in Failures  BY <3>2 DEF Affected
    <3>4. excused' = excused \cup {<<c, r>> : c \in Carrying(r) \ D}
      BY <2>1, <3>3 DEF FetchedTo
    <3>. QED  BY <2>5, <3>1, <3>4
  <2>. QED  BY <2>2, <2>3, <2>4, <2>5 DEF Told
<1>6. CASE BulkEdit(u)
  <2>1. PICK q : EditedTo(u, q)  BY <1>6, EditedTask
  <2>2. task'[u] = q /\ task[u].pc = "edit" /\ q.at = task[u].at
    BY <2>1, TaskTypes DEF EditedTo
  <2>3. PICK r, k : r = task[u].at /\ k = task[u].keep  OBVIOUS
  <2>7. Reassign(u)  BY <1>6, Effects
  <2>4. \A d \in Docs : carries'[d] = IF d \in task[u].docs THEN Reassigned(d, r, k) ELSE carries[d]
    BY <2>3, <2>7, EditTypes
  <2>6. k # r  BY <2>3, <2>7, EditTypes
  <2>5. ASSUME NEW d \in Docs, r \in carries'[d] PROVE <<d, r>> \in excused'
    <3>1. d \notin task[u].docs
      BY <2>4, <2>5, <2>6 DEF Reassigned
    <3>2. r \in carries[d]  BY <2>4, <2>5, <3>1
    <3>. QED  BY <1>1, <1>2, <2>2, <2>3, <3>1, <3>2 DEF Told
  <2>. QED  BY <2>2, <2>3, <2>5 DEF Told
<1>7. CASE TaskStep(u)
  <2>1. TaskOK(u)  OBVIOUS
  <2>. QED  BY <1>3, <1>4, <1>5, <1>6, <1>7, <2>1, MergePhases
<1>8. ASSUME NEW t \in Tasks, TaskStep(t), t # u PROVE task'[u] = task[u]
  <2>1. PICK r : task' = [task EXCEPT ![t] = r]  BY <1>8, TaskStepTypes
  <2>. QED  BY <1>8, <2>1, TaskTypes
<1>9. CASE Restart
  <2>1. task'[u] = Idle  BY <1>9 DEF Restart
  <2>. QED  BY <1>4, <2>1, IdleFields
<1>. QED  BY <1>3, <1>7, <1>8, <1>9, TaskWriters

LEMMA TaskOKStep ==
  ASSUME TypeOK, \A t \in Tasks : TaskOK(t), [Next]_vars, NEW u \in Tasks
  PROVE  TaskOK(u)'
<1>1. Shape(task'[u])
  <2>1. Shape(task[u])  BY TaskParts
  <2>2. CASE TaskStep(u)  BY <2>2, ShapeStep
  <2>3. ASSUME NEW t \in Tasks, TaskStep(t), t # u PROVE task'[u] = task[u]
    <3>1. PICK r : task' = [task EXCEPT ![t] = r]  BY <2>3, TaskStepTypes
    <3>. QED  BY <2>3, <3>1, TaskTypes
  <2>4. Restart => task'[u] = Idle  BY DEF Restart
  <2>. QED  BY <2>1, <2>2, <2>3, <2>4, IdleShape, TaskWriters
<1>. QED  BY <1>1, ToldStep, TaskParts

-----------------------------------------------------------------------------
(* Merges.                                                                 *)

\* The step of a task other than a merge leaves the books of the merges, and has nothing
\* to tell.
LEMMA AuditsStep ==
  ASSUME TypeOK, NEW t \in Tasks, TaskOK(t), TaskStep(t)
  PROVE  /\ audited \subseteq audited' /\ unaudited \subseteq unaudited'
         /\ task[t].audits \subseteq task'[t].audits \cup audited' \cup unaudited'
         /\ given' \subseteq given \cup task'[t].audits \cup unaudited'
<1>1. Shape(task[t]) /\ task \in [Tasks -> TaskRecords]  BY TaskParts, TaskTypes
<1>2. CASE SameMerges /\ task[t].audits = {}
  BY <1>2 DEF SameMerges
<1>3. CASE SameMerges /\ task[t].audits # {}
  <2>1. task[t].pc \in {"affected", "edit", "remove", "commit"}  BY <1>1, <1>3 DEF Shape
  <2>2. \A x : \A e \in Entities : ~Patch(t, e, x) /\ ~Exclude(t, e) /\ ~Describe(t, e, x)
                /\ ~DescribeFails(t, e) /\ ~GenerateOne(t, e)
    BY <2>1 DEF Patch, Exclude, Describe, DescribeFails, GenerateOne, Generate
  <2>3. ~Embed(t) /\ ~EmbedFails(t) /\ ~Cancel(t) /\ ~Sync(t)
    BY <2>1 DEF Embed, EmbedFails, Cancel, Sync
  <2>4. /\ \A b : ~BulkGenerate(t, b) /\ \A e, R : ~Merge(t, e, R)
        /\ SyncRows(t) => task[t].pc = "sync"
    <3>1. \A b : BulkGenerate(t, b) => \E S : Generate(t, S, TRUE)  BY DEF BulkGenerate
    <3>2. \A S : ~Generate(t, S, TRUE)  BY <2>1 DEF Generate
    <3>3. \A e, R : ~Merge(t, e, R)  BY <2>1 DEF Merge
    <3>4. SyncRows(t) => task[t].pc = "sync"  BY ZenonT(30) DEF SyncRows
    <3>. QED  BY <3>1, <3>2, <3>3, <3>4
  <2>5. (\E e \in Entities : FetchAffected(t, e)) \/ BulkEdit(t) \/ Ends(t) \/ Remove(t)
          \/ CommitMerge(t)
    BY <2>1, <2>2, <2>3, <2>4 DEF TaskStep, Ends
  <2>6. ASSUME NEW e \in Entities, FetchAffected(t, e) PROVE task'[t].audits = task[t].audits
    <3>1. PICK q, D : FetchedTo(t, e, q, D)  BY <2>6, FetchedTask
    <3>. QED  BY <1>1, <3>1 DEF FetchedTo
  <2>7. BulkEdit(t) => task[t].audits \subseteq task'[t].audits
    <3>. HAVE BulkEdit(t)
    <3>1. PICK q : EditedTo(t, q)  BY EditedTask
    <3>. QED  BY <1>1, <3>1 DEF EditedTo
  <2>8. Remove(t) => task'[t].audits = task[t].audits
    <3>. HAVE Remove(t)
    <3>1. PICK q : RemovedTo(t, q)  BY RemovedTask
    <3>. QED  BY <1>1, <3>1 DEF RemovedTo
  <2>9. /\ Ends(t) => task[t].audits \subseteq unaudited'
        /\ CommitMerge(t) => audited' = audited \cup task[t].audits
    <3>1. Ends(t) => task[t].audits \subseteq unaudited'
      BY DEF Ends, MergeFails, EditUnanswered, RemoveUnanswered
    <3>2. CommitMerge(t) => audited' = audited \cup task[t].audits  BY DEF CommitMerge
    <3>. QED  BY <3>1, <3>2
  <2>. QED  BY <1>3, <2>5, <2>6, <2>7, <2>8, <2>9 DEF SameMerges
<1>4. ASSUME NEW e \in Entities, FetchAffected(t, e)
      PROVE  /\ audited' = audited /\ unaudited' = unaudited /\ given' = given
             /\ task'[t].audits = task[t].audits
  <2>1. PICK q, D : FetchedTo(t, e, q, D)  BY <1>4, FetchedTask
  <2>2. UNCHANGED <<paperless, table, queue, scan, events, books, notes, audited, lost, given,
                    unaudited>>
    BY <1>4, ZenonT(30) DEF FetchAffected
  <2>. QED  BY <1>1, <2>1, <2>2 DEF FetchedTo
<1>5. ASSUME BulkEdit(t)
      PROVE  /\ audited' = audited /\ unaudited' = unaudited
             /\ task[t].audits \subseteq task'[t].audits
             /\ given' \subseteq given \cup task'[t].audits
  <2>1. PICK q : EditedTo(t, q)  BY <1>5, EditedTask
  <2>2. Reassign(t) /\ audited' = audited /\ unaudited' = unaudited
    BY <1>5, Effects
  <2>3. given' = given \cup {<<d, task[t].at, task[t].keep>> : d \in task[t].docs}
    BY <2>2, EditTypes
  <2>4. task'[t] = q  BY <1>1, <2>1 DEF EditedTo
  <2>5. q.audits = task[t].audits \cup {<<d, task[t].at, task[t].keep>> : d \in task[t].docs}
    BY <2>1 DEF EditedTo
  <2>. QED  BY <2>2, <2>3, <2>4, <2>5
<1>6. ASSUME Remove(t)
      PROVE  /\ audited' = audited /\ unaudited' = unaudited /\ given' = given
             /\ task'[t].audits = task[t].audits
  <2>1. PICK q : RemovedTo(t, q)  BY <1>6, RemovedTask
  <2>2. audited' = audited /\ given' = given /\ unaudited' = unaudited  BY <1>6, Effects
  <2>. QED  BY <1>1, <2>1, <2>2 DEF RemovedTo
<1>7. ASSUME Ends(t) \/ CommitMerge(t)
      PROVE  /\ audited \subseteq audited' /\ unaudited \subseteq unaudited'
             /\ given' \subseteq given \cup unaudited'
             /\ task[t].audits \subseteq audited' \cup unaudited'
  <2>1. CASE MergeFails(t) \/ CommitMerge(t)  BY <2>1 DEF MergeFails, CommitMerge
  <2>2. CASE EditUnanswered(t)
    <3>1. Reassign(t) /\ unaudited' = unaudited \cup task[t].audits \cup Entries(t)
      BY <2>2, ZenonT(30) DEF EditUnanswered
    <3>2. given' = given \cup Entries(t)  BY <3>1, EditTypes DEF Entries
    <3>. QED  BY <3>1, <3>2, Effects
  <2>3. CASE RemoveUnanswered(t)
    <3>1. Deleted(t) /\ unaudited' = unaudited \cup task[t].audits
      BY <2>3, ZenonT(30) DEF RemoveUnanswered
    <3>. QED  BY <3>1, Effects
  <2>. QED  BY <1>7, <2>1, <2>2, <2>3 DEF Ends
<1>8. SameMerges \/ (\E e \in Entities : FetchAffected(t, e)) \/ BulkEdit(t) \/ Remove(t)
        \/ Ends(t) \/ CommitMerge(t)
  BY TaskFrames DEF TaskStep, Ends
<1>. QED  BY <1>2, <1>3, <1>4, <1>5, <1>6, <1>7, <1>8

\* What is lost when an entity is removed was excused before.
LEMMA LostStep ==
  ASSUME TypeOK, \A t \in Tasks : TaskOK(t), [Next]_vars, MergeKeepsDocuments
  PROVE  MergeKeepsDocuments'
<1>1. excused \subseteq excused'  BY ExcusedStep
<1>2. ASSUME NEW t \in Tasks, Deleted(t) PROVE lost' \subseteq excused
  <2>1. /\ task[t].pc = "remove"
        /\ lost' = lost \cup {<<d, task[t].at>> : d \in Carrying(task[t].at)}
    BY <1>2, ZenonT(30) DEF Deleted
  <2>2. \A d \in Docs : task[t].at \in carries[d] => <<d, task[t].at>> \in excused
    BY <2>1, TaskParts DEF Shape, Told
  <2>. QED  BY <2>1, <2>2 DEF Carrying, MergeKeepsDocuments
<1>3. lost' = lost \/ \E t \in Tasks : Deleted(t)
  <2>1. ASSUME NEW t \in Tasks, MergeFails(t) \/ CommitMerge(t) \/ BulkEdit(t) \/ EditUnanswered(t)
                                 \/ Remove(t) \/ RemoveUnanswered(t)
        PROVE  lost' = lost \/ Deleted(t)
    <3>1. MergeFails(t) \/ CommitMerge(t) => lost' = lost  BY DEF MergeFails, CommitMerge
    <3>. QED  BY <2>1, <3>1, Effects
  <2>2. ASSUME NEW t \in Tasks, NEW e \in Entities, FetchAffected(t, e) PROVE lost' = lost
    BY <2>2, ZenonT(30) DEF FetchAffected
  <2>3. ASSUME NEW t \in Tasks, TaskStep(t) PROVE lost' = lost \/ Deleted(t)
    BY <2>1, <2>2, <2>3, TaskFrames DEF TaskStep, SameMerges
  <2>4. QueueStep \/ ScanStep \/ UNCHANGED vars => lost' = lost
    BY OtherFrames DEF QueueStep, ScanStep, ScheduledScan, ManualScan, SameMerges
  <2>5. Restart => lost' = lost  BY DEF Restart
  <2>6. PaperlessStep => lost' = lost
    BY OtherFrames DEF PaperlessStep, SameMerges, Retag
  <2>. QED  BY <2>3, <2>4, <2>5, <2>6 DEF Next
<1>. QED  BY <1>1, <1>2, <1>3 DEF MergeKeepsDocuments

LEMMA AuditedStep ==
  ASSUME TypeOK, \A t \in Tasks : TaskOK(t), [Next]_vars, MergeIsAudited
  PROVE  MergeIsAudited'
<1>. SUFFICES ASSUME NEW p \in given'
              PROVE  p \in audited' \/ p \in unaudited' \/ \E u \in Tasks : p \in task'[u].audits
  BY DEF MergeIsAudited
<1>1. p \in given => p \in audited \/ p \in unaudited \/ \E u \in Tasks : p \in task[u].audits
  BY DEF MergeIsAudited
<1>2. ASSUME NEW t \in Tasks, TaskStep(t)
      PROVE  p \in audited' \/ p \in unaudited' \/ \E u \in Tasks : p \in task'[u].audits
  <2>1. PICK r : task' = [task EXCEPT ![t] = r]  BY <1>2, TaskStepTypes
  <2>2. \A u \in Tasks \ {t} : task'[u] = task[u]  BY <2>1, TaskTypes
  <2>3. /\ audited \subseteq audited' /\ unaudited \subseteq unaudited'
        /\ task[t].audits \subseteq task'[t].audits \cup audited' \cup unaudited'
        /\ given' \subseteq given \cup task'[t].audits \cup unaudited'
    BY <1>2, AuditsStep
  <2>4. CASE p \in given
    <3>1. CASE \E u \in Tasks : p \in task[u].audits
      <4>1. PICK u \in Tasks : p \in task[u].audits  BY <3>1
      <4>2. CASE u = t  BY <2>3, <4>1, <4>2
      <4>3. CASE u # t  BY <2>2, <4>1, <4>3
      <4>. QED  BY <4>2, <4>3
    <3>. QED  BY <1>1, <2>3, <2>4, <3>1
  <2>. QED  BY <2>3, <2>4
<1>3. CASE Restart
  <2>1. /\ unaudited' = unaudited \cup UNION {task[t].audits : t \in Tasks}
        /\ given' = given /\ audited' = audited
    BY <1>3 DEF Restart
  <2>. QED  BY <1>1, <2>1
<1>4. CASE UNCHANGED task /\ UNCHANGED <<audited, given, unaudited>>
  BY <1>1, <1>4
<1>5. QueueStep \/ ScanStep \/ PaperlessStep \/ UNCHANGED vars =>
        UNCHANGED task /\ UNCHANGED <<audited, given, unaudited>>
  <2>1. \A d, C : Retag(d, C) => UNCHANGED <<audited, given, unaudited>>  BY DEF Retag
  <2>. QED
    BY <2>1, OtherFrames DEF QueueStep, ScanStep, ScheduledScan, ManualScan, PaperlessStep, SameMerges
<1>. QED  BY <1>2, <1>3, <1>4, <1>5 DEF Next

-----------------------------------------------------------------------------
(* What a scan misses.                                                     *)

\* A step by others than the scan: it has stirred up what has become due.
Calm(es) ==
  /\ scan' = Stir(es) \/ (scan' = scan /\ es = {})
  /\ \A e \in Entities : (row'[e] # NoRow /\ e \notin changed' \cup behind') =>
       /\ row[e] # NoRow /\ e \notin changed \cup behind
       /\ e \in fresh \cup unscanned => e \in fresh' \cup unscanned'
  /\ \A e \in Entities \ es :
       (row'[e] # NoRow /\ ~row'[e].excluded /\ e \in changed' \cup behind') =>
         row[e] # NoRow /\ ~row[e].excluded /\ e \in changed \cup behind

LEMMA CalmStep ==
  ASSUME TypeOK, ScanOK, NEW es \in SUBSET Entities, Calm(es)
  PROVE  ScanOK'
<1>1. \A e \in Entities : row'[e] # NoRow /\ e \notin changed' \cup behind'
         => e \in fresh' \cup unscanned'
  BY DEF Calm, ScanOK, Exists, NeedsRescan
<1>2. /\ scan'.pc = scan.pc /\ scan'.rows = scan.rows /\ scan'.left = scan.left
      /\ scan'.pc # "idle" => /\ scan'.stirred = scan.stirred \cup es
                              /\ scan'.seen = scan.seen \ es
  <2>1. CASE scan' = scan /\ es = {}  BY <2>1
  <2>2. CASE scan' = Stir(es)  BY <2>2, StirTypes
  <2>. QED  BY <2>1, <2>2 DEF Calm
<1>3. ASSUME NEW e \in Entities,
             row'[e] # NoRow, ~row'[e].excluded, e \in changed' \cup behind'
      PROVE  /\ scan'.pc = "refresh" => scan'.rows[e] # NoRow \/ e \in scan'.stirred
             /\ scan'.pc = "query" => e \in scan'.left \cup scan'.seen \cup scan'.stirred
             /\ scan'.pc \in {"fetch", "propose", "stamp"} => e \in scan'.seen \cup scan'.stirred
  <2>1. CASE e \in es  BY <1>2, <2>1
  <2>2. CASE e \notin es
    <3>1. Due(e)  BY <1>3, <2>2 DEF Calm, Due, Exists, NeedsRescan
    <3>. QED  BY <1>2, <2>2, <3>1 DEF ScanOK, Scanned
  <2>. QED  BY <2>1, <2>2
<1>. QED  BY <1>1, <1>3 DEF ScanOK, Exists, NeedsRescan, Due, Scanned

LEMMA TaskCalm ==
  ASSUME TypeOK, NEW t \in Tasks, TaskOK(t), TaskStep(t)
  PROVE  \E es \in SUBSET Entities : Calm(es)
<1>1. row \in [Entities -> Rows] /\ \A r \in RealRows : r # NoRow  BY ScanTypes, RowSet
<1>2. ASSUME UNCHANGED <<scan, row>>, SameStamps PROVE Calm({})
  BY <1>2 DEF Calm, SameStamps
<1>3. ASSUME NEW e \in Entities, NEW r, row' = [row EXCEPT ![e] = r], r # NoRow, row[e] # NoRow,
             Touch({e}), changed' = changed \cup {e}, behind' = behind
      PROVE  Calm({e})
  BY <1>1, <1>3 DEF Calm, Touch
<1>4. ASSUME NEW e \in Entities, NEW x \in Texts \cup {NoText}, Patch(t, e, x)
      PROVE  \E es \in SUBSET Entities : Calm(es)
  <2>1. row[e] \in RealRows /\ row' = [row EXCEPT ![e] = Described(row[e], x)]
    BY <1>4, PatchRow
  <2>2. Described(row[e], x) # NoRow /\ row[e] # NoRow  BY <1>1, <2>1, DescribedRows
  <2>3. Touch({e}) /\ changed' = changed \cup {e} /\ behind' = behind
    BY <1>4 DEF Patch, Update
  <2>4. Calm({e})  BY <1>3, <2>1, <2>2, <2>3
  <2>. QED  BY <2>4
<1>5. ASSUME NEW e \in Entities, NEW x \in Texts, Describe(t, e, x)
      PROVE  \E es \in SUBSET Entities : Calm(es)
  <2>1. PICK q : row' = [row EXCEPT ![e] = q]  BY <1>5, DescribeRow
  <2>2. row[e] \in RealRows /\ row'[e] \in RealRows  BY <1>5, DescribeRow DEF Rewritten
  <2>3. q # NoRow /\ row[e] # NoRow  BY <1>1, <2>1, <2>2
  <2>4. Touch({e}) /\ changed' = changed \cup {e} /\ behind' = behind
    BY <1>5 DEF Describe
  <2>5. Calm({e})  BY <1>3, <2>1, <2>3, <2>4
  <2>. QED  BY <2>5
<1>6. ASSUME NEW e \in Entities, Exclude(t, e)
      PROVE  \E es \in SUBSET Entities : Calm(es)
  <2>1. /\ row[e] \in RealRows /\ row'[e] \in RealRows /\ row' = [row EXCEPT ![e] = row'[e]]
    BY <1>6, ExcludeRow
  <2>2. \A f \in Entities \ {e} : row'[f] = row[f]  BY <1>1, <2>1
  <2>3. scan' = Stir({e}) /\ UNCHANGED <<changed, behind, fresh, unscanned>>
    BY <1>6 DEF Exclude, Update
  <2>4. row[e] # NoRow  BY <1>1, <2>1
  <2>5. Calm({e})  BY <2>2, <2>3, <2>4 DEF Calm
  <2>. QED  BY <2>5
<1>7. ASSUME Embed(t) PROVE \E es \in SUBSET Entities : Calm(es)
  <2>1. PICK e \in Entities : e = task[t].at  BY <1>7, EmbedRow
  <2>2. PICK q : row' = [row EXCEPT ![e] = q]  BY <1>7, <2>1, EmbedRow
  <2>3. Rewritten(e)  BY <1>7, <2>1, EmbedRow
  <2>4. \A f \in Entities \ {e} : row'[f] = row[f]  BY <1>1, <2>2
  <2>5. row[e] # NoRow /\ row'[e].excluded = row[e].excluded  BY <1>1, <2>3 DEF Rewritten
  <2>6. scan' = scan /\ SameStamps  BY <1>7, TaskFrames
  <2>7. Calm({})  BY <2>4, <2>5, <2>6 DEF Calm, SameStamps
  <2>. QED  BY <2>7
<1>8. ASSUME SyncRows(t) PROVE \E es \in SUBSET Entities : Calm(es)
  <2>. DEFINE es == Made(t) \cup Retitled(t)
  <2>1. /\ \A e \in Entities : row'[e] = SyncedRow(t, e)
        /\ changed' = changed \cup Made(t) /\ behind' = behind /\ scan' = Stir(es)
        /\ fresh' = fresh \ es /\ unscanned' = (unscanned \ Made(t)) \cup Retitled(t)
    BY <1>8, SyncRow
  <2>2. ASSUME NEW e \in Entities, e \notin Made(t), row'[e] # NoRow
        PROVE  row[e] # NoRow /\ row'[e].excluded = row[e].excluded
    <3>1. task[t].listed[e] # "none"  BY <2>1, <2>2 DEF SyncedRow
    <3>2. row[e] # NoRow  BY <2>2, <3>1 DEF Made, Exists
    <3>3. row[e] \in RealRows  BY <1>1, <3>2, RowSet
    <3>4. \A n : [row[e] EXCEPT !.name = n, !.stored = FALSE].excluded = row[e].excluded
      BY <3>3 DEF RealRows
    <3>5. \/ SyncedRow(t, e) = row[e]
          \/ SyncedRow(t, e) = [row[e] EXCEPT !.name = task[t].listed[e], !.stored = FALSE]
      BY <2>2, <3>1, Zenon DEF SyncedRow
    <3>. QED  BY <2>1, <3>2, <3>4, <3>5, Zenon
  <2>3. ASSUME NEW e \in Entities, row'[e] # NoRow, e \notin changed' \cup behind'
        PROVE  /\ row[e] # NoRow /\ e \notin changed \cup behind
               /\ e \in fresh \cup unscanned => e \in fresh' \cup unscanned'
    BY <2>1, <2>2, <2>3
  <2>4. ASSUME NEW e \in Entities \ es, row'[e] # NoRow, ~row'[e].excluded,
               e \in changed' \cup behind'
        PROVE  row[e] # NoRow /\ ~row[e].excluded /\ e \in changed \cup behind
    BY <2>1, <2>2, <2>4
  <2>5. Calm(es)  BY <2>1, <2>3, <2>4 DEF Calm
  <2>6. es \in SUBSET Entities  BY DEF Made, Retitled
  <2>. QED  BY <2>5, <2>6
<1>9. ASSUME CommitMerge(t) PROVE \E es \in SUBSET Entities : Calm(es)
  <2>1. \A e \in Entities : row'[e] \in {NoRow, row[e]}
    <3>1. PICK gone : row' = [e \in Entities |-> IF e \in gone THEN NoRow ELSE row[e]]
      BY <1>9, CommitRow
    <3>. QED  BY <3>1
  <2>2. scan' = scan /\ SameStamps  BY <1>9, TaskFrames
  <2>3. Calm({})  BY <2>1, <2>2 DEF Calm, SameStamps
  <2>. QED  BY <2>3
<1>10. ASSUME UNCHANGED <<scan, row>>, SameStamps PROVE \E es \in SUBSET Entities : Calm(es)
  BY <1>2, <1>10
<1>11. \/ UNCHANGED <<scan, row>> /\ SameStamps
       \/ \E e \in Entities : \/ \E x \in Texts \cup {NoText} : Patch(t, e, x)
                              \/ \E x \in Texts : Describe(t, e, x)
                              \/ Exclude(t, e)
       \/ Embed(t) \/ SyncRows(t) \/ CommitMerge(t)
  BY TaskFrames DEF TaskStep, SameRows, Ends
<1>. QED  BY <1>4, <1>5, <1>6, <1>7, <1>8, <1>9, <1>10, <1>11

LEMMA ScanOKStep ==
  ASSUME TypeOK, \A t \in Tasks : TaskOK(t), ScanOK, [Next]_vars
  PROVE  ScanOK'
<1>1. row \in [Entities -> Rows] /\ scan \in ScanRecords  BY ScanTypes
<1>2. ASSUME NEW es \in SUBSET Entities, Calm(es) PROVE ScanOK'
  BY <1>2, CalmStep
<1>3. ASSUME NEW t \in Tasks, TaskStep(t) PROVE ScanOK'
  BY <1>2, <1>3, TaskCalm
<1>4. ASSUME QueueStep \/ UNCHANGED vars PROVE ScanOK'
  <2>1. SameRows /\ SameStamps /\ scan' = scan  BY <1>4, OtherFrames DEF QueueStep
  <2>2. Calm({})  BY <2>1 DEF Calm, SameRows, SameStamps
  <2>. QED  BY <1>2, <2>2
<1>5. ASSUME PaperlessStep PROVE ScanOK'
  <2>1. CASE DocsEmbedded
    <3>1. behind' = Entities /\ Touch(Entities)  BY <2>1 DEF DocsEmbedded
    <3>2. Calm(Entities)  BY <3>1 DEF Calm, Touch
    <3>. QED  BY <1>2, <3>2
  <2>2. CASE ~DocsEmbedded
    <3>1. SameRows /\ SameStamps /\ scan' = scan  BY <1>5, <2>2, OtherFrames DEF PaperlessStep
    <3>2. Calm({})  BY <3>1 DEF Calm, SameRows, SameStamps
    <3>. QED  BY <1>2, <3>2
  <2>. QED  BY <2>1, <2>2
<1>6. ASSUME SameRows, SameStamps,
             \A e \in Entities : Due(e) =>
               /\ scan'.pc = "refresh" => scan'.rows[e] # NoRow
               /\ scan'.pc = "query" => e \in scan'.left \cup scan'.seen \cup scan'.stirred
               /\ scan'.pc \in {"fetch", "propose", "stamp"} => e \in scan'.seen \cup scan'.stirred
      PROVE  ScanOK'
  BY <1>6 DEF ScanOK, SameRows, SameStamps, Due, Exists, NeedsRescan, Scanned
<1>7. CASE ReadRows
  <2>1. SameRows /\ SameStamps  BY <1>7, OtherFrames
  <2>2. \A e \in Entities : scan'.rows[e] = IF e \in ToScan THEN row[e] ELSE NoRow
    BY <1>7, ReadStep
  <2>3. scan'.pc = "refresh"  BY <1>7, ReadStep, Zenon
  <2>4. \A e \in Entities : Due(e) => e \in ToScan /\ row[e] # NoRow
    BY DEF Due, ToScan, Exists
  <2>. QED  BY <1>6, <2>1, <2>2, <2>3, <2>4
<1>8. CASE Refresh
  <2>1. scan.pc = "refresh"  BY <1>8, RefreshStep
  <2>2. PICK done \in SUBSET Scanned, kept \in SUBSET Scanned : RefreshTo(done, kept)
    BY <1>8, RefreshStep
  <2>3. /\ scan'.pc = "query" /\ scan'.left = kept
        /\ scan'.stirred = scan.stirred \cup (Scanned \ kept)
    BY <2>2, RefreshScan
  <2>4. \A e \in Entities : row'[e] = row[e] \/ Rewritten(e)  BY <2>2, RefreshRow
  <2>5. \A e \in Entities : (row'[e] = NoRow <=> row[e] = NoRow) /\ row'[e].excluded = row[e].excluded
    BY <2>4, RowSet DEF Rewritten
  <2>6. SameStamps  BY <1>8, OtherFrames
  <2>7. \A e \in Entities : Due(e) => e \in Scanned \cup scan.stirred
    BY <2>1 DEF ScanOK
  <2>. QED  BY <2>3, <2>5, <2>6, <2>7 DEF ScanOK, SameStamps, Due, Exists, NeedsRescan
<1>9. ASSUME NEW b \in BOOLEAN, StartScan(b) PROVE ScanOK'
  <2>1. SameRows /\ SameStamps  BY <1>9, OtherFrames
  <2>2. scan'.pc = "pending"  BY <1>9, StartStep
  <2>. QED  BY <1>6, <2>1, <2>2
<1>10. ASSUME NEW e \in Entities, Query(e) PROVE ScanOK'
  <2>1. SameRows /\ SameStamps  BY <1>10, OtherFrames
  <2>2. /\ scan.pc = "query" /\ scan'.pc = "query" /\ scan'.left = scan.left \ {e}
        /\ scan'.seen = scan.seen \cup {e} /\ scan'.stirred = scan.stirred
    BY <1>10, QueryStep
  <2>3. \A f \in Entities : Due(f) => f \in scan.left \cup scan.seen \cup scan.stirred
    BY <2>2 DEF ScanOK
  <2>. QED  BY <1>6, <2>1, <2>2, <2>3
<1>11. CASE Classify
  <2>1. SameRows /\ SameStamps  BY <1>11, OtherFrames
  <2>2. /\ scan.pc = "query" /\ scan.left = {} /\ scan'.pc \in {"stamp", "fetch"}
        /\ scan'.seen = scan.seen /\ scan'.stirred = scan.stirred
    BY <1>11, ClassifiedScan
  <2>3. \A f \in Entities : Due(f) => f \in scan.seen \cup scan.stirred
    BY <2>2 DEF ScanOK
  <2>. QED  BY <1>6, <2>1, <2>2, <2>3
<1>12. ASSUME Propose \/ \E d \in Docs : FetchDoc(d) PROVE ScanOK'
  <2>1. SameRows /\ SameStamps  BY <1>12, OtherFrames
  <2>2. /\ scan.pc \in {"fetch", "propose"} /\ scan'.pc \in {"fetch", "propose", "stamp"}
        /\ scan'.seen = scan.seen /\ scan'.stirred = scan.stirred
    BY <1>12, FetchStep, ProposedScan
  <2>3. \A f \in Entities : Due(f) => f \in scan.seen \cup scan.stirred
    BY <2>2 DEF ScanOK
  <2>. QED  BY <1>6, <2>1, <2>2, <2>3
<1>13. CASE Stamp
  <2>1. /\ scan.pc = "stamp" /\ scan' = IdleScan /\ row' = row
        /\ changed' = changed \ {e \in Entities : Exists(e) /\ ~row[e].excluded}
        /\ behind' = behind \ {e \in Entities : Exists(e) /\ ~row[e].excluded}
        /\ fresh' = fresh \cup scan.seen
        /\ unscanned' = (unscanned \ scan.seen) \cup scan.stirred
    BY <1>13 DEF Stamp
  <2>2. \A f \in Entities : Due(f) => f \in scan.seen \cup scan.stirred
    BY <2>1 DEF ScanOK
  <2>3. \A f \in Entities : Exists(f) /\ ~NeedsRescan(f) => f \in fresh \cup unscanned
    BY DEF ScanOK
  <2>4. ASSUME NEW f \in Entities, Exists(f), f \notin changed' \cup behind'
        PROVE  f \in fresh' \cup unscanned'
    <3>1. Due(f) \/ ~NeedsRescan(f)  BY <2>1, <2>4 DEF Due, NeedsRescan
    <3>. QED  BY <2>1, <2>2, <2>3, <2>4, <3>1
  <2>. QED  BY <2>1, <2>4, IdleScanFields DEF ScanOK, Exists, NeedsRescan
<1>14. ASSUME ScanFails \/ Restart PROVE ScanOK'
  <2>1. SameRows /\ SameStamps  BY <1>14, OtherFrames
  <2>2. scan'.pc = "idle"  BY <1>14, IdleScanFields DEF ScanFails, Restart
  <2>. QED  BY <1>6, <2>1, <2>2
<1>. QED
  BY <1>3, <1>4, <1>5, <1>7, <1>8, <1>9, <1>10, <1>11, <1>12, <1>13, <1>14
  DEF Next, ScanStep, ScheduledScan, ManualScan

-----------------------------------------------------------------------------
(* Names.                                                                  *)

\* A task has listed no names, or those it had, or those of now.
LEMMA ListedStep ==
  ASSUME TypeOK, NEW t \in Tasks, TaskOK(t), TaskStep(t), NEW f \in Entities
  PROVE  task'[t].listed[f] \in {"none", name[f], task[t].listed[f]}
<1>1. Shape(task[t]) /\ task \in [Tasks -> TaskRecords] /\ Idle.listed[f] = "none"
  BY TaskParts, TaskTypes, IdleFields
<1>2. ASSUME NEW e \in Entities, NEW r \in RealRows,
             task' = task \/ task' = [task EXCEPT ![t] = ToEmbed(Idle, e, r)]
      PROVE  task'[t].listed[f] \in {"none", task[t].listed[f]}
  <2>1. ToEmbed(Idle, e, r).listed = Idle.listed  BY Idles, RowSet, ToEmbedFields
  <2>. QED  BY <1>1, <1>2, <2>1
<1>3. ASSUME NEW e \in Entities, NEW x \in Texts \cup {NoText}, Patch(t, e, x)
      PROVE  task'[t].listed[f] \in {"none", task[t].listed[f]}
  <2>1. PICK r \in RealRows : r = Described(row[e], x)  BY <1>3, PatchRow, DescribedRows
  <2>. QED  BY <1>2, <1>3, <2>1, PatchTask
<1>4. ASSUME NEW e \in Entities, Exclude(t, e)
      PROVE  task'[t].listed[f] \in {"none", task[t].listed[f]}
  <2>1. PICK r \in RealRows : r = row'[e]  BY <1>4, ExcludeRow
  <2>. QED  BY <1>2, <1>4, <2>1, ExcludeTask
<1>5. ASSUME NEW S, NEW b, Generate(t, S, b) PROVE task'[t].listed[f] = "none"
  <2>1. PICK R : R = [e \in Entities |-> IF e \in S THEN row[e] ELSE NoRow]  OBVIOUS
  <2>2. PICK q : q = [Idle EXCEPT !.pc = "describe", !.bulk = b, !.todo = S, !.rows = R]  OBVIOUS
  <2>3. task' = [task EXCEPT ![t] = q]  BY <1>5, <2>1, <2>2 DEF Generate
  <2>4. task'[t] = q /\ q.listed = Idle.listed  BY <1>1, <2>2, <2>3, Idles DEF TaskRecords
  <2>. QED  BY <1>1, <2>4
<1>6. ASSUME NEW e, NEW b, GenerateOne(t, e) \/ BulkGenerate(t, b)
      PROVE  task'[t].listed[f] = "none"
  BY <1>5, <1>6 DEF GenerateOne, BulkGenerate
<1>7. ASSUME NEW e \in Entities, NEW x \in Texts, Describe(t, e, x)
      PROVE  task'[t].listed[f] = task[t].listed[f]
  <2>1. task' = [task EXCEPT ![t] = ToEmbed(Without(task[t], e), e, Described(task[t].rows[e], x))]
    BY <1>7, DescribeTask
  <2>2. Described(task[t].rows[e], x) \in Rows  BY <1>7, DescribeRow, DescribedRows, RowSet
  <2>3. PICK w \in TaskRecords : w = Without(task[t], e) /\ w.listed = task[t].listed
    BY TaskTypes, WithoutFields
  <2>4. ToEmbed(w, e, Described(task[t].rows[e], x)).listed = w.listed  BY <2>2, ToEmbedFields
  <2>. QED  BY <1>1, <2>1, <2>3, <2>4
<1>8. ASSUME NEW e \in Entities, DescribeFails(t, e) \/ EmbedFails(t) \/ Embed(t)
      PROVE  task'[t].listed[f] \in {"none", task[t].listed[f]}
  <2>1. PICK q : /\ task' = [task EXCEPT ![t] = q]
                 /\ \/ q = Idle
                    \/ task[t].pc = "describe" /\ q = Dropped(task[t], e)
                    \/ /\ task[t].pc = "embed" /\ task[t].at \in Entities
                       /\ q = Freed(task[t], task[t].at)
    <3>1. CASE Embed(t)
      <4>1. task[t].pc = "embed" /\ task[t].at \in Entities
        BY <3>1, EmbedRow DEF Embed
      <4>2. \E q \in {Idle, Freed(task[t], task[t].at)} : task' = [task EXCEPT ![t] = q]
        BY <3>1 DEF Embed, Goes, Freed
      <4>. QED  BY <4>1, <4>2
    <3>. QED  BY <1>8, <3>1, FailedTask, Zenon
  <2>2. task'[t] = q  BY <1>1, <2>1
  <2>3. Dropped(task[t], e).listed = task[t].listed  BY TaskTypes, DroppedFields
  <2>4. task[t].at \in Entities => Freed(task[t], task[t].at).listed = task[t].listed
    BY TaskTypes, FreedFields
  <2>. QED  BY <1>1, <2>1, <2>2, <2>3, <2>4
<1>9. ASSUME Cancel(t) PROVE task'[t].listed[f] = task[t].listed[f]
  <2>1. PICK q : CancelledTo(t, q)  BY <1>9, CancelledTask
  <2>. QED  BY <1>1, <2>1 DEF CancelledTo
<1>10. ASSUME Sync(t) PROVE task'[t].listed[f] \in {"none", name[f]}
  <2>1. PICK q : SyncTo(t, q)  BY <1>10, SyncTask
  <2>. QED  BY <1>1, <2>1 DEF SyncTo
<1>11. ASSUME SyncRows(t) \/ CommitMerge(t) \/ Ends(t) PROVE task'[t].listed[f] = "none"
  <2>1. SyncRows(t) \/ CommitMerge(t) => task' = [task EXCEPT ![t] = Idle]
    BY ZenonT(30) DEF SyncRows, CommitMerge
  <2>2. task' = [task EXCEPT ![t] = Idle]  BY <1>11, <2>1, EndedTask
  <2>. QED  BY <1>1, <2>2
<1>12. ASSUME NEW k \in Entities, NEW R \in SUBSET Entities, Merge(t, k, R)
       PROVE  task'[t].listed[f] = "none"
  <2>1. PICK q : MergeTo(t, k, R, q)  BY <1>12, MergeTask
  <2>. QED  BY <1>1, <2>1 DEF MergeTo
<1>13. ASSUME Remove(t) PROVE task'[t].listed[f] = task[t].listed[f]
  <2>1. PICK q : RemovedTo(t, q)  BY <1>13, RemovedTask
  <2>. QED  BY <1>1, <2>1 DEF RemovedTo
<1>14. ASSUME BulkEdit(t) PROVE task'[t].listed[f] = task[t].listed[f]
  <2>1. PICK q : EditedTo(t, q)  BY <1>14, EditedTask
  <2>. QED  BY <1>1, <2>1 DEF EditedTo
<1>15. ASSUME NEW e \in Entities, FetchAffected(t, e)
       PROVE  task'[t].listed[f] = task[t].listed[f]
  <2>1. PICK q, D : FetchedTo(t, e, q, D)  BY <1>15, FetchedTask
  <2>. QED  BY <1>1, <2>1 DEF FetchedTo
<1>16. EmbedFails(t) \/ Embed(t) => task'[t].listed[f] \in {"none", task[t].listed[f]}
  <2>1. EmbedFails(t) \/ Embed(t) => task[t].at \in Entities
    BY <1>1 DEF Embed, EmbedFails, Shape
  <2>. QED  BY <1>8, <2>1
<1>. HIDE <1>1
<1>. QED
  <2>1. CASE \E e \in Entities : \/ \E x \in Texts \cup {NoText} : Patch(t, e, x)
                                 \/ Exclude(t, e) \/ DescribeFails(t, e)
    BY <1>3, <1>4, <1>8, <2>1
  <2>2. CASE \E e \in Entities : \/ GenerateOne(t, e) \/ FetchAffected(t, e)
                                 \/ \E x \in Texts : Describe(t, e, x)
                                 \/ \E R \in SUBSET Entities : Merge(t, e, R)
    BY <1>6, <1>7, <1>12, <1>15, <2>2
  <2>3. CASE \/ \E overwrite \in BOOLEAN : BulkGenerate(t, overwrite)
             \/ Embed(t) \/ EmbedFails(t) \/ Cancel(t) \/ Sync(t) \/ SyncRows(t)
             \/ BulkEdit(t) \/ Ends(t) \/ Remove(t) \/ CommitMerge(t)
    BY <1>6, <1>9, <1>10, <1>11, <1>13, <1>14, <1>16, <2>3
  <2>. QED  BY <2>1, <2>2, <2>3 DEF TaskStep, Ends

\* A row has no name, or the one it had, or one that a task has listed.
LEMMA RowNameStep ==
  ASSUME TypeOK, \A t \in Tasks : TaskOK(t), [Next]_vars, NEW e \in Entities
  PROVE  row'[e].name \in {"none", row[e].name} \/ \E t \in Tasks : row'[e].name = task[t].listed[e]
<1>1. row \in [Entities -> Rows] /\ NoRow.name = "none"  BY ScanTypes DEF NoRow
<1>2. ASSUME NEW t \in Tasks, NEW f \in Entities, NEW x \in Texts \cup {NoText}, Patch(t, f, x)
      PROVE  row'[e].name = row[e].name
  <2>1. row[f] \in RealRows /\ row' = [row EXCEPT ![f] = Described(row[f], x)]
    BY <1>2, PatchRow
  <2>2. Described(row[f], x).name = row[f].name  BY <2>1, DescribedRows
  <2>. QED  BY <1>1, <2>1, <2>2
<1>3. ASSUME NEW t \in Tasks, NEW f \in Entities, Exclude(t, f)
      PROVE  row'[e].name = row[e].name
  <2>1. row[f] \in RealRows /\ row'[f] = [row[f] EXCEPT !.excluded = ~@]
        /\ row' = [row EXCEPT ![f] = row'[f]]
    BY <1>3, ExcludeRow
  <2>2. row'[f].name = row[f].name  BY <2>1 DEF RealRows
  <2>. QED  BY <1>1, <2>1, <2>2
<1>4. ASSUME NEW t \in Tasks, NEW f \in Entities, NEW x \in Texts, Describe(t, f, x)
      PROVE  row'[e].name = row[e].name
  <2>1. PICK q : row' = [row EXCEPT ![f] = q]  BY <1>4, DescribeRow
  <2>2. row'[f].name = row[f].name  BY <1>4, DescribeRow DEF Rewritten
  <2>. QED  BY <1>1, <2>1, <2>2
<1>5. ASSUME NEW t \in Tasks, Embed(t) PROVE row'[e].name = row[e].name
  <2>1. PICK f \in Entities : f = task[t].at  BY <1>5, EmbedRow
  <2>2. PICK q : row' = [row EXCEPT ![f] = q]  BY <1>5, <2>1, EmbedRow
  <2>3. row'[f].name = row[f].name  BY <1>5, <2>1, EmbedRow DEF Rewritten
  <2>. QED  BY <1>1, <2>2, <2>3
<1>6. ASSUME NEW t \in Tasks, SyncRows(t)
      PROVE  row'[e].name \in {"none", row[e].name, task[t].listed[e]}
  <2>1. row'[e] = SyncedRow(t, e)  BY <1>6, SyncRow
  <2>2. CASE row[e] = NoRow  BY <1>1, <2>1, <2>2 DEF SyncedRow, Made, Exists, NewRow
  <2>3. CASE row[e] \in RealRows
    <3>1. \A n : [row[e] EXCEPT !.name = n, !.stored = FALSE].name = n  BY <2>3 DEF RealRows
    <3>2. e \notin Made(t)  BY <2>3, RowSet DEF Made, Exists
    <3>. QED  BY <1>1, <2>1, <3>1, <3>2 DEF SyncedRow
  <2>. QED  BY <1>1, <2>2, <2>3, RowSet
<1>7. ASSUME NEW t \in Tasks, CommitMerge(t) PROVE row'[e] \in {NoRow, row[e]}
  <2>1. PICK gone : row' = [f \in Entities |-> IF f \in gone THEN NoRow ELSE row[f]]
    BY <1>7, CommitRow
  <2>. QED  BY <2>1
<1>8. CASE Refresh
  <2>1. PICK done \in SUBSET Scanned, kept \in SUBSET Scanned : RefreshTo(done, kept)
    BY <1>8, RefreshStep
  <2>. QED  BY <2>1, RefreshRow DEF Rewritten
<1>9. ASSUME NEW t \in Tasks, TaskStep(t)
      PROVE  \/ UNCHANGED row
             \/ \E f \in Entities : \/ \E x \in Texts \cup {NoText} : Patch(t, f, x)
                                    \/ \E x \in Texts : Describe(t, f, x)
                                    \/ Exclude(t, f)
             \/ Embed(t) \/ SyncRows(t) \/ CommitMerge(t)
  BY <1>9, TaskFrames DEF TaskStep, SameRows, Ends
<1>10. QueueStep \/ (ScanStep /\ ~Refresh) \/ PaperlessStep \/ Restart \/ UNCHANGED vars
         => UNCHANGED row
  BY OtherFrames DEF QueueStep, ScanStep, ScheduledScan, ManualScan, PaperlessStep, SameRows
<1>. QED  BY <1>1, <1>2, <1>3, <1>4, <1>5, <1>6, <1>7, <1>8, <1>9, <1>10 DEF Next

\* Entities are deleted, made or renamed, and what a scan fetches is all it does not know.
LEMMA NameWriters ==
  ASSUME TypeOK, \A t \in Tasks : TaskOK(t), [Next]_vars
  PROVE  /\ \/ alive' \subseteq alive /\ UNCHANGED <<name, renamed>>
            \/ \E e \in Entities, n \in Names : Create(e, n) \/ Rename(e, n)
         /\ unread' = unread \/ \E d \in Docs : FetchDoc(d)
<1>1. ASSUME NEW t \in Tasks, TaskStep(t) PROVE alive' \subseteq alive /\ SameNames
  <2>1. BulkEdit(t) \/ EditUnanswered(t) => alive' = alive  BY Effects
  <2>2. Deleted(t) => alive' \subseteq alive  BY Effects DEF Delete
  <2>3. Remove(t) \/ RemoveUnanswered(t) => alive' \subseteq alive
    BY <2>2, Effects DEF paperless
  <2>. QED  BY <1>1, <2>1, <2>3, TaskFrames DEF TaskStep, SamePaperless, Ends
<1>2. QueueStep \/ Restart \/ UNCHANGED vars => alive' = alive /\ SameNames
  BY OtherFrames DEF QueueStep, SamePaperless
<1>3. ScanStep => /\ alive' = alive /\ UNCHANGED <<name, renamed>>
                  /\ unread' = unread \/ \E d \in Docs : FetchDoc(d)
  BY OtherFrames DEF ScanStep, ScheduledScan, ManualScan, SamePaperless, SameNames
<1>4. PaperlessStep =>
        /\ \/ alive' \subseteq alive /\ SameNames
           \/ \E e \in Entities, n \in Names : Create(e, n) \/ Rename(e, n)
        /\ unread' = unread
  <2>1. \A d, C : Retag(d, C) => alive' = alive  BY DEF Retag
  <2>2. \A d, C : Retag(d, C) => SameNames  BY OtherFrames
  <2>3. DocsEmbedded => alive' = alive /\ SameNames  BY OtherFrames DEF SamePaperless
  <2>4. \A e, n : Create(e, n) \/ Rename(e, n) => unread' = unread  BY OtherFrames
  <2>. QED  BY <2>1, <2>2, <2>3, <2>4 DEF PaperlessStep, SameNames
<1>. QED  BY <1>1, <1>2, <1>3, <1>4 DEF Next, SameNames

\* A name is for good, but for Rename, and of one entity.
LEMMA NameStep ==
  ASSUME TypeOK, \A t \in Tasks : TaskOK(t), NamesDiffer, [Next]_vars
  PROVE  /\ NamesDiffer'
         /\ \A e \in Entities : name[e] # "none" => name'[e] # "none"
         /\ \A e \in Entities : name'[e] = name[e] \/ name[e] = "none" \/ renamed'
         /\ alive' \subseteq alive \cup {e \in Entities : name[e] = "none"}
         /\ renamed => renamed'
<1>1. name \in [Entities -> Names \cup {"none"}] /\ "none" \notin Names
  BY CarriedTypes, GroomingAssumption
<1>2. ASSUME NEW g \in Entities, NEW n \in Names, Create(g, n) \/ Rename(g, n)
      PROVE  /\ NamesDiffer'
             /\ \A e \in Entities : name[e] # "none" => name'[e] # "none"
             /\ \A e \in Entities : name'[e] = name[e] \/ name[e] = "none" \/ renamed'
             /\ alive' \subseteq alive \cup {e \in Entities : name[e] = "none"}
             /\ renamed => renamed'
  <2>1. name' = [name EXCEPT ![g] = n] /\ \A f \in Entities : name[f] # n
    BY <1>2 DEF Create, Rename
  <2>2. \A e \in Entities : name'[e] = IF e = g THEN n ELSE name[e]  BY <1>1, <2>1
  <2>3. NamesDiffer'  BY <2>1, <2>2 DEF NamesDiffer
  <2>4. Create(g, n) => /\ name[g] = "none" /\ alive' = alive \cup {g} /\ renamed' = renamed
    BY DEF Create, notes
  <2>5. Rename(g, n) => renamed' /\ alive' = alive  BY DEF Rename
  <2>. QED  BY <1>1, <1>2, <2>2, <2>3, <2>4, <2>5
<1>3. UNCHANGED name => NamesDiffer'  BY DEF NamesDiffer
<1>. QED  BY <1>2, <1>3, NameWriters

\* The names that a scan has are those of the rows it loaded and those of Paperless.
LEMMA ScanNameStep ==
  ASSUME TypeOK, [Next]_vars, NEW e \in Entities
  PROVE  /\ scan'.rows[e].name \in {"none", row[e].name, scan.rows[e].name}
         /\ scan'.names[e] \in {"none", name[e], scan.names[e]}
         /\ scan'.pc \in {"fetch", "propose"} =>
              \/ scan.pc \in {"fetch", "propose"} /\ scan'.names = scan.names
              \/ e \in alive => scan'.names[e] = name[e]
<1>1. NoRow.name = "none"  BY DEF NoRow
<1>2. ~Refresh => scan'.rows[e].name \in {"none", row[e].name, scan.rows[e].name}
  BY <1>1, ScanRows
<1>3. CASE Refresh
  <2>1. PICK done \in SUBSET Scanned, kept \in SUBSET Scanned : RefreshTo(done, kept)
    BY <1>3, RefreshStep
  <2>2. /\ scan'.pc = "query" /\ scan'.names = scan.names
        /\ scan'.rows[e] = IF e \notin kept THEN NoRow
                           ELSE IF e \in done THEN Embedded(scan.rows[e]) ELSE scan.rows[e]
    BY <2>1, RefreshScan
  <2>3. e \in done => Embedded(scan.rows[e]).name = scan.rows[e].name
    BY ScanTypes, EmbeddedRows
  <2>. QED  BY <1>1, <2>2, <2>3
<1>4. CASE SameScan \/ ReadRows \/ (\E f \in Entities : Query(f))
  <2>1. scan'.names = scan.names  BY <1>4, ReadStep, QueryStep, Zenon DEF SameScan
  <2>2. ReadRows => scan'.pc = "refresh"  BY ReadStep, Zenon
  <2>3. (\E f \in Entities : Query(f)) => scan'.pc = "query"  BY QueryStep
  <2>4. scan'.pc \in {"fetch", "propose"} => scan.pc \in {"fetch", "propose"}
    BY <1>4, <2>2, <2>3 DEF SameScan
  <2>. QED  BY <1>2, <1>3, <2>1, <2>4
<1>5. CASE Classify
  <2>1. scan'.names[e] = IF e \in alive THEN name[e] ELSE "none"  BY <1>5, ClassifiedScan
  <2>. QED  BY <1>2, <1>3, <2>1
<1>6. CASE Propose \/ \E d \in Docs : FetchDoc(d)
  <2>1. scan'.names = scan.names /\ scan.pc \in {"fetch", "propose"}
    BY <1>6, ProposedScan, FetchStep
  <2>. QED  BY <1>2, <1>3, <2>1
<1>7. CASE scan' = IdleScan \/ \E b \in BOOLEAN : StartScan(b)
  <2>1. scan'.names[e] = "none" /\ scan'.pc \in {"idle", "pending"}
    BY <1>7, IdleScanFields, StartStep
  <2>. QED  BY <1>2, <1>3, <2>1
<1>. QED  BY <1>3, <1>4, <1>5, <1>6, <1>7, ScanCases

\* What a scan fetched, and has no name for, is known to be unread.
LEMMA UnreadStep ==
  ASSUME TypeOK, \A t \in Tasks : TaskOK(t), NamesOK, [Next]_vars
  PROVE  /\ unread \subseteq unread'
         /\ unread' \subseteq {e \in Entities : name'[e] # "none"}
         /\ scan'.pc = "propose" => {e \in scan'.fetched : scan'.names[e] = "none"} \subseteq unread'
<1>1. ASSUME NEW d \in Docs, FetchDoc(d)
      PROVE  /\ unread' = unread \cup {e \in carries[d] : scan.names[e] = "none"}
             /\ scan'.names = scan.names /\ scan'.fetched = carries[d]
             /\ carries[d] \subseteq {e \in Entities : name[e] # "none"}
  <2>1. unread' = unread \cup {e \in carries[d] : scan.names[e] = "none"}
    BY <1>1 DEF FetchDoc
  <2>2. scan'.names = scan.names /\ scan'.fetched = carries[d]  BY <1>1, FetchStep
  <2>3. carries[d] \subseteq {e \in Entities : name[e] # "none"}
    BY CarriedTypes, GroomingAssumption
  <2>. QED  BY <2>1, <2>2, <2>3
<1>2. unread \subseteq unread'  BY <1>1, NameWriters
<1>3. unread' \subseteq {e \in Entities : name[e] # "none"}
  BY <1>1, NameWriters DEF NamesOK
<1>4. \A e \in Entities : name[e] # "none" => name'[e] # "none"  BY NameStep DEF NamesOK
<1>5. scan'.pc = "propose" =>
        \/ \E d \in Docs : FetchDoc(d)
        \/ scan.pc = "propose" /\ scan'.names = scan.names /\ scan'.fetched = scan.fetched
  <2>1. SameScan => \/ scan'.pc # "propose"
                    \/ scan.pc = "propose" /\ scan'.names = scan.names /\ scan'.fetched = scan.fetched
    BY DEF SameScan
  <2>2. (\E f \in Entities : Query(f)) \/ ReadRows \/ Classify \/ Propose => scan'.pc # "propose"
    BY QueryStep, ReadStep, ClassifiedScan, ProposedScan
  <2>3. Refresh => scan'.pc # "propose"
    <3>. HAVE Refresh
    <3>1. PICK done \in SUBSET Scanned, kept \in SUBSET Scanned : RefreshTo(done, kept)
      BY RefreshStep
    <3>. QED  BY <3>1, RefreshScan
  <2>4. scan' = IdleScan \/ (\E b \in BOOLEAN : StartScan(b)) => scan'.pc # "propose"
    BY IdleScanFields, StartStep
  <2>. QED  BY <2>1, <2>2, <2>3, <2>4, ScanCases
<1>6. scan'.pc = "propose" => {e \in scan'.fetched : scan'.names[e] = "none"} \subseteq unread'
  BY <1>1, <1>2, <1>5 DEF NamesOK
<1>. QED  BY <1>2, <1>3, <1>4, <1>6

\* What a scan has loaded has a name.
LEMMA ScannedNames ==
  ASSUME TypeOK, NamesOK, ~renamed, NEW e \in Entities, e \in Scanned
  PROVE  scan.rows[e].name = name[e] /\ name[e] \in Names
<1>1. scan.rows[e].name \in {name[e], "none"}  BY DEF NamesOK
<1>2. scan.rows[e].name \in Names  BY ScanTypes DEF RealRows
<1>. QED  BY <1>1, <1>2, GroomingAssumption

\* What a scan works on it has loaded before.
LEMMA LoadedStep ==
  ASSUME TypeOK, [Next]_vars, NEW e \in Entities, scan'.rows[e] # NoRow,
         scan.pc \in {"fetch", "propose"}, scan'.pc \in {"fetch", "propose"}
  PROVE  scan'.rows[e] = scan.rows[e]
<1>1. SameScan => scan'.rows = scan.rows  BY DEF SameScan
<1>2. Propose \/ (\E d \in Docs : FetchDoc(d)) => scan'.rows = scan.rows
  BY ProposedScan, FetchStep
<1>3. ~(ReadRows \/ Classify \/ Refresh \/ (\E f \in Entities : Query(f)))
  BY ReadStep, ClassifiedScan, RefreshStep, QueryStep
<1>4. scan' # IdleScan /\ ~(\E b \in BOOLEAN : StartScan(b))  BY IdleScanFields, StartStep
<1>. QED  BY <1>1, <1>2, <1>3, <1>4, ScanCases

LEMMA NamesStep ==
  ASSUME TypeOK, \A t \in Tasks : TaskOK(t), NamesOK, [Next]_vars
  PROVE  NamesOK'
<1>1. /\ NamesDiffer' /\ unread' \subseteq {e \in Entities : name'[e] # "none"}
      /\ scan'.pc = "propose" => {e \in scan'.fetched : scan'.names[e] = "none"} \subseteq unread'
  BY NameStep, UnreadStep DEF NamesOK
<1>2. SUFFICES ASSUME ~renamed', NEW e \in Entities
               PROVE  /\ {row'[e].name, scan'.rows[e].name, scan'.names[e]} \subseteq {name'[e], "none"}
                      /\ \A t \in Tasks : task'[t].listed[e] \in {name'[e], "none"}
                      /\ scan'.pc \in {"fetch", "propose"} /\ e \in alive' /\ scan'.rows[e] # NoRow
                           => scan'.names[e] = name'[e]
  BY <1>1 DEF NamesOK, Scanned
<1>8. ~renamed /\ (name[e] = "none" \/ name'[e] = name[e])
  BY <1>2, NameStep DEF NamesOK
<1>4. /\ row[e].name \in {name[e], "none"} /\ scan.rows[e].name \in {name[e], "none"}
      /\ scan.names[e] \in {name[e], "none"}
      /\ \A t \in Tasks : task[t].listed[e] \in {name[e], "none"}
      /\ scan.pc \in {"fetch", "propose"} /\ e \in alive /\ e \in Scanned => scan.names[e] = name[e]
  BY <1>8 DEF NamesOK
<1>5. row'[e].name \in {name[e], "none"}  BY <1>4, RowNameStep
<1>6. scan'.rows[e].name \in {name[e], "none"} /\ scan'.names[e] \in {name[e], "none"}
  BY <1>4, ScanNameStep
<1>9. ASSUME scan'.pc \in {"fetch", "propose"}, e \in alive', scan'.rows[e] # NoRow
      PROVE  scan'.names[e] = name'[e]
  <2>1. CASE scan.pc \in {"fetch", "propose"} /\ scan'.names = scan.names
    <3>1. e \in Scanned  BY <1>9, <2>1, LoadedStep DEF Scanned
    <3>2. name[e] \in Names /\ name[e] # "none"  BY <1>8, <3>1, ScannedNames, GroomingAssumption
    <3>3. e \in alive  BY <1>9, <3>2, NameStep DEF NamesOK
    <3>. QED  BY <1>4, <1>8, <2>1, <3>1, <3>2, <3>3
  <2>2. CASE ~(scan.pc \in {"fetch", "propose"} /\ scan'.names = scan.names)
    <3>1. e \in alive => scan'.names[e] = name[e]  BY <1>9, <2>2, ScanNameStep
    <3>2. Classify
      <4>1. ~SameScan  BY <1>9, <2>2 DEF SameScan
      <4>2. ~Propose /\ ~(\E d \in Docs : FetchDoc(d))  BY <2>2, ProposedScan, FetchStep
      <4>3. ~ReadRows /\ ~(\E f \in Entities : Query(f))  BY <1>9, ReadStep, QueryStep
      <4>4. ~Refresh
        <5>. SUFFICES ASSUME Refresh PROVE FALSE  OBVIOUS
        <5>1. PICK done \in SUBSET Scanned, kept \in SUBSET Scanned : RefreshTo(done, kept)
          BY RefreshStep
        <5>. QED  BY <1>9, <5>1, RefreshScan
      <4>5. scan' # IdleScan /\ ~(\E b \in BOOLEAN : StartScan(b))
        BY <1>9, IdleScanFields, StartStep
      <4>. QED  BY <4>1, <4>2, <4>3, <4>4, <4>5, ScanCases
    <3>3. name' = name /\ alive' = alive  BY <3>2, OtherFrames DEF SamePaperless
    <3>. QED  BY <1>9, <3>1, <3>3
  <2>. QED  BY <2>1, <2>2
<1>7. ASSUME NEW t \in Tasks PROVE task'[t].listed[e] \in {name[e], "none"}
  <2>1. task' = task \/ Restart \/ TaskStep(t) \/ \E u \in Tasks \ {t} : TaskStep(u)
    BY TaskWriters
  <2>2. CASE Restart
    <3>1. task'[t] = Idle  BY <2>2 DEF Restart
    <3>. QED  BY <3>1, IdleFields
  <2>3. CASE TaskStep(t)  BY <1>4, <2>3, ListedStep
  <2>4. ASSUME NEW u \in Tasks \ {t}, TaskStep(u) PROVE task'[t] = task[t]
    <3>1. \E r \in TaskRecords : task' = [task EXCEPT ![u] = r]  BY <2>4, TaskStepTypes
    <3>. QED  BY <3>1, SetTask DEF TypeOK
  <2>. QED  BY <1>4, <2>1, <2>2, <2>3, <2>4
<1>. QED  BY <1>5, <1>6, <1>7, <1>8, <1>9

-----------------------------------------------------------------------------
(* The queue.                                                              *)

LEMMA QueueWriters ==
  ASSUME [Next]_vars
  PROVE  SameQueue \/ QueueStep \/ Propose
<1>1. ASSUME NEW t \in Tasks, TaskStep(t) PROVE SameQueue
  BY <1>1, TaskFrames DEF TaskStep, Ends
<1>2. (ScanStep /\ ~Propose) \/ PaperlessStep \/ Restart \/ UNCHANGED vars => SameQueue
  BY OtherFrames DEF ScanStep, ScheduledScan, ManualScan, PaperlessStep
<1>. QED  BY <1>1, <1>2 DEF Next

\* What the queue must not hold, and the scan not ask.
Single(P) ==
  /\ \A s \in P : \A f \in s.acts : f.doc = s.doc
  /\ \A s1, s2 \in P : s1.doc = s2.doc /\ s1.acts # {} /\ s2.acts # {} => s1 = s2

Unasked(P, X) == \A s \in P : \A f \in s.acts : \A x \in X : ~Asked(x, f)

\* What the scan r has to know of the suggestions P and the dismissals X.
Heeds(r, P, X) ==
  /\ r.pc = "pending" => X \subseteq r.blocked
  /\ r.pc \in {"refresh", "query"} =>
       /\ \A x \in X : x \in r.blocked \/ x[2] \in r.covered
       /\ \A s \in P : s.acts # {} => s.doc \in r.covered
  /\ r.pc \in {"fetch", "propose"} =>
       /\ \A s \in P : s.acts # {} => s.doc \notin r.docs \cup r.at
       /\ \A f \in r.flagged, x \in X : f.doc \in r.docs \cup r.at => ~Asked(x, f)

LEMMA QueueParts ==
  /\ QueueOK <=> Single(pending) /\ Heeds(scan, pending, dismissals \ slipped)
  /\ PendingIsNotDismissed <=> Unasked(pending, dismissals \ slipped)
  BY DEF QueueOK, Single, Heeds, Ahead, PendingIsNotDismissed, Unasked

LEMMA QueuePartsNext ==
  /\ QueueOK' <=> Single(pending') /\ Heeds(scan', pending', dismissals' \ slipped')
  /\ PendingIsNotDismissed' <=> Unasked(pending', dismissals' \ slipped')
  BY DEF QueueOK, Single, Heeds, Ahead, PendingIsNotDismissed, Unasked, Asked

\* The scan goes on, and the queue is as it was.
LEMMA HeedsStep ==
  ASSUME TypeOK, ProposalOK, QueueOK, [Next]_vars, SameQueue, ~Propose
  PROVE  Heeds(scan', pending, dismissals \ slipped)
<1>. DEFINE X == dismissals \ slipped
<1>1. Heeds(scan, pending, X)  BY QueueParts
<1>2. CASE SameScan  BY <1>1, <1>2 DEF SameScan, Heeds
<1>3. CASE ReadRows
  <2>1. /\ scan.pc = "pending" /\ scan'.pc = "refresh" /\ scan'.blocked = scan.blocked
        /\ scan'.covered = {s.doc : s \in pending}
    BY <1>3, ReadStep, Zenon
  <2>. QED  BY <1>1, <2>1 DEF Heeds
<1>4. CASE Refresh
  <2>1. /\ scan.pc = "refresh" /\ scan'.pc = "query" /\ scan'.blocked = scan.blocked
        /\ scan'.covered = scan.covered
    BY <1>4, RefreshStep, RefreshScan
  <2>. QED  BY <1>1, <2>1 DEF Heeds
<1>5. ASSUME NEW e \in Entities, Query(e) PROVE Heeds(scan', pending, X)
  <2>1. /\ scan.pc = "query" /\ scan'.pc = "query" /\ scan'.blocked = scan.blocked
        /\ scan'.covered = scan.covered
    BY <1>5, QueryStep
  <2>. QED  BY <1>1, <2>1 DEF Heeds
<1>6. CASE Classify
  <2>1. /\ scan.pc = "query" /\ scan'.pc \in {"stamp", "fetch"} /\ scan'.at = scan.at
        /\ \A f \in scan'.flagged : /\ f \in Findings /\ Blocking(f) \cap scan.blocked = {}
                                    /\ f.doc \notin scan.covered
        /\ \A d \in scan'.docs : \E f \in scan'.flagged : f.doc = d
    BY <1>6, ClassifiedScan
  <2>2. scan'.at = {}  BY <2>1 DEF ProposalOK
  <2>3. /\ \A x \in X : x \in scan.blocked \/ x[2] \in scan.covered
        /\ \A s \in pending : s.acts # {} => s.doc \in scan.covered
    BY <1>1, <2>1 DEF Heeds
  <2>4. \A s \in pending : s.acts # {} => s.doc \notin scan'.docs \cup scan'.at
    BY <2>1, <2>2, <2>3
  <2>5. ASSUME NEW f \in scan'.flagged, NEW x \in X, Asked(x, f) PROVE FALSE
    <3>1. x \in Entities \X Docs \X Acts  BY DEF TypeOK
    <3>2. x[1] = f.ent /\ x[2] = f.doc  BY <2>5 DEF Asked
    <3>3. x = <<f.ent, f.doc, x[3]>>  BY <3>1, <3>2
    <3>4. x[3] \in IF f.act \in {"replace", "review"} THEN {"replace", "review"} ELSE {f.act}
      BY <2>5 DEF Asked
    <3>5. x \in Blocking(f)  BY <3>3, <3>4 DEF Blocking
    <3>. QED  BY <2>1, <2>3, <3>2, <3>5
  <2>. QED  BY <2>1, <2>4, <2>5 DEF Heeds
<1>7. ASSUME NEW d \in Docs, FetchDoc(d) PROVE Heeds(scan', pending, X)
  <2>1. /\ scan.pc = "fetch" /\ scan'.pc = "propose" /\ d \in scan.docs /\ scan'.at = {d}
        /\ scan'.docs = scan.docs \ {d} /\ scan'.flagged = scan.flagged
    BY <1>7, FetchStep
  <2>. QED  BY <1>1, <2>1 DEF Heeds
<1>8. ASSUME NEW b \in BOOLEAN, StartScan(b) PROVE Heeds(scan', pending, X)
  <2>1. scan'.pc = "pending" /\ scan'.blocked = dismissals  BY <1>8, StartStep
  <2>. QED  BY <2>1 DEF Heeds
<1>9. CASE scan' = IdleScan  BY <1>9, IdleScanFields DEF Heeds
<1>. QED  BY <1>2, <1>3, <1>4, <1>5, <1>6, <1>7, <1>8, <1>9, ScanCases

LEMMA RejectStep ==
  ASSUME TypeOK, QueueOK, PendingIsNotDismissed, NEW s \in pending, Reject(s)
  PROVE  QueueOK' /\ PendingIsNotDismissed'
<1>. DEFINE X  == dismissals \ slipped
            X2 == dismissals' \ slipped'
<1>1. Single(pending) /\ Heeds(scan, pending, X) /\ Unasked(pending, X)  BY QueueParts
<1>2. /\ pending' = pending \ {s} /\ dismissals' = dismissals \cup {Key(f) : f \in s.acts}
      /\ slipped' = IF scan.pc = "pending" THEN slipped \cup {Key(f) : f \in s.acts} ELSE slipped
      /\ scan' = scan
  BY DEF Reject
<1>3. \A x \in X2 : x \in X \/ (scan.pc # "pending" /\ \E f \in s.acts : x = Key(f))
  BY <1>2
<1>4. \A f \in s.acts : f.doc = s.doc /\ Key(f)[2] = f.doc  BY <1>1 DEF Single, Key
<1>5. \A x \in X2 : x \in X \/ (scan.pc # "pending" /\ x[2] = s.doc /\ s.acts # {})
  BY <1>3, <1>4
<1>6. Single(pending')  BY <1>1, <1>2 DEF Single
<1>7. Unasked(pending', X2)
  <2>1. SUFFICES ASSUME NEW s2 \in pending', NEW f \in s2.acts, NEW x \in X2, Asked(x, f)
                 PROVE  FALSE
    BY DEF Unasked
  <2>2. x[2] = f.doc /\ f.doc = s2.doc /\ s2 \in pending /\ s2 # s
    BY <1>1, <1>2, <2>1 DEF Asked, Single
  <2>3. x \notin X  BY <1>1, <2>1, <2>2 DEF Unasked
  <2>4. s.doc = s2.doc /\ s.acts # {}  BY <1>5, <2>2, <2>3
  <2>. QED  BY <1>1, <2>2, <2>4 DEF Single
<1>8. Heeds(scan, pending', X2)
  <2>1. scan.pc = "pending" => X2 \subseteq scan.blocked  BY <1>1, <1>5 DEF Heeds
  <2>2. ASSUME scan.pc \in {"refresh", "query"}
        PROVE  /\ \A x \in X2 : x \in scan.blocked \/ x[2] \in scan.covered
               /\ \A p \in pending' : p.acts # {} => p.doc \in scan.covered
    BY <1>1, <1>2, <1>5, <2>2 DEF Heeds
  <2>3. ASSUME scan.pc \in {"fetch", "propose"}
        PROVE  /\ \A p \in pending' : p.acts # {} => p.doc \notin scan.docs \cup scan.at
               /\ \A f \in scan.flagged, x \in X2 : f.doc \in scan.docs \cup scan.at => ~Asked(x, f)
    <3>1. s.acts # {} => s.doc \notin scan.docs \cup scan.at  BY <1>1, <2>3 DEF Heeds
    <3>2. \A f \in scan.flagged, x \in X : f.doc \in scan.docs \cup scan.at => ~Asked(x, f)
      BY <1>1, <2>3 DEF Heeds
    <3>3. \A f, x : Asked(x, f) => x[2] = f.doc  BY DEF Asked
    <3>. QED  BY <1>1, <1>2, <1>5, <2>3, <3>1, <3>2, <3>3 DEF Heeds
  <2>. QED  BY <2>1, <2>2, <2>3 DEF Heeds
<1>. QED  BY <1>2, <1>6, <1>7, <1>8, QueuePartsNext

LEMMA QueueOKStep ==
  ASSUME TypeOK, ProposalOK, QueueOK, PendingIsNotDismissed, [Next]_vars
  PROVE  QueueOK' /\ PendingIsNotDismissed'
<1>. DEFINE X == dismissals \ slipped
<1>1. Single(pending) /\ Heeds(scan, pending, X) /\ Unasked(pending, X)  BY QueueParts
<1>2. CASE SameQueue /\ ~Propose
  <2>1. Heeds(scan', pending, X)  BY <1>2, HeedsStep
  <2>. QED  BY <1>1, <1>2, <2>1, QueuePartsNext DEF SameQueue
<1>3. ASSUME NEW s \in pending, Reject(s) PROVE QueueOK' /\ PendingIsNotDismissed'
  BY <1>3, RejectStep
<1>4. ASSUME scan' = scan, slipped' = slipped, pending' \subseteq pending,
             dismissals' \subseteq dismissals
      PROVE  QueueOK' /\ PendingIsNotDismissed'
  <2>1. dismissals' \ slipped' \subseteq X  BY <1>4
  <2>2. Single(pending')  BY <1>1, <1>4 DEF Single
  <2>3. Unasked(pending', dismissals' \ slipped')  BY <1>1, <1>4, <2>1 DEF Unasked
  <2>4. Heeds(scan, pending', dismissals' \ slipped')  BY <1>1, <1>4, <2>1 DEF Heeds
  <2>. QED  BY <1>4, <2>2, <2>3, <2>4, QueuePartsNext
<1>5. ASSUME (\E s \in pending : Approve(s)) \/ (\E x \in dismissals : Expire(x))
      PROVE  QueueOK' /\ PendingIsNotDismissed'
  <2>1. /\ scan' = scan /\ slipped' = slipped /\ pending' \subseteq pending
        /\ dismissals' \subseteq dismissals
    BY <1>5 DEF Approve, Expire, queue, notes
  <2>. QED  BY <1>4, <2>1
<1>6. ASSUME NEW d \in Docs, Suggest(d) PROVE QueueOK' /\ PendingIsNotDismissed'
  <2>1. PICK s : s = [doc |-> d, acts |-> {}, value |-> {}]  OBVIOUS
  <2>2. s.acts = {}  BY <2>1
  <2>3. /\ pending' = pending \cup {s} /\ dismissals' = dismissals /\ slipped' = slipped
        /\ scan' = scan
    BY <1>6, <2>1 DEF Suggest, notes
  <2>4. Single(pending')  BY <1>1, <2>2, <2>3 DEF Single
  <2>5. Unasked(pending', X)  BY <1>1, <2>2, <2>3 DEF Unasked
  <2>6. Heeds(scan, pending', X)  BY <1>1, <2>2, <2>3 DEF Heeds
  <2>. QED  BY <2>3, <2>4, <2>5, <2>6, QueuePartsNext
<1>7. CASE Propose
  <2>1. /\ scan.pc = "propose" /\ scan'.pc \in {"stamp", "fetch"} /\ scan'.at = {}
        /\ scan'.docs = scan.docs /\ scan'.flagged = scan.flagged
    BY <1>7, ProposedScan
  <2>2. PICK d \in Docs \ scan.docs : scan.at = {d}  BY <2>1 DEF ProposalOK
  <2>3. PICK v : pending' = IF Valid(d) = {} THEN pending
                            ELSE pending \cup {[doc |-> d, acts |-> Valid(d), value |-> v]}
    BY <1>7, <2>2, ProposeStep, Zenon
  <2>4. PICK s : s = [doc |-> d, acts |-> Valid(d), value |-> v]  OBVIOUS
  <2>5. s.doc = d /\ s.acts = Valid(d) /\ pending' \subseteq pending \cup {s}
    BY <2>3, <2>4
  <2>6. dismissals' = dismissals /\ slipped' = slipped  BY <1>7, OtherFrames
  <2>7. \A f \in s.acts : f \in scan.flagged /\ f.doc = d  BY <2>5 DEF Valid
  <2>8. /\ \A p \in pending : p.acts # {} => p.doc \notin scan.docs \cup {d}
        /\ \A f \in scan.flagged, x \in X : f.doc \in scan.docs \cup {d} => ~Asked(x, f)
    BY <1>1, <2>1, <2>2 DEF Heeds
  <2>9. Single(pending')  BY <1>1, <2>5, <2>7, <2>8 DEF Single
  <2>10. Unasked(pending', X)  BY <1>1, <2>5, <2>7, <2>8 DEF Unasked
  <2>11. Heeds(scan', pending', X)  BY <2>1, <2>2, <2>5, <2>8 DEF Heeds
  <2>. QED  BY <2>6, <2>9, <2>10, <2>11, QueuePartsNext
<1>. QED  BY <1>2, <1>3, <1>5, <1>6, <1>7, QueueWriters DEF QueueStep

-----------------------------------------------------------------------------
(* What a suggestion says.                                                 *)

\* The entities a scan found on a document and has a name for.
Known(C) == {e \in C : scan.names[e] # "none"}

\* What a scan has read of the document d, unless it changed, or a name did.
LEMMA ReadRight ==
  ASSUME TypeOK, NamesOK, ProposalOK, ~renamed, scan.pc = "propose",
         NEW d \in Docs \ moved, scan.at = {d}
  PROVE  /\ scan.fetched = carries[d] /\ Names0 = NamesOf(Known(carries[d]))
         /\ carries[d] \subseteq Entities /\ carries[d] \ unread \subseteq Known(carries[d])
         /\ \A e \in carries[d] : name[e] \in Names
         /\ \A f \in scan.flagged :
              /\ f.ent \in Entities /\ NameOf(f) = name[f.ent] /\ name[f.ent] \in Names
              /\ f.ent \in carries[d] => f.ent \in Known(carries[d])
              /\ kind = "single" /\ f.by # NoEntity =>
                   scan.rows[f.by].name = name[f.by] /\ name[f.by] \in Names
<1>1. scan.fetched = carries[d]  BY DEF ProposalOK
<1>2. carries[d] \subseteq alive /\ alive \subseteq Entities /\ \A e \in alive : name[e] \in Names
  BY CarriedTypes
<1>3. Names0 = NamesOf(Known(carries[d]))
  <2>1. \A e \in carries[d] : scan.names[e] \in {name[e], "none"}  BY <1>2 DEF NamesOK
  <2>2. Names0 = {scan.names[e] : e \in carries[d]} \ {"none"}  BY <1>1 DEF Names0
  <2>. QED  BY <2>1, <2>2 DEF Known, NamesOf
<1>4. carries[d] \ unread \subseteq Known(carries[d])  BY <1>1 DEF NamesOK, Known
<1>5. ASSUME NEW f \in scan.flagged
      PROVE  /\ f.ent \in Entities /\ f.by \in Entities \cup {NoEntity}
             /\ scan.rows[f.ent] # NoRow
             /\ kind = "single" /\ f.by # NoEntity => scan.rows[f.by] # NoRow
  <2>1. scan.flagged \subseteq FindingRecords  BY ScanTypes DEF ScanRecords
  <2>2. f.ent \in Entities /\ f.by \in Entities \cup {NoEntity}  BY <2>1 DEF FindingRecords
  <2>. QED  BY <2>2 DEF ProposalOK
<1>6. \A e \in Scanned : scan.rows[e].name = name[e] /\ name[e] \in Names  BY ScannedNames DEF Scanned
<1>7. \A e \in Scanned \cap carries[d] : e \in Known(carries[d])
  <2>1. \A e \in Scanned \cap carries[d] : scan.names[e] = name[e]  BY <1>2 DEF NamesOK
  <2>. QED  BY <1>6, <2>1, GroomingAssumption DEF Known
<1>8. ASSUME NEW f \in scan.flagged
      PROVE  /\ f.ent \in Scanned
             /\ kind = "single" /\ f.by # NoEntity => f.by \in Scanned
  BY <1>5 DEF Scanned
<1>. QED  BY <1>1, <1>2, <1>3, <1>4, <1>5, <1>6, <1>7, <1>8 DEF NameOf

\* The suggestion for a document of tags fits it.
LEMMA TagsFit ==
  ASSUME TypeOK, NamesOK, ProposalOK, ~renamed, scan.pc = "propose", kind = "tag",
         NEW d \in Docs \ moved, scan.at = {d}, NEW v \in Corrected(Valid(d)), NEW s,
         s.acts = Valid(d), s.value = v
  PROVE  Fits(s, carries[d])
<1>. DEFINE C == carries[d]
            K == Known(C)
            A == Ents(s, "add")
            R == Ents(s, "remove")
            T == (C \cup A) \ R
<1>1. /\ Names0 = NamesOf(K) /\ C \subseteq Entities /\ C \ unread \subseteq K
      /\ \A e \in C : name[e] \in Names
      /\ \A f \in scan.flagged : /\ f.ent \in Entities /\ NameOf(f) = name[f.ent]
                                 /\ name[f.ent] \in Names /\ (f.ent \in C => f.ent \in K)
  BY ReadRight
<1>2. \A e, f \in Entities : name[e] = name[f] /\ name[e] \in Names => e = f
  BY GroomingAssumption DEF NamesOK, NamesDiffer
<1>3. K \subseteq C  BY DEF Known
<1>4. \A f \in Valid(d) : f \in scan.flagged /\ ~IsStale(f)  BY DEF Valid
<1>5. \A f \in Valid(d) : (f.act = "add" => name[f.ent] \notin NamesOf(K))
                          /\ (f.act = "remove" => name[f.ent] \in NamesOf(K))
  BY <1>1, <1>4, kind = "tag" DEF IsStale
<1>6. A \cap C = {}  BY <1>1, <1>4, <1>5 DEF Ents, Acting, NamesOf
<1>7. R \subseteq C
  <2>1. ASSUME NEW f \in Valid(d), f.act = "remove" PROVE f.ent \in C
    <3>1. PICK e \in K : name[e] = name[f.ent]  BY <1>5, <2>1 DEF NamesOf
    <3>. QED  BY <1>1, <1>2, <1>3, <1>4, <3>1
  <2>. QED  BY <2>1 DEF Ents, Acting
<1>8. /\ {NameOf(f) : f \in Acting(Valid(d), "add")} = NamesOf(A)
      /\ {NameOf(f) : f \in Acting(Valid(d), "remove")} = NamesOf(R)
  BY <1>1, <1>4 DEF Ents, Acting, NamesOf
<1>9. v = (NamesOf(K) \cup NamesOf(A)) \ NamesOf(R)
  BY <1>1, <1>8 DEF Corrected
<1>10. /\ A \cup R \subseteq Entities /\ \A e \in A \cup R : name[e] \in Names
  BY <1>1, <1>4 DEF Ents, Acting
<1>11. (NamesOf(K) \cup NamesOf(A)) \ NamesOf(R) = NamesOf((K \cup A) \ R)
  <2>1. K \cup A \cup R \subseteq Entities /\ \A e \in K \cup A \cup R : name[e] \in Names
    BY <1>1, <1>3, <1>10
  <2>2. \A e \in K \cup A, f \in R : name[e] = name[f] => e = f  BY <1>2, <2>1
  <2>. QED  BY <2>2 DEF NamesOf
<1>12. NamesOf(T \ unread) \subseteq s.value
  BY <1>1, <1>6, <1>9, <1>11, Zenon DEF NamesOf
<1>13. s.value \subseteq NamesOf(T)  BY <1>3, <1>9, <1>11 DEF NamesOf
<1>. QED  BY <1>6, <1>7, <1>12, <1>13, kind = "tag" DEF Fits

\* And the one for a document of a single-valued kind.
LEMMA SingleFits ==
  ASSUME TypeOK, NamesOK, ProposalOK, ~renamed, scan.pc = "propose", kind = "single",
         NEW d \in Docs \ moved, scan.at = {d}, NEW v \in Corrected(Valid(d)), NEW s,
         s.acts = Valid(d), s.value = v, Valid(d) # {}
  PROVE  Fits(s, carries[d])
<1>. DEFINE C   == carries[d]
            new == Ents(s, "add") \cup By(s)
<1>1. /\ scan.fetched = C /\ Names0 = NamesOf(Known(C))
      /\ \A f \in scan.flagged : /\ NameOf(f) = name[f.ent]
                                 /\ f.ent \in C => f.ent \in Known(C)
                                 /\ f.by # NoEntity => scan.rows[f.by].name = name[f.by]
  BY ReadRight, kind = "single"
<1>2. \A f \in Valid(d) :
        /\ f \in scan.flagged /\ ~IsStale(f) /\ f.act \in {"add", "replace", "review"}
        /\ f.by # f.ent /\ (f.act = "replace" <=> f.by # NoEntity)
  <2>1. scan.flagged \subseteq FindingRecords  BY ScanTypes DEF ScanRecords
  <2>2. \A f \in scan.flagged : f.act \in Acts  BY <2>1 DEF FindingRecords
  <2>. QED  BY <2>2 DEF Valid, ProposalOK, Acts
<1>3. \A f \in Valid(d) : IF f.act = "add" THEN C = {} ELSE C = {f.ent}
  BY <1>1, <1>2, kind = "single" DEF IsStale
<1>10. Known(C) = C
  <2>1. PICK f : f \in Valid(d)  OBVIOUS
  <2>2. C = {} \/ (C = {f.ent} /\ f.ent \in Known(C))  BY <1>1, <1>2, <1>3, <2>1
  <2>. QED  BY <2>2 DEF Known
<1>4. Ents(s, "add") # {} => C = {}  BY <1>3 DEF Ents, Acting
<1>5. Ents(s, "replace") \cup Ents(s, "review") \subseteq C  BY <1>3 DEF Ents, Acting
<1>6. {NameOf(f) : f \in Acting(Valid(d), "add")}
        \cup {scan.rows[f.by].name : f \in Acting(Valid(d), "replace")} = NamesOf(new)
  <2>1. {NameOf(f) : f \in Acting(Valid(d), "add")} = NamesOf(Ents(s, "add"))
    BY <1>1, <1>2 DEF Ents, Acting, NamesOf
  <2>2. {scan.rows[f.by].name : f \in Acting(Valid(d), "replace")} = NamesOf(By(s))
    BY <1>1, <1>2 DEF By, Acting, NamesOf
  <2>3. NamesOf(new) = NamesOf(Ents(s, "add")) \cup NamesOf(By(s))  BY DEF NamesOf
  <2>. QED  BY <2>1, <2>2, <2>3
<1>7. v \in IF NamesOf(new) = {} THEN {NamesOf(C)} ELSE {{n} : n \in NamesOf(new)}
  BY <1>1, <1>6, <1>10, kind = "single" DEF Corrected
<1>8. \A e \in new : {e} # C
  <2>1. \A e \in Ents(s, "add") : {e} # C  BY <1>4
  <2>2. \A f \in Valid(d) : f.by # NoEntity => {f.by} # C  BY <1>2, <1>3
  <2>. QED  BY <2>1, <2>2 DEF By
<1>9. \E S \in {{e} : e \in new} \cup {C} : s.value = NamesOf(S) /\ (S = C => new = {})
  <2>1. CASE new = {}
    <3>1. NamesOf(new) = {}  BY <2>1 DEF NamesOf
    <3>2. v = NamesOf(C)  BY <1>7, <3>1
    <3>. QED  BY <2>1, <3>2
  <2>2. CASE new # {}
    <3>1. NamesOf(new) # {}  BY <2>2 DEF NamesOf
    <3>2. PICK n \in NamesOf(new) : v = {n}  BY <1>7, <3>1
    <3>3. PICK e \in new : n = name[e]  BY <3>2 DEF NamesOf
    <3>4. v = NamesOf({e})  BY <3>2, <3>3 DEF NamesOf
    <3>5. {e} \in {{g} : g \in new} \cup {C}  BY <3>3
    <3>. QED  BY <1>8, <3>3, <3>4, <3>5
  <2>. QED  BY <2>1, <2>2
<1>. QED  BY <1>4, <1>5, <1>9, kind = "single" DEF Fits

\* What fits goes on to fit while names stay, new ones are given and more tags are unread.
FitsAs(k, nm, un, s, C) ==
  LET A == Ents(s, "add")
      R == Ents(s, "remove")
      T == (C \cup A) \ R
      new == A \cup By(s)
      names(S) == {nm[e] : e \in S}
  IN IF k = "tag"
     THEN /\ A \cap C = {} /\ R \subseteq C
          /\ names(T \ un) \subseteq s.value /\ s.value \subseteq names(T)
     ELSE /\ A # {} => C = {}
          /\ Ents(s, "replace") \cup Ents(s, "review") \subseteq C
          /\ \E S \in {{e} : e \in new} \cup {C} : s.value = names(S) /\ (S = C => new = {})

LEMMA FitsNow ==
  ASSUME NEW s
  PROVE  /\ Fits(s, carries[s.doc]) <=> FitsAs(kind, name, unread, s, carries[s.doc])
         /\ Fits(s, carries[s.doc])' <=> FitsAs(kind', name', unread', s, carries'[s.doc])
<1>1. Fits(s, carries[s.doc]) <=> FitsAs(kind, name, unread, s, carries[s.doc])
  BY Zenon DEF Fits, FitsAs, NamesOf
<1>2. Fits(s, carries[s.doc])' <=> FitsAs(kind', name', unread', s, carries'[s.doc])
  BY Zenon DEF Fits, FitsAs, NamesOf, Ents, Acting, By
<1>. QED  BY <1>1, <1>2

LEMMA StillFits ==
  ASSUME NEW k, NEW nm, NEW nn, NEW un, NEW uu, NEW s, NEW C, FitsAs(k, nm, un, s, C),
         un \subseteq uu, s.value \subseteq Names,
         \A e \in C \cup un : nm[e] # "none",
         \A e \in C \cup Ents(s, "add") \cup By(s) : nn[e] = nm[e] \/ nm[e] = "none"
  PROVE  FitsAs(k, nn, uu, s, C)
<1>. DEFINE A == Ents(s, "add")
            R == Ents(s, "remove")
            T == (C \cup A) \ R
            new == A \cup By(s)
<1>1. "none" \notin s.value  BY GroomingAssumption
<1>2. CASE k = "tag"
  <2>1. /\ A \cap C = {} /\ R \subseteq C
        /\ {nm[e] : e \in T \ un} \subseteq s.value /\ s.value \subseteq {nm[e] : e \in T}
    BY <1>2, Zenon DEF FitsAs
  <2>2. \A e \in T : nn[e] = nm[e]  BY <1>1, <2>1
  <2>3. /\ {nn[e] : e \in T \ uu} \subseteq s.value /\ s.value \subseteq {nn[e] : e \in T}
    BY <2>1, <2>2
  <2>. QED  BY <1>2, <2>1, <2>3, Zenon DEF FitsAs
<1>3. CASE k # "tag"
  <2>1. /\ A # {} => C = {}
        /\ Ents(s, "replace") \cup Ents(s, "review") \subseteq C
        /\ \E S \in {{e} : e \in new} \cup {C} : s.value = {nm[e] : e \in S} /\ (S = C => new = {})
    BY <1>3, Zenon DEF FitsAs
  <2>2. PICK S \in {{e} : e \in new} \cup {C} :
           s.value = {nm[e] : e \in S} /\ (S = C => new = {})
    BY <2>1
  <2>3. \A e \in S : nn[e] = nm[e]  BY <1>1, <2>2
  <2>4. s.value = {nn[e] : e \in S}  BY <2>2, <2>3
  <2>. QED  BY <1>3, <2>1, <2>2, <2>4, Zenon DEF FitsAs
<1>. QED  BY <1>2, <1>3

LEMMA FitsStep ==
  ASSUME TypeOK, \A t \in Tasks : TaskOK(t), NamesOK, QueueOK, ProposalOK, ProposalFits,
         [Next]_vars
  PROVE  ProposalFits'
<1>1. SUFFICES ASSUME NEW s \in pending', s.acts # {}, s.doc \notin moved', ~renamed'
               PROVE  Fits(s, carries[s.doc])'
  BY DEF ProposalFits
<1>2. /\ kind' = kind /\ ~renamed /\ unread \subseteq unread'
      /\ \A e \in Entities : name'[e] = name[e] \/ name[e] = "none"
  BY <1>1, NameStep, UnreadStep, MovedStep DEF NamesOK
<1>3. CASE s \in pending
  <2>1. s.doc \in Docs /\ s.doc \in AskedAbout  BY <1>3 DEF TypeOK, AskedAbout
  <2>2. carries'[s.doc] = carries[s.doc]  BY <1>1, <2>1, MovedStep
  <2>3. s.doc \notin moved
    <3>1. ASSUME NEW d \in Docs, FetchDoc(d), moved' = moved \ {d}, s.doc \in moved PROVE FALSE
      <4>1. s.doc = d  BY <1>1, <3>1
      <4>2. scan.pc = "fetch" /\ d \in scan.docs  BY <3>1, FetchStep
      <4>. QED  BY <1>1, <1>3, <4>1, <4>2 DEF QueueOK, Ahead
    <3>. QED  BY <1>1, <3>1, MovedStep
  <2>4. Fits(s, carries[s.doc])  BY <1>1, <1>2, <1>3, <2>3 DEF ProposalFits
  <2>5. /\ s.value \subseteq Names /\ carries[s.doc] \subseteq Entities
        /\ \A e \in carries[s.doc] \cup unread : name[e] # "none"
    BY <1>3, CarriedTypes, GroomingAssumption DEF TypeOK, NamesOK
  <2>6. Ents(s, "add") \cup By(s) \subseteq Entities
    <3>1. s.acts \subseteq FindingRecords  BY <1>3 DEF TypeOK
    <3>2. \A f \in s.acts : f.ent \in Entities /\ f.by \in Entities \cup {NoEntity}
      BY <3>1 DEF FindingRecords
    <3>. QED  BY <3>2 DEF Ents, Acting, By
  <2>7. FitsAs(kind, name, unread, s, carries[s.doc])  BY <2>4, FitsNow
  <2>8. \A e \in carries[s.doc] \cup Ents(s, "add") \cup By(s) : name'[e] = name[e] \/ name[e] = "none"
    BY <1>2, <2>5, <2>6
  <2>9. FitsAs(kind, name', unread', s, carries[s.doc])
    BY <1>2, <2>5, <2>7, <2>8, StillFits
  <2>. QED  BY <1>2, <2>2, <2>9, FitsNow
<1>4. CASE s \notin pending
  <2>1. Propose
    <3>1. SameQueue => s \in pending  BY DEF SameQueue
    <3>2. QueueStep => s \in pending \/ s.acts = {}
      BY DEF QueueStep, Reject, Approve, Suggest, Expire
    <3>. QED  BY <1>1, <1>4, <3>1, <3>2, QueueWriters
  <2>2. scan.pc = "propose"  BY <2>1, ProposedScan
  <2>3. PICK d \in Docs \ scan.docs : scan.at = {d}  BY <2>2 DEF ProposalOK
  <2>4. PICK v \in Corrected(Valid(d)) :
           pending' = IF Valid(d) = {} THEN pending
                      ELSE pending \cup {[doc |-> d, acts |-> Valid(d), value |-> v]}
    BY <2>1, <2>3, ProposeStep, Zenon
  <2>5. s = [doc |-> d, acts |-> Valid(d), value |-> v]  BY <1>1, <1>4, <2>4
  <2>6. s.doc = d /\ s.acts = Valid(d) /\ s.value = v  BY <2>5
  <2>7. carries' = carries /\ moved' = moved  BY <2>1, MovedFrames
  <2>9. name' = name /\ unread' = unread
    BY <2>1, OtherFrames DEF SamePaperless, SameNames
  <2>8. Fits(s, carries[d])
    <3>1. d \in Docs \ moved /\ kind \in {"tag", "single"}  BY <1>1, <2>6, <2>7 DEF TypeOK
    <3>. QED  BY <1>1, <1>2, <2>2, <2>3, <2>6, <3>1, TagsFit, SingleFits
  <2>. QED  BY <1>2, <2>6, <2>7, <2>8, <2>9, FitsNow
<1>. QED  BY <1>3, <1>4

-----------------------------------------------------------------------------
(* The invariant.                                                          *)

\* The row of the entity e at the start, described by x.
FirstRow(e, x) ==
  IF x = NoText THEN NewRow(name[e])
  ELSE [NewRow(name[e]) EXCEPT !.desc = x, !.stored = TRUE,
                               !.vector = [name |-> name[e], desc |-> x]]

LEMMA FirstRows ==
  ASSUME NEW e \in Entities, name[e] \in Names, NEW x \in Texts \cup {NoText}
  PROVE  /\ FirstRow(e, x) \in RealRows /\ FirstRow(e, x).name = name[e]
         /\ FirstRow(e, x).stored => FirstRow(e, x).vector = TextOf(FirstRow(e, x))
<1>1. name[e] \in Names  OBVIOUS
<1>2. CASE x = NoText
  <2>1. FirstRow(e, x) = NewRow(name[e])  BY <1>2 DEF FirstRow
  <2>2. NewRow(name[e]).name = name[e] /\ ~NewRow(name[e]).stored  BY DEF NewRow
  <2>. QED  BY <1>1, <2>1, <2>2, NewRows
<1>3. CASE x # NoText
  <2>1. FirstRow(e, x) = [name |-> name[e], desc |-> x, stored |-> TRUE, excluded |-> FALSE,
                          vector |-> [name |-> name[e], desc |-> x]]
    BY <1>3 DEF FirstRow, NewRow
  <2>. QED  BY <1>1, <2>1 DEF RealRows, TextOf
<1>. QED  BY <1>2, <1>3

LEMMA GroomingInit ==
  ASSUME Init
  PROVE  GroomingInv
<1>1. /\ kind \in {"tag", "single"} /\ name \in [Entities -> Names \cup {"none"}] /\ NamesDiffer
      /\ alive = {e \in Entities : name[e] # "none"}
      /\ carries \in [Docs -> SUBSET Entities] /\ \A d \in Docs : MayCarry(carries[d])
      /\ behind = {} /\ dismissals = {} /\ pending = {} /\ audited = {}
      /\ task = [t \in Tasks |-> Idle] /\ scan = IdleScan /\ events = 0
      /\ raced = {} /\ unscanned = {} /\ slipped = {} /\ moved = {} /\ unread = {}
      /\ lost = {} /\ given = {}
  BY ZenonT(30) DEF Init
<1>2. PICK x \in Texts \cup {NoText} :
        /\ row = [e \in Entities |-> IF e \notin alive THEN NoRow ELSE FirstRow(e, x)]
        /\ changed = IF x = NoText THEN alive ELSE {}
        /\ fresh = IF x = NoText THEN {} ELSE alive
  BY ZenonT(60) DEF Init, FirstRow
<1>14. \A e \in alive : e \in Entities /\ name[e] \in Names  BY <1>1
<1>15. \A e \in Entities : row[e] = IF e \notin alive THEN NoRow ELSE FirstRow(e, x)  BY <1>2
<1>3. \A e \in Entities : /\ row[e] \in Rows /\ row[e].name \in {name[e], "none"}
                          /\ row[e].stored => row[e].vector = TextOf(row[e])
                          /\ Exists(e) => e \in alive
  <2>1. \A e \in alive : /\ FirstRow(e, x) \in Rows /\ FirstRow(e, x).name = name[e]
                         /\ FirstRow(e, x).stored => FirstRow(e, x).vector = TextOf(FirstRow(e, x))
    BY <1>14, FirstRows, RowSet
  <2>2. NoRow \in Rows /\ NoRow.name = "none" /\ ~NoRow.stored  BY RowSet DEF NoRow
  <2>. QED  BY <1>15, <2>1, <2>2 DEF Exists
<1>4. TypeOK
  <2>1. row \in [Entities -> Rows]  BY <1>2, <1>3
  <2>2. task \in [Tasks -> TaskRecords] /\ scan \in ScanRecords  BY <1>1, Idles
  <2>3. changed \subseteq Entities  BY <1>1, <1>2
  <2>4. events \in 0..MaxEvents  BY <1>1, GroomingAssumption
  <2>. QED  BY <1>1, <2>1, <2>2, <2>3, <2>4 DEF TypeOK
<1>5. \A t \in Tasks : task[t] = Idle  BY <1>1
<1>6. ASSUME NEW t \in Tasks PROVE TaskOK(t)
  <2>1. task[t].pc = "idle" /\ task[t].audits = {}  BY <1>5, IdleFields
  <2>. QED  BY <1>5, <2>1 DEF TaskOK
<1>7. HeldIsRow
  <2>1. \A e \in Entities : \A t \in Tasks : task[t].rows[e] = NoRow  BY <1>5, IdleFields
  <2>. QED  BY <1>1, <2>1, IdleScanFields DEF HeldIsRow
<1>8. VectorIsCurrent  BY <1>3 DEF VectorIsCurrent
<1>9. ScanOK
  <2>1. \A e \in Entities : Exists(e) /\ ~NeedsRescan(e) => e \in fresh
    BY <1>2, <1>3 DEF NeedsRescan
  <2>. QED  BY <1>1, <2>1, IdleScanFields DEF ScanOK
<1>10. NamesOK
  <2>1. \A e \in Entities : scan.rows[e].name = "none" /\ scan.names[e] = "none"
    BY <1>1, IdleScanFields DEF NoRow
  <2>2. \A e \in Entities : \A t \in Tasks : task[t].listed[e] = "none"  BY <1>5, IdleFields
  <2>. QED  BY <1>1, <1>3, <2>1, <2>2, IdleScanFields DEF NamesOK
<1>11. QueueOK /\ PendingIsNotDismissed /\ ProposalFits
  BY <1>1, IdleScanFields DEF QueueOK, PendingIsNotDismissed, ProposalFits
<1>12. ProposalOK  BY <1>1, IdleScanFields DEF ProposalOK
<1>13. MergeIsSound
  BY <1>1 DEF MergeIsSound, MergeKeepsDocuments, MergeIsAudited
<1>. QED
  BY <1>4, <1>6, <1>7, <1>8, <1>9, <1>10, <1>11, <1>12, <1>13, Zenon DEF GroomingInv

LEMMA GroomingNext ==
  ASSUME GroomingInv, [Next]_vars
  PROVE  GroomingInv'
<1>1. /\ TypeOK /\ \A t \in Tasks : TaskOK(t)
      /\ HeldIsRow /\ VectorIsCurrent /\ ScanOK /\ NamesOK /\ QueueOK /\ ProposalOK
      /\ PendingIsNotDismissed /\ ProposalFits /\ MergeKeepsDocuments /\ MergeIsAudited
  BY Zenon DEF GroomingInv, MergeIsSound
<1>2. TypeOK'  BY <1>1, TypeStep
<1>3. \A u \in Tasks : TaskOK(u)'  BY <1>1, TaskOKStep
<1>4. HeldIsRow' /\ VectorIsCurrent'  BY <1>1, VectorsStep
<1>5. ScanOK'  BY <1>1, ScanOKStep
<1>6. NamesOK'  BY <1>1, NamesStep
<1>7. QueueOK' /\ PendingIsNotDismissed'  BY <1>1, QueueOKStep
<1>8. ProposalOK'  BY <1>1, ProposalStep
<1>9. ProposalFits'  BY <1>1, FitsStep
<1>10. MergeKeepsDocuments'  BY <1>1, LostStep
<1>11. MergeIsAudited'  BY <1>1, AuditedStep
<1>. QED
  BY <1>2, <1>3, <1>4, <1>5, <1>6, <1>7, <1>8, <1>9, <1>10, <1>11, Zenon
  DEF GroomingInv, MergeIsSound

\* The invariant holds for any numbers of entities, documents, names, descriptions, requests and
\* findings, whatever of the model, the store and Paperless fails (grooming.py).
THEOREM GroomingInvariant == Spec => []GroomingInv
<1>1. Init => GroomingInv  BY GroomingInit
<1>2. GroomingInv /\ [Next]_vars => GroomingInv'  BY GroomingNext
<1>. QED  BY <1>1, <1>2, PTL DEF Spec

\* The state stays within its types, and no document carries an entity that Paperless does not
\* have, or two of a single-valued kind (Paperless, merge_entities).
THEOREM GroomingTypes == Spec => []TypeOK
<1>1. GroomingInv => TypeOK  BY Zenon DEF GroomingInv
<1>. QED  BY <1>1, GroomingInvariant, PTL

\* A vector that counts as stored is that of the row's name and description, unless two tasks
\* had the row loaded at once (_embed_entity_row, update_entity, sync_and_list_entities).
THEOREM VectorIsCurrentHolds == Spec => []VectorIsCurrent
<1>1. GroomingInv => VectorIsCurrent  BY Zenon DEF GroomingInv
<1>. QED  BY <1>1, GroomingInvariant, PTL

\* Nothing that was rejected is in the queue while the rejection is in force, but for rejections
\* made before a running scan has read which suggestions are pending (_is_dismissed,
\* _load_dismissed_keys, ApprovalQueueService.reject).
THEOREM PendingIsNotDismissedHolds == Spec => []PendingIsNotDismissed
<1>1. GroomingInv => PendingIsNotDismissed  BY Zenon DEF GroomingInv
<1>. QED  BY <1>1, GroomingInvariant, PTL

\* A merge takes an entity from no document that has not been given the other, unless the
\* document was not listed or came to carry it later.  What a merge writes is audited if the merge
\* comes to its end; of one that fails, whose answer is lost, or that a restart ends, nothing is
\* said (merge_entities).
THEOREM MergeIsSoundHolds == Spec => []MergeIsSound
<1>1. GroomingInv => MergeIsSound  BY Zenon DEF GroomingInv
<1>. QED  BY <1>1, GroomingInvariant, PTL

\* What a scheduled scan passes over was examined by a scan as it is, with the documents as they
\* are, or is `unscanned': it was stamped by a scan in spite of having changed while that ran or
\* having no vector, or it was renamed, which nothing marks (collect_scan_candidates, _scan_bg,
\* sync_and_list_entities).
THEOREM ScanMissesNothingHolds == Spec => []ScanMissesNothing
<1>1. ScanOK => ScanMissesNothing  BY DEF ScanOK, ScanMissesNothing
<1>2. GroomingInv => ScanOK  BY Zenon DEF GroomingInv
<1>. QED  BY <1>1, <1>2, GroomingInvariant, PTL

\* Until an entity is renamed, a suggestion fits its document for as long as nobody changes it,
\* though the scan looked the entities up at one time, the documents at another and the names at
\* a third; of tags made after the names were read nothing is said (_enqueue_candidates).
THEOREM ProposalFitsHolds == Spec => []ProposalFits
<1>1. GroomingInv => ProposalFits  BY Zenon DEF GroomingInv
<1>. QED  BY <1>1, GroomingInvariant, PTL
=============================================================================
