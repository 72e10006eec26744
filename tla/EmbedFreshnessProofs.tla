------------------------ MODULE EmbedFreshnessProofs ------------------------
(***************************************************************************)
(* Proofs about EmbedFreshness, for any documents, embedders and bounds.   *)
(* First the type invariant, then the inductive invariant that makes       *)
(* last_embedded_at and last_tag_ids_json trustworthy.                     *)
(***************************************************************************)
EXTENDS EmbedFreshness, TLAPS

\* The helpers of the embedders keep the types of the embedders' variables.
LEMMA BeginType ==
  ASSUME EmbeddersOK, NEW e \in Embedders, NEW k \in Kinds,
         NEW ds \in SUBSET Docs, Begin(e, k, ds)
  PROVE  EmbeddersOK'
  BY DEF EmbeddersOK, Begin, Phases

LEMMA TakeType ==
  ASSUME EmbeddersOK, NEW e \in Embedders, NEW d \in Docs, NEW p \in Phases,
         NEW c \in Copies, Take(e, d, p, c)
  PROVE  EmbeddersOK'
  BY DEF EmbeddersOK, Take

LEMMA GoType ==
  ASSUME EmbeddersOK, NEW e \in Embedders, NEW p \in Phases,
         cur[e] \in Docs, Go(e, p)
  PROVE  EmbeddersOK'
  BY DEF EmbeddersOK, Go

LEMMA FillType ==
  ASSUME EmbeddersOK, NEW e \in Embedders, NEW c \in Copies,
         cur[e] \in Docs, Fill(e, c)
  PROVE  EmbeddersOK'
  BY DEF EmbeddersOK, Fill, Phases

LEMMA BlankType == Blank \in Copies
  BY DEF Blank, Copies

LEMMA LeaveType ==
  ASSUME EmbeddersOK, NEW e \in Embedders, NEW ds \in SUBSET Docs, Leave(e, ds)
  PROVE  EmbeddersOK'
  BY BlankType DEF EmbeddersOK, Leave, Phases

LEMMA CopyType ==
  ASSUME PaperlessOK, NEW d \in Docs
  PROVE  Copy(d) \in Copies
  BY DEF PaperlessOK, Copy, Copies

-----------------------------------------------------------------------------
\* What each group of actions leaves alone keeps its type.
LEMMA StutterType ==
  ASSUME TypeOK, UNCHANGED vars
  PROVE  TypeOK'
  BY DEF TypeOK, PaperlessOK, TrackingOK, VectorsOK, EmbeddersOK, BoundsOK,
         HistoryOK, vars, paperless, tracking, vectors, embedders, bounds,
         history

\* Paperless and its users.
LEMMA EnvironmentType ==
  ASSUME TypeOK, Environment
  PROVE  TypeOK'
<1> USE ConstantsAssumption DEF TypeOK, Versions
<1>1. ASSUME NEW d \in Docs, NEW t \in TagSets, EditDocument(d, t)
      PROVE  TypeOK'
  BY <1>1 DEF EditDocument, Save, PaperlessOK, TrackingOK, VectorsOK,
     EmbeddersOK, BoundsOK, HistoryOK, tracking, vectors, embedders, bounds
<1>2. ASSUME NEW d \in Docs, NEW t \in TagSets, BulkEditTags(d, t)
      PROVE  TypeOK'
  BY <1>2 DEF BulkEditTags, PaperlessOK, TrackingOK, VectorsOK,
     EmbeddersOK, BoundsOK, HistoryOK, tracking, vectors, embedders
<1>3. ASSUME NEW d \in Docs, DeleteDocument(d)
      PROVE  TypeOK'
  BY <1>3 DEF DeleteDocument, PaperlessOK, TrackingOK, VectorsOK,
     EmbeddersOK, BoundsOK, HistoryOK, tracking, vectors, embedders, bounds
<1>4. ASSUME NEW d \in Docs, LoseWebhook(d)
      PROVE  TypeOK'
  BY <1>4 DEF LoseWebhook, PaperlessOK, TrackingOK, VectorsOK,
     EmbeddersOK, BoundsOK, HistoryOK, tracking, vectors, embedders, bounds, history
<1>5. ASSUME NEW d \in Docs, TrackDocument(d)
      PROVE  TypeOK'
  BY <1>5 DEF TrackDocument, PaperlessOK, TrackingOK, VectorsOK,
     EmbeddersOK, BoundsOK, HistoryOK, paperless, vectors, embedders, bounds, history
<1> QED BY <1>1, <1>2, <1>3, <1>4, <1>5 DEF Environment

\* Webhooks, routes, settings and restarts.
LEMMA RequestsType ==
  ASSUME TypeOK, Requests
  PROVE  TypeOK'
<1> USE ConstantsAssumption DEF TypeOK, Versions
<1>1. ASSUME NEW w \in Workers, NEW d \in Docs, ReceiveWebhook(w, d)
      PROVE  TypeOK'
  <2>1. EmbeddersOK'
    BY <1>1, BeginType DEF ReceiveWebhook, Kinds, Embedders
  <2> QED BY <1>1, <2>1 DEF ReceiveWebhook, PaperlessOK, TrackingOK, VectorsOK,
             BoundsOK, HistoryOK, tracking, vectors, bounds, history
<1>2. ASSUME NEW w \in Workers, NEW d \in Docs, NEW t \in TagSets, Approve(w, d, t)
      PROVE  TypeOK'
  <2>1. [content |-> Absent, tags |-> t] \in Copies
    BY DEF Copies
  <2>2. EmbeddersOK'
    BY <1>2, <2>1 DEF Approve, EmbeddersOK, Phases, Kinds, Embedders
  <2> QED BY <1>2, <2>2 DEF Approve, Save, PaperlessOK, TrackingOK, VectorsOK,
             BoundsOK, HistoryOK, tracking, vectors, bounds
<1>3. ASSUME NEW w \in Workers, NEW ds \in SUBSET Docs, ReindexSince(w, ds)
      PROVE  TypeOK'
  <2>1. EmbeddersOK'
    BY <1>3, BeginType DEF ReindexSince, Kinds, Embedders
  <2> QED BY <1>3, <2>1 DEF ReindexSince, PaperlessOK, TrackingOK, VectorsOK,
             BoundsOK, HistoryOK, paperless, tracking, vectors, bounds, history
<1>4. ASSUME NEW e \in Indexers, Reindex(e)
      PROVE  TypeOK'
  <2>1. EmbeddersOK'
    BY <1>4, BeginType DEF Reindex, Kinds, Embedders, PaperlessOK
  <2> QED BY <1>4, <2>1 DEF Reindex, PaperlessOK, TrackingOK, VectorsOK,
             BoundsOK, HistoryOK, paperless, tracking, bounds, history
<1>5. ASSUME NEW e \in Refreshers, StartFlush(e)
      PROVE  TypeOK'
  <2>1. EmbeddersOK'
    BY <1>5, BeginType DEF StartFlush, Kinds, Embedders, Flushers, TrackingOK
  <2> QED BY <1>5, <2>1 DEF StartFlush, PaperlessOK, TrackingOK, VectorsOK,
             BoundsOK, HistoryOK, paperless, tracking, vectors, bounds, history
<1>6. ASSUME NEW m \in Modes, ChangeMode(m)
      PROVE  TypeOK'
  BY <1>6 DEF ChangeMode, PaperlessOK, TrackingOK, VectorsOK, EmbeddersOK,
     BoundsOK, HistoryOK, paperless, tracking, vectors, embedders, bounds, history
<1>7. CASE ResetTracking
  BY <1>7 DEF ResetTracking, PaperlessOK, TrackingOK, VectorsOK, EmbeddersOK,
     BoundsOK, HistoryOK, paperless, vectors, embedders, history
<1>8. CASE Restart
  <2>1. EmbeddersOK'
    BY <1>8, BlankType DEF Restart, EmbeddersOK, Phases, Kinds, PaperlessOK
  <2>2. PaperlessOK'
    BY <1>8 DEF Restart, PaperlessOK
  <2> QED BY <1>8, <2>1, <2>2 DEF Restart, TrackingOK, VectorsOK,
             BoundsOK, HistoryOK, tracking, vectors, history
<1> QED BY <1>1, <1>2, <1>3, <1>4, <1>5, <1>6, <1>7, <1>8 DEF Requests

-----------------------------------------------------------------------------
\* The steps of the embedders when nothing fails.
LEMMA ProgressType ==
  ASSUME TypeOK, NEW x \in Embedders, Progress(x)
  PROVE  TypeOK'
<1> USE ConstantsAssumption DEF TypeOK
<1>1. ASSUME NEW e \in Embedders, NEW d \in Docs, FetchDocument(e, d)
      PROVE  TypeOK'
  <2>1. EmbeddersOK'
    BY <1>1, TakeType, LeaveType, CopyType DEF FetchDocument, EmbeddersOK, Phases
  <2> QED BY <1>1, <2>1 DEF FetchDocument, PaperlessOK, TrackingOK, VectorsOK,
             BoundsOK, HistoryOK, paperless, tracking, vectors, bounds, history
<1>2. ASSUME NEW e \in Embedders, NEW d \in Docs, FetchPage(e, d)
      PROVE  TypeOK'
  <2>1. EmbeddersOK'
    BY <1>2, TakeType, LeaveType, CopyType DEF FetchPage, EmbeddersOK, Phases
  <2> QED BY <1>2, <2>1 DEF FetchPage, PaperlessOK, TrackingOK, VectorsOK,
             BoundsOK, HistoryOK, paperless, tracking, vectors, bounds, history
<1>3. ASSUME NEW e \in Embedders, NEW d \in Docs, FlushText(e, d)
      PROVE  TypeOK'
  <2>1. [content |-> content[d], tags |-> NoTags] \in Copies
    BY DEF Copies, PaperlessOK
  <2>2. EmbeddersOK'
    BY <1>3, <2>1, TakeType, BlankType DEF FlushText, Phases
  <2> QED BY <1>3, <2>2 DEF FlushText, PaperlessOK, TrackingOK, VectorsOK,
             BoundsOK, HistoryOK, paperless, tracking, vectors, bounds, history
<1>4. ASSUME NEW e \in Embedders, FetchApprovedText(e)
      PROVE  TypeOK'
  <2>1. pc[e] = "text"
    BY <1>4 DEF FetchApprovedText
  <2>2. cur[e] \in Docs /\ copy[e] \in Copies /\ todo[e] \in SUBSET Docs
    BY <2>1 DEF EmbeddersOK
  <2>3. [content |-> content[cur[e]], tags |-> copy[e].tags] \in Copies
    BY <2>2 DEF Copies, PaperlessOK
  <2>4. EmbeddersOK'
    BY <1>4, <2>2, <2>3, FillType, LeaveType DEF FetchApprovedText
  <2> QED BY <1>4, <2>4 DEF FetchApprovedText, PaperlessOK, TrackingOK, VectorsOK,
             BoundsOK, HistoryOK, paperless, tracking, vectors, bounds, history
<1>5. ASSUME NEW e \in Embedders, CheckListed(e)
      PROVE  TypeOK'
  <2>1. EmbeddersOK'
    BY <1>5, GoType, LeaveType DEF CheckListed, EmbeddersOK, Phases
  <2> QED BY <1>5, <2>1 DEF CheckListed, PaperlessOK, TrackingOK, VectorsOK,
             BoundsOK, HistoryOK, paperless, tracking, vectors, bounds, history
<1>6. ASSUME NEW e \in Embedders, StartTagDrift(e)
      PROVE  TypeOK'
  <2>1. EmbeddersOK'
    BY <1>6 DEF StartTagDrift, EmbeddersOK, PaperlessOK, Kinds
  <2>2. window' \in [Docs -> {"in", "aging", "out"}]
    BY <1>6 DEF StartTagDrift, PaperlessOK
  <2> QED BY <1>6, <2>1, <2>2 DEF StartTagDrift, PaperlessOK, TrackingOK, VectorsOK,
             BoundsOK, HistoryOK, paperless, tracking, vectors, bounds, history
<1>7. ASSUME NEW e \in Embedders, FlushMetadata(e)
      PROVE  TypeOK'
  <2>1. pc[e] = "text"
    BY <1>7 DEF FlushMetadata
  <2>2. cur[e] \in Docs /\ copy[e] \in Copies /\ todo[e] \in SUBSET Docs
    BY <2>1 DEF EmbeddersOK
  <2>3. [content |-> copy[e].content, tags |-> tags[cur[e]]] \in Copies
    BY <2>2 DEF Copies, PaperlessOK
  <2>4. EmbeddersOK'
    BY <1>7, <2>2, <2>3, FillType, LeaveType DEF FlushMetadata
  <2> QED BY <1>7, <2>4 DEF FlushMetadata, PaperlessOK, TrackingOK, VectorsOK,
             BoundsOK, HistoryOK, paperless, tracking, vectors, bounds, history
<1>8. ASSUME NEW e \in Embedders, PurgeVectors(e)
      PROVE  TypeOK'
  <2>1. EmbeddersOK'
    BY <1>8, GoType DEF PurgeVectors, EmbeddersOK, Phases
  <2> QED BY <1>8, <2>1 DEF PurgeVectors, PaperlessOK, TrackingOK, VectorsOK,
             BoundsOK, HistoryOK, paperless, tracking, vectors, bounds, history
<1>9. ASSUME NEW e \in Embedders, PurgeRow(e)
      PROVE  TypeOK'
  <2>1. EmbeddersOK'
    BY <1>9, LeaveType DEF PurgeRow, EmbeddersOK, Phases
  <2> QED BY <1>9, <2>1 DEF PurgeRow, PaperlessOK, TrackingOK, VectorsOK,
             BoundsOK, HistoryOK, paperless, tracking, vectors, bounds, history
<1>10. ASSUME NEW e \in Embedders, MarkDirty(e)
      PROVE  TypeOK'
  <2>1. EmbeddersOK'
    BY <1>10, LeaveType DEF MarkDirty, EmbeddersOK, Phases
  <2> QED BY <1>10, <2>1 DEF MarkDirty, PaperlessOK, TrackingOK, VectorsOK,
             BoundsOK, HistoryOK, paperless, tracking, vectors, bounds, history
<1>11. ASSUME NEW e \in Embedders, StartUpsert(e)
      PROVE  TypeOK'
  <2>1. EmbeddersOK'
    BY <1>11, GoType DEF StartUpsert, EmbeddersOK, Phases
  <2> QED BY <1>11, <2>1 DEF StartUpsert, PaperlessOK, TrackingOK, VectorsOK,
             BoundsOK, HistoryOK, paperless, tracking, vectors, bounds, history
<1>12. ASSUME NEW e \in Embedders, WriteVectors(e)
      PROVE  TypeOK'
  <2>1. cur[e] \in Docs /\ copy[e] \in Copies
    BY <1>12 DEF WriteVectors, EmbeddersOK
  <2>2. EmbeddersOK'
    BY <1>12, <2>1, GoType DEF WriteVectors, Phases
  <2> QED BY <1>12, <2>1, <2>2 DEF WriteVectors, Copies, PaperlessOK, TrackingOK, VectorsOK,
             BoundsOK, HistoryOK, paperless, tracking, vectors, bounds, history
<1>13. ASSUME NEW e \in Embedders, ClearDirty(e)
      PROVE  TypeOK'
  <2>1. EmbeddersOK'
    BY <1>13, GoType DEF ClearDirty, EmbeddersOK, Phases
  <2> QED BY <1>13, <2>1 DEF ClearDirty, PaperlessOK, TrackingOK, VectorsOK,
             BoundsOK, HistoryOK, paperless, tracking, vectors, bounds, history
<1>14. ASSUME NEW e \in Embedders, RecordEmbed(e)
      PROVE  TypeOK'
  <2>1. cur[e] \in Docs /\ copy[e] \in Copies
    BY <1>14 DEF RecordEmbed, EmbeddersOK
  <2>2. EmbeddersOK'
    BY <1>14, LeaveType DEF RecordEmbed, EmbeddersOK
  <2> QED BY <1>14, <2>1, <2>2 DEF RecordEmbed, Copies, PaperlessOK, TrackingOK, VectorsOK,
             BoundsOK, HistoryOK, paperless, tracking, vectors, bounds, history
<1>15. ASSUME NEW e \in Embedders, Finish(e)
      PROVE  TypeOK'
  <2>1. EmbeddersOK'
    BY <1>15 DEF Finish, EmbeddersOK, Phases, Kinds
  <2> QED BY <1>15, <2>1 DEF Finish, PaperlessOK, TrackingOK, VectorsOK,
             BoundsOK, HistoryOK, paperless, tracking, vectors, bounds, history
<1> QED BY <1>1, <1>2, <1>3, <1>4, <1>5, <1>6, <1>7, <1>8, <1>9, <1>10, <1>11, <1>12, <1>13, <1>14, <1>15
       DEF Progress

\* The steps of the embedders when a call fails.
LEMMA FailingType ==
  ASSUME TypeOK, NEW x \in Embedders, Failing(x)
  PROVE  TypeOK'
<1> USE ConstantsAssumption DEF TypeOK
<1>1. ASSUME NEW e \in Embedders, NEW d \in Docs, FetchDocumentFails(e, d)
      PROVE  TypeOK'
  <2>1. EmbeddersOK'
    BY <1>1, LeaveType DEF FetchDocumentFails, EmbeddersOK
  <2> QED BY <1>1, <2>1 DEF FetchDocumentFails, PaperlessOK, TrackingOK, VectorsOK,
             BoundsOK, HistoryOK, paperless, tracking, vectors, bounds, history
<1>2. ASSUME NEW e \in Embedders, NEW d \in Docs, FlushTextFails(e, d)
      PROVE  TypeOK'
  <2>1. EmbeddersOK'
    BY <1>2, LeaveType DEF FlushTextFails, EmbeddersOK
  <2> QED BY <1>2, <2>1 DEF FlushTextFails, PaperlessOK, TrackingOK, VectorsOK,
             BoundsOK, HistoryOK, paperless, tracking, vectors, bounds, history
<1>3. ASSUME NEW e \in Embedders, FetchPageFails(e)
      PROVE  TypeOK'
  <2>1. EmbeddersOK'
    BY <1>3, LeaveType DEF FetchPageFails
  <2> QED BY <1>3, <2>1 DEF FetchPageFails, PaperlessOK, TrackingOK, VectorsOK,
             BoundsOK, HistoryOK, paperless, tracking, vectors, bounds, history
<1>4. ASSUME NEW e \in Embedders, DriftRunFails(e)
      PROVE  TypeOK'
  <2>1. EmbeddersOK'
    BY <1>4 DEF DriftRunFails, EmbeddersOK, Phases, Kinds
  <2> QED BY <1>4, <2>1 DEF DriftRunFails, PaperlessOK, TrackingOK, VectorsOK,
             BoundsOK, HistoryOK, paperless, tracking, vectors, bounds, history
<1>5. ASSUME NEW e \in Embedders, EmbedFails(e)
      PROVE  TypeOK'
  <2>1. EmbeddersOK'
    BY <1>5, LeaveType DEF EmbedFails, EmbeddersOK, Phases
  <2> QED BY <1>5, <2>1 DEF EmbedFails, PaperlessOK, TrackingOK, VectorsOK,
             BoundsOK, HistoryOK, paperless, tracking, vectors, bounds, history
<1>6. ASSUME NEW e \in Embedders, RecordEmbedFails(e)
      PROVE  TypeOK'
  <2>1. EmbeddersOK'
    BY <1>6, LeaveType DEF RecordEmbedFails, EmbeddersOK
  <2> QED BY <1>6, <2>1 DEF RecordEmbedFails, PaperlessOK, TrackingOK, VectorsOK,
             BoundsOK, HistoryOK, paperless, tracking, vectors, bounds, history
<1> QED BY <1>1, <1>2, <1>3, <1>4, <1>5, <1>6 DEF Failing

-----------------------------------------------------------------------------
LEMMA InitType == Init => TypeOK
<1> SUFFICES ASSUME Init PROVE TypeOK
  OBVIOUS
<1> USE ConstantsAssumption
<1>1. PICK indexed \in SUBSET Docs :
        /\ tracked = indexed
        /\ lastEmbedded = [d \in Docs |-> IF d \in indexed THEN 0 ELSE Absent]
        /\ lastTags = [d \in Docs |-> IF d \in indexed THEN tags[d] ELSE NoTags]
        /\ vecContent = lastEmbedded
        /\ vecTags = lastTags
  BY Zenon DEF Init
<1>2. /\ live = Docs /\ content = [d \in Docs |-> 0]
      /\ tags \in [Docs -> TagSets] /\ hooks = [d \in Docs |-> 0]
      /\ window = [d \in Docs |-> "out"] /\ dirty = {} /\ mode \in Modes
      /\ bulkEdits = 0 /\ resets = 0 /\ restarts = 0
      /\ raced = {} /\ unstamped = {}
  BY Zenon DEF Init
<1>3. PaperlessOK
  BY <1>2 DEF PaperlessOK, Versions
<1>4. TrackingOK /\ VectorsOK
  BY <1>1, <1>2 DEF TrackingOK, VectorsOK, Versions
<1>5. EmbeddersOK
  <2>1. /\ pc = [e \in Embedders |-> IF e \in Indexers THEN "next" ELSE "idle"]
        /\ kind = [e \in Embedders |-> IF e \in Indexers THEN "index" ELSE "none"]
        /\ cur = [e \in Embedders |-> NoDoc] /\ copy = [e \in Embedders |-> Blank]
        /\ tries = [e \in Embedders |-> 0]
    BY Zenon DEF Init
  <2>2. todo = [e \in Embedders |->
                  IF e \in Indexers THEN {d \in Docs : vecContent[d] = Absent} ELSE {}]
    BY Zenon DEF Init
  <2>3. todo \in [Embedders -> SUBSET Docs]
    BY <2>2
  <2> QED BY <2>1, <2>3, BlankType DEF EmbeddersOK, Phases, Kinds
<1>6. BoundsOK /\ HistoryOK
  BY <1>2 DEF BoundsOK, HistoryOK
<1> QED BY <1>2, <1>3, <1>4, <1>5, <1>6 DEF TypeOK

LEMMA NextType == TypeOK /\ [Next]_vars => TypeOK'
<1> SUFFICES ASSUME TypeOK, [Next]_vars PROVE TypeOK'
  OBVIOUS
<1>1. CASE Environment
  BY <1>1, EnvironmentType
<1>2. CASE Requests
  BY <1>2, RequestsType
<1>3. ASSUME NEW e \in DriftLoops, StartContentDrift(e)
      PROVE  TypeOK'
  <2>1. EmbeddersOK'
    BY <1>3, BeginType DEF StartContentDrift, Kinds, Embedders, TypeOK,
       PaperlessOK, Listed
  <2>2. window' \in [Docs -> {"in", "aging", "out"}]
    BY <1>3 DEF StartContentDrift, TypeOK, PaperlessOK
  <2> QED BY <1>3, <2>1, <2>2 DEF StartContentDrift, TypeOK, PaperlessOK,
             TrackingOK, VectorsOK, BoundsOK, HistoryOK, tracking, vectors,
             bounds, history
<1>4. ASSUME NEW e \in DailyLoops, StartFlush(e)
      PROVE  TypeOK'
  <2>1. EmbeddersOK'
    BY <1>4, BeginType DEF StartFlush, Kinds, Embedders, Flushers, TypeOK, TrackingOK
  <2> QED BY <1>4, <2>1 DEF StartFlush, TypeOK, PaperlessOK, TrackingOK, VectorsOK,
             BoundsOK, HistoryOK, paperless, tracking, vectors, bounds, history
<1>5. ASSUME NEW e \in Embedders, Progress(e) \/ Failing(e)
      PROVE  TypeOK'
  BY <1>5, ProgressType, FailingType
<1>6. CASE UNCHANGED vars
  BY <1>6, StutterType
<1> QED BY <1>1, <1>2, <1>3, <1>4, <1>5, <1>6 DEF Next

\* In every reachable state the variables have their types; in particular a
\* dirty document has a tracking row, and an embedder at work has a document.
THEOREM TypeCorrect == Spec => []TypeOK
  BY InitType, NextType, PTL DEF Spec

-----------------------------------------------------------------------------
\* Paperless changes a document: no copy of it is held, or it is raced now.
LEMMA EnvironmentInv ==
  ASSUME EmbedInv, Environment, NEW d \in Docs \ raced'
  PROVE  DocOK(d)'
<1> USE ConstantsAssumption
    DEF EmbedInv, DocOK, StampOK, SnapshotOK, CopiesOK, TypeOK, PaperlessOK,
        TrackingOK, VectorsOK, Versions
<1>1. ASSUME NEW f \in Docs, NEW t \in TagSets, EditDocument(f, t)
      PROVE  DocOK(d)'
  <2>1. d \notin raced
    BY <1>1 DEF EditDocument, Save
  <2>2. CASE d # f
    BY <1>1, <2>1, <2>2 DEF EditDocument, Save, CopyCurrent, Holds, vectors,
       tracking, embedders
  <2>3. CASE d = f
    <3>1. ~IsHeld(f)
      BY <1>1, <2>1, <2>3 DEF EditDocument, Save
    <3>2. \A e \in Embedders : ~Holds(e, d)'
      BY <1>1, <2>3, <3>1 DEF EditDocument, embedders, Holds, IsHeld
    <3>3. StampOK(d)'
      <4>1. content'[d] = content[d] + 1
        BY <1>1, <2>3, SMT DEF EditDocument, Save
      <4>2. UNCHANGED <<lastEmbedded, vecContent>>
        BY <1>1 DEF EditDocument, vectors, tracking
      <4> QED BY <2>1, <4>1, <4>2 DEF Absent
    <3>4. SnapshotOK(d)'
      BY <1>1, <2>1 DEF EditDocument, Save, vectors, tracking
    <3> QED BY <3>2, <3>3, <3>4
  <2> QED BY <2>2, <2>3
<1>2. ASSUME NEW f \in Docs, NEW t \in TagSets, BulkEditTags(f, t)
      PROVE  DocOK(d)'
  <2>1. d \notin raced
    BY <1>2 DEF BulkEditTags
  <2>2. CASE d # f
    BY <1>2, <2>1, <2>2 DEF BulkEditTags, CopyCurrent, Holds, vectors,
       tracking, embedders
  <2>3. CASE d = f
    <3>1. ~IsHeld(f)
      BY <1>2, <2>1, <2>3 DEF BulkEditTags
    <3>2. \A e \in Embedders : ~Holds(e, d)'
      BY <1>2, <2>3, <3>1 DEF BulkEditTags, embedders, Holds, IsHeld
    <3> QED BY <1>2, <2>1, <2>3, <3>2 DEF BulkEditTags, vectors, tracking
  <2> QED BY <2>2, <2>3
<1>3. ASSUME NEW f \in Docs, DeleteDocument(f)
      PROVE  DocOK(d)'
  <2>1. d \notin raced
    BY <1>3 DEF DeleteDocument
  <2>2. d = f => ~IsHeld(d)
    BY <1>3, <2>1 DEF DeleteDocument
  <2>3. \A e \in Embedders : Holds(e, d)' => Holds(e, d) /\ d \in live'
    BY <1>3, <2>1, <2>2 DEF DeleteDocument, embedders, Holds, IsHeld, CopyCurrent
  <2> QED BY <1>3, <2>1, <2>3 DEF DeleteDocument, CopyCurrent, Holds, vectors, tracking, embedders
<1>4. ASSUME NEW f \in Docs, LoseWebhook(f)
      PROVE  DocOK(d)'
  BY <1>4 DEF LoseWebhook, CopyCurrent, Holds, vectors, tracking, embedders, history
<1>5. ASSUME NEW f \in Docs, TrackDocument(f)
      PROVE  DocOK(d)'
  BY <1>5 DEF TrackDocument, CopyCurrent, Holds, paperless, vectors, embedders, history
<1> QED BY <1>1, <1>2, <1>3, <1>4, <1>5 DEF Environment

\* Requests start embedders without a copy, drop rows, vectors or copies; an
\* approval saves the document as well.
LEMMA RequestsInv ==
  ASSUME EmbedInv, Requests, NEW d \in Docs \ raced'
  PROVE  DocOK(d)'
<1> USE ConstantsAssumption
    DEF EmbedInv, DocOK, StampOK, SnapshotOK, CopiesOK, TypeOK, PaperlessOK,
        TrackingOK, VectorsOK, EmbeddersOK, Versions
<1>1. ASSUME NEW w \in Workers, NEW f \in Docs, ReceiveWebhook(w, f)
      PROVE  DocOK(d)'
  BY <1>1 DEF ReceiveWebhook, Begin, CopyCurrent, Holds, vectors, tracking,
     history, Embedders
<1>2. ASSUME NEW w \in Workers, NEW f \in Docs, NEW t \in TagSets, Approve(w, f, t)
      PROVE  DocOK(d)'
  <2>1. d \notin raced
    BY <1>2 DEF Approve, Save
  <2>2. CASE d # f
    BY <1>2, <2>1, <2>2 DEF Approve, Save, CopyCurrent, Holds, vectors, tracking, Embedders
  <2>3. CASE d = f
    <3>1. ~IsHeld(f)
      BY <1>2, <2>1, <2>3 DEF Approve, Save
    <3>2. \A e \in Embedders \ {w} : ~Holds(e, d)'
      BY <1>2, <2>3, <3>1 DEF Approve, Holds, IsHeld
    <3>3. CopyCurrent(w, d)'
      BY <1>2, <2>3 DEF Approve, Save, CopyCurrent, Embedders
    <3>4. StampOK(d)'
      <4>1. content'[d] = content[d] + 1
        BY <1>2, <2>3, SMT DEF Approve, Save
      <4>2. UNCHANGED <<lastEmbedded, vecContent>>
        BY <1>2 DEF Approve, vectors, tracking
      <4> QED BY <2>1, <4>1, <4>2 DEF Absent
    <3>5. SnapshotOK(d)'
      BY <1>2, <2>1 DEF Approve, Save, vectors, tracking
    <3> QED BY <3>2, <3>3, <3>4, <3>5
  <2> QED BY <2>2, <2>3
<1>3. ASSUME NEW w \in Workers, NEW ds \in SUBSET Docs, ReindexSince(w, ds)
      PROVE  DocOK(d)'
  BY <1>3 DEF ReindexSince, Begin, CopyCurrent, Holds, paperless, vectors,
     tracking, history, Embedders
<1>4. ASSUME NEW e \in Indexers, Reindex(e)
      PROVE  DocOK(d)'
  BY <1>4 DEF Reindex, Begin, CopyCurrent, Holds, paperless, tracking, history, Embedders
<1>5. ASSUME NEW e \in Refreshers, StartFlush(e)
      PROVE  DocOK(d)'
  BY <1>5 DEF StartFlush, Begin, CopyCurrent, Holds, paperless, vectors,
     tracking, history, Embedders, Flushers
<1>6. ASSUME NEW m \in Modes, ChangeMode(m)
      PROVE  DocOK(d)'
  BY <1>6 DEF ChangeMode, CopyCurrent, Holds, paperless, vectors, tracking,
     embedders, history
<1>7. CASE ResetTracking
  BY <1>7 DEF ResetTracking, CopyCurrent, Holds, paperless, vectors, embedders,
     history, Absent
<1>8. CASE Restart
  <2>1. \A e \in Embedders : ~Holds(e, d)'
    BY <1>8 DEF Restart, Holds
  <2>2. UNCHANGED <<content, tags, tracking, vectors, history>>
    BY <1>8 DEF Restart
  <2> QED BY <2>1, <2>2 DEF tracking, vectors, history
<1> QED BY <1>1, <1>2, <1>3, <1>4, <1>5, <1>6, <1>7, <1>8 DEF Requests

\* The steps of an embedder take current copies, write and record them.
LEMMA ProgressInv ==
  ASSUME EmbedInv, NEW x \in Embedders, Progress(x), NEW d \in Docs \ raced'
  PROVE  DocOK(d)'
<1> USE ConstantsAssumption
    DEF EmbedInv, DocOK, StampOK, SnapshotOK, CopiesOK, TypeOK, PaperlessOK,
        TrackingOK, VectorsOK, EmbeddersOK, Versions
<1>1. ASSUME NEW e \in Embedders, NEW f \in Docs, FetchDocument(e, f)
      PROVE  DocOK(d)'
  BY <1>1 DEF FetchDocument, Take, Leave, Copy, CopyCurrent, Holds, paperless,
     vectors, tracking, history
<1>2. ASSUME NEW e \in Embedders, NEW f \in Docs, FetchPage(e, f)
      PROVE  DocOK(d)'
  BY <1>2 DEF FetchPage, Take, Leave, Copy, CopyCurrent, Holds, paperless, vectors,
     tracking, history
<1>3. ASSUME NEW e \in Embedders, NEW f \in Docs, FlushText(e, f)
      PROVE  DocOK(d)'
  BY <1>3 DEF FlushText, Take, CopyCurrent, Holds, paperless, vectors, tracking, history
<1>4. ASSUME NEW e \in Embedders, FetchApprovedText(e)
      PROVE  DocOK(d)'
  BY <1>4 DEF FetchApprovedText, Fill, Leave, CopyCurrent, Holds, paperless,
     vectors, tracking, history
<1>5. ASSUME NEW e \in Embedders, CheckListed(e)
      PROVE  DocOK(d)'
  BY <1>5 DEF CheckListed, Go, Leave, CopyCurrent, Holds, paperless, vectors,
     tracking, history
<1>6. ASSUME NEW e \in Embedders, StartTagDrift(e)
      PROVE  DocOK(d)'
  BY <1>6 DEF StartTagDrift, CopyCurrent, Holds, vectors, tracking, history
<1>7. ASSUME NEW e \in Embedders, FlushMetadata(e)
      PROVE  DocOK(d)'
  BY <1>7 DEF FlushMetadata, Fill, Leave, CopyCurrent, Holds, paperless, vectors,
     tracking, history
<1>8. ASSUME NEW e \in Embedders, PurgeVectors(e)
      PROVE  DocOK(d)'
  BY <1>8 DEF PurgeVectors, Go, CopyCurrent, Holds, paperless, vectors, tracking, history
<1>9. ASSUME NEW e \in Embedders, PurgeRow(e)
      PROVE  DocOK(d)'
  BY <1>9 DEF PurgeRow, Leave, CopyCurrent, Holds, paperless, vectors, history, Absent
<1>10. ASSUME NEW e \in Embedders, MarkDirty(e)
      PROVE  DocOK(d)'
  BY <1>10 DEF MarkDirty, Leave, CopyCurrent, Holds, paperless, vectors, history
<1>11. ASSUME NEW e \in Embedders, StartUpsert(e)
      PROVE  DocOK(d)'
  BY <1>11 DEF StartUpsert, Go, CopyCurrent, Holds, paperless, vectors, tracking, history
<1>12. ASSUME NEW e \in Embedders, WriteVectors(e)
      PROVE  DocOK(d)'
  BY <1>12 DEF WriteVectors, Go, CopyCurrent, Holds, paperless, tracking
<1>13. ASSUME NEW e \in Embedders, ClearDirty(e)
      PROVE  DocOK(d)'
  BY <1>13 DEF ClearDirty, Go, CopyCurrent, Holds, paperless, vectors, history
<1>14. ASSUME NEW e \in Embedders, RecordEmbed(e)
      PROVE  DocOK(d)'
  <2>1. CASE d \notin raced
    BY <1>14, <2>1 DEF RecordEmbed, Leave, CopyCurrent, Holds, paperless, vectors
  <2>2. CASE d \in raced
    <3>1. d = cur[e] /\ Settles(e)
      BY <1>14, <2>2 DEF RecordEmbed
    <3>2. \A f \in Embedders : ~Holds(f, d)'
      BY <1>14, <3>1, ConstantsAssumption DEF RecordEmbed, Leave, Settles, Holds
    <3>3. /\ lastEmbedded'[d] = content[d] /\ vecContent'[d] = content[d]
          /\ lastTags'[d] = tags[d] /\ vecTags'[d] = tags[d] /\ content'[d] = content[d]
      BY <1>14, <3>1 DEF RecordEmbed, Settles, Copy, vectors, paperless
    <3> QED BY <3>2, <3>3
  <2> QED BY <2>1, <2>2
<1>15. ASSUME NEW e \in Embedders, Finish(e)
      PROVE  DocOK(d)'
  BY <1>15 DEF Finish, CopyCurrent, Holds, paperless, vectors, tracking, history
<1> QED BY <1>1, <1>2, <1>3, <1>4, <1>5, <1>6, <1>7, <1>8, <1>9, <1>10, <1>11, <1>12, <1>13, <1>14, <1>15
       DEF Progress

\* A failing call drops the copy, or keeps it for another attempt.
LEMMA FailingInv ==
  ASSUME EmbedInv, NEW x \in Embedders, Failing(x), NEW d \in Docs \ raced'
  PROVE  DocOK(d)'
<1> USE ConstantsAssumption
    DEF EmbedInv, DocOK, StampOK, SnapshotOK, CopiesOK, TypeOK, PaperlessOK,
        TrackingOK, VectorsOK, EmbeddersOK, Versions
<1>1. ASSUME NEW e \in Embedders, NEW f \in Docs, FetchDocumentFails(e, f)
      PROVE  DocOK(d)'
  BY <1>1 DEF FetchDocumentFails, Leave, CopyCurrent, Holds, paperless, vectors,
     tracking, history
<1>2. ASSUME NEW e \in Embedders, NEW f \in Docs, FlushTextFails(e, f)
      PROVE  DocOK(d)'
  BY <1>2 DEF FlushTextFails, Leave, CopyCurrent, Holds, paperless, vectors,
     tracking, history
<1>3. ASSUME NEW e \in Embedders, FetchPageFails(e)
      PROVE  DocOK(d)'
  BY <1>3 DEF FetchPageFails, Leave, CopyCurrent, Holds, paperless, vectors,
     tracking, history
<1>4. ASSUME NEW e \in Embedders, DriftRunFails(e)
      PROVE  DocOK(d)'
  BY <1>4 DEF DriftRunFails, CopyCurrent, Holds, paperless, vectors, tracking, history
<1>5. ASSUME NEW e \in Embedders, EmbedFails(e)
      PROVE  DocOK(d)'
  BY <1>5 DEF EmbedFails, Leave, CopyCurrent, Holds, paperless, vectors,
     tracking, history
<1>6. ASSUME NEW e \in Embedders, RecordEmbedFails(e)
      PROVE  DocOK(d)'
  BY <1>6 DEF RecordEmbedFails, Leave, CopyCurrent, Holds, paperless, vectors,
     tracking, history
<1> QED BY <1>1, <1>2, <1>3, <1>4, <1>5, <1>6
       DEF Failing

-----------------------------------------------------------------------------
LEMMA EmbedInit == Init => EmbedInv
<1> SUFFICES ASSUME Init PROVE EmbedInv
  OBVIOUS
<1>1. TypeOK
  BY InitType
<1>2. PICK indexed \in SUBSET Docs :
        /\ lastEmbedded = [d \in Docs |-> IF d \in indexed THEN 0 ELSE Absent]
        /\ lastTags = [d \in Docs |-> IF d \in indexed THEN tags[d] ELSE NoTags]
        /\ vecContent = lastEmbedded
        /\ vecTags = lastTags
  BY Zenon DEF Init
<1>3. content = [d \in Docs |-> 0] /\ cur = [e \in Embedders |-> NoDoc]
  BY Zenon DEF Init
<1>4. ASSUME NEW d \in Docs PROVE DocOK(d)
  BY <1>2, <1>3, ConstantsAssumption
     DEF DocOK, StampOK, SnapshotOK, CopiesOK, Holds, Absent
<1> QED BY <1>1, <1>4 DEF EmbedInv

LEMMA EmbedNext == EmbedInv /\ [Next]_vars => EmbedInv'
<1> SUFFICES ASSUME EmbedInv, [Next]_vars PROVE EmbedInv'
  OBVIOUS
<1>1. TypeOK'
  BY NextType DEF EmbedInv
<1>2. ASSUME NEW d \in Docs \ raced' PROVE DocOK(d)'
  <2>1. CASE Environment
    BY <2>1, EnvironmentInv
  <2>2. CASE Requests
    BY <2>2, RequestsInv
  <2>3. ASSUME NEW e \in DriftLoops, StartContentDrift(e)
        PROVE  DocOK(d)'
    BY <2>3 DEF StartContentDrift, Begin, EmbedInv, TypeOK, EmbeddersOK, DocOK,
       StampOK, SnapshotOK, CopiesOK, CopyCurrent, Holds, vectors, tracking,
       history, Embedders
  <2>4. ASSUME NEW e \in DailyLoops, StartFlush(e)
        PROVE  DocOK(d)'
    BY <2>4 DEF StartFlush, Begin, EmbedInv, TypeOK, EmbeddersOK, DocOK,
       StampOK, SnapshotOK, CopiesOK, CopyCurrent, Holds, paperless, vectors,
       tracking, history, Embedders, Flushers
  <2>5. ASSUME NEW e \in Embedders, Progress(e) \/ Failing(e)
        PROVE  DocOK(d)'
    BY <2>5, ProgressInv, FailingInv
  <2>6. CASE UNCHANGED vars
    BY <2>6 DEF vars, EmbedInv, DocOK, StampOK, SnapshotOK, CopiesOK,
       CopyCurrent, Holds, paperless, vectors, tracking, embedders, history
  <2> QED BY <2>1, <2>2, <2>3, <2>4, <2>5, <2>6 DEF Next
<1> QED BY <1>1, <1>2 DEF EmbedInv

\* The inductive invariant holds in every reachable state.
THEOREM EmbedInvariant == Spec => []EmbedInv
  BY EmbedInit, EmbedNext, PTL DEF Spec

\* The stamp of a document with vectors does not hide an edit that they miss,
\* whatever the tasks, failures, modes and restarts, so that the content-drift
\* comparison sees it; except after an edit that fell between a fetch and its
\* stamp, until an embed that nobody overlaps.  Of a stamp without vectors it
\* says nothing.
THEOREM HonestStampHolds == Spec => []HonestStamp
<1>1. EmbedInv => HonestStamp
  BY DEF EmbedInv, DocOK, StampOK, HonestStamp
<1> QED BY <1>1, EmbedInvariant, PTL

\* The snapshot of a document is the tags its vectors were computed with, with
\* that exception, and unless its last embed recorded none: the tag-drift comparison sees every
\* tag change they miss.
THEOREM TagSnapshotHolds == Spec => []TagSnapshotFaithful
<1>1. EmbedInv => TagSnapshotFaithful
  BY DEF EmbedInv, DocOK, SnapshotOK, TagSnapshotFaithful
<1> QED BY <1>1, EmbedInvariant, PTL

-----------------------------------------------------------------------------
\* Whoever is to write the vectors of a document holds a copy of it; all others
\* write nothing, or delete.
LEMMA VectorWriters ==
  ASSUME EmbedInv, [Next]_vars, NEW d \in Docs
  PROVE  \/ vecContent'[d] \in {Absent, vecContent[d]}
         \/ \E e \in Embedders : Holds(e, d)
<1> USE DEF EmbedInv, TypeOK, VectorsOK, EmbeddersOK
<1>1. ASSUME NEW e \in Embedders, WriteVectors(e)
      PROVE  vecContent'[d] = vecContent[d] \/ Holds(e, d)
  BY <1>1 DEF WriteVectors, Holds
<1>2. ASSUME NEW e \in Embedders, PurgeVectors(e) \/ StartUpsert(e)
      PROVE  vecContent'[d] \in {Absent, vecContent[d]}
  BY <1>2 DEF PurgeVectors, StartUpsert, vectors
<1>3. ASSUME NEW e \in Embedders, Progress(e), ~WriteVectors(e), ~PurgeVectors(e), ~StartUpsert(e)
      PROVE  UNCHANGED vecContent
  BY <1>3 DEF Progress, FetchDocument, FetchPage, FlushText, FetchApprovedText, CheckListed,
     StartTagDrift, FlushMetadata, PurgeRow, MarkDirty, ClearDirty, RecordEmbed, Finish, vectors
<1>4. ASSUME NEW e \in Embedders, Failing(e)  PROVE UNCHANGED vecContent
  BY <1>4 DEF Failing, FetchDocumentFails, FlushTextFails, FetchPageFails, DriftRunFails,
     EmbedFails, RecordEmbedFails, vectors
<1>5. Environment => UNCHANGED vecContent
  BY DEF Environment, EditDocument, BulkEditTags, DeleteDocument, LoseWebhook, TrackDocument,
     vectors
<1>6. ASSUME Requests  PROVE vecContent'[d] \in {Absent, vecContent[d]}
  <2>1. ASSUME NEW e \in Indexers, Reindex(e)  PROVE vecContent'[d] = Absent
    BY <2>1 DEF Reindex
  <2>2. CASE ~\E e \in Indexers : Reindex(e)
    BY <1>6, <2>2 DEF Requests, ReceiveWebhook, Approve, ReindexSince, StartFlush, ChangeMode,
       ResetTracking, Restart, vectors
  <2> QED BY <2>1, <2>2
<1>7. (\E e \in DriftLoops : StartContentDrift(e)) \/ (\E e \in DailyLoops : StartFlush(e))
        \/ UNCHANGED vars => UNCHANGED vecContent
  BY DEF StartContentDrift, StartFlush, vars, vectors
<1> QED BY <1>1, <1>2, <1>3, <1>4, <1>5, <1>6, <1>7 DEF Next

\* Once the vectors of a document that Paperless has deleted are gone they stay
\* away, whatever embedders were under way: the flush that meets the 404, the
\* index, and every retry (_purge_deleted_document, main.py:793-815).
THEOREM DeletedStaysGoneHolds == Spec => DeletedStaysGone
<1>1. ASSUME EmbedInv, [Next]_vars, NEW d \in Docs \ raced, d \notin live,
             vecContent[d] = Absent
      PROVE  vecContent'[d] = Absent
  <2>1. \A e \in Embedders : ~Holds(e, d)
    BY <1>1 DEF EmbedInv, DocOK, CopiesOK, CopyCurrent
  <2> QED BY <1>1, <2>1, VectorWriters
<1>2. EmbedInv /\ [Next]_vars =>
        [\A d \in Docs \ raced :
           d \notin live /\ vecContent[d] = Absent => vecContent'[d] = Absent]_vars
  BY <1>1
<1> QED BY <1>2, EmbedInvariant, PTL DEF Spec, DeletedStaysGone
=============================================================================
