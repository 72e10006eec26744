--------------------------- MODULE EmbedFreshness ---------------------------
(***************************************************************************)
(* How Paperless IQ keeps the vectors of a document up to date with the    *)
(* document in Paperless NGX (backend/main.py, docs/DECISIONS.md D-22).    *)
(*                                                                         *)
(* Asyncio tasks and loops ("embedders") each take a copy of a document,   *)
(* wait, and write vectors computed from that copy: webhook and            *)
(* reindex-since tasks, the task started by an approval, the content- and  *)
(* tag-drift loop, the flush of deferred re-embeds, and the background     *)
(* index.  Every await is a step boundary; nothing locks a document.       *)
(*                                                                         *)
(* A document's content is the number of content edits it has had, which   *)
(* also orders its `modified` stamp.  A `last_embedded_at` stamp is only   *)
(* ever compared with the `modified` of the same document, so a stamp is   *)
(* the number of edits that precede it.  A listing page holds one document.*)
(***************************************************************************)
EXTENDS Integers, FiniteSets

CONSTANTS
  Docs,         \* documents of Paperless
  TagSets,      \* values the tags of a document can have
  InboxTags,    \* those of them that contain the inbox tag
  NoTags,       \* no tags known: no vector, or no snapshot
  NoDoc,        \* the document of an embedder that is between documents
  Workers,      \* tasks: one webhook, reindex-since batch or approval each
  DriftLoops,   \* the content-drift loop (at most one is started)
  DailyLoops,   \* the daily flush loop
  Refreshers,   \* the flush task of POST /api/embeddings/refresh
  Indexers,     \* background index tasks
  Modes,        \* embed_refresh_mode values the settings may switch between
  DeleteFirst,  \* TRUE: Chroma's upsert deletes the chunks before embedding
  Failures,     \* which calls may fail: a subset of {"embed", "fetch", "stamp"}
  MaxActive,    \* bound: embedders at work at a time
  MaxEdits,     \* bound: content edits per document
  MaxBulkEdits, \* bound: bulk tag edits in all
  MaxHooks,     \* bound: webhooks of one document in flight
  MaxResets,    \* bound: tracking resets, reindexes and mode switches
  MaxRestarts   \* bound: restarts of the application

Flushers  == DailyLoops \cup Refreshers
Embedders == Workers \cup DriftLoops \cup Flushers \cup Indexers

Versions == 0..MaxEdits
Absent   == -1             \* no vector / no last_embedded_at: older than any

Kinds == {"none", "webhook", "since", "approval",
          "drift", "tagdrift", "flush", "index"}
Phases == {"idle", "next", "text", "listed", "held", "embedding",
           "written", "cleared", "purge", "purged"}
Blank  == [content |-> Absent, tags |-> NoTags]
Copies == [content : Versions \cup {Absent}, tags : TagSets \cup {NoTags}]

ASSUME ConstantsAssumption ==
  /\ MaxEdits \in Nat /\ MaxBulkEdits \in Nat /\ MaxHooks \in Nat
  /\ MaxResets \in Nat /\ MaxRestarts \in Nat /\ MaxActive \in Nat
  /\ DeleteFirst \in BOOLEAN
  /\ Modes \subseteq {"immediate", "daily", "manual"} /\ Modes # {}
  /\ Failures \subseteq {"embed", "fetch", "stamp"}
  /\ InboxTags \subseteq TagSets /\ NoTags \notin TagSets /\ NoDoc \notin Docs

\* The tasks and loops are distinct processes.
ASSUME EmbeddersAssumption ==
  /\ Workers \cap (DriftLoops \cup Flushers \cup Indexers) = {}
  /\ DriftLoops \cap (Flushers \cup Indexers) = {}
  /\ Flushers \cap Indexers = {} /\ DailyLoops \cap Refreshers = {}

VARIABLES
  \* Paperless NGX
  live,          \* documents that exist
  content,       \* content edits a document has had (orders `modified`)
  tags,          \* its current tags
  hooks,         \* its document_updated webhooks not delivered yet
  window,        \* "in"/"aging": its `modified` is recent enough for the next
                 \* content-drift listing ("aging": since before this run)
  \* the document_tracking table
  tracked,       \* documents with a row
  dirty,         \* rows with reembed_dirty_since set
  lastEmbedded,  \* last_embedded_at
  lastTags,      \* last_tag_ids_json
  \* the vector store
  vecContent, vecTags,
  \* the settings
  mode,          \* embed_refresh_mode
  \* the embedders
  pc, kind, cur, copy, tries, todo,
  \* bounds
  bulkEdits, resets, restarts,
  \* history, read by no action
  raced,         \* documents changed in Paperless while a copy was held, and
                 \* not put right since by an embed that nobody overlapped
  unstamped      \* documents whose vectors were written and whose tag
                 \* snapshot has not been recorded since

paperless == <<live, content, tags, hooks, window>>
tracking  == <<tracked, dirty, lastEmbedded, lastTags>>
vectors   == <<vecContent, vecTags>>
embedders == <<pc, kind, cur, copy, tries, todo>>
bounds    == <<bulkEdits, resets, restarts>>
history   == <<raced, unstamped>>
vars == <<paperless, tracking, vectors, mode, embedders, bounds, history>>

-----------------------------------------------------------------------------
\* Embedder e holds a copy of document d.
Holds(e, d) ==
  cur[e] = d /\ pc[e] \in {"text", "listed", "held", "embedding", "written", "cleared"}
IsHeld(d) == \E e \in Embedders : Holds(e, d)

\* Fewer than MaxActive embedders are at work.
Room == Cardinality({e \in Embedders : pc[e] # "idle"}) < MaxActive

\* Embedder e, idle so far, starts to work through the documents in ds.
Begin(e, k, ds) ==
  /\ pc[e] = "idle" /\ Room
  /\ pc'   = [pc EXCEPT ![e] = "next"]
  /\ kind' = [kind EXCEPT ![e] = k]
  /\ todo' = [todo EXCEPT ![e] = ds]
  /\ UNCHANGED <<cur, copy, tries>>

\* Embedder e takes document d of its list, in phase p, with copy c of it.
Take(e, d, p, c) ==
  /\ pc[e] = "next" /\ d \in todo[e]
  /\ pc'   = [pc EXCEPT ![e] = p]
  /\ cur'  = [cur EXCEPT ![e] = d]
  /\ copy' = [copy EXCEPT ![e] = c]
  /\ todo' = [todo EXCEPT ![e] = @ \ {d}]
  /\ UNCHANGED <<kind, tries>>

\* Embedder e goes over to phase p with the document it has.
Go(e, p) == pc' = [pc EXCEPT ![e] = p] /\ UNCHANGED <<kind, cur, copy, tries, todo>>

\* Embedder e completes its copy of the document, which is c now.
Fill(e, c) ==
  /\ pc' = [pc EXCEPT ![e] = "held"]
  /\ copy' = [copy EXCEPT ![e] = c]
  /\ UNCHANGED <<kind, cur, tries, todo>>

\* Embedder e is done with its document and keeps the list ds.
Leave(e, ds) ==
  /\ pc'    = [pc EXCEPT ![e] = "next"]
  /\ cur'   = [cur EXCEPT ![e] = NoDoc]
  /\ copy'  = [copy EXCEPT ![e] = Blank]
  /\ tries' = [tries EXCEPT ![e] = 0]
  /\ todo'  = [todo EXCEPT ![e] = ds]
  /\ UNCHANGED kind

Copy(d) == [content |-> content[d], tags |-> tags[d]]

Init ==
  /\ live = Docs
  /\ content = [d \in Docs |-> 0]
  /\ tags \in [Docs -> TagSets]
  /\ hooks = [d \in Docs |-> 0]
  /\ window = [d \in Docs |-> "out"]
  /\ \E indexed \in SUBSET Docs :
       \* documents a background index has embedded and recorded
       /\ tracked = indexed
       /\ lastEmbedded = [d \in Docs |-> IF d \in indexed THEN 0 ELSE Absent]
       /\ lastTags = [d \in Docs |-> IF d \in indexed THEN tags[d] ELSE NoTags]
       /\ vecContent = lastEmbedded
       /\ vecTags = lastTags
  /\ dirty = {}
  /\ mode \in Modes
  /\ pc = [e \in Embedders |-> IF e \in Indexers THEN "next" ELSE "idle"]
  /\ kind = [e \in Embedders |-> IF e \in Indexers THEN "index" ELSE "none"]
  /\ todo = [e \in Embedders |->
               IF e \in Indexers THEN {d \in Docs : vecContent[d] = Absent} ELSE {}]
  /\ cur = [e \in Embedders |-> NoDoc]
  /\ copy = [e \in Embedders |-> Blank]
  /\ tries = [e \in Embedders |-> 0]
  /\ bulkEdits = 0 /\ resets = 0 /\ restarts = 0
  /\ raced = {} /\ unstamped = {}

-----------------------------------------------------------------------------
(* Paperless NGX and its users: external.                                  *)

\* What a save of document d through the single-document path does: new
\* content, a newer `modified`, a document_updated webhook.
Save(d, t) ==
  /\ d \in live /\ content[d] < MaxEdits /\ hooks[d] < MaxHooks
  /\ content' = [content EXCEPT ![d] = @ + 1]
  /\ tags' = [tags EXCEPT ![d] = t]
  /\ hooks' = [hooks EXCEPT ![d] = @ + 1]
  /\ window' = [window EXCEPT ![d] = "in"]
  /\ raced' = IF IsHeld(d) THEN raced \cup {d} ELSE raced
  /\ UNCHANGED <<live, unstamped>>

EditDocument(d, t) ==
  Save(d, t) /\ UNCHANGED <<tracking, vectors, mode, embedders, bounds>>

\* Bulk tag edits neither bump `modified` nor fire the webhook.
BulkEditTags(d, t) ==
  /\ d \in live /\ t # tags[d] /\ bulkEdits < MaxBulkEdits
  /\ tags' = [tags EXCEPT ![d] = t]
  /\ bulkEdits' = bulkEdits + 1
  /\ raced' = IF IsHeld(d) THEN raced \cup {d} ELSE raced
  /\ UNCHANGED <<live, content, hooks, window, tracking, vectors, mode,
                 embedders, resets, restarts, unstamped>>

\* A document is deleted: no webhook tells Paperless IQ.
DeleteDocument(d) ==
  /\ d \in live
  /\ live' = live \ {d}
  /\ raced' = IF IsHeld(d) THEN raced \cup {d} ELSE raced
  /\ UNCHANGED <<content, tags, hooks, window, tracking, vectors, mode,
                 embedders, bounds, unstamped>>

\* A webhook does not reach the application, or its secret does not match.
LoseWebhook(d) ==
  /\ hooks[d] > 0
  /\ hooks' = [hooks EXCEPT ![d] = @ - 1]
  /\ UNCHANGED <<live, content, tags, window, tracking, vectors, mode,
                 embedders, bounds, history>>

-----------------------------------------------------------------------------
(* Tasks: webhook, reindex-since, approval.                                *)

\* POST /api/webhook/paperless: a task re-indexes the document.
ReceiveWebhook(w, d) ==
  /\ hooks[d] > 0
  /\ hooks' = [hooks EXCEPT ![d] = @ - 1]
  /\ Begin(w, "webhook", {d})
  /\ UNCHANGED <<live, content, tags, window, tracking, vectors, mode, bounds, history>>

\* POST /api/reindex/since: a task re-indexes the listed documents in turn.
ReindexSince(w, ds) ==
  /\ ds # {} /\ ds \subseteq live
  /\ Begin(w, "since", ds)
  /\ UNCHANGED <<paperless, tracking, vectors, mode, bounds, history>>

\* POST /api/queue/{id}/approve: the PATCH saves the document with the
\* suggestion's tags t, then a task embeds the document with those tags.
Approve(w, d, t) ==
  /\ Save(d, t)
  /\ pc[w] = "idle" /\ Room
  /\ pc'   = [pc EXCEPT ![w] = "text"]
  /\ kind' = [kind EXCEPT ![w] = "approval"]
  /\ cur'  = [cur EXCEPT ![w] = d]
  /\ copy' = [copy EXCEPT ![w] = [content |-> Absent, tags |-> t]]
  /\ UNCHANGED <<tries, todo, tracking, vectors, mode, bounds>>

\* _reindex_document: one GET returns content and tags; 404 ends the document.
FetchDocument(w, d) ==
  /\ kind[w] \in {"webhook", "since"}
  /\ IF d \in live THEN Take(w, d, "held", Copy(d))
                   ELSE pc[w] = "next" /\ d \in todo[w] /\ Leave(w, todo[w] \ {d})
  /\ UNCHANGED <<paperless, tracking, vectors, mode, bounds, history>>

\* _reindex_document: a transport error ends the task, and with it the rest
\* of a reindex-since batch; any other failed GET ends this document only.
FetchDocumentFails(w, d) ==
  /\ "fetch" \in Failures /\ kind[w] \in {"webhook", "since"}
  /\ pc[w] = "next" /\ d \in todo[w]
  /\ \E rest \in {{}, todo[w] \ {d}} : Leave(w, rest)
  /\ UNCHANGED <<paperless, tracking, vectors, mode, bounds, history>>

\* Mutant of FetchApprovedText: the text is the one from before the PATCH.
FetchTextBeforePatch(w) ==
  /\ kind[w] = "approval" /\ pc[w] = "text" /\ cur[w] \in live
  /\ Fill(w, [content |-> content[cur[w]] - 1, tags |-> copy[w].tags])
  /\ UNCHANGED <<paperless, tracking, vectors, mode, bounds, history>>

\* _index_bg of the approve route: the OCR text is fetched, the metadata is
\* the suggestion's.  Any exception ends the task.
FetchApprovedText(w) ==
  /\ kind[w] = "approval" /\ pc[w] = "text"
  /\ \/ /\ cur[w] \in live
        /\ Fill(w, [content |-> content[cur[w]], tags |-> copy[w].tags])
     \/ /\ cur[w] \notin live \/ "fetch" \in Failures
        /\ Leave(w, {})
  /\ UNCHANGED <<paperless, tracking, vectors, mode, bounds, history>>

-----------------------------------------------------------------------------
(* The drift loop: the content scan, then the tag scan.                    *)

Listed == {d \in live : window[d] # "out"}

\* _run_content_drift_reindex: list the recently modified documents.
StartContentDrift(e) ==
  /\ Begin(e, "drift", Listed)
  /\ window' = [d \in Docs |-> IF d \in Listed THEN "aging" ELSE window[d]]
  /\ UNCHANGED <<live, content, tags, hooks, tracking, vectors, mode, bounds, history>>

\* Fetch the next page of either scan; a deleted document is not on it.
FetchPage(e, d) ==
  /\ kind[e] \in {"drift", "tagdrift", "index"}
  /\ IF d \in live THEN Take(e, d, "listed", Copy(d))
                   ELSE pc[e] = "next" /\ d \in todo[e] /\ Leave(e, todo[e] \ {d})
  /\ UNCHANGED <<paperless, tracking, vectors, mode, bounds, history>>

\* A page comes back with an HTTP error: the scan stops as if it were complete.
FetchPageFails(e) ==
  /\ "fetch" \in Failures /\ kind[e] \in {"drift", "tagdrift", "index"}
  /\ pc[e] = "next" /\ todo[e] # {}
  /\ Leave(e, {})
  /\ UNCHANGED <<paperless, tracking, vectors, mode, bounds, history>>

\* A page is not answered at all: the exception ends the run, the tag scan
\* with it, and the loop tries again in an hour.
DriftRunFails(e) ==
  /\ "fetch" \in Failures /\ kind[e] \in {"drift", "tagdrift"}
  /\ pc[e] = "next" /\ todo[e] # {}
  /\ pc' = [pc EXCEPT ![e] = "idle"] /\ kind' = [kind EXCEPT ![e] = "none"]
  /\ todo' = [todo EXCEPT ![e] = {}]
  /\ UNCHANGED <<cur, copy, tries, paperless, tracking, vectors, mode, bounds, history>>

\* Has the listed document changed since its last embed?
ContentDrifted(e) == lastEmbedded[cur[e]] < copy[e].content
TagsDrifted(e) == lastTags[cur[e]] \notin {NoTags, copy[e].tags}

\* Mutant of CheckListed: a document that has vectors by now is not embedded
\* again, but recorded as if it had been.
CheckListedSkipsIndexed(e) ==
  /\ pc[e] = "listed"
  /\ Go(e, IF vecContent[cur[e]] # Absent THEN "written" ELSE "held")
  /\ UNCHANGED <<paperless, tracking, vectors, mode, bounds, history>>

\* The comparison of either drift scan, and the inbox test of the index.
CheckListed(e) ==
  /\ pc[e] = "listed"
  /\ IF \/ kind[e] = "drift" /\ ContentDrifted(e)
        \/ kind[e] = "tagdrift" /\ TagsDrifted(e)
        \/ kind[e] = "index" /\ copy[e].tags \notin InboxTags
       THEN Go(e, "held") ELSE Leave(e, todo[e])
  /\ UNCHANGED <<paperless, tracking, vectors, mode, bounds, history>>

\* Mutant of StartTagDrift: the next listing starts where this run ended.
StartTagDriftNoOverlap(e) ==
  /\ kind[e] = "drift" /\ pc[e] = "next" /\ todo[e] = {}
  /\ kind' = [kind EXCEPT ![e] = "tagdrift"]
  /\ todo' = [todo EXCEPT ![e] = live]
  /\ window' = [d \in Docs |-> "out"]
  /\ UNCHANGED <<pc, cur, copy, tries, live, content, tags, hooks, tracking,
                 vectors, mode, bounds, history>>

\* The content scan is over and the tag scan starts, on every document.  The
\* next listing reaches back a day before this run: a document modified before
\* it started may be on it or not.
StartTagDrift(e) ==
  /\ kind[e] = "drift" /\ pc[e] = "next" /\ todo[e] = {}
  /\ kind' = [kind EXCEPT ![e] = "tagdrift"]
  /\ todo' = [todo EXCEPT ![e] = live]
  /\ \E gone \in SUBSET {d \in Docs : window[d] = "aging"} :
       window' = [d \in Docs |-> IF d \in gone THEN "out"
                                 ELSE IF window[d] = "aging" THEN "in" ELSE window[d]]
  /\ UNCHANGED <<pc, cur, copy, tries, live, content, tags, hooks,
                 tracking, vectors, mode, bounds, history>>

-----------------------------------------------------------------------------
(* The flush of deferred re-embeds.                                        *)

\* _flush_dirty_reembeds, from the daily loop or the refresh route.
StartFlush(e) ==
  /\ e \in DailyLoops => mode = "daily"
  /\ dirty # {}
  /\ Begin(e, "flush", dirty)
  /\ UNCHANGED <<paperless, tracking, vectors, mode, bounds, history>>

\* Mutant of FlushText: a 404 is not told apart from an answer.
FlushTextIgnoring404(e, d) ==
  /\ kind[e] = "flush" /\ Take(e, d, IF d \in live THEN "text" ELSE "held", Copy(d))
  /\ UNCHANGED <<paperless, tracking, vectors, mode, bounds, history>>

\* The OCR text comes first; a 404 means that the document was deleted.
FlushText(e, d) ==
  /\ kind[e] = "flush"
  /\ IF d \in live THEN Take(e, d, "text", [content |-> content[d], tags |-> NoTags])
                   ELSE Take(e, d, "purge", Blank)
  /\ UNCHANGED <<paperless, tracking, vectors, mode, bounds, history>>

\* Any other failure, or an empty text: the document stays dirty.
FlushTextFails(e, d) ==
  /\ "fetch" \in Failures /\ kind[e] = "flush"
  /\ pc[e] = "next" /\ d \in todo[e]
  /\ Leave(e, todo[e] \ {d})
  /\ UNCHANGED <<paperless, tracking, vectors, mode, bounds, history>>

\* The metadata is a second request; whatever fails here, the document stays
\* dirty, a 404 included.
FlushMetadata(e) ==
  /\ kind[e] = "flush" /\ pc[e] = "text"
  /\ \/ /\ cur[e] \in live
        /\ Fill(e, [content |-> copy[e].content, tags |-> tags[cur[e]]])
     \/ /\ cur[e] \notin live \/ "fetch" \in Failures
        /\ Leave(e, todo[e])
  /\ UNCHANGED <<paperless, tracking, vectors, mode, bounds, history>>

\* _purge_deleted_document: the vectors (a failure is swallowed), ...
PurgeVectors(e) ==
  /\ pc[e] = "purge"
  /\ Go(e, "purged")
  /\ \/ /\ vecContent' = [vecContent EXCEPT ![cur[e]] = Absent]
        /\ vecTags' = [vecTags EXCEPT ![cur[e]] = NoTags]
     \/ "embed" \in Failures /\ UNCHANGED vectors
  /\ UNCHANGED <<paperless, tracking, mode, bounds, history>>

\* ... then the tracking row.
PurgeRow(e) ==
  /\ pc[e] = "purged"
  /\ LET d == cur[e] IN
       /\ tracked' = tracked \ {d}
       /\ dirty' = dirty \ {d}
       /\ lastEmbedded' = [lastEmbedded EXCEPT ![d] = Absent]
       /\ lastTags' = [lastTags EXCEPT ![d] = NoTags]
  /\ Leave(e, todo[e])
  /\ UNCHANGED <<paperless, vectors, mode, bounds, history>>

\* Mutant of ClearDirty: the mark is left in place.
ClearDirtyForgotten(e) ==
  /\ kind[e] = "flush" /\ pc[e] = "written"
  /\ Go(e, "cleared")
  /\ UNCHANGED <<paperless, tracking, vectors, mode, bounds, history>>

\* After the upsert a flush clears reembed_dirty_since, whatever set it.
ClearDirty(e) ==
  /\ kind[e] = "flush" /\ pc[e] = "written"
  /\ dirty' = dirty \ {cur[e]}
  /\ Go(e, "cleared")
  /\ UNCHANGED <<paperless, tracked, lastEmbedded, lastTags, vectors, mode, bounds, history>>

-----------------------------------------------------------------------------
(* schedule_reembed, the upsert, and its bookkeeping.                      *)

\* The flush and the index upsert whatever the mode is.
Direct(e) == kind[e] \in {"flush", "index"} \/ mode = "immediate"

\* Mutant of MarkDirty: a deferred re-embed is stamped as if it had been carried out.
MarkDirtyAndStamp(e) ==
  /\ pc[e] = "held" /\ ~Direct(e) /\ cur[e] \in tracked
  /\ dirty' = dirty \cup {cur[e]}
  /\ lastEmbedded' = [lastEmbedded EXCEPT ![cur[e]] = content[cur[e]]]
  /\ Leave(e, todo[e])
  /\ UNCHANGED <<paperless, tracked, lastTags, vectors, mode, bounds, history>>

\* schedule_reembed, deferred: a document without a row is dropped.
MarkDirty(e) ==
  /\ pc[e] = "held" /\ ~Direct(e)
  /\ dirty' = IF cur[e] \in tracked THEN dirty \cup {cur[e]} ELSE dirty
  /\ Leave(e, todo[e])
  /\ UNCHANGED <<paperless, tracked, lastEmbedded, lastTags, vectors, mode, bounds, history>>

\* vs.upsert: Chroma deletes the old chunks before it embeds the new ones.
StartUpsert(e) ==
  /\ pc[e] = "held" /\ Direct(e)
  /\ Go(e, "embedding")
  /\ IF DeleteFirst
       THEN /\ vecContent' = [vecContent EXCEPT ![cur[e]] = Absent]
            /\ vecTags' = [vecTags EXCEPT ![cur[e]] = NoTags]
       ELSE UNCHANGED vectors
  /\ UNCHANGED <<paperless, tracking, mode, bounds, history>>

\* The chunks are embedded and stored.
WriteVectors(e) ==
  /\ pc[e] = "embedding"
  /\ vecContent' = [vecContent EXCEPT ![cur[e]] = copy[e].content]
  /\ vecTags' = [vecTags EXCEPT ![cur[e]] = copy[e].tags]
  /\ unstamped' = unstamped \cup {cur[e]}
  /\ Go(e, "written")
  /\ UNCHANGED <<paperless, tracking, mode, bounds, raced>>

\* No chunk could be embedded.  Webhook, reindex-since and index make three
\* attempts with the same copy; the others, and the third attempt, give up.
EmbedFails(e) ==
  /\ "embed" \in Failures /\ pc[e] = "embedding"
  /\ IF kind[e] \in {"webhook", "since", "index"} /\ tries[e] < 2
       THEN /\ pc' = [pc EXCEPT ![e] = "held"]
            /\ tries' = [tries EXCEPT ![e] = @ + 1]
            /\ UNCHANGED <<kind, cur, copy, todo>>
       ELSE Leave(e, todo[e])
  /\ UNCHANGED <<paperless, tracking, vectors, mode, bounds, history>>

\* The embed that e records has put its document right, and nobody else holds
\* a copy of it: a race over that document is over.
Settles(e) ==
  LET d == cur[e] IN
    /\ kind[e] # "approval" /\ d \in live /\ copy[e] = Copy(d)
    /\ vecContent[d] = content[d] /\ vecTags[d] = tags[d]
    /\ \A f \in Embedders \ {e} : ~Holds(f, d)

\* _record_document_embed stamps the time of the stamp, not of the copy, and
\* the tags of the copy if the caller passes them: an approval does not.
RecordEmbed(e) ==
  /\ pc[e] = IF kind[e] = "flush" THEN "cleared" ELSE "written"
  /\ LET d == cur[e] IN
       /\ tracked' = tracked \cup {d}
       /\ lastEmbedded' = [lastEmbedded EXCEPT ![d] = content[d]]
       /\ IF kind[e] = "approval"
            THEN UNCHANGED <<lastTags, unstamped>>
            ELSE /\ lastTags' = [lastTags EXCEPT ![d] = copy[e].tags]
                 /\ unstamped' = unstamped \ {d}
       /\ raced' = IF Settles(e) THEN raced \ {d} ELSE raced
  /\ Leave(e, todo[e])
  /\ UNCHANGED <<paperless, dirty, vectors, mode, bounds>>

\* Its exceptions are swallowed.
RecordEmbedFails(e) ==
  /\ "stamp" \in Failures
  /\ pc[e] = IF kind[e] = "flush" THEN "cleared" ELSE "written"
  /\ Leave(e, todo[e])
  /\ UNCHANGED <<paperless, tracking, vectors, mode, bounds, history>>

\* A task, a scan or a flush is through with its list.
Finish(e) ==
  /\ pc[e] = "next" /\ todo[e] = {} /\ kind[e] # "drift"
  /\ pc' = [pc EXCEPT ![e] = "idle"]
  /\ kind' = [kind EXCEPT ![e] = "none"]
  /\ UNCHANGED <<cur, copy, tries, todo, paperless, tracking, vectors, mode, bounds, history>>

-----------------------------------------------------------------------------
(* Other routes and the lifespan.                                          *)

\* The inbox monitor or scheduler sees a document first: a row without stamps.
TrackDocument(d) ==
  /\ d \in live \ tracked
  /\ tracked' = tracked \cup {d}
  /\ UNCHANGED <<dirty, lastEmbedded, lastTags, paperless, vectors, mode,
                 embedders, bounds, history>>

\* POST /api/tracking/reset deletes every row.
ResetTracking ==
  /\ resets < MaxResets /\ resets' = resets + 1
  /\ tracked' = {} /\ dirty' = {}
  /\ lastEmbedded' = [d \in Docs |-> Absent]
  /\ lastTags' = [d \in Docs |-> NoTags]
  /\ UNCHANGED <<paperless, vectors, mode, embedders, bulkEdits, restarts, history>>

\* PUT /api/settings changes embed_refresh_mode.
ChangeMode(m) ==
  /\ m \in Modes \ {mode} /\ mode' = m
  /\ resets < MaxResets /\ resets' = resets + 1
  /\ UNCHANGED <<paperless, tracking, vectors, embedders, bulkEdits, restarts, history>>

\* POST /api/reindex: the store is emptied and a background index started.
Reindex(e) ==
  /\ resets < MaxResets /\ resets' = resets + 1
  /\ Begin(e, "index", live)
  /\ vecContent' = [d \in Docs |-> Absent] /\ vecTags' = [d \in Docs |-> NoTags]
  /\ UNCHANGED <<paperless, tracking, mode, bulkEdits, restarts, history>>

\* The application stops and starts: every task is lost, the background index
\* starts with the documents that have no vectors, and the drift loop waits a
\* whole interval again, in which recent documents may leave its window.
Restart ==
  /\ restarts < MaxRestarts /\ restarts' = restarts + 1
  /\ pc' = [e \in Embedders |-> IF e \in Indexers THEN "next" ELSE "idle"]
  /\ kind' = [e \in Embedders |-> IF e \in Indexers THEN "index" ELSE "none"]
  /\ todo' = [e \in Embedders |-> IF e \in Indexers
                                  THEN {d \in live : vecContent[d] = Absent} ELSE {}]
  /\ cur' = [e \in Embedders |-> NoDoc]
  /\ copy' = [e \in Embedders |-> Blank]
  /\ tries' = [e \in Embedders |-> 0]
  /\ \E gone \in SUBSET Docs :
       window' = [d \in Docs |-> IF d \in gone THEN "out"
                                 ELSE IF window[d] = "aging" THEN "in" ELSE window[d]]
  /\ UNCHANGED <<live, content, tags, hooks, tracking, vectors, mode,
                 bulkEdits, resets, history>>

-----------------------------------------------------------------------------
Environment ==
  \E d \in Docs :
    \/ \E t \in TagSets : EditDocument(d, t) \/ BulkEditTags(d, t)
    \/ DeleteDocument(d) \/ LoseWebhook(d) \/ TrackDocument(d)

Requests ==
  \/ \E w \in Workers, d \in Docs :
       ReceiveWebhook(w, d) \/ \E t \in TagSets : Approve(w, d, t)
  \/ \E w \in Workers, ds \in SUBSET Docs : ReindexSince(w, ds)
  \/ \E e \in Indexers : Reindex(e)
  \/ \E e \in Refreshers : StartFlush(e)
  \/ \E m \in Modes : ChangeMode(m)
  \/ ResetTracking
  \/ Restart

\* The steps of an embedder that its own code takes when nothing fails.
Progress(e) ==
  \/ \E d \in Docs : FetchDocument(e, d) \/ FetchPage(e, d) \/ FlushText(e, d)
  \/ FetchApprovedText(e) \/ CheckListed(e) \/ StartTagDrift(e)
  \/ FlushMetadata(e) \/ PurgeVectors(e) \/ PurgeRow(e)
  \/ MarkDirty(e) \/ StartUpsert(e) \/ WriteVectors(e)
  \/ ClearDirty(e) \/ RecordEmbed(e) \/ Finish(e)

Failing(e) ==
  \/ \E d \in Docs : FetchDocumentFails(e, d) \/ FlushTextFails(e, d)
  \/ FetchPageFails(e) \/ DriftRunFails(e) \/ EmbedFails(e) \/ RecordEmbedFails(e)

Next ==
  \/ Environment
  \/ Requests
  \/ \E e \in DriftLoops : StartContentDrift(e)
  \/ \E e \in DailyLoops : StartFlush(e)
  \/ \E e \in Embedders : Progress(e) \/ Failing(e)

Spec == Init /\ [][Next]_vars

\* The event loop runs every task that can run, the timers of the drift loop
\* and of the daily flush fire again and again, and a delivered webhook gets
\* its task.  Users, Paperless and its webhooks owe nothing.
Fairness ==
  /\ \A e \in Embedders : WF_vars(Progress(e))
  /\ \A e \in DriftLoops : WF_vars(StartContentDrift(e))
  /\ \A e \in DailyLoops : WF_vars(StartFlush(e))

FairSpec == Spec /\ Fairness

-----------------------------------------------------------------------------
(* Properties.                                                             *)

PaperlessOK ==
  /\ live \subseteq Docs
  /\ content \in [Docs -> Versions]
  /\ tags \in [Docs -> TagSets]
  /\ hooks \in [Docs -> 0..MaxHooks]
  /\ window \in [Docs -> {"in", "aging", "out"}]

TrackingOK ==
  /\ tracked \subseteq Docs /\ dirty \subseteq tracked
  /\ lastEmbedded \in [Docs -> Versions \cup {Absent}]
  /\ lastTags \in [Docs -> TagSets \cup {NoTags}]

VectorsOK ==
  /\ vecContent \in [Docs -> Versions \cup {Absent}]
  /\ vecTags \in [Docs -> TagSets \cup {NoTags}]

EmbeddersOK ==
  /\ pc \in [Embedders -> Phases]
  /\ kind \in [Embedders -> Kinds]
  /\ cur \in [Embedders -> Docs \cup {NoDoc}]
  /\ copy \in [Embedders -> Copies]
  /\ tries \in [Embedders -> 0..2]
  /\ todo \in [Embedders -> SUBSET Docs]
  /\ \A e \in Embedders : pc[e] \notin {"idle", "next"} => cur[e] \in Docs

BoundsOK ==
  /\ bulkEdits \in 0..MaxBulkEdits /\ resets \in 0..MaxResets
  /\ restarts \in 0..MaxRestarts

HistoryOK == raced \subseteq Docs /\ unstamped \subseteq Docs

TypeOK ==
  /\ PaperlessOK /\ TrackingOK /\ VectorsOK /\ EmbeddersOK
  /\ mode \in Modes /\ BoundsOK /\ HistoryOK

\* A stamp does not hide an edit that the vectors miss: while a document has
\* vectors, its last_embedded_at is not newer than the first edit they lack.
\* The content-drift comparison (main.py:989-996) relies on this, across retries,
\* deferral, flushes, restarts, purges and resets.  It holds but for a document
\* that changed while a copy of it was held, from then until an embed that no
\* other overlaps has put it right; and it says nothing of a document without
\* vectors, whose stamp survives a failed Chroma upsert (vector_store.py:386).
HonestStamp ==
  \A d \in Docs \ raced :
    vecContent[d] # Absent => lastEmbedded[d] <= vecContent[d]

\* The snapshot that the tag-drift comparison reads is the tags the vectors
\* were computed with (main.py:1093-1099), but for a document that changed under
\* an embed and was not put right since, or whose last embed recorded no snapshot.
TagSnapshotFaithful ==
  \A d \in Docs \ (raced \cup unstamped) :
    vecContent[d] # Absent /\ lastTags[d] # NoTags => lastTags[d] = vecTags[d]

\* Vectors of a document deleted in Paperless do not come back once they are
\* gone, if no embed held a copy of it when it was deleted
\* (_purge_deleted_document, main.py:793-815).
DeletedStaysGone ==
  [][\A d \in Docs \ raced :
       d \notin live /\ vecContent[d] = Absent => vecContent'[d] = Absent]_vars

\* The inductive invariant behind the last three properties.  Of a document that
\* is not raced: it exists as long as a copy of it is held, the copy
\* is that of now, an upsert that is not recorded yet wrote that copy (or another
\* Chroma upsert has emptied the document since), and the stamp and the snapshot
\* match the vectors.
CopyCurrent(e, d) ==
  /\ d \in live
  /\ pc[e] # "text" => copy[e].content = content[d] /\ copy[e].tags = tags[d]
  /\ pc[e] = "text" /\ kind[e] = "flush" => copy[e].content = content[d]
  /\ pc[e] = "text" /\ kind[e] = "approval" => copy[e].tags = tags[d]
  /\ pc[e] \in {"written", "cleared"} /\ vecContent[d] # Absent =>
       vecContent[d] = content[d] /\ vecTags[d] = tags[d]

StampOK(d) ==
  /\ lastEmbedded[d] <= content[d]
  /\ vecContent[d] # Absent => lastEmbedded[d] <= vecContent[d]

SnapshotOK(d) ==
  d \notin unstamped /\ vecContent[d] # Absent /\ lastTags[d] # NoTags =>
    lastTags[d] = vecTags[d]

CopiesOK(d) == \A e \in Embedders : Holds(e, d) => CopyCurrent(e, d)

DocOK(d) == StampOK(d) /\ SnapshotOK(d) /\ CopiesOK(d)

EmbedInv == TypeOK /\ \A d \in Docs \ raced : DocOK(d)

\* A re-embed that was marked in the table is carried out, or the document is
\* purged: no interleaving of marks and flushes leaves one pending for ever
\* (_flush_dirty_reembeds, main.py:818-919).
DirtyIsFlushed == \A d \in Docs : d \in dirty ~> d \notin dirty

\* Every indexed document that still exists ends up with the current content
\* and tags in its vectors, whichever webhooks are lost: the drift loop repairs
\* what they leave (main.py:933-1152).  Spared are documents that changed under
\* an embed as long as none has put them right, and the tags of those whose last embed recorded no snapshot.
EventuallyFresh ==
  \A d \in Docs :
    <>[](d \in live /\ vecContent[d] # Absent =>
           /\ d \notin raced => vecContent[d] = content[d]
           /\ d \notin raced \cup unstamped => vecTags[d] = tags[d])

-----------------------------------------------------------------------------
(* What docs and comments say of the code, and the code does not do.       *)

Quiet(d) == hooks[d] = 0 /\ ~IsHeld(d) /\ \A e \in Embedders : d \notin todo[e]

\* docs/DECISIONS.md:267: the content-drift reindex catches "content/OCR edits
\* the webhook missed".  So stale vectors at rest must be older than their stamp
\* shows (main.py:995-996).
StaleIsDetectable ==
  \A d \in live :
    Quiet(d) /\ vecContent[d] # Absent /\ vecContent[d] < content[d] =>
      lastEmbedded[d] < content[d]
=============================================================================
