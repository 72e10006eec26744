# Paperless IQ in TLA+

Paperless IQ is a FastAPI companion of Paperless NGX: it analyses inbox documents
with an LLM, queues the suggested metadata for approval, and keeps a vector index
of the archive for search and chat.  It is one Python process with one asyncio
event loop, one SQL database, a vector store (Chroma, Qdrant or Bedrock KB) and
HTTP calls to Paperless and to model services.  Everything hard about it comes
from tasks that interleave at every `await`, from a document that can change in
Paperless at any time, and from a restart that loses every task.

This directory holds TLA+ modules of its components, the TLC configurations that
check them, and machine-checked proofs.  `PROJECT.json` maps every definition to
its source lines and lists runs, mutants, hazards, findings and theorems.

## Inventory

| component | state | operations | hard part | what makes it correct |
|---|---|---|---|---|
| Embedding freshness (`main.py:366-570, 676-1152, 3498-3747`) | `document_tracking` rows (`reembed_dirty_since`, `last_embedded_at`, `last_tag_ids_json`), chunks in the vector store | webhook, reindex-since, approval, drift scans, flush, background index, purge, resets | no lock per document; a copy is fetched, then awaited on | a stamp hides no edit the vectors miss; documents end up fresh; deleted documents stay gone |
| Vector stores (`vector_store.py`) | chunks `doc_i` with metadata, a collection with a dimension | upsert, delete, reset, dump/load | two upserts of one document interleave; embeds fail per chunk | chunks of a document come from one upsert, or the index knows better |
| Settings and vector migration (`settings_service.py`, `vector_factory.py`, `vector_migrate.py`, `main.py:336-363, 3070-3276`) | settings in memory and in the database, live service objects | save, import, re-wire, migrate, reindex | running tasks keep the old objects | the live store fits the live model, or somebody was told; a switch loses nothing |
| Embed circuit (`ollama_queue.py:106-166`, `main.py:573-608`) | failure counter, event, cached health | record success/failure, wait, probe, reset | waiters depend on another task closing the circuit | nobody waits for ever on a healthy service |
| Ollama queue (`ollama_queue.py:64-97, 196-230`), analyzer (`analyzer.py`) | queue, futures; creation policy | submit, work, answer; list, ask the model, filter | submitters await futures a worker must resolve; settings change on the way | a submitted request is answered; a policy is never stretched |
| Approval queue (`approval_queue.py`, `main.py:1625-1900`) | `metadata_suggestions`, audit log, documents in Paperless | enqueue, approve, reject, bulk, re-analyse, empty | the PATCH awaits between the status check and the commit | a decided suggestion is decided once; what Paperless got is what the queue says |
| Entity resolution (`approval_queue.py:39-69, 540-843`) | a map of names to ids per kind, a minute old at most | look up, read the pages, create, PATCH | others create and delete entities; maps are stale or partial | what was kept or approved is on the document afterwards |
| Inbox monitor, scheduled batch (`inbox_monitor.py`, `main.py:120-245`) | `document_tracking` rows | poll, submit, mark analysed | two loops share one table; a row is written before the work | each inbox document is analysed, once |
| Discovery sessions (`main.py:629-673, 2243-2672`) | session turns, summaries | ask, close, expire | a model call between load and store | no exchange is deleted before its extraction was attempted |
| Long-term memory (`memory_store.py`, `main.py:2130-2357`) | SQL rows and memory vectors | extract, compare, add, revise, delete | two stores without a transaction | a row and its vector agree; no fact is added whose like is there |
| Grooming (`grooming.py`, `main.py:297-334, 4200-4482`) | entities with descriptions and vectors, dismissals, candidates | describe, embed, sync, scan, merge, dismiss | scans run for minutes over changing documents; rows are loaded, awaited on and written back | vectors match descriptions, rejections hold, a scan examines what is due, a merge deletes no entity its documents still need |
| Cron loop (`main.py:248-294`) | next run time | wait, fire, reload | | what it starts is in the modules of those runs |
| Rate limiter, audit retention, auth, key store, providers, rerankers, PDF utilities, frontend | | | sequential or pure I/O | see `components` in `PROJECT.json` |

How they meet: every embedder of `EmbedFreshness` waits for the circuit of
`EmbedCircuit` and writes through an object of `VectorStores`; `InboxAutomation`
submits to the queue of `AnalysisPipeline`, whose suggestions are the rows of
`ApprovalQueue`, whose PATCH is resolved in `AnalysisPipeline` and triggers the
webhooks of `EmbedFreshness`; `Grooming` proposes to the same approval queue and is
kept from scanning by the cached health of `EmbedCircuit`.  The modules share these
interfaces and are checked one by one: each lets its surroundings do whatever the
neighbour may do.

| module | about | kind |
|---|---|---|
| `EmbedFreshness`, `EmbedFreshnessProofs`, `MCEmbedFreshness` | who embeds what, when, and what the stamps say | checked, proved |
| `VectorStores`, `DocumentIndex`, `VectorStoresProofs`, `MCVectorStores` | chunks, stores, switches; `DocumentIndex` is what they promise | checked, proved, with a refinement |
| `EmbedCircuit`, `EmbedCircuitProofs`, `MCEmbedCircuit` | the circuit breaker and its monitor | checked, proved |
| `AnalysisPipeline`, `AnalysisPipelineProofs`, `MCAnalysisPipeline` | from the request to the PATCH | checked, proved |
| `ApprovalQueue`, `SuggestionLifecycle`, `ApprovalQueueProofs`, `MCApprovalQueue` | decisions on suggestions; their abstract life cycle | checked, proved, with a refinement |
| `InboxAutomation`, `InboxAutomationProofs`, `MCInboxAutomation` | poll and batch | checked, proved |
| `DiscoveryMemory`, `DiscoveryMemoryProofs`, `MCDiscoveryMemory` | sessions and memories | checked, proved |
| `Grooming`, `GroomingProofs`, `MCGrooming` | entities, scans, merges | checked, proved |

## Plan

Done: the modules above; every safety and action property of a passing run, and both
refinements, are proved as well.  Left, in this order:

1. The safety half of the liveness properties, which a prover can reach: while a document
   waits for the circuit, the monitor is looking or probing (`Finishes`); a document
   marked dirty has a row the next flush will list (`DirtyIsFlushed`).
2. Shorter proofs of `GroomingProofs` and `VectorStoresProofs`, by lemmas for the frames
   that several of their steps state again.

Few runs, each with several properties, are preferred to many small ones: a component
gets one passing run, and two where liveness or another backend needs bounds of its own.

## EmbedFreshness

State: Paperless (`live`, `content`, `tags`, undelivered `hooks`, and `window`, which
documents the next content-drift listing will contain), the `document_tracking`
table (`tracked`, `dirty`, `lastEmbedded`, `lastTags`), the vector store
(`vecContent`, `vecTags`), the refresh `mode`, and the embedders.  An embedder is a
task or loop with its own control state (`pc`), what it is doing (`kind`), its list
(`todo`), its current document (`cur`) and the copy of it it holds (`copy`).  Every
action ends at an `await`.

| embedder | code | actions |
|---|---|---|
| webhook, reindex-since task | `_reindex_document` 3667-3747 | `ReceiveWebhook`, `ReindexSince`, `FetchDocument`, `FetchDocumentFails`, `EmbedFails` |
| approval task | `_index_bg` 1696-1711 | `Approve`, `FetchApprovedText` |
| drift loop | 933-1152 | `StartContentDrift`, `FetchPage`, `CheckListed`, `StartTagDrift`, `DriftRunFails` |
| flush, daily or manual | 751-919, 4177-4196 | `StartFlush`, `FlushText`, `FlushMetadata`, `ClearDirty`, `PurgeVectors`, `PurgeRow` |
| background index | 366-570 | `Reindex`, `Restart`, `FetchPage`, `CheckListed` |
| all of them | `schedule_reembed` 717-748, `upsert`, `_record_document_embed` 676-714 | `MarkDirty`, `StartUpsert`, `WriteVectors`, `RecordEmbed`, ... |

Abstractions: a document's content is the number of edits it has had and a stamp is
the number of edits before it, since stamps are only ever compared with `modified` of
the same document; tag ids are model values; a listing page holds one document; a
document without text is a failed fetch; a Qdrant upsert deletes and writes in one
step (`DeleteFirst = FALSE`), a Chroma upsert deletes first (`TRUE`); entity names,
chunking and the dimension-mismatch stop of the index are left out.

Properties.  `HonestStamp`: while a document has vectors, its stamp hides no edit that
they miss.  `TagSnapshotFaithful`: the tag snapshot is what the vectors were computed
with, if the last embed recorded one (`unstamped`).  `DeletedStaysGone`.
`DirtyIsFlushed`, `EventuallyFresh`: liveness.  All but `DirtyIsFlushed` except a document that changed in
Paperless while an embedder held a copy of it, until an embed that nobody overlaps has
put it right (history variable `raced`): in between the code gives no guarantee, which
the violation run shows.  None of them asks for vectors: a stamp without vectors, which
a failed Chroma upsert leaves behind, is allowed.

Runs (one document: embedders share no state but per-document rows, so the
interleavings that matter are those of several embedders on one document):

| run | question | bounds |
|---|---|---|
| `embed_tasks` | two tasks and the background index, Chroma, failing stamps, restart, reindex or reset | 1 edit, 1 reset, 1 restart |
| `embed_loops` | drift loop, daily flush, manual refresh and a task, two at a time; both modes and a switch; failing embeds and fetches; the inductive invariant | 1 edit, 1 reset or switch |
| `embed_live` | freshness and flushed marks in daily mode, webhooks lost | 1 edit, 1 bulk edit |

An edit gives two versions, enough for every order of "newer, older" between a
copy, a stamp and vectors.  Deadlock checking is off: with its bounded inputs used up and every
document deleted the system really stops.

Fairness: every task that can run is run by the event loop (`WF` of the steps of an
embedder), and the timers of the drift loop and the daily flush fire again and again.
Nothing is assumed of users, Paperless, its webhooks or of failing calls.

Violation run: `embed_overtaken` checks what `docs/DECISIONS.md` promises of the drift
loop, with nothing but edits, their webhooks and the tasks of these (`WebhookSpec`): two
edits, no webhook lost, no failure.  It finds stale vectors under a fresh stamp: of two
overlapping webhook tasks the one that fetched first writes last.

## ApprovalQueue

State: the database (`status` of a suggestion, the decision events of its `audit` log,
`dismissed`: grooming suggestions with dismissal rows), Paperless (`patches`: the
suggestions whose values were ever written, `latest`: whose values a document got
last), and requests: the route (`op`), the suggestions still to be decided on
(`todo`), the one at hand (`cur`) and the status of its row as the session read it
(`row`).  Rows are read and written in different steps with an `await` between them;
a re-analysis of one suggestion decides from the row it read before the analysis,
because `session.get` answers from the identity map.

| code | actions |
|---|---|
| `enqueue`, `submit_for_analysis` (auto-apply) | `Enqueue`, `AutoApply` |
| the routes approve, reject, bulk, empty, reanalyze, reanalyze-all | `Receive` |
| `approve` 232-379: read and check, PATCH, commit with siblings | `LoadForApproval`, `Patch`, `PatchFails`, `CommitApproval`, `CommitFails` |
| `reject` 385-439: read and check, commit with dismissals | `LoadForRejection`, `CommitRejection`, `CommitFails` |
| `reanalyze_queue_item`, `_reanalyze_bg` | `StartAnalysis`, `FinishAnalysis`, `AnalysisFails`, `EnqueueFresh` |
| `reset_rejected`, the process | `ResetRejected`, `Restart` |

Abstractions: resolving and creating entities (`AnalysisPipeline` has it) is part of
the PATCH, which succeeds, is refused, or is applied with its answer lost; `PAPERLESS_URL` and the token are set;
the ids of a bulk request come in any order and without repetition; field edits and
their audit entries are left out, the decision events are kept ("superseded" is the
rejection event that names the approved sibling).

Properties.  `ApprovedWasApplied`, `LatestIsApproved`: the queue and Paperless agree
in both directions.  `AuditTellsStatus`, `DismissalIsJudgment`, `HeldIsPending`.
`LifecycleSpec`: under the mapping `phase`, the queue implements
`SuggestionLifecycle`, where a suggestion is decided once and an approval is final.
They except `overtaken` suggestions, whose row changed while another request held it,
and `LatestIsApproved` also those `cutShort` between the PATCH and the commit: the
code has no guard against either, and the violation run shows the first.

| run | question | bounds |
|---|---|---|
| `queue_all` | approvals, rejections, bulk, emptying, re-analysis and auto-apply, with every failure and a restart | 2 suggestions of 1 document, 2 requests |

Two requests suffice for every overlap of a read and a write, and two suggestions for
a sibling or the fresh suggestion of a re-analysis.  Deadlock checking is off: once every suggestion is
decided and deleted nothing is left to do.

Violation run: `queue_unapproved` (a re-analysis rejects an approved suggestion).

## InboxAutomation

State: the documents in the inbox, the `document_tracking` rows (`tracked`) and which
of them are marked `analyzed`, the `automation` switch, and for each of the two loops
its phase (`pc`), the documents left on its list (`todo`), the rows it read with the
list and holds on to (`known`), and the document at hand (`cur`).  Both loops run the
same actions; they differ in what `Select` keeps and in that only the batch marks.

| code | actions |
|---|---|
| `poll`, `run_batch`: list and filter | `FetchInbox`, `Select` |
| their loop body: insert the row, submit | `Take`, `Collide` (the row is there by now: `IntegrityError`), `CommitFails` |
| `submit_for_analysis` (`main.py:157-186`) | `Enqueue`, `Apply`, `AnalysisFails` |
| `run_batch`: mark | `Mark` (a deleted row is a `StaleDataError`), `Finish` |
| embeds, reset routes, `PUT /api/settings`, the process | `StampEmbed`, `ResetTracking`, `ResetRejected`, `SwitchAutomation`, `Restart` |

Abstractions: the listing is one step although it is paged; the chunks of
`batch_size` only structure a log message; any set of documents may have a rejected
suggestion; a document deleted in Paperless has left the inbox for good, so the purge
of its row is left out; an analysis always ends.  A run ended by an exception starts
again when its timer fires: the cron loop does not move `next_run` on after one.

Properties.  `PolledOnce`, `BatchSkipsMarked`: neither loop submits twice what it is
done with.  `InboxInv` is the inductive invariant behind them.
`EveryInboxDocIsAttempted`, for configurations with the batch, and `ResetIsPickedUp`:
liveness.

| run | question | bounds |
|---|---|---|
| `inbox_both` | both loops and all other writers of the table | 2 documents, any 2 of: reset, switch, restart, failed commit, new inbox tag |

Two documents let one be left on the list of a run that the other one ends; two
events let a reset or a restart hit a run that recovers from another one.
`StampEmbed` and `LeaveInbox` need no bound.  Fairness: poll interval and cron
expression come due again and again and the event loop runs what can run (`WF` of the
steps of each loop, failures excepted).

What no property shows, because it is false: without the batch, which is off by default,
a document that is embedded before the next poll, or whose analysis a restart cut short,
has a row, is taken for seen and never analysed, although `docs/Automation.md` says of the
poller alone that it queues each new document.

## VectorStores

State: the chunks of each store (`points`), the model whose dimension its collection
has (`dim`) and the number of that collection, the store objects made so far
(`objects`: what each of them has seen of a collection) and which one is `live`, the
settings in memory and in the database (`config`, `saved`), the upserts in progress
(`pc`, `obj`, `doc`, `text`, ...) and one request of an administrator (`step`, `op`,
`src`, `dst`, `dump`, ...).  An object outlives the switch that replaces it: a task
that was given it goes on writing through it.

| code | actions |
|---|---|
| Chroma `upsert`: list, delete, embed, write | `StartUpsert`, `ListChunks`, `DeleteChunks`, `DeleteFails`, `Embed`, `WriteChunks`, `WriteFails` |
| Qdrant `upsert`: embed, ensure the collection, delete, write | the same without `ListChunks`, and `EnsureCollection` |
| `PUT /api/settings` (`main.py:3070-3276`) | `Save`, `Rebuild`, `RebuildFails`, `Swap` |
| `POST /api/vector/migrate` (`main.py:3531-3582`) | `Migrate`, `Swap` |
| `migrate_embeddings` | `CheckSource`, `CheckTarget`, `DumpPoints`, `LoadPoints`, `LoadFails`, `MigrationFails` |
| a search or count through the live store | `Look` |
| `POST /api/reindex`, import, start of the process | `Reindex`, `Recreate`, `Import`, `Restart`, `Heal` |

Abstractions: a vector is the model that computed it; two models have two dimensions;
a chunk knows its document, its number and the text it is part of; pages of a dump and
batches of a write are one step that may stop after any subset; Bedrock KB, which has
no store of this kind, searches and rerankers are left out.

Properties.  `WholeOrDetected`: the background index, which compares the number of
chunks with the total any of them names, takes a document for complete exactly if it
is.  `UsableOrPrompted`: at every step, the live store fits the model or the administrator was
told to reindex.  `SwitchKeepsIndex`: a migration that says it copied the index has lost
nothing.  `IndexSpec`: under the mapping `index` the stores implement `DocumentIndex`, where
a document is whole, known to be in part, or absent, and one text never turns into another
without going through absence.  `StoresInv` is the inductive invariant behind them.

They except documents two writers or a failed delete have mixed up (`torn`), for which the
code has no lock; documents touched during a migration (`touched`); and stores whose
contents part from the settings without a word (`muddled`): an older object filled them,
a switch found them filled or nothing to copy, a migration brought another model's
vectors, an import changed the settings, or the store could not be made.

| run | question | bounds |
|---|---|---|
| `stores` | both backends, all requests, refused batches, unanswered looks, failed copies and rebuilds | 1 document, texts of 1 and 2 chunks, 2 models, 2 embedders, 4 events |

One document suffices since chunks of two documents never share an id; a text of two
chunks over one of one (and back) leaves a tail to be deleted; four events let two
upserts meet in the middle of a save and the requests before it.  Failing deletes are
in the model (`"delete"`) but not in the run: they only make documents `torn`.

What no property shows, because it is false:

- that a switch keeps the index when Qdrant does not answer: `_collection_present` swallows
  the error (`vector_store.py:935-944`), the count is 0, the answer is "source is empty" and
  success (`CheckSource`, outcome `overlooked`).  A dump cannot be lost in this way, since
  the object remembers that it has seen the collection when it counted;
- that `POST /api/vector/migrate` copies only vectors of the model in use: it does not look
  (`main.py:3531-3582`), and a copy of another model's into an empty collection succeeds;
- that switching backends does not move the vectors, as `docs/SETTINGS.md:97` says: saving
  the settings copies them if the model is unchanged (`main.py:3153-3165`).

## EmbedCircuit

State: whether the service is `up`, the circuit (`open`, `fails`), the cached `health`
the scans ask, the `monitor` with its interval, and for each document the loop that
embeds it: waiting for the circuit, embedding, backing off, done or given up.

| code | actions |
|---|---|
| attempts of `_background_index` and `_reindex_document` | `Arrive`, `Succeed`, `Fail`, `Retry`, `Mismatch` |
| `_embed_health_monitor` | `Look`, `ProbeSucceeds`, `ProbeFails`, `ProbeTimesOut` |
| `reset_embed_circuit`, after a change of the settings | `ResetCircuit` |
| `GET /api/status` | `StatusCheck` |
| the service (external) | `Flip` |

`record_embed_failure`, `record_embed_success` and `await_embed_available` are the
operators `RecordFailure`, `RecordSuccess` and `Released` those actions call; setting
the event releases all waiters at once, even if it is cleared before they run.
A document of a deferred webhook is only marked and counts as a success, as in the
code; a poison document fails although the service is up.

Properties.  `HealthAgrees`: as long as the circuit was the last to write the cached
health, that says "down" exactly while the circuit is open; `ResetCircuit` and
`StatusCheck` each write one without the other, and after them the property says
nothing until the circuit writes both again.  `Finishes`: once the service
stays up, no document waits for ever.  `TypeOK` holds the monitor to its five
intervals.

| run | question | bounds |
|---|---|---|
| `circuit` | failures, waits, probes and resets in any order | 3 documents: an ordinary, a poison and a deferred one; no bound on events |

Three documents are the threshold of consecutive failures, and one of each kind lets
every kind open the circuit under, and close it for, the others.  Fairness: each loop
and the monitor are tasks of the event loop whose waits end by themselves (`WF`),
except the wait for the circuit, which is what `Finishes` is about; nothing is assumed
of the service beyond the hypothesis `<>[]up`.

## AnalysisPipeline

State: Paperless (`exist`, `carried`, `made`: how often a name was created, its id),
the settings (`policy`), those the analysis service was built with (`served`) and
those automatic runs began with (`runs`), the Ollama queue (`queue`, `active`,
`waiting`), the map of names to ids with the kinds it holds (`cache`, `cached`), and
per request a record with what it has read, wants and has resolved (`req`).

| code | actions |
|---|---|
| `OllamaQueue.submit`, `_worker` | `Submit`, `Begin`, `Complete`, `AnalysisFails` |
| `_fetch_entity_context`, `_apply_creation_policy` | `List`, `Permitted` |
| auto-apply, or a person's approval with edits | `Approve` |
| `_resolve_or_create_entity_ids`, `_resolve_custom_fields` | `UseCache`, `ReadPages`, `ReadFails`, `KeepMap`, `Create`, `CreateFails` |
| the PATCH | `Patch`, `PatchFails` |
| `_make_analysis_callbacks`: what an automatic run captures | `StartRun` |
| a minute passing, `PUT /api/settings`, other users of Paperless | `Expire`, `ChangePolicy`, `Rebuild`, `OthersCreate`, `OthersDelete` |

Abstractions: all requests are about one document, since requests about different
ones share only the queue and the map; requests are numbered as they arrive; document
types and storage paths are resolved as correspondents are; what the model answers is
any set of names with one correspondent at most; prompts, parsing, matching of similar
names, vision and translation are left out; `merge_tags`, `submit_background` and
`resume_background` have no callers; `stop()` of the queue is called only at shutdown.

Properties.  `NobodyWaitsInVain`: whoever awaits a future is in the queue or in the
worker's hands (a safety property, whose liveness half is the worker's loop).
`ForbiddenIsNotCreated`: what an unattended run creates is of a kind that its own
policy allowed in the settings the run began with; these are kept for the whole run, so
that a policy withdrawn meanwhile does not stop it.  `KeptTagsSurvive`: a tag the model
saw and kept is on the document after the PATCH.  `HumanApprovalIsComplete`: a name a
person approved is found or created, and is there.  The last two say nothing of `blurred`
names: those others created or deleted, those a failed page hid, those whose creation
failed or was not answered, and those created while another request was between reading
the pages and the end of its creations; `HumanApprovalIsComplete` excepts custom fields
as well, whose map is not dropped when one is created.  In each of these cases the code
does take a tag off, or leaves a name out.

| run | question | bounds |
|---|---|---|
| `pipeline` | two requests, automatic or by a person, in every overlap | a tag and a custom field, 1 fault, change of settings or doing of others |

Two requests are a reader and a creator of one map; a tag has a policy and a dropped
map, a custom field neither, so that a tag's policy may be stretched to it.

## DiscoveryMemory

State: the sessions (`open`, `old`, `stored`: the questions in their turns and those
their summary covers), the rows and vectors of memories (`memory`, `vector`), and per
task the session it holds a copy of (`sess`, `copy`), the question it answers, and the
fact and memories it works on (`facts`, `text`, `targets`); the expiry loop is one
more task, with its `list` and the `snapshot` it read.

| code | actions |
|---|---|
| `discover` (`main.py:2364-2672`) | `Ask`, `Answer`, `NoAnswer`, `Compress`, `FindSession`, `WriteSession` |
| `delete_discover_session`, `_session_expiry_loop` | `Close`, `StartExpiry`, `NextExpired`, `Extract`, `ExtractFails`, `DeleteSession`, `DeleteSessionFails` |
| `_extract_memories_from_session` | `FindSimilar`, `FindSimilarFails`, `AddMemory`, `ReviseMemory`, `StoreFails`, `Upsert`, `UpsertFails` |
| routes of memories | `EditMemory`, `DeleteMemories`, `DeleteVectors` |
| time, the process | `Age`, `Restart` |

Abstractions: an exchange is the number of its question; what a search scores above
the threshold is a constant relation `Near` between texts, neither symmetric (a query is
embedded in another way than what is stored) nor transitive (a cosine of 0.88 does not
add up); retrieval for a question and the migration of memories to another store are
left out.

Properties.

- `NothingForgotten`: a question that was written to its session is in its turns or its
  summary until a model was given it for an extraction.  Excepted are questions whose
  extraction failed or is switched off (`unmined`: the session is deleted all the same),
  those cut when a summary failed (`dropped`), and sessions another task held when they
  were written or deleted (`raced`).
- `StoresAgree`: row and vector of a memory nobody works on are the same, unless two
  tasks worked on it at once or one failed to finish (`unsynced`).
- `NoTwins`: of two memories whose texts find each other, one is `unsynced` or
  `unchecked`: it got its text by an edit or a revision that looked for no third memory,
  or while another task was writing a like one.  So it is only additions that are
  guarded: with A and C apart, a fact B near both revises A and leaves B and C alike.
- `ExpiredIsRemoved`: liveness, if every call to the model returns.
- `DiscoveryInv`: the inductive invariant behind the first three.

| run | question | bounds |
|---|---|---|
| `discovery` | two requests and the loop, every failure | 2 sessions, 2 memories, 2 texts of which one finds the other and not the reverse, window of 1, 2 questions, 2 edits, deletions, failed deletions of a session or restarts |

The second question to a session overflows a window of one, so both meet the
compression.  `MCSpec` explores two kinds of behaviours: one question whose session
yields facts, with one event; and two questions, to one session or two, whose
extractions yield none, with two events, so that a deletion fails and the application
restarts while the loop has another session to go.  Two tasks are at work at a time.
Ageing is not bounded.  Fairness (`FairSpec`): the hourly timer fires again and again,
and the event loop runs the expiry loop, whose calls return or fail; of requests nothing
is assumed.  That calls return is an assumption about the model service: the call of an
extraction has no timeout (`main.py:2181`).

## Grooming

State: Paperless (`alive`, `name`, `carries`), the rows of entities (`row`) and which
of them an incremental scan has to visit (`changed`, `behind`), the rejections in force
(`dismissals`), the suggestions in the queue (`pending`), the audit entries, the tasks
(`task`: the rows each of them loaded) and the one scan (`scan`).

| code | actions |
|---|---|
| `generate_description_for`, `start_bulk_generate` | `GenerateOne`, `BulkGenerate`, `Describe`, `DescribeFails`, `Embed`, `EmbedFails`, `Cancel` |
| `update_entity`, `sync_and_list_entities` | `Patch`, `Exclude`, `Sync`, `SyncRows` |
| `merge_entities` | `Merge`, `FetchAffected`, `BulkEdit`, `EditUnanswered`, `MergeFails`, `Remove`, `RemoveUnanswered`, `CommitMerge` |
| `start_scan`, `_scan_bg`, `collect_scan_candidates` | `ScheduledScan`, `ManualScan`, `ReadRows`, `Refresh`, `Query`, `Classify`, `FetchDoc`, `Propose`, `Stamp`, `ScanFails` |
| approvals, rejections, expiry of dismissals | `Approve`, `Reject`, `Suggest`, `Expire` |
| Paperless, embeds, the process | `Retag`, `Create`, `Rename`, `DocsEmbedded`, `Restart` |

A commit writes the columns that differ from the row as it was loaded (`Flush`), which
is what SQLAlchemy's unit of work does, whatever the row has become.  Abstractions:
the scores are left open (the classification may flag any document an entity could
apply to); entities are of one type, a `kind` with many per document or with one at
most; a switch of the embedding model is left out.

Properties, each with what it leaves out because the code does not keep it:

- `VectorIsCurrent`: a vector that counts as stored is of the present name and text.
  Excepted are entities two tasks worked on at once (`raced`).
- `PendingIsNotDismissed`: what was rejected is not asked again.  Excepted are rejections
  that came between the two reads a scan begins with, of the rejections and of the
  suggestions (`slipped`).
- `MergeIsSound`: a merge takes an entity from no document it listed without giving it the
  other one, and a merge that comes to its end audits what it wrote.  Excepted are
  documents that were not listed, because a page failed, or came later
  (`excused`), and the entries of merges that failed, were not answered or ended with a
  restart (`unaudited`): a bulk edit may be done and its answer lost.
- `ScanMissesNothing`: what an incremental scan passes over was examined as it is.
  Excepted are entities that changed, came in or had no vector while a scan ran
  that stamped them, and entities with a new name (`unscanned`).
- `ProposalFits`: each action of a suggestion does something to its document, and the
  proposed field is what they make of it.  It speaks of documents nobody has changed since
  the scan fetched them (`moved`), while no entity was renamed (`renamed`).  A tag made
  after the scan read the names and before it fetched the document is missing from the
  proposed list (`unread`).

`GroomingInv` is the inductive invariant behind them.

| run | question | bounds |
|---|---|---|
| `grooming` | two tasks and a scan, tags and correspondents | 2 entities, 2 documents, 2 names, 2 texts, 1 suggestion per scan, 2 findings, 2 events |

Two entities are the least a merge, a replacement and a cap need; the cap of one is
below the two findings; an event is a request, a scan or a change in Paperless, so
every pair of them overlaps.  Entities may be made at any time besides, which is no event:
each is made once.  With two names an entity is renamed while one of them is free; that
both exist and one gets a third name is left to the proofs.

## Proofs

Eight modules have a proof module, one per component; every theorem holds for any sets
of documents, embedders, suggestions, requests, loops, sessions, memories, entities and
any bounds that satisfy the named assumptions of its module.  TLC checked each inductive
invariant on a small instance before it was proved; for the parts that only a proof needs
see the proof modules.

`EmbedFreshnessProofs` proves `TypeCorrect` and `EmbedInvariant`, and from them
`HonestStampHolds`, `TagSnapshotHolds` and `DeletedStaysGoneHolds`.  `HonestStamp` is not inductive: that a
stamp written after an upsert is covered by it needs that the copy was current
(`CopyCurrent`) from the fetch to the stamp, and that what an unrecorded upsert wrote
is still there or has been emptied.  `EmbedInv` says so of every document that is not
`raced`; each action either leaves a document's part alone, or changes it in
Paperless, which puts it in `raced` as soon as a copy is held, or records an embed that
takes it out of `raced` with everything in order.  The proof has one
lemma per group of actions.  A copy that is held is also one of a document that still
exists, and by `VectorWriters` only the upsert of a held copy puts vectors into the
store, so those of a deleted document do not come back.

`ApprovalQueueProofs` proves every property of the module.  The invariants build on
each other: `TypeCorrect` gives `HeldIsPendingHolds` (a commit puts every row it
changes under another request into `overtaken`, and a row nobody else commits stays
pending); with it `NextMoves` says what any step can do to one suggestion, from which
`AuditTellsStatusHolds` and `DismissalIsJudgmentHolds` follow; `AppliedIsPatched`
strengthens `ApprovedWasApplied`, and `Accounted` rephrases `LatestIsApproved`.
`ImplementsLifecycle` is the refinement: `CommitPhase` maps a commit, with its
superseded siblings and the rows it overtakes, to one `Decide` of
`SuggestionLifecycle`; the other steps map to `Submit`, `Clear` or a stutter.

`InboxAutomationProofs` proves `InboxInvHolds`, `TypeCorrect`, `PolledOnceHolds` and
`BatchSkipsMarkedHolds`.  `InboxInv` adds to the types that every document the poller
took has a row and the poller relies on no row it read (so the primary key stops a
second submission), and that the batch's list never holds a marked document, which
needs that only the batch marks.  `OnlyTakeSubmits` reduces both action properties to
the one action that submits.

`EmbedCircuitProofs` proves `TypeCorrect` and `HealthAgreesHolds` from `CircuitInv`,
which adds to the types that a document to be retried has attempts left; the calls of
the circuit have one lemma each, which the actions cite.

`AnalysisPipelineProofs` proves `TypeCorrect`, `NobodyWaitsInVainHolds` and
`ForbiddenIsNotCreatedHolds` from `BaseInv`, the conjunction of one invariant per part
of the state.  The two that carry the weight: the queue holds each waiting request
once and only such requests (`QueueOK`), so that answering one takes exactly one caller
out of `waiting`; and an automatic request has nothing to create of a kind its policy
did not allow when its run began (`RecordOK`), whatever the settings and the map
have become since.  `SettleOK` and `ResolvedOK` say that resolving a kind keeps this.
On top of it `KnowledgeInv` says, of every entity the application can be expected to
know of (`Known`: not `blurred`, no custom field), that each map kept or just read has
it, that no request is about to create it if it is there, and that a request which must
put it on the document has resolved it, is about to create it or has its kind still to
come (`Owed`).  A step of one request keeps this for the others because a creation drops
the map and makes `blurred` what somebody else is just reading (`NewEntityKnows`).
`ApprovesByPatch` and `PatchPays` turn it into `KeptTagsSurviveHolds` and
`HumanApprovalIsCompleteHolds`.

`DiscoveryMemoryProofs` proves `DiscoveryInvariant`, and from it `NothingIsForgotten`,
`StoresAlwaysAgree` and `NoTwinsHolds`.  `DiscoveryInv` adds to them that the copy a
task holds covers what is stored of its session (`CopyCovers`), since the task writes
back the copy and not the session; that a memory in step has one task at work on it,
which knows the row (`WorkOK`); and that a fact about to be added is like no memory that is
there (`AddInv`), for any relation `Near`.  The actions on sessions and those on memories touch different
variables, and the proof has one part for each and one for the types.

`VectorStoresProofs` proves `StoresInvariant`, and from it `WholeOrDetectedHolds`,
`UsableOrPromptedHolds` and `SwitchKeepsIndexHolds`.  `StoresInv` has a part for the chunks
and for what the writer of an upsert may rely on between its calls (`ChunksOK`,
`WriterOK`), one for what a switch has copied so far (`SwitchOK`), and one for the model a
collection is filled with, as the store objects know it (`SpacesOK`).  That a document with
as many chunks as one of them names is whole is a fact about finite sets, `AtMostAll`.
`ImplementsIndex` is the refinement: `IndexStep` maps each call to a step of
`DocumentIndex` or to a stutter, with `StandingIs` to say what the mapping makes of the
chunks of a document.

`GroomingProofs` proves `GroomingInvariant`, and from it `GroomingTypes`,
`VectorIsCurrentHolds`, `PendingIsNotDismissedHolds`, `MergeIsSoundHolds`,
`ScanMissesNothingHolds` and `ProposalFitsHolds`.  `GroomingInv` says what a task that
loaded a row may still believe of it (`HeldIsRow`), what a task has done of a merge
(`TaskOK`), what the scan has examined and what it proposes (`ScanOK`, `ProposalOK`), and
how names and rejections relate to what was read (`NamesOK`, `QueueOK`).  The proof first
says which actions write which variable (`TaskWriters`, `ScanWriters`, `NameWriters`,
`QueueWriters`), and then treats each part of the invariant only for the actions that can
disturb it.  A suggestion is made of an entity, a document and names that a scan read at
three different times; `ReadRight`, `TagsFit` and `SingleFits` carry each of these readings
to the moment of the suggestion, and `FitsStep` on from there.  Since entities may be made
and renamed while a scan runs, three lemmas say what becomes of the names it has read:
`NameStep` (an entity without a name gets one no other has; only a rename changes one),
`UnreadStep` (a tag the scan has no name for is counted in `unread`) and `StillFits` (a
suggestion that fitted before such a step fits after it).

Model-checked only: the liveness properties `EventuallyFresh`, `DirtyIsFlushed`,
`EveryInboxDocIsAttempted`, `ResetIsPickedUp`, `Finishes` and `ExpiredIsRemoved`
(fairness is out of the prover's reach).

## Not modelled, and what no property promises

Left out, with the reason in `PROJECT.json`: Bedrock KB and the query paths (they
change no state), the rate limiter (a token bucket without an `await` between reading
and writing it), the computation of cron expressions, audit retention, authentication,
the key store, the model providers, PDF utilities and the frontend.  One administrator
saves settings at a time.

Some hazards have no property, because the code promises nothing there:

- `reset_embed_circuit` closes the circuit and leaves the cached health "down", so
  scans are refused until the next embed succeeds (`ollama_queue.py:136`), and the
  status page overwrites the cached health, so that scans are refused although the
  circuit is closed, or allowed although it is open (`main.py:3427`).
- The third failure in a row opens the circuit and is also the last attempt: the
  document that opened it is given up (`main.py:3745`).  A document that can never be
  embedded opens the circuit for all others until the next probe, and a webhook in a
  deferred mode counts as a success although nothing was embedded (`main.py:3729`).
- A Chroma upsert deletes before it embeds (`vector_store.py:386`): if the embedding
  fails, the document is out of the index, and its stamp keeps the drift scan from it
  until its next edit or the next start.
- A flush clears the mark of an edit that came in while it embedded (`main.py:891`).
- A deferred re-embed of a document without a tracking row is dropped (`main.py:743`),
  and the drift loop that would repair it waits a whole interval after each start
  (`main.py:1140`).
- Of two decisions on one suggestion at once both commit, and the later one stands
  (`approval_queue.py:289`); a PATCH that is applied and not committed leaves its suggestion
  pending (`approval_queue.py:376`).
- An automatic run keeps the policy it began with, also when that is withdrawn
  (`main.py:179`).
- A switch between stores may lose the index or bring another model's without a word
  (`vector_store.py:935`, `vector_migrate.py:46`, `main.py:3166`; see VectorStores).
- `submit_for_analysis` swallows a failed analysis (`main.py:185`), and the poller never
  marks a document as analysed (`inbox_monitor.py:84`), so the batch analyses it again.
- If the entities cannot be listed, or the model's answer is not JSON, an automatic
  approval removes all tags (`analyzer.py:556, 310`).
- The map of custom fields is not dropped when one is created
  (`approval_queue.py:812`), and a map read from pages of which one failed is used for a
  minute (`approval_queue.py:679`).
- An extraction that is switched off or fails (`main.py:2137-2184`) loses the facts of
  its session, which is deleted all the same; one whose model call never returns keeps
  the expiry loop for good.
- Of two questions to one session at once, the first one's turns are overwritten
  (`main.py:2611`), and if a summary fails, the oldest turns are cut all the same
  (`main.py:2640`).
- An edit or revision may bring a memory near another one, and two extractions at once
  may store like facts (`main.py:2201`).
- A merge that fails, is not answered or is ended by a restart leaves no audit entry of
  what it wrote (`grooming.py:792-825`), although `docs/Grooming.md:54, 58` says that the
  audit log records every changed document.
- A page of the list of documents that fails is taken for the end of the list
  (`grooming.py:541`), and a merge lists 10,000 documents at most: it deletes the entity
  all the same, and the documents it did not list lose it.
- A scan stamps every entity at its end (`grooming.py:1166`), also those that changed
  while it ran; a renamed entity loses its vector but not its stamp (`grooming.py:377`).
  Neither is looked at by the next scheduled scan, unless a document is embedded before.
- A tag made after a scan read the names is not in the list the scan proposes for a
  document that carries it, and an approval takes it off (`grooming.py:1210-1228`).
- A rejection between the two reads at the beginning of a scan is asked again
  (`grooming.py:908`).
- A finding beyond the cap of a scan is not made again by an incremental one
  (`grooming.py:1201`).
- Two submissions with the same monotonic timestamp would compare their futures
  (`ollama_queue.py:81`); the model orders the queue by arrival.
