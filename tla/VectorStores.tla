---------------------------- MODULE VectorStores ----------------------------
(***************************************************************************)
(* The chunks of documents in the vector stores (backend/vector_store.py), *)
(* and the switch from one store to another (backend/vector_migrate.py,    *)
(* backend/vector_factory.py, backend/main.py:336-363, 3070-3276,          *)
(* 3498-3582).                                                             *)
(*                                                                         *)
(* A store object is a client of one backend with one embedding model;     *)
(* saving the settings makes a new one, and whoever holds an older one     *)
(* goes on using it.  Chroma's object refers to the collection it has      *)
(* opened, Qdrant's remembers whether it has seen one.  An upsert deletes, *)
(* embeds and writes in separate calls, in an order of its own in each     *)
(* backend, and nothing keeps two upserts of one document apart.           *)
(*                                                                         *)
(* Embedding models differ in the dimension of their vectors, which the    *)
(* first write to a collection fixes.  What is embedded when is the        *)
(* business of EmbedFreshness.                                             *)
(***************************************************************************)
EXTENDS Integers, FiniteSets, Sequences

CONSTANTS
  Docs,
  Texts,        \* texts documents are embedded with
  NoText,       \* nothing to embed: an empty document, or a purge
  SizeOf,       \* chunks a text is split into
  Spaces,       \* embedding models
  NoSpace, NoDoc,
  Embedders,    \* tasks that upsert, each with the store object it was given
  Failures,     \* subset of {"look", "embed", "delete", "load", "build", "reset"}
  MaxEvents     \* bound: upserts, requests and restarts in all

Stores  == {"chroma", "qdrant"}
Configs == [store : Stores, space : Spaces]

ASSUME StoresAssumption ==
  /\ SizeOf \in [Texts \cup {NoText} -> Nat]
  /\ SizeOf[NoText] = 0 /\ \A x \in Texts : SizeOf[x] > 0
  /\ NoText \notin Texts /\ NoSpace \notin Spaces /\ NoDoc \notin Docs
  /\ Texts \cap {"none", "part", "torn"} = {}
  /\ Failures \subseteq {"look", "embed", "delete", "load", "build", "reset"}
  /\ MaxEvents \in Nat

Missing == 0     \* no collection; also: no store object
Chunk == [doc : Docs, at : Nat, text : Texts]

VARIABLES
  points,      \* the chunks in a store
  dim,         \* the model whose dimension its collection has
  collection,  \* the number of its collection: a reset makes another one
  objects,     \* the store objects made: [store, space, collection it has seen]
  live,        \* app.state.vector_store
  config,      \* the settings in memory
  saved,       \* the settings in the database
  \* embedders
  pc, obj, doc, text, listed, embedded,
  \* the request of the administrator
  step, op, before, src, dst, dump, dumpSpace, outcome,
  prompted,    \* needs_reindex was answered, and the store not emptied since
  events,
  \* history, read by no action
  torn,        \* documents that two writers, or a failed delete, have mixed up
  dumpTorn,    \* those of them that were dumped
  touched,     \* documents of a store written or deleted during a migration
  muddled      \* stores that may hold another model's vectors unannounced

store     == <<points, dim, collection>>
embedders == <<pc, obj, doc, text, listed, embedded>>
request   == <<step, op, before, src, dst, dump, dumpSpace, outcome>>
settings  == <<live, config, saved, prompted>>
history   == <<torn, dumpTorn, touched, muddled>>
vars == <<store, objects, embedders, request, settings, events, history>>

-----------------------------------------------------------------------------
StoreOf(o) == objects[o].store
Of(ps, d) == {c \in ps : c.doc = d}
Id(c) == <<c.doc, c.at>>

\* The points ps after new has been written over them.
Over(ps, new) == {c \in ps : Id(c) \notin {Id(n) : n \in new}} \cup new

\* Object o finds the collection it has opened.  Chroma's handle is stale once
\* another object has reset the store; Qdrant's finds any collection of its name.
Reaches(o) ==
  LET s == StoreOf(o) IN
  collection[s] # Missing /\ (s = "chroma" => objects[o].collection = collection[s])

\* A Qdrant object that has seen its collection never looks again.
Seen(o) == objects[o].collection # Missing

\* _collection_present: object o has looked for its collection, ...
Looked(o) ==
  [objects EXCEPT ![o].collection =
     IF StoreOf(o) = "qdrant" /\ collection["qdrant"] # Missing THEN 1 ELSE @]

\* ... or takes it for missing: because it is, or because the look fails.
Overlooks(o) ==
  StoreOf(o) = "qdrant" /\ ~Seen(o) /\ (collection["qdrant"] = Missing \/ "look" \in Failures)

Fits(o) == dim[StoreOf(o)] \in {NoSpace, objects[o].space}

NewCollection(s) == IF s = "chroma" THEN events + 1 ELSE 1

\* _ensure_collection: unless object o has seen its Qdrant collection, it looks
\* for it and makes it, for vectors of model m, if it is not there.
Ensure(o, m) ==
  LET new == ~Seen(o) /\ collection["qdrant"] = Missing IN
  /\ collection' = [collection EXCEPT !["qdrant"] = IF new THEN 1 ELSE @]
  /\ dim' = [dim EXCEPT !["qdrant"] = IF new THEN m ELSE @]
  /\ objects' = [objects EXCEPT ![o].collection = 1]

\* A new object for configuration c; Chroma's opens its collection or makes one.
Make(c) ==
  LET s == c.store
      opened == s = "chroma"
      n == IF opened /\ collection[s] = Missing THEN NewCollection(s) ELSE collection[s]
  IN /\ collection' = [collection EXCEPT ![s] = n]
     /\ objects' = Append(objects, [store |-> s, space |-> c.space,
                                    collection |-> IF opened THEN n ELSE Missing])

\* The settings object o was made for.
Identity(o) == [store |-> objects[o].store, space |-> objects[o].space]

\* The model of object o is not, or will not be, that of the live store.
Foreign(o) ==
  live = Missing \/ objects[o].space # objects[live].space \/ objects[o].space # config.space

Muddle(s, condition) == IF condition THEN muddled \cup {s} ELSE muddled

\* Store s is emptied, and its collection is gone.
Empty(s) ==
  /\ points' = [points EXCEPT ![s] = {}]
  /\ dim' = [dim EXCEPT ![s] = NoSpace]
  /\ collection' = [collection EXCEPT ![s] = Missing]
  /\ torn' = {td \in torn : td[1] # s}

Event == events < MaxEvents /\ events' = events + 1

\* Embedder e has begun to replace the chunks of document d in store s.
Replaces(e, s, d) ==
  /\ pc[e] # "idle" /\ doc[e] = d /\ StoreOf(obj[e]) = s
  /\ pc[e] \in IF s = "chroma" THEN {"delete", "embed", "write"} ELSE {"write"}

Contended(e, s, d) == \E u \in Embedders \ {e} : Replaces(u, s, d)

Touch(s, d) == touched' = touched \cup {<<s, d>>}

Go(e, p) == pc' = [pc EXCEPT ![e] = p] /\ UNCHANGED <<obj, doc, text>>

\* Embedder e is done with its document.
Quit(e) ==
  /\ pc' = [pc EXCEPT ![e] = "idle"]
  /\ obj' = [obj EXCEPT ![e] = Missing]
  /\ doc' = [doc EXCEPT ![e] = NoDoc]
  /\ text' = [text EXCEPT ![e] = NoText]
  /\ listed' = [listed EXCEPT ![e] = {}]
  /\ embedded' = [embedded EXCEPT ![e] = {}]

Init ==
  /\ config \in Configs /\ saved = config
  /\ collection = [s \in Stores |-> IF s = "chroma" /\ config.store = s THEN 1 ELSE Missing]
  /\ objects = << [store |-> config.store, space |-> config.space,
                   collection |-> collection[config.store]] >>
  /\ live = 1
  /\ points = [s \in Stores |-> {}]
  /\ dim = [s \in Stores |-> NoSpace]
  /\ pc = [e \in Embedders |-> "idle"]
  /\ obj = [e \in Embedders |-> Missing]
  /\ doc = [e \in Embedders |-> NoDoc]
  /\ text = [e \in Embedders |-> NoText]
  /\ listed = [e \in Embedders |-> {}]
  /\ embedded = [e \in Embedders |-> {}]
  /\ step = "idle" /\ op = "none" /\ before = config
  /\ src = Missing /\ dst = Missing /\ dump = {} /\ dumpSpace = NoSpace /\ outcome = "none"
  /\ prompted = FALSE /\ events = 0
  /\ torn = {} /\ dumpTorn = {} /\ touched = {} /\ muddled = {}

-----------------------------------------------------------------------------
(* Upserts.                                                                *)

\* Document d is to be embedded with text x: the task gets the live store.
StartUpsert(e, d, x) ==
  /\ pc[e] = "idle" /\ live # Missing
  /\ obj' = [obj EXCEPT ![e] = live]
  /\ doc' = [doc EXCEPT ![e] = d]
  /\ text' = [text EXCEPT ![e] = x]
  /\ pc' = [pc EXCEPT ![e] = IF StoreOf(live) = "chroma" THEN "list"
                             ELSE IF x = NoText THEN "delete" ELSE "embed"]
  /\ step # "heal" /\ Event
  /\ UNCHANGED <<listed, embedded, store, objects, request, settings, history>>

\* Chroma: the ids of the chunks to be deleted; a failing call is swallowed.
ListChunks(e) ==
  /\ pc[e] = "list"
  /\ IF Reaches(obj[e])
       THEN listed' = [listed EXCEPT ![e] = {Id(c) : c \in Of(points["chroma"], doc[e])}]
       ELSE UNCHANGED listed
  /\ Go(e, "delete")
  /\ UNCHANGED <<embedded, store, objects, request, settings, events, history>>

\* Mutants of Deleted.
DeletedOverwritten(e) ==
  {c \in Of(points[StoreOf(obj[e])], doc[e]) : c.at < SizeOf[text[e]]}
DeletedFirst(e) == {c \in Of(points[StoreOf(obj[e])], doc[e]) : c.at = 0}

\* The chunks of the document that go: by id in Chroma, by filter in Qdrant.
Deleted(e) ==
  LET s == StoreOf(obj[e]) IN
  IF s = "chroma" THEN {c \in points[s] : Id(c) \in listed[e]} ELSE Of(points[s], doc[e])

\* Embedder e goes on after the delete.
AfterDelete(e) ==
  IF text[e] = NoText THEN Quit(e)
  ELSE /\ Go(e, IF StoreOf(obj[e]) = "chroma" THEN "embed" ELSE "write")
       /\ listed' = [listed EXCEPT ![e] = {}]
       /\ UNCHANGED embedded

DeleteChunks(e) ==
  /\ pc[e] = "delete"
  /\ LET s == StoreOf(obj[e])
         rest == points[s] \ Deleted(e)
     IN /\ Reaches(obj[e])
        /\ points' = [points EXCEPT ![s] = rest]
        /\ torn' = IF Of(rest, doc[e]) = {} /\ ~Contended(e, s, doc[e])
                     THEN torn \ {<<s, doc[e]>>} ELSE torn
        /\ Touch(s, doc[e])
  /\ objects' = Looked(obj[e])
  /\ AfterDelete(e)
  /\ UNCHANGED <<dim, collection, request, settings, events, dumpTorn, muddled>>

\* The delete, or the look before it, fails, which is swallowed.
DeleteFails(e) ==
  /\ pc[e] = "delete"
  /\ \/ Overlooks(obj[e]) /\ UNCHANGED objects
     \/ ("delete" \in Failures \/ ~Reaches(obj[e])) /\ objects' = Looked(obj[e])
  /\ LET s == StoreOf(obj[e]) IN
       torn' = IF Of(points[s], doc[e]) = {} THEN torn ELSE torn \cup {<<s, doc[e]>>}
  /\ AfterDelete(e)
  /\ UNCHANGED <<store, request, settings, events, dumpTorn, touched, muddled>>

\* _embed_many: a failed batch leaves its chunks out; if none is left, the
\* upsert raises.
Embed(e) ==
  /\ pc[e] = "embed"
  /\ \E ok \in SUBSET (0..(SizeOf[text[e]] - 1)) :
       /\ "embed" \notin Failures => Cardinality(ok) = SizeOf[text[e]]
       /\ IF ok = {} THEN Quit(e)
          ELSE /\ embedded' = [embedded EXCEPT ![e] = ok]
               /\ Go(e, IF StoreOf(obj[e]) = "chroma" THEN "write" ELSE "ensure")
               /\ UNCHANGED listed
  /\ UNCHANGED <<store, objects, request, settings, events, history>>

\* Qdrant: the collection is made on the first write.
EnsureCollection(e) ==
  /\ pc[e] = "ensure"
  /\ Ensure(obj[e], objects[obj[e]].space)
  /\ muddled' = Muddle("qdrant", dim' # dim /\ Foreign(obj[e]))
  /\ Go(e, "delete")
  /\ UNCHANGED <<listed, embedded, points, request, settings, events,
                 torn, dumpTorn, touched>>

\* The chunks are written over those of the same ids.
WriteChunks(e) ==
  /\ pc[e] = "write"
  /\ LET o == obj[e]
         s == StoreOf(o)
         new == {[doc |-> doc[e], at |-> i, text |-> text[e]] : i \in embedded[e]}
     IN /\ Reaches(o) /\ Fits(o)
        /\ points' = [points EXCEPT ![s] = Over(@, new)]
        /\ dim' = [dim EXCEPT ![s] = objects[o].space]
        /\ torn' = IF Contended(e, s, doc[e]) THEN torn \cup {<<s, doc[e]>>} ELSE torn
        /\ Touch(s, doc[e])
        /\ muddled' = Muddle(s, dim' # dim /\ Foreign(o))
  /\ Quit(e)
  /\ UNCHANGED <<collection, objects, request, settings, events, dumpTorn>>

\* The collection is not there any more, or has another dimension.
WriteFails(e) ==
  /\ pc[e] = "write"
  /\ ~Reaches(obj[e]) \/ ~Fits(obj[e])
  /\ Quit(e)
  /\ UNCHANGED <<store, objects, request, settings, events, history>>

-----------------------------------------------------------------------------
(* The requests of the administrator, one at a time.                       *)

\* The request is over; needs says whether it answered needs_reindex.
Answer(needs) ==
  /\ step' = "idle" /\ op' = "none"
  /\ src' = Missing /\ dst' = Missing
  /\ dump' = {} /\ dumpSpace' = NoSpace /\ outcome' = "none"
  /\ before' = config /\ UNCHANGED config
  /\ prompted' = (prompted \/ needs)

\* PUT /api/settings: the settings are replaced, then written to the database.
Save(c) ==
  /\ step = "idle" /\ Event
  /\ step' = "persist" /\ op' = "save"
  /\ before' = config /\ config' = c
  /\ muddled' = Muddle(c.store, live = Missing \/ config # Identity(live))
  /\ UNCHANGED <<src, dst, dump, dumpSpace, outcome, live, saved, prompted, store, objects, embedders,
                 torn, dumpTorn, touched>>

\* Mutants of MustMigrate and MustReindex.
MustMigrateBlindly == config.store # before.store /\ config.space = before.space
MustReindexAfterSwitch == config.store # before.store

\* Only a store of another backend with the same model can take over the points.
MustMigrate == config.store # before.store /\ config.space = before.space /\ live # Missing

MustReindex == config.store # before.store \/ config.space # before.space

\* The new store is made; unless it has to be migrated to, it is live at once.
Rebuild ==
  /\ step = "persist"
  /\ saved' = config
  /\ Make(config)
  /\ LET o == Len(objects) + 1 IN
       IF MustMigrate
         THEN /\ step' = "check" /\ src' = live /\ dst' = o
              /\ touched' = {}
              /\ UNCHANGED <<op, before, dump, dumpSpace, outcome, live, config, prompted>>
         ELSE /\ live' = o /\ Answer(MustReindex)
              /\ UNCHANGED touched
  /\ UNCHANGED <<points, dim, embedders, events, torn, dumpTorn, muddled>>

\* The store cannot be made: the old one stays, and the answer does not tell.
RebuildFails ==
  /\ step = "persist" /\ "build" \in Failures
  /\ saved' = config
  /\ Answer(FALSE)
  /\ UNCHANGED <<live, store, objects, embedders, events, history>>

\* POST /api/vector/migrate: from the local Chroma store to the live one, whatever
\* model the vectors are of: docs/SETTINGS.md:98 asks for it only if that is unchanged.
Migrate ==
  /\ step = "idle" /\ Event
  /\ live # Missing /\ config.store # "chroma"
  /\ Make([store |-> "chroma", space |-> config.space])
  /\ step' = "check" /\ op' = "migrate"
  /\ src' = Len(objects) + 1 /\ dst' = live /\ touched' = {}
  /\ UNCHANGED <<before, dump, dumpSpace, outcome, points, dim, embedders, settings,
                 torn, dumpTorn, muddled>>

\* The migration is over.
Migrated(result) ==
  /\ step' = "swap" /\ outcome' = result /\ dump' = {} /\ dumpSpace' = NoSpace
  /\ UNCHANGED <<op, before, src, dst>>

\* migrate_embeddings: is there something to copy?  The answer for a source that is
\* overlooked is that of an empty one.
CheckSource ==
  /\ step = "check"
  /\ LET none == points[StoreOf(src)] = {} IN
       \/ /\ Reaches(src) /\ objects' = Looked(src)
          /\ IF none THEN Migrated("empty")
             ELSE step' = "target" /\ UNCHANGED <<op, before, src, dst, dump, dumpSpace, outcome>>
       \/ /\ Overlooks(src) /\ UNCHANGED objects
          /\ Migrated(IF none THEN "empty" ELSE "overlooked")
  /\ UNCHANGED <<store, embedders, settings, events, history>>

\* Is there something already?
CheckTarget ==
  /\ step = "target"
  /\ \/ /\ Reaches(dst) /\ objects' = Looked(dst)
        /\ IF points[StoreOf(dst)] # {} THEN Migrated("kept")
           ELSE step' = "dump" /\ UNCHANGED <<op, before, src, dst, dump, dumpSpace, outcome>>
     \/ /\ Overlooks(dst) /\ UNCHANGED objects
        /\ step' = "dump" /\ UNCHANGED <<op, before, src, dst, dump, dumpSpace, outcome>>
  /\ UNCHANGED <<store, embedders, settings, events, history>>

\* A mutant of Dumped.
DumpedPage(s) == {c \in points[s] : c.at = 0}

\* dump_points reads page after page until there is none left.
Dumped(s) == points[s]

\* The object has seen its collection when it counted: it does not look again.
DumpPoints ==
  /\ step = "dump" /\ Reaches(src)
  /\ LET ps == Dumped(StoreOf(src)) IN
       IF ps = {} THEN Migrated("empty") /\ UNCHANGED dumpTorn
       ELSE /\ step' = "load" /\ dump' = ps /\ dumpSpace' = dim[StoreOf(src)]
            /\ dumpTorn' = {d \in Docs : <<StoreOf(src), d>> \in torn}
            /\ UNCHANGED <<op, before, src, dst, outcome>>
  /\ UNCHANGED <<store, objects, embedders, settings, events, torn, touched, muddled>>

\* The vectors of the dump have the dimension of the collection, if that has one.
Loadable == dim[StoreOf(dst)] \in {NoSpace, dumpSpace}

\* Another model's vectors come from a store of unknown contents, or by request.
Unannounced == dumpSpace # objects[dst].space /\ (op = "migrate" \/ StoreOf(src) \in muddled)

\* load_points writes over what is there by now; its answer may be lost.
LoadPoints ==
  /\ step = "load" /\ Loadable
  /\ LET s == StoreOf(dst) IN
       /\ IF s = "qdrant"
            THEN /\ Seen(dst) => collection[s] # Missing
                 /\ Ensure(dst, dumpSpace)
            ELSE /\ Reaches(dst)
                 /\ dim' = [dim EXCEPT ![s] = dumpSpace]
                 /\ UNCHANGED <<collection, objects>>
       /\ points' = [points EXCEPT ![s] = Over(@, dump)]
       /\ torn' = torn \cup {<<s, c.doc>> : c \in
                    {x \in dump : \/ x.doc \in dumpTorn \/ Of(points[s], x.doc) # {}
                                  \/ \E e \in Embedders : Replaces(e, s, x.doc)}}
       /\ muddled' = Muddle(s, Unannounced)
  /\ Migrated("copied") \/ ("load" \in Failures /\ Migrated("failed"))
  /\ dumpTorn' = {}
  /\ UNCHANGED <<embedders, settings, events, touched>>

\* The collection is made, and nothing is written to it.
LoadFails ==
  /\ step = "load" /\ "load" \in Failures /\ StoreOf(dst) = "qdrant"
  /\ Ensure(dst, dumpSpace)
  /\ muddled' = Muddle("qdrant", Unannounced)
  /\ Migrated("failed") /\ dumpTorn' = {}
  /\ UNCHANGED <<points, embedders, settings, events, torn, touched>>

\* A call of the migration fails: the index has to be built anew.
MigrationFails ==
  /\ step \in {"check", "target", "dump", "load"}
  /\ \/ "load" \in Failures
     \/ step = "check" /\ ~Reaches(src) /\ ~Overlooks(src)
     \/ step = "target" /\ ~Reaches(dst) /\ ~Overlooks(dst)
     \/ step = "dump" /\ ~Reaches(src)
     \/ step = "load" /\ ~Loadable
  /\ Migrated("failed") /\ dumpTorn' = {}
  /\ UNCHANGED <<store, objects, embedders, settings, events, torn, touched, muddled>>

\* After the memories, the new store becomes the live one.
Swap ==
  /\ step = "swap"
  /\ live' = IF op = "save" THEN dst ELSE live
  /\ Answer(outcome = "failed")
  /\ touched' = {}
  /\ muddled' = Muddle(StoreOf(dst), outcome \in {"empty", "overlooked", "kept"})
  /\ UNCHANGED <<saved, store, objects, embedders, events, torn, dumpTorn>>

\* POST /api/reindex: the store is emptied, in Chroma by deleting the collection
\* and making another.  The background index that follows is an embedder.
Reindex ==
  /\ step = "idle" /\ Event /\ live # Missing
  /\ LET s == StoreOf(live) IN
       /\ s = "chroma" => collection[s] # Missing   \* else delete_collection raises
       /\ Empty(s)
       /\ IF s = "chroma" THEN step' = "recreate" /\ op' = "reindex"
                          ELSE UNCHANGED <<step, op>>
       /\ muddled' = muddled \ {s}
  /\ objects' = [objects EXCEPT ![live].collection = Missing]
  /\ prompted' = FALSE
  /\ UNCHANGED <<before, src, dst, dump, dumpSpace, outcome, live, config, saved, embedders,
                 dumpTorn, touched>>

\* Qdrant's reset swallows a failure, and the index is built into the old points.
ReindexKeeps ==
  /\ step = "idle" /\ Event /\ "reset" \in Failures
  /\ live # Missing /\ StoreOf(live) = "qdrant"
  /\ objects' = [objects EXCEPT ![live].collection = Missing]
  /\ UNCHANGED <<store, request, settings, embedders, history>>

Recreate ==
  /\ step = "recreate"
  /\ collection' = [collection EXCEPT !["chroma"] = events + 1]
  /\ objects' = [objects EXCEPT ![live].collection = events + 1]
  /\ step' = "idle" /\ op' = "none"
  /\ UNCHANGED <<before, src, dst, dump, dumpSpace, outcome, points, dim, embedders, settings,
                 events, history>>

\* POST /api/config/import replaces the settings and leaves the stores alone.
Import(c) ==
  /\ step = "idle" /\ Event
  /\ config' = c /\ saved' = c /\ before' = c
  /\ UNCHANGED <<step, op, src, dst, dump, dumpSpace, outcome, live, prompted, store, objects,
                 embedders, history>>

\* The application stops and starts, with the saved settings; its store may
\* fail to be made.
Restart ==
  /\ Event
  /\ config' = saved
  /\ \/ Make(saved) /\ live' = Len(objects) + 1
     \/ "build" \in Failures /\ live' = Missing /\ UNCHANGED <<collection, objects>>
  /\ muddled' = Muddle(saved.store, live = Missing \/ saved # Identity(live))
  /\ step' = "heal" /\ op' = "none"
  /\ src' = Missing /\ dst' = Missing
  /\ dump' = {} /\ dumpSpace' = NoSpace /\ outcome' = "none" /\ before' = saved
  /\ pc' = [e \in Embedders |-> "idle"]
  /\ obj' = [e \in Embedders |-> Missing]
  /\ doc' = [e \in Embedders |-> NoDoc]
  /\ text' = [e \in Embedders |-> NoText]
  /\ listed' = [e \in Embedders |-> {}]
  /\ embedded' = [e \in Embedders |-> {}]
  /\ dumpTorn' = {} /\ touched' = {}
  /\ UNCHANGED <<points, dim, saved, prompted, torn>>

\* _heal_dim_mismatch, before anything is indexed: a Qdrant collection of another
\* dimension is reset, if the model answers and the reset works.
Heal ==
  /\ step = "heal"
  /\ step' = "idle"
  /\ IF live # Missing /\ StoreOf(live) = "qdrant" /\ Reaches(live) /\ ~Fits(live)
       THEN \/ Empty("qdrant") /\ UNCHANGED objects
            \/ Failures \cap {"embed", "reset"} # {} /\ UNCHANGED <<store, objects, torn>>
       ELSE UNCHANGED <<store, objects, torn>>
  /\ UNCHANGED <<op, before, src, dst, dump, dumpSpace, outcome, embedders, settings, events,
                 dumpTorn, touched, muddled>>

\* A search, a count or a scan through the live store.
Look ==
  /\ live # Missing /\ step # "heal"
  /\ objects' = Looked(live)
  /\ UNCHANGED <<store, embedders, request, settings, events, history>>

Upsert(e) ==
  \/ \E d \in Docs, x \in Texts \cup {NoText} : StartUpsert(e, d, x)
  \/ ListChunks(e) \/ DeleteChunks(e) \/ DeleteFails(e)
  \/ Embed(e) \/ EnsureCollection(e) \/ WriteChunks(e) \/ WriteFails(e)

Administer ==
  \/ \E c \in Configs : Save(c) \/ Import(c)
  \/ Rebuild \/ RebuildFails \/ Migrate \/ Reindex \/ ReindexKeeps \/ Recreate
  \/ CheckSource \/ CheckTarget \/ DumpPoints \/ LoadPoints \/ LoadFails \/ MigrationFails
  \/ Swap

Next == Administer \/ Restart \/ Heal \/ Look \/ \E e \in Embedders : Upsert(e)

Spec == Init /\ [][Next]_vars

-----------------------------------------------------------------------------
(* Properties.                                                             *)

StoreOK ==
  /\ points \in [Stores -> SUBSET Chunk]
  /\ dim \in [Stores -> Spaces \cup {NoSpace}]
  /\ collection \in [Stores -> Nat]
  /\ objects \in Seq([store : Stores, space : Spaces, collection : Nat])

EmbeddersOK ==
  /\ pc \in [Embedders -> {"idle", "list", "delete", "embed", "ensure", "write"}]
  /\ obj \in [Embedders -> 0..Len(objects)]
  /\ doc \in [Embedders -> Docs \cup {NoDoc}]
  /\ text \in [Embedders -> Texts \cup {NoText}]
  /\ listed \in [Embedders -> SUBSET (Docs \X Nat)]
  /\ embedded \in [Embedders -> SUBSET Nat]
  /\ \A e \in Embedders : pc[e] # "idle" => obj[e] # Missing /\ doc[e] \in Docs

RequestOK ==
  /\ step \in {"idle", "persist", "check", "target", "dump", "load", "swap", "recreate", "heal"}
  /\ op \in {"none", "save", "migrate", "reindex"}
  /\ before \in Configs /\ config \in Configs /\ saved \in Configs
  /\ {src, dst, live} \subseteq 0..Len(objects)
  /\ dump \subseteq Chunk /\ dumpSpace \in Spaces \cup {NoSpace}
  /\ outcome \in {"none", "empty", "overlooked", "kept", "copied", "failed"}
  /\ step \in {"check", "target", "dump", "load", "swap"} => src # Missing /\ dst # Missing
  /\ step = "recreate" => live # Missing

TypeOK ==
  /\ StoreOK /\ EmbeddersOK /\ RequestOK
  /\ prompted \in BOOLEAN /\ muddled \subseteq Stores /\ events \in 0..MaxEvents
  /\ torn \subseteq Stores \X Docs /\ touched \subseteq Stores \X Docs
  /\ dumpTorn \subseteq Docs

\* The chunks ps of a document are all there are of one text.
WholeText(ps) == {x \in Texts : ps # {} /\ \A c \in ps : c.text = x}
Complete(ps) == \E x \in WholeText(ps) : Cardinality(ps) = SizeOf[x]

\* What get_indexed_chunk_counts can make of them: the total of any chunk is the
\* one it compares the count with.
CountsAsComplete(ps) == \E c \in ps : Cardinality(ps) >= SizeOf[c.text]

\* The background index takes a document for indexed exactly if it is there as a
\* whole (main.py:430-445), in either store and whatever fails, unless two
\* upserts, or a failed delete, have mixed it up and no upsert has replaced it
\* on its own since.
WholeOrDetected ==
  \A s \in Stores, d \in Docs :
    <<s, d>> \notin torn =>
      LET ps == Of(points[s], d) IN
      /\ ps # {} => WholeText(ps) # {}
      /\ CountsAsComplete(ps) <=> Complete(ps)

\* The model that embeds queries is the one the live store was filled with, or a save
\* of the settings has told the administrator to reindex (main.py:3102-3127, 3252-3263)
\* and the live store was not emptied since.  Excepted are stores that the code lets
\* part from the settings without a word: a task with an older store object filled it
\* (vector_store.py:960), a switch found it filled or nothing to copy
\* (vector_migrate.py:43-46), the vectors copied to it are of another model, for which
\* POST /api/vector/migrate does not look (main.py:3531-3582), an import changed
\* the settings, or the store could not be made (main.py:3213).
UsableOrPrompted ==
  live # Missing /\ StoreOf(live) \notin muddled => prompted \/ Fits(live)

\* A switch that says it copied the index, or found an empty one, has lost none of it:
\* what the new store gets (by a save, main.py:3165, although docs/SETTINGS.md:97 says
\* that a switch moves no vectors), is what the old one has at the swap.  Excepted are
\* documents that tasks wrote or deleted meanwhile, and a Qdrant source that was taken
\* for empty because it did not answer (vector_store.py:935-944): that index is lost.
SwitchKeepsIndex ==
  step = "swap" /\ outcome \in {"copied", "empty"} =>
    \A d \in Docs :
      {StoreOf(src), StoreOf(dst)} \X {d} \cap touched = {} =>
        Of(points[StoreOf(src)], d) \subseteq points[StoreOf(dst)]

\* The inductive invariants behind these properties.  Chunks are numbered below the
\* size of their text, and those of a document that is not torn are of one text.
Numbered(ps) == \A c \in ps : c.at < SizeOf[c.text]
OneText(ps)  == \A c1, c2 \in ps : c1.text = c2.text

ChunksOK ==
  /\ \A s \in Stores : Numbered(points[s]) /\ (collection[s] = Missing => points[s] = {})
  /\ \A s \in Stores, d \in Docs : <<s, d>> \notin torn => OneText(Of(points[s], d))
  /\ Numbered(dump) /\ \A d \in Docs \ dumpTorn : OneText(Of(dump, d))
  /\ step = "recreate" => StoreOf(live) = "chroma" /\ collection["chroma"] = Missing

\* An upsert that is about to write a document that is not torn finds it taken out;
\* one that is about to delete it has listed all there is.
WriterOK(e) ==
  LET s == StoreOf(obj[e])
      ps == Of(points[s], doc[e])
  IN /\ embedded[e] \subseteq 0..(SizeOf[text[e]] - 1)
     /\ listed[e] \subseteq {doc[e]} \X Nat
     /\ pc[e] = "idle" => embedded[e] = {}
     /\ pc[e] # "delete" => listed[e] = {}
     /\ pc[e] = "ensure" => s = "qdrant"
     /\ pc[e] # "idle" /\ <<s, doc[e]>> \notin torn =>
          /\ pc[e] = "delete" /\ s = "chroma" /\ Reaches(obj[e]) =>
               \A c \in ps : Id(c) \in listed[e]
          /\ pc[e] = "write" \/ (pc[e] = "embed" /\ s = "chroma") => ps = {}

\* What is between the dump and the swap of a switch, or of a migration.
SwitchOK ==
  /\ step = "persist" => op = "save"
  /\ step \in {"check", "target", "dump", "load", "swap"} =>
       \/ op = "save" /\ src = live /\ Identity(dst) = config
       \/ op = "migrate" /\ dst = live
  /\ step = "load" =>
       \A d \in Docs : <<StoreOf(src), d>> \notin touched =>
         Of(points[StoreOf(src)], d) \subseteq dump
  /\ step = "swap" => outcome # "none"

\* What a copy that went well has filled fits; a save that goes on unannounced started
\* from the settings the live store was made for, and copies to the other backend what
\* the same model has computed.
SpacesOK ==
  /\ step = "swap" /\ outcome = "copied" /\ StoreOf(dst) \notin muddled =>
       prompted \/ Fits(dst)
  /\ step = "persist" /\ config.store \notin muddled =>
       live # Missing /\ before = Identity(live)
  /\ step \in {"check", "target", "dump", "load"} /\ op = "save" =>
       \/ StoreOf(src) # StoreOf(dst) /\ objects[src].space = objects[dst].space
       \/ StoreOf(dst) \in muddled
  /\ step = "load" /\ op = "save" =>
       \/ dumpSpace \in {NoSpace, objects[dst].space} \/ prompted
       \/ {StoreOf(src), StoreOf(dst)} \cap muddled # {}

StoresInv ==
  /\ TypeOK /\ ChunksOK /\ \A e \in Embedders : WriterOK(e)
  /\ SwitchOK /\ SwitchKeepsIndex
  /\ SpacesOK /\ UsableOrPrompted

\* The state of a document in a store: the refinement mapping.
Standing(s, d) ==
  LET ps == Of(points[s], d) IN
  IF <<s, d>> \in torn THEN "torn"
  ELSE IF ps = {} THEN "none"
  ELSE IF Complete(ps) THEN CHOOSE x \in WholeText(ps) : TRUE
  ELSE "part"

index == [s \in Stores |-> [d \in Docs |-> Standing(s, d)]]

Abstract == INSTANCE DocumentIndex WITH index <- index

\* The stores implement the index of documents: of the chunks that are written,
\* deleted, dumped and loaded one by one, no mixture of two texts is ever seen.
IndexSpec == Abstract!Spec
=============================================================================
