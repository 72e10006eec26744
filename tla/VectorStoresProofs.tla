------------------------- MODULE VectorStoresProofs -------------------------
(***************************************************************************)
(* Proofs about VectorStores, for any documents, texts, embedding models,  *)
(* embedders and failures, and any number of requests and restarts.        *)
(***************************************************************************)
EXTENDS VectorStores, SequenceTheorems, FiniteSetTheorems, TLAPS

\* The invariant has three parts besides the types: the chunks and who writes them,
\* the steps of a switch, and whose model a store is filled with.
ChunkPart  == ChunksOK /\ \A e \in Embedders : WriterOK(e)
SwitchPart == SwitchOK /\ SwitchKeepsIndex
SpacePart  == SpacesOK /\ UsableOrPrompted

LEMMA InvParts ==
  /\ StoresInv <=> TypeOK /\ ChunkPart /\ SwitchPart /\ SpacePart
  /\ StoresInv' <=> TypeOK' /\ ChunkPart' /\ SwitchPart' /\ SpacePart'
  BY DEF StoresInv, ChunkPart, SwitchPart, SpacePart

LEMMA Constants ==
  /\ \A x \in Texts \cup {NoText} : SizeOf[x] \in Nat
  /\ SizeOf[NoText] = 0 /\ \A x \in Texts : SizeOf[x] > 0
  /\ NoText \notin Texts /\ NoSpace \notin Spaces /\ NoDoc \notin Docs
  /\ \A x \in Texts : x \notin {"none", "part", "torn"}
  /\ MaxEvents \in Nat
  BY StoresAssumption

-----------------------------------------------------------------------------
(* Store objects.                                                          *)

ObjectType == [store : Stores, space : Spaces, collection : Nat]

LEMMA ObjectTypes ==
  ASSUME TypeOK
  PROVE  /\ objects \in Seq(ObjectType) /\ Len(objects) \in Nat
         /\ \A o \in 1..Len(objects) : /\ objects[o] \in ObjectType /\ StoreOf(o) \in Stores
                                       /\ objects[o].space \in Spaces
                                       /\ objects[o].collection \in Nat
<1>1. objects \in Seq(ObjectType) /\ Len(objects) \in Nat
  BY DEF TypeOK, StoreOK, ObjectType
<1>2. \A o \in 1..Len(objects) : objects[o] \in ObjectType
  BY <1>1, ElementOfSeq
<1>. QED  BY <1>1, <1>2 DEF ObjectType, StoreOf

\* No store object changes its store or its model, and none goes away.
ObjectsKeep ==
  /\ Len(objects) \in Nat /\ Len(objects') \in Nat /\ Len(objects) <= Len(objects')
  /\ \A o \in 1..Len(objects) : /\ StoreOf(o)' = StoreOf(o) /\ Identity(o)' = Identity(o)
                                /\ objects'[o].space = objects[o].space

LEMMA ObjectsSame ==
  ASSUME TypeOK, UNCHANGED objects
  PROVE  ObjectsKeep
  BY ObjectTypes DEF ObjectsKeep, StoreOf, Identity

\* An object finds, opens or loses its collection.
LEMMA ObjectOpens ==
  ASSUME TypeOK, NEW o \in 1..Len(objects), NEW n \in Nat,
         objects' = [objects EXCEPT ![o].collection = n]
  PROVE  /\ ObjectsKeep /\ objects' \in Seq(ObjectType) /\ Len(objects') = Len(objects)
         /\ objects'[o].collection = n
         /\ \A p \in 1..Len(objects) : p # o => objects'[p] = objects[p]
<1>. DEFINE new == [objects[o] EXCEPT !.collection = n]
<1>1. objects \in Seq(ObjectType) /\ objects[o] \in ObjectType /\ Len(objects) \in Nat
  BY ObjectTypes
<1>2. new \in ObjectType /\ new.collection = n
      /\ new.store = objects[o].store /\ new.space = objects[o].space
  BY <1>1 DEF ObjectType
<1>3. objects' = [objects EXCEPT ![o] = new]  OBVIOUS
<1>. HIDE DEF new
<1>4. /\ objects' \in Seq(ObjectType) /\ Len(objects') = Len(objects)
      /\ \A p \in 1..Len(objects) : objects'[p] = IF p = o THEN new ELSE objects[p]
  BY <1>1, <1>2, <1>3, ExceptSeq
<1>. QED  BY <1>1, <1>2, <1>4 DEF ObjectsKeep, StoreOf, Identity

\* A new object comes after the others, with the identity it is made for.
LEMMA ObjectMade ==
  ASSUME TypeOK, NEW c \in Configs, Make(c)
  PROVE  /\ ObjectsKeep /\ objects' \in Seq(ObjectType)
         /\ Len(objects') = Len(objects) + 1
         /\ \A o \in Nat : o = Len(objects) + 1 => Identity(o)' = c /\ StoreOf(o)' = c.store
         /\ \A o \in 1..Len(objects) : objects'[o] = objects[o]
         /\ collection' \in [Stores -> Nat]
         /\ \A s \in Stores : collection[s] # Missing => collection'[s] = collection[s]
         /\ \A s \in Stores : s # "chroma" => collection'[s] = collection[s]
<1>1. c.store \in Stores /\ c.space \in Spaces /\ c = [store |-> c.store, space |-> c.space]
  BY DEF Configs
<1>2. objects \in Seq(ObjectType) /\ Len(objects) \in Nat /\ events \in Nat
      /\ collection \in [Stores -> Nat]
  BY ObjectTypes DEF TypeOK, StoreOK
<1>. DEFINE opened == c.store = "chroma"
            n == IF opened /\ collection[c.store] = Missing THEN events + 1
                 ELSE collection[c.store]
            new == [store |-> c.store, space |-> c.space,
                    collection |-> IF opened THEN n ELSE Missing]
<1>3. collection' = [collection EXCEPT ![c.store] = n] /\ objects' = Append(objects, new)
  BY DEF Make, NewCollection
<1>4. n \in Nat /\ (collection[c.store] # Missing \/ c.store # "chroma" => n = collection[c.store])
  BY <1>1, <1>2
<1>5. new \in ObjectType /\ new.store = c.store /\ new.space = c.space
  BY <1>1, <1>4 DEF ObjectType, Missing
<1>. HIDE DEF new, n
<1>6. /\ objects' \in Seq(ObjectType) /\ Len(objects') = Len(objects) + 1
      /\ objects'[Len(objects) + 1] = new
      /\ \A o \in 1..Len(objects) : objects'[o] = objects[o]
  <2>1. objects' = Append(objects, new)  BY <1>3
  <2>2. \A seq \in Seq(ObjectType), elt \in ObjectType :
          /\ Append(seq, elt) \in Seq(ObjectType)
          /\ Len(Append(seq, elt)) = Len(seq) + 1
          /\ Append(seq, elt)[Len(seq) + 1] = elt
          /\ \A i \in 1..Len(seq) : Append(seq, elt)[i] = seq[i]
    BY AppendProperties
  <2>. QED  BY <1>2, <1>5, <2>1, <2>2, Zenon
<1>7. ObjectsKeep  BY <1>2, <1>6 DEF ObjectsKeep, StoreOf, Identity
<1>8. \A o \in Nat : o = Len(objects) + 1 => Identity(o)' = c /\ StoreOf(o)' = c.store
  BY <1>1, <1>5, <1>6 DEF Identity, StoreOf
<1>9. /\ collection' \in [Stores -> Nat]
      /\ \A s \in Stores : collection[s] # Missing => collection'[s] = collection[s]
      /\ \A s \in Stores : s # "chroma" => collection'[s] = collection[s]
  BY <1>1, <1>2, <1>3, <1>4
<1>. QED  BY <1>6, <1>7, <1>8, <1>9

\* Looking for a collection shows it to one Qdrant object, at most.
LEMMA LookedFacts ==
  ASSUME TypeOK, NEW o \in 1..Len(objects), objects' = objects \/ objects' = Looked(o)
  PROVE  /\ ObjectsKeep /\ objects' \in Seq(ObjectType)
         /\ \A p \in 1..Len(objects) : StoreOf(p) = "chroma" =>
              objects'[p].collection = objects[p].collection
<1>1. CASE UNCHANGED objects  BY <1>1, ObjectsSame, ObjectTypes
<1>2. CASE objects' = Looked(o)
  <2>. DEFINE n == IF StoreOf(o) = "qdrant" /\ collection["qdrant"] # Missing THEN 1
                   ELSE objects[o].collection
  <2>1. n \in Nat  BY ObjectTypes
  <2>2. objects' = [objects EXCEPT ![o].collection = n]  BY <1>2 DEF Looked
  <2>3. StoreOf(o) = "chroma" => n = objects[o].collection  OBVIOUS
  <2>. HIDE DEF n
  <2>4. /\ ObjectsKeep /\ objects' \in Seq(ObjectType) /\ objects'[o].collection = n
        /\ \A p \in 1..Len(objects) : p # o => objects'[p] = objects[p]
    BY <2>1, <2>2, ObjectOpens
  <2>. QED  BY <2>3, <2>4
<1>. QED  BY <1>1, <1>2

\* Making a Qdrant collection, if it is not there, for a model.
LEMMA EnsureFacts ==
  ASSUME TypeOK, NEW o \in 1..Len(objects), NEW m \in Spaces \cup {NoSpace}, Ensure(o, m)
  PROVE  /\ ObjectsKeep /\ objects' \in Seq(ObjectType) /\ Len(objects') = Len(objects)
         /\ \A p \in 1..Len(objects) : p # o => objects'[p] = objects[p]
         /\ collection' \in [Stores -> Nat] /\ dim' \in [Stores -> Spaces \cup {NoSpace}]
         /\ collection'["chroma"] = collection["chroma"] /\ dim'["chroma"] = dim["chroma"]
         /\ collection["qdrant"] # Missing => collection'["qdrant"] # Missing
         /\ dim'["qdrant"] \in {dim["qdrant"], m}
         /\ objects[o].collection = Missing => collection'["qdrant"] # Missing
<1>1. objects' = [objects EXCEPT ![o].collection = 1]  BY DEF Ensure
<1>2. /\ collection' \in [Stores -> Nat] /\ dim' \in [Stores -> Spaces \cup {NoSpace}]
      /\ collection'["chroma"] = collection["chroma"] /\ dim'["chroma"] = dim["chroma"]
      /\ collection["qdrant"] # Missing => collection'["qdrant"] # Missing
      /\ dim'["qdrant"] \in {dim["qdrant"], m}
      /\ objects[o].collection = Missing => collection'["qdrant"] # Missing
  BY DEF Ensure, Seen, TypeOK, StoreOK, Stores, Missing
<1>. QED  BY <1>1, <1>2, ObjectOpens

-----------------------------------------------------------------------------
(* Types.                                                                  *)

RestOK ==
  /\ prompted \in BOOLEAN /\ muddled \subseteq Stores /\ events \in 0..MaxEvents
  /\ torn \subseteq Stores \X Docs /\ touched \subseteq Stores \X Docs
  /\ dumpTorn \subseteq Docs

LEMMA TypeParts ==
  /\ TypeOK <=> StoreOK /\ EmbeddersOK /\ RequestOK /\ RestOK
  /\ TypeOK' <=> StoreOK' /\ EmbeddersOK' /\ RequestOK' /\ RestOK'
  BY DEF TypeOK, RestOK

\* A step that leaves a part of the state alone keeps its types.
LEMMA PartsStay ==
  /\ StoreOK /\ UNCHANGED <<store, objects>> => StoreOK'
  /\ EmbeddersOK /\ UNCHANGED embedders /\ ObjectsKeep => EmbeddersOK'
  /\ RequestOK /\ UNCHANGED <<request, settings>> /\ ObjectsKeep => RequestOK'
  /\ RestOK /\ UNCHANGED <<settings, events, history>> => RestOK'
<1>1. StoreOK /\ UNCHANGED <<store, objects>> => StoreOK'
  BY DEF StoreOK, store
<1>2. EmbeddersOK /\ UNCHANGED embedders /\ ObjectsKeep => EmbeddersOK'
  BY DEF EmbeddersOK, embedders, ObjectsKeep
<1>3. RequestOK /\ UNCHANGED <<request, settings>> /\ ObjectsKeep => RequestOK'
  BY DEF RequestOK, request, settings, ObjectsKeep
<1>4. RestOK /\ UNCHANGED <<settings, events, history>> => RestOK'
  BY DEF RestOK, settings, history
<1>. QED  BY <1>1, <1>2, <1>3, <1>4

LEMMA EventType ==
  ASSUME TypeOK, Event
  PROVE  events' \in 0..MaxEvents
  BY Constants DEF TypeOK, Event

\* What the types say of an embedder at work.
LEMMA WriterTypes ==
  ASSUME TypeOK, NEW e \in Embedders, pc[e] # "idle"
  PROVE  /\ obj[e] \in 1..Len(objects) /\ StoreOf(obj[e]) \in Stores
         /\ objects[obj[e]].space \in Spaces /\ doc[e] \in Docs
         /\ text[e] \in Texts \cup {NoText} /\ embedded[e] \subseteq Nat
<1>1. obj[e] \in 1..Len(objects)  BY ObjectTypes DEF TypeOK, EmbeddersOK, Missing
<1>. QED  BY <1>1, ObjectTypes DEF TypeOK, EmbeddersOK

LEMMA QuitType ==
  ASSUME EmbeddersOK, NEW e \in Embedders, Quit(e), ObjectsKeep
  PROVE  EmbeddersOK'
<1>1. /\ \A u \in Embedders : /\ pc'[u] = IF u = e THEN "idle" ELSE pc[u]
                              /\ obj'[u] = IF u = e THEN Missing ELSE obj[u]
                              /\ doc'[u] = IF u = e THEN NoDoc ELSE doc[u]
      /\ pc' \in [Embedders -> {"idle", "list", "delete", "embed", "ensure", "write"}]
      /\ doc' \in [Embedders -> Docs \cup {NoDoc}]
      /\ text' \in [Embedders -> Texts \cup {NoText}]
  BY DEF Quit, EmbeddersOK
<1>2. obj' \in [Embedders -> 0..Len(objects')]  BY DEF Quit, EmbeddersOK, ObjectsKeep, Missing
<1>3. /\ listed' \in [Embedders -> SUBSET (Docs \X Nat)]
      /\ embedded' \in [Embedders -> SUBSET Nat]
  BY DEF Quit, EmbeddersOK
<1>4. \A u \in Embedders : pc'[u] # "idle" => obj'[u] # Missing /\ doc'[u] \in Docs
  BY <1>1 DEF EmbeddersOK
<1>. QED  BY <1>1, <1>2, <1>3, <1>4 DEF EmbeddersOK

LEMMA GoType ==
  ASSUME EmbeddersOK, NEW e \in Embedders, pc[e] # "idle", ObjectsKeep,
         NEW p \in {"idle", "list", "delete", "embed", "ensure", "write"}, Go(e, p),
         listed' \in [Embedders -> SUBSET (Docs \X Nat)],
         embedded' \in [Embedders -> SUBSET Nat]
  PROVE  EmbeddersOK'
<1>1. /\ \A u \in Embedders : pc'[u] = IF u = e THEN p ELSE pc[u]
      /\ pc' \in [Embedders -> {"idle", "list", "delete", "embed", "ensure", "write"}]
      /\ UNCHANGED <<obj, doc, text>>
  BY DEF Go, EmbeddersOK
<1>2. obj \in [Embedders -> 0..Len(objects')]  BY DEF EmbeddersOK, ObjectsKeep
<1>. QED  BY <1>1, <1>2 DEF EmbeddersOK

LEMMA InitType == Init => TypeOK
<1>. SUFFICES ASSUME Init PROVE TypeOK
  OBVIOUS
<1>1. config.store \in Stores /\ config.space \in Spaces
  BY DEF Init, Configs
<1>2. collection \in [Stores -> Nat]  BY DEF Init, Missing
<1>. DEFINE o == [store |-> config.store, space |-> config.space,
                  collection |-> collection[config.store]]
<1>3. o \in ObjectType /\ objects = <<o>>  BY <1>1, <1>2 DEF Init, ObjectType
<1>. HIDE DEF o
<1>4. objects \in Seq(ObjectType) /\ Len(objects) = 1  BY <1>3
<1>5. StoreOK  BY <1>2, <1>4 DEF Init, StoreOK, ObjectType
<1>6. EmbeddersOK  BY <1>4 DEF Init, EmbeddersOK, Missing
<1>7. RequestOK
  <2>1. {src, dst, live} \subseteq 0..Len(objects)  BY <1>4 DEF Init, Missing
  <2>2. /\ config \in Configs /\ saved = config /\ before = config
        /\ step = "idle" /\ op = "none" /\ dump = {} /\ dumpSpace = NoSpace /\ outcome = "none"
    BY DEF Init
  <2>. QED  BY <2>1, <2>2 DEF RequestOK
<1>8. RestOK
  <2>1. /\ prompted = FALSE /\ events = 0
        /\ torn = {} /\ dumpTorn = {} /\ touched = {} /\ muddled = {}
    BY DEF Init
  <2>2. 0 \in 0..MaxEvents  BY Constants
  <2>. QED  BY <2>1, <2>2, Zenon DEF RestOK
<1>. QED  BY <1>5, <1>6, <1>7, <1>8, TypeParts

LEMMA StartUpsertType ==
  ASSUME TypeOK, NEW e \in Embedders, NEW d \in Docs, NEW x \in Texts \cup {NoText},
         StartUpsert(e, d, x)
  PROVE  TypeOK'
<1>1. ObjectsKeep /\ live \in 1..Len(objects)
  BY ObjectsSame, ObjectTypes DEF StartUpsert, TypeOK, RequestOK, Missing
<1>2. EmbeddersOK'
  <2>1. /\ \A u \in Embedders : u # e => pc'[u] = pc[u] /\ obj'[u] = obj[u] /\ doc'[u] = doc[u]
        /\ obj'[e] = live /\ doc'[e] = d
        /\ pc' \in [Embedders -> {"idle", "list", "delete", "embed", "ensure", "write"}]
        /\ obj' \in [Embedders -> 0..Len(objects)]
        /\ doc' \in [Embedders -> Docs \cup {NoDoc}]
        /\ text' \in [Embedders -> Texts \cup {NoText}]
        /\ UNCHANGED <<listed, embedded, objects>>
    BY <1>1 DEF StartUpsert, TypeOK, EmbeddersOK
  <2>. QED  BY <1>1, <2>1 DEF TypeOK, EmbeddersOK, Missing
<1>3. RestOK'  BY EventType, TypeParts DEF StartUpsert, RestOK, settings, history
<1>. QED  BY <1>1, <1>2, <1>3, PartsStay, TypeParts DEF StartUpsert

LEMMA ListChunksType ==
  ASSUME TypeOK, NEW e \in Embedders, ListChunks(e)
  PROVE  TypeOK'
<1>1. ObjectsKeep  BY ObjectsSame DEF ListChunks
<1>2. StoreOK /\ EmbeddersOK  BY TypeParts
<1>3. {Id(c) : c \in Of(points["chroma"], doc[e])} \subseteq Docs \X Nat
  BY <1>2 DEF StoreOK, Stores, Chunk, Of, Id
<1>4. listed' \in [Embedders -> SUBSET (Docs \X Nat)]
  BY <1>2, <1>3 DEF ListChunks, EmbeddersOK
<1>5. EmbeddersOK'  BY <1>1, <1>2, <1>4, GoType DEF ListChunks, EmbeddersOK
<1>. QED  BY <1>1, <1>5, PartsStay, TypeParts DEF ListChunks

LEMMA AfterDeleteType ==
  ASSUME TypeOK, NEW e \in Embedders, pc[e] = "delete", AfterDelete(e), ObjectsKeep
  PROVE  EmbeddersOK'
<1>1. EmbeddersOK  BY TypeParts
<1>2. CASE text[e] = NoText  BY <1>1, <1>2, QuitType DEF AfterDelete
<1>3. CASE text[e] # NoText
  <2>1. PICK p \in {"embed", "write"} : Go(e, p)  BY <1>3 DEF AfterDelete
  <2>2. /\ listed' \in [Embedders -> SUBSET (Docs \X Nat)]
        /\ embedded' \in [Embedders -> SUBSET Nat]
    BY <1>1, <1>3 DEF AfterDelete, EmbeddersOK
  <2>. QED  BY <1>1, <2>1, <2>2, GoType
<1>. QED  BY <1>2, <1>3

LEMMA DeleteChunksType ==
  ASSUME TypeOK, NEW e \in Embedders, DeleteChunks(e)
  PROVE  TypeOK'
<1>1. obj[e] \in 1..Len(objects)  BY WriterTypes DEF DeleteChunks
<1>2. ObjectsKeep /\ objects' \in Seq(ObjectType)  BY <1>1, LookedFacts DEF DeleteChunks
<1>3. EmbeddersOK'  BY <1>2, AfterDeleteType DEF DeleteChunks
<1>4. StoreOf(obj[e]) \in Stores /\ doc[e] \in Docs  BY WriterTypes DEF DeleteChunks
<1>5. StoreOK'  BY <1>2, <1>4, TypeParts DEF DeleteChunks, StoreOK, ObjectType
<1>6. RestOK'  BY <1>4, TypeParts DEF DeleteChunks, Touch, RestOK, settings
<1>7. RequestOK'  BY <1>2, PartsStay, TypeParts DEF DeleteChunks
<1>. QED  BY <1>3, <1>5, <1>6, <1>7, TypeParts

LEMMA DeleteFailsType ==
  ASSUME TypeOK, NEW e \in Embedders, DeleteFails(e)
  PROVE  TypeOK'
<1>1. obj[e] \in 1..Len(objects)  BY WriterTypes DEF DeleteFails
<1>2. ObjectsKeep /\ objects' \in Seq(ObjectType)  BY <1>1, LookedFacts DEF DeleteFails
<1>3. EmbeddersOK'  BY <1>2, AfterDeleteType DEF DeleteFails
<1>4. StoreOf(obj[e]) \in Stores /\ doc[e] \in Docs  BY WriterTypes DEF DeleteFails
<1>5. RestOK'  BY <1>4, TypeParts DEF DeleteFails, RestOK, settings
<1>6. StoreOK'  BY <1>2, TypeParts DEF DeleteFails, StoreOK, ObjectType, store
<1>7. RequestOK'  BY <1>2, PartsStay, TypeParts DEF DeleteFails
<1>. QED  BY <1>3, <1>5, <1>6, <1>7, TypeParts

LEMMA EmbedType ==
  ASSUME TypeOK, NEW e \in Embedders, Embed(e)
  PROVE  TypeOK'
<1>1. ObjectsKeep  BY ObjectsSame DEF Embed
<1>2. EmbeddersOK /\ text[e] \in Texts \cup {NoText}  BY TypeParts, WriterTypes DEF Embed
<1>3. EmbeddersOK'
  <2>1. PICK ok \in SUBSET (0..(SizeOf[text[e]] - 1)) :
          IF ok = {} THEN Quit(e)
          ELSE /\ embedded' = [embedded EXCEPT ![e] = ok]
               /\ Go(e, IF StoreOf(obj[e]) = "chroma" THEN "write" ELSE "ensure")
               /\ UNCHANGED listed
    BY DEF Embed
  <2>2. CASE ok = {}  BY <1>1, <1>2, <2>1, <2>2, QuitType
  <2>3. CASE ok # {}
    <3>1. ok \subseteq Nat  BY <1>2, Constants
    <3>2. /\ listed' \in [Embedders -> SUBSET (Docs \X Nat)]
          /\ embedded' \in [Embedders -> SUBSET Nat]
      BY <1>2, <2>1, <2>3, <3>1 DEF EmbeddersOK
    <3>3. PICK p \in {"write", "ensure"} : Go(e, p)  BY <2>1, <2>3
    <3>. QED  BY <1>1, <1>2, <3>2, <3>3, GoType DEF Embed
  <2>. QED  BY <2>2, <2>3
<1>. QED  BY <1>1, <1>3, PartsStay, TypeParts DEF Embed

LEMMA EnsureCollectionType ==
  ASSUME TypeOK, NEW e \in Embedders, EnsureCollection(e)
  PROVE  TypeOK'
<1>1. obj[e] \in 1..Len(objects) /\ objects[obj[e]].space \in Spaces
  BY WriterTypes DEF EnsureCollection
<1>2. /\ ObjectsKeep /\ objects' \in Seq(ObjectType)
      /\ collection' \in [Stores -> Nat] /\ dim' \in [Stores -> Spaces \cup {NoSpace}]
  BY <1>1, EnsureFacts DEF EnsureCollection
<1>3. StoreOK'  BY <1>2, TypeParts DEF EnsureCollection, StoreOK, ObjectType
<1>4. EmbeddersOK'  BY <1>2, TypeParts, GoType DEF EnsureCollection, EmbeddersOK
<1>5. RestOK'  BY TypeParts DEF EnsureCollection, Muddle, RestOK, settings, Stores
<1>6. RequestOK'  BY <1>2, PartsStay, TypeParts DEF EnsureCollection
<1>. QED  BY <1>3, <1>4, <1>5, <1>6, TypeParts

LEMMA WriteChunksType ==
  ASSUME TypeOK, ChunkPart, NEW e \in Embedders, WriteChunks(e)
  PROVE  TypeOK'
<1>1. ObjectsKeep  BY ObjectsSame DEF WriteChunks
<1>2. EmbeddersOK'  BY <1>1, QuitType, TypeParts DEF WriteChunks
<1>. DEFINE s == StoreOf(obj[e])
            new == {[doc |-> doc[e], at |-> i, text |-> text[e]] : i \in embedded[e]}
<1>3. /\ s \in Stores /\ doc[e] \in Docs /\ objects[obj[e]].space \in Spaces
      /\ text[e] \in Texts \cup {NoText} /\ embedded[e] \subseteq Nat
  BY WriterTypes DEF WriteChunks
<1>4. StoreOK'
  <2>1. text[e] = NoText => embedded[e] = {}
    <3>1. embedded[e] \subseteq 0..(SizeOf[text[e]] - 1)  BY DEF ChunkPart, WriterOK
    <3>2. 0..(0 - 1) = {}  OBVIOUS
    <3>. QED  BY <3>1, <3>2, Constants
  <2>2. new \subseteq Chunk  BY <1>3, <2>1 DEF Chunk
  <2>3. Over(points[s], new) \subseteq Chunk
    BY <1>3, <2>2, TypeParts DEF Over, StoreOK
  <2>4. /\ points' = [points EXCEPT ![s] = Over(points[s], new)]
        /\ dim' = [dim EXCEPT ![s] = objects[obj[e]].space]
        /\ UNCHANGED <<collection, objects>>
    BY DEF WriteChunks
  <2>5. StoreOK  BY TypeParts
  <2>. HIDE DEF new, s
  <2>. QED  BY <1>3, <2>3, <2>4, <2>5 DEF StoreOK
<1>5. RestOK'  BY <1>3, TypeParts DEF WriteChunks, Touch, Muddle, RestOK, settings
<1>6. RequestOK'  BY <1>1, PartsStay, TypeParts DEF WriteChunks
<1>. QED  BY <1>2, <1>4, <1>5, <1>6, TypeParts

LEMMA WriteFailsType ==
  ASSUME TypeOK, NEW e \in Embedders, WriteFails(e)
  PROVE  TypeOK'
<1>1. ObjectsKeep  BY ObjectsSame DEF WriteFails
<1>2. EmbeddersOK'  BY <1>1, QuitType, TypeParts DEF WriteFails
<1>. QED  BY <1>1, <1>2, PartsStay, TypeParts DEF WriteFails

\* The steps of the administrator leave the embedders alone.
LEMMA SaveType ==
  ASSUME TypeOK, NEW c \in Configs, Save(c)
  PROVE  TypeOK'
<1>1. ObjectsKeep  BY ObjectsSame DEF Save
<1>2. RequestOK'  BY TypeParts DEF Save, RequestOK
<1>3. c.store \in Stores  BY DEF Configs
<1>4. RestOK'  BY <1>3, EventType, TypeParts DEF Save, RestOK, Muddle
<1>. QED  BY <1>1, <1>2, <1>4, PartsStay, TypeParts DEF Save

\* The end of a request.
LEMMA AnswerType ==
  ASSUME TypeOK, NEW needs \in BOOLEAN, Answer(needs), ObjectsKeep, saved' \in Configs,
         live' \in 0..Len(objects')
  PROVE  RequestOK' /\ prompted' \in BOOLEAN
<1>1. config \in Configs /\ prompted \in BOOLEAN  BY DEF TypeOK, RequestOK
<1>2. {src', dst', live'} \subseteq 0..Len(objects')  BY DEF Answer, Missing, ObjectsKeep
<1>3. dumpSpace' \in Spaces \cup {NoSpace} /\ dump' = {}  BY DEF Answer
<1>. QED  BY <1>1, <1>2, <1>3 DEF Answer, RequestOK

LEMMA RebuildType ==
  ASSUME TypeOK, Rebuild
  PROVE  TypeOK'
<1>1. config \in Configs /\ TypeOK /\ RequestOK  BY TypeParts DEF RequestOK
<1>2. /\ ObjectsKeep /\ objects' \in Seq(ObjectType) /\ Len(objects') = Len(objects) + 1
      /\ collection' \in [Stores -> Nat]
  BY <1>1, ObjectMade DEF Rebuild
<1>3. StoreOK'  BY <1>2, TypeParts DEF Rebuild, StoreOK, ObjectType
<1>4. Len(objects) \in Nat /\ Len(objects) + 1 \in 1..Len(objects')
  BY <1>2 DEF ObjectsKeep
<1>5. CASE MustMigrate
  <2>1. /\ step' = "check" /\ src' = live /\ dst' = Len(objects) + 1 /\ touched' = {}
        /\ UNCHANGED <<op, before, dump, dumpSpace, outcome, live, config, prompted>>
        /\ saved' = config
    BY <1>5 DEF Rebuild
  <2>2. live \in 1..Len(objects)  BY <1>1, <1>4, <1>5 DEF MustMigrate, RequestOK, Missing
  <2>3. {src', dst', live'} \subseteq 0..Len(objects')  BY <1>2, <1>4, <2>1, <2>2
  <2>4. RequestOK'  BY <1>1, <1>4, <2>1, <2>2, <2>3 DEF RequestOK, Missing
  <2>5. RestOK'  BY <2>1, TypeParts DEF Rebuild, RestOK
  <2>. QED  BY <1>2, <1>3, <2>4, <2>5, PartsStay, TypeParts DEF Rebuild
<1>6. CASE ~MustMigrate
  <2>1. live' = Len(objects) + 1 /\ Answer(MustReindex) /\ UNCHANGED touched /\ saved' = config
    BY <1>6 DEF Rebuild
  <2>2. MustReindex \in BOOLEAN  BY DEF MustReindex
  <2>3. RequestOK' /\ prompted' \in BOOLEAN
    BY <1>1, <1>2, <1>4, <2>1, <2>2, AnswerType
  <2>4. RestOK'  BY <2>1, <2>3, TypeParts DEF Rebuild, RestOK
  <2>. QED  BY <1>2, <1>3, <2>3, <2>4, PartsStay, TypeParts DEF Rebuild
<1>. QED  BY <1>5, <1>6

LEMMA RebuildFailsType ==
  ASSUME TypeOK, RebuildFails
  PROVE  TypeOK'
<1>1. ObjectsKeep  BY ObjectsSame DEF RebuildFails
<1>2. RequestOK /\ live' \in 0..Len(objects') /\ saved' \in Configs
  BY TypeParts DEF RebuildFails, RequestOK
<1>3. RequestOK' /\ prompted' \in BOOLEAN  BY <1>1, <1>2, AnswerType DEF RebuildFails
<1>4. RestOK'  BY <1>3, TypeParts DEF RebuildFails, RestOK, history
<1>. QED  BY <1>1, <1>3, <1>4, PartsStay, TypeParts DEF RebuildFails

LEMMA MigrateType ==
  ASSUME TypeOK, Migrate
  PROVE  TypeOK'
<1>. DEFINE c == [store |-> "chroma", space |-> config.space]
<1>1. RequestOK /\ c \in Configs  BY TypeParts DEF RequestOK, Configs, Stores
<1>2. /\ ObjectsKeep /\ objects' \in Seq(ObjectType) /\ Len(objects') = Len(objects) + 1
      /\ collection' \in [Stores -> Nat]
  BY <1>1, ObjectMade DEF Migrate
<1>3. StoreOK'  BY <1>2, TypeParts DEF Migrate, StoreOK, ObjectType
<1>4. Len(objects) \in Nat /\ Len(objects) + 1 \in 1..Len(objects') /\ live \in 1..Len(objects)
  BY <1>1, <1>2 DEF ObjectsKeep, Migrate, RequestOK, Missing
<1>5. /\ step' = "check" /\ op' = "migrate" /\ src' = Len(objects) + 1 /\ dst' = live
      /\ UNCHANGED <<before, dump, dumpSpace, outcome, live, config, saved>>
  BY DEF Migrate, settings
<1>6. {src', dst', live'} \subseteq 0..Len(objects')  BY <1>2, <1>4, <1>5
<1>7. RequestOK'  BY <1>1, <1>4, <1>5, <1>6 DEF RequestOK, Missing
<1>8. RestOK'  BY EventType, TypeParts DEF Migrate, RestOK, settings
<1>. QED  BY <1>2, <1>3, <1>7, <1>8, PartsStay, TypeParts DEF Migrate

LEMMA MigratedType ==
  ASSUME TypeOK, step \in {"check", "target", "dump", "load"}, UNCHANGED settings, ObjectsKeep,
         NEW result \in {"empty", "overlooked", "kept", "copied", "failed"}, Migrated(result)
  PROVE  RequestOK'
<1>1. RequestOK  BY TypeParts
<1>2. {src', dst', live'} \subseteq 0..Len(objects')
  BY <1>1 DEF Migrated, settings, RequestOK, ObjectsKeep
<1>. QED  BY <1>1, <1>2 DEF Migrated, settings, RequestOK

LEMMA CheckSourceType ==
  ASSUME TypeOK, CheckSource
  PROVE  TypeOK'
<1>1. src \in 1..Len(objects)
  BY ObjectTypes, TypeParts DEF CheckSource, RequestOK, Missing
<1>2. ObjectsKeep /\ objects' \in Seq(ObjectType)  BY <1>1, LookedFacts DEF CheckSource
<1>3. RequestOK'
  <2>1. CASE \E result \in {"empty", "overlooked"} : Migrated(result)
    BY <1>2, <2>1, MigratedType DEF CheckSource
  <2>2. CASE step' = "target" /\ UNCHANGED <<op, before, src, dst, dump, dumpSpace, outcome>>
    BY <1>2, <2>2, TypeParts DEF CheckSource, RequestOK, ObjectsKeep, settings
  <2>. QED  BY <2>1, <2>2 DEF CheckSource
<1>4. StoreOK'  BY <1>2, TypeParts DEF CheckSource, StoreOK, ObjectType, store
<1>. QED  BY <1>2, <1>3, <1>4, PartsStay, TypeParts DEF CheckSource

LEMMA CheckTargetType ==
  ASSUME TypeOK, CheckTarget
  PROVE  TypeOK'
<1>1. dst \in 1..Len(objects)
  BY ObjectTypes, TypeParts DEF CheckTarget, RequestOK, Missing
<1>2. ObjectsKeep /\ objects' \in Seq(ObjectType)  BY <1>1, LookedFacts DEF CheckTarget
<1>3. RequestOK'
  <2>1. CASE Migrated("kept")  BY <1>2, <2>1, MigratedType DEF CheckTarget
  <2>2. CASE step' = "dump" /\ UNCHANGED <<op, before, src, dst, dump, dumpSpace, outcome>>
    BY <1>2, <2>2, TypeParts DEF CheckTarget, RequestOK, ObjectsKeep, settings
  <2>. QED  BY <2>1, <2>2 DEF CheckTarget
<1>4. StoreOK'  BY <1>2, TypeParts DEF CheckTarget, StoreOK, ObjectType, store
<1>. QED  BY <1>2, <1>3, <1>4, PartsStay, TypeParts DEF CheckTarget

LEMMA DumpPointsType ==
  ASSUME TypeOK, DumpPoints
  PROVE  TypeOK'
<1>1. ObjectsKeep  BY ObjectsSame DEF DumpPoints
<1>2. StoreOK /\ RequestOK /\ src \in 1..Len(objects)
  BY ObjectTypes, TypeParts DEF DumpPoints, RequestOK, Missing
<1>3. StoreOf(src) \in Stores  BY <1>2, ObjectTypes
<1>4. RequestOK'
  <2>1. CASE Migrated("empty")  BY <1>1, <2>1, MigratedType DEF DumpPoints
  <2>2. CASE /\ step' = "load" /\ dump' = points[StoreOf(src)]
             /\ dumpSpace' = dim[StoreOf(src)]
             /\ UNCHANGED <<op, before, src, dst, outcome>>
    BY <1>2, <1>3, <2>2 DEF DumpPoints, RequestOK, StoreOK, settings
  <2>. QED  BY <2>1, <2>2 DEF DumpPoints, Dumped
<1>5. RestOK'  BY TypeParts DEF DumpPoints, RestOK, settings
<1>. QED  BY <1>1, <1>4, <1>5, PartsStay, TypeParts DEF DumpPoints

LEMMA LoadPointsType ==
  ASSUME TypeOK, LoadPoints
  PROVE  TypeOK'
<1>. DEFINE s == StoreOf(dst)
<1>1. StoreOK /\ RequestOK /\ RestOK /\ dst \in 1..Len(objects)
  BY ObjectTypes, TypeParts DEF LoadPoints, RequestOK, Missing
<1>2. s \in Stores /\ dumpSpace \in Spaces \cup {NoSpace}
  BY <1>1, ObjectTypes DEF RequestOK
<1>3. /\ ObjectsKeep /\ objects' \in Seq(ObjectType)
      /\ collection' \in [Stores -> Nat] /\ dim' \in [Stores -> Spaces \cup {NoSpace}]
  <2>1. CASE s = "qdrant"
    <3>1. Ensure(dst, dumpSpace)  BY <2>1 DEF LoadPoints
    <3>. QED  BY <1>1, <1>2, <3>1, EnsureFacts
  <2>2. CASE s # "qdrant"
    <3>1. dim' = [dim EXCEPT ![s] = dumpSpace] /\ UNCHANGED <<collection, objects>>
      BY <2>2 DEF LoadPoints
    <3>2. ObjectsKeep  BY <3>1, ObjectsSame
    <3>. QED  BY <1>1, <1>2, <3>1, <3>2 DEF StoreOK, ObjectType
  <2>. QED  BY <2>1, <2>2
<1>4. points' \in [Stores -> SUBSET Chunk]
  <2>1. Over(points[s], dump) \subseteq Chunk
    BY <1>1, <1>2 DEF Over, StoreOK, RequestOK
  <2>2. points' = [points EXCEPT ![s] = Over(points[s], dump)]  BY DEF LoadPoints
  <2>. QED  BY <1>1, <1>2, <2>1, <2>2 DEF StoreOK
<1>5. StoreOK'  BY <1>3, <1>4 DEF StoreOK, ObjectType
<1>6. RequestOK'  BY <1>3, MigratedType DEF LoadPoints
<1>7. RestOK'
  <2>1. \A c \in dump : <<s, c.doc>> \in Stores \X Docs
    BY <1>1, <1>2 DEF RequestOK, Chunk
  <2>2. torn' \subseteq Stores \X Docs  BY <1>1, <2>1 DEF LoadPoints, RestOK
  <2>3. muddled' \subseteq Stores  BY <1>1, <1>2 DEF LoadPoints, Muddle, RestOK
  <2>. QED  BY <1>1, <2>2, <2>3 DEF LoadPoints, RestOK, settings
<1>. QED  BY <1>3, <1>5, <1>6, <1>7, PartsStay, TypeParts DEF LoadPoints

LEMMA LoadFailsType ==
  ASSUME TypeOK, LoadFails
  PROVE  TypeOK'
<1>1. dst \in 1..Len(objects) /\ dumpSpace \in Spaces \cup {NoSpace}
  BY ObjectTypes, TypeParts DEF LoadFails, RequestOK, Missing
<1>2. /\ ObjectsKeep /\ objects' \in Seq(ObjectType)
      /\ collection' \in [Stores -> Nat] /\ dim' \in [Stores -> Spaces \cup {NoSpace}]
  BY <1>1, EnsureFacts DEF LoadFails
<1>3. StoreOK'  BY <1>2, TypeParts DEF LoadFails, StoreOK, ObjectType
<1>4. RequestOK'  BY <1>2, MigratedType DEF LoadFails
<1>5. RestOK'  BY TypeParts DEF LoadFails, Muddle, RestOK, settings, Stores
<1>. QED  BY <1>2, <1>3, <1>4, <1>5, PartsStay, TypeParts DEF LoadFails

LEMMA MigrationFailsType ==
  ASSUME TypeOK, MigrationFails
  PROVE  TypeOK'
<1>1. ObjectsKeep  BY ObjectsSame DEF MigrationFails
<1>2. RequestOK'  BY <1>1, MigratedType DEF MigrationFails
<1>3. RestOK'  BY TypeParts DEF MigrationFails, RestOK, settings
<1>. QED  BY <1>1, <1>2, <1>3, PartsStay, TypeParts DEF MigrationFails

LEMMA SwapType ==
  ASSUME TypeOK, Swap
  PROVE  TypeOK'
<1>1. ObjectsKeep  BY ObjectsSame DEF Swap
<1>2. RequestOK /\ RestOK /\ dst \in 1..Len(objects)
  BY ObjectTypes, TypeParts DEF Swap, RequestOK, Missing
<1>3. live' \in 0..Len(objects') /\ saved' \in Configs  BY <1>2 DEF Swap, RequestOK
<1>4. RequestOK' /\ prompted' \in BOOLEAN  BY <1>1, <1>3, AnswerType DEF Swap
<1>5. StoreOf(dst) \in Stores  BY <1>2, ObjectTypes
<1>6. RestOK'  BY <1>2, <1>4, <1>5 DEF Swap, Muddle, RestOK
<1>. QED  BY <1>1, <1>4, <1>6, PartsStay, TypeParts DEF Swap

LEMMA EmptyType ==
  ASSUME TypeOK, NEW s \in Stores, Empty(s)
  PROVE  /\ points' \in [Stores -> SUBSET Chunk] /\ dim' \in [Stores -> Spaces \cup {NoSpace}]
         /\ collection' \in [Stores -> Nat] /\ torn' \subseteq torn
  BY DEF Empty, TypeOK, StoreOK, Missing

LEMMA ReindexType ==
  ASSUME TypeOK, Reindex
  PROVE  TypeOK'
<1>. DEFINE s == StoreOf(live)
<1>1. RequestOK /\ RestOK /\ live \in 1..Len(objects)
  BY ObjectTypes, TypeParts DEF Reindex, RequestOK, Missing
<1>2. s \in Stores /\ Empty(s)  BY <1>1, ObjectTypes DEF Reindex
<1>3. /\ ObjectsKeep /\ objects' \in Seq(ObjectType) /\ Len(objects') = Len(objects)
  BY <1>1, ObjectOpens DEF Reindex, Missing
<1>4. StoreOK'  BY <1>2, <1>3, EmptyType DEF StoreOK, ObjectType
<1>5. RequestOK'
  <2>1. (step' = "recreate" /\ op' = "reindex") \/ UNCHANGED <<step, op>>
    BY DEF Reindex
  <2>. QED  BY <1>1, <1>3, <2>1 DEF Reindex, RequestOK, Missing
<1>6. RestOK'  BY <1>1, <1>2, EmptyType, EventType DEF Reindex, RestOK
<1>. QED  BY <1>3, <1>4, <1>5, <1>6, PartsStay, TypeParts DEF Reindex

LEMMA ReindexKeepsType ==
  ASSUME TypeOK, ReindexKeeps
  PROVE  TypeOK'
<1>1. live \in 1..Len(objects)
  BY ObjectTypes, TypeParts DEF ReindexKeeps, RequestOK, Missing
<1>2. ObjectsKeep /\ objects' \in Seq(ObjectType)
  BY <1>1, ObjectOpens DEF ReindexKeeps, Missing
<1>3. StoreOK'  BY <1>2, TypeParts DEF ReindexKeeps, StoreOK, ObjectType, store
<1>4. RestOK'  BY EventType, TypeParts DEF ReindexKeeps, RestOK, settings, history
<1>. QED  BY <1>2, <1>3, <1>4, PartsStay, TypeParts DEF ReindexKeeps

LEMMA RecreateType ==
  ASSUME TypeOK, Recreate
  PROVE  TypeOK'
<1>1. live \in 1..Len(objects) /\ events + 1 \in Nat
  BY ObjectTypes, TypeParts DEF Recreate, RequestOK, RestOK, Missing
<1>2. ObjectsKeep /\ objects' \in Seq(ObjectType)
  BY <1>1, ObjectOpens DEF Recreate
<1>3. StoreOK'  BY <1>1, <1>2, TypeParts DEF Recreate, StoreOK, ObjectType
<1>4. RequestOK'
  <2>1. step' = "idle" /\ op' = "none"
        /\ UNCHANGED <<before, src, dst, dump, dumpSpace, outcome, live, config, saved>>
    BY DEF Recreate, settings
  <2>. QED  BY <1>2, <2>1, TypeParts DEF RequestOK, ObjectsKeep
<1>. QED  BY <1>2, <1>3, <1>4, PartsStay, TypeParts DEF Recreate

LEMMA ImportType ==
  ASSUME TypeOK, NEW c \in Configs, Import(c)
  PROVE  TypeOK'
<1>1. ObjectsKeep  BY ObjectsSame DEF Import
<1>2. RequestOK'  BY TypeParts DEF Import, RequestOK
<1>3. RestOK'  BY EventType, TypeParts DEF Import, RestOK, history
<1>. QED  BY <1>1, <1>2, <1>3, PartsStay, TypeParts DEF Import

LEMMA RestartType ==
  ASSUME TypeOK, Restart
  PROVE  TypeOK'
<1>1. StoreOK /\ RequestOK /\ RestOK /\ saved \in Configs  BY TypeParts DEF RequestOK
<1>2. ObjectsKeep /\ StoreOK' /\ live' \in 0..Len(objects')
  <2>1. CASE Make(saved) /\ live' = Len(objects) + 1
    <3>1. /\ ObjectsKeep /\ objects' \in Seq(ObjectType) /\ Len(objects') = Len(objects) + 1
          /\ collection' \in [Stores -> Nat]
      BY <1>1, <2>1, ObjectMade
    <3>2. StoreOK'  BY <1>1, <3>1 DEF Restart, StoreOK, ObjectType
    <3>. QED  BY <2>1, <3>1, <3>2 DEF ObjectsKeep
  <2>2. CASE live' = Missing /\ UNCHANGED <<collection, objects>>
    <3>1. ObjectsKeep  BY <2>2, ObjectsSame
    <3>2. StoreOK'  BY <1>1, <2>2 DEF Restart, StoreOK
    <3>. QED  BY <2>2, <3>1, <3>2 DEF ObjectsKeep, Missing
  <2>. QED  BY <2>1, <2>2 DEF Restart
<1>3. EmbeddersOK'
  <2>1. /\ pc' = [e \in Embedders |-> "idle"] /\ obj' = [e \in Embedders |-> Missing]
        /\ doc' = [e \in Embedders |-> NoDoc] /\ text' = [e \in Embedders |-> NoText]
        /\ listed' = [e \in Embedders |-> {}] /\ embedded' = [e \in Embedders |-> {}]
    BY DEF Restart
  <2>2. Missing \in 0..Len(objects')  BY <1>2 DEF ObjectsKeep, Missing
  <2>. QED  BY <2>1, <2>2 DEF EmbeddersOK
<1>4. RequestOK'
  <2>1. /\ config' = saved /\ saved' = saved /\ before' = saved /\ step' = "heal" /\ op' = "none"
        /\ src' = Missing /\ dst' = Missing /\ outcome' = "none"
        /\ dump' = {} /\ dumpSpace' = NoSpace
    BY DEF Restart
  <2>2. {src', dst', live'} \subseteq 0..Len(objects')
    BY <1>2, <2>1 DEF ObjectsKeep, Missing
  <2>. QED  BY <1>1, <2>1, <2>2 DEF RequestOK
<1>5. RestOK'
  <2>1. saved.store \in Stores  BY <1>1 DEF Configs
  <2>2. /\ UNCHANGED <<prompted, torn>> /\ dumpTorn' = {} /\ touched' = {}
        /\ muddled' \subseteq muddled \cup {saved.store} /\ events' \in 0..MaxEvents
    BY EventType DEF Restart, Muddle
  <2>. QED  BY <1>1, <2>1, <2>2 DEF RestOK
<1>. QED  BY <1>2, <1>3, <1>4, <1>5, TypeParts

LEMMA HealType ==
  ASSUME TypeOK, Heal
  PROVE  TypeOK'
<1>1. ObjectsKeep  BY ObjectsSame DEF Heal
<1>2. StoreOK' /\ torn' \subseteq torn
  <2>1. CASE Empty("qdrant")
    BY <2>1, EmptyType, TypeParts DEF Heal, StoreOK, Stores
  <2>2. CASE UNCHANGED <<store, objects, torn>>
    BY <2>2, PartsStay, TypeParts
  <2>. QED  BY <2>1, <2>2 DEF Heal
<1>3. RequestOK'  BY <1>1, TypeParts DEF Heal, RequestOK, settings
<1>4. RestOK'  BY <1>2, TypeParts DEF Heal, RestOK, settings
<1>. QED  BY <1>1, <1>2, <1>3, <1>4, PartsStay, TypeParts DEF Heal

LEMMA LookType ==
  ASSUME TypeOK, Look
  PROVE  TypeOK' /\ ObjectsKeep
         /\ \A p \in 1..Len(objects) : StoreOf(p) = "chroma" =>
              objects'[p].collection = objects[p].collection
<1>1. live \in 1..Len(objects)
  BY ObjectTypes, TypeParts DEF Look, RequestOK, Missing
<1>2. /\ ObjectsKeep /\ objects' \in Seq(ObjectType)
      /\ \A p \in 1..Len(objects) : StoreOf(p) = "chroma" =>
           objects'[p].collection = objects[p].collection
  BY <1>1, LookedFacts DEF Look
<1>3. StoreOK'  BY <1>2, TypeParts DEF Look, StoreOK, ObjectType, store
<1>. QED  BY <1>2, <1>3, PartsStay, TypeParts DEF Look

LEMMA StutterType ==
  ASSUME TypeOK, UNCHANGED vars
  PROVE  TypeOK' /\ ObjectsKeep
<1>1. ObjectsKeep  BY ObjectsSame DEF vars
<1>. QED  BY <1>1, PartsStay, TypeParts DEF vars

LEMMA StepType ==
  ASSUME TypeOK, ChunkPart, [Next]_vars
  PROVE  TypeOK'
<1>1. ASSUME NEW e \in Embedders, Upsert(e) PROVE TypeOK'
  BY <1>1, StartUpsertType, ListChunksType, DeleteChunksType, DeleteFailsType, EmbedType,
     EnsureCollectionType, WriteChunksType, WriteFailsType DEF Upsert
<1>2. CASE Administer
  BY <1>2, SaveType, ImportType, RebuildType, RebuildFailsType, MigrateType, ReindexType,
     ReindexKeepsType, RecreateType, CheckSourceType, CheckTargetType, DumpPointsType,
     LoadPointsType, LoadFailsType, MigrationFailsType, SwapType DEF Administer
<1>. QED  BY <1>1, <1>2, RestartType, HealType, LookType, StutterType DEF Next

-----------------------------------------------------------------------------
(* Chunks and who writes them.                                             *)

LEMMA ChunkParts ==
  /\ ChunkPart <=> ChunksOK /\ \A e \in Embedders : WriterOK(e)
  /\ ChunkPart' <=> ChunksOK' /\ \A e \in Embedders : WriterOK(e)'
  BY DEF ChunkPart

\* The same, without the abbreviations.
LEMMA WriterParts ==
  ASSUME NEW e \in Embedders, WriterOK(e), NEW s, s = StoreOf(obj[e])
  PROVE  /\ embedded[e] \subseteq 0..(SizeOf[text[e]] - 1)
         /\ listed[e] \subseteq {doc[e]} \X Nat
         /\ pc[e] = "idle" => embedded[e] = {}
         /\ pc[e] # "delete" => listed[e] = {}
         /\ pc[e] = "ensure" => s = "qdrant"
         /\ pc[e] # "idle" /\ <<s, doc[e]>> \notin torn =>
              /\ pc[e] = "delete" /\ s = "chroma" /\ Reaches(obj[e]) =>
                   \A c \in Of(points[s], doc[e]) : Id(c) \in listed[e]
              /\ pc[e] = "write" \/ (pc[e] = "embed" /\ s = "chroma") =>
                   Of(points[s], doc[e]) = {}
  BY DEF WriterOK

SameWriter(e) ==
  /\ pc'[e] = pc[e] /\ obj'[e] = obj[e] /\ doc'[e] = doc[e] /\ text'[e] = text[e]
  /\ listed'[e] = listed[e] /\ embedded'[e] = embedded[e]

\* No step but its own makes an embedder find less than it relies on.
LEMMA WriterKeeps ==
  ASSUME TypeOK, ObjectsKeep, NEW e \in Embedders, WriterOK(e), SameWriter(e),
         \A s \in Stores :
           Replaces(e, s, doc[e]) /\ <<s, doc[e]>> \notin torn' =>
             \/ Of(points'[s], doc[e]) = {}
             \/ /\ <<s, doc[e]>> \notin torn
                /\ Of(points'[s], doc[e]) \subseteq Of(points[s], doc[e])
                /\ s = "chroma" => /\ collection'[s] = collection[s]
                                   /\ objects'[obj[e]].collection = objects[obj[e]].collection
  PROVE  WriterOK(e)'
<1>1. CASE pc[e] = "idle"
  BY <1>1 DEF SameWriter, WriterOK
<1>2. CASE pc[e] # "idle"
  <2>. DEFINE s == StoreOf(obj[e])
              d == doc[e]
  <2>1. obj[e] \in 1..Len(objects) /\ s \in Stores  BY <1>2, WriterTypes
  <2>2. StoreOf(obj[e])' = s  BY <2>1 DEF ObjectsKeep, SameWriter, StoreOf
  <2>3. /\ embedded[e] \subseteq 0..(SizeOf[text[e]] - 1)
        /\ listed[e] \subseteq {doc[e]} \X Nat
        /\ pc[e] # "delete" => listed[e] = {}
        /\ pc[e] = "ensure" => s = "qdrant"
    BY WriterParts
  <2>4. ASSUME <<s, d>> \notin torn', pc[e] = "delete", s = "chroma", Reaches(obj[e])'
        PROVE  \A c \in Of(points'[s], d) : Id(c) \in listed[e]
    <3>1. Replaces(e, s, d)  BY <1>2, <2>4 DEF Replaces
    <3>2. CASE Of(points'[s], d) = {}  BY <3>2
    <3>3. CASE /\ <<s, d>> \notin torn /\ Of(points'[s], d) \subseteq Of(points[s], d)
               /\ collection'[s] = collection[s]
               /\ objects'[obj[e]].collection = objects[obj[e]].collection
      <4>1. Reaches(obj[e])
        BY <2>2, <2>4, <3>3 DEF Reaches, SameWriter
      <4>2. \A c \in Of(points[s], d) : Id(c) \in listed[e]
        BY <2>4, <3>3, <4>1, WriterParts
      <4>. QED  BY <3>3, <4>2
    <3>. QED  BY <2>1, <2>4, <3>1, <3>2, <3>3
  <2>5. ASSUME <<s, d>> \notin torn', pc[e] = "write" \/ (pc[e] = "embed" /\ s = "chroma")
        PROVE  Of(points'[s], d) = {}
    <3>1. Replaces(e, s, d)  BY <1>2, <2>1, <2>5 DEF Replaces, Stores
    <3>2. <<s, d>> \notin torn => Of(points[s], d) = {}  BY <1>2, <2>5, WriterParts
    <3>. QED  BY <2>1, <2>5, <3>1, <3>2
  <2>. HIDE DEF s, d
  <2>. QED  BY <1>2, <2>2, <2>3, <2>4, <2>5 DEF SameWriter, WriterOK, d
<1>. QED  BY <1>1, <1>2

LEMMA QuitWriter ==
  ASSUME EmbeddersOK, NEW e \in Embedders, Quit(e)
  PROVE  WriterOK(e)' /\ \A u \in Embedders \ {e} : SameWriter(u)
<1>1. pc'[e] = "idle" /\ listed'[e] = {} /\ embedded'[e] = {}
  BY DEF Quit, EmbeddersOK
<1>2. \A u \in Embedders \ {e} : SameWriter(u)  BY DEF Quit, EmbeddersOK, SameWriter
<1>. QED  BY <1>1, <1>2 DEF WriterOK

LEMMA GoOthers ==
  ASSUME EmbeddersOK, NEW e \in Embedders, NEW p, Go(e, p),
         \A u \in Embedders \ {e} : listed'[u] = listed[u] /\ embedded'[u] = embedded[u]
  PROVE  /\ \A u \in Embedders \ {e} : SameWriter(u)
         /\ pc'[e] = p /\ obj'[e] = obj[e] /\ doc'[e] = doc[e] /\ text'[e] = text[e]
  BY DEF Go, EmbeddersOK, SameWriter

\* A step that leaves the chunks alone, and every collection that holds any.
LEMMA WritersStay ==
  ASSUME TypeOK, ChunkPart, ObjectsKeep, UNCHANGED <<points, torn>>,
         \/ points["chroma"] = {}
         \/ /\ collection'["chroma"] = collection["chroma"]
            /\ \A o \in 1..Len(objects) : StoreOf(o) = "chroma" =>
                 objects'[o].collection = objects[o].collection
  PROVE  \A e \in Embedders : SameWriter(e) => WriterOK(e)'
<1>. SUFFICES ASSUME NEW e \in Embedders, SameWriter(e) PROVE WriterOK(e)'
  OBVIOUS
<1>1. WriterOK(e)  BY ChunkParts
<1>2. ASSUME NEW s \in Stores, Replaces(e, s, doc[e]), <<s, doc[e]>> \notin torn'
      PROVE  \/ Of(points'[s], doc[e]) = {}
             \/ /\ <<s, doc[e]>> \notin torn
                /\ Of(points'[s], doc[e]) \subseteq Of(points[s], doc[e])
                /\ s = "chroma" => /\ collection'[s] = collection[s]
                                   /\ objects'[obj[e]].collection = objects[obj[e]].collection
  <2>1. obj[e] \in 1..Len(objects) /\ StoreOf(obj[e]) = s
    BY <1>2, WriterTypes DEF Replaces
  <2>. QED  BY <1>2, <2>1 DEF Of
<1>. QED  BY <1>1, <1>2, WriterKeeps

\* What an embedder's step leaves of ChunksOK.
LEMMA DumpStays ==
  ASSUME ChunksOK, UNCHANGED <<dump, dumpTorn>>
  PROVE  Numbered(dump') /\ \A d \in Docs \ dumpTorn' : OneText(Of(dump', d))
  BY DEF ChunksOK

LEMMA ChunksSame ==
  ASSUME ChunksOK, UNCHANGED <<points, collection, torn, dump, dumpTorn>>,
         step' = "recreate" => step = "recreate" /\ live' = live /\ StoreOf(live)' = StoreOf(live)
  PROVE  ChunksOK'
  BY DEF ChunksOK

LEMMA LiveStays ==
  ASSUME TypeOK, ObjectsKeep, UNCHANGED <<step, live>>
  PROVE  step' = "recreate" => step = "recreate" /\ live' = live /\ StoreOf(live)' = StoreOf(live)
<1>1. step = "recreate" => live \in 1..Len(objects)
  BY ObjectTypes DEF TypeOK, RequestOK, Missing
<1>2. ASSUME live \in 1..Len(objects) PROVE StoreOf(live)' = StoreOf(live)
  <2>1. \A o \in 1..Len(objects) : objects'[o].store = objects[o].store
    BY DEF ObjectsKeep, StoreOf
  <2>. QED  BY <1>2, <2>1 DEF StoreOf
<1>. QED  BY <1>1, <1>2

LEMMA StartUpsertChunks ==
  ASSUME TypeOK, ChunkPart, NEW e \in Embedders, NEW d \in Docs, NEW x \in Texts \cup {NoText},
         StartUpsert(e, d, x)
  PROVE  ChunkPart'
<1>1. ObjectsKeep  BY ObjectsSame DEF StartUpsert
<1>2. ChunksOK'
  BY <1>1, LiveStays, ChunksSame, ChunkParts DEF StartUpsert, store, request, settings, history
<1>3. EmbeddersOK  BY TypeParts
<1>4. /\ pc[e] = "idle" /\ obj'[e] = live /\ doc'[e] = d /\ text'[e] = x
      /\ pc'[e] = IF StoreOf(live) = "chroma" THEN "list"
                  ELSE IF x = NoText THEN "delete" ELSE "embed"
      /\ UNCHANGED <<listed, embedded, objects, torn>>
      /\ \A u \in Embedders \ {e} : SameWriter(u)
  BY <1>3 DEF StartUpsert, EmbeddersOK, SameWriter, history
<1>5. listed'[e] = {} /\ embedded'[e] = {}
  <2>1. WriterOK(e)  BY ChunkParts
  <2>. QED  BY <1>4, <2>1 DEF WriterOK
<1>6. WriterOK(e)'
  <2>1. StoreOf(obj[e])' = StoreOf(live)  BY <1>4 DEF StoreOf
  <2>. QED  BY <1>4, <1>5, <2>1 DEF WriterOK
<1>7. \A u \in Embedders : SameWriter(u) => WriterOK(u)'
  BY <1>1, WritersStay DEF StartUpsert, store, history
<1>. QED  BY <1>2, <1>4, <1>6, <1>7, ChunkParts

LEMMA ListChunksChunks ==
  ASSUME TypeOK, ChunkPart, NEW e \in Embedders, ListChunks(e)
  PROVE  ChunkPart'
<1>1. ObjectsKeep /\ EmbeddersOK /\ StoreOK  BY ObjectsSame, TypeParts DEF ListChunks
<1>2. ChunksOK'
  BY <1>1, LiveStays, ChunksSame, ChunkParts DEF ListChunks, store, request, settings, history
<1>3. /\ pc[e] = "list" /\ \A u \in Embedders \ {e} : SameWriter(u)
      /\ pc'[e] = "delete" /\ obj'[e] = obj[e] /\ doc'[e] = doc[e] /\ text'[e] = text[e]
      /\ UNCHANGED <<embedded, objects, torn, points, collection>>
  BY <1>1, GoOthers DEF ListChunks, EmbeddersOK, store, history
<1>. DEFINE ids == {Id(c) : c \in Of(points["chroma"], doc[e])}
<1>4. listed'[e] = IF Reaches(obj[e]) THEN ids ELSE listed[e]
  BY <1>1 DEF ListChunks, EmbeddersOK
<1>5. listed[e] = {} /\ embedded[e] \subseteq 0..(SizeOf[text[e]] - 1)
  BY <1>3, WriterParts, ChunkParts
<1>6. ids \subseteq {doc[e]} \X Nat
  BY <1>1 DEF Of, Id, StoreOK, Chunk, Stores
<1>7. WriterOK(e)'
  <2>1. StoreOf(obj[e])' = StoreOf(obj[e]) /\ (Reaches(obj[e])' <=> Reaches(obj[e]))
    BY <1>3 DEF StoreOf, Reaches
  <2>2. listed'[e] \subseteq {doc[e]} \X Nat  BY <1>4, <1>5, <1>6
  <2>3. ASSUME StoreOf(obj[e]) = "chroma", Reaches(obj[e])
        PROVE  \A c \in Of(points[StoreOf(obj[e])], doc[e]) : Id(c) \in listed'[e]
    BY <1>4, <2>3
  <2>. QED  BY <1>3, <1>5, <2>1, <2>2, <2>3 DEF WriterOK
<1>8. \A u \in Embedders : SameWriter(u) => WriterOK(u)'
  BY <1>1, <1>3, WritersStay
<1>. QED  BY <1>2, <1>3, <1>7, <1>8, ChunkParts

\* After its delete an embedder finds its document taken out, or torn.
LEMMA AfterDeleteWriter ==
  ASSUME TypeOK, NEW e \in Embedders, pc[e] = "delete", WriterOK(e), AfterDelete(e),
         ObjectsKeep,
         LET s == StoreOf(obj[e]) IN
           <<s, doc[e]>> \notin torn' => Of(points'[s], doc[e]) = {}
  PROVE  WriterOK(e)' /\ \A u \in Embedders \ {e} : SameWriter(u)
<1>1. EmbeddersOK  BY TypeParts
<1>2. CASE text[e] = NoText  BY <1>1, <1>2, QuitWriter DEF AfterDelete
<1>3. CASE text[e] # NoText
  <2>. DEFINE p == IF StoreOf(obj[e]) = "chroma" THEN "embed" ELSE "write"
  <2>1. /\ Go(e, p) /\ listed' = [listed EXCEPT ![e] = {}] /\ UNCHANGED embedded
    BY <1>3 DEF AfterDelete
  <2>2. \A u \in Embedders \ {e} : listed'[u] = listed[u] /\ embedded'[u] = embedded[u]
    BY <1>1, <2>1 DEF EmbeddersOK
  <2>3. /\ \A u \in Embedders \ {e} : SameWriter(u)
        /\ pc'[e] = p /\ obj'[e] = obj[e] /\ doc'[e] = doc[e] /\ text'[e] = text[e]
    BY <1>1, <2>1, <2>2, GoOthers
  <2>4. listed'[e] = {} /\ embedded'[e] = embedded[e]
        /\ embedded[e] \subseteq 0..(SizeOf[text[e]] - 1)
    BY <1>1, <2>1, WriterParts DEF EmbeddersOK
  <2>5. StoreOf(obj[e])' = StoreOf(obj[e])  BY <2>3, WriterTypes DEF ObjectsKeep, StoreOf
  <2>6. pc'[e] \in {"embed", "write"}  BY <2>3
  <2>7. WriterOK(e)'  BY <2>3, <2>4, <2>5, <2>6 DEF WriterOK
  <2>. QED  BY <2>3, <2>7
<1>. QED  BY <1>2, <1>3

LEMMA DeleteChunksChunks ==
  ASSUME TypeOK, ChunkPart, NEW e \in Embedders, DeleteChunks(e)
  PROVE  ChunkPart'
<1>. DEFINE s == StoreOf(obj[e])
            d == doc[e]
            rest == points[s] \ Deleted(e)
<1>1. /\ ObjectsKeep /\ ChunksOK /\ WriterOK(e) /\ pc[e] = "delete" /\ StoreOK
      /\ s \in Stores /\ d \in Docs
      /\ \A o \in 1..Len(objects) : StoreOf(o) = "chroma" =>
           objects'[o].collection = objects[o].collection
  BY LookedFacts, ChunkParts, WriterTypes, TypeParts DEF DeleteChunks
<1>2. /\ points' = [points EXCEPT ![s] = rest] /\ Reaches(obj[e])
      /\ torn' = IF Of(rest, d) = {} /\ ~Contended(e, s, d) THEN torn \ {<<s, d>>} ELSE torn
      /\ AfterDelete(e) /\ UNCHANGED <<collection, dump, dumpTorn, step, live>>
  BY DEF DeleteChunks, request, settings
<1>3. /\ points'[s] = rest /\ \A r \in Stores : points'[r] \subseteq points[r]
  BY <1>1, <1>2 DEF StoreOK
<1>4. \A r \in Stores, b \in Docs : <<r, b>> \notin torn' =>
        (<<r, b>> \notin torn \/ Of(points'[r], b) = {})
  BY <1>1, <1>2, <1>3
<1>5. <<s, d>> \notin torn' => Of(points'[s], d) = {}
  <2>1. CASE <<s, d>> \in torn  BY <1>2, <1>3, <2>1
  <2>2. CASE <<s, d>> \notin torn /\ s # "chroma"
    BY <1>3, <2>2 DEF Deleted, Of
  <2>3. CASE <<s, d>> \notin torn /\ s = "chroma"
    <3>1. \A c \in Of(points[s], d) : Id(c) \in listed[e]
      BY <1>1, <1>2, <2>3, WriterParts
    <3>. QED  BY <1>3, <2>3, <3>1 DEF Deleted, Of
  <2>. QED  BY <2>1, <2>2, <2>3
<1>. HIDE DEF rest
<1>6. ChunksOK'
  <2>1. \A r \in Stores : Numbered(points'[r]) /\ (collection'[r] = Missing => points'[r] = {})
    BY <1>1, <1>2, <1>3 DEF ChunksOK, Numbered
  <2>2. \A r \in Stores, b \in Docs : <<r, b>> \notin torn' => OneText(Of(points'[r], b))
    BY <1>1, <1>3, <1>4 DEF ChunksOK, OneText, Of
  <2>3. Numbered(dump') /\ \A b \in Docs \ dumpTorn' : OneText(Of(dump', b))
    BY <1>1, <1>2, DumpStays
  <2>4. step' = "recreate" => StoreOf(live)' = "chroma" /\ collection'["chroma"] = Missing
    BY <1>1, <1>2, LiveStays DEF ChunksOK
  <2>. QED  BY <2>1, <2>2, <2>3, <2>4 DEF ChunksOK
<1>7. WriterOK(e)' /\ \A u \in Embedders \ {e} : SameWriter(u)
  BY <1>1, <1>2, <1>5, AfterDeleteWriter
<1>8. ASSUME NEW u \in Embedders \ {e} PROVE WriterOK(u)'
  <2>1. ASSUME NEW r \in Stores, Replaces(u, r, doc[u]), <<r, doc[u]>> \notin torn'
        PROVE  \/ Of(points'[r], doc[u]) = {}
               \/ /\ <<r, doc[u]>> \notin torn
                  /\ Of(points'[r], doc[u]) \subseteq Of(points[r], doc[u])
                  /\ r = "chroma" => /\ collection'[r] = collection[r]
                                     /\ objects'[obj[u]].collection = objects[obj[u]].collection
    <3>1. doc[u] \in Docs /\ obj[u] \in 1..Len(objects) /\ StoreOf(obj[u]) = r
      BY <2>1, WriterTypes DEF Replaces
    <3>. QED  BY <1>1, <1>2, <1>3, <1>4, <2>1, <3>1 DEF Of
  <2>. QED  BY <1>1, <1>7, <2>1, WriterKeeps, ChunkParts
<1>. QED  BY <1>6, <1>7, <1>8, ChunkParts

LEMMA DeleteFailsChunks ==
  ASSUME TypeOK, ChunkPart, NEW e \in Embedders, DeleteFails(e)
  PROVE  ChunkPart'
<1>. DEFINE s == StoreOf(obj[e])
            d == doc[e]
<1>1. /\ ObjectsKeep /\ ChunksOK /\ WriterOK(e) /\ pc[e] = "delete"
      /\ \A o \in 1..Len(objects) : StoreOf(o) = "chroma" =>
           objects'[o].collection = objects[o].collection
  BY LookedFacts, ChunkParts, WriterTypes DEF DeleteFails
<1>2. /\ torn' = IF Of(points[s], d) = {} THEN torn ELSE torn \cup {<<s, d>>}
      /\ AfterDelete(e)
      /\ UNCHANGED <<points, collection, dump, dumpTorn, step, live>>
  BY DEF DeleteFails, request, settings, store
<1>3. ChunksOK'
  <2>1. \A r \in Stores, b \in Docs : <<r, b>> \notin torn' => OneText(Of(points'[r], b))
    BY <1>1, <1>2 DEF ChunksOK
  <2>2. step' = "recreate" => StoreOf(live)' = "chroma" /\ collection'["chroma"] = Missing
    BY <1>1, <1>2, LiveStays DEF ChunksOK
  <2>. QED  BY <1>1, <1>2, <2>1, <2>2 DEF ChunksOK
<1>4. WriterOK(e)' /\ \A u \in Embedders \ {e} : SameWriter(u)
  BY <1>1, <1>2, AfterDeleteWriter
<1>5. ASSUME NEW u \in Embedders \ {e} PROVE WriterOK(u)'
  <2>1. torn \subseteq torn'  BY <1>2
  <2>2. ASSUME NEW r \in Stores, Replaces(u, r, doc[u]), r = "chroma"
        PROVE  objects'[obj[u]].collection = objects[obj[u]].collection
    BY <1>1, <2>2, WriterTypes DEF Replaces
  <2>. QED  BY <1>1, <1>2, <1>4, <2>1, <2>2, WriterKeeps, ChunkParts
<1>. QED  BY <1>3, <1>4, <1>5, ChunkParts

LEMMA EmbedChunks ==
  ASSUME TypeOK, ChunkPart, NEW e \in Embedders, Embed(e)
  PROVE  ChunkPart'
<1>1. ObjectsKeep /\ EmbeddersOK /\ WriterOK(e) /\ pc[e] = "embed"
  BY ObjectsSame, TypeParts, ChunkParts DEF Embed
<1>2. ChunksOK'
  BY <1>1, LiveStays, ChunksSame, ChunkParts DEF Embed, store, request, settings, history
<1>3. UNCHANGED <<points, torn, collection, objects>>
  BY DEF Embed, store, history
<1>4. WriterOK(e)' /\ \A u \in Embedders \ {e} : SameWriter(u)
  <2>1. PICK ok \in SUBSET (0..(SizeOf[text[e]] - 1)) :
          IF ok = {} THEN Quit(e)
          ELSE /\ embedded' = [embedded EXCEPT ![e] = ok]
               /\ Go(e, IF StoreOf(obj[e]) = "chroma" THEN "write" ELSE "ensure")
               /\ UNCHANGED listed
    BY DEF Embed
  <2>2. CASE ok = {}  BY <1>1, <2>1, <2>2, QuitWriter
  <2>3. CASE ok # {}
    <3>. DEFINE p == IF StoreOf(obj[e]) = "chroma" THEN "write" ELSE "ensure"
    <3>1. /\ \A u \in Embedders \ {e} : listed'[u] = listed[u] /\ embedded'[u] = embedded[u]
          /\ embedded'[e] = ok /\ listed'[e] = listed[e] /\ Go(e, p)
      BY <1>1, <2>1, <2>3 DEF EmbeddersOK
    <3>2. /\ \A u \in Embedders \ {e} : SameWriter(u)
          /\ pc'[e] = p /\ obj'[e] = obj[e] /\ doc'[e] = doc[e] /\ text'[e] = text[e]
      BY <1>1, <3>1, GoOthers
    <3>3. /\ StoreOf(obj[e])' = StoreOf(obj[e]) /\ listed'[e] = {}
          /\ StoreOf(obj[e]) \in Stores
      BY <1>1, <1>3, <3>1, <3>2, WriterParts, WriterTypes DEF StoreOf
    <3>4. StoreOf(obj[e]) = "chroma" /\ <<StoreOf(obj[e]), doc[e]>> \notin torn =>
            Of(points[StoreOf(obj[e])], doc[e]) = {}
      BY <1>1, WriterParts
    <3>5. WriterOK(e)'
      BY <1>3, <3>1, <3>2, <3>3, <3>4 DEF WriterOK, Stores
    <3>. QED  BY <3>2, <3>5
  <2>. QED  BY <2>2, <2>3
<1>5. \A u \in Embedders : SameWriter(u) => WriterOK(u)'
  BY <1>1, <1>3, WritersStay
<1>. QED  BY <1>2, <1>4, <1>5, ChunkParts

LEMMA EnsureCollectionChunks ==
  ASSUME TypeOK, ChunkPart, NEW e \in Embedders, EnsureCollection(e)
  PROVE  ChunkPart'
<1>1. /\ EmbeddersOK /\ ChunksOK /\ WriterOK(e) /\ pc[e] = "ensure"
      /\ Ensure(obj[e], objects[obj[e]].space) /\ objects[obj[e]].space \in Spaces
      /\ obj[e] \in 1..Len(objects) /\ StoreOf(obj[e]) = "qdrant"
  BY TypeParts, ChunkParts, WriterTypes, WriterParts DEF EnsureCollection
<1>2. /\ ObjectsKeep /\ collection'["chroma"] = collection["chroma"]
      /\ collection["qdrant"] # Missing => collection'["qdrant"] # Missing
      /\ \A o \in 1..Len(objects) : o # obj[e] => objects'[o] = objects[o]
  BY <1>1, EnsureFacts
<1>3. UNCHANGED <<points, torn, dump, dumpTorn, step, live, listed, embedded>>
  BY DEF EnsureCollection, request, settings
<1>4. ChunksOK'
  <2>1. \A s \in Stores : collection'[s] = Missing => collection[s] = Missing
    BY <1>2 DEF Stores
  <2>2. step' = "recreate" => StoreOf(live)' = "chroma" /\ collection'["chroma"] = Missing
    BY <1>1, <1>2, <1>3, LiveStays DEF ChunksOK
  <2>. QED  BY <1>1, <1>3, <2>1, <2>2 DEF ChunksOK
<1>5. /\ \A u \in Embedders \ {e} : SameWriter(u)
      /\ pc'[e] = "delete" /\ obj'[e] = obj[e] /\ doc'[e] = doc[e] /\ text'[e] = text[e]
  BY <1>1, <1>3, GoOthers DEF EnsureCollection
<1>6. WriterOK(e)'
  <2>1. StoreOf(obj[e])' = "qdrant"  BY <1>1, <1>2, <1>5 DEF ObjectsKeep, StoreOf
  <2>2. /\ embedded[e] \subseteq 0..(SizeOf[text[e]] - 1)
        /\ listed[e] \subseteq {doc[e]} \X Nat
    BY <1>1, WriterParts
  <2>. QED  BY <1>3, <1>5, <2>1, <2>2 DEF WriterOK
<1>7. \A u \in Embedders : SameWriter(u) => WriterOK(u)'
  <2>1. \A o \in 1..Len(objects) : StoreOf(o) = "chroma" =>
          objects'[o].collection = objects[o].collection
    BY <1>1, <1>2
  <2>. QED  BY <1>2, <1>3, <2>1, WritersStay
<1>. QED  BY <1>4, <1>5, <1>6, <1>7, ChunkParts

\* Chunks that are written over others.
LEMMA OverFacts ==
  ASSUME NEW ps, NEW new, NEW d
  PROVE  /\ \A c \in Over(ps, new) : c \in ps \/ c \in new
         /\ Of(ps, d) = {} => Of(Over(ps, new), d) = Of(new, d)
         /\ Of(new, d) = {} => Of(Over(ps, new), d) \subseteq Of(ps, d)
         /\ new \subseteq Over(ps, new)
  BY DEF Over, Of

\* Ids name their document, so what is written over a store concerns its own.
LEMMA OverKeeps ==
  ASSUME NEW ps, NEW new, NEW d, Of(new, d) = {}
  PROVE  Of(Over(ps, new), d) = Of(ps, d)
<1>1. \A n \in new : n.doc # d  BY DEF Of
<1>2. \A c \in ps : c.doc = d => Id(c) \notin {Id(n) : n \in new}  BY <1>1 DEF Id
<1>. QED  BY <1>1, <1>2 DEF Of, Over

LEMMA WriteChunksChunks ==
  ASSUME TypeOK, ChunkPart, NEW e \in Embedders, WriteChunks(e)
  PROVE  ChunkPart'
<1>. DEFINE s == StoreOf(obj[e])
            d == doc[e]
            new == {[doc |-> doc[e], at |-> i, text |-> text[e]] : i \in embedded[e]}
<1>1. /\ ObjectsKeep /\ ChunksOK /\ WriterOK(e) /\ pc[e] = "write" /\ StoreOK /\ EmbeddersOK
      /\ s \in Stores /\ d \in Docs /\ text[e] \in Texts \cup {NoText}
  BY ObjectsSame, ChunkParts, WriterTypes, TypeParts DEF WriteChunks
<1>2. /\ points' = [points EXCEPT ![s] = Over(points[s], new)] /\ Reaches(obj[e])
      /\ torn' = IF Contended(e, s, d) THEN torn \cup {<<s, d>>} ELSE torn
      /\ Quit(e) /\ UNCHANGED <<objects, collection, dump, dumpTorn, step, live>>
  BY DEF WriteChunks, request, settings
<1>3. /\ points'[s] = Over(points[s], new)
      /\ \A r \in Stores : r # s => points'[r] = points[r]
  BY <1>1, <1>2 DEF StoreOK
<1>4. Numbered(new) /\ OneText(new) /\ Of(new, d) = new /\ \A b \in Docs \ {d} : Of(new, b) = {}
  <2>1. \A i \in embedded[e] : i < SizeOf[text[e]]
    <3>1. SizeOf[text[e]] \in Nat  BY <1>1, Constants
    <3>2. embedded[e] \subseteq 0..(SizeOf[text[e]] - 1)  BY <1>1, WriterParts
    <3>. QED  BY <3>1, <3>2
  <2>. QED  BY <2>1 DEF Numbered, OneText, Of
<1>. HIDE DEF new
<1>5. torn \subseteq torn' /\ (<<s, d>> \notin torn' => Of(points[s], d) = {} /\ ~Contended(e, s, d))
  <2>1. torn \subseteq torn'  BY <1>2
  <2>2. <<s, d>> \notin torn => Of(points[s], d) = {}  BY <1>1, WriterParts
  <2>3. <<s, d>> \notin torn' => ~Contended(e, s, d)  BY <1>2
  <2>. QED  BY <2>1, <2>2, <2>3
<1>6. ChunksOK'
  <2>1. \A r \in Stores : Numbered(points'[r]) /\ (collection'[r] = Missing => points'[r] = {})
    <3>1. collection[s] # Missing  BY <1>2 DEF Reaches
    <3>2. Numbered(points'[s])
      <4>1. \A c \in Over(points[s], new) : c \in points[s] \/ c \in new
        <5>. DEFINE ps == points[s]
        <5>. HIDE DEF ps
        <5>1. \A c \in Over(ps, new) : c \in ps \/ c \in new  BY OverFacts
        <5>. QED  BY <5>1 DEF ps
      <4>2. Numbered(points[s])  BY <1>1 DEF ChunksOK
      <4>3. Numbered(Over(points[s], new))  BY <1>4, <4>1, <4>2 DEF Numbered
      <4>. QED  BY <1>3, <4>3
    <3>. QED  BY <1>1, <1>2, <1>3, <3>1, <3>2 DEF ChunksOK
  <2>2. ASSUME NEW r \in Stores, NEW b \in Docs, <<r, b>> \notin torn'
        PROVE  OneText(Of(points'[r], b))
    <3>1. OneText(Of(points[r], b))  BY <1>1, <1>5, <2>2 DEF ChunksOK
    <3>2. CASE r # s  BY <1>3, <3>1, <3>2
    <3>3. CASE r = s /\ b # d
      <4>1. Of(points'[s], b) \subseteq Of(points[s], b)  BY <1>3, <1>4, <3>3, OverFacts
      <4>. QED  BY <3>1, <3>3, <4>1 DEF OneText
    <3>4. CASE r = s /\ b = d
      <4>1. Of(points'[s], d) = new  BY <1>3, <1>4, <1>5, <2>2, <3>4, OverFacts
      <4>. QED  BY <1>4, <3>4, <4>1
    <3>. QED  BY <3>2, <3>3, <3>4
  <2>3. Numbered(dump') /\ \A b \in Docs \ dumpTorn' : OneText(Of(dump', b))
    BY <1>1, <1>2, DumpStays
  <2>4. step' = "recreate" => StoreOf(live)' = "chroma" /\ collection'["chroma"] = Missing
    BY <1>1, <1>2, LiveStays DEF ChunksOK
  <2>. QED  BY <2>1, <2>2, <2>3, <2>4 DEF ChunksOK
<1>7. WriterOK(e)' /\ \A u \in Embedders \ {e} : SameWriter(u)
  BY <1>1, <1>2, QuitWriter
<1>8. ASSUME NEW u \in Embedders \ {e} PROVE WriterOK(u)'
  <2>1. ASSUME NEW r \in Stores, Replaces(u, r, doc[u]), <<r, doc[u]>> \notin torn'
        PROVE  /\ <<r, doc[u]>> \notin torn
               /\ Of(points'[r], doc[u]) \subseteq Of(points[r], doc[u])
    <3>1. doc[u] \in Docs /\ <<r, doc[u]>> \notin torn  BY <1>5, <2>1, WriterTypes DEF Replaces
    <3>2. CASE r # s  BY <1>3, <3>1, <3>2
    <3>3. CASE r = s /\ doc[u] # d
      BY <1>3, <1>4, <3>1, <3>3, OverFacts
    <3>4. CASE r = s /\ doc[u] = d
      BY <1>5, <2>1, <3>4 DEF Contended
    <3>. QED  BY <3>2, <3>3, <3>4
  <2>. QED  BY <1>1, <1>2, <1>7, <2>1, WriterKeeps, ChunkParts
<1>. QED  BY <1>6, <1>7, <1>8, ChunkParts

LEMMA WriteFailsChunks ==
  ASSUME TypeOK, ChunkPart, NEW e \in Embedders, WriteFails(e)
  PROVE  ChunkPart'
<1>1. ObjectsKeep /\ EmbeddersOK  BY ObjectsSame, TypeParts DEF WriteFails
<1>2. ChunksOK'
  BY <1>1, LiveStays, ChunksSame, ChunkParts DEF WriteFails, store, request, settings, history
<1>3. WriterOK(e)' /\ \A u \in Embedders \ {e} : SameWriter(u)
  BY <1>1, QuitWriter DEF WriteFails
<1>4. \A u \in Embedders : SameWriter(u) => WriterOK(u)'
  BY <1>1, WritersStay DEF WriteFails, store, history
<1>. QED  BY <1>2, <1>3, <1>4, ChunkParts

\* The administrator's steps, and the restart, write no document in part.
LEMMA EmbeddersSame ==
  ASSUME UNCHANGED embedders
  PROVE  \A e \in Embedders : SameWriter(e)
  BY DEF embedders, SameWriter

LEMMA QuietChunks ==
  ASSUME TypeOK, ChunkPart, ObjectsKeep, UNCHANGED <<points, torn, embedders>>,
         \A s \in Stores : collection'[s] = Missing => collection[s] = Missing,
         \/ points["chroma"] = {}
         \/ /\ collection'["chroma"] = collection["chroma"]
            /\ \A o \in 1..Len(objects) : StoreOf(o) = "chroma" =>
                 objects'[o].collection = objects[o].collection,
         \/ dump' = {} \/ UNCHANGED <<dump, dumpTorn>>
         \/ \E s \in Stores : /\ dump' = points[s]
                              /\ dumpTorn' = {d \in Docs : <<s, d>> \in torn},
         step' # "recreate"
  PROVE  ChunkPart'
<1>1. ChunksOK  BY ChunkParts
<1>2. Numbered(dump') /\ \A d \in Docs \ dumpTorn' : OneText(Of(dump', d))
  <2>1. CASE dump' = {}  BY <2>1 DEF Numbered, OneText, Of
  <2>2. CASE UNCHANGED <<dump, dumpTorn>>  BY <1>1, <2>2, DumpStays
  <2>3. CASE \E s \in Stores : /\ dump' = points[s]
                               /\ dumpTorn' = {d \in Docs : <<s, d>> \in torn}
    BY <1>1, <2>3 DEF ChunksOK
  <2>. QED  BY <2>1, <2>2, <2>3
<1>3. ChunksOK'  BY <1>1, <1>2 DEF ChunksOK
<1>4. \A e \in Embedders : WriterOK(e)'  BY WritersStay, EmbeddersSame
<1>. QED  BY <1>3, <1>4, ChunkParts

LEMMA MadeChunks ==
  ASSUME TypeOK, ChunkPart, NEW c \in Configs, Make(c), UNCHANGED <<points, torn, embedders>>,
         dump' = {} \/ UNCHANGED <<dump, dumpTorn>>, step' # "recreate"
  PROVE  ChunkPart'
<1>1. /\ ObjectsKeep /\ \A o \in 1..Len(objects) : objects'[o] = objects[o]
      /\ \A s \in Stores : collection[s] # Missing => collection'[s] = collection[s]
  BY ObjectMade
<1>2. collection["chroma"] = Missing => points["chroma"] = {}
  BY ChunkParts DEF ChunksOK, Stores
<1>3. "chroma" \in Stores  BY DEF Stores
<1>. QED  BY <1>1, <1>2, <1>3, QuietChunks

LEMMA SaveChunks ==
  ASSUME TypeOK, ChunkPart, NEW c \in Configs, Save(c)
  PROVE  ChunkPart'
  BY ObjectsSame, QuietChunks DEF Save, store

LEMMA ImportChunks ==
  ASSUME TypeOK, ChunkPart, NEW c \in Configs, Import(c)
  PROVE  ChunkPart'
  BY ObjectsSame, QuietChunks DEF Import, store, history

LEMMA RebuildChunks ==
  ASSUME TypeOK, ChunkPart, Rebuild
  PROVE  ChunkPart'
<1>1. config \in Configs  BY TypeParts DEF RequestOK
<1>2. dump' = {} \/ UNCHANGED <<dump, dumpTorn>>  BY DEF Rebuild, Answer
<1>3. step' # "recreate"  BY DEF Rebuild, Answer
<1>. QED  BY <1>1, <1>2, <1>3, MadeChunks DEF Rebuild

LEMMA RebuildFailsChunks ==
  ASSUME TypeOK, ChunkPart, RebuildFails
  PROVE  ChunkPart'
  BY ObjectsSame, QuietChunks DEF RebuildFails, Answer, store, history

LEMMA MigrateChunks ==
  ASSUME TypeOK, ChunkPart, Migrate
  PROVE  ChunkPart'
<1>. DEFINE c == [store |-> "chroma", space |-> config.space]
<1>1. c \in Configs  BY TypeParts DEF RequestOK, Configs, Stores
<1>. QED  BY <1>1, MadeChunks DEF Migrate

LEMMA CheckSourceChunks ==
  ASSUME TypeOK, ChunkPart, CheckSource
  PROVE  ChunkPart'
<1>1. step' # "recreate" /\ (dump' = {} \/ dump' = dump)  BY DEF CheckSource, Migrated
<1>2. src \in 1..Len(objects)
  BY ObjectTypes, TypeParts DEF CheckSource, RequestOK, Missing
<1>3. /\ ObjectsKeep
      /\ \A o \in 1..Len(objects) : StoreOf(o) = "chroma" =>
           objects'[o].collection = objects[o].collection
  BY <1>2, LookedFacts DEF CheckSource
<1>. QED  BY <1>1, <1>3, QuietChunks DEF CheckSource, store, history

LEMMA CheckTargetChunks ==
  ASSUME TypeOK, ChunkPart, CheckTarget
  PROVE  ChunkPart'
<1>1. step' # "recreate" /\ (dump' = {} \/ dump' = dump)  BY DEF CheckTarget, Migrated
<1>2. dst \in 1..Len(objects)
  BY ObjectTypes, TypeParts DEF CheckTarget, RequestOK, Missing
<1>3. /\ ObjectsKeep
      /\ \A o \in 1..Len(objects) : StoreOf(o) = "chroma" =>
           objects'[o].collection = objects[o].collection
  BY <1>2, LookedFacts DEF CheckTarget
<1>. QED  BY <1>1, <1>3, QuietChunks DEF CheckTarget, store, history

LEMMA DumpPointsChunks ==
  ASSUME TypeOK, ChunkPart, DumpPoints
  PROVE  ChunkPart'
<1>1. step' # "recreate"  BY DEF DumpPoints, Migrated
<1>2. StoreOf(src) \in Stores
  BY ObjectTypes, TypeParts DEF DumpPoints, RequestOK, Missing
<1>3. \/ dump' = {}
      \/ \E s \in Stores : /\ dump' = points[s]
                           /\ dumpTorn' = {d \in Docs : <<s, d>> \in torn}
  BY <1>2 DEF DumpPoints, Dumped, Migrated
<1>. QED  BY <1>1, <1>3, ObjectsSame, QuietChunks DEF DumpPoints, store

LEMMA MigrationFailsChunks ==
  ASSUME TypeOK, ChunkPart, MigrationFails
  PROVE  ChunkPart'
  BY ObjectsSame, QuietChunks DEF MigrationFails, Migrated, store

LEMMA SwapChunks ==
  ASSUME TypeOK, ChunkPart, Swap
  PROVE  ChunkPart'
  BY ObjectsSame, QuietChunks DEF Swap, Answer, store

LEMMA ReindexKeepsChunks ==
  ASSUME TypeOK, ChunkPart, ReindexKeeps
  PROVE  ChunkPart'
<1>1. live \in 1..Len(objects) /\ StoreOf(live) = "qdrant"
  BY ObjectTypes, TypeParts DEF ReindexKeeps, RequestOK, Missing
<1>2. ObjectsKeep /\ \A o \in 1..Len(objects) : o # live => objects'[o] = objects[o]
  BY <1>1, ObjectOpens DEF ReindexKeeps, Missing
<1>3. \A o \in 1..Len(objects) : StoreOf(o) = "chroma" =>
        objects'[o].collection = objects[o].collection
  BY <1>1, <1>2
<1>4. step' # "recreate"  BY DEF ReindexKeeps, request
<1>. QED  BY <1>2, <1>3, <1>4, QuietChunks DEF ReindexKeeps, store, request, history

\* The collection that is made again is empty.
LEMMA RecreateChunks ==
  ASSUME TypeOK, ChunkPart, Recreate
  PROVE  ChunkPart'
<1>1. live \in 1..Len(objects) /\ events + 1 \in Nat /\ events + 1 # Missing
  BY ObjectTypes, TypeParts DEF Recreate, RequestOK, RestOK, Missing
<1>2. ObjectsKeep  BY <1>1, ObjectOpens DEF Recreate
<1>3. points["chroma"] = {}
  BY ChunkParts DEF Recreate, ChunksOK, Stores
<1>4. \A s \in Stores : collection'[s] = Missing => collection[s] = Missing
  BY <1>1, TypeParts DEF Recreate, StoreOK
<1>. QED  BY <1>2, <1>3, <1>4, QuietChunks DEF Recreate, history

LEMMA EmptyFacts ==
  ASSUME TypeOK, ChunksOK, NEW s \in Stores, Empty(s)
  PROVE  /\ points'[s] = {} /\ collection'[s] = Missing
         /\ \A r \in Stores : r # s => points'[r] = points[r] /\ collection'[r] = collection[r]
         /\ \A r \in Stores, d \in Docs : r # s => (<<r, d>> \in torn' <=> <<r, d>> \in torn)
         /\ \A r \in Stores :
              Numbered(points'[r]) /\ (collection'[r] = Missing => points'[r] = {})
         /\ \A r \in Stores, d \in Docs :
              <<r, d>> \notin torn' => OneText(Of(points'[r], d))
<1>1. /\ points'[s] = {} /\ collection'[s] = Missing
      /\ \A r \in Stores : r # s => points'[r] = points[r] /\ collection'[r] = collection[r]
  BY TypeParts DEF Empty, StoreOK
<1>2. \A r \in Stores, d \in Docs : r # s => (<<r, d>> \in torn' <=> <<r, d>> \in torn)
  BY DEF Empty
<1>3. \A r \in Stores : Numbered(points'[r]) /\ (collection'[r] = Missing => points'[r] = {})
  <2>1. Numbered({})  BY DEF Numbered
  <2>. QED  BY <1>1, <2>1 DEF ChunksOK
<1>4. \A r \in Stores, d \in Docs : <<r, d>> \notin torn' => OneText(Of(points'[r], d))
  <2>1. \A d : OneText(Of({}, d))  BY DEF OneText, Of
  <2>. QED  BY <1>1, <1>2, <2>1 DEF ChunksOK
<1>. QED  BY <1>1, <1>2, <1>3, <1>4

LEMMA EmptyWriters ==
  ASSUME TypeOK, ChunkPart, ObjectsKeep, NEW s \in Stores, Empty(s), UNCHANGED embedders,
         \A o \in 1..Len(objects) : StoreOf(o) # s =>
           objects'[o].collection = objects[o].collection
  PROVE  \A e \in Embedders : WriterOK(e)'
<1>. SUFFICES ASSUME NEW e \in Embedders PROVE WriterOK(e)'
  OBVIOUS
<1>1. /\ points'[s] = {}
      /\ \A r \in Stores : r # s => points'[r] = points[r] /\ collection'[r] = collection[r]
      /\ \A r \in Stores, d \in Docs : r # s => (<<r, d>> \in torn' <=> <<r, d>> \in torn)
  BY EmptyFacts, ChunkParts
<1>2. ASSUME NEW r \in Stores, Replaces(e, r, doc[e]), <<r, doc[e]>> \notin torn'
      PROVE  \/ Of(points'[r], doc[e]) = {}
             \/ /\ <<r, doc[e]>> \notin torn
                /\ Of(points'[r], doc[e]) \subseteq Of(points[r], doc[e])
                /\ r = "chroma" => /\ collection'[r] = collection[r]
                                   /\ objects'[obj[e]].collection = objects[obj[e]].collection
  <2>1. obj[e] \in 1..Len(objects) /\ StoreOf(obj[e]) = r /\ doc[e] \in Docs
    BY <1>2, WriterTypes DEF Replaces
  <2>2. CASE r = s  BY <1>1, <2>2 DEF Of
  <2>3. CASE r # s  BY <1>1, <1>2, <2>1, <2>3
  <2>. QED  BY <2>2, <2>3
<1>. QED  BY <1>2, EmbeddersSame, WriterKeeps, ChunkParts

LEMMA ReindexChunks ==
  ASSUME TypeOK, ChunkPart, Reindex
  PROVE  ChunkPart'
<1>. DEFINE s == StoreOf(live)
<1>1. live \in 1..Len(objects) /\ s \in Stores /\ Empty(s) /\ ChunksOK
  BY ObjectTypes, TypeParts, ChunkParts DEF Reindex, RequestOK, Missing
<1>2. ObjectsKeep /\ \A o \in 1..Len(objects) : o # live => objects'[o] = objects[o]
  BY <1>1, ObjectOpens DEF Reindex, Missing
<1>3. /\ step = "idle" /\ UNCHANGED <<dump, dumpTorn, live, embedders>>
      /\ step' = "recreate" => s = "chroma"
  BY DEF Reindex
<1>4. ChunksOK'
  <2>1. StoreOf(live)' = s  BY <1>1, <1>2, <1>3 DEF ObjectsKeep, StoreOf
  <2>2. step' = "recreate" => StoreOf(live)' = "chroma" /\ collection'["chroma"] = Missing
    BY <1>1, <1>3, <2>1, EmptyFacts
  <2>. QED  BY <1>1, <1>3, <2>2, EmptyFacts, DumpStays DEF ChunksOK
<1>5. \A e \in Embedders : WriterOK(e)'  BY <1>1, <1>2, <1>3, EmptyWriters
<1>. QED  BY <1>4, <1>5, ChunkParts

LEMMA HealChunks ==
  ASSUME TypeOK, ChunkPart, Heal
  PROVE  ChunkPart'
<1>1. ObjectsKeep /\ step' = "idle" /\ UNCHANGED <<dump, dumpTorn, embedders, objects>>
  BY ObjectsSame DEF Heal
<1>2. CASE Empty("qdrant")
  <2>1. "qdrant" \in Stores  BY DEF Stores
  <2>2. ChunksOK'  BY <1>1, <1>2, <2>1, EmptyFacts, ChunkParts, DumpStays DEF ChunksOK
  <2>3. \A e \in Embedders : WriterOK(e)'  BY <1>1, <1>2, <2>1, EmptyWriters
  <2>. QED  BY <2>2, <2>3, ChunkParts
<1>3. CASE UNCHANGED <<store, torn>>
  BY <1>1, <1>3, QuietChunks DEF store
<1>. QED  BY <1>2, <1>3 DEF Heal

LEMMA LoadPointsChunks ==
  ASSUME TypeOK, ChunkPart, LoadPoints
  PROVE  ChunkPart'
<1>. DEFINE s == StoreOf(dst)
            mixed == {x \in dump : \/ x.doc \in dumpTorn \/ Of(points[s], x.doc) # {}
                                   \/ \E e \in Embedders : Replaces(e, s, x.doc)}
<1>1. /\ dst \in 1..Len(objects) /\ s \in Stores /\ ChunksOK /\ StoreOK /\ step' = "swap"
      /\ dump' = {} /\ UNCHANGED embedders
      /\ points' = [points EXCEPT ![s] = Over(points[s], dump)]
      /\ torn' = torn \cup {<<s, c.doc>> : c \in mixed}
  BY ObjectTypes, TypeParts, ChunkParts DEF LoadPoints, Migrated, RequestOK, Missing
<1>2. /\ ObjectsKeep /\ collection'[s] # Missing
      /\ \A r \in Stores : r # s => collection'[r] = collection[r]
      /\ collection'["chroma"] = collection["chroma"]
      /\ \A o \in 1..Len(objects) : StoreOf(o) = "chroma" => objects'[o] = objects[o]
  <2>1. CASE s = "qdrant"
    <3>1. /\ Ensure(dst, dumpSpace) /\ dumpSpace \in Spaces \cup {NoSpace}
          /\ objects[dst].collection # Missing => collection["qdrant"] # Missing
      BY <2>1, TypeParts DEF LoadPoints, Seen, RequestOK
    <3>. QED  BY <1>1, <2>1, <3>1, EnsureFacts DEF Stores
  <2>2. CASE s # "qdrant"
    <3>1. Reaches(dst) /\ UNCHANGED <<collection, objects>>  BY <2>2 DEF LoadPoints
    <3>. QED  BY <1>1, <3>1, ObjectsSame DEF Reaches
  <2>. QED  BY <2>1, <2>2
<1>3. /\ points'[s] = Over(points[s], dump)
      /\ \A r \in Stores : r # s => points'[r] = points[r]
  BY <1>1 DEF StoreOK
<1>4. torn \subseteq torn'  BY <1>1
<1>5. ASSUME NEW d \in Docs, <<s, d>> \notin torn', Of(dump, d) # {}
      PROVE  /\ d \notin dumpTorn /\ Of(points[s], d) = {}
             /\ \A e \in Embedders : ~Replaces(e, s, d)
  <2>1. PICK c \in dump : c.doc = d  BY <1>5 DEF Of
  <2>2. c \notin mixed  BY <1>1, <1>5, <2>1
  <2>. QED  BY <2>1, <2>2
<1>. HIDE DEF mixed
<1>6. ChunksOK'
  <2>1. \A r \in Stores : Numbered(points'[r]) /\ (collection'[r] = Missing => points'[r] = {})
    <3>1. \A c \in points'[s] : c \in points[s] \/ c \in dump  BY <1>3, OverFacts
    <3>2. Numbered(points[s]) /\ Numbered(dump)  BY <1>1 DEF ChunksOK
    <3>3. Numbered(points'[s])  BY <3>1, <3>2 DEF Numbered
    <3>. QED  BY <1>1, <1>2, <1>3, <3>3 DEF ChunksOK
  <2>2. ASSUME NEW r \in Stores, NEW d \in Docs, <<r, d>> \notin torn'
        PROVE  OneText(Of(points'[r], d))
    <3>1. OneText(Of(points[r], d))  BY <1>1, <1>4, <2>2 DEF ChunksOK
    <3>2. CASE r # s  BY <1>3, <3>1, <3>2
    <3>3. CASE r = s /\ Of(dump, d) = {}
      <4>1. Of(points'[s], d) \subseteq Of(points[s], d)  BY <1>3, <3>3, OverFacts
      <4>. QED  BY <3>1, <3>3, <4>1 DEF OneText
    <3>4. CASE r = s /\ Of(dump, d) # {}
      <4>1. d \notin dumpTorn /\ Of(points[s], d) = {}  BY <1>5, <2>2, <3>4
      <4>2. Of(points'[s], d) = Of(dump, d)  BY <1>3, <4>1, OverFacts
      <4>. QED  BY <1>1, <3>4, <4>1, <4>2 DEF ChunksOK
    <3>. QED  BY <3>2, <3>3, <3>4
  <2>3. Numbered(dump') /\ \A d \in Docs \ dumpTorn' : OneText(Of(dump', d))
    BY <1>1 DEF Numbered, OneText, Of
  <2>. QED  BY <1>1, <2>1, <2>2, <2>3 DEF ChunksOK
<1>7. ASSUME NEW e \in Embedders PROVE WriterOK(e)'
  <2>1. ASSUME NEW r \in Stores, Replaces(e, r, doc[e]), <<r, doc[e]>> \notin torn'
        PROVE  /\ <<r, doc[e]>> \notin torn
               /\ Of(points'[r], doc[e]) \subseteq Of(points[r], doc[e])
               /\ r = "chroma" => /\ collection'[r] = collection[r]
                                  /\ objects'[obj[e]].collection = objects[obj[e]].collection
    <3>1. obj[e] \in 1..Len(objects) /\ StoreOf(obj[e]) = r /\ doc[e] \in Docs
      BY <2>1, WriterTypes DEF Replaces
    <3>2. <<r, doc[e]>> \notin torn  BY <1>4, <2>1
    <3>3. Of(points'[r], doc[e]) \subseteq Of(points[r], doc[e])
      <4>1. CASE r # s  BY <1>3, <4>1
      <4>2. CASE r = s
        <5>1. Of(dump, doc[e]) = {}  BY <1>5, <2>1, <3>1, <4>2
        <5>. QED  BY <1>3, <4>2, <5>1, OverFacts
      <4>. QED  BY <4>1, <4>2
    <3>. QED  BY <1>2, <3>1, <3>2, <3>3
  <2>. QED  BY <1>1, <1>2, <2>1, EmbeddersSame, WriterKeeps, ChunkParts
<1>. QED  BY <1>6, <1>7, ChunkParts

LEMMA LoadFailsChunks ==
  ASSUME TypeOK, ChunkPart, LoadFails
  PROVE  ChunkPart'
<1>1. /\ dst \in 1..Len(objects) /\ StoreOf(dst) = "qdrant"
      /\ dumpSpace \in Spaces \cup {NoSpace} /\ Ensure(dst, dumpSpace)
  BY ObjectTypes, TypeParts DEF LoadFails, RequestOK, Missing
<1>2. /\ ObjectsKeep /\ collection'["chroma"] = collection["chroma"]
      /\ collection["qdrant"] # Missing => collection'["qdrant"] # Missing
      /\ \A o \in 1..Len(objects) : o # dst => objects'[o] = objects[o]
  BY <1>1, EnsureFacts
<1>3. \A s \in Stores : collection'[s] = Missing => collection[s] = Missing
  BY <1>2 DEF Stores
<1>4. \A o \in 1..Len(objects) : StoreOf(o) = "chroma" =>
        objects'[o].collection = objects[o].collection
  BY <1>1, <1>2
<1>5. step' # "recreate" /\ dump' = {} /\ UNCHANGED <<points, torn, embedders>>
  BY DEF LoadFails, Migrated
<1>. QED  BY <1>2, <1>3, <1>4, <1>5, QuietChunks

\* Looking changes nothing but what a Qdrant object knows.
LEMMA LookChunks ==
  ASSUME TypeOK, ChunkPart, Look
  PROVE  ChunkPart'
<1>1. /\ ObjectsKeep
      /\ \A o \in 1..Len(objects) : StoreOf(o) = "chroma" =>
           objects'[o].collection = objects[o].collection
  BY LookType
<1>2. UNCHANGED <<points, torn, collection, dump, dumpTorn, step, live, embedders>>
  BY DEF Look, store, request, settings, history
<1>3. ChunksOK'  BY <1>1, <1>2, LiveStays, ChunksSame, ChunkParts
<1>4. \A e \in Embedders : WriterOK(e)'  BY <1>1, <1>2, WritersStay, EmbeddersSame
<1>. QED  BY <1>3, <1>4, ChunkParts

LEMMA RestartChunks ==
  ASSUME TypeOK, ChunkPart, Restart
  PROVE  ChunkPart'
<1>1. /\ UNCHANGED <<points, torn>> /\ dump' = {} /\ step' = "heal"
      /\ \A e \in Embedders : pc'[e] = "idle" /\ listed'[e] = {} /\ embedded'[e] = {}
  BY DEF Restart
<1>2. \A s \in Stores : collection'[s] = Missing => collection[s] = Missing
  <2>1. saved \in Configs  BY TypeParts DEF RequestOK
  <2>2. CASE Make(saved)  BY <2>1, <2>2, ObjectMade
  <2>3. CASE UNCHANGED collection  BY <2>3
  <2>. QED  BY <2>2, <2>3 DEF Restart
<1>3. ChunksOK'
  <2>1. ChunksOK  BY ChunkParts
  <2>2. Numbered(dump') /\ \A d \in Docs \ dumpTorn' : OneText(Of(dump', d))
    BY <1>1 DEF Numbered, OneText, Of
  <2>. QED  BY <1>1, <1>2, <2>1, <2>2 DEF ChunksOK
<1>4. \A e \in Embedders : WriterOK(e)'  BY <1>1 DEF WriterOK
<1>. QED  BY <1>3, <1>4, ChunkParts

LEMMA StutterChunks ==
  ASSUME TypeOK, ChunkPart, UNCHANGED vars
  PROVE  ChunkPart'
<1>1. /\ UNCHANGED <<points, torn, embedders, collection, objects, dump, dumpTorn, step, live>>
      /\ ObjectsKeep
  BY StutterType DEF vars, store, request, settings, history
<1>2. ChunksOK'  BY <1>1, LiveStays, ChunksSame, ChunkParts
<1>3. \A e \in Embedders : WriterOK(e)'  BY <1>1, WritersStay, EmbeddersSame
<1>. QED  BY <1>2, <1>3, ChunkParts

LEMMA StepChunks ==
  ASSUME TypeOK, ChunkPart, [Next]_vars
  PROVE  ChunkPart'
<1>1. ASSUME NEW e \in Embedders, Upsert(e) PROVE ChunkPart'
  BY <1>1, StartUpsertChunks, ListChunksChunks, DeleteChunksChunks, DeleteFailsChunks,
     EmbedChunks, EnsureCollectionChunks, WriteChunksChunks, WriteFailsChunks DEF Upsert
<1>2. CASE Administer
  BY <1>2, SaveChunks, ImportChunks, RebuildChunks, RebuildFailsChunks, MigrateChunks,
     ReindexChunks, ReindexKeepsChunks, RecreateChunks, CheckSourceChunks, CheckTargetChunks,
     DumpPointsChunks, LoadPointsChunks, LoadFailsChunks, MigrationFailsChunks, SwapChunks
     DEF Administer
<1>. QED  BY <1>1, <1>2, RestartChunks, HealChunks, LookChunks, StutterChunks DEF Next

LEMMA InitChunks == Init => ChunkPart
<1>. SUFFICES ASSUME Init PROVE ChunkPart
  OBVIOUS
<1>1. /\ points = [s \in Stores |-> {}] /\ dump = {} /\ step = "idle"
      /\ pc = [e \in Embedders |-> "idle"] /\ listed = [e \in Embedders |-> {}]
      /\ embedded = [e \in Embedders |-> {}]
  BY DEF Init
<1>2. \A d : OneText(Of({}, d))  BY DEF OneText, Of
<1>3. Numbered({})  BY DEF Numbered
<1>4. ChunksOK  BY <1>1, <1>2, <1>3 DEF ChunksOK
<1>5. \A e \in Embedders : WriterOK(e)  BY <1>1 DEF WriterOK
<1>. QED  BY <1>4, <1>5, ChunkParts

-----------------------------------------------------------------------------
(* The steps of a switch.                                                  *)

LEMMA SwitchParts ==
  /\ SwitchPart <=> SwitchOK /\ SwitchKeepsIndex
  /\ SwitchPart' <=> SwitchOK' /\ SwitchKeepsIndex'
  BY DEF SwitchPart

LEMMA SwitchObjects ==
  ASSUME TypeOK, step \in {"check", "target", "dump", "load", "swap"}
  PROVE  /\ src \in 1..Len(objects) /\ dst \in 1..Len(objects)
         /\ StoreOf(src) \in Stores /\ StoreOf(dst) \in Stores
  BY ObjectTypes, TypeParts DEF RequestOK, Missing

LEMMA NoSwitch ==
  ASSUME step' \notin {"check", "target", "dump", "load", "swap"}, step' = "persist" => op' = "save"
  PROVE  SwitchPart'
  BY SwitchParts DEF SwitchOK, SwitchKeepsIndex

\* A step that names the documents it touches.
LEMMA SwitchFrame ==
  ASSUME TypeOK, SwitchPart, ObjectsKeep, UNCHANGED <<request, live, config>>,
         touched \subseteq touched',
         \A s \in Stores, d \in Docs :
           <<s, d>> \notin touched' => Of(points'[s], d) = Of(points[s], d)
  PROVE  SwitchPart'
<1>1. /\ UNCHANGED <<step, op, src, dst, dump, outcome, live, config>>
      /\ SwitchOK /\ SwitchKeepsIndex
  BY SwitchParts DEF request
<1>2. CASE step \notin {"check", "target", "dump", "load", "swap"}
  BY <1>1, <1>2, NoSwitch DEF SwitchOK
<1>3. CASE step \in {"check", "target", "dump", "load", "swap"}
  <2>1. /\ src \in 1..Len(objects) /\ dst \in 1..Len(objects)
        /\ StoreOf(src) \in Stores /\ StoreOf(dst) \in Stores
    BY <1>3, SwitchObjects
  <2>2. /\ StoreOf(src)' = StoreOf(src) /\ StoreOf(dst)' = StoreOf(dst)
        /\ Identity(dst)' = Identity(dst)
    BY <1>1, <2>1 DEF ObjectsKeep, StoreOf, Identity
  <2>3. step' = "load" =>
          \A d \in Docs : <<StoreOf(src)', d>> \notin touched' =>
            Of(points'[StoreOf(src)'], d) \subseteq dump'
    BY <1>1, <2>1, <2>2 DEF SwitchOK
  <2>4. SwitchOK'  BY <1>1, <1>3, <2>2, <2>3 DEF SwitchOK
  <2>5. ASSUME step = "swap", outcome \in {"copied", "empty"}, NEW d \in Docs,
               {StoreOf(src), StoreOf(dst)} \X {d} \cap touched' = {}
        PROVE  Of(points'[StoreOf(src)], d) \subseteq points'[StoreOf(dst)]
    <3>1. <<StoreOf(src), d>> \notin touched' /\ <<StoreOf(dst), d>> \notin touched'
      BY <2>5
    <3>2. /\ Of(points'[StoreOf(src)], d) = Of(points[StoreOf(src)], d)
          /\ Of(points'[StoreOf(dst)], d) = Of(points[StoreOf(dst)], d)
      BY <2>1, <3>1
    <3>3. {StoreOf(src), StoreOf(dst)} \X {d} \cap touched = {}  BY <2>5
    <3>4. Of(points[StoreOf(src)], d) \subseteq points[StoreOf(dst)]
      BY <1>1, <2>5, <3>3 DEF SwitchKeepsIndex
    <3>5. Of(points[StoreOf(src)], d) \subseteq Of(points[StoreOf(dst)], d)
      BY <3>4 DEF Of
    <3>. QED  BY <3>2, <3>5 DEF Of
  <2>6. SwitchKeepsIndex'
    <3>. SUFFICES ASSUME step' = "swap", outcome' \in {"copied", "empty"}, NEW d \in Docs,
                         {StoreOf(src)', StoreOf(dst)'} \X {d} \cap touched' = {}
                  PROVE  Of(points'[StoreOf(src)'], d) \subseteq points'[StoreOf(dst)']
      BY DEF SwitchKeepsIndex
    <3>. QED  BY <1>1, <2>2, <2>5
  <2>. QED  BY <2>4, <2>6, SwitchParts
<1>. QED  BY <1>2, <1>3

LEMMA PointsSameSwitch ==
  ASSUME TypeOK, SwitchPart, ObjectsKeep, UNCHANGED <<request, live, config, touched, points>>
  PROVE  SwitchPart'
<1>1. \A s \in Stores, d \in Docs :
        <<s, d>> \notin touched' => Of(points'[s], d) = Of(points[s], d)
  OBVIOUS
<1>. QED  BY <1>1, SwitchFrame

\* What a delete takes out is of its own document.
LEMMA DeletedOwn ==
  ASSUME TypeOK, NEW e \in Embedders, WriterOK(e), pc[e] = "delete",
         NEW c \in Deleted(e)
  PROVE  c.doc = doc[e]
<1>1. CASE StoreOf(obj[e]) = "chroma"
  <2>1. Id(c) \in listed[e]  BY <1>1 DEF Deleted
  <2>2. listed[e] \subseteq {doc[e]} \X Nat  BY WriterParts
  <2>. QED  BY <2>1, <2>2 DEF Id
<1>2. CASE StoreOf(obj[e]) # "chroma"  BY <1>2 DEF Deleted, Of
<1>. QED  BY <1>1, <1>2

LEMMA DeleteChunksSwitch ==
  ASSUME TypeOK, ChunkPart, SwitchPart, NEW e \in Embedders, DeleteChunks(e)
  PROVE  SwitchPart'
<1>. DEFINE s == StoreOf(obj[e])
            rest == points[s] \ Deleted(e)
<1>1. /\ ObjectsKeep /\ WriterOK(e) /\ pc[e] = "delete" /\ StoreOK /\ s \in Stores
  BY LookedFacts, ChunkParts, WriterTypes, TypeParts DEF DeleteChunks
<1>2. /\ points' = [points EXCEPT ![s] = rest] /\ UNCHANGED <<request, live, config>>
      /\ touched' = touched \cup {<<s, doc[e]>>}
  BY DEF DeleteChunks, settings, Touch
<1>3. ASSUME NEW r \in Stores, NEW d \in Docs, <<r, d>> \notin touched'
      PROVE  Of(points'[r], d) = Of(points[r], d)
  <2>1. CASE r # s  BY <1>1, <1>2, <2>1 DEF StoreOK
  <2>2. CASE r = s
    <3>1. d # doc[e] /\ points'[r] = rest  BY <1>1, <1>2, <1>3, <2>2 DEF StoreOK
    <3>2. \A c \in Deleted(e) : c.doc # d  BY <1>1, <3>1, DeletedOwn
    <3>. QED  BY <2>2, <3>1, <3>2 DEF Of
  <2>. QED  BY <2>1, <2>2
<1>. QED  BY <1>1, <1>2, <1>3, SwitchFrame

LEMMA WriteChunksSwitch ==
  ASSUME TypeOK, SwitchPart, NEW e \in Embedders, WriteChunks(e)
  PROVE  SwitchPart'
<1>. DEFINE s == StoreOf(obj[e])
            new == {[doc |-> doc[e], at |-> i, text |-> text[e]] : i \in embedded[e]}
<1>1. /\ ObjectsKeep /\ StoreOK /\ s \in Stores
  BY ObjectsSame, WriterTypes, TypeParts DEF WriteChunks
<1>2. /\ points' = [points EXCEPT ![s] = Over(points[s], new)]
      /\ UNCHANGED <<request, live, config>> /\ touched' = touched \cup {<<s, doc[e]>>}
  BY DEF WriteChunks, settings, Touch
<1>3. ASSUME NEW r \in Stores, NEW d \in Docs, <<r, d>> \notin touched'
      PROVE  Of(points'[r], d) = Of(points[r], d)
  <2>1. CASE r # s  BY <1>1, <1>2, <2>1 DEF StoreOK
  <2>2. CASE r = s
    <3>1. d # doc[e] /\ points'[r] = Over(points[s], new)
      BY <1>1, <1>2, <1>3, <2>2 DEF StoreOK
    <3>2. \A c \in new : c.doc = doc[e]  OBVIOUS
    <3>. HIDE DEF new
    <3>3. \A c \in points[s] : c.doc = d => Id(c) \notin {Id(n) : n \in new}
      BY <3>1, <3>2 DEF Id
    <3>. QED  BY <2>2, <3>1, <3>2, <3>3 DEF Of, Over
  <2>. QED  BY <2>1, <2>2
<1>. QED  BY <1>1, <1>2, <1>3, SwitchFrame

LEMMA UpsertSwitch ==
  ASSUME TypeOK, ChunkPart, SwitchPart, NEW e \in Embedders, Upsert(e)
  PROVE  SwitchPart'
<1>1. CASE EnsureCollection(e)
  <2>1. obj[e] \in 1..Len(objects) /\ objects[obj[e]].space \in Spaces
    BY <1>1, WriterTypes DEF EnsureCollection
  <2>2. ObjectsKeep  BY <1>1, <2>1, EnsureFacts DEF EnsureCollection
  <2>. QED  BY <1>1, <2>2, PointsSameSwitch DEF EnsureCollection, settings
<1>2. CASE \E d \in Docs, x \in Texts \cup {NoText} : StartUpsert(e, d, x)
  BY <1>2, ObjectsSame, PointsSameSwitch DEF StartUpsert, settings, store, history
<1>3. CASE ListChunks(e) \/ Embed(e) \/ WriteFails(e)
  BY <1>3, ObjectsSame, PointsSameSwitch
     DEF ListChunks, Embed, WriteFails, settings, store, history
<1>4. CASE DeleteFails(e)
  <2>1. ObjectsKeep  BY <1>4, WriterTypes, LookedFacts DEF DeleteFails
  <2>. QED  BY <1>4, <2>1, PointsSameSwitch DEF DeleteFails, settings, store
<1>. QED  BY <1>1, <1>2, <1>3, <1>4, DeleteChunksSwitch, WriteChunksSwitch DEF Upsert

LEMMA RebuildSwitch ==
  ASSUME TypeOK, SwitchPart, Rebuild
  PROVE  SwitchPart'
<1>1. CASE MustMigrate
  <2>1. /\ step' = "check" /\ op' = "save" /\ src' = live /\ dst' = Len(objects) + 1
        /\ UNCHANGED <<live, config>> /\ Make(config)
    BY <1>1, SwitchParts DEF Rebuild, SwitchOK
  <2>2. config \in Configs /\ Len(objects) + 1 \in Nat
    BY TypeParts, ObjectTypes DEF RequestOK
  <2>3. \A o \in Nat : o = Len(objects) + 1 => Identity(o)' = config
    BY <2>1, <2>2, ObjectMade
  <2>4. Identity(dst)' = config'
    <3>1. dst' \in Nat /\ dst' = Len(objects) + 1  BY <2>1, <2>2
    <3>2. PICK o \in Nat : o = dst' /\ o = Len(objects) + 1  BY <3>1
    <3>3. Identity(o)' = config  BY <2>3, <3>2
    <3>. QED  BY <2>1, <3>2, <3>3 DEF Identity
  <2>. QED  BY <2>1, <2>4, SwitchParts DEF SwitchOK, SwitchKeepsIndex
<1>2. CASE ~MustMigrate  BY <1>2, NoSwitch DEF Rebuild, Answer
<1>. QED  BY <1>1, <1>2

LEMMA MigrateSwitch ==
  ASSUME Migrate
  PROVE  SwitchPart'
  BY SwitchParts DEF Migrate, settings, SwitchOK, SwitchKeepsIndex

\* A migration goes from one of its steps to the next.
LEMMA SwitchGoes ==
  ASSUME TypeOK, SwitchPart, ObjectsKeep, UNCHANGED <<op, src, dst, live, config>>,
         step \in {"check", "target", "dump", "load"}
  PROVE  /\ \/ op' = "save" /\ src' = live' /\ Identity(dst)' = config'
            \/ op' = "migrate" /\ dst' = live'
         /\ StoreOf(src)' = StoreOf(src) /\ StoreOf(dst)' = StoreOf(dst)
         /\ StoreOf(src) \in Stores /\ StoreOf(dst) \in Stores
<1>1. /\ src \in 1..Len(objects) /\ dst \in 1..Len(objects)
      /\ StoreOf(src) \in Stores /\ StoreOf(dst) \in Stores
  BY SwitchObjects
<1>2. /\ StoreOf(src)' = StoreOf(src) /\ StoreOf(dst)' = StoreOf(dst)
      /\ Identity(dst)' = Identity(dst)
  BY <1>1 DEF ObjectsKeep, StoreOf, Identity
<1>. QED  BY <1>1, <1>2, SwitchParts DEF SwitchOK

LEMMA CheckSourceSwitch ==
  ASSUME TypeOK, SwitchPart, CheckSource
  PROVE  SwitchPart'
<1>1. UNCHANGED <<live, config, points>> /\ step = "check" /\ ObjectsKeep
  <2>1. step = "check"  BY DEF CheckSource
  <2>. QED  BY <2>1, SwitchObjects, LookedFacts DEF CheckSource, settings, store
<1>2. UNCHANGED <<op, src, dst>>  BY DEF CheckSource, Migrated
<1>3. /\ \/ op' = "save" /\ src' = live' /\ Identity(dst)' = config'
         \/ op' = "migrate" /\ dst' = live'
      /\ StoreOf(src)' = StoreOf(src) /\ StoreOf(dst)' = StoreOf(dst)
  BY <1>1, <1>2, SwitchGoes
<1>4. CASE Migrated("empty") /\ points[StoreOf(src)] = {}
  <2>1. \A d : Of({}, d) = {}  BY DEF Of
  <2>2. SwitchKeepsIndex'  BY <1>1, <1>3, <1>4, <2>1 DEF SwitchKeepsIndex
  <2>3. SwitchOK'  BY <1>3, <1>4 DEF Migrated, SwitchOK
  <2>. QED  BY <2>2, <2>3, SwitchParts
<1>5. CASE Migrated("overlooked")
  BY <1>3, <1>5, SwitchParts DEF Migrated, SwitchOK, SwitchKeepsIndex
<1>6. CASE step' = "target"
  BY <1>3, <1>6, SwitchParts DEF SwitchOK, SwitchKeepsIndex
<1>. QED  BY <1>4, <1>5, <1>6 DEF CheckSource

LEMMA CheckTargetSwitch ==
  ASSUME TypeOK, SwitchPart, CheckTarget
  PROVE  SwitchPart'
<1>1. UNCHANGED <<live, config>> /\ step = "target" /\ ObjectsKeep
  <2>1. step = "target"  BY DEF CheckTarget
  <2>. QED  BY <2>1, SwitchObjects, LookedFacts DEF CheckTarget, settings
<1>2. UNCHANGED <<op, src, dst>>  BY DEF CheckTarget, Migrated
<1>3. \/ op' = "save" /\ src' = live' /\ Identity(dst)' = config'
      \/ op' = "migrate" /\ dst' = live'
  BY <1>1, <1>2, SwitchGoes
<1>4. CASE Migrated("kept")
  BY <1>3, <1>4, SwitchParts DEF Migrated, SwitchOK, SwitchKeepsIndex
<1>5. CASE step' = "dump"
  BY <1>3, <1>5, SwitchParts DEF SwitchOK, SwitchKeepsIndex
<1>. QED  BY <1>4, <1>5 DEF CheckTarget

LEMMA DumpPointsSwitch ==
  ASSUME TypeOK, SwitchPart, DumpPoints
  PROVE  SwitchPart'
<1>1. ObjectsKeep /\ UNCHANGED <<live, config, points>> /\ step = "dump"
  BY ObjectsSame DEF DumpPoints, settings, store
<1>2. UNCHANGED <<op, src, dst>>  BY DEF DumpPoints, Migrated
<1>3. /\ \/ op' = "save" /\ src' = live' /\ Identity(dst)' = config'
         \/ op' = "migrate" /\ dst' = live'
      /\ StoreOf(src)' = StoreOf(src) /\ StoreOf(dst)' = StoreOf(dst)
  BY <1>1, <1>2, SwitchGoes
<1>4. CASE points[StoreOf(src)] = {}
  <2>1. Migrated("empty")  BY <1>4 DEF DumpPoints, Dumped
  <2>2. \A d : Of({}, d) = {}  BY DEF Of
  <2>3. SwitchKeepsIndex'  BY <1>1, <1>3, <1>4, <2>2 DEF SwitchKeepsIndex
  <2>4. SwitchOK'  BY <1>3, <2>1 DEF Migrated, SwitchOK
  <2>. QED  BY <2>3, <2>4, SwitchParts
<1>5. CASE points[StoreOf(src)] # {}
  <2>1. step' = "load" /\ dump' = points[StoreOf(src)]  BY <1>5 DEF DumpPoints, Dumped
  <2>2. \A d : Of(points'[StoreOf(src)'], d) \subseteq dump'  BY <1>1, <1>3, <2>1 DEF Of
  <2>. QED  BY <1>3, <2>1, <2>2, SwitchParts DEF SwitchOK, SwitchKeepsIndex
<1>. QED  BY <1>4, <1>5

LEMMA LoadPointsSwitch ==
  ASSUME TypeOK, SwitchPart, LoadPoints
  PROVE  SwitchPart'
<1>1. /\ step = "load" /\ UNCHANGED <<live, config, touched, op, src, dst>>
      /\ step' = "swap" /\ outcome' \in {"copied", "failed"}
      /\ points' = [points EXCEPT ![StoreOf(dst)] = Over(points[StoreOf(dst)], dump)]
  BY DEF LoadPoints, Migrated, settings
<1>2. ObjectsKeep
  <2>1. dst \in 1..Len(objects)  BY <1>1, SwitchObjects
  <2>2. CASE Ensure(dst, dumpSpace)  BY <2>1, <2>2, EnsureFacts, TypeParts DEF RequestOK
  <2>3. CASE UNCHANGED objects  BY <2>3, ObjectsSame
  <2>. QED  BY <2>2, <2>3 DEF LoadPoints
<1>3. /\ \/ op' = "save" /\ src' = live' /\ Identity(dst)' = config'
         \/ op' = "migrate" /\ dst' = live'
      /\ StoreOf(src)' = StoreOf(src) /\ StoreOf(dst)' = StoreOf(dst)
      /\ StoreOf(src) \in Stores /\ StoreOf(dst) \in Stores
  BY <1>1, <1>2, SwitchGoes
<1>4. SwitchOK'  BY <1>1, <1>3 DEF SwitchOK
<1>5. /\ StoreOf(src) # StoreOf(dst) =>
           points'[StoreOf(src)] = points[StoreOf(src)]
      /\ dump \subseteq points'[StoreOf(dst)]
  BY <1>1, <1>3, OverFacts, TypeParts DEF StoreOK
<1>6. ASSUME NEW d \in Docs, {StoreOf(src), StoreOf(dst)} \X {d} \cap touched = {}
      PROVE  Of(points'[StoreOf(src)], d) \subseteq points'[StoreOf(dst)]
  <2>1. CASE StoreOf(src) = StoreOf(dst)  BY <2>1 DEF Of
  <2>2. CASE StoreOf(src) # StoreOf(dst)
    <3>1. <<StoreOf(src), d>> \notin touched  BY <1>6
    <3>2. Of(points[StoreOf(src)], d) \subseteq dump
      BY <1>1, <3>1, SwitchParts DEF SwitchOK
    <3>. QED  BY <1>5, <2>2, <3>2
  <2>. QED  BY <2>1, <2>2
<1>7. SwitchKeepsIndex'  BY <1>1, <1>3, <1>6 DEF SwitchKeepsIndex
<1>. QED  BY <1>4, <1>7, SwitchParts

LEMMA LoadFailsSwitch ==
  ASSUME TypeOK, SwitchPart, LoadFails
  PROVE  SwitchPart'
<1>1. /\ step = "load" /\ UNCHANGED <<live, config, op, src, dst>>
      /\ step' = "swap" /\ outcome' = "failed"
  BY DEF LoadFails, Migrated, settings
<1>2. ObjectsKeep
  <2>1. dst \in 1..Len(objects)  BY <1>1, SwitchObjects
  <2>. QED  BY <2>1, EnsureFacts, TypeParts DEF LoadFails, RequestOK
<1>3. \/ op' = "save" /\ src' = live' /\ Identity(dst)' = config'
      \/ op' = "migrate" /\ dst' = live'
  BY <1>1, <1>2, SwitchGoes
<1>. QED  BY <1>1, <1>3, SwitchParts DEF SwitchOK, SwitchKeepsIndex

LEMMA MigrationFailsSwitch ==
  ASSUME TypeOK, SwitchPart, MigrationFails
  PROVE  SwitchPart'
<1>1. /\ ObjectsKeep /\ UNCHANGED <<live, config, op, src, dst>>
      /\ step \in {"check", "target", "dump", "load"} /\ step' = "swap" /\ outcome' = "failed"
  BY ObjectsSame DEF MigrationFails, Migrated, settings
<1>2. \/ op' = "save" /\ src' = live' /\ Identity(dst)' = config'
      \/ op' = "migrate" /\ dst' = live'
  BY <1>1, SwitchGoes
<1>. QED  BY <1>1, <1>2, SwitchParts DEF SwitchOK, SwitchKeepsIndex

LEMMA StepSwitch ==
  ASSUME TypeOK, ChunkPart, SwitchPart, [Next]_vars
  PROVE  SwitchPart'
<1>1. CASE \E c \in Configs : Save(c) \/ Import(c)
  BY <1>1, NoSwitch DEF Save, Import
<1>2. CASE RebuildFails \/ Reindex \/ ReindexKeeps \/ Recreate \/ Swap \/ Restart \/ Heal
  BY <1>2, NoSwitch
     DEF RebuildFails, Reindex, ReindexKeeps, Recreate, Swap, Restart, Heal, Answer, request
<1>3. CASE UNCHANGED vars
  BY <1>3, StutterType, PointsSameSwitch DEF vars, settings, store, history
<1>4. CASE Look
  <2>1. ObjectsKeep  BY <1>4, LookType
  <2>. QED  BY <1>4, <2>1, PointsSameSwitch DEF Look, settings, store, history
<1>. QED  BY <1>1, <1>2, <1>3, <1>4, UpsertSwitch, RebuildSwitch, MigrateSwitch,
             CheckSourceSwitch, CheckTargetSwitch, DumpPointsSwitch, LoadPointsSwitch,
             LoadFailsSwitch, MigrationFailsSwitch DEF Next, Administer

-----------------------------------------------------------------------------
(* Whose model a store is filled with.                                     *)

LEMMA SpaceParts ==
  /\ SpacePart <=> SpacesOK /\ UsableOrPrompted
  /\ SpacePart' <=> SpacesOK' /\ UsableOrPrompted'
  BY DEF SpacePart

LEMMA LiveObject ==
  ASSUME TypeOK, live # Missing
  PROVE  live \in 1..Len(objects) /\ StoreOf(live) \in Stores
  BY ObjectTypes, TypeParts DEF RequestOK, Missing

\* A save that is migrated copies to another store, and what the same model has
\* computed; or the administrator knows, or the stores are excepted.
Migrating == step \in {"check", "target", "dump", "load"}
SaveApart ==
  Migrating /\ op = "save" =>
    \/ StoreOf(src) # StoreOf(dst) /\ objects[src].space = objects[dst].space
    \/ StoreOf(dst) \in muddled
SaveCopies ==
  step = "load" /\ op = "save" =>
    \/ dumpSpace \in {NoSpace, objects[dst].space} \/ prompted
    \/ {StoreOf(src), StoreOf(dst)} \cap muddled # {}

LEMMA ApartStays ==
  ASSUME TypeOK, SpacesOK, ObjectsKeep, muddled \subseteq muddled',
         Migrating' => op' # "save" \/ (Migrating /\ UNCHANGED <<op, src, dst>>)
  PROVE  SaveApart'
<1>. SUFFICES ASSUME Migrating, op = "save", UNCHANGED <<op, src, dst>>
              PROVE  SaveApart'
  BY DEF SaveApart
<1>1. src \in 1..Len(objects) /\ dst \in 1..Len(objects)  BY SwitchObjects DEF Migrating
<1>2. /\ StoreOf(src)' = StoreOf(src) /\ StoreOf(dst)' = StoreOf(dst)
      /\ objects'[src].space = objects[src].space /\ objects'[dst].space = objects[dst].space
  BY <1>1 DEF ObjectsKeep, StoreOf
<1>3. \/ StoreOf(src) # StoreOf(dst) /\ objects[src].space = objects[dst].space
      \/ StoreOf(dst) \in muddled
  BY DEF SpacesOK, Migrating
<1>. QED  BY <1>2, <1>3 DEF SaveApart

LEMMA CopiesStay ==
  ASSUME TypeOK, SpacesOK, ObjectsKeep, muddled \subseteq muddled', prompted => prompted',
         step = "load", UNCHANGED <<op, src, dst, dumpSpace>>
  PROVE  SaveCopies'
<1>1. src \in 1..Len(objects) /\ dst \in 1..Len(objects)  BY SwitchObjects
<1>2. /\ StoreOf(src)' = StoreOf(src) /\ StoreOf(dst)' = StoreOf(dst)
      /\ objects'[dst].space = objects[dst].space
  BY <1>1 DEF ObjectsKeep, StoreOf
<1>3. op = "save" =>
        \/ dumpSpace \in {NoSpace, objects[dst].space} \/ prompted
        \/ {StoreOf(src), StoreOf(dst)} \cap muddled # {}
  BY DEF SpacesOK
<1>. QED  BY <1>2, <1>3 DEF SaveCopies

\* The live store stays, with what it holds; or its administrator has been told.
LEMMA LiveFrame ==
  ASSUME TypeOK, UsableOrPrompted, ObjectsKeep, live' = live, muddled \subseteq muddled',
         prompted => prompted',
         live # Missing /\ StoreOf(live) \notin muddled' =>
           dim'[StoreOf(live)] \in {dim[StoreOf(live)], NoSpace, objects[live].space}
  PROVE  UsableOrPrompted'
<1>1. CASE live = Missing  BY <1>1 DEF UsableOrPrompted
<1>2. CASE live # Missing
  <2>1. live \in 1..Len(objects) /\ StoreOf(live) \in Stores  BY <1>2, LiveObject
  <2>2. StoreOf(live)' = StoreOf(live) /\ objects'[live].space = objects[live].space
    BY <2>1 DEF ObjectsKeep, StoreOf
  <2>3. ASSUME StoreOf(live) \notin muddled'
        PROVE  prompted' \/ dim'[StoreOf(live)] \in {NoSpace, objects[live].space}
    BY <1>2, <2>3 DEF UsableOrPrompted, Fits
  <2>. QED  BY <2>2, <2>3 DEF UsableOrPrompted, Fits
<1>. QED  BY <1>1, <1>2

\* A step in which the stores keep their dimensions, but for those it muddles and
\* those it fills with the model of the live store.
LEMMA SpaceFrame ==
  ASSUME TypeOK, SwitchPart, SpacePart, ObjectsKeep,
         UNCHANGED <<request, live, config, prompted>>, muddled \subseteq muddled',
         \A s \in Stores \ muddled' :
           \/ dim'[s] = dim[s]
           \/ live # Missing /\ dim'[s] = objects[live].space /\ dim'[s] = config.space
  PROVE  SpacePart'
<1>1. /\ UNCHANGED <<step, op, src, dst, dumpSpace, outcome, before, live, config, prompted>>
      /\ SpacesOK
  BY SpaceParts DEF request
<1>2. UsableOrPrompted'
  <2>1. live # Missing => StoreOf(live) \in Stores  BY LiveObject
  <2>. QED  BY <1>1, <2>1, LiveFrame, SpaceParts
<1>3. ASSUME step = "swap", outcome = "copied", StoreOf(dst)' \notin muddled', ~prompted
      PROVE  Fits(dst)'
  <2>1. dst \in 1..Len(objects) /\ StoreOf(dst) \in Stores  BY <1>3, SwitchObjects
  <2>2. StoreOf(dst)' = StoreOf(dst) /\ objects'[dst].space = objects[dst].space
    BY <1>1, <2>1 DEF ObjectsKeep, StoreOf
  <2>3. dim[StoreOf(dst)] \in {NoSpace, objects[dst].space}
    BY <1>1, <1>3, <2>2 DEF SpacesOK, Fits
  <2>4. Identity(dst) = config \/ dst = live  BY <1>3, SwitchParts DEF SwitchOK
  <2>5. objects[dst].space = config.space \/ dst = live  BY <2>4 DEF Identity
  <2>6. dim'[StoreOf(dst)] \in {NoSpace, objects[dst].space}
    BY <1>3, <2>1, <2>2, <2>3, <2>5
  <2>. QED  BY <1>1, <2>2, <2>6 DEF Fits
<1>4. ASSUME step = "persist", config.store \notin muddled'
      PROVE  live # Missing /\ before = Identity(live)'
  <2>1. live # Missing /\ before = Identity(live)  BY <1>1, <1>4 DEF SpacesOK
  <2>. QED  BY <1>1, <2>1, LiveObject DEF ObjectsKeep, Identity
<1>5. SaveApart'  BY <1>1, ApartStays DEF Migrating
<1>6. step = "load" => SaveCopies'  BY <1>1, CopiesStay
<1>7. SpacesOK'  BY <1>1, <1>3, <1>4, <1>5, <1>6 DEF SpacesOK, SaveApart, SaveCopies, Migrating
<1>. QED  BY <1>2, <1>7, SpaceParts

LEMMA UpsertSpace ==
  ASSUME TypeOK, SwitchPart, SpacePart, ChunkPart, NEW e \in Embedders, Upsert(e)
  PROVE  SpacePart'
<1>1. CASE EnsureCollection(e)
  <2>. DEFINE o == obj[e]
  <2>1. o \in 1..Len(objects) /\ objects[o].space \in Spaces /\ Ensure(o, objects[o].space)
    BY <1>1, WriterTypes DEF EnsureCollection
  <2>2. /\ ObjectsKeep /\ dim'["chroma"] = dim["chroma"]
        /\ dim'["qdrant"] \in {dim["qdrant"], objects[o].space}
    BY <2>1, EnsureFacts
  <2>3. /\ muddled' = Muddle("qdrant", dim' # dim /\ Foreign(o))
        /\ UNCHANGED <<request, live, config, prompted>>
    BY <1>1 DEF EnsureCollection, settings
  <2>4. ASSUME NEW s \in Stores \ muddled'
        PROVE  \/ dim'[s] = dim[s]
               \/ live # Missing /\ dim'[s] = objects[live].space /\ dim'[s] = config.space
    <3>1. CASE s = "qdrant" /\ dim' # dim
      <4>1. ~Foreign(o)  BY <2>3, <2>4, <3>1 DEF Muddle
      <4>. QED  BY <2>2, <3>1, <4>1 DEF Foreign
    <3>. QED  BY <2>2, <3>1 DEF Stores
  <2>. QED  BY <2>2, <2>3, <2>4, SpaceFrame DEF Muddle
<1>2. CASE WriteChunks(e)
  <2>. DEFINE o == obj[e]
  <2>1. StoreOf(o) \in Stores /\ StoreOK /\ ObjectsKeep
    BY <1>2, ObjectsSame, WriterTypes, TypeParts DEF WriteChunks
  <2>2. /\ dim' = [dim EXCEPT ![StoreOf(o)] = objects[o].space]
        /\ muddled' = Muddle(StoreOf(o), dim' # dim /\ Foreign(o))
        /\ UNCHANGED <<request, live, config, prompted>>
    BY <1>2 DEF WriteChunks, settings
  <2>3. ASSUME NEW s \in Stores \ muddled'
        PROVE  \/ dim'[s] = dim[s]
               \/ live # Missing /\ dim'[s] = objects[live].space /\ dim'[s] = config.space
    <3>1. CASE s = StoreOf(o) /\ dim' # dim
      <4>1. ~Foreign(o)  BY <2>2, <2>3, <3>1 DEF Muddle
      <4>2. dim'[s] = objects[o].space  BY <2>1, <2>2, <3>1 DEF StoreOK
      <4>. QED  BY <4>1, <4>2 DEF Foreign
    <3>2. CASE s # StoreOf(o)  BY <2>1, <2>2, <3>2 DEF StoreOK
    <3>. QED  BY <3>1, <3>2
  <2>. QED  BY <2>1, <2>2, <2>3, SpaceFrame DEF Muddle
<1>3. CASE \E d \in Docs, x \in Texts \cup {NoText} : StartUpsert(e, d, x)
  BY <1>3, ObjectsSame, SpaceFrame DEF StartUpsert, settings, store, history
<1>4. CASE ListChunks(e) \/ DeleteChunks(e) \/ DeleteFails(e) \/ Embed(e) \/ WriteFails(e)
  <2>1. UNCHANGED <<request, live, config, prompted, dim, muddled>>
    BY <1>4 DEF ListChunks, DeleteChunks, DeleteFails, Embed, WriteFails, settings, store, history
  <2>2. ObjectsKeep
    <3>1. CASE DeleteChunks(e) \/ DeleteFails(e)
      BY <3>1, WriterTypes, LookedFacts DEF DeleteChunks, DeleteFails
    <3>2. CASE ListChunks(e) \/ Embed(e) \/ WriteFails(e)
      BY <3>2, ObjectsSame DEF ListChunks, Embed, WriteFails
    <3>. QED  BY <1>4, <3>1, <3>2
  <2>. QED  BY <2>1, <2>2, SpaceFrame
<1>. QED  BY <1>1, <1>2, <1>3, <1>4 DEF Upsert

LEMMA NoSwap ==
  ASSUME step' = "swap" => outcome' # "copied", step' # "persist", SaveApart',
         step' = "load" => SaveCopies', UsableOrPrompted'
  PROVE  SpacePart'
  BY SpaceParts DEF SpacesOK, SaveApart, SaveCopies, Migrating

LEMMA SaveSpace ==
  ASSUME TypeOK, SpacePart, NEW c \in Configs, Save(c)
  PROVE  SpacePart'
<1>1. /\ ObjectsKeep /\ step' = "persist" /\ before' = config /\ config' = c
      /\ muddled' = Muddle(c.store, live = Missing \/ config # Identity(live))
      /\ UNCHANGED <<live, prompted, dim, objects>>
  BY ObjectsSame DEF Save, store
<1>2. UsableOrPrompted'  BY <1>1, LiveFrame, SpaceParts DEF Muddle
<1>3. Identity(live)' = Identity(live)  BY <1>1 DEF Identity
<1>. QED  BY <1>1, <1>2, <1>3, SpaceParts DEF SpacesOK, Muddle

\* The new store takes over the points of the one before, if it is the same backend
\* and the same model.
LEMMA RebuildSpace ==
  ASSUME TypeOK, SpacePart, Rebuild
  PROVE  SpacePart'
<1>1. config \in Configs  BY TypeParts DEF RequestOK
<1>2. /\ ObjectsKeep /\ Len(objects) + 1 \in Nat
      /\ \A o \in Nat : o = Len(objects) + 1 => Identity(o)' = config /\ StoreOf(o)' = config.store
  BY <1>1, ObjectMade, ObjectTypes DEF Rebuild
<1>3. step = "persist" /\ UNCHANGED <<dim, muddled, config>>  BY DEF Rebuild, Answer
<1>4. CASE MustMigrate
  <2>1. /\ step' = "check" /\ UNCHANGED <<live, prompted>> /\ live # Missing
        /\ src' = live /\ dst' = Len(objects) + 1
        /\ config.store # before.store /\ config.space = before.space
    BY <1>4 DEF Rebuild, MustMigrate
  <2>2. SaveApart'
    <3>1. StoreOf(src)' = StoreOf(live)
      BY <1>2, <2>1, LiveObject DEF ObjectsKeep, StoreOf
    <3>2. StoreOf(dst)' = config.store
      <4>1. PICK o \in Nat : o = Len(objects) + 1 /\ o = dst'  BY <1>2, <2>1
      <4>2. StoreOf(o)' = config.store  BY <1>2, <4>1
      <4>. QED  BY <4>1, <4>2 DEF StoreOf
    <3>3. config.store \notin muddled => before = Identity(live)
      BY <1>3, SpaceParts DEF SpacesOK
    <3>4. objects'[src'].space = objects[live].space
      BY <1>2, <2>1, LiveObject DEF ObjectsKeep
    <3>5. objects'[dst'].space = config.space
      <4>1. PICK o \in Nat : o = Len(objects) + 1 /\ o = dst'  BY <1>2, <2>1
      <4>2. Identity(o)' = config  BY <1>2, <4>1
      <4>. QED  BY <4>1, <4>2 DEF Identity
    <3>. QED  BY <1>3, <2>1, <3>1, <3>2, <3>3, <3>4, <3>5 DEF SaveApart, Identity, StoreOf
  <2>. QED  BY <1>2, <1>3, <2>1, <2>2, LiveFrame, NoSwap, SpaceParts
<1>5. CASE ~MustMigrate
  <2>1. PICK o \in Nat : o = Len(objects) + 1  BY <1>2
  <2>2. Identity(o)' = config /\ StoreOf(o)' = config.store  BY <1>2, <2>1
  <2>3. step' = "idle" /\ live' = o /\ (prompted' <=> prompted \/ MustReindex)
    BY <1>5, <2>1 DEF Rebuild, Answer
  <2>4. ASSUME config.store \notin muddled, ~prompted, ~MustReindex
        PROVE  dim[config.store] \in {NoSpace, config.space}
    <3>1. live # Missing /\ before = Identity(live)
      BY <1>3, <2>4, SpaceParts DEF SpacesOK
    <3>2. config.store = StoreOf(live) /\ config.space = objects[live].space
      BY <2>4, <3>1 DEF MustReindex, Identity, StoreOf
    <3>. QED  BY <2>4, <3>1, <3>2, SpaceParts DEF UsableOrPrompted, Fits
  <2>5. objects'[o].space = config.space  BY <2>2 DEF Identity
  <2>6. UsableOrPrompted'
    <3>1. StoreOf(live)' = config.store /\ objects'[live'].space = config.space
      BY <2>2, <2>3, <2>5 DEF StoreOf
    <3>. QED  BY <1>3, <2>3, <2>4, <3>1 DEF UsableOrPrompted, Fits
  <2>. QED  BY <2>3, <2>6, NoSwap DEF SaveApart, Migrating
<1>. QED  BY <1>4, <1>5

\* Steps of the administrator that neither fill a store nor change the live one.
LEMMA QuietSpace ==
  ASSUME TypeOK, SpacePart, ObjectsKeep, UNCHANGED <<live, dim, muddled>>,
         prompted => prompted', step' = "swap" => outcome' # "copied", step' # "persist",
         Migrating' => op' # "save" \/ (Migrating /\ UNCHANGED <<op, src, dst>>), step' # "load"
  PROVE  SpacePart'
  BY LiveFrame, ApartStays, NoSwap, SpaceParts

LEMMA MigrateSpace ==
  ASSUME TypeOK, SpacePart, Migrate
  PROVE  SpacePart'
<1>. DEFINE c == [store |-> "chroma", space |-> config.space]
<1>1. c \in Configs  BY TypeParts DEF RequestOK, Configs, Stores
<1>2. ObjectsKeep  BY <1>1, ObjectMade DEF Migrate
<1>. QED  BY <1>2, QuietSpace DEF Migrate, settings

\* The vectors of a dump come into store s, or a collection is made for them.
LEMMA LoadedSpace ==
  ASSUME TypeOK, SwitchPart, SpacePart, step = "load", ObjectsKeep, UNCHANGED <<live, prompted>>,
         NEW s \in Stores, s = StoreOf(dst), dim'[s] \in {dim[s], dumpSpace},
         \A r \in Stores : r # s => dim'[r] = dim[r],
         muddled' = Muddle(s, Unannounced)
  PROVE  UsableOrPrompted'
<1>1. muddled \subseteq muddled'  BY DEF Muddle
<1>2. CASE live = Missing  BY <1>2 DEF UsableOrPrompted
<1>3. CASE s \in muddled' \/ StoreOf(live) # s
  <2>1. live # Missing /\ StoreOf(live) \notin muddled' =>
          dim'[StoreOf(live)] = dim[StoreOf(live)]
    BY <1>3, LiveObject
  <2>. QED  BY <1>1, <2>1, LiveFrame, SpaceParts
<1>4. CASE live # Missing /\ s \notin muddled' /\ StoreOf(live) = s
  <2>1. s \notin muddled /\ (op = "migrate" => dumpSpace = objects[dst].space)
    BY <1>4 DEF Muddle, Unannounced
  <2>2. op = "migrate" /\ dst = live
    <3>1. \/ op = "save" /\ src = live
          \/ op = "migrate" /\ dst = live
      BY SwitchParts DEF SwitchOK
    <3>2. op = "save" => StoreOf(src) # s  BY <2>1, SpaceParts DEF SpacesOK
    <3>. QED  BY <1>4, <3>1, <3>2
  <2>. QED  BY <1>1, <1>4, <2>1, <2>2, LiveFrame, SpaceParts
<1>. QED  BY <1>2, <1>3, <1>4

LEMMA LoadPointsSpace ==
  ASSUME TypeOK, SwitchPart, SpacePart, LoadPoints
  PROVE  SpacePart'
<1>. DEFINE s == StoreOf(dst)
<1>1. /\ step = "load" /\ Loadable /\ step' = "swap" /\ UNCHANGED <<live, prompted>>
      /\ dst' = dst /\ muddled' = Muddle(s, Unannounced)
  BY DEF LoadPoints, Migrated, settings
<1>2. dst \in 1..Len(objects) /\ s \in Stores /\ dumpSpace \in Spaces \cup {NoSpace}
  BY <1>1, SwitchObjects, TypeParts DEF RequestOK
<1>3. /\ ObjectsKeep /\ dim'[s] \in {dim[s], dumpSpace}
      /\ \A r \in Stores : r # s => dim'[r] = dim[r]
  <2>1. CASE s = "qdrant"
    <3>1. Ensure(dst, dumpSpace)  BY <2>1 DEF LoadPoints
    <3>. QED  BY <1>2, <2>1, <3>1, EnsureFacts DEF Stores
  <2>2. CASE s # "qdrant"
    <3>1. dim' = [dim EXCEPT ![s] = dumpSpace] /\ UNCHANGED objects
      BY <2>2 DEF LoadPoints
    <3>. QED  BY <1>2, <3>1, ObjectsSame, TypeParts DEF StoreOK
  <2>. QED  BY <2>1, <2>2
<1>4. StoreOf(dst)' = s /\ objects'[dst].space = objects[dst].space
  BY <1>1, <1>2, <1>3 DEF ObjectsKeep, StoreOf
<1>5. StoreOf(dst)' \notin muddled' => prompted' \/ Fits(dst)'
  <2>1. s \notin muddled' => prompted \/ dumpSpace \in {NoSpace, objects[dst].space}
    <3>1. op = "save" \/ op = "migrate"  BY <1>1, SwitchParts DEF SwitchOK
    <3>2. op = "save" =>
            \/ dumpSpace \in {NoSpace, objects[dst].space} \/ prompted
            \/ {StoreOf(src), s} \cap muddled # {}
      BY <1>1, SpaceParts DEF SpacesOK
    <3>. QED  BY <1>1, <3>1, <3>2 DEF Muddle, Unannounced
  <2>2. dim[s] \in {NoSpace, dumpSpace}  BY <1>1 DEF Loadable
  <2>. QED  BY <1>1, <1>3, <1>4, <2>1, <2>2 DEF Fits
<1>6. UsableOrPrompted'  BY <1>1, <1>2, <1>3, LoadedSpace
<1>. QED  BY <1>1, <1>5, <1>6, SpaceParts DEF SpacesOK

LEMMA LoadFailsSpace ==
  ASSUME TypeOK, SwitchPart, SpacePart, LoadFails
  PROVE  SpacePart'
<1>1. /\ step = "load" /\ step' = "swap" /\ outcome' = "failed" /\ UNCHANGED <<live, prompted>>
      /\ StoreOf(dst) = "qdrant" /\ muddled' = Muddle("qdrant", Unannounced)
      /\ Ensure(dst, dumpSpace)
  BY DEF LoadFails, Migrated, settings
<1>2. dst \in 1..Len(objects) /\ dumpSpace \in Spaces \cup {NoSpace}
  BY <1>1, SwitchObjects, TypeParts DEF RequestOK
<1>3. /\ ObjectsKeep /\ dim'["qdrant"] \in {dim["qdrant"], dumpSpace}
      /\ \A r \in Stores : r # "qdrant" => dim'[r] = dim[r]
  BY <1>1, <1>2, EnsureFacts DEF Stores
<1>4. UsableOrPrompted'  BY <1>1, <1>3, LoadedSpace DEF Stores
<1>. QED  BY <1>1, <1>4, NoSwap DEF SaveApart, Migrating

\* The dump of a save is of the model of the live store, if the index is usable.
LEMMA DumpPointsSpace ==
  ASSUME TypeOK, SwitchPart, SpacePart, DumpPoints
  PROVE  SpacePart'
<1>1. /\ step = "dump" /\ UNCHANGED <<live, dim, muddled, prompted, objects, op, src, dst>>
      /\ ObjectsKeep
  BY ObjectsSame DEF DumpPoints, Migrated, settings, store
<1>2. UsableOrPrompted'  BY <1>1, LiveFrame, SpaceParts
<1>3. SaveApart'  BY <1>1, ApartStays, SpaceParts DEF Migrating
<1>4. ASSUME step' = "load" PROVE SaveCopies'
  <2>1. dumpSpace' = dim[StoreOf(src)]  BY <1>4 DEF DumpPoints, Migrated
  <2>2. ASSUME op = "save", ~prompted, {StoreOf(src), StoreOf(dst)} \cap muddled = {}
        PROVE  dim[StoreOf(src)] \in {NoSpace, objects[dst].space}
    <3>1. src = live /\ live # Missing
      BY <1>1, <2>2, SwitchParts, TypeParts DEF SwitchOK, RequestOK
    <3>2. objects[src].space = objects[dst].space
      BY <1>1, <2>2, SpaceParts DEF SpacesOK
    <3>. QED  BY <2>2, <3>1, <3>2, SpaceParts DEF UsableOrPrompted, Fits
  <2>. QED  BY <1>1, <2>1, <2>2 DEF SaveCopies, StoreOf
<1>5. step' = "swap" => outcome' # "copied"  BY DEF DumpPoints, Migrated
<1>6. step' # "persist"  BY DEF DumpPoints, Migrated
<1>. QED  BY <1>2, <1>3, <1>4, <1>5, <1>6, NoSwap

LEMMA SwapSpace ==
  ASSUME TypeOK, SwitchPart, SpacePart, Swap
  PROVE  SpacePart'
<1>1. /\ step = "swap" /\ step' = "idle" /\ UNCHANGED <<dim, objects>> /\ ObjectsKeep
      /\ live' = IF op = "save" THEN dst ELSE live
      /\ (prompted' <=> prompted \/ outcome = "failed")
      /\ muddled' = Muddle(StoreOf(dst), outcome \in {"empty", "overlooked", "kept"})
  BY ObjectsSame DEF Swap, Answer, store
<1>2. CASE op = "save"
  <2>1. outcome \in {"empty", "overlooked", "kept", "copied", "failed"}
    BY <1>1, TypeParts, SwitchParts DEF SwitchOK, RequestOK
  <2>2. ASSUME StoreOf(dst) \notin muddled', ~prompted'
        PROVE  Fits(dst)
    <3>1. outcome = "copied" /\ StoreOf(dst) \notin muddled /\ ~prompted
      BY <1>1, <2>1, <2>2 DEF Muddle
    <3>. QED  BY <1>1, <3>1, SpaceParts DEF SpacesOK
  <2>3. StoreOf(live)' = StoreOf(dst) /\ (Fits(live)' <=> Fits(dst))
    BY <1>1, <1>2 DEF StoreOf, Fits
  <2>4. UsableOrPrompted'  BY <2>2, <2>3 DEF UsableOrPrompted
  <2>. QED  BY <1>1, <2>4, NoSwap DEF SaveApart, Migrating
<1>3. CASE op # "save"  BY <1>1, <1>3, LiveFrame, NoSwap, SpaceParts DEF Muddle, SaveApart, Migrating
<1>. QED  BY <1>2, <1>3

LEMMA ReindexSpace ==
  ASSUME TypeOK, SpacePart, Reindex
  PROVE  SpacePart'
<1>. DEFINE s == StoreOf(live)
<1>1. /\ live \in 1..Len(objects) /\ s \in Stores /\ Empty(s) /\ live' = live
      /\ step' \in {"idle", "recreate"}
  BY LiveObject DEF Reindex
<1>2. ObjectsKeep  BY <1>1, ObjectOpens DEF Reindex, Missing
<1>3. dim'[s] = NoSpace  BY <1>1, TypeParts DEF Empty, StoreOK
<1>4. StoreOf(live)' = s  BY <1>1, <1>2 DEF ObjectsKeep, StoreOf
<1>5. UsableOrPrompted'  BY <1>3, <1>4 DEF UsableOrPrompted, Fits
<1>. QED  BY <1>1, <1>5, NoSwap DEF SaveApart, Migrating

\* A restart makes the store that was saved.
LEMMA RestartSpace ==
  ASSUME TypeOK, SpacePart, Restart
  PROVE  SpacePart'
<1>1. /\ step' = "heal" /\ UNCHANGED <<dim, prompted>> /\ saved \in Configs
      /\ muddled' = Muddle(saved.store, live = Missing \/ saved # Identity(live))
  BY TypeParts DEF Restart, RequestOK
<1>2. CASE Make(saved) /\ live' = Len(objects) + 1
  <2>1. PICK o \in Nat : o = Len(objects) + 1 /\ o = live'  BY <1>2, ObjectTypes
  <2>2. Identity(o)' = saved /\ StoreOf(o)' = saved.store
    BY <1>1, <1>2, <2>1, ObjectMade
  <2>3. StoreOf(live)' = saved.store /\ objects'[live'].space = saved.space
    BY <2>1, <2>2 DEF StoreOf, Identity
  <2>4. ASSUME saved.store \notin muddled', ~prompted
        PROVE  dim[saved.store] \in {NoSpace, saved.space}
    <3>1. live # Missing /\ saved = Identity(live) /\ saved.store \notin muddled
      BY <1>1, <2>4 DEF Muddle
    <3>2. saved.store = StoreOf(live) /\ saved.space = objects[live].space
      BY <3>1 DEF Identity, StoreOf
    <3>. QED  BY <2>4, <3>1, <3>2, SpaceParts DEF UsableOrPrompted, Fits
  <2>5. UsableOrPrompted'  BY <1>1, <2>3, <2>4 DEF UsableOrPrompted, Fits
  <2>. QED  BY <1>1, <2>5, NoSwap DEF SaveApart, Migrating
<1>3. CASE live' = Missing
  BY <1>1, <1>3, NoSwap DEF UsableOrPrompted, SaveApart, Migrating
<1>. QED  BY <1>2, <1>3 DEF Restart

LEMMA HealSpace ==
  ASSUME TypeOK, SpacePart, Heal
  PROVE  SpacePart'
<1>1. /\ ObjectsKeep /\ step' = "idle" /\ UNCHANGED <<live, prompted, muddled>>
  BY ObjectsSame DEF Heal, settings
<1>2. \A s \in Stores : dim'[s] \in {dim[s], NoSpace}
  BY TypeParts DEF Heal, Empty, store, StoreOK, Stores
<1>3. UsableOrPrompted'  BY <1>1, <1>2, LiveObject, LiveFrame, SpaceParts
<1>. QED  BY <1>1, <1>3, NoSwap DEF SaveApart, Migrating

LEMMA StepSpace ==
  ASSUME TypeOK, ChunkPart, SwitchPart, SpacePart, [Next]_vars
  PROVE  SpacePart'
<1>1. CASE RebuildFails
  BY <1>1, ObjectsSame, QuietSpace DEF RebuildFails, Answer, Migrating, store, history
<1>2. CASE CheckSource
  <2>1. ObjectsKeep  BY <1>2, SwitchObjects, LookedFacts DEF CheckSource
  <2>. QED  BY <1>2, <2>1, QuietSpace
            DEF CheckSource, Migrated, Migrating, settings, store, history
<1>3. CASE CheckTarget
  <2>1. ObjectsKeep  BY <1>3, SwitchObjects, LookedFacts DEF CheckTarget
  <2>. QED  BY <1>3, <2>1, QuietSpace
            DEF CheckTarget, Migrated, Migrating, settings, store, history
<1>4. CASE DumpPoints  BY <1>4, DumpPointsSpace
<1>5. CASE MigrationFails
  BY <1>5, ObjectsSame, QuietSpace DEF MigrationFails, Migrated, Migrating, settings, store
<1>6. CASE ReindexKeeps
  <2>1. ObjectsKeep  BY <1>6, LiveObject, ObjectOpens DEF ReindexKeeps, Missing
  <2>. QED  BY <1>6, <2>1, QuietSpace
            DEF ReindexKeeps, Migrating, request, settings, store, history
<1>7. CASE Recreate
  <2>1. live \in 1..Len(objects) /\ events + 1 \in Nat
    BY <1>7, ObjectTypes, TypeParts DEF Recreate, RequestOK, RestOK, Missing
  <2>2. ObjectsKeep  BY <1>7, <2>1, ObjectOpens DEF Recreate
  <2>. QED  BY <1>7, <2>2, QuietSpace DEF Recreate, Migrating, settings, history
<1>8. ASSUME NEW c \in Configs, Import(c) PROVE SpacePart'
  BY <1>8, ObjectsSame, QuietSpace DEF Import, Migrating, store, history
<1>9. CASE Look
  <2>1. ObjectsKeep  BY <1>9, LookType
  <2>. QED  BY <1>9, <2>1, SpaceFrame DEF Look, settings, store, history
<1>10. CASE UNCHANGED vars
  BY <1>10, StutterType, SpaceFrame DEF vars, settings, store, history
<1>. QED  BY <1>1, <1>2, <1>3, <1>4, <1>5, <1>6, <1>7, <1>8, <1>9, <1>10, UpsertSpace, SaveSpace,
             RebuildSpace, MigrateSpace, LoadPointsSpace, LoadFailsSpace, SwapSpace, ReindexSpace,
             RestartSpace, HealSpace DEF Next, Administer

LEMMA InitInv == Init => StoresInv
<1>. SUFFICES ASSUME Init PROVE StoresInv
  OBVIOUS
<1>1. step = "idle" /\ dim = [s \in Stores |-> NoSpace] /\ config \in Configs
      /\ live = 1 /\ objects = << [store |-> config.store, space |-> config.space,
                                   collection |-> collection[config.store]] >>
  BY DEF Init
<1>2. SwitchPart  BY <1>1 DEF SwitchPart, SwitchOK, SwitchKeepsIndex
<1>3. StoreOf(live) \in Stores
  <2>1. TypeOK /\ live # Missing  BY <1>1, InitType DEF Missing
  <2>. QED  BY <2>1, LiveObject
<1>4. SpacePart  BY <1>1, <1>3 DEF SpacePart, SpacesOK, UsableOrPrompted, Fits
<1>. QED  BY <1>2, <1>4, InitType, InitChunks, InvParts

LEMMA StepInv == StoresInv /\ [Next]_vars => StoresInv'
  BY StepType, StepChunks, StepSwitch, StepSpace, InvParts

-----------------------------------------------------------------------------
(* Whole documents.                                                        *)

\* The chunks of one text are no more than the text is split into.
LEMMA AtMostAll ==
  ASSUME NEW ps \in SUBSET Chunk, NEW d \in Docs, NEW x \in Texts, Numbered(ps),
         \A c \in ps : c.doc = d /\ c.text = x
  PROVE  Cardinality(ps) \in Nat /\ Cardinality(ps) <= SizeOf[x]
<1>. DEFINE at == [c \in ps |-> c.at]
            all == 0..(SizeOf[x] - 1)
<1>1. SizeOf[x] \in Nat  BY Constants
<1>2. at \in [ps -> all]
  <2>1. \A c \in ps : c.at \in Nat /\ c.at < SizeOf[x]  BY DEF Chunk, Numbered
  <2>. QED  BY <1>1, <2>1
<1>3. \A c1, c2 \in ps : at[c1] = at[c2] => c1 = c2
  <2>1. \A c \in ps : c = [doc |-> d, at |-> c.at, text |-> x]  BY DEF Chunk
  <2>. QED  BY <2>1
<1>4. at \in Injection(ps, all)  BY <1>2, <1>3 DEF Injection, IsInjective
<1>5. 0 \in Int /\ SizeOf[x] - 1 \in Int  BY <1>1
<1>6. IsFiniteSet(all) /\ Cardinality(all) = SizeOf[x]
  <2>1. IsFiniteSet(all)
        /\ Cardinality(all) = IF 0 > SizeOf[x] - 1 THEN 0 ELSE SizeOf[x] - 1 - 0 + 1
    BY <1>5, FS_Interval
  <2>. QED  BY <1>1, <2>1
<1>. HIDE DEF at, all
<1>7. IsFiniteSet(ps) /\ Cardinality(ps) <= Cardinality(all)
  BY <1>4, <1>6, FS_Injection
<1>8. Cardinality(ps) \in Nat  BY <1>7, FS_CardinalityType
<1>. QED  BY <1>6, <1>7, <1>8

LEMMA WholeOrDetectedStep == StoresInv => WholeOrDetected
<1>. SUFFICES ASSUME StoresInv, NEW s \in Stores, NEW d \in Docs, <<s, d>> \notin torn
              PROVE  LET ps == Of(points[s], d) IN
                     /\ ps # {} => WholeText(ps) # {}
                     /\ CountsAsComplete(ps) <=> Complete(ps)
  BY DEF WholeOrDetected
<1>. DEFINE ps == Of(points[s], d)
<1>1. TypeOK /\ ChunksOK  BY InvParts, ChunkParts
<1>2. /\ ps \subseteq Chunk /\ OneText(ps) /\ Numbered(ps) /\ \A c \in ps : c.doc = d
  <2>1. ps \subseteq Chunk  BY <1>1 DEF TypeOK, StoreOK, Of
  <2>2. OneText(ps)  BY <1>1 DEF ChunksOK
  <2>3. Numbered(ps)  BY <1>1 DEF ChunksOK, Numbered, Of
  <2>. QED  BY <2>1, <2>2, <2>3 DEF Of
<1>. HIDE DEF ps
<1>3. ASSUME NEW c \in ps
      PROVE  /\ c.text \in Texts /\ c.text \in WholeText(ps)
             /\ Cardinality(ps) \in Nat /\ Cardinality(ps) <= SizeOf[c.text]
  <2>1. c.text \in Texts  BY <1>2 DEF Chunk
  <2>2. \A b \in ps : b.text = c.text  BY <1>2 DEF OneText
  <2>3. c.text \in WholeText(ps)  BY <2>1, <2>2 DEF WholeText
  <2>4. Cardinality(ps) \in Nat /\ Cardinality(ps) <= SizeOf[c.text]
    BY <1>2, <2>1, <2>2, AtMostAll
  <2>. QED  BY <2>1, <2>3, <2>4
<1>4. ps # {} => WholeText(ps) # {}  BY <1>3
<1>5. ASSUME CountsAsComplete(ps) PROVE Complete(ps)
  <2>1. PICK c \in ps : Cardinality(ps) >= SizeOf[c.text]  BY <1>5 DEF CountsAsComplete
  <2>2. SizeOf[c.text] \in Nat  BY <1>3, Constants
  <2>3. Cardinality(ps) = SizeOf[c.text]  BY <1>3, <2>1, <2>2
  <2>. QED  BY <1>3, <2>3 DEF Complete
<1>6. ASSUME Complete(ps) PROVE CountsAsComplete(ps)
  <2>1. PICK x \in WholeText(ps) : Cardinality(ps) = SizeOf[x]  BY <1>6 DEF Complete
  <2>2. PICK c \in ps : c.text = x  BY <2>1 DEF WholeText
  <2>3. Cardinality(ps) \in Nat  BY <1>3, <2>2
  <2>. QED  BY <2>1, <2>2, <2>3 DEF CountsAsComplete
<1>. QED  BY <1>4, <1>5, <1>6 DEF ps

-----------------------------------------------------------------------------
(* The index of documents.                                                 *)

Changes(s, d) ==
  \/ Standing(s, d)' = Standing(s, d)
  \/ Standing(s, d) = "none" \/ Standing(s, d)' \in {"none", "torn"}

LEMMA StandingIs ==
  ASSUME NEW s, NEW d
  PROVE  /\ Standing(s, d) \in Texts \cup {"none", "part", "torn"}
         /\ Standing(s, d)' \in Texts \cup {"none", "part", "torn"}
         /\ <<s, d>> \in torn' => Standing(s, d)' = "torn"
         /\ <<s, d>> \notin torn' /\ Of(points'[s], d) = {} => Standing(s, d)' = "none"
         /\ <<s, d>> \notin torn /\ Of(points[s], d) = {} => Standing(s, d) = "none"
         /\ Of(points'[s], d) = Of(points[s], d) /\ (<<s, d>> \in torn' <=> <<s, d>> \in torn) =>
              Standing(s, d)' = Standing(s, d)
<1>. DEFINE Is(ps, lost) == IF lost THEN "torn" ELSE IF ps = {} THEN "none"
                            ELSE IF Complete(ps) THEN CHOOSE x \in WholeText(ps) : TRUE
                            ELSE "part"
<1>1. \A ps : Complete(ps) => (CHOOSE x \in WholeText(ps) : TRUE) \in Texts
  <2>1. \A ps : WholeText(ps) \subseteq Texts  BY DEF WholeText
  <2>2. \A ps : Complete(ps) => \E x \in WholeText(ps) : TRUE  BY DEF Complete
  <2>. QED  BY <2>1, <2>2
<1>2. \A ps, lost : Is(ps, lost) \in Texts \cup {"none", "part", "torn"}
  BY <1>1
<1>3. Standing(s, d) = Is(Of(points[s], d), <<s, d>> \in torn)  BY DEF Standing
<1>4. Standing(s, d)' = Is(Of(points'[s], d), <<s, d>> \in torn')  BY DEF Standing
<1>5. /\ \A ps : Is(ps, TRUE) = "torn"
      /\ Is({}, FALSE) = "none"
  OBVIOUS
<1>6. \A ps, lost : lost => Is(ps, lost) = "torn"  OBVIOUS
<1>7. \A lost : ~lost => Is({}, lost) = "none"  OBVIOUS
<1>8. /\ <<s, d>> \in torn' => Standing(s, d)' = "torn"
      /\ <<s, d>> \notin torn' /\ Of(points'[s], d) = {} => Standing(s, d)' = "none"
      /\ <<s, d>> \notin torn /\ Of(points[s], d) = {} => Standing(s, d) = "none"
  BY <1>3, <1>4
<1>9. Of(points'[s], d) = Of(points[s], d) /\ (<<s, d>> \in torn' <=> <<s, d>> \in torn) =>
        Standing(s, d)' = Standing(s, d)
  BY <1>3, <1>4
<1>. HIDE DEF Is
<1>. QED  BY <1>2, <1>3, <1>4, <1>8, <1>9

\* One store changes.
LEMMA OneStoreChanges ==
  ASSUME NEW s \in Stores, \A d \in Docs : Changes(s, d),
         \A r \in Stores \ {s}, d \in Docs : Standing(r, d)' = Standing(r, d)
  PROVE  Abstract!Next
<1>1. \A r \in Stores, d \in Docs :
        index'[r][d] = Standing(r, d)' /\ index[r][d] = Standing(r, d)
  BY DEF index
<1>2. index' \in [Stores -> [Docs -> Abstract!States]]
  BY StandingIs DEF index, Abstract!States
<1>3. \A d \in Docs : Abstract!Keep(s, d) \/ Abstract!Put(s, d) \/ Abstract!Remove(s, d)
                      \/ Abstract!Tear(s, d)
  BY <1>1 DEF Changes, Abstract!Keep, Abstract!Put, Abstract!Remove, Abstract!Tear
<1>4. \A r \in Stores \ {s}, d \in Docs : Abstract!Keep(r, d)  BY <1>1 DEF Abstract!Keep
<1>. QED  BY <1>2, <1>3, <1>4 DEF Abstract!Next

LEMMA NothingChanges ==
  ASSUME UNCHANGED <<points, torn>>
  PROVE  index' = index
<1>1. \A s \in Stores, d \in Docs : Standing(s, d)' = Standing(s, d)
  BY StandingIs
<1>. QED  BY <1>1 DEF index

\* A step that only concerns document b of store s.
LEMMA OneDocumentChanges ==
  ASSUME TypeOK, NEW s \in Stores, NEW b \in Docs, Changes(s, b),
         \A r \in Stores, d \in Docs : r # s \/ d # b =>
           /\ Of(points'[r], d) = Of(points[r], d)
           /\ <<r, d>> \in torn' <=> <<r, d>> \in torn
  PROVE  Abstract!Next
<1>1. \A r \in Stores, d \in Docs : r # s \/ d # b => Standing(r, d)' = Standing(r, d)
  BY StandingIs
<1>. QED  BY <1>1, OneStoreChanges DEF Changes

LEMMA DeleteChunksIndex ==
  ASSUME TypeOK, ChunkPart, NEW e \in Embedders, DeleteChunks(e)
  PROVE  Abstract!Next
<1>. PICK s \in Stores, b \in Docs : s = StoreOf(obj[e]) /\ b = doc[e]
  BY WriterTypes DEF DeleteChunks
<1>. DEFINE rest == points[s] \ Deleted(e)
<1>1. WriterOK(e) /\ pc[e] = "delete" /\ StoreOK
  BY ChunkParts, TypeParts DEF DeleteChunks
<1>2. /\ points' = [points EXCEPT ![s] = rest] /\ Reaches(obj[e])
      /\ torn' = IF Of(rest, b) = {} /\ ~Contended(e, s, b) THEN torn \ {<<s, b>>} ELSE torn
  BY DEF DeleteChunks
<1>3. points'[s] = rest /\ \A r \in Stores : r # s => points'[r] = points[r]
  BY <1>1, <1>2 DEF StoreOK
<1>4. <<s, b>> \notin torn' => Of(points'[s], b) = {}
  <2>1. CASE <<s, b>> \in torn  BY <1>2, <1>3, <2>1
  <2>2. CASE <<s, b>> \notin torn /\ s # "chroma"
    BY <1>3, <2>2 DEF Deleted, Of
  <2>3. CASE <<s, b>> \notin torn /\ s = "chroma"
    <3>1. \A c \in Of(points[s], b) : Id(c) \in listed[e]
      BY <1>1, <1>2, <2>3, WriterParts
    <3>. QED  BY <1>3, <2>3, <3>1 DEF Deleted, Of
  <2>. QED  BY <2>1, <2>2, <2>3
<1>5. Changes(s, b)  BY <1>4, StandingIs DEF Changes
<1>6. ASSUME NEW r \in Stores, NEW d \in Docs, r # s \/ d # b
      PROVE  /\ Of(points'[r], d) = Of(points[r], d)
             /\ <<r, d>> \in torn' <=> <<r, d>> \in torn
  <2>1. CASE r # s  BY <1>2, <1>3, <2>1
  <2>2. CASE r = s /\ d # b
    <3>1. \A c \in Deleted(e) : c.doc # d  BY <1>1, <2>2, DeletedOwn
    <3>2. Of(rest, d) = Of(points[s], d)  BY <3>1 DEF Of
    <3>. QED  BY <1>2, <1>3, <2>2, <3>2
  <2>. QED  BY <1>6, <2>1, <2>2
<1>. QED  BY <1>1, <1>5, <1>6, OneDocumentChanges

LEMMA DeleteFailsIndex ==
  ASSUME TypeOK, NEW e \in Embedders, DeleteFails(e)
  PROVE  Abstract!Next
<1>1. PICK s \in Stores, b \in Docs : s = StoreOf(obj[e]) /\ b = doc[e]
  BY WriterTypes DEF DeleteFails
<1>2. /\ torn' = IF Of(points[s], b) = {} THEN torn ELSE torn \cup {<<s, b>>}
      /\ points' = points
  BY <1>1 DEF DeleteFails, store
<1>3. Changes(s, b)
  <2>1. CASE <<s, b>> \in torn'  BY <2>1, StandingIs DEF Changes
  <2>2. CASE <<s, b>> \notin torn'
    <3>1. <<s, b>> \notin torn  BY <1>2, <2>2
    <3>. QED  BY <1>2, <2>2, <3>1, StandingIs DEF Changes
  <2>. QED  BY <2>1, <2>2
<1>. QED  BY <1>1, <1>2, <1>3, OneDocumentChanges

LEMMA WriteChunksIndex ==
  ASSUME TypeOK, ChunkPart, NEW e \in Embedders, WriteChunks(e)
  PROVE  Abstract!Next
<1>. PICK s \in Stores, b \in Docs : s = StoreOf(obj[e]) /\ b = doc[e]
  BY WriterTypes DEF WriteChunks
<1>. DEFINE new == {[doc |-> b, at |-> i, text |-> text[e]] : i \in embedded[e]}
<1>1. WriterOK(e) /\ pc[e] = "write" /\ StoreOK
  BY ChunkParts, TypeParts DEF WriteChunks
<1>2. /\ points' = [points EXCEPT ![s] = Over(points[s], new)]
      /\ torn' = IF Contended(e, s, b) THEN torn \cup {<<s, b>>} ELSE torn
  BY DEF WriteChunks
<1>3. points'[s] = Over(points[s], new) /\ \A r \in Stores : r # s => points'[r] = points[r]
  BY <1>1, <1>2 DEF StoreOK
<1>4. Changes(s, b)
  <2>1. CASE <<s, b>> \in torn'  BY <2>1, StandingIs DEF Changes
  <2>2. CASE <<s, b>> \notin torn'
    <3>1. <<s, b>> \notin torn  BY <1>2, <2>2
    <3>2. Of(points[s], b) = {}  BY <1>1, <3>1, WriterParts
    <3>. QED  BY <3>1, <3>2, StandingIs DEF Changes
  <2>. QED  BY <2>1, <2>2
<1>5. ASSUME NEW r \in Stores, NEW d \in Docs, r # s \/ d # b
      PROVE  /\ Of(points'[r], d) = Of(points[r], d)
             /\ <<r, d>> \in torn' <=> <<r, d>> \in torn
  <2>1. CASE r # s  BY <1>2, <1>3, <2>1
  <2>2. CASE r = s /\ d # b
    <3>1. Of(new, d) = {}  BY <2>2 DEF Of
    <3>. HIDE DEF new
    <3>2. Of(points'[s], d) = Of(points[s], d)  BY <1>3, <3>1, OverKeeps
    <3>. QED  BY <1>2, <2>2, <3>2
  <2>. QED  BY <1>5, <2>1, <2>2
<1>. QED  BY <1>1, <1>4, <1>5, OneDocumentChanges

\* Any number of documents are loaded.
LEMMA LoadPointsIndex ==
  ASSUME TypeOK, LoadPoints
  PROVE  Abstract!Next
<1>. PICK s \in Stores : s = StoreOf(dst)
  BY SwitchObjects DEF LoadPoints
<1>. DEFINE mixed == {x \in dump : \/ x.doc \in dumpTorn \/ Of(points[s], x.doc) # {}
                                   \/ \E e \in Embedders : Replaces(e, s, x.doc)}
<1>1. /\ StoreOK
      /\ points' = [points EXCEPT ![s] = Over(points[s], dump)]
      /\ torn' = torn \cup {<<s, c.doc>> : c \in mixed}
  BY TypeParts DEF LoadPoints
<1>2. points'[s] = Over(points[s], dump) /\ \A r \in Stores : r # s => points'[r] = points[r]
  BY <1>1 DEF StoreOK
<1>3. \A r \in Stores \ {s}, d \in Docs : Standing(r, d)' = Standing(r, d)
  <2>1. \A r \in Stores \ {s}, d \in Docs : <<r, d>> \in torn' <=> <<r, d>> \in torn
    BY <1>1
  <2>. QED  BY <1>2, <2>1, StandingIs
<1>4. ASSUME NEW d \in Docs PROVE Changes(s, d)
  <2>1. CASE <<s, d>> \in torn'  BY <2>1, StandingIs DEF Changes
  <2>2. CASE <<s, d>> \notin torn' /\ Of(dump, d) = {}
    <3>1. Of(points'[s], d) = Of(points[s], d)  BY <1>2, <2>2, OverKeeps
    <3>2. <<s, d>> \notin torn  BY <1>1, <2>2
    <3>. QED  BY <2>2, <3>1, <3>2, StandingIs DEF Changes
  <2>3. CASE <<s, d>> \notin torn' /\ Of(dump, d) # {}
    <3>1. PICK c \in dump : c.doc = d  BY <2>3 DEF Of
    <3>2. c \notin mixed /\ <<s, d>> \notin torn  BY <1>1, <2>3, <3>1
    <3>3. Of(points[s], d) = {}  BY <3>1, <3>2
    <3>. QED  BY <3>2, <3>3, StandingIs DEF Changes
  <2>. QED  BY <2>1, <2>2, <2>3
<1>. HIDE DEF mixed
<1>. QED  BY <1>1, <1>3, <1>4, OneStoreChanges

LEMMA EmptyIndex ==
  ASSUME TypeOK, ChunksOK, NEW s \in Stores, Empty(s)
  PROVE  Abstract!Next
<1>1. /\ points'[s] = {} /\ \A d \in Docs : <<s, d>> \notin torn'
      /\ \A r \in Stores : r # s => points'[r] = points[r]
      /\ \A r \in Stores, d \in Docs : r # s => (<<r, d>> \in torn' <=> <<r, d>> \in torn)
  BY EmptyFacts DEF Empty
<1>2. \A d : Of({}, d) = {}  BY DEF Of
<1>3. \A d \in Docs : Changes(s, d)  BY <1>1, <1>2, StandingIs DEF Changes
<1>4. \A r \in Stores \ {s}, d \in Docs : Standing(r, d)' = Standing(r, d)
  BY <1>1, StandingIs
<1>. QED  BY <1>3, <1>4, OneStoreChanges

LEMMA IndexStep == StoresInv /\ [Next]_vars => Abstract!Next \/ index' = index
<1>. SUFFICES ASSUME StoresInv, [Next]_vars PROVE Abstract!Next \/ index' = index
  OBVIOUS
<1>1. TypeOK /\ ChunkPart /\ ChunksOK  BY InvParts, ChunkParts
<1>2. CASE UNCHANGED <<points, torn>>  BY <1>2, NothingChanges
<1>3. ASSUME NEW e \in Embedders, Upsert(e) PROVE Abstract!Next \/ UNCHANGED <<points, torn>>
  <2>1. CASE DeleteChunks(e) \/ DeleteFails(e) \/ WriteChunks(e)
    BY <1>1, <2>1, DeleteChunksIndex, DeleteFailsIndex, WriteChunksIndex
  <2>2. CASE \E d \in Docs, x \in Texts \cup {NoText} : StartUpsert(e, d, x)
    BY <2>2 DEF StartUpsert, store, history
  <2>3. CASE ListChunks(e) \/ Embed(e) \/ EnsureCollection(e) \/ WriteFails(e)
    BY <2>3 DEF ListChunks, Embed, EnsureCollection, WriteFails, store, history
  <2>. QED  BY <1>3, <2>1, <2>2, <2>3 DEF Upsert
<1>4. CASE LoadPoints  BY <1>1, <1>4, LoadPointsIndex
<1>5. CASE Reindex
  <2>1. StoreOf(live) \in Stores /\ Empty(StoreOf(live))
    BY <1>1, <1>5, LiveObject DEF Reindex
  <2>. QED  BY <1>1, <2>1, EmptyIndex
<1>6. CASE Heal
  <2>1. Empty("qdrant") \/ UNCHANGED <<points, torn>>  BY <1>6 DEF Heal, store
  <2>. QED  BY <1>1, <1>2, <2>1, EmptyIndex DEF Stores
<1>7. ASSUME NEW c \in Configs, Save(c) \/ Import(c) PROVE UNCHANGED <<points, torn>>
  BY <1>7 DEF Save, Import, store, history
<1>8. CASE Rebuild \/ RebuildFails \/ Migrate \/ ReindexKeeps \/ Recreate \/ CheckSource
           \/ CheckTarget \/ DumpPoints \/ LoadFails \/ MigrationFails \/ Swap \/ Restart
           \/ Look \/ UNCHANGED vars
  <2>1. UNCHANGED <<points, torn>>
    BY <1>8 DEF Rebuild, RebuildFails, Migrate, ReindexKeeps, Recreate, CheckSource,
                CheckTarget, DumpPoints, LoadFails, MigrationFails, Swap, Restart, Look,
                vars, store, history
  <2>. QED  BY <1>2, <2>1
<1>. QED  BY <1>2, <1>3, <1>4, <1>5, <1>6, <1>7, <1>8 DEF Next, Administer

LEMMA IndexInit == Init => Abstract!Init
<1>. SUFFICES ASSUME Init PROVE index = [s \in Stores |-> [d \in Docs |-> "none"]]
  BY DEF Abstract!Init
<1>1. points = [s \in Stores |-> {}] /\ torn = {}  BY DEF Init
<1>2. \A d : Of({}, d) = {}  BY DEF Of
<1>3. \A s \in Stores, d \in Docs : Standing(s, d) = "none"  BY <1>1, <1>2, StandingIs
<1>. QED  BY <1>3 DEF index

-----------------------------------------------------------------------------
(* The theorems.                                                           *)

\* The inductive invariant, and with it the types of all variables: what an upsert
\* relies on when it writes (WriterOK), because it deletes, embeds and writes in
\* separate calls (vector_store.py), and what a switch has reached (SwitchOK).
THEOREM StoresInvariant == Spec => []StoresInv
<1>1. Init => StoresInv  BY InitInv
<1>2. StoresInv /\ [Next]_vars => StoresInv'  BY StepInv
<1>. QED  BY <1>1, <1>2, PTL DEF Spec

\* The background index takes a document for indexed exactly if it is there as a
\* whole (main.py:430-445), for any number of embedders and any failures of theirs.
THEOREM WholeOrDetectedHolds == Spec => []WholeOrDetected
<1>1. StoresInv => WholeOrDetected  BY WholeOrDetectedStep
<1>. QED  BY <1>1, StoresInvariant, PTL

\* The live store was filled with the model that embeds queries, or a reindex has been
\* asked for, across saves, migrations, resets and restarts (main.py:3070-3276), but for
\* the stores that UsableOrPrompted excepts: those an older store object filled, a switch
\* found filled or nothing to copy for, a migration filled with another model's vectors,
\* or an import or a failed start parted from the settings.
THEOREM UsableOrPromptedHolds == Spec => []UsableOrPrompted
<1>1. StoresInv => UsableOrPrompted  BY DEF StoresInv
<1>. QED  BY <1>1, StoresInvariant, PTL

\* A switch that copied the index, or found none, has lost none of it
\* (vector_migrate.py:30-53), but for documents written or deleted meanwhile and a source
\* that was taken for empty because it did not answer (vector_store.py:935-944).
THEOREM SwitchKeepsIndexHolds == Spec => []SwitchKeepsIndex
<1>1. StoresInv => SwitchKeepsIndex  BY DEF StoresInv
<1>. QED  BY <1>1, StoresInvariant, PTL

\* The stores implement the index of documents: whatever the calls an upsert is made
\* of, and however those of two upserts and of a migration interleave, one text
\* turns into another only by way of nothing, unless the document is known as torn.
THEOREM ImplementsIndex == Spec => IndexSpec
<1>1. StoresInv /\ [Next]_vars => [Abstract!Next]_index  BY IndexStep
<1>. QED  BY <1>1, IndexInit, StoresInvariant, PTL DEF Spec, IndexSpec, Abstract!Spec
=============================================================================
