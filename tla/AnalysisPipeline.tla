--------------------------- MODULE AnalysisPipeline ---------------------------
(***************************************************************************)
(* From a request for an analysis to the document in Paperless: the queue  *)
(* that hands one request after the other to the model                     *)
(* (backend/ollama_queue.py:64-97, 196-230), the analysis and its creation *)
(* policy (backend/analyzer.py:171-230, 313-446, 515-696, 792-863), and    *)
(* the approval that turns the names of a suggestion into ids, through a   *)
(* cache of a minute, and creates what is missing                          *)
(* (backend/approval_queue.py:39-69, 540-843).                             *)
(*                                                                         *)
(* All requests are about one document: requests about different ones      *)
(* share only the queue and the cache.  What an approval does to the       *)
(* suggestion is in ApprovalQueue.                                         *)
(***************************************************************************)
EXTENDS Integers, Sequences, SequencesExt

CONSTANTS
  MaxRequests,\* bound: requests, numbered as they come
  Entities,   \* names of tags, correspondents, custom fields
  Kind,       \* the kind of an entity
  MaxEvents   \* bound: faults, changes of the settings, and doings of others

\* Document types and storage paths are resolved as correspondents are.
Kinds == {"tags", "correspondents", "custom_fields"}

Requests == 1..MaxRequests
Nobody == 0

ASSUME PipelineAssumption ==
  /\ Kind \in [Entities -> Kinds]
  /\ MaxRequests \in Nat
  /\ MaxEvents \in Nat

\* The kinds in use that have a creation policy.
Gated == {Kind[e] : e \in Entities} \ {"custom_fields"}

VARIABLES
  \* Paperless
  made,       \* how often an entity was created; the last one's id
  exist,      \* the entities there are
  carried,    \* those the document carries
  \* settings
  policy,     \* kinds whose policy is allow_new
  served,     \* the same, in the settings the analysis service was built with
  runs,       \* [create, keep]: policy and served, when an automatic run began
  \* the request queue
  queue, active,
  waiting,    \* callers whose future is not done
  \* _entity_cache
  cached,     \* kinds that have a map no older than a minute
  cache,      \* id of an entity in the map of its kind, 0: it is not in it
  req,        \* of each request, see Idle
  events,
  \* history, read by no action
  blurred,    \* entities whose name the application cannot be expected to know
  unattended  \* what automatic runs created: [kind, policy: that of the run]

paperless == <<made, exist, carried>>
settings  == <<policy, served, runs>>
requests  == <<queue, active, waiting>>
store     == <<cached, cache>>
vars == <<paperless, settings, requests, store, req, events, blurred, unattended>>

-----------------------------------------------------------------------------
None == [e \in Entities |-> 0]

Of(k, es) == {e \in es : Kind[e] = k}

\* What a model answers or a person edits: at most one correspondent.
Suggestible == {es \in SUBSET Entities :
                  \A d, e \in Of("correspondents", es) : d = e}

Idle ==
  [pc     |-> "idle",
   op     |-> "auto",   \* "auto": approved at once; "human": by a person
   create |-> {},       \* the creation policy of the run, for the approval,
   keep   |-> {},       \* and of the service, for the analysis
   seen   |-> {},       \* what the document carried
   listed |-> {},       \* the entities Paperless listed
   want   |-> {},       \* the suggestion
   kept   |-> {},       \* history: tags the model was shown and kept
   left   |-> <<>>,     \* kinds to be resolved
   map    |-> None,     \* ids of the kind at hand
   todo   |-> {},       \* names of it still to be created
   got    |-> None]     \* ids resolved

Set(r, rec) == req' = [req EXCEPT ![r] = rec]

\* A fault, or something done by others, happens.
Event == events < MaxEvents /\ events' = events + 1

Init ==
  /\ exist \in SUBSET Entities
  /\ made = [e \in Entities |-> IF e \in exist THEN 1 ELSE 0]
  /\ carried \in Suggestible /\ carried \subseteq exist
  /\ policy \in SUBSET Gated /\ served = policy
  /\ runs = {[create |-> policy, keep |-> served]}
  /\ queue = <<>> /\ active = Nobody /\ waiting = {}
  /\ cached = {} /\ cache = None
  /\ req = [r \in Requests |-> Idle]
  /\ events = 0 /\ blurred = {} /\ unattended = {}

-----------------------------------------------------------------------------
(* Requests and the worker of the queue.                                   *)

\* A poll or a batch begins: settings and service are those of its whole run, as long
\* as that may last.
StartRun ==
  /\ runs' = runs \cup {[create |-> policy, keep |-> served]}
  /\ runs' # runs
  /\ UNCHANGED <<paperless, policy, served, requests, store, req, events, blurred,
                 unattended>>

\* submit: all callers have the same priority, so the queue is in order.
Submit(r, o) ==
  /\ req[r].pc = "idle" /\ \A q \in 1..(r - 1) : req[q].pc # "idle"
  /\ \/ /\ o = "human"
        /\ Set(r, [Idle EXCEPT !.pc = "queued", !.op = o, !.keep = served])
     \/ /\ o = "auto"
        /\ \E run \in runs :
             Set(r, [Idle EXCEPT !.pc = "queued", !.op = o, !.keep = run.keep,
                                 !.create = run.create])
  /\ queue' = Append(queue, r)
  /\ waiting' = waiting \cup {r}
  /\ UNCHANGED <<paperless, settings, active, store, events, blurred, unattended>>

\* The worker takes the next request, which reads the document.
Begin ==
  /\ active = Nobody /\ queue # <<>>
  /\ LET r == Head(queue) IN
       /\ active' = r
       /\ Set(r, [req[r] EXCEPT !.pc = "list", !.seen = carried])
  /\ queue' = Tail(queue)
  /\ UNCHANGED <<paperless, settings, waiting, store, events, blurred, unattended>>

\* _fetch_entity_context; on any failure the lists are empty.
List(r) ==
  /\ active = r /\ req[r].pc = "list"
  /\ \/ Set(r, [req[r] EXCEPT !.pc = "model", !.listed = exist]) /\ UNCHANGED events
     \/ Set(r, [req[r] EXCEPT !.pc = "model"]) /\ Event
  /\ UNCHANGED <<paperless, settings, requests, store, blurred, unattended>>

\* _apply_creation_policy: of a kind that is existing_only, what was listed.
Permitted(r, answer) ==
  {e \in answer : Kind[e] \in Gated \ req[r].keep => e \in req[r].listed}

\* The worker is done with r, which goes on as rec.
Answer(r, rec) ==
  /\ active' = Nobody
  /\ waiting' = waiting \ {r}
  /\ Set(r, rec)

\* The model answers.  It was shown the tags the document carries by their names.
Complete(r, answer) ==
  /\ active = r /\ req[r].pc = "model"
  /\ Answer(r, [req[r] EXCEPT !.pc = "analysed",
                              !.want = Permitted(r, answer),
                              !.kept = Of("tags", answer) \cap req[r].seen \cap req[r].listed,
                              !.keep = {}, !.seen = {}, !.listed = {}])
  /\ UNCHANGED <<paperless, settings, queue, store, events, blurred, unattended>>

\* Mutant of AnalysisFails: the exception does not reach the future.
AnalysisLost(r) ==
  /\ active = r /\ req[r].pc \in {"list", "model"}
  /\ active' = Nobody
  /\ Set(r, [Idle EXCEPT !.pc = "failed"])
  /\ UNCHANGED <<paperless, settings, queue, waiting, store, events, blurred, unattended>>

\* Paperless or the model fails, and so does the request.
AnalysisFails(r) ==
  /\ active = r /\ req[r].pc \in {"list", "model"}
  /\ Answer(r, [Idle EXCEPT !.pc = "failed"])
  /\ UNCHANGED <<paperless, settings, queue, store, events, blurred, unattended>>

-----------------------------------------------------------------------------
(* Approval: names become ids, kind by kind.                               *)

\* Mutant of MayCreate: one policy that allows new names allows them all.
MayCreateAny(rec, k) == rec.op = "human" \/ rec.create # {}

\* Mutant of MayCreate: a person's approval is not told that it may create.
MayCreateMapped(rec, k) == k \in rec.create

\* _may_create: a person may create all kinds, a mapping is asked for each.
MayCreate(rec, k) == rec.op = "human" \/ k \in rec.create

\* The kinds the suggestion is about, in the order in which they are resolved; tags
\* are always set.
ToResolve(want) ==
  LET ifAny(k) == IF Of(k, want) = {} THEN <<>> ELSE <<k>>
  IN <<"tags">> \o ifAny("correspondents") \o ifAny("custom_fields")

\* approve, by the request itself or by a person, who may have edited it.
Approve(r, edit) ==
  /\ req[r].pc = "analysed"
  /\ req[r].op = "auto" => edit = req[r].want
  /\ Set(r, [req[r] EXCEPT !.pc = "look", !.want = edit, !.kept = @ \cap edit,
                           !.left = ToResolve(edit)])
  /\ UNCHANGED <<paperless, settings, requests, store, events, blurred, unattended>>

\* rec with nothing left to create goes on to its next kind, or to the PATCH.
Settle(rec) ==
  IF rec.todo # {} THEN [rec EXCEPT !.pc = "create"]
  ELSE [rec EXCEPT !.pc = IF Len(rec.left) = 1 THEN "patch" ELSE "look",
                   !.left = Tail(@), !.map = None]

\* rec finds the names of kind k in the map m.
Resolved(rec, k, m) ==
  LET names == Of(k, rec.want)
      found == {e \in names : m[e] > 0}
  IN Settle([rec EXCEPT !.map = m,
                        !.got = [e \in Entities |-> IF e \in found THEN m[e] ELSE @[e]],
                        !.todo = IF MayCreate(rec, k) THEN names \ found ELSE {}])

\* The map of kind k that a reader of the entities es gets.
MapOf(k, es) == [e \in Entities |-> IF e \in Of(k, es) THEN made[e] ELSE 0]

\* A map of the kind that is no older than a minute is used.
UseCache(r) ==
  /\ req[r].pc = "look"
  /\ LET k == Head(req[r].left) IN
       /\ k \in cached
       /\ Set(r, Resolved(req[r], k,
                          [e \in Entities |-> IF Kind[e] = k THEN cache[e] ELSE 0]))
  /\ UNCHANGED <<paperless, settings, requests, store, events, blurred, unattended>>

\* The approval fails.  The suggestion stays pending, and a person may approve it again.
Abandoned(r) ==
  IF req[r].op = "auto" THEN [Idle EXCEPT !.pc = "failed"]
  ELSE [req[r] EXCEPT !.pc = "analysed", !.left = <<>>, !.got = None]

\* Otherwise Paperless is asked; without an answer the approval fails, and at a page that fails the reading ends.
ReadPages(r) ==
  /\ req[r].pc = "look"
  /\ LET k == Head(req[r].left)
         read(es) == Set(r, [req[r] EXCEPT !.pc = "keep", !.map = MapOf(k, es)])
     IN /\ k \notin cached
        /\ \/ read(exist) /\ UNCHANGED <<events, blurred>>
           \/ \E es \in (SUBSET Of(k, exist)) \ {Of(k, exist)} :
                /\ read(es) /\ Event
                /\ blurred' = blurred \cup (Of(k, exist) \ es)
  /\ UNCHANGED <<paperless, settings, requests, store, unattended>>

ReadFails(r) ==
  /\ req[r].pc = "look" /\ Head(req[r].left) \notin cached
  /\ Event
  /\ Set(r, Abandoned(r))
  /\ UNCHANGED <<paperless, settings, requests, store, blurred, unattended>>

\* What was read, all or in part, becomes the map of the kind.
KeepMap(r) ==
  /\ req[r].pc = "keep"
  /\ LET k == Head(req[r].left) IN
       /\ cached' = cached \cup {k}
       /\ cache' = [e \in Entities |-> IF Kind[e] = k THEN req[r].map[e] ELSE cache[e]]
       /\ Set(r, Resolved(req[r], k, req[r].map))
  /\ UNCHANGED <<paperless, settings, requests, events, blurred, unattended>>

\* A new entity e is in Paperless.
Add(e) ==
  /\ exist' = exist \cup {e}
  /\ made' = [made EXCEPT ![e] = @ + 1]
  /\ UNCHANGED carried

\* Requests other than r that read the entities of e's kind without e.
Unaware(r, e) ==
  {q \in Requests \ {r} : /\ req[q].pc \in {"keep", "create"}
                          /\ Head(req[q].left) = Kind[e]}

Drop(ks) == /\ cached' = cached \ ks
            /\ cache' = [e \in Entities |-> IF Kind[e] \in ks THEN 0 ELSE cache[e]]

\* Mutant of Forgotten: no map is dropped.
ForgottenNone(k) == {}

\* A creation drops the map of the kind; the one of custom fields is kept.
Forgotten(k) == {k} \ {"custom_fields"}

\* What automatic runs have created, when r has created e.
Created(r, e) ==
  IF req[r].op = "auto"
  THEN unattended \cup {[kind |-> Kind[e], policy |-> req[r].create]}
  ELSE unattended

\* The name is posted, and created.
Create(r, e) ==
  /\ req[r].pc = "create" /\ e \in req[r].todo /\ e \notin exist
  /\ Add(e)
  /\ Set(r, Settle([req[r] EXCEPT !.todo = @ \ {e}, !.got[e] = made[e] + 1]))
  /\ Drop(Forgotten(Kind[e]))
  /\ blurred' = IF Unaware(r, e) # {} THEN blurred \cup {e} ELSE blurred
  /\ unattended' = Created(r, e)
  /\ UNCHANGED <<settings, requests, events>>

\* Paperless refuses it, because there is one, or the request or the answer is
\* lost: the name is left out.
CreateFails(r, e) ==
  /\ req[r].pc = "create" /\ e \in req[r].todo
  /\ Set(r, Settle([req[r] EXCEPT !.todo = @ \ {e}]))
  /\ \/ e \in exist /\ UNCHANGED <<paperless, events, blurred, unattended>>
     \/ /\ e \notin exist /\ Event
        /\ blurred' = blurred \cup {e}
        /\ \/ UNCHANGED <<paperless, unattended>>
           \/ /\ Add(e)
              /\ unattended' = Created(r, e)
  /\ UNCHANGED <<settings, requests, store>>

\* The ids of r are ids of what there is.
Valid(r) == \A e \in Entities : req[r].got[e] > 0 => e \in exist /\ req[r].got[e] = made[e]

\* The PATCH sets the tags, and of the other kinds what was resolved.
Patch(r) ==
  /\ req[r].pc = "patch" /\ Valid(r)
  /\ LET ids == {e \in Entities : req[r].got[e] > 0}
         set == {"tags"} \cup {Kind[e] : e \in ids}
     IN carried' = {e \in carried : Kind[e] \notin set} \cup ids
  /\ Set(r, [Idle EXCEPT !.pc = "approved"])
  /\ UNCHANGED <<made, exist, settings, requests, store, events, blurred, unattended>>

\* Paperless refuses the PATCH: it names an entity that is gone, or for a fault.
PatchFails(r) ==
  /\ req[r].pc = "patch"
  /\ \/ ~Valid(r) /\ UNCHANGED events
     \/ Valid(r) /\ Event
  /\ Set(r, Abandoned(r))
  /\ UNCHANGED <<paperless, settings, requests, store, blurred, unattended>>

-----------------------------------------------------------------------------
(* Time, settings, and others.                                             *)

\* A minute has passed since the map of kind k was read.
Expire(k) ==
  /\ k \in cached
  /\ Drop({k})
  /\ UNCHANGED <<paperless, settings, requests, req, events, blurred, unattended>>

ChangePolicy(ks) ==
  /\ ks # policy /\ Event
  /\ policy' = ks
  /\ UNCHANGED <<paperless, served, runs, requests, store, req, blurred, unattended>>

\* After the settings are stored, and a store was migrated, the service is built.
Rebuild ==
  /\ served # policy /\ served' = policy
  /\ UNCHANGED <<paperless, policy, runs, requests, store, req, events, blurred,
                 unattended>>

\* Others create an entity, or delete it, which takes it off the document.
OthersCreate(e) ==
  /\ e \notin exist /\ Event /\ Add(e)
  /\ blurred' = blurred \cup {e}
  /\ UNCHANGED <<settings, requests, store, req, unattended>>

OthersDelete(e) ==
  /\ e \in exist /\ Event
  /\ exist' = exist \ {e} /\ carried' = carried \ {e}
  /\ blurred' = blurred \cup {e}
  /\ UNCHANGED <<made, settings, requests, store, req, unattended>>

Worker == \/ Begin
          \/ \E r \in Requests : \/ List(r) \/ AnalysisFails(r)
                                 \/ \E answer \in Suggestible : Complete(r, answer)

Approval(r) ==
  \/ \E edit \in Suggestible : Approve(r, edit)
  \/ UseCache(r) \/ ReadPages(r) \/ ReadFails(r) \/ KeepMap(r)
  \/ \E e \in Entities : Create(r, e) \/ CreateFails(r, e)
  \/ Patch(r) \/ PatchFails(r)

Others ==
  \/ \E e \in Entities : OthersCreate(e) \/ OthersDelete(e)
  \/ \E k \in Kinds : Expire(k)
  \/ \E ks \in SUBSET Gated : ChangePolicy(ks)
  \/ Rebuild \/ StartRun

Next ==
  \/ \E r \in Requests, o \in {"auto", "human"} : Submit(r, o)
  \/ Worker
  \/ \E r \in Requests : Approval(r)
  \/ Others

Spec == Init /\ [][Next]_vars

-----------------------------------------------------------------------------
(* Properties.                                                             *)

Phases == {"idle", "queued", "list", "model", "analysed", "look", "keep", "create",
           "patch", "approved", "failed"}

Request ==
  [pc : Phases, op : {"auto", "human"}, create : SUBSET Gated, keep : SUBSET Gated,
   seen : Suggestible, listed : SUBSET Entities, want : Suggestible,
   kept : SUBSET Entities, left : Seq(Kinds), map : [Entities -> Nat],
   todo : SUBSET Entities, got : [Entities -> Nat]]

TypeOK ==
  /\ made \in [Entities -> Nat] /\ exist \subseteq Entities
  /\ carried \in Suggestible /\ carried \subseteq exist
  /\ policy \subseteq Gated /\ served \subseteq Gated
  /\ runs \subseteq [create : SUBSET Gated, keep : SUBSET Gated]
  /\ queue \in Seq(Requests) /\ active \in Requests \cup {Nobody}
  /\ waiting \subseteq Requests
  /\ cached \subseteq Kinds /\ cache \in [Entities -> Nat]
  /\ \A e \in Entities : Kind[e] \notin cached => cache[e] = 0
  /\ req \in [Requests -> Request]
  /\ \A r \in Requests : req[r].kept \cup req[r].todo \subseteq req[r].want
  /\ events \in 0..MaxEvents
  /\ blurred \subseteq Entities 
  /\ unattended \subseteq [kind : Kinds, policy : SUBSET Gated]

\* docs/DECISIONS.md D-25: the policy of one kind is never stretched to another.  Each
\* kind of which an automatic run created an entity was allowed by its own policy in the
\* settings that run began with (main.py:149, 179), whatever the policies of the other
\* kinds say and whatever the settings have become between that and the creation.  A
\* policy withdrawn meanwhile does not stop the run: the property does not say so.
ForbiddenIsNotCreated == \A x \in unattended : x.kind \in x.policy

Approves(r) == req[r].pc = "patch" /\ req'[r].pc = "approved"

\* An approval sets the whole list of tags (main.py:171): a tag that the model was
\* shown, and kept, is still on the document afterwards, although the map by which its
\* name is resolved may be older than the tag.  Excepted (blurred) are tags that others
\* created or deleted, that a page that failed left out of the map, that one request
\* created while another was between reading the pages and the end of its creations, and
\* whose creation failed or was not answered: those the code may take off.
KeptTagsSurvive ==
  [][\A r \in Requests : Approves(r) => req[r].kept \ blurred \subseteq carried']_vars

\* main.py:1686: a name of a gated kind that a person approved is on the document after
\* the PATCH: an entity there was, found in the map of the last minute, or one that was
\* missing and created, here or by another request before.  The exceptions are the
\* same, so that it says nothing of a name whose creation failed or was not answered (the
\* approval goes on without it, approval_queue.py:709-710), nor of one that two
\* approvals created at once.  Custom fields are excepted, too: their map does not learn
\* of the creation of one.
HumanApprovalIsComplete ==
  [][\A r \in Requests :
       Approves(r) /\ req[r].op = "human" =>
         {e \in req[r].want \ blurred : Kind[e] \in Gated} \subseteq carried']_vars

\* Nobody waits in vain: a caller whose future is not done is in the queue or in the
\* hands of the worker, so that every submission is answered, be it by an error
\* (ollama_queue.py:211-230).
NobodyWaitsInVain == waiting = ToSet(queue) \cup ({active} \ {Nobody})
=============================================================================
