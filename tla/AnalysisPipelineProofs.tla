----------------------- MODULE AnalysisPipelineProofs -----------------------
(***************************************************************************)
(* Proofs about AnalysisPipeline, for every set of entities, every kind    *)
(* they have, every number of requests, faults and doings of others.       *)
(***************************************************************************)
EXTENDS AnalysisPipeline, TLAPS

\* What holds of a request by itself.
RecordOK(q) ==
  /\ q \in Request
  /\ q.kept \cup q.todo \subseteq q.want
  /\ \A e \in Entities : q.got[e] > 0 => e \in q.want
  /\ q.pc \in {"look", "keep", "create"} => q.left # <<>>
  /\ q.op = "auto" => \A e \in q.todo : Kind[e] \in q.create

\* Names are created in one phase, and ids found from the approval on.
PhaseOK(q) ==
  /\ q.pc # "create" => q.todo = {}
  /\ q.pc \in {"idle", "queued", "list", "model", "analysed"} =>
       \A e \in Entities : q.got[e] = 0

PaperlessOK ==
  /\ made \in [Entities -> Nat] /\ exist \subseteq Entities
  /\ carried \in Suggestible /\ carried \subseteq exist
  /\ \A e \in exist : made[e] > 0

SettingsOK ==
  /\ policy \subseteq Gated /\ served \subseteq Gated
  /\ runs \subseteq [create : SUBSET Gated, keep : SUBSET Gated]

StoreOK ==
  /\ cached \subseteq Kinds /\ cache \in [Entities -> Nat]
  /\ \A e \in Entities : Kind[e] \notin cached => cache[e] = 0

HistoryOK ==
  /\ events \in 0..MaxEvents
  /\ blurred \subseteq Entities
  /\ unattended \subseteq [kind : Kinds, policy : SUBSET Gated]
  /\ \A x \in unattended : x.kind \in x.policy

RequestsOK ==
  /\ req \in [Requests -> Request]
  /\ \A r \in Requests :
       RecordOK(req[r]) /\ PhaseOK(req[r])

\* The queue holds each request that waits for the worker once.
QueueOK ==
  /\ queue \in Seq(Requests) /\ active \in Requests \cup {Nobody}
  /\ \A i, j \in 1..Len(queue) : queue[i] = queue[j] => i = j
  /\ \A i \in 1..Len(queue) : req[queue[i]].pc = "queued"
  /\ active # Nobody => req[active].pc \in {"list", "model"}
  /\ waiting = {queue[i] : i \in 1..Len(queue)} \cup ({active} \ {Nobody})

BaseInv == PaperlessOK /\ SettingsOK /\ StoreOK /\ HistoryOK /\ RequestsOK /\ QueueOK

-----------------------------------------------------------------------------
(* Requests.                                                               *)

LEMMA Constants ==
  /\ Kind \in [Entities -> Kinds] /\ MaxRequests \in Nat /\ MaxEvents \in Nat
  /\ Nobody \notin Requests /\ Gated \subseteq Kinds
  /\ \A e \in Entities : Kind[e] \in Gated <=> Kind[e] # "custom_fields"
  BY PipelineAssumption DEF Requests, Nobody, Gated

LEMMA IdleOK == RecordOK(Idle) /\ PhaseOK(Idle) /\ Idle.create = {} /\ Idle.pc = "idle"
<1>1. Idle \in Request
  BY DEF Idle, Request, Phases, Suggestible, Of, None
<1>. QED  BY <1>1 DEF RecordOK, PhaseOK, Idle, None

\* A request that ends.
LEMMA EndedOK ==
  ASSUME NEW p \in {"approved", "failed"}
  PROVE  /\ RecordOK([Idle EXCEPT !.pc = p]) /\ PhaseOK([Idle EXCEPT !.pc = p])
         /\ [Idle EXCEPT !.pc = p].create = {} /\ [Idle EXCEPT !.pc = p].pc = p
<1>1. Idle \in Request  BY IdleOK DEF RecordOK
<1>2. [Idle EXCEPT !.pc = p] \in Request  BY <1>1 DEF Request, Phases
<1>3. /\ [Idle EXCEPT !.pc = p].pc = p /\ [Idle EXCEPT !.pc = p].create = {}
      /\ [Idle EXCEPT !.pc = p].kept = {} /\ [Idle EXCEPT !.pc = p].todo = {}
      /\ [Idle EXCEPT !.pc = p].got = None
  BY DEF Idle
<1>. QED  BY <1>2, <1>3 DEF RecordOK, PhaseOK, None

LEMMA SettleOK ==
  ASSUME NEW q, RecordOK(q), q.left # <<>>
  PROVE  /\ RecordOK(Settle(q)) /\ PhaseOK(Settle(q))
         /\ Settle(q).create = q.create /\ Settle(q).op = q.op /\ Settle(q).want = q.want
         /\ Settle(q).kept = q.kept /\ Settle(q).todo = q.todo /\ Settle(q).got = q.got
         /\ q.todo # {} => /\ Settle(q).pc = "create" /\ Settle(q).left = q.left
                           /\ Settle(q).map = q.map
         /\ q.todo = {} => /\ Settle(q).pc = IF Len(q.left) = 1 THEN "patch" ELSE "look"
                           /\ Settle(q).left = Tail(q.left)
<1>1. q \in Request  BY DEF RecordOK
<1>2. CASE q.todo # {}
  <2>1. Settle(q) = [q EXCEPT !.pc = "create"]  BY <1>2 DEF Settle
  <2>2. Settle(q) \in Request  BY <1>1, <2>1 DEF Request, Phases
  <2>. QED  BY <1>1, <1>2, <2>1, <2>2 DEF RecordOK, PhaseOK, Request
<1>3. CASE q.todo = {}
  <2>. DEFINE p == IF Len(q.left) = 1 THEN "patch" ELSE "look"
  <2>1. Settle(q) = [q EXCEPT !.pc = p, !.left = Tail(q.left), !.map = None]
    BY <1>1, <1>3 DEF Settle, Request
  <2>2. p \in Phases /\ (p = "patch" \/ p = "look")  BY DEF Phases
  <2>3. Tail(q.left) \in Seq(Kinds) /\ (p = "look" => Tail(q.left) # <<>>)
    <3>1. q.left \in Seq(Kinds) /\ Len(q.left) \in Nat \ {0}  BY <1>1 DEF Request
    <3>2. Tail(q.left) \in Seq(Kinds) /\ Len(Tail(q.left)) = Len(q.left) - 1  BY <3>1
    <3>3. Len(<<>>) = 0  OBVIOUS
    <3>4. p = "look" => Len(q.left) - 1 # 0  BY <3>1
    <3>. HIDE DEF p
    <3>5. p = "look" => Tail(q.left) # <<>>  BY <3>2, <3>3, <3>4, Zenon
    <3>. QED  BY <3>2, <3>5
  <2>4. None \in [Entities -> Nat]  BY DEF None
  <2>. HIDE DEF p
  <2>5. Settle(q) \in Request  BY <1>1, <2>1, <2>2, <2>3, <2>4 DEF Request
  <2>6. /\ Settle(q).pc = p /\ Settle(q).left = Tail(q.left)
        /\ Settle(q).create = q.create /\ Settle(q).op = q.op /\ Settle(q).want = q.want
        /\ Settle(q).kept = q.kept /\ Settle(q).todo = q.todo /\ Settle(q).got = q.got
    BY <1>1, <2>1 DEF Request
  <2>7. RecordOK(Settle(q)) /\ PhaseOK(Settle(q))
    BY <1>3, <2>2, <2>3, <2>5, <2>6 DEF RecordOK, PhaseOK
  <2>. QED  BY <1>3, <2>6, <2>7 DEF p
<1>. QED  BY <1>2, <1>3

LEMMA ResolvedOK ==
  ASSUME NEW q, RecordOK(q), q.left # <<>>, NEW k \in Kinds, NEW m \in [Entities -> Nat]
  PROVE  /\ RecordOK(Resolved(q, k, m)) /\ PhaseOK(Resolved(q, k, m))
         /\ Resolved(q, k, m).create = q.create
<1>. DEFINE g == [e \in Entities |-> IF e \in Of(k, q.want) /\ m[e] > 0 THEN m[e] ELSE q.got[e]]
            t == IF MayCreate(q, k) THEN {e \in Of(k, q.want) : ~(m[e] > 0)} ELSE {}
            s == [q EXCEPT !.map = m, !.got = g, !.todo = t]
<1>1. q \in Request  BY DEF RecordOK
<1>2. Resolved(q, k, m) = Settle(s)
  <2>1. {e \in Of(k, q.want) : ~(m[e] > 0)} = Of(k, q.want) \ {e \in Of(k, q.want) : m[e] > 0}
    OBVIOUS
  <2>2. q.got = [q EXCEPT !.map = m].got  BY <1>1 DEF Request
  <2>. QED  BY <2>1, <2>2 DEF Resolved
<1>3. g \in [Entities -> Nat] /\ t \subseteq q.want /\ t \subseteq Entities
  BY <1>1 DEF Request, Of, Suggestible
<1>4. \A e \in t : Kind[e] = k /\ MayCreate(q, k)  BY DEF Of
<1>5. \A e \in Entities : g[e] > 0 => e \in q.want  BY DEF RecordOK, Of
<1>. HIDE DEF g, t
<1>6. s \in Request  BY <1>1, <1>3 DEF Request
<1>7. /\ s.create = q.create /\ s.op = q.op /\ s.want = q.want /\ s.pc = q.pc
      /\ s.kept = q.kept /\ s.left = q.left /\ s.map = m /\ s.got = g /\ s.todo = t
  BY <1>1 DEF Request
<1>. HIDE DEF s
<1>8. RecordOK(s)
  <2>1. s.op = "auto" => \A e \in s.todo : Kind[e] \in s.create
    BY <1>4, <1>7 DEF MayCreate
  <2>. QED  BY <1>3, <1>5, <1>6, <1>7, <2>1 DEF RecordOK
<1>. QED  BY <1>2, <1>7, <1>8, SettleOK

-----------------------------------------------------------------------------
(* Frames: what a step leaves alone.                                       *)

\* A request goes over to another record.
LEMMA SetKeeps ==
  ASSUME RequestsOK, NEW r \in Requests, NEW rec, Set(r, rec),
         RecordOK(rec), PhaseOK(rec)
  PROVE  RequestsOK'
<1>1. rec \in Request  BY DEF RecordOK
<1>2. req' \in [Requests -> Request]  BY <1>1 DEF RequestsOK, Set
<1>3. \A q \in Requests : req'[q] = IF q = r THEN rec ELSE req[q]
  BY DEF RequestsOK, Set
<1>. QED  BY <1>2, <1>3 DEF RequestsOK

LEMMA RequestsStay ==
  ASSUME RequestsOK, UNCHANGED req
  PROVE  RequestsOK'
  BY DEF RequestsOK

\* A request that is neither in the queue nor in the hands of the worker, and one that
\* stays there, leave the queue alone.
LEMMA QueueStays ==
  ASSUME RequestsOK, QueueOK, UNCHANGED requests, NEW r \in Requests, NEW rec, Set(r, rec),
         \/ req[r].pc \notin {"queued", "list", "model"}
         \/ req[r].pc = "list" /\ rec.pc = "model"
  PROVE  QueueOK'
<1>1. UNCHANGED <<queue, active, waiting>>  BY DEF requests
<1>2. \A q \in Requests : req'[q] = IF q = r THEN rec ELSE req[q]
  BY DEF RequestsOK, Set
<1>3. \A i \in 1..Len(queue) : queue[i] \in Requests  BY DEF QueueOK
<1>4. \A i \in 1..Len(queue) : req'[queue[i]].pc = "queued"
  BY <1>2, <1>3 DEF QueueOK
<1>5. active # Nobody => req'[active].pc \in {"list", "model"}
  BY <1>2 DEF QueueOK
<1>. QED  BY <1>1, <1>4, <1>5 DEF QueueOK

LEMMA QueueUntouched ==
  ASSUME QueueOK, UNCHANGED <<requests, req>>
  PROVE  QueueOK'
  BY DEF QueueOK, requests

\* The worker is done with its request.
LEMMA AnswerKeeps ==
  ASSUME RequestsOK, QueueOK, NEW r \in Requests, NEW rec, active = r, Answer(r, rec),
         UNCHANGED queue
  PROVE  QueueOK'
<1>1. \A q \in Requests : req'[q] = IF q = r THEN rec ELSE req[q]
  BY DEF RequestsOK, Set, Answer
<1>2. \A i \in 1..Len(queue) : queue[i] \in Requests /\ queue[i] # r
  BY Constants DEF QueueOK
<1>3. \A i \in 1..Len(queue) : req'[queue[i]].pc = "queued"
  BY <1>1, <1>2 DEF QueueOK
<1>4. waiting' = {queue[i] : i \in 1..Len(queue)}
  BY <1>2, Constants DEF QueueOK, Answer
<1>. QED  BY <1>3, <1>4 DEF QueueOK, Answer

LEMMA PaperlessStays == ASSUME PaperlessOK, UNCHANGED paperless PROVE PaperlessOK'
  BY DEF PaperlessOK, paperless

LEMMA SettingsStay == ASSUME SettingsOK, UNCHANGED settings PROVE SettingsOK'
  BY DEF SettingsOK, settings

LEMMA StoreStays == ASSUME StoreOK, UNCHANGED store PROVE StoreOK'
  BY DEF StoreOK, store

LEMMA HistoryStays ==
  ASSUME HistoryOK, UNCHANGED <<blurred, unattended>>, events' = events \/ Event
  PROVE  HistoryOK'
  BY Constants DEF HistoryOK, Event

LEMMA AddKeeps ==
  ASSUME PaperlessOK, NEW e \in Entities, Add(e)
  PROVE  PaperlessOK'
  BY DEF PaperlessOK, Add

LEMMA DropKeeps ==
  ASSUME StoreOK, NEW ks, Drop(ks)
  PROVE  StoreOK'
  BY Constants DEF StoreOK, Drop

LEMMA MapTypes ==
  ASSUME PaperlessOK, NEW k, NEW es
  PROVE  MapOf(k, es) \in [Entities -> Nat]
  BY DEF MapOf, PaperlessOK

-----------------------------------------------------------------------------
LEMMA InitInv == Init => BaseInv
<1>. SUFFICES ASSUME Init PROVE BaseInv
  OBVIOUS
<1>1. PaperlessOK
  <2>1. made \in [Entities -> Nat]  BY DEF Init
  <2>2. exist \in SUBSET Entities  BY Zenon DEF Init
  <2>3. carried \subseteq exist /\ carried \in Suggestible  BY Zenon DEF Init
  <2>4. \A e \in exist : made[e] > 0  BY <2>2 DEF Init
  <2>. QED  BY <2>1, <2>2, <2>3, <2>4 DEF PaperlessOK
<1>2. SettingsOK  BY DEF Init, SettingsOK
<1>3. StoreOK  BY DEF Init, StoreOK, None
<1>4. HistoryOK  BY Constants DEF Init, HistoryOK
<1>5. RequestsOK
  <2>1. Idle \in Request /\ RecordOK(Idle) /\ PhaseOK(Idle) /\ Idle.create = {}
    BY IdleOK DEF RecordOK
  <2>2. \A r \in Requests : req[r] = Idle  BY DEF Init
  <2>3. req \in [Requests -> Request]  BY <2>1 DEF Init
  <2>. QED  BY <2>1, <2>2, <2>3 DEF RequestsOK
<1>6. QueueOK
  <2>1. queue \in Seq(Requests) /\ Len(queue) = 0 /\ active = Nobody /\ waiting = {}
    BY DEF Init
  <2>. QED  BY <2>1 DEF QueueOK
<1>. QED  BY <1>1, <1>2, <1>3, <1>4, <1>5, <1>6 DEF BaseInv

-----------------------------------------------------------------------------
(* The queue and the analysis.                                             *)

LEMMA SubmitSets ==
  ASSUME BaseInv, NEW r \in Requests, NEW o \in {"auto", "human"}, Submit(r, o)
  PROVE  \E c, k \in SUBSET Gated :
           Set(r, [Idle EXCEPT !.pc = "queued", !.op = o, !.keep = k, !.create = c])
<1>. USE DEF BaseInv
<1>1. CASE o = "human"
  <2>1. [Idle EXCEPT !.pc = "queued", !.op = o, !.keep = served, !.create = {}]
          = [Idle EXCEPT !.pc = "queued", !.op = o, !.keep = served]
    BY IdleOK DEF RecordOK, Request
  <2>2. served \in SUBSET Gated /\ {} \in SUBSET Gated  BY DEF SettingsOK
  <2>3. Set(r, [Idle EXCEPT !.pc = "queued", !.op = o, !.keep = served])
    BY <1>1 DEF Submit
  <2>. QED  BY <2>1, <2>2, <2>3
<1>2. CASE o = "auto"
  <2>1. PICK run \in runs : Set(r, [Idle EXCEPT !.pc = "queued", !.op = o, !.keep = run.keep,
                                               !.create = run.create])
    BY <1>2 DEF Submit
  <2>2. run.create \in SUBSET Gated /\ run.keep \in SUBSET Gated  BY DEF SettingsOK
  <2>. QED  BY <2>1, <2>2
<1>. QED  BY <1>1, <1>2

LEMMA SubmitInv ==
  ASSUME BaseInv, NEW r \in Requests, NEW o \in {"auto", "human"}, Submit(r, o)
  PROVE  BaseInv'
<1>. USE DEF BaseInv
<1>1. PICK c, k : /\ c \subseteq Gated /\ k \subseteq Gated
                  /\ Set(r, [Idle EXCEPT !.pc = "queued", !.op = o, !.keep = k, !.create = c])
  BY SubmitSets
<1>. DEFINE rec == [Idle EXCEPT !.pc = "queued", !.op = o, !.keep = k, !.create = c]
<1>2. Idle \in Request /\ PhaseOK(Idle) /\ RecordOK(Idle)  BY IdleOK DEF RecordOK
<1>3. rec \in Request  BY <1>1, <1>2 DEF Request, Phases
<1>4. /\ rec.pc = "queued" /\ rec.op = o /\ rec.create = c /\ rec.kept = {}
      /\ rec.todo = {} /\ rec.got = None
  BY <1>2 DEF Request, Idle
<1>5. RecordOK(rec) /\ PhaseOK(rec)  BY <1>3, <1>4 DEF RecordOK, PhaseOK, None
<1>6. Set(r, rec)  BY <1>1
<1>. HIDE DEF rec
<1>7. RequestsOK'  BY <1>1, <1>4, <1>5, <1>6, SetKeeps DEF Submit, settings
<1>8. QueueOK'
  <2>1. \A q \in Requests : req'[q] = IF q = r THEN rec ELSE req[q]
    BY <1>6 DEF RequestsOK, Set
  <2>2. /\ queue \in Seq(Requests) /\ queue' = Append(queue, r)
        /\ active' = active /\ waiting' = waiting \cup {r} /\ req[r].pc = "idle"
    BY DEF QueueOK, Submit
  <2>3. \A i \in 1..Len(queue) : queue[i] \in Requests /\ queue[i] # r
    BY <2>2 DEF QueueOK
  <2>4. /\ queue' \in Seq(Requests) /\ Len(queue') = Len(queue) + 1
        /\ \A i \in 1..Len(queue') : queue'[i] = IF i <= Len(queue) THEN queue[i] ELSE r
    BY <2>2
  <2>5. \A i, j \in 1..Len(queue') : queue'[i] = queue'[j] => i = j
    BY <2>2, <2>3, <2>4 DEF QueueOK
  <2>6. \A i \in 1..Len(queue') : req'[queue'[i]].pc = "queued"
    BY <1>4, <2>1, <2>2, <2>3, <2>4 DEF QueueOK
  <2>7. active' # Nobody => req'[active'].pc \in {"list", "model"}
    BY <2>1, <2>2 DEF QueueOK
  <2>8. {queue'[i] : i \in 1..Len(queue')} = {queue[i] : i \in 1..Len(queue)} \cup {r}
    BY <2>2, <2>4
  <2>. QED  BY <2>2, <2>4, <2>5, <2>6, <2>7, <2>8 DEF QueueOK
<1>. QED  BY <1>7, <1>8, PaperlessStays, SettingsStay, StoreStays, HistoryStays
          DEF Submit, settings

LEMMA BeginInv ==
  ASSUME BaseInv, Begin
  PROVE  BaseInv'
<1>. USE DEF BaseInv
<1>. DEFINE r == Head(queue)
            rec == [req[r] EXCEPT !.pc = "list", !.seen = carried]
<1>1. /\ queue \in Seq(Requests) /\ Len(queue) \in Nat /\ Len(queue) >= 1
      /\ r = queue[1] /\ r \in Requests
  BY DEF QueueOK, Begin
<1>2. req[r] \in Request /\ RecordOK(req[r]) /\ PhaseOK(req[r]) /\ req[r].pc = "queued"
  BY <1>1 DEF RequestsOK, QueueOK
<1>3. rec \in Request /\ rec.pc = "list" /\ rec.create = req[r].create
  BY <1>2 DEF Request, Phases, PaperlessOK
<1>4. RecordOK(rec) /\ PhaseOK(rec)
  BY <1>2, <1>3 DEF RecordOK, PhaseOK, Request
<1>5. Set(r, rec) /\ active' = r /\ queue' = Tail(queue) /\ active = Nobody /\ waiting' = waiting
  BY DEF Begin
<1>. HIDE DEF r, rec
<1>6. RequestsOK'
  <2>. QED  BY <1>1, <1>4, <1>5, SetKeeps
<1>7. QueueOK'
  <2>1. \A q \in Requests : req'[q] = IF q = r THEN rec ELSE req[q]
    BY <1>1, <1>5 DEF RequestsOK, Set
  <2>2. /\ queue' \in Seq(Requests) /\ Len(queue') = Len(queue) - 1
        /\ \A i \in 1..Len(queue') : queue'[i] = queue[i + 1] /\ i + 1 \in 1..Len(queue)
    BY <1>1, <1>5
  <2>3. \A i \in 1..Len(queue') : queue'[i] # r /\ queue'[i] \in Requests
    BY <1>1, <2>2 DEF QueueOK
  <2>4. \A i, j \in 1..Len(queue') : queue'[i] = queue'[j] => i = j
    <3>1. TAKE i, j \in 1..Len(queue')
    <3>2. queue[i + 1] = queue[j + 1] => i + 1 = j + 1  BY <2>2 DEF QueueOK
    <3>. QED  BY <1>1, <2>2, <3>2
  <2>5. \A i \in 1..Len(queue') : req'[queue'[i]].pc = "queued"
    BY <2>1, <2>2, <2>3 DEF QueueOK
  <2>6. {queue[i] : i \in 1..Len(queue)} = {queue'[i] : i \in 1..Len(queue')} \cup {r}
    <3>1. ASSUME NEW i \in 1..Len(queue), i # 1
          PROVE  i - 1 \in 1..Len(queue') /\ queue'[i - 1] = queue[i]
      BY <1>1, <2>2, <3>1
    <3>. QED  BY <1>1, <2>2, <3>1
  <2>7. waiting' = {queue'[i] : i \in 1..Len(queue')} \cup ({active'} \ {Nobody})
    BY <1>1, <1>5, <2>6, Constants DEF QueueOK
  <2>8. active' # Nobody => req'[active'].pc \in {"list", "model"}
    BY <1>1, <1>3, <1>5, <2>1
  <2>9. active' \in Requests  BY <1>1, <1>5
  <2>. QED  BY <2>2, <2>4, <2>5, <2>7, <2>8, <2>9 DEF QueueOK
<1>. QED  BY <1>6, <1>7, PaperlessStays, SettingsStay, StoreStays, HistoryStays
          DEF Begin, settings

LEMMA ListInv ==
  ASSUME BaseInv, NEW r \in Requests, List(r)
  PROVE  BaseInv'
<1>. USE DEF BaseInv
<1>1. req[r] \in Request /\ RecordOK(req[r]) /\ PhaseOK(req[r])
  BY DEF RequestsOK, RecordOK
<1>2. PICK es \in SUBSET Entities :
        Set(r, [req[r] EXCEPT !.pc = "model", !.listed = es])
  <2>1. req[r].listed \in SUBSET Entities  BY <1>1 DEF Request
  <2>2. [req[r] EXCEPT !.pc = "model"] = [req[r] EXCEPT !.pc = "model", !.listed = req[r].listed]
    BY <1>1 DEF Request
  <2>. QED  BY <2>1, <2>2 DEF List, PaperlessOK
<1>. DEFINE rec == [req[r] EXCEPT !.pc = "model", !.listed = es]
<1>3. /\ rec \in Request /\ rec.pc = "model" /\ rec.create = req[r].create
      /\ rec.kept = req[r].kept /\ rec.todo = req[r].todo /\ rec.want = req[r].want
      /\ rec.got = req[r].got /\ rec.op = req[r].op
  BY <1>1 DEF Request, Phases
<1>. HIDE DEF rec
<1>4. req[r].pc = "list"  BY DEF List
<1>5. RecordOK(rec) /\ PhaseOK(rec)  BY <1>1, <1>3, <1>4 DEF RecordOK, PhaseOK
<1>6. Set(r, rec)  BY <1>2 DEF rec
<1>7. RequestsOK'  BY <1>1, <1>3, <1>5, <1>6, SetKeeps DEF List, settings
<1>8. QueueOK'  BY <1>3, <1>4, <1>6, QueueStays DEF List
<1>. QED  BY <1>7, <1>8, PaperlessStays, SettingsStay, StoreStays, HistoryStays
          DEF List, settings

LEMMA CompleteInv ==
  ASSUME BaseInv, NEW r \in Requests, NEW answer \in Suggestible, Complete(r, answer)
  PROVE  BaseInv'
<1>. USE DEF BaseInv
<1>. DEFINE w == Permitted(r, answer)
            t == Of("tags", answer) \cap req[r].seen \cap req[r].listed
            rec == [req[r] EXCEPT !.pc = "analysed", !.want = w, !.kept = t,
                                  !.keep = {}, !.seen = {}, !.listed = {}]
<1>1. req[r] \in Request /\ RecordOK(req[r]) /\ PhaseOK(req[r])
  BY DEF RequestsOK, RecordOK
<1>2. w \in Suggestible /\ t \subseteq w /\ t \subseteq Entities /\ {} \in Suggestible
  BY DEF Permitted, Suggestible, Of
<1>3. Set(r, rec) /\ Answer(r, rec) /\ active = r /\ req[r].pc = "model"  BY DEF Complete, Answer
<1>. HIDE DEF w, t
<1>4. /\ rec \in Request /\ rec.pc = "analysed" /\ rec.create = req[r].create
      /\ rec.kept = t /\ rec.todo = req[r].todo /\ rec.want = w
      /\ rec.got = req[r].got /\ rec.op = req[r].op
  BY <1>1, <1>2 DEF Request, Phases
<1>. HIDE DEF rec
<1>5. req[r].todo = {} /\ \A e \in Entities : req[r].got[e] = 0
  BY <1>1, <1>3 DEF PhaseOK
<1>6. PhaseOK(rec)  BY <1>4, <1>5 DEF PhaseOK
<1>7. RecordOK(rec)  BY <1>2, <1>4, <1>5 DEF RecordOK
<1>8. RequestsOK'  BY <1>1, <1>3, <1>4, <1>6, <1>7, SetKeeps DEF Complete, settings
<1>9. QueueOK'  BY <1>3, AnswerKeeps DEF Complete
<1>. QED  BY <1>8, <1>9, PaperlessStays, SettingsStay, StoreStays, HistoryStays
          DEF Complete, settings

LEMMA AnalysisFailsInv ==
  ASSUME BaseInv, NEW r \in Requests, AnalysisFails(r)
  PROVE  BaseInv'
<1>. USE DEF BaseInv
<1>. DEFINE rec == [Idle EXCEPT !.pc = "failed"]
<1>1. RecordOK(rec) /\ PhaseOK(rec) /\ rec.create = {}  BY EndedOK
<1>2. Set(r, rec) /\ Answer(r, rec) /\ active = r  BY DEF AnalysisFails, Answer
<1>. HIDE DEF rec
<1>3. RequestsOK'  BY <1>1, <1>2, SetKeeps DEF AnalysisFails, settings
<1>4. QueueOK'  BY <1>2, AnswerKeeps DEF AnalysisFails
<1>. QED  BY <1>3, <1>4, PaperlessStays, SettingsStay, StoreStays, HistoryStays
          DEF AnalysisFails, settings

-----------------------------------------------------------------------------
(* The approval.                                                           *)

LEMMA ApproveInv ==
  ASSUME BaseInv, NEW r \in Requests, NEW edit \in Suggestible, Approve(r, edit)
  PROVE  BaseInv'
<1>. USE DEF BaseInv
<1>. DEFINE l == ToResolve(edit)
            t == req[r].kept \cap edit
            rec == [req[r] EXCEPT !.pc = "look", !.want = edit, !.kept = t, !.left = l]
<1>1. req[r] \in Request /\ RecordOK(req[r]) /\ PhaseOK(req[r])
  BY DEF RequestsOK, RecordOK
<1>2. l \in Seq(Kinds) /\ l # <<>>
  <2>. DEFINE ifAny(k) == IF Of(k, edit) = {} THEN <<>> ELSE <<k>>
  <2>1. ifAny("correspondents") \in Seq(Kinds) /\ ifAny("custom_fields") \in Seq(Kinds)
    <3>1. <<>> \in Seq(Kinds) /\ <<"correspondents">> \in Seq(Kinds)
          /\ <<"custom_fields">> \in Seq(Kinds)
      BY DEF Kinds
    <3>. QED  BY <3>1
  <2>2. l = <<"tags">> \o ifAny("correspondents") \o ifAny("custom_fields")
    BY DEF ToResolve
  <2>. HIDE DEF ifAny, l
  <2>3. <<"tags">> \in Seq(Kinds) /\ Len(<<"tags">>) = 1  BY DEF Kinds
  <2>4. l \in Seq(Kinds) /\ Len(l) >= 1  BY <2>1, <2>2, <2>3
  <2>5. Len(<<>>) = 0  OBVIOUS
  <2>. QED  BY <2>4, <2>5
<1>3. edit \in SUBSET Entities /\ t \subseteq Entities /\ t \subseteq edit
  BY DEF Suggestible
<1>4. Set(r, rec) /\ req[r].pc = "analysed"
  <2>1. req[r].kept = [[req[r] EXCEPT !.pc = "look"] EXCEPT !.want = edit].kept
    BY <1>1 DEF Request
  <2>. QED  BY <2>1 DEF Approve
<1>. HIDE DEF l, t
<1>5. /\ rec \in Request /\ rec.pc = "look" /\ rec.create = req[r].create
      /\ rec.kept = t /\ rec.todo = req[r].todo /\ rec.want = edit /\ rec.left = l
      /\ rec.got = req[r].got /\ rec.op = req[r].op
  BY <1>1, <1>2, <1>3 DEF Request, Phases
<1>. HIDE DEF rec
<1>6. req[r].todo = {} /\ \A e \in Entities : req[r].got[e] = 0
  BY <1>1, <1>4 DEF PhaseOK
<1>7. PhaseOK(rec)  BY <1>5, <1>6 DEF PhaseOK
<1>8. RecordOK(rec)  BY <1>2, <1>3, <1>5, <1>6 DEF RecordOK
<1>9. RequestsOK'  BY <1>1, <1>4, <1>5, <1>7, <1>8, SetKeeps DEF Approve, settings
<1>10. QueueOK'  BY <1>4, QueueStays DEF Approve
<1>. QED  BY <1>9, <1>10, PaperlessStays, SettingsStay, StoreStays, HistoryStays
          DEF Approve, settings

\* A request resolves the names of a kind.
LEMMA ResolveInv ==
  ASSUME BaseInv, NEW r \in Requests, NEW m \in [Entities -> Nat],
         req[r].pc \in {"look", "keep"},
         Set(r, Resolved(req[r], Head(req[r].left), m)),
         UNCHANGED <<requests, settings>>
  PROVE  RequestsOK' /\ QueueOK'
<1>. USE DEF BaseInv
<1>. DEFINE k == Head(req[r].left)
            rec == Resolved(req[r], k, m)
<1>1. req[r] \in Request /\ RecordOK(req[r])
  BY DEF RequestsOK, RecordOK
<1>2. req[r].left # <<>> /\ k \in Kinds
  BY <1>1 DEF RecordOK, Request
<1>3. Set(r, rec)  OBVIOUS
<1>. HIDE DEF k
<1>5. RecordOK(rec) /\ PhaseOK(rec) /\ rec.create = req[r].create
  BY <1>1, <1>2, ResolvedOK
<1>. HIDE DEF rec
<1>6. RequestsOK'  BY <1>1, <1>3, <1>5, SetKeeps DEF settings
<1>7. QueueOK'  BY <1>3, QueueStays
<1>. QED  BY <1>6, <1>7

LEMMA UseCacheInv ==
  ASSUME BaseInv, NEW r \in Requests, UseCache(r)
  PROVE  BaseInv'
<1>. USE DEF BaseInv
<1>. DEFINE k == Head(req[r].left)
            m == [e \in Entities |-> IF Kind[e] = k THEN cache[e] ELSE 0]
<1>1. m \in [Entities -> Nat]  BY DEF StoreOK
<1>2. Set(r, Resolved(req[r], k, m)) /\ req[r].pc = "look"  BY DEF UseCache
<1>. HIDE DEF m
<1>3. RequestsOK' /\ QueueOK'  BY <1>1, <1>2, ResolveInv DEF UseCache
<1>. QED  BY <1>3, PaperlessStays, SettingsStay, StoreStays, HistoryStays
          DEF UseCache, settings

LEMMA ReadPagesInv ==
  ASSUME BaseInv, NEW r \in Requests, ReadPages(r)
  PROVE  BaseInv'
<1>. USE DEF BaseInv
<1>1. PICK es \in SUBSET Entities :
        Set(r, [req[r] EXCEPT !.pc = "keep", !.map = MapOf(Head(req[r].left), es)])
  BY DEF ReadPages, PaperlessOK, Of
<1>. DEFINE m == MapOf(Head(req[r].left), es)
            rec == [req[r] EXCEPT !.pc = "keep", !.map = m]
<1>2. req[r] \in Request /\ RecordOK(req[r]) /\ PhaseOK(req[r])
  BY DEF RequestsOK, RecordOK
<1>3. m \in [Entities -> Nat]  BY MapTypes
<1>4. req[r].pc = "look" /\ Set(r, rec)  BY <1>1 DEF ReadPages
<1>. HIDE DEF m
<1>5. /\ rec \in Request /\ rec.pc = "keep" /\ rec.create = req[r].create
      /\ rec.kept = req[r].kept /\ rec.todo = req[r].todo /\ rec.want = req[r].want
      /\ rec.left = req[r].left /\ rec.got = req[r].got /\ rec.op = req[r].op
  BY <1>2, <1>3 DEF Request, Phases
<1>. HIDE DEF rec
<1>6. RecordOK(rec) /\ PhaseOK(rec)  BY <1>2, <1>4, <1>5 DEF RecordOK, PhaseOK
<1>7. RequestsOK'  BY <1>2, <1>4, <1>5, <1>6, SetKeeps DEF ReadPages, settings
<1>8. QueueOK'  BY <1>4, QueueStays DEF ReadPages
<1>9. HistoryOK'
  <2>1. blurred' \subseteq Entities  BY DEF ReadPages, HistoryOK, PaperlessOK, Of
  <2>2. events' = events \/ Event  BY DEF ReadPages
  <2>3. events' \in 0..MaxEvents  BY <2>2, Constants DEF HistoryOK, Event
  <2>. QED  BY <2>1, <2>3 DEF ReadPages, HistoryOK, settings
<1>. QED  BY <1>7, <1>8, <1>9, PaperlessStays, SettingsStay, StoreStays
          DEF ReadPages, settings

LEMMA KeepMapInv ==
  ASSUME BaseInv, NEW r \in Requests, KeepMap(r)
  PROVE  BaseInv'
<1>. USE DEF BaseInv
<1>1. req[r] \in Request /\ RecordOK(req[r])  BY DEF RequestsOK, RecordOK
<1>2. req[r].map \in [Entities -> Nat] /\ req[r].left \in Seq(Kinds) /\ req[r].left # <<>>
  BY <1>1 DEF Request, RecordOK, KeepMap
<1>3. RequestsOK' /\ QueueOK'  BY <1>2, ResolveInv DEF KeepMap
<1>4. StoreOK'
  <2>1. Head(req[r].left) \in Kinds  BY <1>2
  <2>. QED  BY <1>2, <2>1 DEF KeepMap, StoreOK
<1>. QED  BY <1>3, <1>4, PaperlessStays, SettingsStay, HistoryStays
          DEF KeepMap, settings

\* A request is done with the name e, which has the id i, or none.
LEMMA NextName ==
  ASSUME BaseInv, NEW r \in Requests, req[r].pc = "create", NEW e \in req[r].todo,
         NEW q, q \in Request, q.todo = req[r].todo \ {e}, q.want = req[r].want,
         q.left = req[r].left, q.create = req[r].create, q.op = req[r].op,
         q.kept = req[r].kept, q.pc = req[r].pc,
         \A d \in Entities : d # e => q.got[d] = req[r].got[d],
         Set(r, Settle(q)), UNCHANGED <<requests, settings>>
  PROVE  RequestsOK' /\ QueueOK'
<1>. USE DEF BaseInv
<1>1. RecordOK(req[r])  BY DEF RequestsOK
<1>2. RecordOK(q) /\ q.left # <<>>  BY <1>1 DEF RecordOK
<1>3. RecordOK(Settle(q)) /\ PhaseOK(Settle(q)) /\ Settle(q).create = req[r].create
  BY <1>2, SettleOK
<1>4. RequestsOK'  BY <1>1, <1>3, SetKeeps DEF settings
<1>5. QueueOK'  BY QueueStays
<1>. QED  BY <1>4, <1>5

\* What an automatic approval creates, it may create.
LEMMA UnattendedAllowed ==
  ASSUME BaseInv, NEW r \in Requests, NEW e \in req[r].todo, req[r].op = "auto"
  PROVE  e \in Entities /\ Kind[e] \in req[r].create /\ req[r].create \subseteq Gated
<1>1. RecordOK(req[r])  BY DEF BaseInv, RequestsOK
<1>. QED  BY <1>1 DEF RecordOK, Request

\* What r has created does not stretch a policy.
LEMMA CreatedKeeps ==
  ASSUME BaseInv, NEW r \in Requests, NEW e \in req[r].todo
  PROVE  /\ Created(r, e) \subseteq [kind : Kinds, policy : SUBSET Gated]
         /\ \A x \in Created(r, e) : x.kind \in x.policy
<1>1. /\ unattended \subseteq [kind : Kinds, policy : SUBSET Gated]
      /\ \A x \in unattended : x.kind \in x.policy
  BY DEF BaseInv, HistoryOK
<1>2. CASE req[r].op # "auto"  BY <1>1, <1>2 DEF Created
<1>3. CASE req[r].op = "auto"
  <2>. DEFINE x == [kind |-> Kind[e], policy |-> req[r].create]
  <2>1. x \in [kind : Kinds, policy : SUBSET Gated] /\ x.kind \in x.policy
    BY <1>3, UnattendedAllowed, Constants
  <2>2. Created(r, e) = unattended \cup {x}  BY <1>3 DEF Created
  <2>. HIDE DEF x
  <2>. QED  BY <1>1, <2>1, <2>2
<1>. QED  BY <1>2, <1>3

LEMMA CreateInv ==
  ASSUME BaseInv, NEW r \in Requests, NEW e \in Entities, Create(r, e)
  PROVE  BaseInv'
<1>. USE DEF BaseInv
<1>. DEFINE t == req[r].todo \ {e}
            g == [req[r].got EXCEPT ![e] = made[e] + 1]
            q == [req[r] EXCEPT !.todo = t, !.got = g]
<1>1. req[r] \in Request  BY DEF RequestsOK
<1>2. t \subseteq Entities /\ g \in [Entities -> Nat] /\ \A d \in Entities : d # e => g[d] = req[r].got[d]
  BY <1>1 DEF Request, PaperlessOK
<1>3. Set(r, Settle(q)) /\ req[r].pc = "create" /\ e \in req[r].todo
  <2>1. [req[r] EXCEPT !.todo = t].got = req[r].got  BY <1>1 DEF Request
  <2>2. [req[r] EXCEPT !.todo = @ \ {e}, !.got[e] = made[e] + 1] = q
    BY <1>1, <2>1 DEF Request
  <2>. QED  BY <2>2 DEF Create
<1>. HIDE DEF t, g
<1>4. /\ q \in Request /\ q.todo = t /\ q.want = req[r].want /\ q.left = req[r].left
      /\ q.create = req[r].create /\ q.op = req[r].op /\ q.kept = req[r].kept
      /\ q.pc = req[r].pc /\ q.got = g
  BY <1>1, <1>2 DEF Request
<1>. HIDE DEF q
<1>5. RequestsOK' /\ QueueOK'
  <2>1. q.todo = req[r].todo \ {e}  BY <1>4 DEF t
  <2>. QED  BY <1>2, <1>3, <1>4, <2>1, NextName DEF Create
<1>6. HistoryOK'
  <2>1. /\ unattended' \subseteq [kind : Kinds, policy : SUBSET Gated]
        /\ \A x \in unattended' : x.kind \in x.policy
    BY <1>3, CreatedKeeps DEF HistoryOK, Create
  <2>. QED  BY <2>1 DEF HistoryOK, Create, settings
<1>. QED  BY <1>5, <1>6, AddKeeps, SettingsStay, DropKeeps DEF Create, settings

LEMMA CreateFailsInv ==
  ASSUME BaseInv, NEW r \in Requests, NEW e \in Entities, CreateFails(r, e)
  PROVE  BaseInv'
<1>. USE DEF BaseInv
<1>. DEFINE t == req[r].todo \ {e}
            q == [req[r] EXCEPT !.todo = t]
<1>1. req[r] \in Request  BY DEF RequestsOK
<1>2. t \subseteq Entities  BY <1>1 DEF Request
<1>3. Set(r, Settle(q)) /\ req[r].pc = "create" /\ e \in req[r].todo
  BY DEF CreateFails
<1>. HIDE DEF t
<1>4. /\ q \in Request /\ q.todo = t /\ q.want = req[r].want /\ q.left = req[r].left
      /\ q.create = req[r].create /\ q.op = req[r].op /\ q.kept = req[r].kept
      /\ q.pc = req[r].pc /\ q.got = req[r].got
  BY <1>1, <1>2 DEF Request
<1>. HIDE DEF q
<1>5. RequestsOK' /\ QueueOK'
  <2>1. q.todo = req[r].todo \ {e}  BY <1>4 DEF t
  <2>. QED  BY <1>3, <1>4, <2>1, NextName DEF CreateFails
<1>6. HistoryOK'
  <2>1. /\ unattended' \subseteq [kind : Kinds, policy : SUBSET Gated]
        /\ \A x \in unattended' : x.kind \in x.policy
    BY <1>3, CreatedKeeps DEF HistoryOK, CreateFails
  <2>2. blurred' \subseteq Entities /\ events' \in 0..MaxEvents
    BY Constants DEF HistoryOK, CreateFails, Event
  <2>. QED  BY <2>1, <2>2 DEF HistoryOK, CreateFails, settings
<1>7. PaperlessOK'  BY AddKeeps, PaperlessStays DEF CreateFails, paperless
<1>. QED  BY <1>5, <1>6, <1>7, SettingsStay, StoreStays DEF CreateFails, settings

LEMMA PatchInv ==
  ASSUME BaseInv, NEW r \in Requests, Patch(r)
  PROVE  BaseInv'
<1>. USE DEF BaseInv
<1>. DEFINE rec == [Idle EXCEPT !.pc = "approved"]
            ids == {e \in Entities : req[r].got[e] > 0}
            set == {"tags"} \cup {Kind[e] : e \in ids}
<1>1. RecordOK(rec) /\ PhaseOK(rec) /\ rec.create = {}  BY EndedOK
<1>2. Set(r, rec) /\ req[r].pc = "patch"  BY DEF Patch
<1>. HIDE DEF rec
<1>3. RequestsOK'  BY <1>1, <1>2, SetKeeps DEF Patch, settings
<1>4. QueueOK'  BY <1>2, QueueStays DEF Patch
<1>5. PaperlessOK'
  <2>1. carried' = {e \in carried : Kind[e] \notin set} \cup ids  BY DEF Patch
  <2>2. ids \subseteq exist  BY DEF Patch, Valid
  <2>3. ids \subseteq req[r].want /\ req[r].want \in Suggestible
    BY DEF RequestsOK, RecordOK, Request
  <2>4. \A e \in ids : Kind[e] \in set  OBVIOUS
  <2>. HIDE DEF ids, set
  <2>5. carried \subseteq exist /\ carried \in Suggestible /\ exist \subseteq Entities
    BY DEF PaperlessOK
  <2>6. carried' \subseteq exist /\ carried' \subseteq Entities  BY <2>1, <2>2, <2>5
  <2>7. \A d, e \in carried' : Kind[d] = "correspondents" /\ Kind[e] = "correspondents" => d = e
    <3>1. TAKE d, e \in carried'
    <3>2. HAVE Kind[d] = "correspondents" /\ Kind[e] = "correspondents"
    <3>3. (d \in ids /\ e \in ids) \/ (d \in carried /\ e \in carried)
      BY <2>1, <2>4, <3>2
    <3>. QED  BY <2>3, <2>5, <3>2, <3>3 DEF Suggestible, Of
  <2>8. carried' \in Suggestible  BY <2>6, <2>7 DEF Suggestible, Of
  <2>. QED  BY <2>6, <2>8 DEF PaperlessOK, Patch
<1>. QED  BY <1>3, <1>4, <1>5, SettingsStay, StoreStays, HistoryStays DEF Patch, settings

\* An approval fails, of which nothing is to be created just now.
LEMMA AbandonedKeeps ==
  ASSUME BaseInv, NEW r \in Requests, req[r].pc \in {"look", "patch"}, Set(r, Abandoned(r)),
         UNCHANGED requests
  PROVE  RequestsOK' /\ QueueOK'
<1>. USE DEF BaseInv
<1>. DEFINE rec == [req[r] EXCEPT !.pc = "analysed", !.left = <<>>, !.got = None]
<1>1. RecordOK(req[r]) /\ PhaseOK(req[r]) /\ req[r] \in Request
  BY DEF RequestsOK, RecordOK
<1>2. /\ None \in [Entities -> Nat] /\ \A e \in Entities : None[e] = 0
      /\ <<>> \in Seq(Kinds)
  BY DEF None
<1>3. /\ rec \in Request /\ rec.pc = "analysed" /\ rec.create = req[r].create
      /\ rec.kept = req[r].kept /\ rec.todo = req[r].todo /\ rec.want = req[r].want
      /\ rec.got = None /\ rec.op = req[r].op
  BY <1>1, <1>2 DEF Request, Phases
<1>4. RecordOK(rec) /\ PhaseOK(rec)  BY <1>1, <1>2, <1>3 DEF RecordOK, PhaseOK
<1>5. Set(r, [Idle EXCEPT !.pc = "failed"]) \/ Set(r, rec)  BY DEF Abandoned
<1>. HIDE DEF rec
<1>6. PICK x : Set(r, x) /\ RecordOK(x) /\ PhaseOK(x)
  BY <1>4, <1>5, EndedOK
<1>7. RequestsOK'  BY <1>6, SetKeeps
<1>8. QueueOK'  BY <1>6, QueueStays
<1>. QED  BY <1>7, <1>8

LEMMA ApprovalFailsInv ==
  ASSUME BaseInv, NEW r \in Requests, ReadFails(r) \/ PatchFails(r)
  PROVE  BaseInv'
<1>1. RequestsOK' /\ QueueOK'  BY AbandonedKeeps DEF ReadFails, PatchFails
<1>2. /\ UNCHANGED <<paperless, settings, store, blurred, unattended>>
      /\ events' = events \/ Event
  BY DEF ReadFails, PatchFails
<1>. QED  BY <1>1, <1>2, PaperlessStays, SettingsStay, StoreStays, HistoryStays DEF BaseInv

-----------------------------------------------------------------------------
(* Others.                                                                 *)

LEMMA OthersInv ==
  ASSUME BaseInv, Others
  PROVE  BaseInv'
<1>. USE DEF BaseInv
<1>1. ASSUME NEW k \in Kinds, Expire(k)  PROVE BaseInv'
  <2>1. RequestsOK' /\ QueueOK'  BY <1>1, RequestsStay, QueueUntouched DEF Expire, settings
  <2>. QED  BY <1>1, <2>1, PaperlessStays, SettingsStay, DropKeeps, HistoryStays
            DEF Expire, settings
<1>2. ASSUME NEW ks \in SUBSET Gated, ChangePolicy(ks)  PROVE BaseInv'
  <2>1. SettingsOK'  BY <1>2 DEF ChangePolicy, SettingsOK
  <2>2. RequestsOK' /\ QueueOK'  BY <1>2, <2>1, RequestsStay, QueueUntouched DEF ChangePolicy
  <2>3. HistoryOK'  BY <1>2, <2>1, Constants DEF ChangePolicy, HistoryOK, Event
  <2>. QED  BY <1>2, <2>1, <2>2, <2>3, PaperlessStays, StoreStays DEF ChangePolicy
<1>3. ASSUME Rebuild  PROVE BaseInv'
  <2>1. SettingsOK'  BY <1>3 DEF Rebuild, SettingsOK
  <2>2. RequestsOK' /\ QueueOK'  BY <1>3, RequestsStay, QueueUntouched DEF Rebuild
  <2>. QED  BY <1>3, <2>1, <2>2, PaperlessStays, StoreStays, HistoryStays DEF Rebuild
<1>6. ASSUME StartRun  PROVE BaseInv'
  <2>1. SettingsOK'
    <3>1. [create |-> policy, keep |-> served] \in [create : SUBSET Gated, keep : SUBSET Gated]
      BY DEF SettingsOK
    <3>. QED  BY <1>6, <3>1 DEF StartRun, SettingsOK
  <2>2. RequestsOK' /\ QueueOK'  BY <1>6, RequestsStay, QueueUntouched DEF StartRun
  <2>. QED  BY <1>6, <2>1, <2>2, PaperlessStays, StoreStays, HistoryStays DEF StartRun
<1>4. ASSUME NEW e \in Entities, OthersCreate(e)  PROVE BaseInv'
  <2>1. RequestsOK' /\ QueueOK'
    BY <1>4, RequestsStay, QueueUntouched DEF OthersCreate, settings
  <2>2. HistoryOK'  BY <1>4, Constants DEF OthersCreate, HistoryOK, Event, settings
  <2>. QED  BY <1>4, <2>1, <2>2, AddKeeps, SettingsStay, StoreStays DEF OthersCreate
<1>5. ASSUME NEW e \in Entities, OthersDelete(e)  PROVE BaseInv'
  <2>1. RequestsOK' /\ QueueOK'
    BY <1>5, RequestsStay, QueueUntouched DEF OthersDelete, settings
  <2>2. HistoryOK'  BY <1>5, Constants DEF OthersDelete, HistoryOK, Event, settings
  <2>3. PaperlessOK'  BY <1>5 DEF OthersDelete, PaperlessOK, Suggestible, Of
  <2>. QED  BY <1>5, <2>1, <2>2, <2>3, SettingsStay, StoreStays DEF OthersDelete
<1>. QED  BY <1>1, <1>2, <1>3, <1>4, <1>5, <1>6 DEF Others

LEMMA StutterInv ==
  ASSUME BaseInv, UNCHANGED vars
  PROVE  BaseInv'
<1>1. UNCHANGED <<paperless, settings, requests, store, req, events, blurred, unattended>>
  BY DEF vars
<1>. QED  BY <1>1, PaperlessStays, SettingsStay, StoreStays, HistoryStays, RequestsStay,
             QueueUntouched DEF BaseInv

LEMMA StepInv ==
  ASSUME BaseInv, [Next]_vars
  PROVE  BaseInv'
<1>1. CASE UNCHANGED vars  BY <1>1, StutterInv
<1>2. CASE Worker
  BY <1>2, BeginInv, ListInv, CompleteInv, AnalysisFailsInv DEF Worker
<1>3. ASSUME NEW r \in Requests, Approval(r)  PROVE BaseInv'
  BY <1>3, ApproveInv, UseCacheInv, ReadPagesInv, KeepMapInv, CreateInv, CreateFailsInv,
     PatchInv, ApprovalFailsInv DEF Approval
<1>. QED  BY <1>1, <1>2, <1>3, SubmitInv, OthersInv DEF Next

-----------------------------------------------------------------------------
(* The theorems.                                                           *)

\* The inductive invariant: every part of the state by itself, the queue with each
\* waiting request in it once, and nothing to create of a kind that an automatic
\* request was not allowed by the settings its run began with.
THEOREM PipelineInvariant == Spec => []BaseInv
<1>. QED  BY InitInv, StepInv, PTL DEF Spec

\* Every variable has its type, for any number of requests and entities.
THEOREM TypeCorrect == Spec => []TypeOK
<1>1. BaseInv => TypeOK
  <2>. SUFFICES ASSUME BaseInv PROVE TypeOK
    OBVIOUS
  <2>1. \A r \in Requests : req[r].kept \cup req[r].todo \subseteq req[r].want
    BY DEF BaseInv, RequestsOK, RecordOK
  <2>. QED  BY <2>1 DEF BaseInv, PaperlessOK, SettingsOK, StoreOK, HistoryOK, RequestsOK,
                        QueueOK, TypeOK
<1>. QED  BY <1>1, PipelineInvariant, PTL

\* Nobody waits in vain: whoever waits is in the queue or in the hands of the worker.
THEOREM NobodyWaitsInVainHolds == Spec => []NobodyWaitsInVain
<1>1. BaseInv => NobodyWaitsInVain
  <2>. SUFFICES ASSUME BaseInv PROVE NobodyWaitsInVain
    OBVIOUS
  <2>1. queue \in Seq(Requests)  BY DEF BaseInv, QueueOK
  <2>2. ToSet(queue) = {queue[i] : i \in 1..Len(queue)}  BY <2>1 DEF ToSet
  <2>. QED  BY <2>2 DEF BaseInv, QueueOK, NobodyWaitsInVain
<1>. QED  BY <1>1, PipelineInvariant, PTL

\* What an unattended run creates is of a kind that its own policy allowed in the settings
\* the run began with (main.py:149, 179, approval_queue.py:39-65).
THEOREM ForbiddenIsNotCreatedHolds == Spec => []ForbiddenIsNotCreated
<1>1. BaseInv => ForbiddenIsNotCreated
  BY DEF BaseInv, HistoryOK, ForbiddenIsNotCreated
<1>. QED  BY <1>1, PipelineInvariant, PTL

-----------------------------------------------------------------------------
(* What an approval owes: a second invariant, about the entities that the  *)
(* application can be expected to know of.  Custom fields are not among    *)
(* them, because a creation does not drop their map.                       *)

Elems(s) == {s[i] : i \in 1..Len(s)}

\* The kinds that q has still to resolve.
Ahead(q) ==
  CASE q.pc \in {"look", "keep"} -> Elems(q.left)
    [] q.pc = "create"           -> Elems(Tail(q.left))
    [] OTHER                     -> {}

\* What the approval of q has to put on the document, as far as it knows of it.
Wanted(q, e) == e \in q.want /\ (q.op = "human" \/ e \in q.kept)

Resolving == {"look", "keep", "create", "patch"}

\* If there are the entities es, and the application may be expected to know about e,
\* then q is right about e, and e is resolved, about to be created, or its turn
\* is to come.
Owed(q, e, es) ==
  /\ e \in q.kept \cup q.listed => e \in es
  /\ q.pc = "keep" /\ Kind[e] = Head(q.left) /\ e \in es => q.map[e] > 0
  /\ e \in q.todo => e \notin es
  /\ q.pc \in Resolving /\ Wanted(q, e) =>
       Kind[e] \in Ahead(q) \/ e \in q.todo \/ q.got[e] > 0

ShapeOK(q) ==
  /\ \A e \in q.kept : Kind[e] = "tags"
  /\ \A e \in q.todo : Kind[e] = Head(q.left)

Known(e) == Kind[e] # "custom_fields" /\ e \notin blurred

\* A map that is kept has what the application can be expected to know of.
CacheKnows == \A e \in exist : Known(e) /\ Kind[e] \in cached => cache[e] > 0

KnowledgeInv ==
  /\ CacheKnows
  /\ \A r \in Requests : ShapeOK(req[r])
  /\ \A r \in Requests, e \in Entities : Known(e) => Owed(req[r], e, exist)

LEMMA ElemsTail ==
  ASSUME NEW s \in Seq(Kinds), s # <<>>
  PROVE  Elems(s) = {Head(s)} \cup Elems(Tail(s))
<1>1. /\ Len(s) \in Nat /\ Len(s) >= 1 /\ Head(s) = s[1]
      /\ Len(Tail(s)) = Len(s) - 1
      /\ \A i \in 1..Len(Tail(s)) : Tail(s)[i] = s[i + 1]
  OBVIOUS
<1>2. ASSUME NEW x \in Elems(s)  PROVE x \in {Head(s)} \cup Elems(Tail(s))
  <2>1. PICK i \in 1..Len(s) : x = s[i]  BY DEF Elems
  <2>2. CASE i = 1  BY <1>1, <2>1, <2>2
  <2>3. CASE i # 1
    <3>1. i - 1 \in 1..Len(Tail(s)) /\ (i - 1) + 1 = i  BY <1>1, <2>1, <2>3
    <3>2. Tail(s)[i - 1] = s[(i - 1) + 1]  BY <1>1, <3>1
    <3>3. x = Tail(s)[i - 1]  BY <2>1, <3>1, <3>2
    <3>. QED  BY <3>1, <3>3 DEF Elems
  <2>. QED  BY <2>2, <2>3
<1>3. ASSUME NEW x \in Elems(Tail(s))  PROVE x \in Elems(s)
  <2>1. PICK i \in 1..Len(Tail(s)) : x = Tail(s)[i]  BY DEF Elems
  <2>2. i + 1 \in 1..Len(s) /\ x = s[i + 1]  BY <1>1, <2>1
  <2>. QED  BY <2>2 DEF Elems
<1>4. Head(s) \in Elems(s)  BY <1>1 DEF Elems
<1>. QED  BY <1>2, <1>3, <1>4

LEMMA ElemsSingle ==
  ASSUME NEW s \in Seq(Kinds), Len(s) = 1
  PROVE  Elems(Tail(s)) = {}
<1>. DEFINE t == Tail(s)
<1>1. Len(t) = 0  OBVIOUS
<1>. HIDE DEF t
<1>2. 1..Len(t) = {}  BY <1>1
<1>3. Elems(t) = {}  BY <1>2 DEF Elems
<1>. QED  BY <1>3 DEF t

\* Every kind that a suggestion is about has its turn.
LEMMA ToResolveAll ==
  ASSUME NEW want \in SUBSET Entities, NEW e \in want
  PROVE  Kind[e] \in Elems(ToResolve(want))
<1>. DEFINE c == IF Of("correspondents", want) = {} THEN <<>> ELSE <<"correspondents">>
            f == IF Of("custom_fields", want) = {} THEN <<>> ELSE <<"custom_fields">>
<1>1. ToResolve(want) = <<"tags">> \o c \o f  BY DEF ToResolve
<1>2. Kind[e] \in Kinds  BY Constants
<1>3. /\ <<>> \in Seq(Kinds) /\ <<"tags">> \in Seq(Kinds)
      /\ <<"correspondents">> \in Seq(Kinds) /\ <<"custom_fields">> \in Seq(Kinds)
  BY DEF Kinds
<1>4. c \in Seq(Kinds) /\ f \in Seq(Kinds)
  <2>1. c = <<>> \/ c = <<"correspondents">>  OBVIOUS
  <2>2. f = <<>> \/ f = <<"custom_fields">>  OBVIOUS
  <2>. QED  BY <1>3, <2>1, <2>2
<1>5. CASE Kind[e] = "tags"
  <2>1. c \in Seq(Kinds) /\ f \in Seq(Kinds) /\ <<"tags">> \in Seq(Kinds)  BY <1>3, <1>4
  <2>. HIDE DEF c, f
  <2>2. Len(<<"tags">> \o c \o f) >= 1 /\ (<<"tags">> \o c \o f)[1] = "tags"
    BY <2>1
  <2>3. Len(<<"tags">> \o c \o f) \in Nat  BY <2>1
  <2>. QED  BY <1>1, <1>5, <2>2, <2>3 DEF Elems
<1>6. CASE Kind[e] = "correspondents"
  <2>1. e \in Of("correspondents", want)  BY <1>6 DEF Of
  <2>2. c = <<"correspondents">>  BY <2>1
  <2>3. f \in Seq(Kinds)  BY <1>4
  <2>. HIDE DEF c, f
  <2>4. ToResolve(want) = <<"tags", "correspondents">> \o f
    BY <1>1, <2>2, <2>3 DEF Kinds
  <2>5. <<"tags", "correspondents">> \in Seq(Kinds) /\ Len(<<"tags", "correspondents">>) = 2
    BY DEF Kinds
  <2>6. Len(ToResolve(want)) \in Nat /\ Len(ToResolve(want)) >= 2
        /\ ToResolve(want)[2] = "correspondents"
    BY <2>3, <2>4, <2>5
  <2>. QED  BY <1>6, <2>6 DEF Elems
<1>7. CASE Kind[e] = "custom_fields"
  <2>1. e \in Of("custom_fields", want)  BY <1>7 DEF Of
  <2>2. f = <<"custom_fields">>  BY <2>1
  <2>. DEFINE s == <<"tags">> \o c
  <2>. HIDE DEF c, f
  <2>3. s \in Seq(Kinds)  BY <1>3, <1>4
  <2>. HIDE DEF s
  <2>4. Len(s \o <<"custom_fields">>) = Len(s) + 1
        /\ (s \o <<"custom_fields">>)[Len(s) + 1] = "custom_fields" /\ Len(s) \in Nat
    BY <2>3 DEF Kinds, s
  <2>. QED  BY <1>1, <1>7, <2>2, <2>4 DEF Elems, s
<1>. QED  BY <1>2, <1>5, <1>6, <1>7 DEF Kinds

-----------------------------------------------------------------------------
\* A request owes the same as long as e stays there, or is not; and when e is
\* created by others, a request that is not about to resolve the kind.
LEMMA OwedStays ==
  ASSUME NEW q, NEW e, NEW es, NEW fs, Owed(q, e, es), ShapeOK(q), PhaseOK(q),
         \/ e \in es <=> e \in fs
         \/ e \in fs /\ ~(q.pc \in {"keep", "create"} /\ Head(q.left) = Kind[e])
  PROVE  Owed(q, e, fs)
<1>1. CASE e \in es <=> e \in fs  BY <1>1 DEF Owed
<1>2. CASE e \in fs /\ ~(q.pc \in {"keep", "create"} /\ Head(q.left) = Kind[e])
  <2>1. e \notin q.todo  BY <1>2 DEF ShapeOK, PhaseOK
  <2>. QED  BY <1>2, <2>1 DEF Owed
<1>. QED  BY <1>1, <1>2

\* A request that is not at an approval owes nothing.
LEMMA NothingOwed ==
  ASSUME NEW q, NEW e, NEW es, q.pc \notin Resolving, q.todo = {},
         e \in q.kept \cup q.listed => e \in es
  PROVE  Owed(q, e, es)
  BY DEF Owed, Resolving

LEMMA SettleOwed ==
  ASSUME NEW q, RecordOK(q), q.left # <<>>, NEW e \in Entities, NEW es,
         e \in q.kept \cup q.listed => e \in es,
         e \in q.todo => e \notin es,
         Wanted(q, e) => Kind[e] \in Elems(Tail(q.left)) \/ e \in q.todo \/ q.got[e] > 0
  PROVE  Owed(Settle(q), e, es)
<1>. DEFINE s == Settle(q)
<1>1. /\ s.op = q.op /\ s.want = q.want /\ s.kept = q.kept /\ s.todo = q.todo
      /\ s.got = q.got
      /\ q.todo # {} => s.pc = "create" /\ s.left = q.left
      /\ q.todo = {} => s.pc = (IF Len(q.left) = 1 THEN "patch" ELSE "look")
                        /\ s.left = Tail(q.left)
  BY SettleOK
<1>2. q \in Request  BY DEF RecordOK
<1>3. s.listed = q.listed
  BY <1>2 DEF Settle, Request
<1>. HIDE DEF s
<1>4. Wanted(s, e) <=> Wanted(q, e)  BY <1>1 DEF Wanted
<1>5. Kind[e] \in Elems(Tail(q.left)) => Kind[e] \in Ahead(s)
  <2>1. CASE q.todo # {}  BY <1>1, <2>1 DEF Ahead
  <2>2. CASE q.todo = {} /\ Len(q.left) = 1
    BY <1>2, <2>2, ElemsSingle DEF Request
  <2>3. CASE q.todo = {} /\ Len(q.left) # 1
    BY <1>1, <2>3 DEF Ahead
  <2>. QED  BY <2>1, <2>2, <2>3
<1>6. s.pc # "keep"  BY <1>1
<1>7. s.todo = q.todo /\ s.got = q.got /\ s.kept = q.kept  BY <1>1
<1>8. Owed(s, e, es)  BY <1>3, <1>4, <1>5, <1>6, <1>7 DEF Owed
<1>. QED  BY <1>8 DEF s

\* With a map that has all of the kind that the application can know of, a name that is
\* there is found, and a person's name that is not is about to be created.
LEMMA ResolvedOwed ==
  ASSUME NEW q, RecordOK(q), ShapeOK(q), PhaseOK(q), q.left # <<>>,
         q.pc \in {"look", "keep"},
         NEW m \in [Entities -> Nat],
         NEW e \in Entities, NEW es, Owed(q, e, es),
         Kind[e] = Head(q.left) /\ e \in es => m[e] > 0
  PROVE  Owed(Resolved(q, Head(q.left), m), e, es)
<1>. DEFINE k == Head(q.left)
            names == Of(k, q.want)
            found == {d \in names : m[d] > 0}
            g == [d \in Entities |-> IF d \in found THEN m[d] ELSE q.got[d]]
            t == IF MayCreate(q, k) THEN names \ found ELSE {}
            s == [q EXCEPT !.map = m, !.got = g, !.todo = t]
<1>1. q \in Request /\ q.left \in Seq(Kinds)  BY DEF RecordOK, Request
<1>2. q.todo = {}  BY DEF PhaseOK
<1>3. Resolved(q, k, m) = Settle(s)
  <2>1. q.got = [q EXCEPT !.map = m].got  BY <1>1 DEF Request
  <2>. QED  BY <2>1 DEF Resolved
<1>4. g \in [Entities -> Nat] /\ t \subseteq q.want /\ t \subseteq Entities
  BY <1>1 DEF Request, Of, Suggestible
<1>5. s \in Request
  <2>. HIDE DEF g, t
  <2>. QED  BY <1>1, <1>4 DEF Request
<1>6. /\ s.create = q.create /\ s.op = q.op /\ s.want = q.want /\ s.pc = q.pc
      /\ s.kept = q.kept /\ s.left = q.left /\ s.got = g /\ s.todo = t
      /\ s.listed = q.listed
  <2>. HIDE DEF g, t
  <2>. QED  BY <1>1 DEF Request
<1>7. RecordOK(s)
  <2>1. \A d \in t : Kind[d] = k /\ MayCreate(q, k)  BY DEF Of
  <2>2. \A d \in Entities : g[d] > 0 => d \in q.want  BY DEF RecordOK, Of
  <2>. HIDE DEF g, t, s, k
  <2>3. s.op = "auto" => \A d \in s.todo : Kind[d] \in s.create
    BY <1>6, <2>1 DEF MayCreate
  <2>. QED  BY <1>4, <1>5, <1>6, <2>2, <2>3 DEF RecordOK
<1>8. e \in t => e \notin es  BY DEF Of
<1>9. e \in q.kept \cup q.listed => e \in es  BY DEF Owed
<1>10. Wanted(q, e) => Kind[e] \in Elems(Tail(q.left)) \/ e \in t \/ g[e] > 0
  <2>. SUFFICES ASSUME Wanted(q, e), Kind[e] \notin Elems(Tail(q.left))
                PROVE  e \in t \/ g[e] > 0
    OBVIOUS
  <2>1. Kind[e] \in Elems(q.left) \/ q.got[e] > 0
    BY <1>2 DEF Owed, Ahead, Resolving
  <2>2. CASE Kind[e] \in Elems(q.left)
    <3>1. Kind[e] = k  BY <1>1, <2>2, ElemsTail
    <3>2. e \in names  BY <3>1 DEF Wanted, Of
    <3>3. CASE m[e] > 0  BY <3>2, <3>3
    <3>4. CASE ~(m[e] > 0)
      <4>1. e \notin es  BY <3>1, <3>4
      <4>2. e \notin q.kept  BY <1>9, <4>1
      <4>3. MayCreate(q, k)  BY <4>2 DEF Wanted, MayCreate
      <4>. QED  BY <3>2, <3>4, <4>3
    <3>. QED  BY <3>3, <3>4
  <2>3. CASE q.got[e] > 0 BY <2>3
  <2>. QED  BY <2>1, <2>2, <2>3
<1>. HIDE DEF s, g, t
<1>11. Wanted(s, e) <=> Wanted(q, e)  BY <1>6 DEF Wanted
<1>12. Owed(Settle(s), e, es)
  BY <1>6, <1>7, <1>8, <1>9, <1>10, <1>11, SettleOwed
<1>. QED  BY <1>3, <1>12

\* The shape of a request that settles.
LEMMA SettleShape ==
  ASSUME NEW q, RecordOK(q), q.left # <<>>, ShapeOK(q)
  PROVE  ShapeOK(Settle(q))
<1>. DEFINE s == Settle(q)
<1>1. /\ s.kept = q.kept /\ s.todo = q.todo
      /\ q.todo # {} => s.left = q.left
  BY SettleOK
<1>. HIDE DEF s
<1>2. ShapeOK(s)  BY <1>1 DEF ShapeOK
<1>. QED  BY <1>2 DEF s

LEMMA ResolvedShape ==
  ASSUME NEW q, RecordOK(q), ShapeOK(q), q.left # <<>>, NEW m \in [Entities -> Nat]
  PROVE  ShapeOK(Resolved(q, Head(q.left), m))
<1>. DEFINE s == Resolved(q, Head(q.left), m)
            k == Head(q.left)
            names == Of(k, q.want)
            found == {d \in names : m[d] > 0}
            g == [d \in Entities |-> IF d \in found THEN m[d]
                                     ELSE [q EXCEPT !.map = m].got[d]]
            t == IF MayCreate(q, k) THEN names \ found ELSE {}
            p == [q EXCEPT !.map = m, !.got = g, !.todo = t]
<1>1. q \in Request  BY DEF RecordOK
<1>2. s = Settle(p)  BY DEF Resolved
<1>3. \A d \in t : Kind[d] = k  BY DEF Of
<1>. HIDE DEF g, t
<1>4. p.kept = q.kept /\ p.left = q.left /\ p.todo = t  BY <1>1 DEF Request
<1>. HIDE DEF p
<1>5. Settle(p).kept = p.kept /\ Settle(p).todo = p.todo
      /\ (p.todo # {} => Settle(p).left = p.left)
  BY DEF Settle
<1>. QED  BY <1>2, <1>3, <1>4, <1>5 DEF ShapeOK

-----------------------------------------------------------------------------
(* Steps.                                                                  *)

\* The requests that a step leaves alone.
LEMMA BystandersOwe ==
  ASSUME RequestsOK, KnowledgeInv, blurred \subseteq blurred',
         NEW q \in Requests, req'[q] = req[q], NEW e \in Entities, Known(e)',
         \/ e \in exist <=> e \in exist'
         \/ e \in exist' /\ ~(req[q].pc \in {"keep", "create"} /\ Head(req[q].left) = Kind[e])
  PROVE  ShapeOK(req'[q]) /\ Owed(req'[q], e, exist')
<1>. DEFINE x == req[q]
            es == exist
            fs == exist'
<1>1. Known(e)  BY DEF Known
<1>2. ShapeOK(x) /\ PhaseOK(x) /\ Owed(x, e, es)  BY <1>1 DEF KnowledgeInv, RequestsOK
<1>3. \/ e \in es <=> e \in fs
      \/ e \in fs /\ ~(x.pc \in {"keep", "create"} /\ Head(x.left) = Kind[e])
  OBVIOUS
<1>. HIDE DEF x, es, fs
<1>4. Owed(x, e, fs)  BY <1>2, <1>3, OwedStays
<1>. QED  BY <1>2, <1>4 DEF x, fs

\* The request r goes over to rec, and no entity comes or goes.
LEMMA MoveKnows ==
  ASSUME RequestsOK, KnowledgeInv, NEW r \in Requests, NEW rec, Set(r, rec),
         UNCHANGED exist, blurred \subseteq blurred', CacheKnows',
         ShapeOK(rec), \A e \in Entities : Known(e)' => Owed(rec, e, exist)
  PROVE  KnowledgeInv'
<1>1. \A q \in Requests : req'[q] = IF q = r THEN rec ELSE req[q]
  BY DEF RequestsOK, Set
<1>2. \A q \in Requests : ShapeOK(req[q])  BY DEF KnowledgeInv
<1>3. \A q \in Requests : ShapeOK(req'[q])  BY <1>1, <1>2
<1>4. ASSUME NEW q \in Requests, NEW e \in Entities, Known(e)'
      PROVE  Owed(req'[q], e, exist')
  <2>1. CASE q = r
    <3>1. Owed(rec, e, exist)  BY <1>4
    <3>. QED  BY <1>1, <2>1, <3>1
  <2>2. CASE q # r
    <3>1. req'[q] = req[q]  BY <1>1, <2>2
    <3>. QED  BY <1>4, <3>1, BystandersOwe
  <2>. QED  BY <2>1, <2>2
<1>. QED  BY <1>3, <1>4 DEF KnowledgeInv

\* No request moves, and of what is known, nothing comes or goes.
LEMMA RestKnows ==
  ASSUME RequestsOK, KnowledgeInv, UNCHANGED req, blurred \subseteq blurred', CacheKnows',
         \A e \in Entities : Known(e)' => (e \in exist <=> e \in exist')
  PROVE  KnowledgeInv'
<1>1. \A q \in Requests : ShapeOK(req'[q])  BY DEF KnowledgeInv
<1>2. ASSUME NEW q \in Requests, NEW e \in Entities, Known(e)'
      PROVE  Owed(req'[q], e, exist')
  BY <1>2, BystandersOwe
<1>. QED  BY <1>1, <1>2 DEF KnowledgeInv

LEMMA CacheStays ==
  ASSUME CacheKnows, UNCHANGED store, blurred \subseteq blurred',
         \A e \in exist' : Known(e)' => e \in exist
  PROVE  CacheKnows'
  BY DEF CacheKnows, Known, store

LEMMA DropKnows ==
  ASSUME StoreOK, CacheKnows, NEW ks, Drop(ks), blurred \subseteq blurred',
         \A e \in exist' : e \in Entities /\ (Known(e)' /\ Kind[e] \notin ks => e \in exist)
  PROVE  CacheKnows'
<1>1. \A e \in Entities : Kind[e] \notin ks => cache'[e] = cache[e]  BY DEF Drop
<1>2. cached' = cached \ ks  BY DEF Drop
<1>. QED  BY <1>1, <1>2 DEF CacheKnows, Known

LEMMA InitKnows == Init => KnowledgeInv
<1>. SUFFICES ASSUME Init PROVE KnowledgeInv
  OBVIOUS
<1>1. \A r \in Requests : req[r] = Idle  BY DEF Init
<1>2. Idle.pc = "idle" /\ Idle.kept = {} /\ Idle.listed = {} /\ Idle.todo = {}  BY DEF Idle
<1>3. ShapeOK(Idle)  BY <1>2 DEF ShapeOK
<1>4. \A e \in Entities : Owed(Idle, e, exist)
  <2>1. Idle.pc \notin Resolving  BY <1>2 DEF Resolving
  <2>. QED  BY <1>2, <2>1 DEF Owed
<1>5. CacheKnows  BY DEF Init, CacheKnows
<1>. QED  BY <1>1, <1>3, <1>4, <1>5 DEF KnowledgeInv

\* A request that is not at an approval, before the step and after it.
LEMMA QuietMove ==
  ASSUME RequestsOK, KnowledgeInv, NEW r \in Requests, NEW rec, Set(r, rec),
         UNCHANGED <<exist, store, blurred>>,
         rec.pc \notin Resolving, rec.todo = {},
         rec.kept \subseteq req[r].kept \cup req[r].listed,
         \A e \in rec.kept : Kind[e] = "tags",
         rec.listed \subseteq req[r].listed \cup exist
  PROVE  KnowledgeInv'
<1>1. CacheKnows'  BY CacheStays DEF KnowledgeInv
<1>2. ShapeOK(rec)  BY DEF ShapeOK
<1>3. ASSUME NEW e \in Entities, Known(e)'  PROVE Owed(rec, e, exist)
  <2>1. Known(e)  BY <1>3 DEF Known
  <2>2. e \in req[r].kept \cup req[r].listed => e \in exist  BY <2>1 DEF KnowledgeInv, Owed
  <2>3. e \in rec.kept \cup rec.listed => e \in exist  BY <2>2
  <2>. QED  BY <2>3, NothingOwed
<1>. QED  BY <1>1, <1>2, <1>3, MoveKnows

LEMMA EndKnows ==
  ASSUME RequestsOK, KnowledgeInv, NEW r \in Requests,
         NEW p \in {"approved", "failed"}, Set(r, [Idle EXCEPT !.pc = p]),
         UNCHANGED <<exist, store, blurred>>
  PROVE  KnowledgeInv'
<1>. DEFINE rec == [Idle EXCEPT !.pc = p]
<1>1. /\ rec.pc = p /\ rec.todo = {} /\ rec.kept = {} /\ rec.listed = {}
  BY DEF Idle
<1>2. Set(r, rec)  OBVIOUS
<1>. HIDE DEF rec
<1>3. rec.pc \notin Resolving  BY <1>1 DEF Resolving
<1>. QED  BY <1>1, <1>2, <1>3, QuietMove

LEMMA QueueKnows ==
  ASSUME BaseInv, KnowledgeInv,
         (\E r \in Requests, o \in {"auto", "human"} : Submit(r, o)) \/ Worker
  PROVE  KnowledgeInv'
<1>. USE DEF BaseInv
<1>1. ASSUME NEW r \in Requests, NEW o \in {"auto", "human"}, Submit(r, o)
      PROVE  KnowledgeInv'
  <2>0. PICK c, k : Set(r, [Idle EXCEPT !.pc = "queued", !.op = o, !.keep = k, !.create = c])
    BY <1>1, SubmitSets
  <2>. DEFINE rec == [Idle EXCEPT !.pc = "queued", !.op = o, !.keep = k, !.create = c]
  <2>1. Set(r, rec) /\ UNCHANGED <<exist, store, blurred>>
    BY <1>1, <2>0 DEF Submit, paperless
  <2>2. rec.pc = "queued" /\ rec.todo = {} /\ rec.kept = {} /\ rec.listed = {}  BY DEF Idle
  <2>. HIDE DEF rec
  <2>3. rec.pc \notin Resolving  BY <2>2 DEF Resolving
  <2>. QED  BY <2>1, <2>2, <2>3, QuietMove
<1>2. CASE Begin
  <2>. DEFINE r == Head(queue)
              rec == [req[r] EXCEPT !.pc = "list", !.seen = carried]
  <2>1. queue \in Seq(Requests) /\ Len(queue) >= 1 /\ r = queue[1] /\ r \in Requests
    BY <1>2 DEF QueueOK, Begin
  <2>2. req[r] \in Request /\ PhaseOK(req[r]) /\ ShapeOK(req[r]) /\ req[r].pc = "queued"
    BY <2>1 DEF RequestsOK, QueueOK, KnowledgeInv
  <2>3. Set(r, rec) /\ UNCHANGED <<exist, store, blurred>>  BY <1>2 DEF Begin, paperless
  <2>4. /\ rec.pc = "list" /\ rec.todo = req[r].todo /\ rec.kept = req[r].kept
        /\ rec.listed = req[r].listed
    BY <2>2 DEF Request
  <2>. HIDE DEF rec, r
  <2>5. rec.pc \notin Resolving /\ rec.todo = {} /\ \A e \in rec.kept : Kind[e] = "tags"
    BY <2>2, <2>4 DEF Resolving, PhaseOK, ShapeOK
  <2>. QED  BY <2>1, <2>3, <2>4, <2>5, QuietMove
<1>3. ASSUME NEW r \in Requests, List(r)  PROVE KnowledgeInv'
  <2>1. req[r] \in Request /\ PhaseOK(req[r]) /\ ShapeOK(req[r]) /\ req[r].pc = "list"
    BY <1>3 DEF RequestsOK, KnowledgeInv, List
  <2>2. PICK es : /\ es = exist \/ es = req[r].listed
                  /\ Set(r, [req[r] EXCEPT !.pc = "model", !.listed = es])
    <3>1. [req[r] EXCEPT !.pc = "model"]
            = [req[r] EXCEPT !.pc = "model", !.listed = req[r].listed]
      BY <2>1 DEF Request
    <3>. QED  BY <1>3, <3>1 DEF List
  <2>. DEFINE rec == [req[r] EXCEPT !.pc = "model", !.listed = es]
  <2>3. /\ rec.pc = "model" /\ rec.todo = req[r].todo /\ rec.kept = req[r].kept
        /\ rec.listed = es
    BY <2>1 DEF Request
  <2>4. Set(r, rec) /\ UNCHANGED <<exist, store, blurred>>  BY <1>3, <2>2 DEF List, paperless
  <2>. HIDE DEF rec
  <2>5. rec.pc \notin Resolving /\ rec.todo = {} /\ \A e \in rec.kept : Kind[e] = "tags"
    BY <2>1, <2>3 DEF Resolving, PhaseOK, ShapeOK
  <2>. QED  BY <2>2, <2>3, <2>4, <2>5, QuietMove
<1>4. ASSUME NEW r \in Requests, NEW answer \in Suggestible, Complete(r, answer)
      PROVE  KnowledgeInv'
  <2>1. req[r] \in Request /\ PhaseOK(req[r]) /\ req[r].pc = "model"
    BY <1>4 DEF RequestsOK, Complete
  <2>. DEFINE w == Permitted(r, answer)
              k == Of("tags", answer) \cap req[r].seen \cap req[r].listed
              rec == [req[r] EXCEPT !.pc = "analysed", !.want = w, !.kept = k,
                                    !.keep = {}, !.seen = {}, !.listed = {}]
  <2>2. k \subseteq req[r].listed /\ \A e \in k : Kind[e] = "tags"  BY DEF Of
  <2>3. Set(r, rec) /\ UNCHANGED <<exist, store, blurred>>
    BY <1>4 DEF Complete, Answer, paperless
  <2>. HIDE DEF w, k
  <2>4. /\ rec.pc = "analysed" /\ rec.todo = req[r].todo /\ rec.kept = k /\ rec.listed = {}
    BY <2>1 DEF Request
  <2>. HIDE DEF rec
  <2>5. rec.pc \notin Resolving /\ rec.todo = {}  BY <2>1, <2>4 DEF Resolving, PhaseOK
  <2>. QED  BY <2>2, <2>3, <2>4, <2>5, QuietMove
<1>5. ASSUME NEW r \in Requests, AnalysisFails(r)  PROVE KnowledgeInv'
  BY <1>5, EndKnows DEF AnalysisFails, Answer, paperless
<1>. QED  BY <1>1, <1>2, <1>3, <1>4, <1>5 DEF Worker

LEMMA ApproveKnows ==
  ASSUME BaseInv, KnowledgeInv, NEW r \in Requests, NEW edit \in Suggestible, Approve(r, edit)
  PROVE  KnowledgeInv'
<1>. USE DEF BaseInv
<1>. DEFINE l == ToResolve(edit)
            k == req[r].kept \cap edit
            rec == [req[r] EXCEPT !.pc = "look", !.want = edit, !.kept = k, !.left = l]
<1>1. /\ req[r] \in Request /\ PhaseOK(req[r]) /\ ShapeOK(req[r])
      /\ req[r].pc = "analysed"
  BY DEF RequestsOK, KnowledgeInv, Approve
<1>2. Set(r, rec) /\ UNCHANGED <<exist, store, blurred>>
  <2>1. [req[r] EXCEPT !.pc = "look", !.want = edit].kept = req[r].kept
    BY <1>1 DEF Request
  <2>. QED  BY <2>1 DEF Approve, paperless
<1>3. edit \subseteq Entities /\ \A e \in edit : Kind[e] \in Elems(l)
  BY ToResolveAll DEF Suggestible
<1>. HIDE DEF l
<1>4. /\ rec.pc = "look" /\ rec.todo = req[r].todo /\ rec.kept = k /\ rec.left = l
      /\ rec.listed = req[r].listed /\ rec.want = edit
  BY <1>1 DEF Request
<1>. HIDE DEF rec
<1>5. ShapeOK(rec)  BY <1>1, <1>4 DEF ShapeOK, PhaseOK
<1>6. ASSUME NEW e \in Entities, Known(e)'  PROVE Owed(rec, e, exist)
  <2>1. Known(e)  BY <1>2, <1>6 DEF Known
  <2>2. e \in req[r].kept \cup req[r].listed => e \in exist  BY <2>1 DEF KnowledgeInv, Owed
  <2>3. rec.todo = {}  BY <1>1, <1>4 DEF PhaseOK
  <2>4. e \in edit => Kind[e] \in Ahead(rec)  BY <1>3, <1>4 DEF Ahead
  <2>5. Wanted(rec, e) => e \in edit  BY <1>4 DEF Wanted
  <2>. QED  BY <1>4, <2>2, <2>3, <2>4, <2>5 DEF Owed
<1>7. CacheKnows'  BY <1>2, CacheStays DEF KnowledgeInv
<1>. QED  BY <1>2, <1>5, <1>6, <1>7, MoveKnows

LEMMA UseCacheKnows ==
  ASSUME BaseInv, KnowledgeInv, NEW r \in Requests, UseCache(r)
  PROVE  KnowledgeInv'
<1>. USE DEF BaseInv
<1>. DEFINE q == req[r]
            k == Head(q.left)
            m == [e \in Entities |-> IF Kind[e] = k THEN cache[e] ELSE 0]
            rec == Resolved(q, k, m)
<1>1. /\ RecordOK(q) /\ PhaseOK(q) /\ ShapeOK(q) /\ q.pc = "look" /\ q.left # <<>>
      /\ k \in cached
  BY DEF RequestsOK, RecordOK, KnowledgeInv, UseCache
<1>2. m \in [Entities -> Nat]  BY DEF StoreOK
<1>3. Set(r, rec) /\ UNCHANGED <<exist, store, blurred>>  BY DEF UseCache, paperless
<1>4. \A e \in Entities : Known(e) /\ Kind[e] = k /\ e \in exist => m[e] > 0
  BY <1>1 DEF KnowledgeInv, CacheKnows
<1>5. \A e \in Entities : Known(e) => Owed(q, e, exist)  BY DEF KnowledgeInv
<1>. HIDE DEF q, m
<1>6. ShapeOK(rec)  BY <1>1, <1>2, ResolvedShape
<1>7. ASSUME NEW e \in Entities, Known(e)'  PROVE Owed(rec, e, exist)
  <2>1. Known(e)  BY <1>3, <1>7 DEF Known
  <2>. QED  BY <1>1, <1>2, <1>4, <1>5, <2>1, ResolvedOwed
<1>8. CacheKnows'  BY <1>3, CacheStays DEF KnowledgeInv
<1>. QED  BY <1>3, <1>6, <1>7, <1>8, MoveKnows

LEMMA ReadPagesKnows ==
  ASSUME BaseInv, KnowledgeInv, NEW r \in Requests, ReadPages(r)
  PROVE  KnowledgeInv'
<1>. USE DEF BaseInv
<1>. DEFINE q == req[r]
            k == Head(q.left)
<1>1. PICK es \in SUBSET Of(k, exist) :
        /\ Set(r, [q EXCEPT !.pc = "keep", !.map = MapOf(k, es)])
        /\ blurred \cup (Of(k, exist) \ es) = blurred'
  <2>1. CASE Set(r, [q EXCEPT !.pc = "keep", !.map = MapOf(k, exist)]) /\ blurred' = blurred
    <3>1. MapOf(k, exist) = MapOf(k, Of(k, exist))
      <4>1. Of(k, exist) = Of(k, Of(k, exist))  BY DEF Of
      <4>. QED  BY <4>1 DEF MapOf
    <3>. QED  BY <2>1, <3>1
  <2>. QED  BY <2>1 DEF ReadPages
<1>. DEFINE m == MapOf(k, es)
            rec == [q EXCEPT !.pc = "keep", !.map = m]
<1>2. q \in Request /\ PhaseOK(q) /\ ShapeOK(q) /\ q.pc = "look"
  BY DEF RequestsOK, KnowledgeInv, ReadPages
<1>3. \A e \in es : m[e] > 0  BY DEF MapOf, Of, PaperlessOK
<1>4. m \in [Entities -> Nat]  BY MapTypes
<1>5. Set(r, rec) /\ UNCHANGED <<exist, store>> /\ blurred \subseteq blurred'
  BY <1>1 DEF ReadPages, paperless
<1>. HIDE DEF m
<1>6. /\ rec.pc = "keep" /\ rec.todo = q.todo /\ rec.kept = q.kept /\ rec.left = q.left
      /\ rec.listed = q.listed /\ rec.want = q.want /\ rec.map = m /\ rec.op = q.op
      /\ rec.got = q.got
  BY <1>2 DEF Request
<1>. HIDE DEF rec
<1>7. ShapeOK(rec)  BY <1>2, <1>6 DEF ShapeOK
<1>8. ASSUME NEW e \in Entities, Known(e)'  PROVE Owed(rec, e, exist)
  <2>1. Known(e)  BY <1>5, <1>8 DEF Known
  <2>2. Owed(q, e, exist)  BY <2>1 DEF KnowledgeInv
  <2>3. Kind[e] = k /\ e \in exist => rec.map[e] > 0
    <3>. SUFFICES ASSUME Kind[e] = k, e \in exist PROVE e \in es
      BY <1>3, <1>6
    <3>. QED  BY <1>1, <1>8 DEF Known, Of
  <2>4. Wanted(rec, e) <=> Wanted(q, e)  BY <1>6 DEF Wanted
  <2>5. Ahead(rec) = Ahead(q)  BY <1>2, <1>6 DEF Ahead
  <2>6. rec.pc \in Resolving /\ q.pc \in Resolving  BY <1>2, <1>6 DEF Resolving
  <2>. QED  BY <1>6, <2>2, <2>3, <2>4, <2>5, <2>6 DEF Owed
<1>9. CacheKnows'  BY <1>5, CacheStays DEF KnowledgeInv
<1>10. RequestsOK /\ Set(r, rec) /\ UNCHANGED exist /\ blurred \subseteq blurred'
  BY <1>5
<1>. HIDE DEF q, k, BaseInv
<1>. QED  BY <1>7, <1>8, <1>9, <1>10, MoveKnows, Zenon

LEMMA KeepMapKnows ==
  ASSUME BaseInv, KnowledgeInv, NEW r \in Requests, KeepMap(r)
  PROVE  KnowledgeInv'
<1>. USE DEF BaseInv
<1>. DEFINE q == req[r]
            k == Head(q.left)
            m == q.map
            rec == Resolved(q, k, m)
<1>1. /\ RecordOK(q) /\ PhaseOK(q) /\ ShapeOK(q) /\ q.pc = "keep" /\ q.left # <<>>
      /\ q \in Request
  BY DEF RequestsOK, RecordOK, KnowledgeInv, KeepMap
<1>2. m \in [Entities -> Nat]  BY <1>1 DEF Request
<1>3. Set(r, rec) /\ UNCHANGED <<exist, blurred>>  BY DEF KeepMap, paperless
<1>4. \A e \in Entities : Known(e) => Owed(q, e, exist)  BY DEF KnowledgeInv
<1>5. \A e \in Entities : Known(e) /\ Kind[e] = k /\ e \in exist => m[e] > 0
  BY <1>1, <1>4 DEF Owed
<1>6. CacheKnows'
  <2>1. cached' = cached \cup {k}
    BY DEF KeepMap
  <2>2. cache' = [e \in Entities |-> IF Kind[e] = k THEN m[e] ELSE cache[e]]
    BY DEF KeepMap
  <2>3. exist \subseteq Entities  BY DEF PaperlessOK
  <2>. HIDE DEF m, k, q
  <2>. QED  BY <1>3, <1>5, <2>1, <2>2, <2>3 DEF KnowledgeInv, CacheKnows, Known
<1>. HIDE DEF q, m
<1>7. ShapeOK(rec)  BY <1>1, <1>2, ResolvedShape
<1>8. ASSUME NEW e \in Entities, Known(e)'  PROVE Owed(rec, e, exist)
  <2>1. Known(e)  BY <1>3, <1>8 DEF Known
  <2>. QED  BY <1>1, <1>2, <1>4, <1>5, <2>1, ResolvedOwed
<1>. QED  BY <1>3, <1>6, <1>7, <1>8, MoveKnows

\* A request goes on from the name e: q is what becomes of it before it settles.
LEMMA NextNameKnows ==
  ASSUME BaseInv, KnowledgeInv, NEW r \in Requests, req[r].pc = "create",
         NEW e \in req[r].todo, NEW q, q \in Request,
         q.todo = req[r].todo \ {e}, q.want = req[r].want, q.left = req[r].left,
         q.create = req[r].create, q.op = req[r].op, q.kept = req[r].kept,
         q.listed = req[r].listed,
         \A d \in Entities : d # e => q.got[d] = req[r].got[d],
         NEW es, exist \subseteq es, es \subseteq exist \cup {e}
  PROVE  /\ ShapeOK(Settle(q))
         /\ \A d \in Entities :
              Known(d) /\ (d = e => q.got[d] > 0) => Owed(Settle(q), d, es)
<1>. USE DEF BaseInv
<1>1. RecordOK(req[r]) /\ ShapeOK(req[r])  BY DEF RequestsOK, KnowledgeInv
<1>2. RecordOK(q) /\ q.left # <<>>  BY <1>1 DEF RecordOK
<1>3. ShapeOK(q)  BY <1>1 DEF ShapeOK
<1>4. ASSUME NEW d \in Entities, Known(d), d = e => q.got[d] > 0
      PROVE  Owed(Settle(q), d, es)
  <2>1. Owed(req[r], d, exist)  BY <1>4 DEF KnowledgeInv
  <2>2. d \in q.kept \cup q.listed => d \in es  BY <2>1 DEF Owed
  <2>3. d \in q.todo => d \notin es  BY <2>1 DEF Owed
  <2>4. Wanted(q, d) => Kind[d] \in Elems(Tail(q.left)) \/ d \in q.todo \/ q.got[d] > 0
    <3>1. Wanted(q, d) <=> Wanted(req[r], d)  BY DEF Wanted
    <3>2. Ahead(req[r]) = Elems(Tail(q.left)) /\ req[r].pc \in Resolving
      BY DEF Ahead, Resolving
    <3>. QED  BY <1>4, <2>1, <3>1, <3>2 DEF Owed
  <2>. QED  BY <1>2, <2>2, <2>3, <2>4, SettleOwed
<1>. QED  BY <1>2, <1>3, <1>4, SettleShape

\* A new entity that is known of is known to everybody: a request that would miss the creation of e
\* makes it one of the names that the application cannot be expected to know.
LEMMA NewEntityKnows ==
  ASSUME RequestsOK, KnowledgeInv, NEW r \in Requests, NEW rec, Set(r, rec),
         NEW e \in Entities, exist \subseteq exist', exist' \subseteq exist \cup {e},
         blurred \subseteq blurred', Known(e)' => e \in exist \/ Unaware(r, e) = {},
         CacheKnows', ShapeOK(rec),
         \A d \in Entities : Known(d)' => Owed(rec, d, exist')
  PROVE  KnowledgeInv'
<1>1. \A q \in Requests : req'[q] = IF q = r THEN rec ELSE req[q]
  BY DEF RequestsOK, Set
<1>2. \A q \in Requests : ShapeOK(req'[q])  BY <1>1 DEF KnowledgeInv
<1>3. ASSUME NEW q \in Requests, NEW d \in Entities, Known(d)'
      PROVE  Owed(req'[q], d, exist')
  <2>1. CASE q = r
    <3>1. Owed(rec, d, exist')  BY <1>3
    <3>. QED  BY <1>1, <2>1, <3>1
  <2>2. CASE q # r
    <3>1. req'[q] = req[q]  BY <1>1, <2>2
    <3>2. CASE d \in exist <=> d \in exist'  BY <1>3, <3>1, <3>2, BystandersOwe
    <3>3. CASE d \in exist' /\ d \notin exist
      <4>1. d = e  BY <3>3
      <4>2. ~(req[q].pc \in {"keep", "create"} /\ Head(req[q].left) = Kind[d])
        BY <1>3, <2>2, <3>3, <4>1 DEF Unaware
      <4>. QED  BY <1>3, <3>1, <3>3, <4>2, BystandersOwe
    <3>. QED  BY <3>2, <3>3
  <2>. QED  BY <2>1, <2>2
<1>. QED  BY <1>2, <1>3 DEF KnowledgeInv

LEMMA CreateKnows ==
  ASSUME BaseInv, KnowledgeInv, NEW r \in Requests, NEW e \in Entities, Create(r, e)
  PROVE  KnowledgeInv'
<1>. USE DEF BaseInv
<1>. DEFINE t == req[r].todo \ {e}
            g == [req[r].got EXCEPT ![e] = made[e] + 1]
            q == [req[r] EXCEPT !.todo = t, !.got = g]
<1>1. req[r] \in Request  BY DEF RequestsOK
<1>2. /\ t \subseteq Entities /\ g \in [Entities -> Nat] /\ g[e] > 0
      /\ \A d \in Entities : d # e => g[d] = req[r].got[d]
  BY <1>1 DEF Request, PaperlessOK
<1>3. Set(r, Settle(q)) /\ req[r].pc = "create" /\ e \in req[r].todo
  <2>1. [req[r] EXCEPT !.todo = t].got = req[r].got  BY <1>1 DEF Request
  <2>2. [req[r] EXCEPT !.todo = @ \ {e}, !.got[e] = made[e] + 1] = q
    BY <1>1, <2>1 DEF Request
  <2>. QED  BY <2>2 DEF Create
<1>. HIDE DEF g
<1>4. /\ q \in Request /\ q.todo = req[r].todo \ {e} /\ q.want = req[r].want
      /\ q.left = req[r].left /\ q.create = req[r].create /\ q.op = req[r].op
      /\ q.kept = req[r].kept /\ q.listed = req[r].listed /\ q.got = g
  BY <1>1, <1>2 DEF Request
<1>. HIDE DEF q, t
<1>5. /\ exist' = exist \cup {e} /\ blurred \subseteq blurred'
      /\ Known(e)' => Unaware(r, e) = {}
  BY DEF Create, Add, Known
<1>6. CacheKnows'
  <2>1. Drop(Forgotten(Kind[e]))  BY DEF Create
  <2>2. \A d \in exist' : d \in Entities /\ (Known(d)' /\ Kind[d] \notin Forgotten(Kind[e]) => d \in exist)
    BY <1>5 DEF Known, Forgotten, PaperlessOK
  <2>. QED  BY <1>5, <2>1, <2>2, DropKnows DEF KnowledgeInv
<1>7. /\ ShapeOK(Settle(q))
      /\ \A d \in Entities : Known(d) /\ (d = e => q.got[d] > 0) => Owed(Settle(q), d, exist')
  <2>. DEFINE es == exist'
  <2>1. exist \subseteq es /\ es \subseteq exist \cup {e}  BY <1>5
  <2>. HIDE DEF es
  <2>2. /\ ShapeOK(Settle(q))
        /\ \A d \in Entities : Known(d) /\ (d = e => q.got[d] > 0) => Owed(Settle(q), d, es)
    BY <1>2, <1>3, <1>4, <2>1, NextNameKnows
  <2>. QED  BY <2>2 DEF es
<1>8. \A d \in Entities : Known(d)' => Owed(Settle(q), d, exist')
  BY <1>2, <1>4, <1>5, <1>7 DEF Known
<1>. QED  BY <1>3, <1>5, <1>6, <1>7, <1>8, NewEntityKnows

LEMMA CreateFailsKnows ==
  ASSUME BaseInv, KnowledgeInv, NEW r \in Requests, NEW e \in Entities, CreateFails(r, e)
  PROVE  KnowledgeInv'
<1>. USE DEF BaseInv
<1>. DEFINE t == req[r].todo \ {e}
            q == [req[r] EXCEPT !.todo = t]
<1>1. req[r] \in Request  BY DEF RequestsOK
<1>2. t \subseteq Entities  BY <1>1 DEF Request
<1>3. Set(r, Settle(q)) /\ req[r].pc = "create" /\ e \in req[r].todo
  BY DEF CreateFails
<1>4. /\ q \in Request /\ q.todo = req[r].todo \ {e} /\ q.want = req[r].want
      /\ q.left = req[r].left /\ q.create = req[r].create /\ q.op = req[r].op
      /\ q.kept = req[r].kept /\ q.listed = req[r].listed /\ q.got = req[r].got
  BY <1>1, <1>2 DEF Request
<1>. HIDE DEF q, t
<1>5. /\ exist \subseteq exist' /\ exist' \subseteq exist \cup {e}
      /\ blurred \subseteq blurred' /\ UNCHANGED store
      /\ (e \in exist /\ exist' = exist) \/ e \in blurred'
  BY DEF CreateFails, Add, paperless
<1>6. ~Known(e)'
  <2>1. CASE e \in blurred'  BY <2>1 DEF Known
  <2>2. CASE e \in exist
    <3>1. Known(e) => Owed(req[r], e, exist)  BY DEF KnowledgeInv
    <3>2. ~Known(e)  BY <1>3, <2>2, <3>1 DEF Owed
    <3>. QED  BY <1>5, <3>2 DEF Known
  <2>. QED  BY <1>5, <2>1, <2>2
<1>7. CacheKnows'
  <2>1. \A d \in exist' : Known(d)' => d \in exist  BY <1>5, <1>6
  <2>. QED  BY <1>5, <2>1, CacheStays DEF KnowledgeInv
<1>8. /\ ShapeOK(Settle(q))
      /\ \A d \in Entities : Known(d) /\ d # e => Owed(Settle(q), d, exist')
  <2>. DEFINE es == exist'
  <2>1. exist \subseteq es /\ es \subseteq exist \cup {e}  BY <1>5
  <2>. HIDE DEF es
  <2>2. /\ ShapeOK(Settle(q))
        /\ \A d \in Entities : Known(d) /\ (d = e => q.got[d] > 0) => Owed(Settle(q), d, es)
    BY <1>3, <1>4, <2>1, NextNameKnows
  <2>. QED  BY <2>2 DEF es
<1>9. \A d \in Entities : Known(d)' => Owed(Settle(q), d, exist')
  BY <1>5, <1>6, <1>8 DEF Known
<1>. QED  BY <1>3, <1>5, <1>6, <1>7, <1>8, <1>9, NewEntityKnows

LEMMA PatchKnows ==
  ASSUME BaseInv, KnowledgeInv, NEW r \in Requests, Patch(r) \/ ReadFails(r) \/ PatchFails(r)
  PROVE  KnowledgeInv'
<1>. USE DEF BaseInv
<1>1. CASE Patch(r)  BY <1>1, EndKnows DEF Patch
<1>. DEFINE Fails == ReadFails(r) \/ PatchFails(r)
<1>2. CASE Fails /\ req[r].op = "auto"
  BY <1>2, EndKnows DEF ReadFails, PatchFails, Abandoned, paperless
<1>3. CASE Fails /\ req[r].op # "auto"
  <2>. DEFINE rec == [req[r] EXCEPT !.pc = "analysed", !.left = <<>>, !.got = None]
  <2>1. /\ req[r] \in Request /\ PhaseOK(req[r]) /\ ShapeOK(req[r])
        /\ req[r].pc \in {"look", "patch"}
    BY <1>3 DEF RequestsOK, KnowledgeInv, ReadFails, PatchFails
  <2>2. Set(r, rec) /\ UNCHANGED <<exist, store, blurred>>
    BY <1>3 DEF ReadFails, PatchFails, Abandoned, paperless
  <2>3. /\ rec.pc = "analysed" /\ rec.todo = req[r].todo /\ rec.kept = req[r].kept
        /\ rec.listed = req[r].listed
    BY <2>1 DEF Request
  <2>. HIDE DEF rec
  <2>4. rec.pc \notin Resolving /\ rec.todo = {} /\ \A e \in rec.kept : Kind[e] = "tags"
    BY <2>1, <2>3 DEF Resolving, PhaseOK, ShapeOK
  <2>. QED  BY <2>2, <2>3, <2>4, QuietMove
<1>. QED  BY <1>1, <1>2, <1>3

LEMMA OthersKnow ==
  ASSUME BaseInv, KnowledgeInv, Others
  PROVE  KnowledgeInv'
<1>. USE DEF BaseInv
<1>1. ASSUME NEW e \in Entities, OthersCreate(e) \/ OthersDelete(e)
      PROVE  KnowledgeInv'
  <2>1. /\ UNCHANGED <<req, store>> /\ blurred' = blurred \cup {e}
        /\ \A d \in Entities : d # e => (d \in exist <=> d \in exist')
    BY <1>1 DEF OthersCreate, OthersDelete, Add
  <2>2. exist' \subseteq Entities  BY <1>1 DEF OthersCreate, OthersDelete, Add, PaperlessOK
  <2>3. \A d \in Entities : Known(d)' => (d \in exist <=> d \in exist')
    BY <2>1 DEF Known
  <2>4. CacheKnows'  BY <2>1, <2>2, <2>3, CacheStays DEF KnowledgeInv
  <2>. QED  BY <2>1, <2>3, <2>4, RestKnows
<1>2. ASSUME NEW k \in Kinds, Expire(k)  PROVE KnowledgeInv'
  <2>1. Drop({k}) /\ UNCHANGED <<exist, req, blurred>>  BY <1>2 DEF Expire, paperless
  <2>2. CacheKnows'  BY <2>1, DropKnows DEF KnowledgeInv, PaperlessOK
  <2>. QED  BY <2>1, <2>2, RestKnows
<1>3. CASE (\E ks \in SUBSET Gated : ChangePolicy(ks)) \/ Rebuild \/ StartRun
  <2>1. UNCHANGED <<exist, req, store, blurred>>
    BY <1>3 DEF ChangePolicy, Rebuild, StartRun, paperless
  <2>2. CacheKnows'  BY <2>1, CacheStays DEF KnowledgeInv
  <2>. QED  BY <2>1, <2>2, RestKnows
<1>. QED  BY <1>1, <1>2, <1>3 DEF Others

LEMMA StepKnows ==
  ASSUME BaseInv, KnowledgeInv, [Next]_vars
  PROVE  KnowledgeInv'
<1>1. CASE UNCHANGED vars
  <2>1. UNCHANGED <<exist, req, store, blurred>>  BY <1>1 DEF vars, paperless
  <2>2. CacheKnows'  BY <2>1, CacheStays DEF KnowledgeInv
  <2>. QED  BY <2>1, <2>2, RestKnows DEF BaseInv
<1>2. ASSUME NEW r \in Requests, Approval(r)  PROVE KnowledgeInv'
  BY <1>2, ApproveKnows, UseCacheKnows, ReadPagesKnows, KeepMapKnows, CreateKnows,
     CreateFailsKnows, PatchKnows DEF Approval
<1>. QED  BY <1>1, <1>2, QueueKnows, OthersKnow DEF Next

\* A step that ends an approval is its PATCH.
LEMMA ApprovesByPatch ==
  ASSUME BaseInv, [Next]_vars, NEW r \in Requests, Approves(r)
  PROVE  Patch(r)
<1>. USE DEF BaseInv
<1>1. req \in [Requests -> Request] /\ req[r].pc = "patch" /\ req'[r].pc = "approved"
  BY DEF Approves, RequestsOK
<1>2. ASSUME NEW q \in Requests, NEW rec, Set(q, rec)
      PROVE  q = r /\ rec.pc = "approved"
  <2>1. q # r => req'[r] = req[r]  BY <1>1, <1>2 DEF Set
  <2>2. q = r => req'[r] = rec  BY <1>1, <1>2 DEF Set
  <2>. QED  BY <1>1, <2>1, <2>2
<1>3. req' # req  BY <1>1
<1>4. ASSUME NEW q \in Requests,
             \/ \E o \in {"auto", "human"} : Submit(q, o)
             \/ List(q) \/ AnalysisFails(q)
             \/ \E answer \in Suggestible : Complete(q, answer)
      PROVE  FALSE
  <2>1. req[q].pc \in {"idle", "list", "model"}
    BY <1>4 DEF Submit, List, AnalysisFails, Complete
  <2>2. \E rec : Set(q, rec)
    BY <1>4 DEF Submit, List, AnalysisFails, Complete, Answer
  <2>3. q = r  BY <1>2, <2>2
  <2>. QED  BY <1>1, <2>1, <2>3, Zenon
<1>5. ASSUME Begin  PROVE FALSE
  <2>1. queue \in Seq(Requests) /\ Len(queue) >= 1 /\ Head(queue) = queue[1]
        /\ Head(queue) \in Requests
    BY <1>5 DEF QueueOK, Begin
  <2>2. req[Head(queue)].pc = "queued"  BY <2>1 DEF QueueOK
  <2>3. \E rec : Set(Head(queue), rec)  BY <1>5 DEF Begin
  <2>. QED  BY <1>1, <1>2, <2>1, <2>2, <2>3
<1>6. ASSUME NEW q \in Requests,
             \/ \E edit \in Suggestible : Approve(q, edit)
             \/ UseCache(q) \/ ReadPages(q) \/ KeepMap(q)
             \/ \E e \in Entities : Create(q, e) \/ CreateFails(q, e)
      PROVE  FALSE
  <2>1. req[q].pc \in {"analysed", "look", "keep", "create"}
    BY <1>6 DEF Approve, UseCache, ReadPages, KeepMap, Create, CreateFails
  <2>2. \E rec : Set(q, rec)
    <3>1. CASE \E edit \in Suggestible : Approve(q, edit)  BY <3>1 DEF Approve
    <3>2. CASE UseCache(q) \/ KeepMap(q)  BY <3>2 DEF UseCache, KeepMap
    <3>3. CASE ReadPages(q)  BY <3>3 DEF ReadPages
    <3>4. CASE \E e \in Entities : Create(q, e) \/ CreateFails(q, e)
      BY <3>4 DEF Create, CreateFails
    <3>. QED  BY <1>6, <3>1, <3>2, <3>3, <3>4
  <2>3. q = r  BY <1>2, <2>2
  <2>. QED  BY <1>1, <2>1, <2>3, Zenon
<1>7. ASSUME NEW q \in Requests, ReadFails(q) \/ PatchFails(q)  PROVE FALSE
  <2>1. req[q] \in Request  BY <1>1
  <2>2. [Idle EXCEPT !.pc = "failed"].pc # "approved"
        /\ [req[q] EXCEPT !.pc = "analysed", !.left = <<>>, !.got = None].pc # "approved"
    BY <2>1 DEF Request, Idle
  <2>3. \E rec : Set(q, rec) /\ rec.pc # "approved"  BY <1>7, <2>2 DEF ReadFails, PatchFails, Abandoned
  <2>. QED  BY <1>2, <2>3
<1>8. Others => UNCHANGED req
  BY DEF Others, OthersCreate, OthersDelete, Expire, ChangePolicy, Rebuild, StartRun
<1>9. ASSUME NEW q \in Requests, Patch(q)  PROVE q = r
  BY <1>2, <1>9 DEF Patch
<1>. QED  BY <1>3, <1>4, <1>5, <1>6, <1>7, <1>8, <1>9 DEF Next, Worker, Approval, vars

\* What an approval owes it puts on the document.
LEMMA PatchPays ==
  ASSUME BaseInv, KnowledgeInv, NEW r \in Requests, Patch(r),
         NEW e \in Entities, Known(e), Wanted(req[r], e)
  PROVE  e \in carried'
<1>1. Owed(req[r], e, exist) /\ PhaseOK(req[r]) /\ req[r].pc = "patch"
  BY DEF KnowledgeInv, BaseInv, RequestsOK, Patch
<1>2. Ahead(req[r]) = {} /\ req[r].todo = {}  BY <1>1 DEF Ahead, PhaseOK
<1>3. req[r].got[e] > 0  BY <1>1, <1>2 DEF Owed, Resolving
<1>. QED  BY <1>3 DEF Patch

\* The application knows what it can be expected to know, through the cache of a minute,
\* pages that fail, creations that fail, and requests that overtake each other.
THEOREM KnowledgeInvariant == Spec => []KnowledgeInv
<1>. QED  BY InitKnows, StepKnows, PipelineInvariant, PTL DEF Spec

\* A tag that the model was shown and kept is on the document after the approval, however
\* old the map by which it is resolved (approval_queue.py:674-713), unless it is blurred: the
\* statement names the faults and overlaps it is not about.
THEOREM KeptTagsSurviveHolds == Spec => KeptTagsSurvive
<1>1. ASSUME BaseInv, KnowledgeInv, [Next]_vars, NEW r \in Requests, Approves(r),
             NEW e \in req[r].kept \ blurred
      PROVE  e \in carried'
  <2>1. e \in req[r].want /\ e \in Entities /\ Kind[e] = "tags"
    BY <1>1 DEF BaseInv, RequestsOK, RecordOK, Request, KnowledgeInv, ShapeOK
  <2>2. Known(e) /\ Wanted(req[r], e)  BY <1>1, <2>1 DEF Known, Wanted
  <2>. QED  BY <1>1, <2>1, <2>2, ApprovesByPatch, PatchPays
<1>2. BaseInv /\ KnowledgeInv /\ [Next]_vars =>
        [\A r \in Requests : Approves(r) => req[r].kept \ blurred \subseteq carried']_vars
  BY <1>1
<1>. QED  BY <1>2, PipelineInvariant, KnowledgeInvariant, PTL DEF Spec, KeptTagsSurvive

\* A name of a gated kind that a person approved, and that is not blurred, is on the
\* document after the PATCH: found, or created (approval_queue.py:692-713, main.py:1686).
THEOREM HumanApprovalIsCompleteHolds == Spec => HumanApprovalIsComplete
<1>1. ASSUME BaseInv, KnowledgeInv, [Next]_vars, NEW r \in Requests, Approves(r),
             req[r].op = "human", NEW e \in req[r].want \ blurred, Kind[e] \in Gated
      PROVE  e \in carried'
  <2>1. e \in Entities  BY <1>1 DEF BaseInv, RequestsOK, Request, Suggestible
  <2>2. Known(e) /\ Wanted(req[r], e)  BY <1>1, <2>1, Constants DEF Known, Wanted
  <2>. QED  BY <1>1, <2>1, <2>2, ApprovesByPatch, PatchPays
<1>2. BaseInv /\ KnowledgeInv /\ [Next]_vars =>
        [\A r \in Requests :
           Approves(r) /\ req[r].op = "human" =>
             {e \in req[r].want \ blurred : Kind[e] \in Gated} \subseteq carried']_vars
  BY <1>1
<1>. QED  BY <1>2, PipelineInvariant, KnowledgeInvariant, PTL
          DEF Spec, HumanApprovalIsComplete
=============================================================================
