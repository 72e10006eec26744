--------------------------- MODULE DiscoveryMemory --------------------------
(***************************************************************************)
(* Discovery sessions and long-term memory (backend/main.py:629-673,       *)
(* 2130-2672, backend/memory_store.py, docs/DECISIONS.md D-19).            *)
(*                                                                         *)
(* A question loads its session, awaits the model, and writes the session  *)
(* back from what it loaded.  A close and the expiry loop read a session,  *)
(* let the model extract facts from it, store each fact as a row and a     *)
(* vector, and then delete the session, whatever became of it meanwhile.   *)
(* Rows and vectors are in two stores, written one after the other.        *)
(*                                                                         *)
(* A question is its number in the order of loading.  A question that      *)
(* loads later is written after everything it loaded, so the turns of a    *)
(* session are in the order of their numbers and a set of them will do.    *)
(***************************************************************************)
EXTENDS Integers, FiniteSets

CONSTANTS
  Sessions,    \* session ids
  Requests,    \* requests: questions, closes, edits and deletions of memories
  Loop,        \* the session expiry loop
  MemoryIds,   \* ids of memories
  Texts,       \* texts of facts
  Near,        \* <<f, g>>: a search for text f scores a stored g above the threshold
  NoText,      \* no row, no vector
  NoSession,
  Window,      \* exchanges a session keeps verbatim
  Failures,    \* what may fail: a subset of {"model", "embed", "vector", "commit"}
  MaxQuestions, \* bound: questions in all
  MaxEvents    \* bound: edits, deletions, failed deletions and restarts

ASSUME MemoryAssumption ==
  /\ Loop \notin Requests
  /\ NoText \notin Texts /\ NoSession \notin Sessions
  /\ Near \subseteq Texts \X Texts
  /\ Window \in Nat \ {0} /\ MaxQuestions \in Nat /\ MaxEvents \in Nat
  /\ Failures \subseteq {"model", "embed", "vector", "commit"}

Tasks     == Requests \cup {Loop}
Questions == 1..MaxQuestions
Copies    == [turns : SUBSET Questions, summary : SUBSET Questions]
Blank     == [turns |-> {}, summary |-> {}]
Phases    == {"idle", "next", "asked", "compress", "answered", "update", "insert",
              "extract", "store", "revise", "add", "embed", "unembed", "delete"}

VARIABLES
  \* the table of sessions
  open,     \* sessions with a row
  old,      \* those not updated for 24 hours
  stored,   \* the turns and the questions the summary covers
  \* the two stores of memories
  memory,   \* text of the row of a memory
  vector,   \* text its vector was computed from
  used,     \* ids handed out
  \* tasks
  pc,
  sess,     \* session at hand
  copy,     \* what it read, then what it will write
  question, \* the question a request answers
  list,     \* sessions the loop has read and not got to
  snapshot, \* what it read of them
  facts,    \* facts still to be stored
  text,     \* the fact at hand
  targets,  \* the memories at hand
  \* bounds
  questions, events,
  \* history, read by no action
  told,     \* questions that were ever written to a session
  mined,    \* questions that a model has read for an extraction
  unmined,  \* questions whose extraction failed, or is switched off
  dropped,  \* questions compressed away by a summary that failed
  raced,    \* sessions written or deleted while another task held them
  unsynced, \* memories two tasks worked on at once, or one failed to finish
  unchecked \* memories whose text was made, or is about to be made, that of another
            \* one or alike without a search that could have found it: by an edit,
            \* a revision, or an addition while another task was writing it

sessions == <<open, old, stored>>
memories == <<memory, vector, used>>
talk     == <<sess, copy, question>>
expiry   == <<list, snapshot>>
storing  == <<facts, text, targets>>
bounds   == <<questions, events>>
fates    == <<told, mined, unmined, dropped, raced>>
doubts   == <<unsynced, unchecked>>
vars == <<sessions, memories, pc, talk, expiry, storing, bounds, fates, doubts>>

-----------------------------------------------------------------------------
Covers(c) == c.turns \cup c.summary

\* Task t works from a copy of session s.
Holds(t, s) == sess[t] = s \/ (t = Loop /\ s \in list)
IsHeld(t, s) == \E u \in Tasks \ {t} : Holds(u, s)

\* Task t is between the row and the vector of memory m.
Works(t, m) == m \in targets[t]
IsWorkedOn(t, m) == \E u \in Tasks \ {t} : Works(u, m)

Go(t, p) == pc' = [pc EXCEPT ![t] = p]

\* Task t is over, or the loop goes on to its next session.
Done(t) ==
  /\ Go(t, IF t = Loop /\ list # {} THEN "next" ELSE "idle")
  /\ sess' = [sess EXCEPT ![t] = NoSession]
  /\ copy' = [copy EXCEPT ![t] = Blank]
  /\ question' = [question EXCEPT ![t] = 0]

\* Task t is through with a fact: the next one, the session, or the end.
DoneFact(t) ==
  /\ Go(t, IF sess[t] = NoSession THEN "idle" ELSE IF facts[t] # {} THEN "store" ELSE "delete")
  /\ targets' = [targets EXCEPT ![t] = {}]
  /\ text' = [text EXCEPT ![t] = NoText]

Init ==
  /\ open = {} /\ old = {} /\ stored = [s \in Sessions |-> Blank]
  /\ memory = [m \in MemoryIds |-> NoText] /\ vector = memory /\ used = {}
  /\ pc = [t \in Tasks |-> "idle"]
  /\ sess = [t \in Tasks |-> NoSession]
  /\ copy = [t \in Tasks |-> Blank]
  /\ question = [t \in Tasks |-> 0]
  /\ list = {} /\ snapshot = stored
  /\ facts = [t \in Tasks |-> {}]
  /\ text = [t \in Tasks |-> NoText]
  /\ targets = [t \in Tasks |-> {}]
  /\ questions = 0 /\ events = 0
  /\ told = [s \in Sessions |-> {}]
  /\ mined = {} /\ unmined = {} /\ dropped = {} /\ raced = {} /\ unsynced = {} /\ unchecked = {}

-----------------------------------------------------------------------------
(* POST /api/discover.                                                     *)

\* The session is loaded; an unknown id, or none, is a fresh session.
Ask(r, s) ==
  /\ pc[r] = "idle" /\ questions < MaxQuestions
  /\ questions' = questions + 1
  /\ question' = [question EXCEPT ![r] = questions + 1]
  /\ sess' = [sess EXCEPT ![r] = s]
  /\ copy' = [copy EXCEPT ![r] = stored[s]]
  /\ Go(r, "asked")
  /\ UNCHANGED <<sessions, memories, expiry, storing, events, fates, doubts>>

\* The turns that stay verbatim: the Window newest.
Newest(T) == {q \in T : Cardinality({p \in T : p > q}) < Window}

\* The model answers; more turns than the window holds must be summarised.
Answer(r) ==
  /\ pc[r] = "asked"
  /\ LET T == copy[r].turns \cup {question[r]} IN
       /\ copy' = [copy EXCEPT ![r].turns = T]
       /\ Go(r, IF Newest(T) = T THEN "answered" ELSE "compress")
  /\ UNCHANGED <<sessions, memories, sess, question, expiry, storing, bounds, fates, doubts>>

\* No chunk is found, the search or the model fails or times out.
NoAnswer(r) ==
  /\ pc[r] = "asked"
  /\ Done(r)
  /\ UNCHANGED <<sessions, memories, expiry, storing, bounds, fates, doubts>>

\* Mutant of Compress: the turns that stay are summarised, not those that go.
CompressKept(r) ==
  /\ pc[r] = "compress"
  /\ LET kept == Newest(copy[r].turns) IN
       copy' = [copy EXCEPT ![r] = [turns |-> kept, summary |-> @.summary \cup kept]]
  /\ Go(r, "answered")
  /\ UNCHANGED <<sessions, memories, sess, question, expiry, storing, bounds, fates, doubts>>

\* The oldest turns and the old summary are summarised; if the model fails, the
\* old summary stays and the oldest turns are gone all the same.
Compress(r) ==
  /\ pc[r] = "compress"
  /\ LET T == copy[r].turns
         cut == T \ Newest(T)
     IN \/ /\ copy' = [copy EXCEPT ![r] =
                         [turns |-> Newest(T), summary |-> @.summary \cup cut]]
           /\ UNCHANGED dropped
        \/ /\ "model" \in Failures
           /\ copy' = [copy EXCEPT ![r].turns = Newest(T)]
           /\ dropped' = dropped \cup cut
  /\ Go(r, "answered")
  /\ UNCHANGED <<sessions, memories, sess, question, expiry, storing, bounds, told,
                 mined, unmined, raced, doubts>>

\* Is there a row to update?
FindSession(r) ==
  /\ pc[r] = "answered"
  /\ Go(r, IF sess[r] \in open THEN "update" ELSE "insert")
  /\ UNCHANGED <<sessions, memories, talk, expiry, storing, bounds, fates, doubts>>

\* The row is written from the copy, unless it is gone (no row is updated), has
\* appeared since (the insert fails), or the commit fails: errors are only logged.
WriteSession(r) ==
  /\ pc[r] \in {"update", "insert"}
  /\ LET s == sess[r]
         fits == pc[r] = "update" <=> s \in open
     IN \/ /\ fits
           /\ open' = open \cup {s} /\ old' = old \ {s}
           /\ stored' = [stored EXCEPT ![s] = copy[r]]
           /\ told' = [told EXCEPT ![s] = @ \cup {question[r]}]
           /\ raced' = IF IsHeld(r, s) THEN raced \cup {s} ELSE raced
        \/ /\ ~fits \/ "commit" \in Failures
           /\ UNCHANGED <<sessions, told, raced>>
  /\ Done(r)
  /\ UNCHANGED <<memories, expiry, storing, bounds, mined, unmined, dropped, doubts>>

-----------------------------------------------------------------------------
(* Closing and expiry of sessions.                                         *)

\* DELETE /api/discover/sessions/{id}: the session is read if it is there.
Close(r, s) ==
  /\ pc[r] = "idle"
  /\ sess' = [sess EXCEPT ![r] = s]
  /\ copy' = [copy EXCEPT ![r] = stored[s]]
  /\ Go(r, IF s \in open THEN "extract" ELSE "delete")
  /\ UNCHANGED <<sessions, memories, question, expiry, storing, bounds, fates, doubts>>

\* The expiry loop reads every session older than 24 hours, ...
StartExpiry ==
  /\ pc[Loop] = "idle" /\ old # {}
  /\ list' = old
  /\ snapshot' = [s \in Sessions |-> IF s \in old THEN stored[s] ELSE Blank]
  /\ Go(Loop, "next")
  /\ UNCHANGED <<sessions, memories, talk, storing, bounds, fates, doubts>>

\* ... and works through them in turn, from what it read.
NextExpired(s) ==
  /\ pc[Loop] = "next" /\ s \in list
  /\ list' = list \ {s}
  /\ sess' = [sess EXCEPT ![Loop] = s]
  /\ copy' = [copy EXCEPT ![Loop] = snapshot[s]]
  /\ snapshot' = [snapshot EXCEPT ![s] = Blank]
  /\ Go(Loop, "extract")
  /\ UNCHANGED <<sessions, memories, question, storing, bounds, fates, doubts>>

\* Mutant of Extract: an extraction without facts leaves the session alone.
ExtractNothingReturns(t, fs) ==
  /\ pc[t] = "extract"
  /\ mined' = mined \cup Covers(copy[t])
  /\ facts' = [facts EXCEPT ![t] = fs]
  /\ IF fs = {} THEN Done(t) ELSE Go(t, "store") /\ UNCHANGED talk
  /\ UNCHANGED <<sessions, memories, expiry, text, targets, bounds, told, unmined,
                 dropped, raced, doubts>>

\* _extract_memories_from_session: the model is given the summary and the turns
\* (the first 600 characters of each) and names facts, or that there are none.
Extract(t, fs) ==
  /\ pc[t] = "extract"
  /\ mined' = mined \cup Covers(copy[t])
  /\ facts' = [facts EXCEPT ![t] = fs]
  /\ Go(t, IF fs = {} THEN "delete" ELSE "store")
  /\ UNCHANGED <<sessions, memories, talk, expiry, text, targets, bounds, told, unmined,
                 dropped, raced, doubts>>

\* Memory is off, there is no provider or no store, or the model fails: the
\* session is deleted all the same.
ExtractFails(t) ==
  /\ "model" \in Failures /\ pc[t] = "extract"
  /\ unmined' = unmined \cup Covers(copy[t])
  /\ Go(t, "delete")
  /\ UNCHANGED <<sessions, memories, talk, expiry, storing, bounds, told, mined,
                 dropped, raced, doubts>>

\* The session is deleted, whatever it contains by now.
DeleteSession(t) ==
  /\ pc[t] = "delete"
  /\ LET s == sess[t] IN
       /\ open' = open \ {s} /\ old' = old \ {s}
       /\ stored' = [stored EXCEPT ![s] = Blank]
       /\ raced' = IF s \in open /\ IsHeld(t, s) THEN raced \cup {s} ELSE raced
  /\ Done(t)
  /\ UNCHANGED <<memories, expiry, storing, bounds, told, mined, unmined, dropped, doubts>>

\* The deletion fails: a close is an error, the loop gives up until the next hour.
DeleteSessionFails(t) ==
  /\ pc[t] = "delete" /\ "commit" \in Failures
  /\ events < MaxEvents /\ events' = events + 1
  /\ Go(t, "idle")
  /\ sess' = [sess EXCEPT ![t] = NoSession]
  /\ copy' = [copy EXCEPT ![t] = Blank]
  /\ list' = IF t = Loop THEN {} ELSE list
  /\ snapshot' = IF t = Loop THEN [s \in Sessions |-> Blank] ELSE snapshot
  /\ UNCHANGED <<sessions, memories, question, storing, questions, fates, doubts>>

-----------------------------------------------------------------------------
(* Memories.                                                               *)

\* The memories that a search for the text f scores above the threshold.  Neither
\* does nearness carry over from text to text, nor need it hold in both
\* directions: a query is embedded in another way than what is stored.
Similar(f) == {m \in MemoryIds : <<f, vector[m]>> \in Near}

\* A search for either text would find the other one.
Alike(f, g) == <<f, g>> \in Near /\ <<g, f>> \in Near

\* Task t begins to work on the memories ms.
Target(t, ms) ==
  /\ targets' = [targets EXCEPT ![t] = ms]
  /\ unsynced' = unsynced \cup {m \in ms : IsWorkedOn(t, m)}

\* The other tasks whose searches are over and whose vectors, of a text like f,
\* are not written.
Adding(t, f) ==
  {u \in Tasks \ {t} : pc[u] \in {"add", "embed"} /\ Alike(text[u], f)}

\* Mutant of FindSimilar: a fact is always taken for a new one.
FindSimilarNever(t, f) ==
  /\ pc[t] = "store" /\ f \in facts[t]
  /\ facts' = [facts EXCEPT ![t] = @ \ {f}]
  /\ text' = [text EXCEPT ![t] = f]
  /\ Go(t, "add")
  /\ UNCHANGED <<sessions, memories, talk, expiry, targets, bounds, fates, doubts>>

\* find_similar: a fact close to a stored one revises it.
FindSimilar(t, f) ==
  /\ pc[t] = "store" /\ f \in facts[t]
  /\ facts' = [facts EXCEPT ![t] = @ \ {f}]
  /\ text' = [text EXCEPT ![t] = f]
  /\ \/ \E m \in Similar(f) : Target(t, {m}) /\ Go(t, "revise") /\ UNCHANGED unchecked
     \/ /\ Similar(f) = {} /\ Go(t, "add")
        /\ unchecked' = unchecked \cup UNION {targets[u] : u \in Adding(t, f)}
        /\ UNCHANGED <<targets, unsynced>>
  /\ UNCHANGED <<sessions, memories, talk, expiry, bounds, fates>>

\* The fact cannot be embedded: it is skipped.
FindSimilarFails(t, f) ==
  /\ "embed" \in Failures /\ pc[t] = "store" /\ f \in facts[t]
  /\ facts' = [facts EXCEPT ![t] = @ \ {f}]
  /\ Go(t, IF facts'[t] # {} THEN "store" ELSE "delete")
  /\ UNCHANGED <<sessions, memories, talk, expiry, text, targets, bounds, fates, doubts>>

\* The row of a new memory.
AddMemory(t, m) ==
  /\ pc[t] = "add" /\ m \notin used
  /\ used' = used \cup {m}
  /\ memory' = [memory EXCEPT ![m] = text[t]]
  /\ Target(t, {m})
  /\ unchecked' = IF Adding(t, text[t]) # {} THEN unchecked \cup {m} ELSE unchecked
  /\ Go(t, "embed")
  /\ UNCHANGED <<sessions, vector, talk, expiry, facts, text, bounds, fates>>

\* PUT /api/memories/{id}: there is a row.
EditMemory(r, m, f) ==
  /\ pc[r] = "idle" /\ memory[m] # NoText
  /\ events < MaxEvents /\ events' = events + 1
  /\ text' = [text EXCEPT ![r] = f]
  /\ Target(r, {m})
  /\ Go(r, "revise")
  /\ UNCHANGED <<sessions, memories, talk, expiry, facts, questions, fates, unchecked>>

\* An edit or an extraction updates the row, if it is still there; nobody looks
\* whether another memory is like the new text.
ReviseMemory(t) ==
  /\ pc[t] = "revise"
  /\ memory' = [m \in MemoryIds |-> IF m \in targets[t] /\ memory[m] # NoText
                                    THEN text[t] ELSE memory[m]]
  /\ unchecked' = unchecked \cup
       {m \in targets[t] : \/ Adding(t, text[t]) # {}
                           \/ \E n \in MemoryIds \ {m} : Alike(memory'[n], text[t])}
  /\ Go(t, "embed")
  /\ UNCHANGED <<sessions, vector, used, talk, expiry, storing, bounds, fates, unsynced>>

\* A commit fails (or the ids of this bounded model are used up): a fact is
\* skipped, an edit is an error.
StoreFails(t) ==
  /\ \/ pc[t] = "add" /\ ("commit" \in Failures \/ used = MemoryIds)
     \/ pc[t] = "revise" /\ "commit" \in Failures
  /\ DoneFact(t)
  /\ UNCHANGED <<sessions, memories, talk, expiry, facts, bounds, fates, doubts>>

\* memory_store.upsert: the text is embedded and the vector written, ...
Upsert(t) ==
  /\ pc[t] = "embed"
  /\ vector' = [m \in MemoryIds |-> IF m \in targets[t] THEN text[t] ELSE vector[m]]
  /\ DoneFact(t)
  /\ UNCHANGED <<sessions, memory, used, talk, expiry, facts, bounds, fates, doubts>>

\* ... or it fails, which is only logged.
UpsertFails(t) ==
  /\ "embed" \in Failures /\ pc[t] = "embed"
  /\ unsynced' = unsynced \cup targets[t]
  /\ DoneFact(t)
  /\ UNCHANGED <<sessions, memories, talk, expiry, facts, bounds, fates, unchecked>>

\* DELETE /api/memories and /api/memories/{id}: the rows, ...
DeleteMemories(r, ms) ==
  /\ pc[r] = "idle" /\ ms # {}
  /\ ms = MemoryIds \/ (ms \subseteq used /\ Cardinality(ms) = 1)
  /\ events < MaxEvents /\ events' = events + 1
  /\ memory' = [m \in MemoryIds |-> IF m \in ms THEN NoText ELSE memory[m]]
  /\ Target(r, ms)
  /\ Go(r, "unembed")
  /\ UNCHANGED <<sessions, vector, used, talk, expiry, facts, text, questions, fates, unchecked>>

\* Mutant of DeleteVectors: a deleted memory keeps its vector.
DeleteVectorsForgotten(r) ==
  /\ pc[r] = "unembed"
  /\ DoneFact(r)
  /\ UNCHANGED <<sessions, memories, talk, expiry, facts, bounds, fates, doubts>>

\* ... then the vectors; a failure is only logged.
DeleteVectors(r) ==
  /\ pc[r] = "unembed"
  /\ \/ /\ vector' = [m \in MemoryIds |-> IF m \in targets[r] THEN NoText ELSE vector[m]]
        /\ UNCHANGED unsynced
     \/ /\ "vector" \in Failures
        /\ unsynced' = unsynced \cup targets[r]
        /\ UNCHANGED vector
  /\ DoneFact(r)
  /\ UNCHANGED <<sessions, memory, used, talk, expiry, facts, bounds, fates, unchecked>>

-----------------------------------------------------------------------------
\* A session is 24 hours old.
Age(s) ==
  /\ s \in open \ old /\ old' = old \cup {s}
  /\ UNCHANGED <<open, stored, memories, pc, talk, expiry, storing, bounds, fates, doubts>>

\* The application stops and starts: every task is lost, the loop starts anew.
Restart ==
  /\ events < MaxEvents /\ events' = events + 1
  /\ pc' = [t \in Tasks |-> "idle"]
  /\ sess' = [t \in Tasks |-> NoSession]
  /\ copy' = [t \in Tasks |-> Blank]
  /\ question' = [t \in Tasks |-> 0]
  /\ list' = {} /\ snapshot' = [s \in Sessions |-> Blank]
  /\ facts' = [t \in Tasks |-> {}]
  /\ text' = [t \in Tasks |-> NoText]
  /\ targets' = [t \in Tasks |-> {}]
  /\ unsynced' = unsynced \cup UNION {targets[t] : t \in Tasks}
  /\ UNCHANGED <<sessions, memories, questions, fates, unchecked>>

\* The steps a task takes by itself.
Step(t) ==
  \/ Answer(t) \/ NoAnswer(t) \/ Compress(t) \/ FindSession(t) \/ WriteSession(t)
  \/ \E fs \in SUBSET Texts : Extract(t, fs)
  \/ ExtractFails(t)
  \/ \E f \in Texts : FindSimilar(t, f) \/ FindSimilarFails(t, f)
  \/ \E m \in MemoryIds : AddMemory(t, m)
  \/ ReviseMemory(t) \/ StoreFails(t) \/ Upsert(t) \/ UpsertFails(t)
  \/ DeleteVectors(t) \/ DeleteSession(t) \/ DeleteSessionFails(t)

Expire == StartExpiry \/ \E s \in Sessions : NextExpired(s)

Next ==
  \/ \E r \in Requests :
       \/ \E s \in Sessions : Ask(r, s) \/ Close(r, s)
       \/ \E m \in MemoryIds, f \in Texts : EditMemory(r, m, f)
       \/ \E ms \in SUBSET MemoryIds : DeleteMemories(r, ms)
  \/ \E t \in Tasks : Step(t)
  \/ Expire
  \/ \E s \in Sessions : Age(s)
  \/ Restart

Spec == Init /\ [][Next]_vars

\* The hourly timer of the expiry loop fires again and again, and the event loop runs
\* the loop, whose calls to a model or a store return or fail.  The last is an
\* assumption about the model service: the call of an extraction (main.py:2181) has no
\* timeout of its own.  Nothing is assumed of requests.
FairSpec == Spec /\ WF_vars(Expire) /\ WF_vars(Step(Loop))

-----------------------------------------------------------------------------
(* Properties.                                                             *)

SessionsOK ==
  /\ old \subseteq open /\ open \subseteq Sessions
  /\ stored \in [Sessions -> Copies]
  /\ \A s \in Sessions \ open : stored[s] = Blank

MemoriesOK ==
  /\ memory \in [MemoryIds -> Texts \cup {NoText}]
  /\ vector \in [MemoryIds -> Texts \cup {NoText}]
  /\ used \subseteq MemoryIds
  /\ \A m \in MemoryIds \ used : memory[m] = NoText

TasksOK ==
  /\ pc \in [Tasks -> Phases]
  /\ sess \in [Tasks -> Sessions \cup {NoSession}]
  /\ copy \in [Tasks -> Copies]
  /\ question \in [Tasks -> 0..questions]
  /\ list \subseteq Sessions /\ snapshot \in [Sessions -> Copies]
  /\ facts \in [Tasks -> SUBSET Texts]
  /\ text \in [Tasks -> Texts \cup {NoText}]
  /\ targets \in [Tasks -> SUBSET MemoryIds]

BoundsOK == questions \in 0..MaxQuestions /\ events \in 0..MaxEvents

HistoryOK ==
  /\ told \in [Sessions -> SUBSET Questions]
  /\ mined \subseteq Questions /\ unmined \subseteq Questions /\ dropped \subseteq Questions
  /\ raced \subseteq Sessions
  /\ unsynced \subseteq MemoryIds /\ unchecked \subseteq MemoryIds

TypeOK == SessionsOK /\ MemoriesOK /\ TasksOK /\ BoundsOK /\ HistoryOK

\* docs/DECISIONS.md D-19: extraction is attempted before a session is deleted.  A
\* question that was written to its session is in its turns or its summary until a
\* model has been given it for an extraction; or an extraction that had it failed
\* or is switched off, the summary that should have taken it up failed, or another
\* task held the session when it was written or deleted (main.py:2619-2665, 655-669).
NothingForgotten ==
  \A s \in Sessions \ raced :
    told[s] \subseteq Covers(stored[s]) \cup mined \cup unmined \cup dropped

\* The two stores of memories agree once nobody is at work on a memory: there is
\* no row without its vector, no vector without its row, and none of an older
\* text (main.py:2197-2222, 2298-2352); excepted are memories two tasks worked on
\* at once, and those a task could not finish.
StoresAgree ==
  \A m \in MemoryIds \ unsynced :
    (\A t \in Tasks : ~Works(t, m)) => memory[m] = vector[m]

\* The inductive invariants behind these properties.  As long as a session is not
\* raced, what a task has read of it still covers the row.
Asking == {"asked", "compress", "answered", "update", "insert"}
Mining == {"store", "add", "revise", "embed", "delete"}

CopyCovers(t, s) ==
  /\ pc[t] \in Asking => Covers(stored[s]) \subseteq Covers(copy[t]) \cup dropped
  /\ pc[t] \in Asking \ {"asked"} => question[t] \in Covers(copy[t]) \cup dropped
  /\ pc[t] = "extract" => Covers(stored[s]) \subseteq Covers(copy[t])
  /\ pc[t] \in Mining => Covers(stored[s]) \subseteq mined \cup unmined

PhaseOK(t) ==
  /\ pc[t] \in {"idle", "next", "unembed"} => sess[t] = NoSession
  /\ pc[t] \in Asking => t # Loop /\ sess[t] \in Sessions /\ question[t] \in Questions
  /\ pc[t] \in {"extract", "store", "delete"} => sess[t] \in Sessions

SessionInv ==
  /\ \A t \in Tasks :
       PhaseOK(t) /\ \A s \in Sessions \ raced : sess[t] = s => CopyCovers(t, s)
  /\ \A s \in list \ raced : Covers(stored[s]) \subseteq Covers(snapshot[s])

\* Of a memory that is not unsynced, one task at most is at work on it, and knows
\* what its row is.
WorkOK(t, m) ==
  /\ pc[t] \in {"revise", "embed", "unembed"}
  /\ pc[t] = "revise" => memory[m] = vector[m] /\ memory[m] # NoText
  /\ pc[t] = "embed" => memory[m] = text[t]
  /\ pc[t] = "unembed" => memory[m] = NoText

MemoryInv ==
  \A m \in MemoryIds \ unsynced :
    /\ \A t \in Tasks : Works(t, m) => WorkOK(t, m)
    /\ \A t, u \in Tasks : Works(t, m) /\ Works(u, m) => t = u

\* A fact is added only if no memory is near it (find_similar, memory_store.py:65-71,
\* main.py:2197-2222): of two memories with texts like each other, one is out of step
\* with its vector, or got its text when nobody could compare them: by an edit or
\* revision, which looks for no third memory, or while another task was writing.
Doubtful == unsynced \cup unchecked

NoTwins ==
  \A m, n \in MemoryIds \ Doubtful : m # n => ~Alike(memory[m], memory[n])

\* What a task is about to add is like no memory.
AddInv ==
  \A t \in Tasks, m \in MemoryIds \ Doubtful :
    pc[t] = "add" => ~Alike(memory[m], text[t])

DiscoveryInv ==
  /\ TypeOK /\ SessionInv /\ MemoryInv /\ AddInv
  /\ NothingForgotten /\ StoresAgree /\ NoTwins

\* An expired session goes away or is used again, though extractions, searches and
\* stores of facts fail, its deletion fails at times and the application restarts;
\* that is, if every call to the model returns (_session_expiry_loop, main.py:629-673).
ExpiredIsRemoved == \A s \in Sessions : s \in old ~> s \notin old
=============================================================================
