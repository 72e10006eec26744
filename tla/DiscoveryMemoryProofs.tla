----------------------- MODULE DiscoveryMemoryProofs -----------------------
(***************************************************************************)
(* Proofs about DiscoveryMemory, for any sessions, requests, memories and  *)
(* texts, any window, any failures and any number of questions and events. *)
(***************************************************************************)
EXTENDS DiscoveryMemory, TLAPS

\* The invariant has three parts: the types, what concerns sessions, and what
\* concerns memories.
SessionPart == SessionInv /\ NothingForgotten
MemoryPart  == MemoryInv /\ AddInv /\ StoresAgree /\ NoTwins

LEMMA InvParts ==
  /\ DiscoveryInv <=> TypeOK /\ SessionPart /\ MemoryPart
  /\ DiscoveryInv' <=> TypeOK' /\ SessionPart' /\ MemoryPart'
  BY DEF DiscoveryInv, SessionPart, MemoryPart

LEMMA Constants ==
  /\ Loop \in Tasks /\ Requests \subseteq Tasks /\ Loop \notin Requests
  /\ NoText \notin Texts /\ NoSession \notin Sessions
  BY MemoryAssumption DEF Tasks

\* A memory without a row is like nothing.
LEMMA NoTextAlone == \A f : ~Alike(NoText, f) /\ ~Alike(f, NoText)
  BY MemoryAssumption DEF Alike

LEMMA InitInv == Init => DiscoveryInv
<1>. SUFFICES ASSUME Init PROVE TypeOK /\ SessionPart /\ MemoryPart
  BY InvParts
<1>1. TypeOK
  <2>1. SessionsOK  BY DEF Init, SessionsOK, Copies, Blank
  <2>2. MemoriesOK  BY DEF Init, MemoriesOK
  <2>3. TasksOK  BY DEF Init, TasksOK, Copies, Blank, Phases
  <2>4. BoundsOK /\ HistoryOK  BY MemoryAssumption DEF Init, BoundsOK, HistoryOK
  <2>. QED  BY <2>1, <2>2, <2>3, <2>4 DEF TypeOK
<1>2. SessionPart
  <2>1. \A t \in Tasks : pc[t] = "idle" /\ sess[t] = NoSession  BY DEF Init
  <2>2. list = {} /\ \A s \in Sessions : told[s] = {}  BY DEF Init
  <2>3. SessionInv  BY <2>1, <2>2, Constants DEF SessionInv, PhaseOK, Asking
  <2>. QED  BY <2>2, <2>3 DEF SessionPart, NothingForgotten
<1>3. MemoryPart
  BY NoTextAlone DEF Init, MemoryPart, MemoryInv, AddInv, StoresAgree, NoTwins, Works, WorkOK
<1>. QED  BY <1>1, <1>2, <1>3

-----------------------------------------------------------------------------
(* Sessions.                                                               *)

\* What the invariant says of one task.
OwnOK(t) == PhaseOK(t) /\ \A s \in Sessions \ raced : sess[t] = s => CopyCovers(t, s)

ListOK == \A s \in list \ raced : Covers(stored[s]) \subseteq Covers(snapshot[s])

LEMMA SessionParts ==
  /\ SessionPart <=> (\A t \in Tasks : OwnOK(t)) /\ ListOK /\ NothingForgotten
  /\ SessionPart' <=> (\A t \in Tasks : OwnOK(t)') /\ ListOK' /\ NothingForgotten'
  BY DEF SessionPart, SessionInv, OwnOK, ListOK

\* A step of task t keeps what is said of the others if it changes no session that
\* one of them holds, but those that are raced from then on.
LEMMA OthersKeep ==
  ASSUME SessionPart, NEW t \in Tasks,
         \A u \in Tasks \ {t} : /\ pc'[u] = pc[u] /\ sess'[u] = sess[u]
                                /\ copy'[u] = copy[u] /\ question'[u] = question[u],
         raced \subseteq raced', mined \subseteq mined', unmined \subseteq unmined',
         dropped \subseteq dropped',
         \A u \in Tasks \ {t}, s \in Sessions \ raced' : sess[u] = s => stored'[s] = stored[s],
         OwnOK(t)', ListOK', NothingForgotten'
  PROVE  SessionPart'
<1>1. ASSUME NEW u \in Tasks, u # t PROVE OwnOK(u)'
  <2>1. OwnOK(u)  BY SessionParts
  <2>2. PhaseOK(u)'  BY <1>1, <2>1 DEF OwnOK, PhaseOK
  <2>3. ASSUME NEW s \in Sessions \ raced', sess'[u] = s PROVE CopyCovers(u, s)'
    <3>1. CopyCovers(u, s) /\ stored'[s] = stored[s]  BY <1>1, <2>1, <2>3 DEF OwnOK
    <3>. QED  BY <1>1, <3>1 DEF CopyCovers
  <2>. QED  BY <2>2, <2>3 DEF OwnOK
<1>. QED  BY <1>1, SessionParts

\* Most steps change nothing in the tables and lists of sessions.
LEMMA QuietStep ==
  ASSUME SessionPart, NEW t \in Tasks,
         \A u \in Tasks \ {t} : /\ pc'[u] = pc[u] /\ sess'[u] = sess[u]
                                /\ copy'[u] = copy[u] /\ question'[u] = question[u],
         UNCHANGED <<stored, list, snapshot, told, raced>>,
         mined \subseteq mined', unmined \subseteq unmined', dropped \subseteq dropped',
         OwnOK(t)'
  PROVE  SessionPart'
<1>1. ListOK'  BY SessionParts DEF ListOK
<1>2. NothingForgotten'  BY SessionParts DEF NothingForgotten
<1>. QED  BY <1>1, <1>2, OthersKeep

\* A step of a task that touches no session at all.
LEMMA SessionsStay ==
  ASSUME SessionPart, pc \in [Tasks -> Phases], NEW t \in Tasks, NEW p, Go(t, p),
         UNCHANGED <<sessions, talk, expiry, fates>>,
         \/ pc[t] \in Mining /\ p \in Mining /\ sess[t] \in Sessions
         \/ pc[t] \in Mining /\ p \in Mining \ {"store", "delete"}
         \/ sess[t] = NoSession /\ p \in {"idle", "revise", "embed", "unembed"}
  PROVE  SessionPart'
<1>1. pc'[t] = p /\ \A u \in Tasks \ {t} : pc'[u] = pc[u]  BY DEF Go
<1>2. OwnOK(t)  BY SessionParts
<1>3. OwnOK(t)'
  <2>1. PhaseOK(t)'
    BY <1>1, <1>2 DEF OwnOK, PhaseOK, Asking, Mining, talk
  <2>2. ASSUME NEW s \in Sessions \ raced, sess[t] = s PROVE CopyCovers(t, s)'
    BY <1>1, <1>2, <2>2, Constants
       DEF OwnOK, CopyCovers, Asking, Mining, talk, sessions, fates
  <2>. QED  BY <2>1, <2>2 DEF OwnOK, talk, fates
<1>. QED  BY <1>1, <1>3, QuietStep DEF sessions, talk, expiry, fates

OthersStay(t) ==
  \A u \in Tasks \ {t} : /\ pc'[u] = pc[u] /\ sess'[u] = sess[u]
                         /\ copy'[u] = copy[u] /\ question'[u] = question[u]

LEMMA DoneOK ==
  ASSUME TasksOK, NEW t \in Tasks, Done(t)
  PROVE  OthersStay(t) /\ OwnOK(t)'
<1>1. pc'[t] \in {"next", "idle"} /\ sess'[t] = NoSession  BY DEF Done, Go, TasksOK
<1>2. OthersStay(t)  BY DEF Done, Go, TasksOK, OthersStay
<1>3. OwnOK(t)'  BY <1>1, Constants DEF OwnOK, PhaseOK, Asking
<1>. QED  BY <1>2, <1>3

LEMMA AskSession ==
  ASSUME SessionPart, TasksOK, BoundsOK, NEW r \in Requests, NEW s \in Sessions, Ask(r, s)
  PROVE  SessionPart'
<1>1. r \in Tasks /\ r # Loop  BY Constants
<1>2. /\ pc'[r] = "asked" /\ sess'[r] = s /\ copy'[r] = stored[s]
      /\ question'[r] = questions + 1 /\ OthersStay(r)
  BY <1>1 DEF Ask, Go, TasksOK, OthersStay
<1>3. question'[r] \in Questions
  BY <1>2, MemoryAssumption DEF Ask, BoundsOK, Questions
<1>4. OwnOK(r)'
  BY <1>1, <1>2, <1>3 DEF OwnOK, PhaseOK, CopyCovers, Asking, Mining, Ask, sessions
<1>. QED  BY <1>1, <1>2, <1>4, QuietStep DEF Ask, sessions, expiry, fates, OthersStay

LEMMA AnswerSession ==
  ASSUME SessionPart, TasksOK, NEW t \in Tasks, Answer(t)
  PROVE  SessionPart'
<1>. DEFINE T == copy[t].turns \cup {question[t]}
<1>1. /\ pc[t] = "asked" /\ pc'[t] \in {"answered", "compress"} /\ OthersStay(t)
      /\ sess'[t] = sess[t] /\ question'[t] = question[t]
      /\ copy'[t].turns = T /\ copy'[t].summary = copy[t].summary
      /\ UNCHANGED <<sessions, fates>>
  BY DEF Answer, Go, TasksOK, OthersStay, Copies
<1>2. OwnOK(t)  BY SessionParts
<1>3. Covers(copy'[t]) = Covers(copy[t]) \cup {question[t]}  BY <1>1 DEF Covers
<1>4. PhaseOK(t)'  BY <1>1, <1>2 DEF OwnOK, PhaseOK, Asking
<1>5. ASSUME NEW s \in Sessions \ raced, sess[t] = s PROVE CopyCovers(t, s)'
  BY <1>1, <1>2, <1>3, <1>5 DEF OwnOK, CopyCovers, Asking, Mining, sessions, fates
<1>6. OwnOK(t)'  BY <1>1, <1>4, <1>5 DEF OwnOK, fates
<1>. QED  BY <1>1, <1>6, QuietStep DEF Answer, sessions, expiry, fates, OthersStay

LEMMA NoAnswerSession ==
  ASSUME SessionPart, TasksOK, NEW t \in Tasks, NoAnswer(t)
  PROVE  SessionPart'
<1>1. OthersStay(t) /\ OwnOK(t)'  BY DoneOK DEF NoAnswer
<1>. QED  BY <1>1, QuietStep DEF NoAnswer, sessions, expiry, fates, OthersStay

\* What is compressed away is in the summary, or is dropped.
LEMMA CompressSession ==
  ASSUME SessionPart, TasksOK, NEW t \in Tasks, Compress(t)
  PROVE  SessionPart'
<1>. DEFINE T == copy[t].turns
            cut == T \ Newest(T)
<1>1. /\ pc[t] = "compress" /\ pc'[t] = "answered" /\ OthersStay(t)
      /\ sess'[t] = sess[t] /\ question'[t] = question[t]
      /\ UNCHANGED <<sessions, told, mined, unmined, raced>>
  BY DEF Compress, Go, TasksOK, OthersStay
<1>2. OwnOK(t)  BY SessionParts
<1>3. Newest(T) \subseteq T  BY DEF Newest
<1>4. /\ dropped \subseteq dropped'
      /\ Covers(copy[t]) \subseteq Covers(copy'[t]) \cup dropped'
  <2>1. CASE /\ copy' = [copy EXCEPT ![t] = [turns |-> Newest(T), summary |-> @.summary \cup cut]]
             /\ UNCHANGED dropped
    BY <1>3, <2>1 DEF Covers, TasksOK, Copies
  <2>2. CASE /\ copy' = [copy EXCEPT ![t].turns = Newest(T)]
             /\ dropped' = dropped \cup cut
    BY <1>3, <2>2 DEF Covers, TasksOK, Copies
  <2>. QED  BY <2>1, <2>2 DEF Compress
<1>5. PhaseOK(t)'  BY <1>1, <1>2 DEF OwnOK, PhaseOK, Asking
<1>6. ASSUME NEW s \in Sessions \ raced, sess[t] = s PROVE CopyCovers(t, s)'
  <2>1. /\ Covers(stored[s]) \subseteq Covers(copy[t]) \cup dropped
        /\ question[t] \in Covers(copy[t]) \cup dropped
    BY <1>1, <1>2, <1>6 DEF OwnOK, CopyCovers, Asking
  <2>. QED  BY <1>1, <1>4, <2>1 DEF CopyCovers, Asking, Mining, sessions
<1>7. OwnOK(t)'  BY <1>1, <1>5, <1>6 DEF OwnOK
<1>. QED  BY <1>1, <1>4, <1>7, QuietStep DEF Compress, sessions, expiry, OthersStay

LEMMA FindSessionSession ==
  ASSUME SessionPart, TasksOK, NEW t \in Tasks, FindSession(t)
  PROVE  SessionPart'
<1>1. /\ pc[t] = "answered" /\ pc'[t] \in {"update", "insert"} /\ OthersStay(t)
      /\ UNCHANGED <<sessions, talk, fates>>
  BY DEF FindSession, Go, TasksOK, OthersStay, talk
<1>2. OwnOK(t)  BY SessionParts
<1>3. OwnOK(t)'
  BY <1>1, <1>2 DEF OwnOK, PhaseOK, CopyCovers, Asking, Mining, sessions, talk, fates
<1>. QED  BY <1>1, <1>3, QuietStep DEF FindSession, sessions, expiry, fates, OthersStay

\* A session that another task holds is raced when it is written.
LEMMA WriteSessionSession ==
  ASSUME SessionPart, SessionsOK, HistoryOK, TasksOK, NEW t \in Tasks, WriteSession(t)
  PROVE  SessionPart'
<1>. DEFINE s == sess[t]
<1>1. OthersStay(t) /\ OwnOK(t)'  BY DoneOK DEF WriteSession
<1>2. OwnOK(t)  BY SessionParts
<1>3. t # Loop /\ s \in Sessions
  BY <1>2 DEF OwnOK, PhaseOK, WriteSession, Asking
<1>4. CASE UNCHANGED <<sessions, told, raced>>
  BY <1>1, <1>4, QuietStep DEF WriteSession, sessions, expiry, OthersStay
<1>5. CASE /\ stored' = [stored EXCEPT ![s] = copy[t]]
           /\ told' = [told EXCEPT ![s] = @ \cup {question[t]}]
           /\ raced' = IF IsHeld(t, s) THEN raced \cup {s} ELSE raced
  <2>1. raced \subseteq raced' /\ (s \notin raced' => ~IsHeld(t, s))  BY <1>5
  <2>2. \A x \in Sessions : x # s => stored'[x] = stored[x] /\ told'[x] = told[x]
    BY <1>5 DEF SessionsOK, HistoryOK
  <2>3. \A u \in Tasks \ {t}, x \in Sessions \ raced' : sess[u] = x => stored'[x] = stored[x]
    BY <2>1, <2>2 DEF IsHeld, Holds
  <2>4. ListOK'
    <3>1. s \in list => s \in raced'  BY <1>3, <2>1, Constants DEF IsHeld, Holds
    <3>2. list \subseteq Sessions  BY DEF TasksOK
    <3>. QED  BY <2>1, <2>2, <3>1, <3>2, SessionParts DEF ListOK, WriteSession, expiry
  <2>5. NothingForgotten'
    <3>. SUFFICES ASSUME NEW x \in Sessions \ raced'
                  PROVE  told'[x] \subseteq Covers(stored'[x]) \cup mined' \cup unmined' \cup dropped'
      BY DEF NothingForgotten
    <3>1. /\ mined' = mined /\ unmined' = unmined /\ dropped' = dropped /\ x \notin raced
          /\ told[x] \subseteq Covers(stored[x]) \cup mined \cup unmined \cup dropped
      BY <2>1, SessionParts DEF WriteSession, NothingForgotten
    <3>2. CASE x # s  BY <2>2, <3>1, <3>2
    <3>3. CASE x = s
      <4>1. /\ Covers(stored[s]) \subseteq Covers(copy[t]) \cup dropped
            /\ question[t] \in Covers(copy[t]) \cup dropped
        BY <1>2, <3>1, <3>3 DEF OwnOK, CopyCovers, WriteSession, Asking
      <4>2. stored'[s] = copy[t] /\ told'[s] = told[s] \cup {question[t]}
        BY <1>3, <1>5 DEF SessionsOK, HistoryOK
      <4>. QED  BY <3>1, <3>3, <4>1, <4>2
    <3>. QED  BY <3>2, <3>3
  <2>. QED  BY <1>1, <2>1, <2>3, <2>4, <2>5, OthersKeep DEF WriteSession, OthersStay
<1>. QED  BY <1>4, <1>5 DEF WriteSession

\* A session that is not there has nothing to be mined.
LEMMA CloseSession ==
  ASSUME SessionPart, SessionsOK, TasksOK, NEW r \in Requests, NEW s \in Sessions, Close(r, s)
  PROVE  SessionPart'
<1>1. r \in Tasks /\ r # Loop  BY Constants
<1>2. /\ pc'[r] = IF s \in open THEN "extract" ELSE "delete"
      /\ sess'[r] = s /\ copy'[r] = stored[s] /\ OthersStay(r)
      /\ UNCHANGED <<sessions, fates>>
  BY <1>1 DEF Close, Go, TasksOK, OthersStay
<1>3. s \notin open => Covers(stored[s]) = {}  BY DEF SessionsOK, Covers, Blank
<1>4. OwnOK(r)'
  BY <1>1, <1>2, <1>3 DEF OwnOK, PhaseOK, CopyCovers, Asking, Mining, sessions
<1>. QED  BY <1>1, <1>2, <1>4, QuietStep DEF Close, sessions, expiry, fates, OthersStay

LEMMA StartExpirySession ==
  ASSUME SessionPart, SessionsOK, TasksOK, StartExpiry
  PROVE  SessionPart'
<1>1. /\ pc'[Loop] = "next" /\ pc[Loop] = "idle" /\ OthersStay(Loop)
      /\ UNCHANGED <<sessions, talk, fates>>
  BY Constants DEF StartExpiry, Go, TasksOK, OthersStay, talk
<1>2. sess[Loop] = NoSession  BY <1>1, Constants, SessionParts DEF OwnOK, PhaseOK
<1>3. OwnOK(Loop)'  BY <1>1, <1>2, Constants DEF OwnOK, PhaseOK, Asking, talk
<1>4. ListOK'
  <2>1. list' = old /\ old \subseteq Sessions /\ \A s \in old : snapshot'[s] = stored[s]
    BY DEF StartExpiry, SessionsOK
  <2>. QED  BY <1>1, <2>1 DEF ListOK, sessions
<1>5. NothingForgotten'  BY <1>1, SessionParts DEF NothingForgotten, sessions, fates
<1>. QED  BY <1>1, <1>3, <1>4, <1>5, Constants, OthersKeep DEF sessions, fates, OthersStay

LEMMA NextExpiredSession ==
  ASSUME SessionPart, TasksOK, NEW s \in Sessions, NextExpired(s)
  PROVE  SessionPart'
<1>1. /\ pc'[Loop] = "extract" /\ sess'[Loop] = s /\ copy'[Loop] = snapshot[s]
      /\ OthersStay(Loop) /\ UNCHANGED <<sessions, fates>>
  BY Constants DEF NextExpired, Go, TasksOK, OthersStay
<1>2. s \notin raced => Covers(stored[s]) \subseteq Covers(snapshot[s])
  BY SessionParts DEF ListOK, NextExpired
<1>3. OwnOK(Loop)'
  BY <1>1, <1>2, Constants DEF OwnOK, PhaseOK, CopyCovers, Asking, Mining, sessions, fates
<1>4. ListOK'
  <2>1. list' = list \ {s} /\ \A x \in list' : snapshot'[x] = snapshot[x]
    BY DEF NextExpired, TasksOK
  <2>. QED  BY <1>1, <2>1, SessionParts DEF ListOK, sessions, fates
<1>5. NothingForgotten'  BY <1>1, SessionParts DEF NothingForgotten, sessions, fates
<1>. QED  BY <1>1, <1>3, <1>4, <1>5, Constants, OthersKeep DEF sessions, fates, OthersStay

\* What a session held was in front of the extraction, or an extraction failed on it.
LEMMA ExtractSession ==
  ASSUME SessionPart, TasksOK, NEW t \in Tasks, NEW fs, Extract(t, fs)
  PROVE  SessionPart'
<1>1. /\ pc[t] = "extract" /\ pc'[t] \in {"delete", "store"} /\ OthersStay(t)
      /\ mined' = mined \cup Covers(copy[t]) /\ UNCHANGED <<sessions, talk, unmined, raced>>
  BY DEF Extract, Go, TasksOK, OthersStay, talk
<1>2. OwnOK(t)  BY SessionParts
<1>3. OwnOK(t)'
  BY <1>1, <1>2 DEF OwnOK, PhaseOK, CopyCovers, Asking, Mining, sessions, talk
<1>. QED  BY <1>1, <1>3, QuietStep DEF Extract, sessions, expiry, OthersStay

LEMMA ExtractFailsSession ==
  ASSUME SessionPart, TasksOK, NEW t \in Tasks, ExtractFails(t)
  PROVE  SessionPart'
<1>1. /\ pc[t] = "extract" /\ pc'[t] = "delete" /\ OthersStay(t)
      /\ unmined' = unmined \cup Covers(copy[t]) /\ UNCHANGED <<sessions, talk, mined, raced>>
  BY DEF ExtractFails, Go, TasksOK, OthersStay, talk
<1>2. OwnOK(t)  BY SessionParts
<1>3. OwnOK(t)'
  BY <1>1, <1>2 DEF OwnOK, PhaseOK, CopyCovers, Asking, Mining, sessions, talk
<1>. QED  BY <1>1, <1>3, QuietStep DEF ExtractFails, sessions, expiry, OthersStay

\* What is deleted has been through an extraction, unless the session is raced.
LEMMA DeleteSessionSession ==
  ASSUME SessionPart, SessionsOK, TasksOK, NEW t \in Tasks, DeleteSession(t)
  PROVE  SessionPart'
<1>. DEFINE s == sess[t]
<1>1. OthersStay(t) /\ OwnOK(t)'  BY DoneOK DEF DeleteSession
<1>2. OwnOK(t) /\ s \in Sessions  BY SessionParts DEF OwnOK, PhaseOK, DeleteSession
<1>3. /\ stored' = [stored EXCEPT ![s] = Blank]
      /\ raced' = IF s \in open /\ IsHeld(t, s) THEN raced \cup {s} ELSE raced
      /\ UNCHANGED <<told, mined, unmined, dropped, list, snapshot>>
  BY DEF DeleteSession, expiry
<1>4. /\ \A x \in Sessions : x # s => stored'[x] = stored[x]
      /\ stored'[s] = Blank /\ Covers(stored'[s]) = {}
  BY <1>2, <1>3 DEF SessionsOK, Covers, Blank
<1>5. raced \subseteq raced' /\ (s \notin raced' /\ s \in open => ~IsHeld(t, s))
  BY <1>3
<1>6. s \notin open => stored' = stored
  BY <1>2, <1>3 DEF SessionsOK
<1>7. \A u \in Tasks \ {t}, x \in Sessions \ raced' : sess[u] = x => stored'[x] = stored[x]
  BY <1>4, <1>5, <1>6 DEF IsHeld, Holds
<1>8. ListOK'
  <2>1. list \subseteq Sessions  BY DEF TasksOK
  <2>. QED  BY <1>3, <1>4, <1>5, <2>1, SessionParts DEF ListOK
<1>9. NothingForgotten'
  <2>. SUFFICES ASSUME NEW x \in Sessions \ raced'
                PROVE  told[x] \subseteq Covers(stored'[x]) \cup mined \cup unmined \cup dropped
    BY <1>3 DEF NothingForgotten
  <2>1. x \notin raced /\ told[x] \subseteq Covers(stored[x]) \cup mined \cup unmined \cup dropped
    BY <1>5, SessionParts DEF NothingForgotten
  <2>2. x = s => Covers(stored[s]) \subseteq mined \cup unmined
    BY <1>2, <2>1 DEF OwnOK, CopyCovers, DeleteSession, Mining
  <2>. QED  BY <1>4, <2>1, <2>2
<1>. QED  BY <1>1, <1>3, <1>5, <1>7, <1>8, <1>9, OthersKeep DEF OthersStay

LEMMA DeleteSessionFailsSession ==
  ASSUME SessionPart, TasksOK, NEW t \in Tasks, DeleteSessionFails(t)
  PROVE  SessionPart'
<1>1. /\ pc'[t] = "idle" /\ sess'[t] = NoSession /\ OthersStay(t)
      /\ UNCHANGED <<sessions, fates>>
  BY DEF DeleteSessionFails, Go, TasksOK, OthersStay
<1>2. OwnOK(t)'  BY <1>1, Constants DEF OwnOK, PhaseOK, Asking
<1>3. ListOK'
  <2>1. list' = {} \/ UNCHANGED <<list, snapshot>>  BY DEF DeleteSessionFails
  <2>. QED  BY <1>1, <2>1, SessionParts DEF ListOK, sessions, fates
<1>4. NothingForgotten'  BY <1>1, SessionParts DEF NothingForgotten, sessions, fates
<1>. QED  BY <1>1, <1>2, <1>3, <1>4, OthersKeep DEF sessions, fates, OthersStay

LEMMA AgeSession ==
  ASSUME SessionPart, NEW s \in Sessions, Age(s)
  PROVE  SessionPart'
<1>1. OwnOK(Loop)'
  BY SessionParts, Constants DEF OwnOK, PhaseOK, CopyCovers, Age, talk, fates
<1>. QED  BY <1>1, QuietStep, Constants DEF Age, talk, expiry, fates

LEMMA RestartSession ==
  ASSUME SessionPart, Restart
  PROVE  SessionPart'
<1>1. \A t \in Tasks : pc'[t] = "idle" /\ sess'[t] = NoSession  BY DEF Restart
<1>2. \A t \in Tasks : OwnOK(t)'  BY <1>1, Constants DEF OwnOK, PhaseOK, Asking
<1>3. ListOK'  BY DEF Restart, ListOK
<1>4. NothingForgotten'  BY SessionParts DEF Restart, NothingForgotten, sessions, fates
<1>. QED  BY <1>2, <1>3, <1>4, SessionParts

-----------------------------------------------------------------------------
(* Memories.                                                               *)

AtWork == {"revise", "embed", "unembed"}

OthersWork(t) ==
  \A u \in Tasks \ {t} : pc'[u] = pc[u] /\ text'[u] = text[u] /\ targets'[u] = targets[u]

\* A step that leaves the memories alone, of a task that is not at work on one.
LEMMA MemoryStays ==
  ASSUME MemoryPart, pc \in [Tasks -> Phases], NEW t \in Tasks, NEW p, Go(t, p),
         pc[t] \notin AtWork, p \notin {"add", "revise"},
         UNCHANGED <<memory, vector, text, targets, doubts>>
  PROVE  MemoryPart'
<1>1. \A u \in Tasks : pc'[u] = IF u = t THEN p ELSE pc[u]  BY DEF Go
<1>2. UNCHANGED <<unsynced, unchecked>>  BY DEF doubts
<1>3. MemoryInv'  BY <1>1, <1>2 DEF MemoryPart, MemoryInv, Works, WorkOK, AtWork
<1>4. AddInv'  BY <1>1, <1>2 DEF MemoryPart, AddInv, Doubtful
<1>5. StoresAgree' /\ NoTwins'
  BY <1>2 DEF MemoryPart, StoresAgree, NoTwins, Works, Doubtful
<1>. QED  BY <1>3, <1>4, <1>5 DEF MemoryPart

\* A task that is not at work on a memory targets none, but unsynced ones.
LEMMA NoTargets ==
  ASSUME MemoryInv, NEW t \in Tasks, pc[t] \notin AtWork, NEW m \in MemoryIds \ unsynced
  PROVE  ~Works(t, m)
  BY DEF MemoryInv, WorkOK, AtWork

\* Task t begins to work on the memories ms.
LEMMA ClaimKeeps ==
  ASSUME MemoryInv, StoresAgree, NEW t \in Tasks, NEW ms \in SUBSET MemoryIds,
         pc[t] \notin AtWork, OthersWork(t), targets'[t] = ms,
         unsynced' = unsynced \cup {m \in ms : IsWorkedOn(t, m)},
         vector' = vector, \A m \in MemoryIds \ ms : memory'[m] = memory[m],
         \A m \in ms \ unsynced' : WorkOK(t, m)'
  PROVE  MemoryInv' /\ StoresAgree'
<1>1. ASSUME NEW m \in MemoryIds \ unsynced', m \in ms
      PROVE  /\ \A u \in Tasks : Works(u, m)' => WorkOK(u, m)' /\ u = t
             /\ Works(t, m)'
  <2>1. \A u \in Tasks \ {t} : ~Works(u, m)'
    BY <1>1 DEF IsWorkedOn, OthersWork, Works
  <2>. QED  BY <1>1, <2>1 DEF Works
<1>2. ASSUME NEW m \in MemoryIds \ unsynced', m \notin ms
      PROVE  /\ m \notin unsynced /\ memory'[m] = memory[m] /\ ~Works(t, m)' /\ ~Works(t, m)
             /\ \A u \in Tasks \ {t} : (Works(u, m)' <=> Works(u, m))
                                         /\ (WorkOK(u, m)' <=> WorkOK(u, m))
  <2>1. m \notin unsynced /\ memory'[m] = memory[m]  BY <1>2
  <2>2. ~Works(t, m)' /\ ~Works(t, m)  BY <1>2, <2>1, NoTargets DEF Works
  <2>. QED  BY <2>1, <2>2 DEF OthersWork, Works, WorkOK
<1>3. MemoryInv'
  <2>. SUFFICES ASSUME NEW m \in MemoryIds \ unsynced'
                PROVE  /\ \A u \in Tasks : Works(u, m)' => WorkOK(u, m)'
                       /\ \A u, v \in Tasks : Works(u, m)' /\ Works(v, m)' => u = v
    BY DEF MemoryInv
  <2>1. CASE m \in ms  BY <1>1, <2>1
  <2>2. CASE m \notin ms  BY <1>2, <2>2 DEF MemoryInv
  <2>. QED  BY <2>1, <2>2
<1>4. StoresAgree'
  <2>. SUFFICES ASSUME NEW m \in MemoryIds \ unsynced', \A u \in Tasks : ~Works(u, m)'
                PROVE  memory'[m] = vector[m]
    BY DEF StoresAgree
  <2>1. m \notin ms  BY <1>1
  <2>2. \A u \in Tasks : ~Works(u, m)  BY <1>2, <2>1
  <2>. QED  BY <1>2, <2>1, <2>2 DEF StoresAgree
<1>. QED  BY <1>3, <1>4

\* Task t is through with its memories: row and vector are the same now, or it
\* leaves them unsynced.
LEMMA ReleaseKeeps ==
  ASSUME MemoryPart, TasksOK, NEW t \in Tasks, DoneFact(t),
         memory' = memory, unchecked' = unchecked, unsynced \subseteq unsynced',
         \A m \in MemoryIds \ targets[t] : vector'[m] = vector[m],
         \A m \in targets[t] \ unsynced' : memory[m] = vector'[m]
  PROVE  MemoryPart'
<1>1. /\ OthersWork(t) /\ targets'[t] = {}
      /\ pc'[t] \in {"idle", "store", "delete"}
  BY DEF DoneFact, Go, TasksOK, OthersWork
<1>2. MemoryInv /\ AddInv /\ StoresAgree /\ NoTwins  BY DEF MemoryPart
<1>3. ASSUME NEW m \in MemoryIds \ unsynced', NEW u \in Tasks, Works(u, m)'
      PROVE  u # t /\ Works(u, m) /\ WorkOK(u, m)'
  <2>1. u # t /\ Works(u, m)  BY <1>1, <1>3 DEF Works, OthersWork
  <2>2. WorkOK(u, m)  BY <1>2, <2>1 DEF MemoryInv
  <2>3. m \notin targets[t]  BY <1>2, <2>1 DEF MemoryInv, Works
  <2>. QED  BY <1>1, <2>1, <2>2, <2>3 DEF WorkOK, OthersWork
<1>4. MemoryInv'  BY <1>2, <1>3 DEF MemoryInv
<1>5. StoresAgree'
  <2>. SUFFICES ASSUME NEW m \in MemoryIds \ unsynced', \A u \in Tasks : ~Works(u, m)'
                PROVE  memory[m] = vector'[m]
    BY DEF StoresAgree
  <2>1. CASE m \in targets[t]  BY <2>1
  <2>2. CASE m \notin targets[t]
    <3>1. \A u \in Tasks : ~Works(u, m)  BY <1>1, <2>2 DEF Works, OthersWork
    <3>. QED  BY <1>2, <2>2, <3>1 DEF StoresAgree
  <2>. QED  BY <2>1, <2>2
<1>6. AddInv'
  <2>1. \A u \in Tasks : pc'[u] = "add" => u # t  BY <1>1
  <2>. QED  BY <1>1, <1>2, <2>1 DEF AddInv, OthersWork, Doubtful
<1>7. NoTwins'  BY <1>2 DEF NoTwins, Doubtful
<1>. QED  BY <1>4, <1>5, <1>6, <1>7 DEF MemoryPart

\* No two memories become alike if none gets a text.
LEMMA TwinsKeep ==
  ASSUME AddInv, NoTwins, NEW t \in Tasks, OthersWork(t), Doubtful \subseteq Doubtful',
         \A m \in MemoryIds \ Doubtful' : memory'[m] \in {memory[m], NoText},
         pc'[t] = "add" => \A m \in MemoryIds \ Doubtful' : ~Alike(memory'[m], text'[t])
  PROVE  AddInv' /\ NoTwins'
<1>1. NoTwins'
  <2>. SUFFICES ASSUME NEW m \in MemoryIds \ Doubtful', NEW n \in MemoryIds \ Doubtful', m # n
                PROVE  ~Alike(memory'[m], memory'[n])
    BY DEF NoTwins
  <2>1. ~Alike(memory[m], memory[n])  BY DEF NoTwins
  <2>. QED  BY <2>1, NoTextAlone
<1>2. ASSUME NEW u \in Tasks, NEW m \in MemoryIds \ Doubtful', pc'[u] = "add"
      PROVE  ~Alike(memory'[m], text'[u])
  <2>1. CASE u = t  BY <1>2, <2>1
  <2>2. CASE u # t  BY <1>2, <2>2, NoTextAlone DEF OthersWork, AddInv
  <2>. QED  BY <2>1, <2>2
<1>3. AddInv'  BY <1>2 DEF AddInv
<1>. QED  BY <1>1, <1>3

\* A fact close to a memory is about to revise it; a fact without one is about to
\* be added, and what others are writing like it is unchecked from then on.
LEMMA FindSimilarMemory ==
  ASSUME MemoryPart, TasksOK, NEW t \in Tasks, NEW f \in Texts, FindSimilar(t, f)
  PROVE  MemoryPart'
<1>. USE DEF MemoryPart
<1>1. /\ pc[t] = "store" /\ text'[t] = f /\ UNCHANGED <<memory, vector>>
      /\ \A u \in Tasks \ {t} : text'[u] = text[u]
  BY DEF FindSimilar, TasksOK, memories
<1>2. CASE /\ Similar(f) = {} /\ Go(t, "add")
           /\ unchecked' = unchecked \cup UNION {targets[u] : u \in Adding(t, f)}
           /\ UNCHANGED <<targets, unsynced>>
  <2>1. \A u \in Tasks : pc'[u] = IF u = t THEN "add" ELSE pc[u]
    BY <1>2 DEF Go, TasksOK
  <2>2. OthersWork(t)  BY <1>1, <1>2, <2>1 DEF OthersWork
  <2>3. MemoryInv' /\ StoresAgree'
    <3>1. \A u \in Tasks, m \in MemoryIds : Works(u, m)' <=> Works(u, m)
      BY <1>2 DEF Works
    <3>2. \A m \in MemoryIds \ unsynced : ~Works(t, m)  BY <1>1, NoTargets DEF AtWork
    <3>3. \A u \in Tasks \ {t}, m \in MemoryIds : WorkOK(u, m) => WorkOK(u, m)'
      BY <1>1, <2>2 DEF WorkOK, OthersWork
    <3>. QED  BY <1>1, <1>2, <3>1, <3>2, <3>3 DEF MemoryInv, StoresAgree
  <2>4. Doubtful \subseteq Doubtful'  BY <1>2 DEF Doubtful
  <2>5. ASSUME NEW m \in MemoryIds \ Doubtful'
        PROVE  ~Alike(memory[m], f)
    <3>1. m \notin unsynced /\ m \notin unchecked'  BY <1>2, <2>4 DEF Doubtful
    <3>2. CASE \A u \in Tasks : ~Works(u, m)
      <4>1. memory[m] = vector[m]  BY <3>1, <3>2 DEF StoresAgree
      <4>. QED  BY <1>2, <4>1 DEF Similar, Alike
    <3>3. CASE \E u \in Tasks : Works(u, m)
      <4>1. PICK u \in Tasks : Works(u, m)  BY <3>3
      <4>2. WorkOK(u, m) /\ u # t
        BY <1>1, <3>1, <4>1, NoTargets DEF MemoryInv, AtWork
      <4>3. CASE pc[u] = "revise"
        <5>1. memory[m] = vector[m]  BY <4>2, <4>3 DEF WorkOK
        <5>. QED  BY <1>2, <5>1 DEF Similar, Alike
      <4>4. CASE pc[u] = "embed"
        <5>1. memory[m] = text[u]  BY <4>2, <4>4 DEF WorkOK
        <5>2. u \notin Adding(t, f)  BY <1>2, <3>1, <4>1 DEF Works
        <5>. QED  BY <4>2, <4>4, <5>1, <5>2 DEF Adding
      <4>. QED  BY <4>2, <4>3, <4>4, NoTextAlone DEF WorkOK
    <3>. QED  BY <3>2, <3>3
  <2>6. AddInv' /\ NoTwins'
    BY <1>1, <2>2, <2>4, <2>5, TwinsKeep
  <2>. QED  BY <2>3, <2>6
<1>3. ASSUME NEW m \in Similar(f), Target(t, {m}), Go(t, "revise"), UNCHANGED unchecked
      PROVE  MemoryPart'
  <2>1. /\ pc'[t] = "revise" /\ targets'[t] = {m} /\ OthersWork(t)
        /\ unsynced' = unsynced \cup {n \in {m} : IsWorkedOn(t, n)}
    BY <1>1, <1>3 DEF Go, Target, TasksOK, OthersWork
  <2>2. m \in MemoryIds /\ vector[m] # NoText
    BY <1>3, MemoryAssumption DEF Similar
  <2>3. ASSUME m \notin unsynced' PROVE memory[m] = vector[m]
    <3>1. \A u \in Tasks : ~Works(u, m)
      BY <1>1, <2>1, <2>2, <2>3, NoTargets DEF IsWorkedOn, AtWork
    <3>. QED  BY <2>1, <2>2, <2>3, <3>1 DEF StoresAgree
  <2>4. \A n \in {m} \ unsynced' : WorkOK(t, n)'
    BY <1>1, <2>1, <2>2, <2>3 DEF WorkOK
  <2>5. MemoryInv' /\ StoresAgree'
    BY <1>1, <2>1, <2>2, <2>4, ClaimKeeps DEF AtWork
  <2>6. AddInv' /\ NoTwins'
    <3>1. Doubtful \subseteq Doubtful'  BY <1>3, <2>1 DEF Doubtful
    <3>. QED  BY <1>1, <2>1, <3>1, TwinsKeep
  <2>. QED  BY <2>5, <2>6
<1>. QED  BY <1>2, <1>3 DEF FindSimilar

LEMMA FindSimilarFailsMemory ==
  ASSUME MemoryPart, TasksOK, NEW t \in Tasks, NEW f, FindSimilarFails(t, f)
  PROVE  MemoryPart'
<1>1. PICK p \in {"store", "delete"} : Go(t, p)  BY DEF FindSimilarFails
<1>. QED  BY <1>1, MemoryStays DEF FindSimilarFails, memories, AtWork, TasksOK

\* A new memory is like no other, unless others were writing one.
LEMMA AddMemoryMemory ==
  ASSUME MemoryPart, TasksOK, MemoriesOK, NEW t \in Tasks, NEW m \in MemoryIds, AddMemory(t, m)
  PROVE  MemoryPart'
<1>. USE DEF MemoryPart
<1>1. /\ pc[t] = "add" /\ pc'[t] = "embed" /\ targets'[t] = {m} /\ OthersWork(t)
      /\ unsynced' = unsynced \cup {n \in {m} : IsWorkedOn(t, n)}
      /\ memory'[m] = text[t] /\ \A n \in MemoryIds : n # m => memory'[n] = memory[n]
      /\ UNCHANGED <<vector, text>> /\ memory[m] = NoText
  BY DEF AddMemory, Go, Target, TasksOK, MemoriesOK, OthersWork
<1>2. MemoryInv' /\ StoresAgree'
  <2>1. \A n \in {m} \ unsynced' : WorkOK(t, n)'  BY <1>1 DEF WorkOK
  <2>. QED  BY <1>1, <2>1, ClaimKeeps DEF AtWork
<1>3. Doubtful \subseteq Doubtful' /\ (m \notin Doubtful' => Adding(t, text[t]) = {})
  BY <1>1 DEF Doubtful, AddMemory
<1>4. m \notin Doubtful' =>
        \A n \in MemoryIds \ Doubtful' : n # m =>
          ~Alike(memory[n], text[t]) /\ ~Alike(text[t], memory[n])
  BY <1>1, <1>3 DEF AddInv, Alike
<1>5. NoTwins'
  <2>. SUFFICES ASSUME NEW n \in MemoryIds \ Doubtful', NEW k \in MemoryIds \ Doubtful', n # k
                PROVE  ~Alike(memory'[n], memory'[k])
    BY DEF NoTwins
  <2>1. CASE n = m  BY <1>1, <1>4, <2>1
  <2>2. CASE k = m  BY <1>1, <1>4, <2>2
  <2>3. CASE n # m /\ k # m  BY <1>1, <1>3, <2>3 DEF NoTwins
  <2>. QED  BY <2>1, <2>2, <2>3
<1>6. ASSUME NEW u \in Tasks, NEW n \in MemoryIds \ Doubtful', pc'[u] = "add"
      PROVE  ~Alike(memory'[n], text'[u])
  <2>1. u # t /\ pc[u] = "add"  BY <1>1, <1>6 DEF OthersWork
  <2>2. CASE n # m
    BY <1>1, <1>3, <2>1, <2>2 DEF OthersWork, AddInv
  <2>3. CASE n = m
    <3>1. ~Alike(text[u], text[t])
      BY <1>3, <2>1, <2>3 DEF Adding
    <3>. QED  BY <1>1, <2>1, <2>3, <3>1 DEF Alike
  <2>. QED  BY <2>2, <2>3
<1>7. AddInv'  BY <1>6 DEF AddInv
<1>. QED  BY <1>2, <1>5, <1>7

LEMMA EditMemoryMemory ==
  ASSUME MemoryPart, TasksOK, NEW r \in Requests, NEW m \in MemoryIds, NEW f \in Texts,
         EditMemory(r, m, f)
  PROVE  MemoryPart'
<1>. USE DEF MemoryPart
<1>1. /\ r \in Tasks /\ pc[r] = "idle" /\ memory[m] # NoText /\ UNCHANGED <<memory, vector, unchecked>>
  BY Constants DEF EditMemory, memories
<1>2. /\ pc'[r] = "revise" /\ targets'[r] = {m} /\ OthersWork(r)
      /\ unsynced' = unsynced \cup {n \in {m} : IsWorkedOn(r, n)}
  BY <1>1 DEF EditMemory, Go, Target, TasksOK, OthersWork
<1>3. ASSUME m \notin unsynced' PROVE memory[m] = vector[m]
  <2>1. \A u \in Tasks : ~Works(u, m)
    BY <1>1, <1>2, <1>3, NoTargets DEF IsWorkedOn, AtWork
  <2>. QED  BY <1>2, <1>3, <2>1 DEF StoresAgree
<1>4. MemoryInv' /\ StoresAgree'
  <2>1. \A n \in {m} \ unsynced' : WorkOK(r, n)'  BY <1>1, <1>2, <1>3 DEF WorkOK
  <2>. QED  BY <1>1, <1>2, <2>1, ClaimKeeps DEF AtWork
<1>5. AddInv' /\ NoTwins'
  <2>1. Doubtful \subseteq Doubtful'  BY <1>1, <1>2 DEF Doubtful
  <2>. QED  BY <1>1, <1>2, <2>1, TwinsKeep
<1>. QED  BY <1>4, <1>5

\* Only the task at work on a memory revises it, and the memory becomes unchecked
\* if it gets like another one, or like one about to be added.
LEMMA ReviseMemoryMemory ==
  ASSUME MemoryPart, TasksOK, NEW t \in Tasks, ReviseMemory(t)
  PROVE  MemoryPart'
<1>. USE DEF MemoryPart
<1>1. /\ pc[t] = "revise" /\ pc'[t] = "embed" /\ OthersWork(t)
      /\ UNCHANGED <<vector, text, targets, unsynced>>
      /\ \A m \in MemoryIds : memory'[m] = IF m \in targets[t] /\ memory[m] # NoText
                                           THEN text[t] ELSE memory[m]
  BY DEF ReviseMemory, Go, TasksOK, storing, doubts, OthersWork
<1>2. \A u \in Tasks, m \in MemoryIds : Works(u, m)' <=> Works(u, m)  BY <1>1 DEF Works
<1>3. ASSUME NEW m \in MemoryIds \ unsynced, NEW u \in Tasks, Works(u, m)
      PROVE  WorkOK(u, m)' /\ (u # t => memory'[m] = memory[m])
  <2>1. WorkOK(u, m)  BY <1>3 DEF MemoryInv
  <2>2. CASE u = t  BY <1>1, <1>3, <2>1, <2>2 DEF WorkOK, Works
  <2>3. CASE u # t
    <3>1. m \notin targets[t]  BY <1>3, <2>3 DEF MemoryInv, Works
    <3>. QED  BY <1>1, <2>1, <2>3, <3>1 DEF WorkOK, OthersWork
  <2>. QED  BY <2>2, <2>3
<1>4. MemoryInv'  BY <1>1, <1>2, <1>3 DEF MemoryInv
<1>5. StoresAgree'
  <2>1. \A m \in MemoryIds : ~Works(t, m) => memory'[m] = memory[m]  BY <1>1 DEF Works
  <2>. QED  BY <1>1, <1>2, <2>1 DEF StoresAgree
<1>6. Doubtful \subseteq Doubtful'  BY <1>1 DEF ReviseMemory, Doubtful
<1>7. ASSUME NEW m \in MemoryIds \ Doubtful', m \in targets[t], memory[m] # NoText
      PROVE  /\ memory'[m] = text[t] /\ Adding(t, text[t]) = {}
             /\ \A n \in MemoryIds \ {m} : ~Alike(memory'[n], text[t])
  BY <1>1, <1>7 DEF ReviseMemory, Doubtful
<1>8. NoTwins'
  <2>. SUFFICES ASSUME NEW m \in MemoryIds \ Doubtful', NEW n \in MemoryIds \ Doubtful', m # n
                PROVE  ~Alike(memory'[m], memory'[n])
    BY DEF NoTwins
  <2>1. CASE m \in targets[t] /\ memory[m] # NoText  BY <1>7, <2>1 DEF Alike
  <2>2. CASE n \in targets[t] /\ memory[n] # NoText  BY <1>7, <2>2 DEF Alike
  <2>3. CASE memory'[m] = memory[m] /\ memory'[n] = memory[n]  BY <1>6, <2>3 DEF NoTwins
  <2>. QED  BY <1>1, <2>1, <2>2, <2>3
<1>9. ASSUME NEW u \in Tasks, NEW m \in MemoryIds \ Doubtful', pc'[u] = "add"
      PROVE  ~Alike(memory'[m], text'[u])
  <2>1. u # t /\ pc[u] = "add" /\ text'[u] = text[u]  BY <1>1, <1>9 DEF OthersWork
  <2>2. CASE m \in targets[t] /\ memory[m] # NoText
    BY <1>7, <2>1, <2>2 DEF Adding, Alike
  <2>3. CASE memory'[m] = memory[m]  BY <1>6, <2>1, <2>3 DEF AddInv
  <2>. QED  BY <1>1, <2>2, <2>3
<1>10. AddInv'  BY <1>9 DEF AddInv
<1>. QED  BY <1>4, <1>5, <1>8, <1>10

LEMMA StoreFailsMemory ==
  ASSUME MemoryPart, TasksOK, NEW t \in Tasks, StoreFails(t)
  PROVE  MemoryPart'
<1>1. ASSUME NEW m \in targets[t] \ unsynced PROVE memory[m] = vector[m]
  BY <1>1 DEF StoreFails, MemoryPart, MemoryInv, WorkOK, Works, TasksOK
<1>. QED  BY <1>1, ReleaseKeeps DEF StoreFails, memories, doubts

LEMMA UpsertMemory ==
  ASSUME MemoryPart, TasksOK, NEW t \in Tasks, Upsert(t)
  PROVE  MemoryPart'
<1>1. \A m \in MemoryIds : vector'[m] = IF m \in targets[t] THEN text[t] ELSE vector[m]
  BY DEF Upsert
<1>2. ASSUME NEW m \in targets[t] \ unsynced PROVE memory[m] = vector'[m]
  BY <1>1, <1>2 DEF Upsert, MemoryPart, MemoryInv, WorkOK, Works, TasksOK
<1>. QED  BY <1>1, <1>2, ReleaseKeeps DEF Upsert, doubts

LEMMA UpsertFailsMemory ==
  ASSUME MemoryPart, TasksOK, NEW t \in Tasks, UpsertFails(t)
  PROVE  MemoryPart'
  BY ReleaseKeeps DEF UpsertFails, memories

\* Rows go before their vectors.
LEMMA DeleteMemoriesMemory ==
  ASSUME MemoryPart, TasksOK, NEW r \in Requests, NEW ms \in SUBSET MemoryIds,
         DeleteMemories(r, ms)
  PROVE  MemoryPart'
<1>. USE DEF MemoryPart
<1>1. /\ r \in Tasks /\ pc[r] = "idle" /\ UNCHANGED <<vector, text, unchecked>>
      /\ \A m \in MemoryIds : memory'[m] = IF m \in ms THEN NoText ELSE memory[m]
  BY Constants DEF DeleteMemories
<1>2. /\ pc'[r] = "unembed" /\ targets'[r] = ms /\ OthersWork(r)
      /\ unsynced' = unsynced \cup {n \in ms : IsWorkedOn(r, n)}
  BY <1>1 DEF DeleteMemories, Go, Target, TasksOK, OthersWork
<1>3. MemoryInv' /\ StoresAgree'
  <2>1. \A n \in ms \ unsynced' : WorkOK(r, n)'  BY <1>1, <1>2 DEF WorkOK
  <2>. QED  BY <1>1, <1>2, <2>1, ClaimKeeps DEF AtWork
<1>4. AddInv' /\ NoTwins'
  <2>1. Doubtful \subseteq Doubtful'  BY <1>1, <1>2 DEF Doubtful
  <2>. QED  BY <1>1, <1>2, <2>1, TwinsKeep
<1>. QED  BY <1>3, <1>4

LEMMA DeleteVectorsMemory ==
  ASSUME MemoryPart, TasksOK, NEW t \in Tasks, DeleteVectors(t)
  PROVE  MemoryPart'
<1>1. CASE /\ vector' = [m \in MemoryIds |-> IF m \in targets[t] THEN NoText ELSE vector[m]]
           /\ UNCHANGED unsynced
  <2>1. ASSUME NEW m \in targets[t] \ unsynced PROVE memory[m] = vector'[m]
    BY <1>1, <2>1 DEF DeleteVectors, MemoryPart, MemoryInv, WorkOK, Works, TasksOK
  <2>. QED  BY <1>1, <2>1, ReleaseKeeps DEF DeleteVectors
<1>2. CASE unsynced' = unsynced \cup targets[t] /\ UNCHANGED vector
  BY <1>2, ReleaseKeeps DEF DeleteVectors
<1>. QED  BY <1>1, <1>2 DEF DeleteVectors

LEMMA RestartMemory ==
  ASSUME MemoryPart, TasksOK, Restart
  PROVE  MemoryPart'
<1>1. /\ UNCHANGED <<memory, vector, unchecked>>
      /\ unsynced' = unsynced \cup UNION {targets[t] : t \in Tasks}
      /\ \A t \in Tasks : pc'[t] = "idle" /\ targets'[t] = {}
  BY DEF Restart, memories
<1>2. MemoryInv'  BY <1>1 DEF MemoryInv, Works
<1>3. StoresAgree'  BY <1>1 DEF MemoryPart, StoresAgree, Works
<1>4. AddInv'  BY <1>1 DEF AddInv
<1>5. NoTwins'  BY <1>1 DEF MemoryPart, NoTwins, Doubtful
<1>. QED  BY <1>2, <1>3, <1>4, <1>5 DEF MemoryPart

LEMMA AgeMemory ==
  ASSUME MemoryPart, NEW s \in Sessions, Age(s)
  PROVE  MemoryPart'
<1>1. UNCHANGED <<memory, vector, pc, text, targets, unsynced, unchecked>>
  BY DEF Age, memories, storing, doubts
<1>. QED
  BY <1>1 DEF MemoryPart, MemoryInv, AddInv, StoresAgree, NoTwins, Works, WorkOK, Doubtful

-----------------------------------------------------------------------------
(* Types.                                                                  *)

LEMMA CopyTypes == Blank \in Copies /\ \A c \in Copies : Covers(c) \subseteq Questions
  BY DEF Blank, Copies, Covers

LEMMA GoType ==
  ASSUME pc \in [Tasks -> Phases], NEW t \in Tasks, NEW p \in Phases, Go(t, p)
  PROVE  pc' \in [Tasks -> Phases]
  BY DEF Go

LEMMA DoneType ==
  ASSUME TasksOK, BoundsOK, NEW t \in Tasks, Done(t), UNCHANGED <<expiry, storing, questions>>
  PROVE  TasksOK'
<1>1. pc' \in [Tasks -> Phases]  BY GoType DEF Done, TasksOK, Phases
<1>2. /\ sess' \in [Tasks -> Sessions \cup {NoSession}]
      /\ copy' \in [Tasks -> Copies]
      /\ question' \in [Tasks -> 0..questions]
  BY CopyTypes DEF Done, TasksOK, BoundsOK
<1>. QED  BY <1>1, <1>2 DEF TasksOK, expiry, storing

LEMMA DoneFactType ==
  ASSUME TasksOK, NEW t \in Tasks, DoneFact(t), UNCHANGED <<talk, expiry, facts, questions>>
  PROVE  TasksOK'
<1>1. pc' \in [Tasks -> Phases]  BY GoType DEF DoneFact, TasksOK, Phases
<1>2. /\ targets' \in [Tasks -> SUBSET MemoryIds]
      /\ text' \in [Tasks -> Texts \cup {NoText}]
  BY DEF DoneFact, TasksOK
<1>. QED  BY <1>1, <1>2 DEF TasksOK, expiry, talk

\* A step that leaves the stores, the bounds and the history alone.
LEMMA ElsewhereType ==
  /\ UNCHANGED sessions /\ SessionsOK => SessionsOK'
  /\ UNCHANGED memories /\ MemoriesOK => MemoriesOK'
  /\ UNCHANGED bounds /\ BoundsOK => BoundsOK'
  /\ UNCHANGED <<fates, doubts>> /\ HistoryOK => HistoryOK'
  BY DEF SessionsOK, MemoriesOK, BoundsOK, HistoryOK, sessions, memories, bounds, fates, doubts

\* A step that counts an event.
LEMMA EventType ==
  ASSUME BoundsOK, events < MaxEvents, events' = events + 1, questions' = questions
  PROVE  BoundsOK'
  BY MemoryAssumption DEF BoundsOK

LEMMA AskType ==
  ASSUME TypeOK, NEW r \in Requests, NEW s \in Sessions, Ask(r, s)
  PROVE  TypeOK'
<1>1. r \in Tasks  BY Constants
<1>2. TasksOK /\ BoundsOK /\ SessionsOK  BY DEF TypeOK
<1>3. pc' \in [Tasks -> Phases]  BY <1>1, <1>2, GoType DEF Ask, TasksOK, Phases
<1>4. questions' \in 0..MaxQuestions /\ questions' = questions + 1 /\ questions \in Nat
  BY <1>2, MemoryAssumption DEF Ask, BoundsOK
<1>5. question' \in [Tasks -> 0..questions']
  BY <1>1, <1>2, <1>4 DEF Ask, TasksOK
<1>6. sess' \in [Tasks -> Sessions \cup {NoSession}] /\ copy' \in [Tasks -> Copies]
  BY <1>1, <1>2 DEF Ask, TasksOK, SessionsOK
<1>7. TasksOK'  BY <1>2, <1>3, <1>5, <1>6 DEF Ask, TasksOK, expiry, storing
<1>8. BoundsOK'  BY <1>2, <1>4 DEF Ask, BoundsOK
<1>. QED  BY <1>7, <1>8, ElsewhereType DEF Ask, TypeOK

LEMMA AnswerType ==
  ASSUME TypeOK, SessionPart, NEW t \in Tasks, Answer(t)
  PROVE  TypeOK'
<1>1. TasksOK  BY DEF TypeOK
<1>2. pc' \in [Tasks -> Phases]  BY <1>1, GoType DEF Answer, TasksOK, Phases
<1>3. question[t] \in Questions  BY SessionParts DEF OwnOK, PhaseOK, Answer, Asking
<1>4. copy' \in [Tasks -> Copies]  BY <1>1, <1>3 DEF Answer, TasksOK, Copies
<1>5. TasksOK'  BY <1>1, <1>2, <1>4 DEF Answer, TasksOK, expiry, storing, bounds
<1>. QED  BY <1>5, ElsewhereType DEF Answer, TypeOK

LEMMA NoAnswerType ==
  ASSUME TypeOK, NEW t \in Tasks, NoAnswer(t)
  PROVE  TypeOK'
<1>1. TasksOK'  BY DoneType DEF NoAnswer, TypeOK, bounds
<1>. QED  BY <1>1, ElsewhereType DEF NoAnswer, TypeOK

LEMMA CompressType ==
  ASSUME TypeOK, NEW t \in Tasks, Compress(t)
  PROVE  TypeOK'
<1>. DEFINE T == copy[t].turns
            cut == T \ Newest(T)
<1>1. TasksOK /\ HistoryOK  BY DEF TypeOK
<1>2. T \subseteq Questions /\ Newest(T) \subseteq T /\ cut \subseteq Questions
      /\ copy[t].summary \subseteq Questions
  BY <1>1 DEF TasksOK, Copies, Newest
<1>3. copy' \in [Tasks -> Copies] /\ dropped' \subseteq Questions
  <2>1. CASE /\ copy' = [copy EXCEPT ![t] = [turns |-> Newest(T), summary |-> @.summary \cup cut]]
             /\ UNCHANGED dropped
    BY <1>1, <1>2, <2>1 DEF TasksOK, HistoryOK, Copies
  <2>2. CASE /\ copy' = [copy EXCEPT ![t].turns = Newest(T)]
             /\ dropped' = dropped \cup cut
    BY <1>1, <1>2, <2>2 DEF TasksOK, HistoryOK, Copies
  <2>. QED  BY <2>1, <2>2 DEF Compress
<1>4. pc' \in [Tasks -> Phases]  BY <1>1, GoType DEF Compress, TasksOK, Phases
<1>5. TasksOK'  BY <1>1, <1>3, <1>4 DEF Compress, TasksOK, expiry, storing, bounds
<1>6. HistoryOK'  BY <1>1, <1>3 DEF Compress, HistoryOK, doubts
<1>. QED  BY <1>5, <1>6, ElsewhereType DEF Compress, TypeOK

LEMMA FindSessionType ==
  ASSUME TypeOK, NEW t \in Tasks, FindSession(t)
  PROVE  TypeOK'
<1>1. pc' \in [Tasks -> Phases]  BY GoType DEF FindSession, TypeOK, TasksOK, Phases
<1>2. TasksOK'  BY <1>1 DEF FindSession, TypeOK, TasksOK, talk, expiry, storing, bounds
<1>. QED  BY <1>2, ElsewhereType DEF FindSession, TypeOK

LEMMA WriteSessionType ==
  ASSUME TypeOK, SessionPart, NEW t \in Tasks, WriteSession(t)
  PROVE  TypeOK'
<1>. DEFINE s == sess[t]
<1>1. TasksOK /\ BoundsOK /\ SessionsOK /\ HistoryOK  BY DEF TypeOK
<1>2. s \in Sessions /\ question[t] \in Questions /\ copy[t] \in Copies
  BY <1>1, SessionParts DEF OwnOK, PhaseOK, WriteSession, Asking, TasksOK
<1>3. SessionsOK' /\ HistoryOK'
  <2>1. CASE UNCHANGED <<sessions, told, raced>>
    BY <1>1, <2>1 DEF WriteSession, SessionsOK, HistoryOK, sessions, doubts
  <2>2. CASE /\ open' = open \cup {s} /\ old' = old \ {s}
             /\ stored' = [stored EXCEPT ![s] = copy[t]]
             /\ told' = [told EXCEPT ![s] = @ \cup {question[t]}]
             /\ raced' = IF IsHeld(t, s) THEN raced \cup {s} ELSE raced
    <3>1. SessionsOK'  BY <1>1, <1>2, <2>2 DEF SessionsOK
    <3>2. HistoryOK'  BY <1>1, <1>2, <2>2 DEF WriteSession, HistoryOK, doubts
    <3>. QED  BY <3>1, <3>2
  <2>. QED  BY <2>1, <2>2 DEF WriteSession
<1>4. TasksOK'  BY <1>1, DoneType DEF WriteSession, bounds
<1>. QED  BY <1>3, <1>4, ElsewhereType DEF WriteSession, TypeOK

LEMMA CloseType ==
  ASSUME TypeOK, NEW r \in Requests, NEW s \in Sessions, Close(r, s)
  PROVE  TypeOK'
<1>1. r \in Tasks  BY Constants
<1>2. TasksOK /\ SessionsOK  BY DEF TypeOK
<1>3. pc' \in [Tasks -> Phases]  BY <1>1, <1>2, GoType DEF Close, TasksOK, Phases
<1>4. sess' \in [Tasks -> Sessions \cup {NoSession}] /\ copy' \in [Tasks -> Copies]
  BY <1>1, <1>2 DEF Close, TasksOK, SessionsOK
<1>5. TasksOK'  BY <1>2, <1>3, <1>4 DEF Close, TasksOK, expiry, storing, bounds
<1>. QED  BY <1>5, ElsewhereType DEF Close, TypeOK

LEMMA StartExpiryType ==
  ASSUME TypeOK, StartExpiry
  PROVE  TypeOK'
<1>1. TasksOK /\ SessionsOK  BY DEF TypeOK
<1>2. pc' \in [Tasks -> Phases]  BY <1>1, GoType, Constants DEF StartExpiry, TasksOK, Phases
<1>3. list' \subseteq Sessions /\ snapshot' \in [Sessions -> Copies]
  BY <1>1, CopyTypes DEF StartExpiry, SessionsOK
<1>4. TasksOK'  BY <1>1, <1>2, <1>3 DEF StartExpiry, TasksOK, talk, storing, bounds
<1>. QED  BY <1>4, ElsewhereType DEF StartExpiry, TypeOK

LEMMA NextExpiredType ==
  ASSUME TypeOK, NEW s \in Sessions, NextExpired(s)
  PROVE  TypeOK'
<1>1. TasksOK  BY DEF TypeOK
<1>2. pc' \in [Tasks -> Phases]  BY <1>1, GoType, Constants DEF NextExpired, TasksOK, Phases
<1>3. /\ list' \subseteq Sessions /\ snapshot' \in [Sessions -> Copies]
      /\ sess' \in [Tasks -> Sessions \cup {NoSession}] /\ copy' \in [Tasks -> Copies]
  BY <1>1, CopyTypes, Constants DEF NextExpired, TasksOK
<1>4. TasksOK'  BY <1>1, <1>2, <1>3 DEF NextExpired, TasksOK, storing, bounds
<1>. QED  BY <1>4, ElsewhereType DEF NextExpired, TypeOK

LEMMA ExtractType ==
  ASSUME TypeOK, NEW t \in Tasks, NEW fs \in SUBSET Texts, Extract(t, fs)
  PROVE  TypeOK'
<1>1. TasksOK /\ HistoryOK  BY DEF TypeOK
<1>2. pc' \in [Tasks -> Phases]  BY <1>1, GoType DEF Extract, TasksOK, Phases
<1>3. facts' \in [Tasks -> SUBSET Texts]  BY <1>1 DEF Extract, TasksOK
<1>4. TasksOK'  BY <1>1, <1>2, <1>3 DEF Extract, TasksOK, talk, expiry, bounds
<1>5. HistoryOK'  BY <1>1, CopyTypes DEF Extract, TasksOK, HistoryOK, doubts
<1>. QED  BY <1>4, <1>5, ElsewhereType DEF Extract, TypeOK

LEMMA ExtractFailsType ==
  ASSUME TypeOK, NEW t \in Tasks, ExtractFails(t)
  PROVE  TypeOK'
<1>1. TasksOK /\ HistoryOK  BY DEF TypeOK
<1>2. pc' \in [Tasks -> Phases]  BY <1>1, GoType DEF ExtractFails, TasksOK, Phases
<1>3. TasksOK'  BY <1>1, <1>2 DEF ExtractFails, TasksOK, talk, expiry, storing, bounds
<1>4. HistoryOK'  BY <1>1, CopyTypes DEF ExtractFails, TasksOK, HistoryOK, doubts
<1>. QED  BY <1>3, <1>4, ElsewhereType DEF ExtractFails, TypeOK

LEMMA DeleteSessionType ==
  ASSUME TypeOK, SessionPart, NEW t \in Tasks, DeleteSession(t)
  PROVE  TypeOK'
<1>1. TasksOK /\ BoundsOK /\ SessionsOK /\ HistoryOK  BY DEF TypeOK
<1>2. sess[t] \in Sessions  BY SessionParts DEF OwnOK, PhaseOK, DeleteSession
<1>3. SessionsOK'  BY <1>1, <1>2, CopyTypes DEF DeleteSession, SessionsOK
<1>4. HistoryOK'  BY <1>1, <1>2 DEF DeleteSession, HistoryOK, doubts
<1>5. TasksOK'  BY <1>1, DoneType DEF DeleteSession, bounds
<1>. QED  BY <1>3, <1>4, <1>5, ElsewhereType DEF DeleteSession, TypeOK

LEMMA DeleteSessionFailsType ==
  ASSUME TypeOK, NEW t \in Tasks, DeleteSessionFails(t)
  PROVE  TypeOK'
<1>1. TasksOK /\ BoundsOK  BY DEF TypeOK
<1>2. pc' \in [Tasks -> Phases]  BY <1>1, GoType DEF DeleteSessionFails, TasksOK, Phases
<1>3. /\ list' \subseteq Sessions /\ snapshot' \in [Sessions -> Copies]
      /\ sess' \in [Tasks -> Sessions \cup {NoSession}] /\ copy' \in [Tasks -> Copies]
  BY <1>1, CopyTypes DEF DeleteSessionFails, TasksOK
<1>4. TasksOK'  BY <1>1, <1>2, <1>3 DEF DeleteSessionFails, TasksOK, storing
<1>5. BoundsOK'  BY <1>1, EventType DEF DeleteSessionFails
<1>. QED  BY <1>4, <1>5, ElsewhereType DEF DeleteSessionFails, TypeOK

LEMMA TargetType ==
  ASSUME TypeOK, NEW t \in Tasks, NEW ms \in SUBSET MemoryIds, Target(t, ms)
  PROVE  targets' \in [Tasks -> SUBSET MemoryIds] /\ unsynced' \subseteq MemoryIds
  BY DEF TypeOK, TasksOK, HistoryOK, Target

LEMMA FindSimilarType ==
  ASSUME TypeOK, NEW t \in Tasks, NEW f \in Texts, FindSimilar(t, f)
  PROVE  TypeOK'
<1>1. TasksOK /\ HistoryOK  BY DEF TypeOK
<1>2. /\ facts' \in [Tasks -> SUBSET Texts] /\ text' \in [Tasks -> Texts \cup {NoText}]
      /\ UNCHANGED <<talk, expiry, bounds, fates>>
  BY <1>1 DEF FindSimilar, TasksOK
<1>3. /\ pc' \in [Tasks -> Phases] /\ targets' \in [Tasks -> SUBSET MemoryIds]
      /\ unsynced' \subseteq MemoryIds /\ unchecked' \subseteq MemoryIds
  <2>1. ASSUME NEW m \in Similar(f), Target(t, {m}), Go(t, "revise"), UNCHANGED unchecked
        PROVE  <1>3
    <3>1. {m} \in SUBSET MemoryIds  BY DEF Similar
    <3>. QED  BY <1>1, <2>1, <3>1, TargetType, GoType DEF TasksOK, HistoryOK, Phases
  <2>2. CASE /\ Go(t, "add") /\ UNCHANGED <<targets, unsynced>>
             /\ unchecked' = unchecked \cup UNION {targets[u] : u \in Adding(t, f)}
    <3>1. UNION {targets[u] : u \in Adding(t, f)} \subseteq MemoryIds
      BY <1>1 DEF TasksOK, Adding
    <3>. QED  BY <1>1, <2>2, <3>1, GoType DEF TasksOK, HistoryOK, Phases
  <2>. QED  BY <2>1, <2>2 DEF FindSimilar
<1>4. TasksOK'  BY <1>1, <1>2, <1>3 DEF TasksOK, talk, expiry, bounds
<1>5. HistoryOK'  BY <1>1, <1>2, <1>3 DEF HistoryOK, fates
<1>. QED  BY <1>4, <1>5, ElsewhereType DEF FindSimilar, TypeOK

LEMMA FindSimilarFailsType ==
  ASSUME TypeOK, NEW t \in Tasks, NEW f \in Texts, FindSimilarFails(t, f)
  PROVE  TypeOK'
<1>1. TasksOK  BY DEF TypeOK
<1>2. PICK p \in {"store", "delete"} : Go(t, p)  BY DEF FindSimilarFails
<1>3. pc' \in [Tasks -> Phases]  BY <1>1, <1>2, GoType DEF TasksOK, Phases
<1>4. facts' \in [Tasks -> SUBSET Texts]  BY <1>1 DEF FindSimilarFails, TasksOK
<1>5. TasksOK'  BY <1>1, <1>3, <1>4 DEF FindSimilarFails, TasksOK, talk, expiry, bounds
<1>. QED  BY <1>5, ElsewhereType DEF FindSimilarFails, TypeOK

LEMMA AddMemoryType ==
  ASSUME TypeOK, NEW t \in Tasks, NEW m \in MemoryIds, AddMemory(t, m)
  PROVE  TypeOK'
<1>1. TasksOK /\ HistoryOK /\ MemoriesOK  BY DEF TypeOK
<1>2. pc' \in [Tasks -> Phases]  BY <1>1, GoType DEF AddMemory, TasksOK, Phases
<1>3. targets' \in [Tasks -> SUBSET MemoryIds] /\ unsynced' \subseteq MemoryIds
  BY TargetType DEF AddMemory
<1>4. TasksOK'  BY <1>1, <1>2, <1>3 DEF AddMemory, TasksOK, talk, expiry, bounds
<1>5. HistoryOK'  BY <1>1, <1>3 DEF AddMemory, HistoryOK, fates
<1>6. MemoriesOK'  BY <1>1 DEF AddMemory, MemoriesOK, TasksOK
<1>. QED  BY <1>4, <1>5, <1>6, ElsewhereType DEF AddMemory, TypeOK

LEMMA EditMemoryType ==
  ASSUME TypeOK, NEW r \in Requests, NEW m \in MemoryIds, NEW f \in Texts, EditMemory(r, m, f)
  PROVE  TypeOK'
<1>1. TasksOK /\ HistoryOK /\ BoundsOK /\ r \in Tasks  BY Constants DEF TypeOK
<1>2. pc' \in [Tasks -> Phases]  BY <1>1, GoType DEF EditMemory, TasksOK, Phases
<1>3. targets' \in [Tasks -> SUBSET MemoryIds] /\ unsynced' \subseteq MemoryIds
  BY <1>1, TargetType DEF EditMemory
<1>4. text' \in [Tasks -> Texts \cup {NoText}]  BY <1>1 DEF EditMemory, TasksOK
<1>5. TasksOK'  BY <1>1, <1>2, <1>3, <1>4 DEF EditMemory, TasksOK, talk, expiry
<1>6. HistoryOK'  BY <1>1, <1>3 DEF EditMemory, HistoryOK, fates
<1>7. BoundsOK'  BY <1>1, EventType DEF EditMemory
<1>. QED  BY <1>5, <1>6, <1>7, ElsewhereType DEF EditMemory, TypeOK

LEMMA ReviseMemoryType ==
  ASSUME TypeOK, NEW t \in Tasks, ReviseMemory(t)
  PROVE  TypeOK'
<1>1. TasksOK /\ MemoriesOK /\ HistoryOK  BY DEF TypeOK
<1>2. pc' \in [Tasks -> Phases]  BY <1>1, GoType DEF ReviseMemory, TasksOK, Phases
<1>3. TasksOK'  BY <1>1, <1>2 DEF ReviseMemory, TasksOK, talk, expiry, storing, bounds
<1>4. MemoriesOK'  BY <1>1 DEF ReviseMemory, MemoriesOK, TasksOK
<1>5. HistoryOK'
  <2>1. unchecked' \subseteq unchecked \cup targets[t]  BY DEF ReviseMemory
  <2>. QED  BY <1>1, <2>1 DEF ReviseMemory, HistoryOK, TasksOK, fates
<1>. QED  BY <1>3, <1>4, <1>5, ElsewhereType DEF ReviseMemory, TypeOK

LEMMA StoreFailsType ==
  ASSUME TypeOK, NEW t \in Tasks, StoreFails(t)
  PROVE  TypeOK'
<1>1. TasksOK'  BY DoneFactType DEF StoreFails, TypeOK, bounds
<1>. QED  BY <1>1, ElsewhereType DEF StoreFails, TypeOK

LEMMA UpsertType ==
  ASSUME TypeOK, NEW t \in Tasks, Upsert(t)
  PROVE  TypeOK'
<1>1. TasksOK'  BY DoneFactType DEF Upsert, TypeOK, bounds
<1>2. MemoriesOK'  BY DEF Upsert, TypeOK, MemoriesOK, TasksOK
<1>. QED  BY <1>1, <1>2, ElsewhereType DEF Upsert, TypeOK

LEMMA UpsertFailsType ==
  ASSUME TypeOK, NEW t \in Tasks, UpsertFails(t)
  PROVE  TypeOK'
<1>1. TasksOK'  BY DoneFactType DEF UpsertFails, TypeOK, bounds
<1>2. HistoryOK'  BY DEF UpsertFails, TypeOK, TasksOK, HistoryOK, fates
<1>. QED  BY <1>1, <1>2, ElsewhereType DEF UpsertFails, TypeOK

LEMMA DeleteMemoriesType ==
  ASSUME TypeOK, NEW r \in Requests, NEW ms \in SUBSET MemoryIds, DeleteMemories(r, ms)
  PROVE  TypeOK'
<1>1. TasksOK /\ HistoryOK /\ BoundsOK /\ MemoriesOK /\ r \in Tasks  BY Constants DEF TypeOK
<1>2. pc' \in [Tasks -> Phases]  BY <1>1, GoType DEF DeleteMemories, TasksOK, Phases
<1>3. targets' \in [Tasks -> SUBSET MemoryIds] /\ unsynced' \subseteq MemoryIds
  BY <1>1, TargetType DEF DeleteMemories
<1>4. TasksOK'  BY <1>1, <1>2, <1>3 DEF DeleteMemories, TasksOK, talk, expiry
<1>5. HistoryOK'  BY <1>1, <1>3 DEF DeleteMemories, HistoryOK, fates
<1>6. BoundsOK'  BY <1>1, EventType DEF DeleteMemories
<1>7. MemoriesOK'  BY <1>1 DEF DeleteMemories, MemoriesOK
<1>. QED  BY <1>4, <1>5, <1>6, <1>7, ElsewhereType DEF DeleteMemories, TypeOK

LEMMA DeleteVectorsType ==
  ASSUME TypeOK, NEW t \in Tasks, DeleteVectors(t)
  PROVE  TypeOK'
<1>1. TasksOK'  BY DoneFactType DEF DeleteVectors, TypeOK, bounds
<1>2. MemoriesOK'  BY DEF DeleteVectors, TypeOK, MemoriesOK
<1>3. HistoryOK'  BY DEF DeleteVectors, TypeOK, TasksOK, HistoryOK, fates
<1>. QED  BY <1>1, <1>2, <1>3, ElsewhereType DEF DeleteVectors, TypeOK

LEMMA AgeType ==
  ASSUME TypeOK, NEW s \in Sessions, Age(s)
  PROVE  TypeOK'
<1>1. SessionsOK'  BY DEF Age, TypeOK, SessionsOK
<1>2. TasksOK'  BY DEF Age, TypeOK, TasksOK, talk, expiry, storing, bounds
<1>. QED  BY <1>1, <1>2, ElsewhereType DEF Age, TypeOK

LEMMA RestartType ==
  ASSUME TypeOK, Restart
  PROVE  TypeOK'
<1>1. TasksOK'
  BY CopyTypes DEF Restart, TypeOK, TasksOK, BoundsOK, Phases
<1>2. HistoryOK'  BY DEF Restart, TypeOK, TasksOK, HistoryOK, fates
<1>3. BoundsOK'  BY EventType DEF Restart, TypeOK
<1>. QED  BY <1>1, <1>2, <1>3, ElsewhereType DEF Restart, TypeOK

-----------------------------------------------------------------------------
(* The steps.                                                              *)

\* What requests and the loop do with sessions leaves the memories alone, ...
AskOrClose(t)    == t \in Requests /\ \E s \in Sessions : Ask(t, s) \/ Close(t, s)
Answering(t)     == Answer(t) \/ NoAnswer(t) \/ Compress(t) \/ FindSession(t) \/ WriteSession(t)
ExtractOrDrop(t) == (\E fs \in SUBSET Texts : Extract(t, fs)) \/ ExtractFails(t)
                      \/ DeleteSession(t) \/ DeleteSessionFails(t)
ExpireStep(t)    == t = Loop /\ (StartExpiry \/ \E s \in Sessions : NextExpired(s))

SessionAction(t) == AskOrClose(t) \/ Answering(t) \/ ExtractOrDrop(t) \/ ExpireStep(t)

LEMMA SessionActionMemory ==
  ASSUME MemoryPart, TasksOK, NEW t \in Tasks, SessionAction(t)
  PROVE  MemoryPart'
<1>. DEFINE Moves(p) == Go(t, p) /\ pc[t] \notin AtWork /\ p \notin {"add", "revise"}
            Quiet == UNCHANGED <<memory, vector, text, targets, doubts>>
<1>1. ASSUME AskOrClose(t) PROVE Quiet /\ \E p : Moves(p)
  BY <1>1 DEF AskOrClose, Ask, Close, AtWork, memories, storing
<1>2. ASSUME Answering(t) PROVE Quiet /\ \E p : Moves(p)
  <2>1. CASE Answer(t)
    BY <2>1 DEF Answer, AtWork, memories, storing
  <2>2. CASE NoAnswer(t) \/ WriteSession(t)
    BY <2>2 DEF NoAnswer, WriteSession, Done, AtWork, memories, storing
  <2>3. CASE Compress(t)
    BY <2>3 DEF Compress, AtWork, memories, storing
  <2>4. CASE FindSession(t)
    BY <2>4 DEF FindSession, AtWork, memories, storing
  <2>. QED  BY <1>2, <2>1, <2>2, <2>3, <2>4 DEF Answering
<1>3. ASSUME ExtractOrDrop(t) PROVE Quiet /\ \E p : Moves(p)
  <2>1. ASSUME NEW fs \in SUBSET Texts, Extract(t, fs) PROVE Quiet /\ \E p : Moves(p)
    BY <2>1 DEF Extract, AtWork, memories
  <2>2. CASE DeleteSession(t)
    BY <2>2 DEF DeleteSession, Done, AtWork, memories, storing
  <2>3. CASE DeleteSessionFails(t)
    BY <2>3 DEF DeleteSessionFails, AtWork, memories, storing
  <2>4. CASE ExtractFails(t)
    BY <2>4 DEF ExtractFails, AtWork, memories, storing
  <2>. QED  BY <1>3, <2>1, <2>2, <2>3, <2>4 DEF ExtractOrDrop
<1>4. ASSUME ExpireStep(t) PROVE Quiet /\ \E p : Moves(p)
  BY <1>4 DEF ExpireStep, StartExpiry, NextExpired, AtWork, memories, storing
<1>5. Quiet /\ \E p : Moves(p)  BY <1>1, <1>2, <1>3, <1>4 DEF SessionAction
<1>. QED  BY <1>5, MemoryStays DEF TasksOK

\* ... and what they do with memories leaves the sessions alone.
Storing(t) ==
  \/ \E f \in Texts : FindSimilar(t, f) \/ FindSimilarFails(t, f)
  \/ \E m \in MemoryIds : AddMemory(t, m)
  \/ ReviseMemory(t)
Finishing(t) == StoreFails(t) \/ Upsert(t) \/ UpsertFails(t) \/ DeleteVectors(t)
UserAction(t) ==
  /\ t \in Requests
  /\ \/ \E m \in MemoryIds, f \in Texts : EditMemory(t, m, f)
     \/ \E ms \in SUBSET MemoryIds : DeleteMemories(t, ms)

MemoryAction(t) == Storing(t) \/ Finishing(t) \/ UserAction(t)

LEMMA MemoryActionSession ==
  ASSUME SessionPart, TasksOK, NEW t \in Tasks, MemoryAction(t)
  PROVE  SessionPart'
<1>. DEFINE Quiet == UNCHANGED <<sessions, talk, expiry, fates>>
            Moves(p) ==
              /\ Go(t, p)
              /\ \/ pc[t] \in Mining /\ p \in Mining /\ sess[t] \in Sessions
                 \/ pc[t] \in Mining /\ p \in Mining \ {"store", "delete"}
                 \/ sess[t] = NoSession /\ p \in {"idle", "revise", "embed", "unembed"}
<1>1. PhaseOK(t)  BY SessionParts DEF OwnOK
<1>2. ASSUME Storing(t) PROVE Quiet /\ \E p : Moves(p)
  <2>1. ASSUME NEW f \in Texts, FindSimilar(t, f) PROVE Quiet /\ \E p : Moves(p)
    <3>1. PICK p \in {"add", "revise"} : Go(t, p)  BY <2>1 DEF FindSimilar
    <3>2. Moves(p)  BY <2>1, <3>1 DEF FindSimilar, Mining
    <3>. QED  BY <2>1, <3>2 DEF FindSimilar
  <2>2. ASSUME NEW f \in Texts, FindSimilarFails(t, f) PROVE Quiet /\ \E p : Moves(p)
    <3>1. PICK p \in {"store", "delete"} : Go(t, p)  BY <2>2 DEF FindSimilarFails
    <3>2. Moves(p)  BY <1>1, <2>2, <3>1 DEF FindSimilarFails, Mining, PhaseOK
    <3>. QED  BY <2>2, <3>2 DEF FindSimilarFails
  <2>3. ASSUME NEW m \in MemoryIds, AddMemory(t, m) PROVE Quiet /\ \E p : Moves(p)
    BY <2>3 DEF AddMemory, Mining
  <2>4. CASE ReviseMemory(t)  BY <2>4 DEF ReviseMemory, Mining
  <2>. QED  BY <1>2, <2>1, <2>2, <2>3, <2>4 DEF Storing
<1>3. ASSUME Finishing(t) PROVE Quiet /\ \E p : Moves(p)
  <2>1. Quiet /\ DoneFact(t) /\ pc[t] \in {"add", "revise", "embed", "unembed"}
    BY <1>3 DEF Finishing, StoreFails, Upsert, UpsertFails, DeleteVectors
  <2>2. CASE sess[t] = NoSession
    <3>1. Moves("idle")  BY <2>1, <2>2 DEF DoneFact
    <3>. QED  BY <2>1, <3>1
  <2>3. CASE sess[t] # NoSession
    <3>1. PICK p \in {"store", "delete"} : Go(t, p)  BY <2>1, <2>3 DEF DoneFact
    <3>2. Moves(p)  BY <1>1, <2>1, <2>3, <3>1 DEF Mining, PhaseOK, TasksOK
    <3>. QED  BY <2>1, <3>2
  <2>. QED  BY <2>2, <2>3
<1>4. ASSUME UserAction(t) PROVE Quiet /\ \E p : Moves(p)
  BY <1>1, <1>4 DEF UserAction, EditMemory, DeleteMemories, PhaseOK
<1>5. Quiet /\ \E p : Moves(p)  BY <1>2, <1>3, <1>4 DEF MemoryAction
<1>. QED  BY <1>5, SessionsStay DEF TasksOK

LEMMA SessionActionInv ==
  ASSUME DiscoveryInv, NEW t \in Tasks, SessionAction(t)
  PROVE  DiscoveryInv'
<1>1. TypeOK /\ SessionPart /\ MemoryPart  BY InvParts
<1>2. SessionsOK /\ TasksOK /\ BoundsOK /\ HistoryOK  BY <1>1 DEF TypeOK
<1>3. MemoryPart'  BY <1>1, <1>2, SessionActionMemory
<1>4. TypeOK' /\ SessionPart'
  <2>1. CASE AskOrClose(t)
    BY <1>1, <1>2, <2>1, AskType, AskSession, CloseType, CloseSession DEF AskOrClose
  <2>2. CASE Answering(t)
    <3>1. TypeOK'
      BY <1>1, <2>2, AnswerType, NoAnswerType, CompressType, FindSessionType, WriteSessionType
         DEF Answering
    <3>2. SessionPart'
      BY <1>1, <1>2, <2>2, AnswerSession, NoAnswerSession, CompressSession,
         FindSessionSession, WriteSessionSession DEF Answering
    <3>. QED  BY <3>1, <3>2
  <2>3. CASE ExtractOrDrop(t)
    <3>1. TypeOK'
      BY <1>1, <2>3, ExtractType, ExtractFailsType, DeleteSessionType, DeleteSessionFailsType
         DEF ExtractOrDrop
    <3>2. SessionPart'
      BY <1>1, <1>2, <2>3, ExtractSession, ExtractFailsSession, DeleteSessionSession,
         DeleteSessionFailsSession
         DEF ExtractOrDrop
    <3>. QED  BY <3>1, <3>2
  <2>4. CASE ExpireStep(t)
    BY <1>1, <1>2, <2>4, StartExpiryType, NextExpiredType, StartExpirySession,
       NextExpiredSession DEF ExpireStep
  <2>. QED  BY <2>1, <2>2, <2>3, <2>4 DEF SessionAction
<1>. QED  BY <1>3, <1>4, InvParts

LEMMA MemoryActionInv ==
  ASSUME DiscoveryInv, NEW t \in Tasks, MemoryAction(t)
  PROVE  DiscoveryInv'
<1>1. TypeOK /\ SessionPart /\ MemoryPart  BY InvParts
<1>2. TasksOK /\ MemoriesOK  BY <1>1 DEF TypeOK
<1>3. SessionPart'  BY <1>1, <1>2, MemoryActionSession
<1>4. TypeOK' /\ MemoryPart'
  <2>1. CASE Storing(t)
    <3>1. TypeOK'
      BY <1>1, <2>1, FindSimilarType, FindSimilarFailsType, AddMemoryType, ReviseMemoryType
         DEF Storing
    <3>2. MemoryPart'
      BY <1>1, <1>2, <2>1, FindSimilarMemory, FindSimilarFailsMemory, AddMemoryMemory,
         ReviseMemoryMemory DEF Storing
    <3>. QED  BY <3>1, <3>2
  <2>2. CASE Finishing(t)
    <3>1. TypeOK'
      BY <1>1, <2>2, StoreFailsType, UpsertType, UpsertFailsType, DeleteVectorsType DEF Finishing
    <3>2. MemoryPart'
      BY <1>1, <1>2, <2>2, StoreFailsMemory, UpsertMemory, UpsertFailsMemory,
         DeleteVectorsMemory DEF Finishing
    <3>. QED  BY <3>1, <3>2
  <2>3. CASE UserAction(t)
    BY <1>1, <1>2, <2>3, EditMemoryType, DeleteMemoriesType, EditMemoryMemory,
       DeleteMemoriesMemory DEF UserAction
  <2>. QED  BY <2>1, <2>2, <2>3 DEF MemoryAction
<1>. QED  BY <1>3, <1>4, InvParts

LEMMA StutterInv ==
  ASSUME DiscoveryInv, UNCHANGED vars
  PROVE  DiscoveryInv'
<1>1. TypeOK /\ SessionPart /\ MemoryPart  BY InvParts
<1>. USE DEF vars
<1>2. TypeOK'
  <2>1. TasksOK'  BY <1>1 DEF TypeOK, TasksOK, talk, expiry, storing, bounds
  <2>. QED  BY <1>1, <2>1, ElsewhereType DEF TypeOK
<1>3. SessionPart'
  <2>1. OwnOK(Loop)'
    BY <1>1, SessionParts, Constants DEF OwnOK, PhaseOK, CopyCovers, sessions, talk, fates
  <2>. QED  BY <1>1, <2>1, QuietStep, Constants DEF sessions, talk, expiry, fates
<1>4. MemoryPart'
  BY <1>1 DEF MemoryPart, MemoryInv, AddInv, StoresAgree, NoTwins, Works, WorkOK,
              Doubtful, memories, storing, doubts
<1>. QED  BY <1>2, <1>3, <1>4, InvParts

LEMMA StepInv == DiscoveryInv /\ [Next]_vars => DiscoveryInv'
<1>. SUFFICES ASSUME DiscoveryInv, [Next]_vars PROVE DiscoveryInv'
  OBVIOUS
<1>1. TypeOK /\ SessionPart /\ MemoryPart  BY InvParts
<1>2. ASSUME NEW r \in Requests,
             \/ \E s \in Sessions : Ask(r, s) \/ Close(r, s)
             \/ \E m \in MemoryIds, f \in Texts : EditMemory(r, m, f)
             \/ \E ms \in SUBSET MemoryIds : DeleteMemories(r, ms)
      PROVE  DiscoveryInv'
  <2>1. r \in Tasks  BY Constants
  <2>2. AskOrClose(r) \/ UserAction(r)  BY <1>2 DEF AskOrClose, UserAction
  <2>. QED  BY <2>1, <2>2, SessionActionInv, MemoryActionInv DEF SessionAction, MemoryAction
<1>3. ASSUME NEW t \in Tasks, Step(t) PROVE DiscoveryInv'
  <2>1. Answering(t) \/ ExtractOrDrop(t) \/ Storing(t) \/ Finishing(t)
    BY <1>3 DEF Step, Answering, ExtractOrDrop, Storing, Finishing
  <2>2. CASE Storing(t) \/ Finishing(t)
    BY <2>2, MemoryActionInv DEF MemoryAction
  <2>3. CASE Answering(t) \/ ExtractOrDrop(t)
    BY <2>3, SessionActionInv DEF SessionAction
  <2>. QED  BY <2>1, <2>2, <2>3
<1>4. CASE Expire
  <2>1. ExpireStep(Loop) /\ Loop \in Tasks  BY <1>4, Constants DEF Expire, ExpireStep
  <2>. QED  BY <2>1, SessionActionInv DEF SessionAction
<1>5. ASSUME NEW s \in Sessions, Age(s) PROVE DiscoveryInv'
  BY <1>1, <1>5, AgeType, AgeSession, AgeMemory, InvParts
<1>6. CASE Restart
  <2>1. TasksOK  BY <1>1 DEF TypeOK
  <2>. QED  BY <1>1, <1>6, <2>1, RestartType, RestartSession, RestartMemory, InvParts
<1>7. CASE UNCHANGED vars  BY <1>7, StutterInv
<1>. QED  BY <1>2, <1>3, <1>4, <1>5, <1>6, <1>7 DEF Next

-----------------------------------------------------------------------------
(* The theorems.                                                           *)

\* The inductive invariant, and with it the types of all variables.  It needs what
\* each task knows of the session and the memories it is at work on (CopyCovers,
\* WorkOK), because a task goes on from what it has read across any await
\* (main.py:2130-2672).
THEOREM DiscoveryInvariant == Spec => []DiscoveryInv
<1>1. Init => DiscoveryInv  BY InitInv
<1>2. DiscoveryInv /\ [Next]_vars => DiscoveryInv'  BY StepInv
<1>. QED  BY <1>1, <1>2, PTL DEF Spec

\* D-19: an exchange stays in its session until an extraction has been attempted on
\* it, however questions, closes, the expiry loop, failures and restarts interleave;
\* excepted are exchanges whose summary failed, and sessions written or deleted while
\* another task held them.  Of an extraction that failed nothing remains.
THEOREM NothingIsForgotten == Spec => []NothingForgotten
<1>1. DiscoveryInv => NothingForgotten  BY DEF DiscoveryInv
<1>. QED  BY <1>1, DiscoveryInvariant, PTL

\* The rows of the memories and their vectors agree when nobody is at work on
\* them, whoever edits, deletes and extracts (main.py:2197-2222, 2298-2352).
THEOREM StoresAlwaysAgree == Spec => []StoresAgree
<1>1. DiscoveryInv => StoresAgree  BY DEF DiscoveryInv
<1>. QED  BY <1>1, DiscoveryInvariant, PTL

\* Of two memories with texts alike, one is out of step with its vector or could not
\* be compared (memory_store.py:65-71), whatever is near to what.
THEOREM NoTwinsHolds == Spec => []NoTwins
<1>1. DiscoveryInv => NoTwins  BY DEF DiscoveryInv
<1>. QED  BY <1>1, DiscoveryInvariant, PTL
=============================================================================
