---------------------------- MODULE EmbedCircuit ----------------------------
(***************************************************************************)
(* The embed circuit breaker (backend/ollama_queue.py:57-62, 106-166), the *)
(* loops that embed a document under it, in three attempts (the background *)
(* index, main.py:457-504, and the webhook, main.py:3722-3748), and the    *)
(* health monitor that closes it (main.py:573-608).  The cached health is  *)
(* written by the circuit and by the status page (main.py:3402-3427).      *)
(*                                                                         *)
(* Waiters of an asyncio.Event all go on when it is set, even if it is     *)
(* cleared again before they run: closing the circuit releases them.       *)
(***************************************************************************)
EXTENDS Integers, FiniteSets, FiniteSetsExt

CONSTANTS
  Docs,
  Poison,     \* documents whose embedding fails whatever the service does
  Deferred    \* documents of webhooks in a deferred mode: they are only marked

ASSUME CircuitAssumption == Poison \subseteq Docs /\ Deferred \subseteq Docs \ Poison

Threshold == 3           \* _EMBED_FAILURE_THRESHOLD
Attempts  == 3
MinInterval == 30
MaxInterval == 300

VARIABLES
  up,        \* the embedding service answers
  open,      \* ~_embed_available
  fails,     \* _consecutive_embed_failures, up to Threshold
  health,    \* cached_health["embed"]: "none", "up", "down"
  monitor,   \* [pc: "sleep", "probe"; interval: until it looks again]
  embed,     \* of each document [pc, tries]
  writer     \* history: who last wrote the circuit or the cached health:
             \* "circuit" (both of them), "settings" (only the circuit), "status"
             \* (only the cached health)

circuit == <<open, fails, health, writer>>
vars == <<up, circuit, monitor, embed>>

-----------------------------------------------------------------------------
(* The circuit: each operator is called by one of the loops.  next is what *)
(* the loops are to be after the call, but for those that waited.          *)

\* await_embed_available returns.
Released(next) ==
  [d \in Docs |-> IF next[d].pc = "waiting" THEN [next[d] EXCEPT !.pc = "embedding"]
                  ELSE next[d]]

RecordFailure(next) ==
  /\ fails' = Min({fails + 1, Threshold})
  /\ open' = (open \/ fails + 1 >= Threshold)
  /\ health' = IF fails + 1 >= Threshold THEN "down" ELSE health
  /\ writer' = IF fails + 1 >= Threshold THEN "circuit" ELSE writer
  /\ embed' = next

\* Mutant of HealthAfterSuccess: the cached health is left to the next probe.
HealthAfterSuccessKept == health

HealthAfterSuccess == "up"

\* Mutant of Freed: nobody is woken.
FreedNone(next) == next

Freed(next) == Released(next)

RecordSuccess(next) ==
  /\ fails' = 0 /\ open' = FALSE
  /\ health' = HealthAfterSuccess
  /\ writer' = "circuit"
  /\ embed' = Freed(next)

\* reset_embed_circuit, after the stores were made anew: the cached health is not told.
ResetCircuit ==
  /\ fails' = 0 /\ open' = FALSE
  /\ writer' = IF open THEN "settings" ELSE writer
  /\ embed' = Released(embed)
  /\ UNCHANGED <<up, health, monitor>>

\* GET /api/status, when the cached health is a minute old: what it finds is written
\* whatever the circuit is.  It asks less than an embedding (for some providers only
\* whether the credentials are right) and gives up after three seconds: it may find the
\* service up or down whatever it is.
StatusCheck ==
  /\ health' \in {"up", "down"}
  /\ writer' = "status"
  /\ UNCHANGED <<up, open, fails, monitor, embed>>

-----------------------------------------------------------------------------
(* The loops.                                                              *)

\* A loop comes to the document: it waits for the circuit, or calls the service.
Attempt(d) == IF open THEN "waiting" ELSE "embedding"

Arrive(d) ==
  /\ embed[d].pc \in {"idle", "done", "gaveup"}
  /\ embed' = [embed EXCEPT ![d] = [pc |-> Attempt(d), tries |-> 1]]
  /\ UNCHANGED <<up, circuit, monitor>>

\* The document is embedded, or marked, and either counts as a success.
Succeed(d) ==
  /\ embed[d].pc = "embedding"
  /\ d \in Deferred \/ (up /\ d \notin Poison)
  /\ RecordSuccess([embed EXCEPT ![d].pc = "done"])
  /\ UNCHANGED <<up, monitor>>

\* The attempt fails: the next one comes after two or four seconds, or there is none.
Fail(d) ==
  /\ embed[d].pc = "embedding"
  /\ d \notin Deferred /\ (~up \/ d \in Poison)
  /\ RecordFailure([embed EXCEPT ![d].pc = IF embed[d].tries < Attempts
                                           THEN "backoff" ELSE "gaveup"])
  /\ UNCHANGED <<up, monitor>>

Retry(d) ==
  /\ embed[d].pc = "backoff"
  /\ embed' = [embed EXCEPT ![d] = [pc |-> Attempt(d), tries |-> embed[d].tries + 1]]
  /\ UNCHANGED <<up, circuit, monitor>>

\* A mismatch of dimensions is no failure of the service.  It ends the run of the
\* index: this document is given up, and those that sleep until their next attempt.
Mismatch(d) ==
  /\ embed[d].pc = "embedding" /\ up /\ d \notin Deferred
  /\ embed' = [x \in Docs |-> IF x = d \/ (x \notin Deferred /\ embed[x].pc = "backoff")
                              THEN [embed[x] EXCEPT !.pc = "gaveup"] ELSE embed[x]]
  /\ UNCHANGED <<up, circuit, monitor>>

-----------------------------------------------------------------------------
(* The health monitor.                                                     *)

\* Mutant of Backoff: there is no cap.
BackoffUncapped(i) == 2 * i

Backoff(i) == Min({2 * i, MaxInterval})

\* It wakes: nothing to do, or a probe.
Look ==
  /\ monitor.pc = "sleep"
  /\ monitor' = IF open THEN [monitor EXCEPT !.pc = "probe"]
                ELSE [monitor EXCEPT !.interval = MinInterval]
  /\ UNCHANGED <<up, circuit, embed>>

ProbeSucceeds ==
  /\ monitor.pc = "probe" /\ up
  /\ RecordSuccess(embed)
  /\ monitor' = [pc |-> "sleep", interval |-> MinInterval]
  /\ UNCHANGED up

ProbeFails ==
  /\ monitor.pc = "probe" /\ ~up
  /\ monitor' = [pc |-> "sleep", interval |-> Backoff(monitor.interval)]
  /\ UNCHANGED <<up, circuit, embed>>

\* No answer in ten seconds: the interval stays.
ProbeTimesOut ==
  /\ monitor.pc = "probe" /\ ~up
  /\ monitor' = [monitor EXCEPT !.pc = "sleep"]
  /\ UNCHANGED <<up, circuit, embed>>

\* The service goes down or comes back.
Flip ==
  /\ up' = ~up
  /\ UNCHANGED <<circuit, monitor, embed>>

-----------------------------------------------------------------------------
Init ==
  /\ up \in BOOLEAN
  /\ open = FALSE /\ fails = 0 /\ health = "none" /\ writer = "circuit"
  /\ monitor = [pc |-> "sleep", interval |-> MinInterval]
  /\ embed = [d \in Docs |-> [pc |-> "idle", tries |-> 0]]

Loop(d) == Succeed(d) \/ Fail(d) \/ Retry(d)

Monitor == Look \/ ProbeSucceeds \/ ProbeFails \/ ProbeTimesOut

Next ==
  \/ \E d \in Docs : Arrive(d) \/ Loop(d) \/ Mismatch(d)
  \/ Monitor \/ ResetCircuit \/ StatusCheck \/ Flip

Spec == Init /\ [][Next]_vars

\* The loops and the monitor are tasks of the event loop, and every wait of theirs
\* but the one for the circuit has a time limit: the model's, two or four seconds,
\* ten seconds, at most MaxInterval.
LiveSpec ==
  Spec /\ (\A d \in Docs : WF_vars(Loop(d))) /\ WF_vars(Monitor)

-----------------------------------------------------------------------------
\* Types; the monitor waits thirty seconds, or twice as long each time, up to the cap.
TypeOK ==
  /\ up \in BOOLEAN /\ open \in BOOLEAN /\ writer \in {"circuit", "settings", "status"}
  /\ fails \in 0..Threshold /\ health \in {"none", "up", "down"}
  /\ monitor \in [pc : {"sleep", "probe"}, interval : {30, 60, 120, 240, 300}]
  /\ embed \in [Docs -> [pc : {"idle", "waiting", "embedding", "backoff", "done", "gaveup"},
                         tries : 0..Attempts]]

\* Scans are refused while the cached health says down (main.py:316, 4384), which is
\* meant to be while the circuit is open: it is so as long as the circuit was the last
\* to write them.  A change of the settings closes the circuit alone, and the status
\* page writes the cached health alone: until the next embedding that succeeds, or that
\* opens the circuit, nothing relates the two.
HealthAgrees == writer = "circuit" => (health = "down" <=> open)

\* Once the service stays up, every document that a loop has in hand is embedded or
\* given up: the monitor finds out and closes the circuit.
Finishes ==
  <>[]up => \A d \in Docs : embed[d].pc = "waiting" ~> embed[d].pc \in {"done", "gaveup"}
=============================================================================
