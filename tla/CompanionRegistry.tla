-------------------------- MODULE CompanionRegistry --------------------------
(***************************************************************************)
(* The companion registry of one module and the handoff that uses it       *)
(* (spec 4.E, 4.F RequestCompanionSocket and ZygoteRestart).  The registry *)
(* and dispatcher code is not under src/; this module follows the spec,    *)
(* except the liveness probe, which is utils.rs is_socket_alive.           *)
(*                                                                         *)
(* Each RequestCompanionSocket connection runs obtain_companion under the  *)
(* module's mutex: reuse the cached socket if the probe says it is alive,  *)
(* otherwise drop it, spawn a companion and handshake with it.  After the  *)
(* mutex is released the handler sends the app's fd with a sentinel byte   *)
(* over the companion socket and forwards the companion's one-byte answer  *)
(* to the app.  A ZygoteRestart connection drops the cached socket.        *)
(* Companions serve their socket in order and may die at any time.         *)
(*                                                                         *)
(* poll(2) is abstracted to its result and the set of revents flags: a    *)
(* dead peer sets POLLHUP, unread data sets POLLIN, and with a timeout of  *)
(* 0 poll can still fail (EINTR, ENOMEM).                                  *)
(***************************************************************************)
EXTENDS Integers, Sequences

CONSTANTS
  Requests,    \* the RequestCompanionSocket handler threads
  MaxSpawns,   \* bound on the companion processes forked in a run
  None         \* no lock holder

ASSUME RegistryAssumption ==
  /\ MaxSpawns \in Nat \ {0}
  /\ None \notin Requests

Companions == 1..MaxSpawns

\* The one-byte answers of the handoff, by meaning: nonzero, zero.
Bytes == {"accepted", "declined"}

VARIABLES
  lock,      \* the module's companion mutex: a holder or None
  cached,    \* the cached companion socket: a companion, or 0
  comp,      \* comp[c]: "unborn", "alive" or "dead"
  inbox,     \* inbox[c]: handed-off app fds (by request) c has not answered
  outbox,    \* outbox[c]: answer bytes c wrote that no handler has read
  pc,        \* pc[r]: where handler r is
  use,       \* use[r]: the companion handler r obtained, 0 if none
  answer,    \* answer[r]: the byte r forwarded to its app, or "err"/"none"
  decision,  \* decision[r]: what the companion decided for r's fd (history)
  reused,    \* reused[r]: the state of the companion r reused (history)
  zpc,       \* the ZygoteRestart connection: "idle" or "done"
  after,     \* after[r]: r took the mutex after the restart finished
  born       \* born[c]: c was spawned after the restart finished

vars == <<lock, cached, comp, inbox, outbox, pc, use, answer, decision,
          reused, zpc, after, born>>

\* The flags poll reports on the socket to companion c.
Revents(c) ==
  (IF comp[c] = "dead" THEN {"POLLHUP"} ELSE {}) \cup
  (IF outbox[c] # <<>> THEN {"POLLIN"} ELSE {})

\* A mutation of IsSocketAlive: only the return value of poll is checked.
IsSocketAliveIgnoringRevents(ret, revents) == ret >= 0

\* is_socket_alive: poll(.., 1, 0) < 0 is dead; otherwise alive iff revents
\* has no flag besides POLLIN (`revents & !POLLIN == 0`).
IsSocketAlive(ret, revents) == ret >= 0 /\ revents \subseteq {"POLLIN"}

\* What poll(2) returns for companion c: the number of ready fds, or -1.
PollResults(c) == {IF Revents(c) = {} THEN 0 ELSE 1, -1}

Init ==
  /\ lock = None /\ cached = 0
  /\ comp = [c \in Companions |-> "unborn"]
  /\ inbox = [c \in Companions |-> <<>>] /\ outbox = [c \in Companions |-> <<>>]
  /\ pc = [r \in Requests |-> "lock"]
  /\ use = [r \in Requests |-> 0]
  /\ answer = [r \in Requests |-> "none"]
  /\ decision = [r \in Requests |-> "none"]
  /\ reused = [r \in Requests |-> "none"]
  /\ zpc = "idle"
  /\ after = [r \in Requests |-> FALSE]
  /\ born = [c \in Companions |-> FALSE]

Spawned == {c \in Companions : comp[c] # "unborn"}

\* A mutation of Acquire: obtain_companion runs without taking the mutex.
AcquireIgnoringLock(r) ==
  /\ pc[r] = "lock"
  /\ lock' = r /\ pc' = [pc EXCEPT ![r] = "check"]
  /\ after' = [after EXCEPT ![r] = (zpc = "done")]
  /\ UNCHANGED <<cached, comp, inbox, outbox, use, answer, decision, reused, zpc, born>>

\* Handler r takes the module's mutex.
Acquire(r) ==
  /\ pc[r] = "lock" /\ lock = None
  /\ lock' = r /\ pc' = [pc EXCEPT ![r] = "check"]
  /\ after' = [after EXCEPT ![r] = (zpc = "done")]
  /\ UNCHANGED <<cached, comp, inbox, outbox, use, answer, decision, reused, zpc, born>>

\* Steps 1-2: reuse a cached socket the probe calls alive, else close and
\* clear it.
Check(r) ==
  /\ pc[r] = "check"
  /\ IF cached = 0
       THEN pc' = [pc EXCEPT ![r] = "spawn"] /\ UNCHANGED <<cached, use, reused>>
       ELSE \E ret \in PollResults(cached) :
              IF IsSocketAlive(ret, Revents(cached))
                THEN /\ pc' = [pc EXCEPT ![r] = "unlock"]
                     /\ use' = [use EXCEPT ![r] = cached]
                     /\ reused' = [reused EXCEPT ![r] = comp[cached]]
                     /\ UNCHANGED cached
                ELSE /\ pc' = [pc EXCEPT ![r] = "spawn"] /\ cached' = 0
                     /\ UNCHANGED <<use, reused>>
  /\ UNCHANGED <<lock, comp, inbox, outbox, answer, decision, zpc, after, born>>

\* Step 3: socketpair and fork-and-exec of `companion <fd>`.  The fork or
\* the socketpair can fail (error, "no companion"); no more than MaxSpawns
\* companions are forked in a run.
Spawn(r) ==
  /\ pc[r] = "spawn"
  /\ \/ \E c \in Companions \ Spawned :
          /\ \A y \in Companions \ Spawned : c <= y
          /\ comp' = [comp EXCEPT ![c] = "alive"]
          /\ born' = [born EXCEPT ![c] = (zpc = "done")]
          /\ use' = [use EXCEPT ![r] = c]
          /\ pc' = [pc EXCEPT ![r] = "handshake"]
     \/ pc' = [pc EXCEPT ![r] = "unlock"] /\ UNCHANGED <<comp, born, use>>
  /\ UNCHANGED <<lock, cached, inbox, outbox, answer, decision, reused, zpc, after>>

\* Step 4-5: the name goes out, one status byte comes back.  Ready: cache
\* the socket.  Declined (the companion then exits) or the socket closed:
\* no companion.
Handshake(r) ==
  /\ pc[r] = "handshake"
  /\ pc' = [pc EXCEPT ![r] = "unlock"]
  /\ LET c == use[r] IN
     \/ comp[c] = "alive" /\ cached' = c /\ UNCHANGED <<comp, use>>
     \/ /\ comp' = [comp EXCEPT ![c] = "dead"]
        /\ use' = [use EXCEPT ![r] = 0] /\ UNCHANGED cached
  /\ UNCHANGED <<lock, inbox, outbox, answer, decision, reused, zpc, after, born>>

\* obtain_companion returns; the mutex is released.
Release(r) ==
  /\ pc[r] = "unlock"
  /\ lock' = None
  /\ pc' = [pc EXCEPT ![r] = IF use[r] # 0 THEN "send" ELSE "done"]
  /\ UNCHANGED <<cached, comp, inbox, outbox, use, answer, decision, reused, zpc, after, born>>

\* Handoff: the sentinel byte with the app's fd; a dead companion fails
\* the send (EPIPE) and the app's request fails.
Send(r) ==
  /\ pc[r] = "send"
  /\ IF comp[use[r]] = "alive"
       THEN /\ inbox' = [inbox EXCEPT ![use[r]] = Append(@, r)]
            /\ pc' = [pc EXCEPT ![r] = "reply"] /\ UNCHANGED answer
       ELSE /\ answer' = [answer EXCEPT ![r] = "err"]
            /\ pc' = [pc EXCEPT ![r] = "done"] /\ UNCHANGED inbox
  /\ UNCHANGED <<lock, cached, comp, outbox, use, decision, reused, zpc, after, born>>

\* A mutation of Reply: a 0-byte read on the closed socket is taken for
\* "nothing yet" and the read is retried.
ReplyEofRetry(r) ==
  /\ pc[r] = "reply"
  /\ \/ /\ outbox[use[r]] # <<>>
        /\ answer' = [answer EXCEPT ![r] = Head(outbox[use[r]])]
        /\ outbox' = [outbox EXCEPT ![use[r]] = Tail(@)]
        /\ pc' = [pc EXCEPT ![r] = "done"]
        /\ UNCHANGED <<lock, cached, comp, inbox, use, decision, reused, zpc, after, born>>
     \/ outbox[use[r]] = <<>> /\ comp[use[r]] = "dead" /\ UNCHANGED vars

\* The handler reads the companion's answer byte and forwards it; a closed
\* socket with nothing to read is an error.
Reply(r) ==
  /\ pc[r] = "reply"
  /\ \/ /\ outbox[use[r]] # <<>>
        /\ answer' = [answer EXCEPT ![r] = Head(outbox[use[r]])]
        /\ outbox' = [outbox EXCEPT ![use[r]] = Tail(@)]
     \/ /\ outbox[use[r]] = <<>> /\ comp[use[r]] = "dead"
        /\ answer' = [answer EXCEPT ![r] = "err"] /\ UNCHANGED outbox
  /\ pc' = [pc EXCEPT ![r] = "done"]
  /\ UNCHANGED <<lock, cached, comp, inbox, use, decision, reused, zpc, after, born>>

\* Companion c takes the next handed-off fd and accepts or declines it.
Serve(c) ==
  /\ comp[c] = "alive" /\ inbox[c] # <<>>
  /\ \E b \in Bytes :
       /\ decision' = [decision EXCEPT ![Head(inbox[c])] = b]
       /\ outbox' = [outbox EXCEPT ![c] = Append(@, b)]
  /\ inbox' = [inbox EXCEPT ![c] = Tail(@)]
  /\ UNCHANGED <<lock, cached, comp, pc, use, answer, reused, zpc, after, born>>

\* Companion c exits or is killed; unanswered fds are lost.
Die(c) ==
  /\ comp[c] = "alive"
  /\ comp' = [comp EXCEPT ![c] = "dead"]
  /\ inbox' = [inbox EXCEPT ![c] = <<>>]
  /\ UNCHANGED <<lock, cached, outbox, pc, use, answer, decision, reused, zpc, after, born>>

\* A mutation of Restart: the cached socket is dropped without taking the
\* module's mutex.
RestartUnlocked ==
  /\ zpc = "idle"
  /\ cached' = 0 /\ zpc' = "done"
  /\ UNCHANGED <<lock, comp, inbox, outbox, pc, use, answer, decision, reused, after, born>>

\* ZygoteRestart: take the module's mutex, drop the cached socket (the
\* companion is not killed), release the mutex.  Nothing else touches the
\* slot while the mutex is held, so the three steps are one action.
Restart ==
  /\ zpc = "idle" /\ lock = None
  /\ cached' = 0 /\ zpc' = "done"
  /\ UNCHANGED <<lock, comp, inbox, outbox, pc, use, answer, decision, reused, after, born>>

Handler(r) ==
  \/ Acquire(r) \/ Check(r) \/ Spawn(r) \/ Handshake(r) \/ Release(r)
  \/ Send(r) \/ Reply(r)

Terminated ==
  /\ \A r \in Requests : pc[r] = "done"
  /\ zpc = "done"
  /\ \A c \in Companions : inbox[c] = <<>> \/ comp[c] = "dead"
  /\ UNCHANGED vars

Next ==
  \/ \E r \in Requests : Handler(r)
  \/ \E c \in Companions : Serve(c) \/ Die(c)
  \/ Restart
  \/ Terminated

\* Handler threads and companion processes are scheduled by the kernel;
\* a companion's death is never assumed.
Fairness ==
  /\ \A r \in Requests : WF_vars(Handler(r))
  /\ \A c \in Companions : WF_vars(Serve(c))
  /\ WF_vars(Restart)

Spec == Init /\ [][Next]_vars /\ Fairness

-----------------------------------------------------------------------------
(* Properties.                                                             *)

TypeOK ==
  /\ lock \in Requests \cup {None} /\ cached \in Companions \cup {0}
  /\ comp \in [Companions -> {"unborn", "alive", "dead"}]
  /\ inbox \in [Companions -> Seq(Requests)] /\ outbox \in [Companions -> Seq(Bytes)]
  /\ pc \in [Requests -> {"lock", "check", "spawn", "handshake", "unlock",
                          "send", "reply", "done"}]
  /\ use \in [Requests -> Companions \cup {0}]
  /\ answer \in [Requests -> Bytes \cup {"err", "none"}]
  /\ decision \in [Requests -> Bytes \cup {"none"}]
  /\ reused \in [Requests -> {"none", "unborn", "alive", "dead"}]
  /\ zpc \in {"idle", "done"}
  /\ after \in [Requests -> BOOLEAN] /\ born \in [Companions -> BOOLEAN]

\* Spec 4.E liveness: a cached companion socket is reused only while its
\* companion is alive.  is_socket_alive must call a hung-up peer dead even
\* when poll returns a positive count, and poll's own failure dead too.
ReusedOnlyIfAlive == \A r \in Requests : reused[r] \in {"none", "alive"}

\* Spec 8.4: a RequestCompanionSocket that takes the mutex after a
\* ZygoteRestart has finished is served by a companion spawned after it,
\* never by one cached before it.
FreshAfterRestart ==
  \A r \in Requests : after[r] /\ use[r] # 0 => born[use[r]]

\* Spec 4.E, the per-module mutex: the cached companion socket is only
\* dropped, or filled while empty with a companion that just answered the
\* handshake.  Without the mutex, two handlers that both found no live
\* socket would each spawn a companion and the second would overwrite
\* (and leak) the socket the first had cached.
CachedFilledOnlyWhenEmpty ==
  [][cached' # cached => cached' = 0 \/ (cached = 0 /\ comp'[cached'] = "alive")]_vars

\* Spec 4.E handoff: the byte a handler forwards to its app is the
\* decision the companion made on that app's descriptor.
ReplyMatchesDecision ==
  \A r \in Requests : answer[r] \in Bytes => answer[r] = decision[r]

\* Spec 7: every RequestCompanionSocket connection ends, with the
\* companion's answer or an error, even when its companion dies
\* after the liveness check.
EveryRequestAnswered == \A r \in Requests : <>(pc[r] = "done")

=============================================================================
