------------------------ MODULE CompanionRegistry_proofs ------------------------
(***************************************************************************)
(* Proofs about one module's companion registry (CompanionRegistry), for   *)
(* any number of RequestCompanionSocket handlers and any bound on spawns.  *)
(***************************************************************************)
EXTENDS CompanionRegistry, SequenceTheorems, TLAPS

USE RegistryAssumption

\* The steps of obtain_companion that run under the module's mutex.
CS == {"check", "spawn", "handshake", "unlock"}

-----------------------------------------------------------------------------
(* Type correctness.                                                       *)

\* The handoff steps act on the companion the handler obtained.
UseInv ==
  \A r \in Requests : pc[r] \in {"handshake", "send", "reply"} => use[r] # 0

LEMMA TypeInit == Init => TypeOK /\ UseInv
  BY DEF Init, TypeOK, UseInv, Companions

LEMMA TypeStep == TypeOK /\ UseInv /\ [Next]_vars => (TypeOK /\ UseInv)'
  <1> SUFFICES ASSUME TypeOK, UseInv, [Next]_vars PROVE (TypeOK /\ UseInv)'
    OBVIOUS
  <1> USE DEF TypeOK, UseInv, Companions, Bytes
  <1>1. ASSUME NEW r \in Requests, Acquire(r) PROVE (TypeOK /\ UseInv)'
    BY <1>1 DEF Acquire
  <1>2. ASSUME NEW r \in Requests, Check(r) PROVE (TypeOK /\ UseInv)'
    <2>1. CASE cached = 0
      BY <1>2, <2>1 DEF Check
    <2>2. CASE cached # 0
      <3>1. PICK ret \in PollResults(cached) :
                IF IsSocketAlive(ret, Revents(cached))
                  THEN /\ pc' = [pc EXCEPT ![r] = "unlock"]
                       /\ use' = [use EXCEPT ![r] = cached]
                       /\ reused' = [reused EXCEPT ![r] = comp[cached]]
                       /\ UNCHANGED cached
                  ELSE /\ pc' = [pc EXCEPT ![r] = "spawn"] /\ cached' = 0
                       /\ UNCHANGED <<use, reused>>
        BY <1>2, <2>2 DEF Check
      <3>2. UNCHANGED <<lock, comp, inbox, outbox, answer, decision, zpc, after, born>>
        BY <1>2 DEF Check
      <3>3. CASE IsSocketAlive(ret, Revents(cached))
        <4>1. cached \in Companions
          BY <2>2
        <4>2. pc' = [pc EXCEPT ![r] = "unlock"] /\ use' = [use EXCEPT ![r] = cached]
              /\ reused' = [reused EXCEPT ![r] = comp[cached]] /\ cached' = cached
          BY <3>1, <3>3
        <4>3. comp[cached] \in {"unborn", "alive", "dead"}
          BY <4>1
        <4>4. QED
          BY <3>2, <4>1, <4>2, <4>3
      <3>4. CASE ~IsSocketAlive(ret, Revents(cached))
        BY <1>2, <3>1, <3>2, <3>4 DEF Check
      <3>5. QED
        BY <3>3, <3>4
    <2>3. QED
      BY <2>1, <2>2
  <1>3. ASSUME NEW r \in Requests, Spawn(r) PROVE (TypeOK /\ UseInv)'
    <2>1. UNCHANGED <<lock, cached, inbox, outbox, answer, decision, reused, zpc, after>>
      BY <1>3 DEF Spawn
    <2>2. CASE \E c \in Companions \ Spawned :
                 /\ comp' = [comp EXCEPT ![c] = "alive"]
                 /\ born' = [born EXCEPT ![c] = (zpc = "done")]
                 /\ use' = [use EXCEPT ![r] = c]
                 /\ pc' = [pc EXCEPT ![r] = "handshake"]
      <3>1. PICK c \in Companions :
                 /\ comp' = [comp EXCEPT ![c] = "alive"]
                 /\ born' = [born EXCEPT ![c] = (zpc = "done")]
                 /\ use' = [use EXCEPT ![r] = c]
                 /\ pc' = [pc EXCEPT ![r] = "handshake"]
        BY <2>2
      <3>2. c # 0
        BY <3>1
      <3>3. QED
        BY <2>1, <3>1, <3>2
    <2>3. CASE pc' = [pc EXCEPT ![r] = "unlock"] /\ UNCHANGED <<comp, born, use>>
      BY <2>1, <2>3
    <2>4. QED
      BY <1>3, <2>2, <2>3 DEF Spawn
  <1>4. ASSUME NEW r \in Requests, Handshake(r) PROVE (TypeOK /\ UseInv)'
    <2>1. use[r] \in Companions
      BY <1>4 DEF Handshake
    <2>2. CASE comp[use[r]] = "alive" /\ cached' = use[r] /\ UNCHANGED <<comp, use>>
      BY <1>4, <2>1, <2>2 DEF Handshake
    <2>3. CASE comp' = [comp EXCEPT ![use[r]] = "dead"] /\ use' = [use EXCEPT ![r] = 0]
                /\ UNCHANGED cached
      BY <1>4, <2>1, <2>3 DEF Handshake
    <2>4. QED
      BY <1>4, <2>2, <2>3 DEF Handshake
  <1>5. ASSUME NEW r \in Requests, Release(r) PROVE (TypeOK /\ UseInv)'
    BY <1>5 DEF Release
  <1>6. ASSUME NEW r \in Requests, Send(r) PROVE (TypeOK /\ UseInv)'
    <2>1. use[r] \in Companions
      BY <1>6 DEF Send
    <2>2. CASE comp[use[r]] = "alive"
      <3>1. Append(inbox[use[r]], r) \in Seq(Requests)
        BY <2>1, AppendProperties
      <3>2. /\ inbox' = [inbox EXCEPT ![use[r]] = Append(@, r)]
            /\ pc' = [pc EXCEPT ![r] = "reply"]
            /\ UNCHANGED <<answer, lock, cached, comp, outbox, use, decision, reused, zpc, after, born>>
        BY <1>6, <2>2 DEF Send
      <3>3. inbox' \in [Companions -> Seq(Requests)]
        BY <2>1, <3>1, <3>2
      <3>4. /\ pc' = [pc EXCEPT ![r] = "reply"]
            /\ UNCHANGED <<answer, lock, cached, comp, outbox, use, decision, reused, zpc, after, born>>
        BY <3>2
      <3>5. QED
        BY <2>1, <3>3, <3>4
    <2>3. CASE comp[use[r]] # "alive"
      BY <1>6, <2>3 DEF Send
    <2>4. QED
      BY <2>2, <2>3
  <1>7. ASSUME NEW r \in Requests, Reply(r) PROVE (TypeOK /\ UseInv)'
    <2>1. use[r] \in Companions
      BY <1>7 DEF Reply
    <2>2. CASE outbox[use[r]] # <<>>
      <3>1. Head(outbox[use[r]]) \in Bytes /\ Tail(outbox[use[r]]) \in Seq(Bytes)
        BY <2>1, <2>2, HeadTailProperties
      <3>2. /\ answer' = [answer EXCEPT ![r] = Head(outbox[use[r]])]
            /\ outbox' = [outbox EXCEPT ![use[r]] = Tail(@)]
            /\ pc' = [pc EXCEPT ![r] = "done"]
            /\ UNCHANGED <<lock, cached, comp, inbox, use, decision, reused, zpc, after, born>>
        BY <1>7, <2>2 DEF Reply
      <3>3. QED
        BY <2>1, <3>1, <3>2
    <2>3. CASE outbox[use[r]] = <<>>
      BY <1>7, <2>3 DEF Reply
    <2>4. QED
      BY <2>2, <2>3
  <1>8. ASSUME NEW c \in Companions, Serve(c) PROVE (TypeOK /\ UseInv)'
    <2>1. Head(inbox[c]) \in Requests /\ Tail(inbox[c]) \in Seq(Requests)
      BY <1>8, HeadTailProperties DEF Serve
    <2>2. PICK b \in Bytes :
            /\ decision' = [decision EXCEPT ![Head(inbox[c])] = b]
            /\ outbox' = [outbox EXCEPT ![c] = Append(@, b)]
      BY <1>8 DEF Serve
    <2>3. Append(outbox[c], b) \in Seq(Bytes)
      BY AppendProperties
    <2>4. QED
      BY <1>8, <2>1, <2>2, <2>3 DEF Serve
  <1>9. ASSUME NEW c \in Companions, Die(c) PROVE (TypeOK /\ UseInv)'
    BY <1>9 DEF Die
  <1>10. CASE Restart
    BY <1>10 DEF Restart
  <1>11. CASE Terminated \/ UNCHANGED vars
    BY <1>11 DEF Terminated, vars
  <1>12. QED
    BY <1>1, <1>2, <1>3, <1>4, <1>5, <1>6, <1>7, <1>8, <1>9, <1>10, <1>11
       DEF Next, Handler

\* Every reachable state is well typed, and a handler past the spawn step
\* holds a companion.
THEOREM TypeCorrect == Spec => [](TypeOK /\ UseInv)
  BY TypeInit, TypeStep, PTL DEF Spec

-----------------------------------------------------------------------------
(* The safety invariants of the registry.                                  *)

\* Only the mutex holder is inside obtain_companion.
MutexInv == \A r \in Requests : pc[r] \in CS => lock = r

\* No ZygoteRestart falls inside a handler's critical section, and the
\* restart, once done, stays done.
RestartInv ==
  /\ \A r \in Requests : pc[r] \in CS => after[r] = (zpc = "done")
  /\ \A r \in Requests : after[r] => zpc = "done"

\* A socket that is cached or held belongs to a forked companion, and the
\* socket cached after the restart belongs to a companion forked after it.
SocketInv ==
  /\ cached # 0 => comp[cached] # "unborn"
  /\ \A r \in Requests : use[r] # 0 => comp[use[r]] # "unborn"
  /\ zpc = "done" /\ cached # 0 => born[cached]

\* A handler holds no companion before obtain_companion has obtained one.
IdleInv == \A r \in Requests : pc[r] \in {"lock", "check", "spawn"} => use[r] = 0

SafetyInv ==
  /\ MutexInv /\ RestartInv /\ SocketInv /\ IdleInv
  /\ ReusedOnlyIfAlive /\ FreshAfterRestart

RegistryInv == TypeOK /\ UseInv /\ SafetyInv

LEMMA RegistryInit == Init => RegistryInv
  BY TypeInit DEF Init, RegistryInv, SafetyInv, MutexInv, RestartInv, SocketInv,
                  IdleInv, ReusedOnlyIfAlive, FreshAfterRestart, CS

LEMMA SafetyStep == TypeOK /\ UseInv /\ SafetyInv /\ [Next]_vars => SafetyInv'
  <1> SUFFICES ASSUME TypeOK, UseInv, SafetyInv, [Next]_vars PROVE SafetyInv'
    OBVIOUS
  <1> USE DEF TypeOK, UseInv, SafetyInv, MutexInv, RestartInv, SocketInv, IdleInv,
              ReusedOnlyIfAlive, FreshAfterRestart, CS, Companions
  <1>1. ASSUME NEW r \in Requests, Acquire(r) PROVE SafetyInv'
    <2>1. \A q \in Requests : pc[q] \notin CS
      BY <1>1 DEF Acquire
    <2>2. use[r] = 0
      BY <1>1 DEF Acquire
    <2>3. QED
      BY <1>1, <2>1, <2>2 DEF Acquire
  <1>2. ASSUME NEW r \in Requests, Check(r) PROVE SafetyInv'
    <2>1. UNCHANGED <<lock, comp, inbox, outbox, answer, decision, zpc, after, born>>
      BY <1>2 DEF Check
    <2>2. CASE cached = 0
      BY <1>2, <2>1, <2>2 DEF Check
    <2>3. CASE cached # 0
      <3>1. PICK ret \in PollResults(cached) :
                IF IsSocketAlive(ret, Revents(cached))
                  THEN /\ pc' = [pc EXCEPT ![r] = "unlock"]
                       /\ use' = [use EXCEPT ![r] = cached]
                       /\ reused' = [reused EXCEPT ![r] = comp[cached]]
                       /\ UNCHANGED cached
                  ELSE /\ pc' = [pc EXCEPT ![r] = "spawn"] /\ cached' = 0
                       /\ UNCHANGED <<use, reused>>
        BY <1>2, <2>3 DEF Check
      <3>2. CASE IsSocketAlive(ret, Revents(cached))
        <4>1. comp[cached] # "dead"
          BY <3>2 DEF IsSocketAlive, Revents
        <4>2. comp[cached] = "alive"
          BY <2>3, <4>1
        <4>3. after[r] => born[cached]
          BY <1>2, <2>3 DEF Check
        <4>4. pc' = [pc EXCEPT ![r] = "unlock"] /\ use' = [use EXCEPT ![r] = cached]
              /\ reused' = [reused EXCEPT ![r] = comp[cached]] /\ cached' = cached
          BY <3>1, <3>2
        <4>5. QED
          BY <1>2, <2>1, <2>3, <4>2, <4>3, <4>4 DEF Check
      <3>3. CASE ~IsSocketAlive(ret, Revents(cached))
        <4>1. pc' = [pc EXCEPT ![r] = "spawn"] /\ cached' = 0 /\ UNCHANGED <<use, reused>>
          BY <3>1, <3>3
        <4>2. QED
          BY <1>2, <2>1, <4>1 DEF Check
      <3>4. QED
        BY <3>2, <3>3
    <2>4. QED
      BY <2>2, <2>3
  <1>3. ASSUME NEW r \in Requests, Spawn(r) PROVE SafetyInv'
    <2>1. UNCHANGED <<lock, cached, inbox, outbox, answer, decision, reused, zpc, after>>
      BY <1>3 DEF Spawn
    <2>2. CASE \E c \in Companions \ Spawned :
                 /\ comp' = [comp EXCEPT ![c] = "alive"]
                 /\ born' = [born EXCEPT ![c] = (zpc = "done")]
                 /\ use' = [use EXCEPT ![r] = c]
                 /\ pc' = [pc EXCEPT ![r] = "handshake"]
      <3>1. PICK c \in Companions \ Spawned :
                 /\ comp' = [comp EXCEPT ![c] = "alive"]
                 /\ born' = [born EXCEPT ![c] = (zpc = "done")]
                 /\ use' = [use EXCEPT ![r] = c]
                 /\ pc' = [pc EXCEPT ![r] = "handshake"]
        BY <2>2
      <3>2. comp[c] = "unborn"
        BY DEF Spawned
      <3>3. cached # c /\ \A q \in Requests : use[q] # c
        <4>1. c # 0
          OBVIOUS
        <4>2. cached # c
          BY <3>2, <4>1
        <4>3. ASSUME NEW q \in Requests PROVE use[q] # c
          <5>1. use[q] # 0 => comp[use[q]] # "unborn"
            OBVIOUS
          <5>2. QED
            BY <3>2, <4>1, <5>1
        <4>4. QED
          BY <4>2, <4>3
      <3>4. after[r] => born'[c]
        BY <3>1
      <3>5. pc[r] = "spawn" /\ lock = r
        BY <1>3 DEF Spawn
      <3>6. QED
        BY <2>1, <3>1, <3>3, <3>4, <3>5
    <2>3. CASE pc' = [pc EXCEPT ![r] = "unlock"] /\ UNCHANGED <<comp, born, use>>
      <3>1. pc[r] = "spawn" /\ lock = r
        BY <1>3 DEF Spawn
      <3>2. QED
        BY <2>1, <2>3, <3>1
    <2>4. QED
      BY <1>3, <2>2, <2>3 DEF Spawn
  <1>4. ASSUME NEW r \in Requests, Handshake(r) PROVE SafetyInv'
    <2>1. pc[r] = "handshake" /\ lock = r /\ use[r] \in Companions
      BY <1>4 DEF Handshake
    <2>2. /\ pc' = [pc EXCEPT ![r] = "unlock"]
          /\ UNCHANGED <<lock, inbox, outbox, answer, decision, reused, zpc, after, born>>
      BY <1>4 DEF Handshake
    <2>3. CASE comp[use[r]] = "alive" /\ cached' = use[r] /\ UNCHANGED <<comp, use>>
      <3>1. zpc = "done" => born[use[r]]
        BY <2>1
      <3>2. QED
        BY <2>1, <2>2, <2>3, <3>1
    <2>4. CASE comp' = [comp EXCEPT ![use[r]] = "dead"] /\ use' = [use EXCEPT ![r] = 0]
                /\ UNCHANGED cached
      BY <2>1, <2>2, <2>4
    <2>5. QED
      BY <1>4, <2>3, <2>4 DEF Handshake
  <1>5. ASSUME NEW r \in Requests, Release(r) PROVE SafetyInv'
    <2>1. pc[r] = "unlock" /\ lock = r
      BY <1>5 DEF Release
    <2>2. \A q \in Requests : q # r => pc[q] \notin CS
      BY <2>1
    <2>3. QED
      BY <1>5, <2>1, <2>2 DEF Release
  <1>6. ASSUME NEW r \in Requests, Send(r) PROVE SafetyInv'
    <2>1. /\ pc[r] = "send"
          /\ pc' = [pc EXCEPT ![r] = "reply"] \/ pc' = [pc EXCEPT ![r] = "done"]
          /\ UNCHANGED <<lock, cached, comp, outbox, use, decision, reused, zpc, after, born>>
      BY <1>6 DEF Send
    <2>2. QED
      BY <2>1
  <1>7. ASSUME NEW r \in Requests, Reply(r) PROVE SafetyInv'
    <2>1. /\ pc[r] = "reply" /\ pc' = [pc EXCEPT ![r] = "done"]
          /\ UNCHANGED <<lock, cached, comp, inbox, use, decision, reused, zpc, after, born>>
      BY <1>7 DEF Reply
    <2>2. QED
      BY <2>1
  <1>8. ASSUME NEW c \in Companions, Serve(c) PROVE SafetyInv'
    BY <1>8 DEF Serve
  <1>9. ASSUME NEW c \in Companions, Die(c) PROVE SafetyInv'
    BY <1>9 DEF Die
  <1>10. CASE Restart
    <2>1. \A q \in Requests : pc[q] \notin CS
      BY <1>10 DEF Restart
    <2>2. QED
      BY <1>10, <2>1 DEF Restart
  <1>11. CASE Terminated \/ UNCHANGED vars
    BY <1>11 DEF Terminated, vars
  <1>12. QED
    BY <1>1, <1>2, <1>3, <1>4, <1>5, <1>6, <1>7, <1>8, <1>9, <1>10, <1>11
       DEF Next, Handler

LEMMA RegistryStep == RegistryInv /\ [Next]_vars => RegistryInv'
  BY TypeStep, SafetyStep DEF RegistryInv

(***************************************************************************)
(* A handler that reuses the cached companion socket reuses one whose      *)
(* companion is alive: the is_socket_alive probe (utils.rs) rejects a hung *)
(* up peer, and only a forked companion's socket is ever cached            *)
(* (ReusedOnlyIfAlive).                                                    *)
(***************************************************************************)
THEOREM ReusedOnlyIfAliveHolds == Spec => []ReusedOnlyIfAlive
  <1>1. RegistryInv => ReusedOnlyIfAlive
    BY DEF RegistryInv, SafetyInv
  <1>2. QED
    BY <1>1, RegistryInit, RegistryStep, PTL DEF Spec

(***************************************************************************)
(* A handler that took the module's mutex after ZygoteRestart dropped the  *)
(* cached socket only ever uses a companion forked after the restart: the  *)
(* restart cannot interleave with obtain_companion, since both hold the    *)
(* mutex (FreshAfterRestart).                                              *)
(***************************************************************************)
THEOREM FreshAfterRestartHolds == Spec => []FreshAfterRestart
  <1>1. RegistryInv => FreshAfterRestart
    BY DEF RegistryInv, SafetyInv
  <1>2. QED
    BY <1>1, RegistryInit, RegistryStep, PTL DEF Spec

-----------------------------------------------------------------------------
(* The cached socket under the mutex.                                      *)

\* A handler that found no live cached socket, until its handshake is
\* done, sees the cache empty: no one else runs obtain_companion meanwhile.
EmptyWhileSpawning ==
  \A r \in Requests : pc[r] \in {"spawn", "handshake"} => cached = 0

LEMMA EmptyInit == Init => EmptyWhileSpawning
  BY DEF Init, EmptyWhileSpawning

\* Only the mutex holder is at spawn or handshake.
LEMMA SoleSpawner == ASSUME RegistryInv, NEW r \in Requests, pc[r] \in CS
                     PROVE \A q \in Requests \ {r} : pc[q] \notin CS
  BY DEF RegistryInv, SafetyInv, MutexInv

LEMMA EmptyStep ==
  RegistryInv /\ EmptyWhileSpawning /\ [Next]_vars => EmptyWhileSpawning'
  <1> SUFFICES ASSUME RegistryInv, EmptyWhileSpawning, [Next]_vars
               PROVE EmptyWhileSpawning'
    OBVIOUS
  <1>1. TypeOK
    BY DEF RegistryInv
  <1> USE <1>1 DEF EmptyWhileSpawning, TypeOK, CS
  <1>2. ASSUME NEW r \in Requests, Acquire(r) PROVE EmptyWhileSpawning'
    BY <1>2 DEF Acquire
  <1>3. ASSUME NEW r \in Requests, Check(r) PROVE EmptyWhileSpawning'
    <2>1. \A q \in Requests \ {r} : pc[q] \notin CS
      BY <1>3, SoleSpawner DEF Check
    <2>2. \/ pc' = [pc EXCEPT ![r] = "spawn"] /\ cached' = 0
          \/ pc' = [pc EXCEPT ![r] = "unlock"]
      BY <1>3 DEF Check
    <2>3. QED
      BY <2>1, <2>2
  <1>4. ASSUME NEW r \in Requests, Spawn(r) PROVE EmptyWhileSpawning'
    BY <1>4 DEF Spawn
  <1>5. ASSUME NEW r \in Requests, Handshake(r) PROVE EmptyWhileSpawning'
    <2>1. \A q \in Requests \ {r} : pc[q] \notin CS
      BY <1>5, SoleSpawner DEF Handshake
    <2>2. pc' = [pc EXCEPT ![r] = "unlock"]
      BY <1>5 DEF Handshake
    <2>3. QED
      BY <2>1, <2>2
  <1>6. ASSUME NEW r \in Requests, Release(r) PROVE EmptyWhileSpawning'
    BY <1>6 DEF Release
  <1>7. ASSUME NEW r \in Requests, Send(r) PROVE EmptyWhileSpawning'
    BY <1>7 DEF Send
  <1>8. ASSUME NEW r \in Requests, Reply(r) PROVE EmptyWhileSpawning'
    BY <1>8 DEF Reply
  <1>9. ASSUME NEW c \in Companions, Serve(c) \/ Die(c) PROVE EmptyWhileSpawning'
    BY <1>9 DEF Serve, Die
  <1>10. CASE Restart
    BY <1>10 DEF Restart
  <1>11. CASE Terminated \/ UNCHANGED vars
    BY <1>11 DEF Terminated, vars
  <1>12. QED
    BY <1>2, <1>3, <1>4, <1>5, <1>6, <1>7, <1>8, <1>9, <1>10, <1>11
       DEF Next, Handler

\* The step relation of CachedFilledOnlyWhenEmpty.
CacheFill ==
  cached' # cached => cached' = 0 \/ (cached = 0 /\ comp'[cached'] = "alive")

LEMMA CacheStep == RegistryInv /\ EmptyWhileSpawning /\ [Next]_vars => [CacheFill]_vars
  <1> SUFFICES ASSUME RegistryInv, EmptyWhileSpawning, [Next]_vars
               PROVE [CacheFill]_vars
    OBVIOUS
  <1> USE DEF CacheFill
  <1>1. ASSUME NEW r \in Requests, Check(r) PROVE cached' \in {cached, 0}
    BY <1>1 DEF Check
  <1>2. ASSUME NEW r \in Requests, Handshake(r) PROVE CacheFill
    <2>1. pc[r] = "handshake"
      BY <1>2 DEF Handshake
    <2>2. cached = 0
      BY <2>1 DEF EmptyWhileSpawning
    <2>3. \/ comp[use[r]] = "alive" /\ cached' = use[r] /\ comp' = comp
          \/ cached' = cached
      BY <1>2 DEF Handshake
    <2>4. QED
      BY <2>2, <2>3
  <1>3. ASSUME NEW r \in Requests, Acquire(r) \/ Spawn(r) \/ Release(r) \/ Send(r) \/ Reply(r)
        PROVE cached' = cached
    BY <1>3 DEF Acquire, Spawn, Release, Send, Reply
  <1>4. ASSUME NEW c \in Companions, Serve(c) \/ Die(c) PROVE cached' = cached
    BY <1>4 DEF Serve, Die
  <1>5. CASE Restart
    BY <1>5 DEF Restart
  <1>6. CASE Terminated \/ UNCHANGED vars
    BY <1>6 DEF Terminated, vars
  <1>7. QED
    BY <1>1, <1>2, <1>3, <1>4, <1>5, <1>6 DEF Next, Handler

(***************************************************************************)
(* Under the per-module mutex of obtain_companion, the cached companion    *)
(* socket is only ever dropped, or filled while empty with a companion     *)
(* that has just answered the handshake: no handler overwrites, and so     *)
(* leaks, the socket another handler cached (CachedFilledOnlyWhenEmpty).   *)
(***************************************************************************)
THEOREM CachedFilledOnlyWhenEmptyHolds == Spec => CachedFilledOnlyWhenEmpty
  <1>1. Spec => [](RegistryInv /\ EmptyWhileSpawning)
    BY RegistryInit, RegistryStep, EmptyInit, EmptyStep, PTL DEF Spec
  <1>2. QED
    BY <1>1, CacheStep, PTL DEF Spec, CachedFilledOnlyWhenEmpty, CacheFill

=============================================================================
