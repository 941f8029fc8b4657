------------------------ MODULE MountNamespace_proofs ------------------------
(***************************************************************************)
(* Proofs about save_mount_namespace (MountNamespace) for every set of     *)
(* handler threads.                                                        *)
(***************************************************************************)
EXTENDS MountNamespace, TLAPS

\* The step relation of one thread or of its child, unfolded once.
USE DEF Goto, ChildGoto

\* The exit of a child keeps the copies of every pipe_writer a set of
\* children.
LEMMA ReleasedType ==
  ASSUME NEW c, wcopies \in [Threads -> SUBSET Threads]
  PROVE  Released(c) \in [Threads -> SUBSET Threads]
  BY DEF Released

\* Each step keeps every variable in its type.
LEMMA TypeStep == TypeOK /\ [Next]_vars => TypeOK'
<1> SUFFICES ASSUME TypeOK, [Next]_vars PROVE TypeOK'
  OBVIOUS
<1> USE DEF TypeOK
<1>1. ASSUME NEW t \in Threads, CheckCached(t) \/ SetSlot(t) PROVE TypeOK'
  BY <1>1 DEF CheckCached, SetSlot, NsFds, ThreadPcs
<1>2. ASSUME NEW t \in Threads, Pipe(t) \/ PipeFail(t) \/ ForkFail(t)
      PROVE TypeOK'
  BY <1>2 DEF Pipe, PipeFail, ForkFail, ThreadPcs
<1>3. ASSUME NEW t \in Threads, Fork(t) PROVE TypeOK'
  BY <1>3 DEF Fork, ThreadPcs, ChildPcs
<1>4. ASSUME NEW t \in Threads,
             ReadPipe(t) \/ ReadPipeFail(t) \/ OpenNsFail(t)
      PROVE TypeOK'
  BY <1>4 DEF ReadPipe, ReadPipeFail, OpenNsFail, ThreadPcs
<1>5. ASSUME NEW t \in Threads, OpenNs(t) PROVE TypeOK'
  BY <1>5 DEF OpenNs, NsFds, ThreadPcs
<1>6. ASSUME NEW t \in Threads, KillChild(t) \/ ChildExit(t) PROVE TypeOK'
  BY <1>6, ReleasedType DEF KillChild, ChildExit, ThreadPcs, ChildPcs
<1>7. ASSUME NEW t \in Threads, ChildSetns(t) \/ ChildChdir(t)
                               \/ ChildUnshare(t) \/ ChildClean(t)
      PROVE TypeOK'
  BY <1>7 DEF ChildSetns, ChildChdir, ChildUnshare, ChildClean, ChildPcs,
              Namespaces
<1>8. ASSUME NEW t \in Threads, ChildSignal(t) PROVE TypeOK'
  BY <1>8 DEF ChildSignal, ChildPcs
<1>11. ASSUME NEW t \in Threads, ChildPanic(t) PROVE TypeOK'
  BY <1>11 DEF ChildPanic, ChildPcs
<1>9. CASE Terminated \/ UNCHANGED vars
  BY <1>9 DEF Terminated, vars
<1>10. QED
  BY <1>1, <1>2, <1>3, <1>4, <1>5, <1>6, <1>7, <1>8, <1>9, <1>11
  DEF Next, ThreadStep, ChildStep

\* TypeOK is an invariant of the specification.
THEOREM TypeCorrect == Spec => []TypeOK
<1>1. Init => TypeOK
  BY DEF Init, TypeOK, Namespaces, ThreadPcs, ChildPcs
<1>2. QED
  BY <1>1, TypeStep, PTL DEF Spec

-----------------------------------------------------------------------------
(***************************************************************************)
(* SlotHoldsIntendedUnlessFailed is not inductive by itself: it speaks of  *)
(* the slot, but what puts the right namespace there is the parent        *)
(* waiting on the pipe.  The strengthening follows one call through: a    *)
(* child that has not panicked is in its kind's namespace by the time it  *)
(* signals; the parent opens only after the byte or end-of-file, and end- *)
(* of-file comes only from a panic, since a child still setting up holds  *)
(* its own copy of the write end; the opened descriptor belongs to its    *)
(* opener until SetSlot moves it into the slot; and a slot's owner has     *)
(* returned, so nothing can later mark its child as failed.               *)
(***************************************************************************)
ThreadInv(t) ==
  /\ child[t] \in {"unshare", "clean"} => kind[t] = "Clean"
  /\ child[t] \in {"dying", "zombie"} => failed[t]
  /\ child[t] = "chdir" => cns[t] = "AnchorNs"
  /\ ~failed[t] /\ child[t] \in {"signal", "sleeping"} => cns[t] = Intended(kind[t])
  /\ pc[t] = "fork" => t \in dwriter
  /\ pc[t] = "read" => child[t] \notin {"none", "reaped"}
  /\ child[t] \in {"switch", "chdir", "unshare", "clean", "signal"} =>
       t \in wcopies[t]
  /\ pc[t] = "open" => child[t] \in {"sleeping", "dying", "zombie"}
  /\ pc[t] = "set" => child[t] = "reaped"
  /\ nsfd[t] # NoFd =>
       /\ pc[t] \in {"kill", "set"}
       /\ nsfd[t].owner = t
       /\ child[t] \in {"sleeping", "dying", "zombie", "reaped"}
       /\ ~failed[t] => nsfd[t].ns = Intended(kind[t])

SlotInv(k) ==
  slot[k] # NoFd =>
    /\ kind[slot[k].owner] = k
    /\ pc[slot[k].owner] = "done"
    /\ ~failed[slot[k].owner] => slot[k].ns = Intended(k)

IntendedInv ==
  /\ TypeOK
  /\ \A t \in Threads : ThreadInv(t)
  /\ \A k \in Kinds : SlotInv(k)

\* The strengthening holds initially.
LEMMA IntendedInit == Init => IntendedInv
BY NoFdAssumption, TypeCorrect DEF Init, IntendedInv, ThreadInv, SlotInv,
   TypeOK, Namespaces, ThreadPcs, ChildPcs

\* Every step preserves the strengthening: one case per action.
LEMMA IntendedStep == IntendedInv /\ [Next]_vars => IntendedInv'
<1> SUFFICES ASSUME IntendedInv, [Next]_vars PROVE IntendedInv'
  OBVIOUS
<1>0. TypeOK /\ TypeOK'
  BY TypeStep DEF IntendedInv
<1> USE <1>0, NoFdAssumption DEF IntendedInv, ThreadInv, SlotInv, TypeOK
<1>1. ASSUME NEW t \in Threads, CheckCached(t) PROVE IntendedInv'
  BY <1>1 DEF CheckCached
<1>2. ASSUME NEW t \in Threads, Fork(t) PROVE IntendedInv'
  BY <1>2 DEF Fork
<1>3. ASSUME NEW t \in Threads, ForkFail(t) PROVE IntendedInv'
  BY <1>3 DEF ForkFail
<1>4. ASSUME NEW t \in Threads, ReadPipe(t) PROVE IntendedInv'
  \* A child still setting up holds its own writer: no end-of-file yet.
  <2>1. child[t] \in {"sleeping", "dying", "zombie"}
    BY <1>4 DEF ReadPipe, PipeEof, ChildPcs
  <2>2. QED
    BY <1>4, <2>1 DEF ReadPipe
<1>5. ASSUME NEW t \in Threads, OpenNsFail(t) PROVE IntendedInv'
  BY <1>5 DEF OpenNsFail
<1>19. ASSUME NEW t \in Threads, ReadPipeFail(t) PROVE IntendedInv'
  BY <1>19 DEF ReadPipeFail
<1>18. ASSUME NEW t \in Threads, Pipe(t) PROVE IntendedInv'
  BY <1>18 DEF Pipe
<1>20. ASSUME NEW t \in Threads, PipeFail(t) PROVE IntendedInv'
  BY <1>20 DEF PipeFail
<1>6. ASSUME NEW t \in Threads, OpenNs(t) PROVE IntendedInv'
  BY <1>6 DEF OpenNs, ChildAlive
<1>7. ASSUME NEW t \in Threads, KillChild(t) PROVE IntendedInv'
  BY <1>7 DEF KillChild, Released
<1>8. ASSUME NEW t \in Threads, SetSlot(t) PROVE IntendedInv'
  <2>1. CASE slot[kind[t]] = NoFd
    <3>1. \A u \in Threads : ThreadInv(u)'
      BY <1>8, <2>1 DEF SetSlot
    <3>2. \A k \in Kinds : SlotInv(k)'
      BY <1>8, <2>1 DEF SetSlot
    <3>3. QED
      BY <3>1, <3>2
  <2>2. CASE slot[kind[t]] # NoFd
    BY <1>8, <2>2 DEF SetSlot
  <2>3. QED
    BY <2>1, <2>2
<1>9. ASSUME NEW t \in Threads, ChildChdir(t) PROVE IntendedInv'
  <2>1. CASE kind[t] = "Clean"
    BY <1>9, <2>1 DEF ChildChdir
  <2>2. CASE kind[t] = "Root"
    BY <1>9, <2>2 DEF ChildChdir, Intended
  <2>3. QED
    BY <2>1, <2>2 DEF Kinds
<1>17. ASSUME NEW t \in Threads, ChildSetns(t) PROVE IntendedInv'
  BY <1>17 DEF ChildSetns
<1>10. ASSUME NEW t \in Threads, ChildUnshare(t) PROVE IntendedInv'
  BY <1>10 DEF ChildUnshare, Intended
<1>11. ASSUME NEW t \in Threads, ChildClean(t) PROVE IntendedInv'
  BY <1>11 DEF ChildClean, Intended
<1>12. ASSUME NEW t \in Threads, ChildSignal(t) PROVE IntendedInv'
  BY <1>12 DEF ChildSignal
<1>13. ASSUME NEW t \in Threads, ChildExit(t) PROVE IntendedInv'
  BY <1>13 DEF ChildExit, Released
<1>14. ASSUME NEW t \in Threads, ChildPanic(t) PROVE IntendedInv'
  BY <1>14 DEF ChildPanic
<1>15. CASE Terminated \/ UNCHANGED vars
  BY <1>15 DEF Terminated, vars
<1>16. QED
  BY <1>1, <1>2, <1>3, <1>6, <1>7, <1>8, <1>9, <1>10, <1>12, <1>15, <1>4,
     <1>5, <1>11, <1>13, <1>14, <1>17, <1>18, <1>19, <1>20
  DEF Next, ThreadStep, ChildStep

\* Unless the child behind it panicked, each cached descriptor pins the
\* namespace its kind promises (SlotHoldsIntendedUnlessFailed, checked by
\* the safety run), for any number of racing handler threads.
THEOREM SlotHoldsIntendedUnlessFailedHolds == Spec => []SlotHoldsIntendedUnlessFailed
<1>1. IntendedInv => SlotHoldsIntendedUnlessFailed
  BY DEF IntendedInv, SlotInv, SlotHoldsIntendedUnlessFailed
<1>2. QED
  BY <1>1, IntendedInit, IntendedStep, PTL DEF Spec

-----------------------------------------------------------------------------
(***************************************************************************)
(* Refinement of the cache contract NsCache.  A caller is visible to the   *)
(* contract only when it returns Ok: CheckCached is a Hit, SetSlot on an   *)
(* empty slot is a Fill with the descriptor the thread opened, and every   *)
(* other step, SetSlot on a full slot included, leaves slot, kind and ret  *)
(* alone.  The contract needs two facts the step alone does not give: a    *)
(* thread that can still return has not returned yet, and a thread at      *)
(* SetSlot holds an opened descriptor.                                     *)
(***************************************************************************)
CallInv(t) ==
  /\ ret[t] # NoFd => pc[t] = "done"
  /\ pc[t] \in {"kill", "set"} => nsfd[t] # NoFd

RefineInv == TypeOK /\ \A t \in Threads : CallInv(t)

\* The strengthening holds initially and is kept by every step.
LEMMA RefineInvariant == Spec => []RefineInv
<1>1. Init => RefineInv
  BY NoFdAssumption DEF Init, RefineInv, CallInv, TypeOK, Namespaces,
     ThreadPcs, ChildPcs
<1>2. RefineInv /\ [Next]_vars => RefineInv'
  <2> SUFFICES ASSUME RefineInv, [Next]_vars PROVE RefineInv'
    OBVIOUS
  <2>0. TypeOK'
    BY TypeStep DEF RefineInv
  <2> USE <2>0, NoFdAssumption DEF RefineInv, CallInv, TypeOK
  <2>1. ASSUME NEW t \in Threads, ThreadStep(t) PROVE RefineInv'
    BY <2>1 DEF ThreadStep, CheckCached, Pipe, PipeFail, Fork, ForkFail,
                ReadPipe, OpenNs, OpenNsFail, KillChild, SetSlot, NsFds
  <2>2. ASSUME NEW t \in Threads,
               ChildStep(t) \/ ChildPanic(t) \/ ReadPipeFail(t)
        PROVE RefineInv'
    BY <2>2 DEF ChildStep, ChildSetns, ChildChdir, ChildUnshare, ChildClean,
                ChildSignal, ChildExit, ChildPanic, ReadPipeFail
  <2>3. CASE Terminated \/ UNCHANGED vars
    BY <2>3 DEF Terminated, vars
  <2>4. QED
    BY <2>1, <2>2, <2>3 DEF Next
<1>3. QED
  BY <1>1, <1>2, PTL DEF Spec

\* Every step of the callers and their children is a step of the cache
\* contract under the identity mapping of slot, kind and ret, or leaves
\* them unchanged.
LEMMA RefineStep == RefineInv /\ [Next]_vars => [Contract!Next]_Contract!cvars
<1> SUFFICES ASSUME RefineInv, [Next]_vars PROVE [Contract!Next]_Contract!cvars
  OBVIOUS
<1> USE NoFdAssumption DEF RefineInv, CallInv, TypeOK, Contract!cvars
<1>1. ASSUME NEW t \in Threads, CheckCached(t) PROVE Contract!Hit(t)
  BY <1>1 DEF CheckCached, Contract!Hit
<1>2. ASSUME NEW t \in Threads, SetSlot(t) PROVE [Contract!Next]_Contract!cvars
  <2>1. CASE slot[kind[t]] = NoFd
    <3>1. Contract!Fill(t)
      BY <1>2, <2>1 DEF SetSlot, Contract!Fill
    <3>2. QED
      BY <3>1 DEF Contract!Next
  <2>2. CASE slot[kind[t]] # NoFd
    BY <1>2, <2>2 DEF SetSlot
  <2>3. QED
    BY <2>1, <2>2
<1>3. ASSUME NEW t \in Threads,
             \/ Pipe(t) \/ PipeFail(t) \/ Fork(t) \/ ForkFail(t)
             \/ ReadPipe(t) \/ ReadPipeFail(t) \/ OpenNs(t) \/ OpenNsFail(t)
             \/ KillChild(t)
      PROVE UNCHANGED Contract!cvars
  BY <1>3 DEF Pipe, PipeFail, Fork, ForkFail, ReadPipe, ReadPipeFail, OpenNs,
              OpenNsFail, KillChild
<1>4. ASSUME NEW t \in Threads, ChildStep(t) \/ ChildPanic(t)
      PROVE UNCHANGED Contract!cvars
  BY <1>4 DEF ChildStep, ChildSetns, ChildChdir, ChildUnshare, ChildClean,
              ChildSignal, ChildExit, ChildPanic
<1>5. CASE Terminated \/ UNCHANGED vars
  BY <1>5 DEF Terminated, vars
<1>6. QED
  BY <1>1, <1>2, <1>3, <1>4, <1>5 DEF Next, ThreadStep, Contract!Next

\* save_mount_namespace implements the write-once cache of spec 3
\* (ImplementsNsCache, checked by the refinement run) for any number of
\* racing handler threads: slots are filled once and every Ok result is a
\* hit or the fill of an empty slot.
THEOREM ImplementsNsCacheHolds == Spec => ImplementsNsCache
<1>1. Init => Contract!Init
  BY DEF Init, Contract!Init
<1>2. QED
  BY <1>1, RefineInvariant, RefineStep, PTL
  DEF Spec, ImplementsNsCache, Contract!Spec

=============================================================================
