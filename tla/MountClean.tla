----------------------------- MODULE MountClean -----------------------------
(***************************************************************************)
(* MountNamespaceManager::clean_mount_namespace (mount.rs:156-207), run by *)
(* the child that builds the Clean namespace: read /proc/self/mountinfo,   *)
(* pick the unmount targets, sort them by descending mnt_id, and detach    *)
(* each by its mount-point path with umount2(path, MNT_DETACH).            *)
(*                                                                         *)
(* The mount table is a tree of mounts.  A mount stacked over another at   *)
(* the same path has that mount as its parent.  umount2 resolves the path *)
(* to the mount on top of the stack there and detaches it together with  *)
(* everything mounted below it; if no mount sits at the path it fails     *)
(* (EINVAL), which the code only logs.  Paths are sequences of path       *)
(* components: Path::starts_with is a prefix of components, and for the   *)
(* paths in the tables checked str::starts_with agrees with it.           *)
(***************************************************************************)
EXTENDS Naturals, Sequences, SequencesExt

CONSTANTS
  Mounts,    \* Mounts[id]: [parent, point, root, source] of mount id
  Tables,    \* the sets of mount ids a namespace can start with
  LoopSources \* the mount sources that start with "/dev/block/loop"

Ids == DOMAIN Mounts

ASSUME MountsAssumption ==
  /\ Ids \subseteq Nat \ {0}
  /\ \A i \in Ids : Mounts[i].parent \in (Ids \cup {0}) \ {i}
  /\ Tables \subseteq SUBSET Ids

\* enum RootImpl, as root_impl::get() reports it (src/root_impl is not
\* under src/; only these four outcomes matter here).
RootImpls == {"None", "APatch", "KernelSU", "Magisk"}

ModulesDir == <<"data", "adb", "modules">>
AdbModulesRoot == <<"adb", "modules">>

VARIABLES
  impl,      \* root_impl::get()
  live,      \* ids of the mounts attached in the child's namespace
  targets,   \* unmount_targets still to detach, in order
  phase,     \* "collect", "unmount" or "done"
  round,     \* 1 or 2: the first or a repeated run of the algorithm
  afterFirst, \* live after the first run (history, for idempotence)
  start      \* live before the first run (history, for the reference)

vars == <<impl, live, targets, phase, round, afterFirst, start>>

\* The mounts below mount m: its children, their children, and so on.
RECURSIVE Below(_, _)
Below(m, S) ==
  LET kids == {c \in S : Mounts[c].parent = m}
  IN kids \cup UNION {Below(c, S \ kids) : c \in kids}

\* The mount a path lookup of p lands on: the top of the stack at p.
TopAt(p, S) ==
  {m \in S : Mounts[m].point = p /\
             ~\E c \in S : Mounts[c].parent = m /\ Mounts[c].point = p}

\* let root_source = match root_impl::get() { ... }
RootSource(i) ==
  CASE i = "APatch" -> {"APatch"}
    [] i = "KernelSU" -> {"KSU"}
    [] i = "Magisk" -> {"magisk"}
    [] OTHER -> {}

\* ksu_module_source: under KernelSU, the source of the first mountinfo
\* entry mounted on /data/adb/modules, kept if it is a loop device.
KsuModuleSource(i, S) ==
  LET atDir == {m \in S : Mounts[m].point = ModulesDir}
      first == CHOOSE m \in atDir : \A n \in atDir : m <= n
  IN IF i = "KernelSU" /\ atDir # {} /\ Mounts[first].source \in LoopSources
       THEN {Mounts[first].source} ELSE {}

\* A mutation of ShouldUnmount that forgets the KernelSU loop-device clause.
ShouldUnmountNoKsu(m, i, S) ==
  \/ IsPrefix(AdbModulesRoot, Mounts[m].root)
  \/ IsPrefix(ModulesDir, Mounts[m].point)
  \/ Mounts[m].source \in RootSource(i)

\* should_unmount for one mountinfo entry.
ShouldUnmount(m, i, S) ==
  \/ IsPrefix(AdbModulesRoot, Mounts[m].root)
  \/ IsPrefix(ModulesDir, Mounts[m].point)
  \/ Mounts[m].source \in RootSource(i)
  \/ Mounts[m].source \in KsuModuleSource(i, S)

Init ==
  /\ impl \in RootImpls
  /\ live \in Tables
  /\ targets = <<>>
  /\ phase = "collect"
  /\ round = 1
  /\ afterFirst = {}
  /\ start = live

\* mountinfo read, targets filtered and sorted by Reverse(mnt_id).
Collect ==
  /\ phase = "collect"
  /\ targets' = SetToSortSeq({m \in live : ShouldUnmount(m, impl, live)}, >)
  /\ phase' = "unmount"
  /\ UNCHANGED <<impl, live, round, afterFirst, start>>

\* A mutation of Umount2: umount2 without MNT_DETACH fails with EBUSY on a
\* mount that has mounts below it.
Umount2NoDetach(p, S) ==
  LET top == TopAt(p, S)
  IN IF \E m \in top : Below(m, S) = {} THEN S \ top ELSE S

\* umount2(path, MNT_DETACH): detach the top mount at the path and all
\* mounts below it; fails (logged) when nothing is mounted at the path.
Umount2(p, S) ==
  S \ UNION {{m} \cup Below(m, S) : m \in TopAt(p, S)}

\* One iteration of `for target in unmount_targets`.
UnmountNext ==
  /\ phase = "unmount"
  /\ targets # <<>>
  /\ live' = Umount2(Mounts[Head(targets)].point, live)
  /\ targets' = Tail(targets)
  /\ UNCHANGED <<impl, phase, round, afterFirst, start>>

\* The loop is over: clean_mount_namespace returns Ok(()).
Finish ==
  /\ phase = "unmount"
  /\ targets = <<>>
  /\ phase' = "done"
  /\ afterFirst' = IF round = 1 THEN live ELSE afterFirst
  /\ UNCHANGED <<impl, live, targets, round, start>>

\* The algorithm run a second time on its own result (spec 8.6).
RunAgain ==
  /\ phase = "done"
  /\ round = 1
  /\ phase' = "collect"
  /\ round' = 2
  /\ UNCHANGED <<impl, live, targets, afterFirst, start>>

Terminated ==
  /\ phase = "done" /\ round = 2
  /\ UNCHANGED vars

Next == Collect \/ UnmountNext \/ Finish \/ RunAgain \/ Terminated

Spec == Init /\ [][Next]_vars

-----------------------------------------------------------------------------
(* Properties.                                                             *)

TypeOK ==
  /\ impl \in RootImpls
  /\ live \subseteq Ids
  /\ targets \in Seq(Ids)
  /\ phase \in {"collect", "unmount", "done"}
  /\ round \in {1, 2}
  /\ afterFirst \subseteq Ids
  /\ start \subseteq Ids

\* The marker source of each root implementation (spec 4.C).
Marker == [APatch |-> "APatch", KernelSU |-> "KSU", Magisk |-> "magisk"]

\* The mounts of the starting table the policy of spec 4.C wants gone,
\* stated independently of should_unmount: a module bind mount, anything
\* at or under /data/adb/modules, the root implementation's own mounts, and
\* under KernelSU every mount of the loop device backing /data/adb/modules.
Doomed(i, S) ==
  {m \in S :
     \/ Len(Mounts[m].root) >= 2 /\ SubSeq(Mounts[m].root, 1, 2) = AdbModulesRoot
     \/ Len(Mounts[m].point) >= 3 /\ SubSeq(Mounts[m].point, 1, 3) = ModulesDir
     \/ i \in DOMAIN Marker /\ Mounts[m].source = Marker[i]
     \/ /\ i = "KernelSU"
        /\ \E d \in S : /\ Mounts[d].point = ModulesDir
                        /\ Mounts[d].source \in LoopSources
                        /\ Mounts[m].source = Mounts[d].source}

\* What cleaning is meant to leave: the table without every target and
\* everything mounted below a target.
Reference(i, S) == S \ UNION {{m} \cup Below(m, S) : m \in Doomed(i, S)}

\* A target is covered when a mount that is not a target is stacked on it
\* at the same path: umount2 by path then hits the covering mount.
Covered(i, S) ==
  \E m \in Doomed(i, S), c \in S \ Doomed(i, S) :
    Mounts[c].parent = m /\ Mounts[c].point = Mounts[m].point

\* When no target is covered, one run of clean_mount_namespace leaves exactly
\* the reference table: every target and every mount below one detached,
\* nothing else touched.  This needs MNT_DETACH (a nested mount makes a plain
\* umount fail) and the complete should_unmount predicate.
CleanMatchesReference ==
  phase = "done" /\ round = 1 /\ ~Covered(impl, start) =>
    live = Reference(impl, start)

\* Spec 8.6: mount cleaning is idempotent; running it on its own result
\* detaches nothing more.
CleanIdempotent ==
  phase = "done" /\ round = 2 => live = afterFirst

=============================================================================
