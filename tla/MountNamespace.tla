--------------------------- MODULE MountNamespace ---------------------------
(***************************************************************************)
(* The mount-namespace manager of zygiskd (src/zygiskd/src/mount.rs):     *)
(* MountNamespaceManager::save_mount_namespace, run concurrently by the   *)
(* daemon's per-connection handler threads.                                *)
(*                                                                         *)
(* Each slot (Clean, Root) is a OnceLock<OwnedFd>.  A caller that finds    *)
(* the slot empty creates a pipe and forks.  The child enters the anchor   *)
(* process's mount namespace, for Clean also unshares and cleans it,       *)
(* writes one byte to the pipe and sleeps forever.  Every setup step of    *)
(* the child ends in .unwrap(): a failure panics, which closes the write   *)
(* end of the pipe and ends the child.  The parent reads the pipe (a byte  *)
(* or end-of-file: the count is not checked), opens /proc/<child>/ns/mnt,  *)
(* kills and reaps the child and then tries to set the OnceLock.           *)
(*                                                                         *)
(* fork() copies the whole descriptor table of the daemon, so a child     *)
(* also holds a copy of the write end of every pipe another handler       *)
(* thread has created and not yet closed.  The read sees end-of-file only *)
(* when every copy is closed: by the parent after fork, by the child when *)
(* it writes or panics, and by every other child when it exits or is      *)
(* killed.                                                                *)
(*                                                                         *)
(* Namespaces are abstracted to what the child is in when the parent      *)
(* opens it: the daemon's own namespace (setns not done), the anchor's     *)
(* namespace, a private unshared but not yet cleaned copy, or the cleaned *)
(* copy.  A namespace file descriptor is the pair (opening thread, ns).   *)
(***************************************************************************)
EXTENDS Naturals, FiniteSets

CONSTANTS
  Threads,   \* the connection handler threads calling save_mount_namespace
  NoFd       \* an empty OnceLock / no descriptor returned

ASSUME ThreadsAssumption == Threads # {} /\ IsFiniteSet(Threads)

\* enum MountNamespace (mount.rs:24-29)
Kinds == {"Clean", "Root"}

\* The namespace a process can be in, as far as the properties tell apart.
Namespaces == {"DaemonNs", "AnchorNs", "PrivateNs", "CleanedNs"}

\* The namespace each slot is meant to pin.
Intended(k) == IF k = "Root" THEN "AnchorNs" ELSE "CleanedNs"

\* An OwnedFd from fs::File::open("/proc/<child>/ns/mnt").
NsFds == [owner : Threads, ns : Namespaces]

\* NoFd is no descriptor.
ASSUME NoFdAssumption == NoFd \notin NsFds

\* Program counter of the caller, one value per suspension point.
ThreadPcs == {"check", "fork", "read", "open", "kill", "set", "done"}

\* Life of the forked child: setup steps, then sleeping, or a panic.
ChildPcs == {"none", "switch", "chdir", "unshare", "clean", "signal",
             "sleeping", "dying", "zombie", "reaped"}

VARIABLES
  slot,      \* slot[k]: the OnceLock for kind k (clean_mnt_ns_fd, root_mnt_ns_fd)
  kind,      \* kind[t]: the namespace_type argument of thread t's call
  pc,        \* pc[t]: where thread t is in save_mount_namespace
  child,     \* child[t]: the state of the process thread t forked
  cns,       \* cns[t]: the mount namespace that child is in
  nsfd,      \* nsfd[t]: the ns_file thread t has opened and still owns
  ret,       \* ret[t]: the Ok(raw_fd) thread t returned, NoFd if none
  failed,    \* failed[t]: thread t's child panicked (history, for properties)
  dwriter,   \* the threads whose pipe_writer is open in the daemon process
  wcopies    \* wcopies[t]: the children (named by their parent thread) that
             \* hold a copy of thread t's pipe_writer

vars == <<slot, kind, pc, child, cns, nsfd, ret, failed, dwriter, wcopies>>

TypeOK ==
  /\ slot \in [Kinds -> NsFds \cup {NoFd}]
  /\ kind \in [Threads -> Kinds]
  /\ pc \in [Threads -> ThreadPcs]
  /\ child \in [Threads -> ChildPcs]
  /\ cns \in [Threads -> Namespaces]
  /\ nsfd \in [Threads -> NsFds \cup {NoFd}]
  /\ ret \in [Threads -> NsFds \cup {NoFd}]
  /\ failed \in [Threads -> BOOLEAN]
  /\ dwriter \in SUBSET Threads
  /\ wcopies \in [Threads -> SUBSET Threads]

\* MountNamespaceManager::new: both OnceLocks empty.  Each handler thread
\* is about to call save_mount_namespace for some kind.
Init ==
  /\ slot = [k \in Kinds |-> NoFd]
  /\ kind \in [Threads -> Kinds]
  /\ pc = [t \in Threads |-> "check"]
  /\ child = [t \in Threads |-> "none"]
  /\ cns = [t \in Threads |-> "DaemonNs"]
  /\ nsfd = [t \in Threads |-> NoFd]
  /\ ret = [t \in Threads |-> NoFd]
  /\ failed = [t \in Threads |-> FALSE]
  /\ dwriter = {}
  /\ wcopies = [t \in Threads |-> {}]

Goto(t, from, to) ==
  /\ pc[t] = from
  /\ pc' = [pc EXCEPT ![t] = to]

ChildGoto(t, from, to) ==
  /\ child[t] = from
  /\ child' = [child EXCEPT ![t] = to]

\* The process of thread c's child is gone: the kernel closes every
\* descriptor it held, the inherited pipe writers included.
Released(c) == [v \in Threads |-> wcopies[v] \ {c}]

\* Every copy of thread t's pipe_writer is closed: read() returns 0.
PipeEof(t) == t \notin dwriter /\ wcopies[t] = {}

-----------------------------------------------------------------------------
(* Parent side: the caller of save_mount_namespace.                        *)

\* if let Some(fd) = ns_fd_cell.get() { return Ok(fd.as_raw_fd()) }
CheckCached(t) ==
  /\ Goto(t, "check", "done")
  /\ slot[kind[t]] # NoFd
  /\ ret' = [ret EXCEPT ![t] = slot[kind[t]]]
  /\ UNCHANGED <<slot, kind, child, cns, nsfd, failed, dwriter, wcopies>>

\* The slot is empty: rustix::pipe::pipe() succeeds; both ends are open
\* in the daemon process.
Pipe(t) ==
  /\ Goto(t, "check", "fork")
  /\ slot[kind[t]] = NoFd
  /\ dwriter' = dwriter \cup {t}
  /\ UNCHANGED <<slot, kind, child, cns, nsfd, ret, failed, wcopies>>

\* pipe()? fails: Err before any fork.
PipeFail(t) ==
  /\ Goto(t, "check", "done")
  /\ slot[kind[t]] = NoFd
  /\ UNCHANGED <<slot, kind, child, cns, nsfd, ret, failed, dwriter, wcopies>>

\* Mutation of Fork: the parent keeps its pipe_writer (no drop at :128).
ForkKeepingWriter(t) ==
  /\ Goto(t, "fork", "read")
  /\ child' = [child EXCEPT ![t] = "switch"]
  /\ wcopies' = [v \in Threads |-> IF v \in dwriter THEN wcopies[v] \cup {t}
                                                    ELSE wcopies[v]]
  /\ UNCHANGED <<slot, kind, cns, nsfd, ret, failed, dwriter>>

\* fork() succeeds: the child starts with a copy of every pipe_writer open
\* in the daemon (its own included); the parent drops its pipe_writer.
Fork(t) ==
  /\ Goto(t, "fork", "read")
  /\ child' = [child EXCEPT ![t] = "switch"]
  /\ wcopies' = [v \in Threads |-> IF v \in dwriter THEN wcopies[v] \cup {t}
                                                    ELSE wcopies[v]]
  /\ dwriter' = dwriter \ {t}
  /\ UNCHANGED <<slot, kind, cns, nsfd, ret, failed>>

\* fork() fails (bail!): Err, no child; the pipe's ends are dropped.
ForkFail(t) ==
  /\ Goto(t, "fork", "done")
  /\ dwriter' = dwriter \ {t}
  /\ UNCHANGED <<slot, kind, child, cns, nsfd, ret, failed, wcopies>>

\* Mutation of ReadPipe: a parent that does not wait for the child at all.
ReadPipeNoWait(t) ==
  /\ Goto(t, "read", "open")
  /\ UNCHANGED <<slot, kind, child, cns, nsfd, ret, failed, dwriter, wcopies>>

\* rustix::io::read(pipe_reader, &mut buf)?  blocks until the child wrote
\* its byte (it then sleeps) or every copy of the write end is closed; the
\* number of bytes read is not checked.
ReadPipe(t) ==
  /\ Goto(t, "read", "open")
  /\ child[t] = "sleeping" \/ PipeEof(t)
  /\ UNCHANGED <<slot, kind, child, cns, nsfd, ret, failed, dwriter, wcopies>>

\* The `?` of that read: an error returns Err before kill and waitpid.
ReadPipeFail(t) ==
  /\ Goto(t, "read", "done")
  /\ UNCHANGED <<slot, kind, child, cns, nsfd, ret, failed, dwriter, wcopies>>

\* The child process still holds its namespaces (it has not exited).
ChildAlive == {"switch", "chdir", "unshare", "clean", "signal", "sleeping", "dying"}

\* fs::File::open("/proc/<child>/ns/mnt")? succeeds while the child still
\* has its namespaces, and yields a descriptor on the one it is in.
OpenNs(t) ==
  /\ Goto(t, "open", "kill")
  /\ child[t] \in ChildAlive
  /\ nsfd' = [nsfd EXCEPT ![t] = [owner |-> t, ns |-> cns[t]]]
  /\ UNCHANGED <<slot, kind, child, cns, ret, failed, dwriter, wcopies>>

\* The open fails (the child has exited, or the daemon is out of
\* descriptors): `?` returns Err before kill and waitpid.
OpenNsFail(t) ==
  /\ Goto(t, "open", "done")
  /\ UNCHANGED <<slot, kind, child, cns, nsfd, ret, failed, dwriter, wcopies>>

\* libc::kill(child_pid, SIGKILL); libc::waitpid(child_pid, ..)
KillChild(t) ==
  /\ Goto(t, "kill", "set")
  /\ child' = [child EXCEPT ![t] = "reaped"]
  /\ wcopies' = Released(t)
  /\ UNCHANGED <<slot, kind, cns, nsfd, ret, failed, dwriter>>

\* Mutation of SetSlot: the error of set() ignored
\* (`let _ = cell.set(..); Ok(raw_fd)`).
SetSlotIgnoringError(t) ==
  /\ Goto(t, "set", "done")
  /\ slot' = IF slot[kind[t]] = NoFd THEN [slot EXCEPT ![kind[t]] = nsfd[t]] ELSE slot
  /\ ret' = [ret EXCEPT ![t] = nsfd[t]]
  /\ nsfd' = [nsfd EXCEPT ![t] = NoFd]
  /\ UNCHANGED <<kind, child, cns, failed, dwriter, wcopies>>

\* ns_fd_cell.set(ns_file.into()): stores the descriptor if the cell is
\* still empty and returns Ok(raw_fd); otherwise the descriptor is dropped
\* and the call returns Err("Failed to set OnceLock ...").
SetSlot(t) ==
  /\ Goto(t, "set", "done")
  /\ IF slot[kind[t]] = NoFd
       THEN /\ slot' = [slot EXCEPT ![kind[t]] = nsfd[t]]
            /\ ret' = [ret EXCEPT ![t] = nsfd[t]]
       ELSE UNCHANGED <<slot, ret>>
  /\ nsfd' = [nsfd EXCEPT ![t] = NoFd]
  /\ UNCHANGED <<kind, child, cns, failed, dwriter, wcopies>>

-----------------------------------------------------------------------------
(* Child side: the forked process (mount.rs:102-124).                      *)

\* switch_mount_namespace(pid).unwrap(), first half: current_dir(), the
\* open of /proc/<pid>/ns/mnt and setns succeed; the child is now in the
\* anchor's namespace (setns also moved its cwd to that namespace's root).
ChildSetns(t) ==
  /\ ChildGoto(t, "switch", "chdir")
  /\ cns' = [cns EXCEPT ![t] = "AnchorNs"]
  /\ UNCHANGED <<slot, kind, pc, nsfd, ret, failed, dwriter, wcopies>>

\* Second half: set_current_dir(cwd) succeeds and the call returns Ok; for
\* Root the child is then ready to signal, for Clean it goes on to unshare.
ChildChdir(t) ==
  /\ ChildGoto(t, "chdir", IF kind[t] = "Clean" THEN "unshare" ELSE "signal")
  /\ UNCHANGED <<slot, kind, pc, cns, nsfd, ret, failed, dwriter, wcopies>>

\* unshare(CLONE_NEWNS).unwrap(): a private copy of the anchor's namespace.
ChildUnshare(t) ==
  /\ ChildGoto(t, "unshare", "clean")
  /\ cns' = [cns EXCEPT ![t] = "PrivateNs"]
  /\ UNCHANGED <<slot, kind, pc, nsfd, ret, failed, dwriter, wcopies>>

\* Self::clean_mount_namespace().unwrap(): unmount failures are only
\* logged, so a successful return leaves the private copy cleaned.
ChildClean(t) ==
  /\ ChildGoto(t, "clean", "signal")
  /\ cns' = [cns EXCEPT ![t] = "CleanedNs"]
  /\ UNCHANGED <<slot, kind, pc, nsfd, ret, failed, dwriter, wcopies>>

\* rustix::io::write(pipe_writer, &[0]).unwrap(), which takes pipe_writer
\* by value and closes it, then sleep forever (the inherited copies of
\* other threads' writers stay open).
ChildSignal(t) ==
  /\ ChildGoto(t, "signal", "sleeping")
  /\ wcopies' = [wcopies EXCEPT ![t] = @ \ {t}]
  /\ UNCHANGED <<slot, kind, pc, cns, nsfd, ret, failed, dwriter>>

\* One of the unwraps above fails: the panic drops pipe_writer, so once no
\* other child holds a copy the parent reads end-of-file while the child
\* is still in its namespace.  In
\* "chdir" setns has already moved the child: set_current_dir failing there
\* panics in the anchor's namespace.
ChildPanic(t) ==
  /\ child[t] \in {"switch", "chdir", "unshare", "clean", "signal"}
  /\ child' = [child EXCEPT ![t] = "dying"]
  /\ failed' = [failed EXCEPT ![t] = TRUE]
  /\ wcopies' = [wcopies EXCEPT ![t] = @ \ {t}]
  /\ UNCHANGED <<slot, kind, pc, cns, nsfd, ret, dwriter>>

\* The panicking child exits and releases its namespaces (not reaped).
ChildExit(t) ==
  /\ ChildGoto(t, "dying", "zombie")
  /\ wcopies' = Released(t)
  /\ UNCHANGED <<slot, kind, pc, cns, nsfd, ret, failed, dwriter>>

-----------------------------------------------------------------------------

ThreadStep(t) ==
  \/ CheckCached(t) \/ Pipe(t) \/ PipeFail(t) \/ Fork(t) \/ ForkFail(t)
  \/ ReadPipe(t) \/ OpenNs(t) \/ OpenNsFail(t)
  \/ KillChild(t) \/ SetSlot(t)

ChildStep(t) ==
  \/ ChildSetns(t) \/ ChildChdir(t) \/ ChildUnshare(t) \/ ChildClean(t)
  \/ ChildSignal(t) \/ ChildExit(t)

\* Every call has returned and no child has anything left to do.
Terminated ==
  /\ \A t \in Threads : pc[t] = "done" /\ child[t] # "dying"
  /\ UNCHANGED vars

Next ==
  \/ \E t \in Threads :
       ThreadStep(t) \/ ChildStep(t) \/ ChildPanic(t) \/ ReadPipeFail(t)
  \/ Terminated

\* Threads and processes are scheduled by the kernel: each one that can run
\* eventually does.  Failures are not obliged to happen: ChildPanic and
\* ReadPipeFail stand apart, and PipeFail, ForkFail and OpenNsFail are
\* alternatives of a ThreadStep that the thread takes anyway.  A thread
\* blocked in read() is not running: fairness gives it no failure.
Fairness ==
  \A t \in Threads : WF_vars(ThreadStep(t)) /\ WF_vars(ChildStep(t))

Spec == Init /\ [][Next]_vars /\ Fairness

-----------------------------------------------------------------------------
(* Properties.                                                             *)

\* Unless the child that produced it panicked, a cached descriptor pins the
\* namespace its kind promises: the anchor's for Root, the cleaned private
\* copy for Clean.  This rests on the parent blocking on the pipe until the
\* child has finished setting up.
SlotHoldsIntendedUnlessFailed ==
  \A k \in Kinds :
    slot[k] # NoFd /\ ~failed[slot[k].owner] => slot[k].ns = Intended(k)

\* Every call of save_mount_namespace returns, also when its child panics
\* and the parent must wait for end-of-file on the pipe (spec 4.C: the
\* call fails and the connection is served on).
EveryCallReturns ==
  \A t \in Threads : <>(pc[t] = "done")


\* The cache's contract (module NsCache) seen through this module's state:
\* the slots, the kinds asked for and the results are mapped unchanged;
\* pipes, children and opened descriptors are internal.
Contract == INSTANCE NsCache WITH Values <- NsFds

\* save_mount_namespace, with all its callers and their children,
\* implements the write-once cache of spec 3: every step is a cache hit,
\* a fill of an empty slot returning the new descriptor, or invisible
\* (a failed call, the loser of a race dropping its descriptor).
ImplementsNsCache == Contract!Spec

\* Spec 4.C (failure semantics): a setns (or unshare, or cleaning) failure
\* fails the call and leaves the slot empty, so a cached descriptor is
\* always on the namespace its kind promises.
SlotHoldsIntendedNs ==
  \A k \in Kinds : slot[k] # NoFd => slot[k].ns = Intended(k)

\* Spec 3 and 5: concurrent callers cooperate so that exactly one
\* fork-and-pin (a child forked, its namespace opened, killed and reaped)
\* happens per slot.
SinglePinPerSlot ==
  \A k \in Kinds :
    Cardinality({t \in Threads : kind[t] = k /\ child[t] = "reaped"}) <= 1

\* Spec 4.C step 3: the parent kills the child it forked; no call returns
\* leaving its child running (asleep forever, pinning a namespace).
NoChildLeftRunning ==
  \A t \in Threads :
    pc[t] = "done" => child[t] \notin ChildAlive

\* As long as no call returns leaving behind a child that only a kill ends
\* (one still setting up or asleep), every call returns: the copies of a
\* pipe_writer that other children inherited at fork are all closed in
\* time, since those children exit or are killed by their own parents, so
\* a parent whose child panicked is woken by end-of-file.
CallsReturnUnlessChildLeaked ==
  [](\A t \in Threads :
       pc[t] = "done" => child[t] \in {"none", "dying", "zombie", "reaped"})
    => EveryCallReturns

=============================================================================
