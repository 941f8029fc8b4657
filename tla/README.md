# TLA+ models of the NeoZygisk daemon (zygiskd)

This directory holds TLA+ specifications of the Rust daemon in `src/zygiskd/src/`. It contains:

- TLC configurations that model-check the specifications on small instances;
- TLAPS proofs of the main invariants for every value of the constants.

Each model is translated from the code. `PROJECT.json` maps every definition to the source lines it models. It also lists the runs, the mutants that show each property can fail, the findings, and the hazards.

## 1. The system and its parts

The source tree in `src/` has four files.

| File | Lines | What it contains |
|------|------:|------------------|
| `mount.rs` | 215 | `MountNamespaceManager`: it caches one file descriptor per mount namespace, Clean and Root. It also has `clean_mount_namespace` and `switch_mount_namespace`. |
| `utils.rs` | 204 | The framing trait `UnixStreamExt` (length-prefixed integers and strings over a stream socket). It also has `is_socket_alive` and SELinux, property and socket helpers. |
| `main.rs` | 143 | Process bootstrap: it chooses daemon, companion or version mode. |
| `constants.rs` | 81 | Wire codes: `DaemonSocketAction`, `ProcessFlags` bits, controller codes. |

Several parts named by `spec.md` are not under `src/`: the request dispatcher (`zygiskd.rs`), the module loader, the companion registry and the root-implementation probe. The companion registry and its handoff are modelled from spec 4.E/4.F (`CompanionRegistry`, marked `spec_modelled` in the map). The other parts appear only as the environment of the models.

### How the parts interact

A dispatcher thread per connection handles a `CacheMountNamespace` or `UpdateMountNamespace` request by calling `save_mount_namespace(pid, kind)`. That call does the following:

1. If the `OnceLock` slot for `kind` is set, it returns the cached fd (mount.rs:94).
2. Otherwise it creates a pipe and forks (mount.rs:99-101).
3. The child does its setup:
   - it moves into the mount namespace of `pid` (`switch_mount_namespace`);
   - for Clean only, it `unshare`s a private namespace and runs `clean_mount_namespace`;
   - it writes one byte to the pipe and sleeps forever.
   Every step of the child is `.unwrap()`: a failure panics, the child exits and the pipe closes.
   The child also holds a copy of every pipe write end that was open in the daemon when it forked: `fork()` copies the whole descriptor table, including the pipes of other handler threads between their `pipe()` and their `drop(pipe_writer)`.
4. The parent does the rest:
   - it reads one byte, or EOF once every copy of the write end is closed (mount.rs:131);
   - it opens `/proc/<child>/ns/mnt`;
   - it kills and reaps the child;
   - it `set`s the slot.

Several dispatcher threads can run `save_mount_namespace` at the same time.

`clean_mount_namespace` runs inside that child. It works in four steps:

1. It reads the mountinfo.
2. It selects as targets every mount that is one of:
   - a module bind mount;
   - under `/data/adb/modules`;
   - the root implementation's marker source;
   - under KernelSU, the loop device that backs `/data/adb/modules`.
3. It sorts the targets by descending `mnt_id`.
4. It calls `umount2(path, MNT_DETACH)` on each target's mount point.

At startup `start()` (main.rs:94) dispatches on `argv[1]`. Without a mode argument it runs `main_daemon_entry`, which calls `switch_mount_namespace(1)` to move into PID 1's mount namespace. That call does four things, and any of them can fail with `?`:

1. save the cwd as a path;
2. open `/proc/1/ns/mnt`;
3. `setns`, which also resets the thread's cwd to `/` in the new namespace;
4. `set_current_dir` to the saved path.

The daemon then finds its modules through the relative path `PATH_MODULES_DIR = ".."` (constants.rs:35).

A `RequestCompanionSocket` request runs `obtain_companion` under the module's mutex. The steps are:

1. probe the cached socket with `is_socket_alive` (utils.rs:185-199);
2. if the probe says dead, drop the socket;
3. otherwise reuse it, or fork a companion and handshake with it.

After the mutex is released, the handler sends the app's fd to the companion and forwards the companion's one-byte answer. `ZygoteRestart` drops the cached socket.

Every request and response crosses a stream socket through `UnixStreamExt`. The integers are native-endian. A string is a usize length followed by its bytes. `read_exact` and `write_all` loop over partial reads and writes.

## 2. Modules

| Module | Models | State | Actions |
|--------|--------|-------|---------|
| `MountNamespace` | `save_mount_namespace`, with concurrent callers and their forked children (mount.rs:24-153, 43-53) | `slot[kind]`: the `OnceLock`s. `pc[t]` and `kind[t]`: each caller thread. `child[t]` and `cns[t]`: the state of its forked child and the namespace it is in. `nsfd[t]`: the opened fd. `ret[t]`: the Ok result. `failed[t]`: the child panicked. `dwriter`: the threads whose write end is open in the daemon. `wcopies[t]`: the children holding a copy of thread t's write end. | Caller: `CheckCached`, `Pipe`, `PipeFail`, `Fork`, `ForkFail`, `ReadPipe`, `ReadPipeFail`, `OpenNs`, `OpenNsFail`, `KillChild`, `SetSlot`. Child: `ChildSetns`, `ChildChdir`, `ChildUnshare`, `ChildClean`, `ChildSignal`, `ChildPanic`, `ChildExit`. |
| `NsCache` | What the namespace cache promises (spec 3, 8.3), with no fork in sight | `slot[k]`, `kind[t]`, `ret[t]` | `Hit` (return the cached fd), `Fill` (fill an empty slot and return its fd). |
| `DaemonBoot` | `start`, `main_daemon_entry` (main.rs:94-141) and the daemon's `switch_mount_namespace(1)` (mount.rs:43-53) | `dirs[ns]`: the directories each namespace has. `argv`. `pc`. `ns` and `cwd`: the main thread's namespace and working directory. `saved`: the path `current_dir` returned. | `Start`, `CurrentDir`, `Setns`, `Chdir`, `Serve`. |
| `CompanionRegistry` | One module's companion slot, `obtain_companion`, the handoff and `ZygoteRestart` (spec 4.E/4.F), with `is_socket_alive` (utils.rs:185-199) | `lock`, `cached`, `comp[c]` (unborn, alive, dead), `inbox[c]`/`outbox[c]` (the companion socket's two directions), `pc[r]`, `use[r]`, `answer[r]`, `zpc`. History: `decision`, `reused`, `after`, `born`. | Handler: `Acquire`, `Check`, `Spawn`, `Handshake`, `Release`, `Send`, `Reply`. Companion: `Serve`, `Die`. `Restart`. |
| `MountClean` | `clean_mount_namespace` (mount.rs:156-207) | `live`: the mounts attached, a tree with stacking. `targets`: the sorted target list. `phase`. `round`: a first run or a repeated run. History: `start`, `afterFirst`. | `Collect` (the filter and the sort), `UnmountNext` (one `umount2`), `Finish`, `RunAgain` (the algorithm applied to its own result). |
| `Framing` | `UnixStreamExt` (utils.rs:103-160) | The writer: field index, bytes sent, closed. `wire`: the socket buffer. The reader: field index, stage (int, len or body), `read_exact` buffer, decoded values, outcome. | `Write` (one `write(2)` of `write_all`), `WriterClose` (the peer dies), `ReadChunk` (one `read(2)` of `read_exact`), `ReadEof`, `ReadDone` (decode, UTF-8 check, next field). |
| `MountNamespace_proofs` | TLAPS proofs about `MountNamespace` | | |
| `DaemonBoot_proofs` | TLAPS proofs about `DaemonBoot` | | |
| `CompanionRegistry_proofs` | TLAPS proofs about `CompanionRegistry` | | |
| `MC_*` | Model values and small instances for TLC | | |

### Correspondence notes

`MountNamespace`:

- A child's namespace is one of four abstract values:
  - `DaemonNs`, the one it was forked in;
  - `AnchorNs`, the one of `pid`;
  - `PrivateNs`, after `unshare` and before cleaning;
  - `CleanedNs`.
  `Intended(kind)` is what the slot is meant to pin: `AnchorNs` for Root and `CleanedNs` for Clean.
- `ChildPanic` can fire at any unwrap: in setns, in unshare, in the clean, or in the write. That makes the child `dying`, with the pipe closed, and then a `zombie`.
- The child's `switch_mount_namespace` is two steps: `ChildSetns` moves it into `AnchorNs`; `ChildChdir` is the `set_current_dir` after it. A failing `set_current_dir` is a `ChildPanic` from `chdir`, after the move.
- `Contract == INSTANCE NsCache WITH Values <- NsFds` maps the detailed state onto the abstract cache: `slot`, `kind` and `ret` are shared. `CheckCached` is a `Hit`; a `SetSlot` on an empty slot is a `Fill`; every other step, and a `SetSlot` on a full slot, is a stutter.
- `Pipe` and `Fork` are two steps, because another thread can fork between them: its child then inherits this thread's write end. `Fork` gives the new child a copy of every write end in `dwriter` (its own included) and then drops the parent's. The child closes its own copy when it writes (`write` takes the fd by value) or panics. The copies it inherited close only when it exits (`ChildExit`) or is killed (`KillChild`); both use `Released`.
- `ReadPipe` is enabled once the child has signalled (`sleeping`), or when every copy of the write end is closed (`PipeEof`). The code never checks the byte count of the read. `ReadPipeFail` is the read's `?`, which returns before the kill. No signal handler is installed, so the model only over-approximates here.
- Fairness is weak fairness on each thread's steps and each child's setup steps. Failures are never forced: `ChildPanic` and `ReadPipeFail` are outside the fair steps. A thread blocked in `read` is not running, so fairness gives it no way out. The cfgs say `CHECK_DEADLOCK FALSE` because a handler really can block forever (run `ns_hang`).
- `OpenNs` may fire while the child's `/proc` entry exists, that is, until it is reaped.
- `OpenNsFail` models the `?` at mount.rs:135, which returns before the kill.
- `SetSlot` models `OnceLock::set`: only the first set stores; a later one drops the fd and returns Err.

`MountClean`:

- Paths are sequences of components. A mount's parent is the mount under it, including the mount under it at the same path when mounts are stacked.
- `umount2` by path hits the top of the stack at that path (`TopAt`). With `MNT_DETACH` it also detaches everything below that mount.
- `root_impl::get()` is a nondeterministic constant of each run.

`Framing`:

- Integers are encoded little-endian, as every Android ABI is. The `framing` run uses `size_of::<usize>() = 8`.
- `Claimed(f)` is the length prefix `write_string` sends; a field with a `len` entry stands for a malformed request whose prefix differs from its payload.

`DaemonBoot`:

- A directory is a path in a namespace. `Layouts` gives each namespace's directories along the path to the module directory; the launch and init namespaces may differ, as they do when the daemon is started from a private mount namespace.
- `ModulesDir(cwd)` resolves `".."` against the cwd.
- `Setns` either fails (open or setns, leaving the thread as it was) or moves the thread and sets its cwd to `/`. `Chdir` looks the saved path up in the new namespace.

`CompanionRegistry`:

- Only `is_socket_alive` is code under `src/`. `IsSocketAlive(ret, revents)` translates its two tests. `Revents(c)` is what poll reports: `POLLHUP` for a dead companion, `POLLIN` for answers not yet read. `PollResults(c)` adds poll's own failure, -1, which is possible even with a zero timeout.
- A fork failure and the companion's decline or death during the handshake all return "no companion", as spec 4.E steps 4-5 say. `MaxSpawns` bounds the companions forked in a run.
- `ZygoteRestart` takes the mutex, clears the slot and releases it. Nothing else touches the slot while the mutex is held, so `Restart` is one action guarded by a free mutex.
- String bytes are drawn from ASCII and `0xFF`. `0xFF` never occurs in UTF-8, so `from_utf8` fails exactly when `0xFF` is present.

## 3. Runs

| Run | cfg | Expect | Shows |
|-----|-----|--------|-------|
| `ns_safety` | `MC_MountNamespace_safety.cfg` | pass | Two threads race on one slot or use both, with pipe, fork, read, open and child failures and inherited write ends. `SlotHoldsIntendedUnlessFailed`: a slot whose child did not panic pins the namespace its kind promises. `ImplementsNsCache`: the whole implements the abstract write-once cache `NsCache` under the refinement mapping. `CallsReturnUnlessChildLeaked`: as long as no call returns leaving a child that only a kill ends, every call returns, even when its child panics. The write ends inherited at fork form no cycle, because a child only holds the writers of pipes created before its fork and not yet closed. About 14k states. |
| `ns_intended` | `MC_MountNamespace_intended.cfg` | violation | `SlotHoldsIntendedNs` fails. A child panics in setns; the parent reads EOF as "ready", opens the child's namespace (the daemon's) and caches it as Clean. |
| `ns_singlepin` | `MC_MountNamespace_singlepin.cfg` | violation | `SinglePinPerSlot` fails. Two callers both fork and pin one slot: the check and the set are not atomic. |
| `ns_leak` | `MC_MountNamespace_leak.cfg` | violation | `NoChildLeftRunning` fails. The read or the open fails and the call returns with its child still running. |
| `ns_hang` | `MC_MountNamespace_hang.cfg` | violation | `EveryCallReturns` fails. Thread 1 creates its pipe and thread 2 creates its own. Thread 1 forks, so its child holds thread 2's write end. Thread 1's read fails and it returns, leaving that child asleep. Thread 2 forks, and its child panics. Thread 2 then blocks in `read` forever. |
| `clean_reference` | `MC_MountClean.cfg` | pass | `CleanMatchesReference`: one run removes exactly what spec 4.C's policy removes. This holds for every table of a 10-mount universe under every root implementation, unless a target is covered at its own path. |
| `clean_idempotent` | `MC_MountClean_idem.cfg` | violation | `CleanIdempotent` fails. A tmpfs stacked over a Magisk mount at the same path is what `umount2` by path removes. The Magisk mount survives the first run and goes in the second. |
| `framing` | `MC_Framing.cfg` | pass | `ReadValuesAreWritten`, `ReaderOutcome` and `EveryReadReturns` hold for every split of writes and reads and every moment of writer death. |
| `boot` | `MC_DaemonBoot.cfg` | pass | `ServesFromModulesRootOfInit`: for every argument vector and every pair of layouts, the daemon serves only from PID 1's namespace with `..` naming the modules root it was launched beside. 341 states. |
| `boot_cwd` | `MC_DaemonBoot_cwd.cfg` | violation | `CwdPreservedAcrossSwitch` fails. The launch directory is missing in init's namespace: setns succeeds, `set_current_dir` fails, and the call returns Err with the thread moved and its cwd at `/`. |
| `registry` | `MC_CompanionRegistry.cfg` | pass | `ReusedOnlyIfAlive`: a cached socket is reused only while its companion lives. `FreshAfterRestart`: a request that takes the mutex after `ZygoteRestart` is served only by a companion forked after it. `CachedFilledOnlyWhenEmpty` (an action property): the cached socket is only dropped, or filled while empty with a companion that just answered the handshake. `EveryRequestAnswered`: every companion request ends, even when its companion dies between the probe and the handoff. About 150k states. |
| `registry_reply` | `MC_CompanionRegistry_reply.cfg` | violation | `ReplyMatchesDecision` fails. Two handlers hand off to the same companion outside the mutex, and one reads the answer meant for the other. |

Each property of a passing run has a mutant in `PROJECT.json`: a plausible bug in the mapped code that TLC catches.

| Property | Mutant that breaks it |
|----------|-----------------------|
| `SlotHoldsIntendedUnlessFailed` | reading the pipe before the child is done |
| `CallsReturnUnlessChildLeaked` | the parent not dropping its write end after fork |
| `CleanMatchesReference` | dropping the KernelSU clause; a `umount2` without `MNT_DETACH` |
| `ReadValuesAreWritten` | a string buffer one byte long |
| `ReaderOutcome` | no UTF-8 check |
| `EveryReadReturns` | retrying on a 0-byte read |
| `ImplementsNsCache` | ignoring `set`'s error |
| `ServesFromModulesRootOfInit` | restoring the cwd before setns instead of after |
| `ReusedOnlyIfAlive` | `is_socket_alive` checking only poll's return value |
| `FreshAfterRestart` | `ZygoteRestart` clearing the slot without the mutex |
| `CachedFilledOnlyWhenEmpty` | `obtain_companion` running without the mutex: two handlers each spawn, and the second overwrites the first's cached socket |
| `EveryRequestAnswered` | the handoff read retrying on a 0-byte read |

### Bounds

- **MountNamespace.** Two threads and two kinds in `ns_safety`. That is enough for two threads on one slot (the race), and for any thread's child panicking at any step. The run has no symmetry reduction because it also checks liveness. Its two safety properties are also proved for any number of threads (section 4). The violation runs use three threads with symmetry.
- **MountClean.** The ten mounts cover every clause of `should_unmount`:
  - a module bind mount (root `/adb/modules/...`);
  - the `/data/adb/modules` loop mount and a mount under it;
  - a second mount of the same loop device elsewhere;
  - the markers of Magisk, KernelSU and APatch;
  - a tmpfs stacked over a Magisk mount at the same path;
  - a nested mount under a target.
  The tables are every parent-closed subset that contains `/`.
- **Framing.** Four requests:
  - a u8 and a usize, like `RequestCompanionSocket`;
  - a u32 and a string;
  - a non-UTF-8 string followed by a u8;
  - an empty string followed by a u8.
  Multi-byte values (258, 65538) make byte order matter.
- **DaemonBoot.** Every argument vector `start` tells apart (none, companion with a good, bad or missing fd, version, root), and every pair of layouts in which each namespace has the first n directories of the path to the module directory (25 pairs).
- **CompanionRegistry.** Three handlers, one `ZygoteRestart` and at most two companions. Two handlers on one companion give the crossed reads; a third lets a request find a companion that another request cached and that has since died. Two forks allow a pre-restart and a post-restart companion.

### Fairness

Caller threads and forked children are scheduled by the kernel, so each gets weak fairness on its normal steps. Failures get no fairness: `ForkFail`, `OpenNsFail` and `ChildPanic` may happen but need not. Every run checks for deadlock: each model has a `Terminated` step for the state in which every caller has returned.

In `Framing`, a live writer keeps writing (WF), and the reader keeps reading (WF). The writer's death is not assumed.

In `CompanionRegistry`, each handler thread and each live companion is weakly fair, and so is the `ZygoteRestart` connection. A companion's death is never assumed. `Terminated` lets the run stop once every request is done; no run disables the deadlock check.

## 4. What is proved (TLAPS)

Four modules hold proofs. `tlapm` checks each of them to the last leaf.

### `MountNamespace_proofs.tla`

The proofs assume only:

- `Threads` is a non-empty finite set (`ThreadsAssumption`);
- `NoFd` is not a descriptor (`NoFdAssumption`).

They hold for any number of threads. The module proves three theorems:

- `TypeCorrect`: `Spec => []TypeOK`.
- `SlotHoldsIntendedUnlessFailedHolds`: `Spec => []SlotHoldsIntendedUnlessFailed`. This one is not inductive by itself. It is proved through `IntendedInv`, which is `TypeOK` plus, for each thread, `ThreadInv`, and for each kind, `SlotInv`:
  - a child in `unshare` or `clean` belongs to a Clean caller;
  - a dying or zombie child has `failed`;
  - a child that did not fail and has signalled is in `Intended(kind)`;
  - a caller at `fork` still has its write end in the daemon, and a caller at `read` has a child;
  - a child still setting up holds its own write end, so end-of-file cannot come before it signals or panics;
  - a caller at `open` has a signalled or dead child;
  - an opened fd belongs to its thread, and it pins the intended namespace unless the child failed;
  - a set slot's owner has the slot's kind and has returned.

  TLC checked `IntendedInv` as an invariant before the proof. The step lemma `IntendedStep` has one step per action, with CASE splits in `SetSlot` (empty or full slot) and `ChildChdir` (Clean or Root).
- `ImplementsNsCacheHolds`: `Spec => ImplementsNsCache`, the refinement. The invariant it rests on is `RefineInv`, which is `TypeOK` plus, per thread:
  - a thread that has returned an fd is `done`;
  - a thread at `kill` or `set` holds an opened fd.
  The second conjunct makes a `SetSlot` into an empty slot a `Fill` with a value in `NsFds`. The first makes `ret[t] = NoFd` true whenever `CheckCached` or `SetSlot` fires, which is the guard of `Hit` and `Fill`. `RefineStep` shows that every step of `Next` is a `Contract!Next` step or leaves `slot`, `kind` and `ret` unchanged. The theorem follows by PTL.

### `DaemonBoot_proofs.tla`

`ServesFromModulesRootOfInitHolds`: `Spec => []ServesFromModulesRootOfInit`. It holds for every argument vector, every directory layout of the two namespaces and every launch directory in the launch namespace (`LaunchAssumption`). The property talks only about the `serving` state, so it is not inductive. The proof goes through `BootInv`, which follows the main thread along `switch_mount_namespace`:
- before setns, the thread is in the launch namespace at the launch directory;
- from `current_dir` on, `saved` is the launch directory;
- after setns, the thread is in PID 1's namespace;
- after a successful `set_current_dir`, its cwd is `saved`.

TLC checked `BootInv` on the `boot` instance (341 states) before the proof. The step lemma has one step per action.

### `CompanionRegistry_proofs.tla`

These proofs hold for any set of handlers and any `MaxSpawns >= 1` (`RegistryAssumption`).

- `TypeCorrect`: `Spec => [](TypeOK /\ UseInv)`. `UseInv` says that a handler at handshake, send or reply holds a companion. `Send` and `Reply` index `comp`, `inbox` and `outbox` by that companion, so the type proof needs it.
- `ReusedOnlyIfAliveHolds` and `FreshAfterRestartHolds`: `Spec => []ReusedOnlyIfAlive` and `Spec => []FreshAfterRestart`. Neither is inductive alone. Both rest on `RegistryInv`, which is the typing, the two properties, and four more facts:
  - `MutexInv`: only the lock holder is between `check` and `unlock`.
  - `RestartInv`: a handler inside that section took the lock on the side of the restart that `zpc` still shows, and `after` implies the restart is done.
  - `SocketInv`: a cached or held socket belongs to a forked companion, and after the restart the cached one was forked after it.
  - `IdleInv`: a handler before `Spawn` or a successful `Check` holds no companion.

  Reuse is alive because the probe excludes a hung-up peer and `SocketInv` excludes an unborn one. Freshness holds for three reasons. `Restart` needs the lock free, so no handler straddles it. A reused socket cached after the restart is fresh. `Spawn` picks an unborn companion, which no other handler holds.
- `CachedFilledOnlyWhenEmptyHolds`: `Spec => CachedFilledOnlyWhenEmpty`, an action property. It rests on `RegistryInv` and `EmptyWhileSpawning`, which says the cache is empty while a handler is at spawn or handshake. That fact needs the mutex (lemma `SoleSpawner`): only the handler's own `Check` could have cleared the cache, and nobody else can fill it.

TLC checked `RegistryInv` and `EmptyWhileSpawning` on the `registry` instance (151,808 states) before the proofs.

### `Framing_proofs.tla`

These proofs hold for both usize widths (`UsizeWidthAssumption`: 4 or 8 bytes) and for every set of requests the `write_*` methods can produce. That is the hypothesis `MessagesWellFormed` of each theorem:
- every request is a non-empty sequence of fields;
- an integer field's value fits the width of its Rust type;
- a string's length fits a usize, and its prefix is that length.

A request whose prefix differs from its payload (`Claimed`, the `len` field) is outside this set. No writer under `src/` produces one.

The codec is proved first:
- `Shifted`, `Encode` and `Decode` have no recursion: eight shifts and a Horner sum.
- `RoundTrip`: `Decode(Encode(v, w)) = v` for every width 1..8 and every `v` that fits. The proof is arithmetic, through `HornerCollapse` and `StaysSmall`.
- `IntEncoding` and `StrEncoding` give the length of each field's encoding, the bytes at each offset, and the decoded value or prefix.

Then three theorems:
- `ReadValuesAreWrittenHolds`: `Spec => []ReadValuesAreWritten`.
- `ReaderOutcomeHolds`: `Spec => []ReaderOutcome`.
- `FramingTypeOK`: `Spec => []TypeOK`.

None of the properties is inductive: they speak of `got` alone, and whether the next value is right depends on the bytes in flight. The proofs go through `FrameInv`, which uses the history variables `sent` and `starts`. It is `TypeOK`, plus:
- `WriterInv`: `sent` is the encodings of the fields before `wfield`, followed by the first `wsent` bytes of field `wfield`. `starts[i]` is where field `i` begins.
- `ReaderInv`: until a read fails, `rbuf` followed by `wire` is exactly `sent` from `RPos` on, where `RPos` is the offset at which the running `read_exact` began. A running read expects the stage and width of field `rfield`. `got` is the values of the fields before `rfield`, and their strings are UTF-8. An error carries one of its two causes.

TLC checked `FrameInv` on the `framing` instance (728 states) before the proof.

There is one step lemma per action:
- `Write`: the chunk appended to `wire` and to `sent` is the next slice of the field's encoding.
- `ReadChunk`: the bytes moved from `wire` to `rbuf` keep the alignment with `sent`.
- `ReadEof`: `wire` is empty, so the writer closed before finishing.
- `ReadDone`, which rests on three lemmas:
  - `CompletedRead`: a full buffer holds the integer's encoding, the length prefix, or the string's bytes.
  - `WholeFieldSent`: a completed integer or body read lies in a field the writer has finished.
  - `AdvanceFrameInv`: returning a value and moving to the next field keeps the invariant.

## 5. Checked only by TLC

- Liveness (`CallsReturnUnlessChildLeaked`, `EveryReadReturns`, `EveryRequestAnswered`): the proofs here do not reason about fairness and ENABLED.
- `MountClean` (`CleanMatchesReference`): its subtree operator `Below` is RECURSIVE. The mountinfo tree has unbounded depth. TLAPS cannot prove what a recursive definition computes for every input, and a module that reaches a RECURSIVE operator loses the SMT backend.
- The violation runs: each shows a counterexample, which needs no proof.

## 6. Findings

1. **EOF taken for readiness** (mount.rs:131, run `ns_intended`). A child whose setns, unshare or clean panics closes the pipe. The parent's `read` returns 0, and the parent goes on to pin and cache whatever namespace the child was in: the daemon's, the anchor's, or an uncleaned private one. Every later Clean request then gets that namespace. The spec says a failure leaves the slot empty.
2. **Two fork-and-pins per slot** (mount.rs:94, run `ns_singlepin`). `get()` and `set()` are separated by the whole fork sequence, with no lock. The loser's request returns Err although a correct fd exists. The spec promises one fork-and-pin per slot.
3. **Child leaked on read or open failure** (mount.rs:131/135, run `ns_leak`). The `?` returns before `kill`/`waitpid`, so the child sleeps forever, or stays a zombie if it had died.
4. **A handler blocked forever by another handler's leaked child** (mount.rs:101/131, run `ns_hang`). A child forked at :101 inherits the write end of every pipe that other threads created and have not yet dropped. The read at :131 waits for every copy to close. A child leaked by finding 3 keeps its copy forever. A thread whose own child panicked then never gets EOF, and its connection hangs. With no leak, every call returns (`CallsReturnUnlessChildLeaked`).
5. **Cleaning not idempotent** (mount.rs:200, run `clean_idempotent`). `umount2` takes a path. A non-target stacked over a target absorbs the unmount, and a second cleaning removes more.
6. **cwd not preserved on a failed restore** (mount.rs:51, run `boot_cwd`). The call returns Err after setns has moved the thread, and the cwd is left at `/`. Spec 8.7 says the cwd is preserved. The daemon exits on this Err, but in the forked child the same failure is a panic after setns, which finding 1 turns into a wrongly pinned namespace.
7. **Crossed companion answers** (spec 4.E, run `registry_reply`, a gap in the spec). The handoff runs outside the mutex on the one cached socket. Two handlers for one module can each read the byte the companion wrote for the other.

## 7. Not modelled, and why

- FD passing (`SCM_RIGHTS`) and the module loader. Their code is not under `src/`. The rest of the dispatcher (`ReadModules`, `GetProcessFlags`, `GetModuleDir`, action decoding) is not modelled either.
- The SELinux, property and listener helpers of utils.rs. These are pure I/O wrappers with no state.
- fork in a multi-threaded process, where a child inherits a held lock and hangs. This depends on the platform's atfork handling, not on this code.
- `read_string` on a hostile length prefix. No request the dispatcher reads carries a string (spec 4.F), and nothing under `src/` calls `read_string`, so no run feeds it one.

## 8. Plan for later work

1. A `Dispatcher` module (spec-modelled), composing `UpdateMountNamespace` and `CacheMountNamespace` with `MountNamespace`, and `GetProcessFlags` with the `ProcessFlags` bits from constants.rs.
2. A property for the POLLIN clause of `is_socket_alive` (a live companion with unread answers is kept). It needs the poll result recorded, because poll's own failure also drops a live companion.
