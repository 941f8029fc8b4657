----------------------------- MODULE DaemonBoot -----------------------------
(***************************************************************************)
(* Process bootstrap of zygiskd (main.rs: start, main_daemon_entry) and    *)
(* the call it makes to switch_mount_namespace(1) (mount.rs:43-53).        *)
(*                                                                         *)
(* The daemon is launched from its module directory and finds the modules  *)
(* root through the relative path PATH_MODULES_DIR = ".." (constants.rs). *)
(* Before anything else it moves into PID 1's mount namespace.  setns on  *)
(* a mount namespace also resets the thread's root and working directory  *)
(* to the root of the new namespace, so switch_mount_namespace remembers  *)
(* the cwd as a path and changes back to that path, resolved in the new   *)
(* namespace.  Each of its four system calls can fail; the `?` returns    *)
(* Err at once, whatever the earlier calls already changed.               *)
(*                                                                         *)
(* A directory is a path of a namespace.  Layouts gives, per namespace,   *)
(* the directories that exist there.                                      *)
(***************************************************************************)
EXTENDS Naturals, Sequences

CONSTANTS
  Argvs,      \* the argument vectors after argv[0] the binary can get
  Layouts,    \* the directory layouts: [Namespaces -> SUBSET Paths]
  LaunchCwd   \* the directory the daemon is started in

Namespaces == {"LaunchNs", "InitNs"}

Paths == {"/", "/data", "/data/adb", "/data/adb/modules",
          "/data/adb/modules/zygisksu"}

\* Path::parent for the paths above ("/" is its own parent for `..`).
ParentDir == [p \in Paths |->
                CASE p = "/" -> "/"
                  [] p = "/data" -> "/"
                  [] p = "/data/adb" -> "/data"
                  [] p = "/data/adb/modules" -> "/data/adb"
                  [] OTHER -> "/data/adb/modules"]

\* PATH_MODULES_DIR (constants.rs:35) resolved against the cwd.
ModulesDir(c) == ParentDir[c]

\* fd_str.parse::<i32>() succeeds on these argument strings.
FdStrings == {"3"}

ASSUME LaunchAssumption ==
  /\ LaunchCwd \in Paths
  /\ Layouts \subseteq [Namespaces -> SUBSET Paths]
  /\ \A L \in Layouts, n \in Namespaces :
       "/" \in L[n] /\ \A p \in L[n] : ParentDir[p] \in L[n]

VARIABLES
  dirs,   \* dirs[ns]: the directories that exist in namespace ns
  argv,   \* the arguments the process was started with
  pc,     \* "start", then the daemon's steps, then an end state
  ns,     \* the mount namespace the (main) thread is in
  cwd,    \* its working directory, a path of that namespace
  saved   \* the cwd switch_mount_namespace saved, "" before current_dir

vars == <<dirs, argv, pc, ns, cwd, saved>>

EndStates == {"companion", "version", "root", "usage", "failed", "serving"}

Init ==
  /\ dirs \in Layouts
  /\ argv \in Argvs
  /\ pc = "start"
  /\ ns = "LaunchNs"
  /\ cwd = LaunchCwd
  /\ saved = ""

\* start(): dispatch on args.get(1).  companion with a parsable fd enters
\* companion::entry; a bad or missing fd is logged; version and root print
\* and return; anything else runs main_daemon_entry.
Start ==
  /\ pc = "start"
  /\ pc' = CASE argv # <<>> /\ argv[1] = "companion" ->
                  IF Len(argv) >= 2 /\ argv[2] \in FdStrings
                    THEN "companion" ELSE "usage"
             [] argv # <<>> /\ argv[1] = "version" -> "version"
             [] argv # <<>> /\ argv[1] = "root" -> "root"
             [] OTHER -> "cwd"
  /\ UNCHANGED <<dirs, argv, ns, cwd, saved>>

\* let cwd = std::env::current_dir()?  fails if the cwd no longer exists.
CurrentDir ==
  /\ pc = "cwd"
  /\ IF cwd \in dirs[ns]
       THEN pc' = "open" /\ saved' = cwd
       ELSE pc' = "failed" /\ UNCHANGED saved
  /\ UNCHANGED <<dirs, argv, ns, cwd>>

\* fs::File::open("/proc/1/ns/mnt")? and move_into_link_name_space(..)?:
\* either can fail (permissions, SELinux) and leave the thread as it was;
\* setns succeeding moves the thread and resets its cwd to "/" there.
Setns ==
  /\ pc = "open"
  /\ \/ pc' = "chdir" /\ ns' = "InitNs" /\ cwd' = "/"
     \/ pc' = "failed" /\ UNCHANGED <<ns, cwd>>
  /\ UNCHANGED <<dirs, argv, saved>>

\* A mutation of Chdir: the cwd is restored before setns, so setns's reset
\* to "/" is what remains.
ChdirBeforeSetns ==
  /\ pc = "chdir"
  /\ pc' = "setup"
  /\ UNCHANGED <<dirs, argv, ns, cwd, saved>>

\* std::env::set_current_dir(cwd)?: the saved path, looked up in the new
\* namespace; if it does not exist there the call returns Err with the
\* thread already moved.
Chdir ==
  /\ pc = "chdir"
  /\ IF saved \in dirs[ns]
       THEN pc' = "setup" /\ cwd' = saved
       ELSE pc' = "failed" /\ UNCHANGED cwd
  /\ UNCHANGED <<dirs, argv, ns, saved>>

\* root_impl::setup(), then zygiskd::main() scans the modules directory
\* and serves.
Serve ==
  /\ pc = "setup"
  /\ pc' = "serving"
  /\ UNCHANGED <<dirs, argv, ns, cwd, saved>>

Terminated ==
  /\ pc \in EndStates
  /\ UNCHANGED vars

Next == Start \/ CurrentDir \/ Setns \/ Chdir \/ Serve \/ Terminated

Spec == Init /\ [][Next]_vars

-----------------------------------------------------------------------------
(* Properties.                                                             *)

TypeOK ==
  /\ dirs \in Layouts /\ argv \in Argvs
  /\ pc \in {"start", "cwd", "open", "chdir", "setup"} \cup EndStates
  /\ ns \in Namespaces /\ cwd \in Paths /\ saved \in Paths \cup {""}

\* The daemon serves only from PID 1's mount namespace, with the working
\* directory it was launched in, now resolved in that namespace, so the
\* relative modules directory ".." is the modules root there.  This needs
\* the cwd restore after setns, and in that order.
ServesFromModulesRootOfInit ==
  pc = "serving" =>
    /\ ns = "InitNs"
    /\ ModulesDir(cwd) = ModulesDir(LaunchCwd)

\* Spec 8.7: switching the thread's mount namespace preserves its working
\* directory across the call.
CwdPreservedAcrossSwitch ==
  pc \in {"setup", "serving", "failed"} /\ saved # "" => cwd = saved

=============================================================================
