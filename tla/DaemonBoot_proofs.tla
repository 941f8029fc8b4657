--------------------------- MODULE DaemonBoot_proofs ---------------------------
(***************************************************************************)
(* Proofs about the daemon's start-up (DaemonBoot), for every argument     *)
(* vector, every directory layout and every launch directory.             *)
(***************************************************************************)
EXTENDS DaemonBoot, TLAPS

(***************************************************************************)
(* The inductive invariant.  switch_mount_namespace keeps the thread in    *)
(* the launch namespace and directory until setns, saves exactly the       *)
(* launch directory, and after a successful set_current_dir is in PID 1's  *)
(* namespace at the saved path.                                           *)
(***************************************************************************)
BootInv ==
  /\ TypeOK
  /\ pc \in {"start", "cwd", "open"} => ns = "LaunchNs" /\ cwd = LaunchCwd
  /\ pc \in {"open", "chdir", "setup", "serving"} => saved = LaunchCwd
  /\ pc \in {"chdir", "setup", "serving"} => ns = "InitNs"
  /\ pc \in {"setup", "serving"} => cwd = saved

LEMMA BootTypeOK == Init => BootInv
  BY LaunchAssumption DEF Init, BootInv, TypeOK, EndStates, Namespaces

LEMMA BootStep == BootInv /\ [Next]_vars => BootInv'
  <1> SUFFICES ASSUME BootInv, [Next]_vars PROVE BootInv'
    OBVIOUS
  <1> USE LaunchAssumption DEF BootInv, TypeOK, EndStates
  <1>1. CASE Start
    BY <1>1 DEF Start
  <1>2. CASE CurrentDir
    BY <1>2 DEF CurrentDir
  <1>3. CASE Setns
    BY <1>3 DEF Setns, Paths, Namespaces
  <1>4. CASE Chdir
    <2>1. saved \in dirs[ns] => saved \in Paths
      OBVIOUS
    <2>2. QED
      BY <1>4, <2>1 DEF Chdir
  <1>5. CASE Serve
    BY <1>5 DEF Serve
  <1>6. CASE Terminated \/ UNCHANGED vars
    BY <1>6 DEF Terminated, vars
  <1>7. QED
    BY <1>1, <1>2, <1>3, <1>4, <1>5, <1>6 DEF Next

(***************************************************************************)
(* The daemon only serves from PID 1's mount namespace with its working   *)
(* directory at the directory it was launched in, so PATH_MODULES_DIR      *)
(* ("..") names the same modules root it named at launch                  *)
(* (ServesFromModulesRootOfInit, main.rs:128 with mount.rs:43-53).         *)
(***************************************************************************)
THEOREM ServesFromModulesRootOfInitHolds == Spec => []ServesFromModulesRootOfInit
  <1>1. BootInv => ServesFromModulesRootOfInit
    BY DEF BootInv, ServesFromModulesRootOfInit
  <1>2. QED
    BY <1>1, BootTypeOK, BootStep, PTL DEF Spec

=============================================================================
