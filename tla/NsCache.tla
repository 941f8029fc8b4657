------------------------------ MODULE NsCache ------------------------------
(***************************************************************************)
(* What the mount-namespace cache promises its callers (spec 3,            *)
(* MountNamespaceCache, and 8.3), with no fork, pipe or child in sight:    *)
(* one write-once slot per kind; a call for kind k either returns the      *)
(* descriptor already in slot k, or fills the empty slot with a new        *)
(* descriptor and returns that one, or fails and returns nothing.  A slot, *)
(* once filled, never changes, and a caller returns at most once.          *)
(***************************************************************************)
CONSTANTS
  Threads,   \* the callers
  Kinds,     \* the slots
  Values,    \* the descriptors a slot can hold
  NoFd       \* an empty slot / no result

VARIABLES
  slot,      \* slot[k]: the descriptor cached for kind k, or NoFd
  kind,      \* kind[t]: the kind caller t asks for
  ret        \* ret[t]: what caller t returned, NoFd while it has not

cvars == <<slot, kind, ret>>

Init ==
  /\ slot = [k \in Kinds |-> NoFd]
  /\ kind \in [Threads -> Kinds]
  /\ ret = [t \in Threads |-> NoFd]

\* The slot is filled: the caller returns its descriptor.
Hit(t) ==
  /\ ret[t] = NoFd
  /\ slot[kind[t]] # NoFd
  /\ ret' = [ret EXCEPT ![t] = slot[kind[t]]]
  /\ UNCHANGED <<slot, kind>>

\* The slot is empty: the caller fills it and returns the new descriptor.
Fill(t) ==
  /\ ret[t] = NoFd
  /\ slot[kind[t]] = NoFd
  /\ \E v \in Values :
       /\ slot' = [slot EXCEPT ![kind[t]] = v]
       /\ ret' = [ret EXCEPT ![t] = v]
  /\ UNCHANGED kind

Next == \E t \in Threads : Hit(t) \/ Fill(t)

Spec == Init /\ [][Next]_cvars

=============================================================================
