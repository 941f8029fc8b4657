------------------------- MODULE MC_MountNamespace -------------------------
(* Three handler threads, so that two can race on one slot while a third   *)
(* asks for the other kind or arrives after the slot is set.               *)
EXTENDS MountNamespace, TLC

CONSTANTS t1, t2, t3

MCThreads == {t1, t2, t3}

\* Liveness is checked with two threads racing on one slot (no symmetry).
MCThreadsTwo == {t1, t2}

MCSymmetry == Permutations(MCThreads)
=============================================================================
