------------------------ MODULE MC_CompanionRegistry ------------------------
(* The companion registry of one module, with three concurrent             *)
(* RequestCompanionSocket connections, one ZygoteRestart and at most two   *)
(* companion processes forked.                                            *)
EXTENDS CompanionRegistry, TLC

CONSTANTS r1, r2, r3

MCRequests == {r1, r2, r3}

MCMaxSpawns == 2

\* The handler threads are interchangeable.
MCSymmetry == Permutations(MCRequests)

=============================================================================
