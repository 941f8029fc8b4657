--------------------------- MODULE MC_MountClean ---------------------------
(* A device mount table with one mount of each kind the policy tells      *)
(* apart; every table of them that is closed under parents is a start.    *)
EXTENDS MountClean, FiniteSets

P(s) == s   \* a path, as its sequence of components

MCMounts ==
  1 :> [parent |-> 0, point |-> P(<<>>), root |-> <<>>, source |-> "rootfs"] @@
  2 :> [parent |-> 1, point |-> P(<<"data">>), root |-> <<>>, source |-> "/dev/block/dm-0"] @@
  3 :> [parent |-> 2, point |-> P(<<"data", "adb", "modules">>), root |-> <<>>, source |-> "/dev/block/loop7"] @@
  4 :> [parent |-> 1, point |-> P(<<"system", "bin">>), root |-> <<>>, source |-> "magisk"] @@
  5 :> [parent |-> 4, point |-> P(<<"system", "bin">>), root |-> <<>>, source |-> "tmpfs"] @@
  6 :> [parent |-> 1, point |-> P(<<"system", "etc", "hosts">>), root |-> <<"adb", "modules", "hosts", "system", "etc", "hosts">>, source |-> "/dev/block/dm-0"] @@
  7 :> [parent |-> 3, point |-> P(<<"data", "adb", "modules", "m", "cache">>), root |-> <<>>, source |-> "tmpfs"] @@
  8 :> [parent |-> 1, point |-> P(<<"vendor", "bin">>), root |-> <<>>, source |-> "KSU"] @@
  9 :> [parent |-> 1, point |-> P(<<"odm">>), root |-> <<>>, source |-> "/dev/block/loop7"] @@
  10 :> [parent |-> 8, point |-> P(<<"vendor", "bin", "x">>), root |-> <<>>, source |-> "APatch"]

\* Tables closed under parents, always with the root mount.
MCTables ==
  {S \in SUBSET DOMAIN MCMounts :
     1 \in S /\ \A m \in S : m = 1 \/ MCMounts[m].parent \in S}

MCLoopSources == {"/dev/block/loop7"}
=============================================================================
