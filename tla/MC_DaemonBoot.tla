---------------------------- MODULE MC_DaemonBoot ----------------------------
(* Every argument vector start() tells apart, and every pair of layouts of *)
(* the launch and init namespaces along the path to the module directory:  *)
(* each layout is the path's first n directories.                          *)
EXTENDS DaemonBoot

MCArgvs ==
  { <<>>, <<"companion", "3">>, <<"companion", "x">>, <<"companion">>,
    <<"version">>, <<"root">> }

MCChain == <<"/", "/data", "/data/adb", "/data/adb/modules",
             "/data/adb/modules/zygisksu">>

MCLayouts ==
  LET upTo(n) == {MCChain[i] : i \in 1..n}
  IN [Namespaces -> {upTo(n) : n \in 1..5}]

MCLaunchCwd == "/data/adb/modules/zygisksu"

=============================================================================
