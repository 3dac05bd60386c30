---------------------------- MODULE MCRunClaim ----------------------------
EXTENDS RunClaim

RunnerSpec(backend, profile, policy, source) ==
  [backend |-> backend, profile |-> profile, egress |-> FALSE, on_unavailable |-> policy,
   source |-> source]

\* Work of the network under what the host has, and without a sandbox block.
SomeSpecs ==
  {RunnerSpec("auto", "repo-write", "warn", "network"),
   RunnerSpec("unsandboxed", "repo-write", "warn", "network")}

SomeHosts == [linux : {TRUE}, has : {{}, {"native"}, {"bubblewrap"}}]
=============================================================================
