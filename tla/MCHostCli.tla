---- MODULE MCHostCli ----
EXTENDS AgentLoop, TLC
Symmetric == UNION {Permutations(S) : S \in {Terminals, Directories}}
====
