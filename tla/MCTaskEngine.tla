---- MODULE MCTaskEngine ----
EXTENDS TaskEngine, TLC

Symmetry == Permutations(Run) \cup Permutations(Session)
====
