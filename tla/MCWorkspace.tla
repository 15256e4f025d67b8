------------------------------ MODULE MCWorkspace ------------------------------
EXTENDS Workspace, TLC

Symmetric == Permutations(Clients)
===============================================================================
