------------------------------- MODULE MCRunLock -------------------------------
EXTENDS RunLock, TLC

\* Nothing tells processes apart.
ProcSymmetry == Permutations(Procs)
================================================================================
