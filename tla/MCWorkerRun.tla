---- MODULE MCWorkerRun ----
EXTENDS WorkerRun, TLC

RunSymmetry == Permutations(Pods) \cup Permutations(Contents)
====
