---- MODULE MCDirectoryLifecycle ----
EXTENDS DirectoryLifecycle, TLC
SourceSymmetry == Permutations(Sources)
====
