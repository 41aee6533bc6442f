---------------------------- MODULE MCScheduler ----------------------------
(***************************************************************************)
(* Instances of Scheduler for TLC.                                         *)
(***************************************************************************)
EXTENDS Scheduler

OneKind(n) == [j \in 1 .. n |-> "k"]
KindOf1 == OneKind(1)
KindOf2 == OneKind(2)
Flat1 == [j \in 1 .. 1 |-> 100]
Rising2 == [j \in 1 .. 2 |-> 100 + j]
Rising3 == [j \in 1 .. 3 |-> 100 + j]
Retry1 == [j \in 1 .. 1 |-> 1]
Retry2 == [j \in 1 .. 2 |-> IF j = 1 THEN 1 ELSE 0]
NoRetry3 == [j \in 1 .. 3 |-> 0]
TwoKinds3 == [j \in 1 .. 3 |-> IF j = 3 THEN "l" ELSE "k"]
NoRetry2 == [j \in 1 .. 2 |-> 0]
NoCap == [k \in {"k"} |-> Unbounded]
CapFirstKind == [k \in {"k", "l"} |-> IF k = "k" THEN 1 ELSE Unbounded]
CapOne == [k \in {"k"} |-> 1]
ProjectCapTwo == [k \in {"k", "l"} |-> 2]
=============================================================================
