----------------------------- MODULE MCRecords -----------------------------
\* Instances for TLC.  A behaviour follows either the requests that bring jobs
\* in and take them out, or those that review the directory: the two share no
\* state.
EXTENDS MCDirectoryLifecycle, BatchIntake

VARIABLE subject

\* A generous policy, and one whose goblin override is above a lower ceiling.
Generous == [defaults |-> 1, goblin |-> Unset, ceilings |-> 2]
Lowered == [defaults |-> Unset, goblin |-> 2, ceilings |-> 1]
TwoPolicies == {Generous, Lowered}

Singles == [fanouts |-> {}, singles |-> 1, upsets |-> 1]
Batched == [fanouts |-> Fanouts, singles |-> 0, upsets |-> 1]
SinglesOrBatches == {Singles, Batched}

RecordsInit ==
    /\ Init
    /\ IntakeInit
    /\ \/ subject = "directory" /\ policy = Generous /\ quota = Singles
       \/ subject = "intake"

RecordsNext ==
    \/ subject = "directory" /\ Next /\ UNCHANGED <<subject, intakeVars>>
    \/ subject = "intake" /\ IntakeNext /\ UNCHANGED <<subject, vars>>

RecordsSpec == RecordsInit /\ [][RecordsNext]_<<subject, vars, intakeVars>>

\* Sources of the directory and items of a batch are never compared but for
\* equality.
RecordsSymmetry == SourceSymmetry \cup Permutations(Items)

=============================================================================
