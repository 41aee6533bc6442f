---------------------- MODULE MCScheduleMaterialization ---------------------
EXTENDS ScheduleMaterialization

\* A generous policy, and one with a default above a lower ceiling.
TwoPolicies == {[default |-> None, ceiling |-> 2], [default |-> 2, ceiling |-> 1]}

=============================================================================
