------------------------------ MODULE MCClients ------------------------------
\* Instances for TLC.  A behaviour follows either one client of the directory
\* or the followers of a run: the two share no state.
EXTENDS DirectoryClients, RunEvents

VARIABLE subject

vars == <<subject, clientVars, eventVars>>

Acts == [page |-> 3, picker |-> 2, handle |-> 2]

Changes == [page |-> 1, picker |-> 2, handle |-> 1]

Met ==
    LET all == {d \in [Names -> {Null, Published1, Approved2, Recreated1}] : d[2] # Recreated1}
    IN  [page   |-> {d \in all : d[1] = Approved2 /\ d[2] = Published1},
         picker |-> all,
         handle |-> {d \in all : \E e \in Names : d[e] = Null}]

Init ==
    /\ EventsInit
    /\ \/ subject = "directory" /\ ClientsInit
       \/ /\ subject = "run"
          /\ ClientsInit
          /\ client = [is |-> "handle", admin |-> FALSE]
          /\ dir = [e \in Names |-> Null]

Next ==
    \/ subject = "directory" /\ ClientsNext /\ UNCHANGED <<subject, eventVars>>
    \/ subject = "run" /\ EventsNext /\ UNCHANGED <<subject, clientVars>>

Spec == Init /\ [][Next]_vars

Symmetric == Permutations(Publishers)

=============================================================================
