---------------------------- MODULE ControlPlane ----------------------------
(***************************************************************************)
(* The API process: a request passes the front door and then runs the      *)
(* handler of its route; the service host's handlers are the ones with     *)
(* state of their own.                                                     *)
(***************************************************************************)
EXTENDS FrontDoor, ServiceHost

\* A connection's request is served on that connection.
ASSUME HostsAssumption == Hosts = Callers

vars == <<doorVars, hostVars>>

Init == DoorInit /\ HostInit

\* _forbid_viewer_write or require_admin ends the request.
Refuse(c) ==
    /\ Admitted(c, "services")
    /\ req[c].role # "admin"
    /\ work[c] = Free
    /\ Go(c, Idle)
    /\ UNCHANGED <<conf, now, hub, changes, held, cache, counters, accounts, sent, passes, lapped>>
    /\ UNCHANGED hostVars

\* The request is over when its handler is.
Answered(c) ==
    /\ IF work'[c] = Free THEN Go(c, Idle) ELSE UNCHANGED req
    /\ UNCHANGED <<conf, now, hub, changes, held, cache, counters, accounts, sent, passes, lapped>>

Serve(c) ==
    /\ Admitted(c, "services")
    /\ work[c] = Free
    /\ \/ req[c].role # "viewer" /\ WriterRoute(c)
       \/ OpenRoute(c)
       \/ req[c].role = "admin" /\ AdminRoute(c)
    /\ Answered(c)

Handle(c) ==
    /\ work[c] # Free
    /\ Step(c)
    /\ Answered(c)

Next ==
    \/ DoorNext /\ UNCHANGED hostVars
    \/ \E c \in Callers : Refuse(c) \/ Serve(c) \/ Handle(c)
    \/ (\E n \in Names : RuntimeDies(n)) /\ UNCHANGED doorVars

Spec == Init /\ [][Next]_vars

=============================================================================
