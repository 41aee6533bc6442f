--------------------------- MODULE ServiceRollout ---------------------------
(***************************************************************************)
(* Staged replacement of the managed service of one repository entry:      *)
(* start_repository_service, the probe and stop handlers, the websocket    *)
(* routes and WebSocketDrainRegistry.                                      *)
(*                                                                         *)
(* A start launches a candidate runtime, probes it, points its version's   *)
(* record at it, marks the service it replaces stopped and hands that      *)
(* service to the drain registry.  The registry refuses new relays, waits  *)
(* for the open ones or a timeout and then stops the old runtime.          *)
(*                                                                         *)
(* The start handler, the relays and the registry run on one event loop:   *)
(* an action of theirs is what happens between two awaits (the registry's  *)
(* lock is never held across one, so it never makes anybody wait).  Probe  *)
(* and stop handlers run in threads: an action of theirs is one store call *)
(* or one call to the runtime.                                             *)
(*                                                                         *)
(* Service n is the one start request n creates; its runtime has the same  *)
(* number.  service_websocket_ready is status "running": only a probe that *)
(* answered 2xx writes that status.                                        *)
(***************************************************************************)
EXTENDS Integers, FiniteSets

CONSTANTS
    NumVersions,    \* published versions of the entry, each with its own kind
    NumStarts,      \* bound: start requests
    Requests,       \* the versions successive start requests may name
    Clients,        \* websocket clients
    MaxOperations,  \* bound: probes and stops by operators
    MaxFailures     \* bound: unhealthy answers, launches and stops that raise

ASSUME RolloutConstants ==
    /\ NumVersions \in Nat
    /\ NumStarts \in Nat
    /\ Requests \subseteq [1 .. NumStarts -> 1 .. NumVersions]
    /\ MaxOperations \in Nat
    /\ MaxFailures \in Nat

VARIABLES
    active,     \* active_service_id and runtime_name of each version's record
    row,        \* status of each long_services row
    up,         \* runtimes that are running
    start,      \* where each start request is
    version,    \* the version it starts
    prev,       \* the service it will replace
    conns,      \* relays each _DrainState holds
    drain,      \* retire and callback_started of each _DrainState
    at,         \* the service each client's relay is registered with
    open,       \* clients whose socket is open
    check,      \* the probe in flight: its service and what it saw
    stop,       \* the repository stop in flight: its step and the record it read
    checks,     \* probes done
    stops,      \* operator stops done
    failures    \* failures done

vars == <<active, row, up, start, version, prev, conns, drain, at, open, check, stop,
          checks, stops, failures>>
registry == <<conns, drain>>
relays == <<at, open>>
requests == <<start, version, prev>>
operators == <<check, stop, checks, stops>>

None == 0

Versions == 1 .. NumVersions
Services == 1 .. NumStarts

Stages == {"new", "launching", "probing", "healthy", "unhealthy", "promoting", "discarding",
           "started", "failed"}

Ready(s) == row[s] = "running"

\* Versions whose record points at a ready service.
ReadyVersions == {v \in Versions : active[v] # None /\ Ready(active[v])}

\* s is what _last_known_good_repository_service returns: the service of the
\* newest such version, if any.
LastKnownGood(s) ==
    \/ s = None /\ ReadyVersions = {}
    \/ \E v \in ReadyVersions : s = active[v] /\ \A w \in ReadyVersions : w <= v

-----------------------------------------------------------------------------
(* The drain registry                                                      *)

\* Mutant: a draining service still takes relays.
TakesAnyRelay(s) == TRUE

\* register: refused once retire is set.
TakesRelay(s) == drain[s] = "none"

\* Mutant: the last relay of a draining service just leaves.
ForgetsDrain(s, left) == drain

\* unregister: the last relay of a draining service starts its retirement.
AfterLeaving(s, left) ==
    [drain EXCEPT ![s] = IF @ = "draining" /\ left = {} THEN "stopping" ELSE @]

\* drain: nothing if already draining; at once if no relay is open.
AfterDraining(s) ==
    [drain EXCEPT ![s] = IF @ # "none" THEN @ ELSE IF conns[s] = {} THEN "stopping" ELSE "draining"]

\* Mutant: no timeout task is created.
NeverExpires(s) == FALSE

\* _force_drain once its sleep is over: it takes the callback.
ForceDrain(s) ==
    /\ drain[s] = "draining"
    /\ drain' = [drain EXCEPT ![s] = "forcing"]
    /\ UNCHANGED <<active, row, up, requests, conns, relays, operators, failures>>

\* ... and closes the sockets before it calls retire.
CloseRelays(s) ==
    /\ drain[s] = "forcing"
    /\ open' = open \ conns[s]
    /\ drain' = [drain EXCEPT ![s] = "stopping"]
    /\ UNCHANGED <<active, row, up, requests, conns, at, operators, failures>>

\* stop_by_backend of the retire callback, in a thread.
StopReplaced(s) ==
    /\ drain[s] = "stopping"
    /\ up' = up \ {s}
    /\ drain' = [drain EXCEPT ![s] = "clearing"]
    /\ UNCHANGED <<active, row, requests, conns, relays, operators, failures>>

\* The registry forgets the service, whoever is still registered.
Forget(s) ==
    /\ conns' = [conns EXCEPT ![s] = {}]
    /\ drain' = [drain EXCEPT ![s] = "none"]

\* Mutant: the pointer of the replaced version is cleared, whatever it holds.
ClearedAnyway(s) == [active EXCEPT ![version[s]] = None]

\* The version's pointer is cleared unless it is a newer one.
Cleared(s) == [v \in Versions |-> IF v = version[s] /\ active[v] = s THEN None ELSE active[v]]

\* The rest of the retire callback, and the pop behind it.
Retire(s) ==
    /\ drain[s] = "clearing"
    /\ active' = Cleared(s)
    /\ Forget(s)
    /\ UNCHANGED <<row, up, requests, relays, operators, failures>>

\* stop_by_backend raises: the callback records the error and clears nothing.
RetireFails(s) ==
    /\ drain[s] = "stopping"
    /\ failures < MaxFailures
    /\ Forget(s)
    /\ failures' = failures + 1
    /\ UNCHANGED <<active, row, up, requests, relays, operators>>

-----------------------------------------------------------------------------
(* Relays                                                                  *)

\* A websocket route resolves a ready service, by name, version or id, and
\* registers its relay; a refused one is closed and leaves no trace.
Connect(c, s) ==
    /\ at[c] = None
    /\ Ready(s)
    /\ TakesRelay(s)
    /\ conns' = [conns EXCEPT ![s] = @ \cup {c}]
    /\ at' = [at EXCEPT ![c] = s]
    /\ open' = open \cup {c}
    /\ UNCHANGED <<active, row, up, requests, drain, operators, failures>>

\* The relay ends: client or upstream closed, idle, oversized or unreachable.
Close(c) ==
    /\ c \in open
    /\ open' = open \ {c}
    /\ UNCHANGED <<active, row, up, requests, registry, at, operators, failures>>

\* unregister, in the finally of proxy_service_websocket.
Unregister(c) ==
    /\ at[c] # None
    /\ c \notin open
    /\ LET left == conns[at[c]] \ {c}
       IN  /\ conns' = [conns EXCEPT ![at[c]] = left]
           /\ drain' = AfterLeaving(at[c], left)
    /\ at' = [at EXCEPT ![c] = None]
    /\ UNCHANGED <<active, row, up, requests, open, operators, failures>>

-----------------------------------------------------------------------------
(* Starting a service                                                      *)

Goto(n, stage) == start' = [start EXCEPT ![n] = stage]

\* start_repository_service up to its first await.
RequestStart(n) ==
    /\ start[n] = "new"
    /\ \A m \in Services : m < n => start[m] # "new"
    /\ Goto(n, "launching")
    /\ \E s \in Services \cup {None} : LastKnownGood(s) /\ prev' = [prev EXCEPT ![n] = s]
    /\ UNCHANGED <<active, row, up, version, registry, relays, operators, failures>>

\* manager.start returns its proof and the service row is saved.
Launch(n) ==
    /\ start[n] = "launching"
    /\ up' = up \cup {n}
    /\ row' = [row EXCEPT ![n] = "registered"]
    /\ Goto(n, "probing")
    /\ UNCHANGED <<active, version, prev, registry, relays, operators, failures>>

\* manager.start raises; the runtime is removed again, except a container
\* whose port could not be inspected.
LaunchFails(n) ==
    /\ start[n] = "launching"
    /\ failures < MaxFailures
    /\ Goto(n, "failed")
    /\ up' \in {up, up \cup {n}}
    /\ failures' = failures + 1
    /\ UNCHANGED <<active, row, version, prev, registry, relays, operators>>

\* The readiness probe of the candidate; its runtime is up but may be unhealthy.
ProbeCandidate(n) ==
    /\ start[n] = "probing"
    /\ \/ Goto(n, "healthy") /\ UNCHANGED failures
       \/ failures < MaxFailures /\ Goto(n, "unhealthy") /\ failures' = failures + 1
    /\ UNCHANGED <<active, row, up, version, prev, registry, relays, operators>>

\* The status _probe_long_service_record stores.
StatusAfter(healthy) == IF healthy THEN "running" ELSE "failed"

\* update_long_service_probe of the candidate.
RecordProbe(n) ==
    /\ start[n] \in {"healthy", "unhealthy"}
    /\ row' = [row EXCEPT ![n] = StatusAfter(start[n] = "healthy")]
    /\ Goto(n, IF start[n] = "healthy" THEN "promoting" ELSE "discarding")
    /\ UNCHANGED <<active, up, version, prev, registry, relays, operators, failures>>

\* The pointer moves, the service read as previous is marked and drained.
Promote(n) ==
    /\ start[n] = "promoting"
    /\ active' = [active EXCEPT ![version[n]] = n]
    /\ IF prev[n] = None
       THEN UNCHANGED <<row, drain>>
       ELSE /\ row' = [row EXCEPT ![prev[n]] = "stopped"]
            /\ drain' = AfterDraining(prev[n])
    /\ Goto(n, "started")
    /\ UNCHANGED <<up, version, prev, conns, relays, operators, failures>>

\* A candidate that is not ready is stopped; the call may raise.
Discard(n) ==
    /\ start[n] = "discarding"
    /\ Goto(n, "failed")
    /\ \/ up' = up \ {n} /\ UNCHANGED failures
       \/ failures < MaxFailures /\ failures' = failures + 1 /\ UNCHANGED up
    /\ UNCHANGED <<active, row, version, prev, registry, relays, operators>>

-----------------------------------------------------------------------------
(* Operators: probes and stops in threads                                  *)

NoCheck == [service |-> None, saw |-> "nothing"]

\* A probe handler, or the HTTP proxy, reads the row.
BeginCheck(s) ==
    /\ check = NoCheck
    /\ checks + stops < MaxOperations
    /\ row[s] \notin {"absent", "stopped"}
    /\ check' = [service |-> s, saw |-> "nothing"]
    /\ checks' = checks + 1
    /\ UNCHANGED <<active, row, up, requests, registry, relays, stop, stops, failures>>

\* Its request is answered, or not.
CheckAnswers ==
    /\ check.service # None
    /\ check.saw = "nothing"
    /\ \/ check.service \in up /\ check' = [check EXCEPT !.saw = "healthy"] /\ UNCHANGED failures
       \/ check.service \notin up /\ check' = [check EXCEPT !.saw = "unhealthy"] /\ UNCHANGED failures
       \/ /\ check.service \in up
          /\ failures < MaxFailures
          /\ check' = [check EXCEPT !.saw = "unhealthy"]
          /\ failures' = failures + 1
    /\ UNCHANGED <<active, row, up, requests, registry, relays, stop, checks, stops>>

\* It stores the status it saw, whatever the row says by now.
RecordCheck ==
    /\ check.saw # "nothing"
    /\ row' = [row EXCEPT ![check.service] = StatusAfter(check.saw = "healthy")]
    /\ check' = NoCheck
    /\ UNCHANGED <<active, up, requests, registry, relays, stop, checks, stops, failures>>

\* The proxy stores a status only when the service could not be reached.
ProxyAnswered ==
    /\ check.saw = "healthy"
    /\ check' = NoCheck
    /\ UNCHANGED <<active, row, up, requests, registry, relays, stop, checks, stops, failures>>

NoStop == [step |-> "idle", version |-> None, service |-> None]

\* stop_repository_service reads the record of version v.
BeginStop(v) ==
    /\ stop = NoStop
    /\ checks + stops < MaxOperations
    /\ stop' = [step |-> "runtime", version |-> v, service |-> active[v]]
    /\ stops' = stops + 1
    /\ UNCHANGED <<active, row, up, requests, registry, relays, check, checks, failures>>

\* manager.stop of the runtime in the record; if it raises the handler ends.
StopRuntime ==
    /\ stop.step = "runtime"
    /\ \/ /\ up' = up \ {stop.service}
          /\ stop' = [stop EXCEPT !.step = "row"]
          /\ UNCHANGED failures
       \/ /\ failures < MaxFailures
          /\ failures' = failures + 1
          /\ stop' = NoStop
          /\ UNCHANGED up
    /\ UNCHANGED <<active, row, requests, registry, relays, check, checks, stops>>

\* The service in the record is marked stopped.
StopRow ==
    /\ stop.step = "row"
    /\ row' = IF stop.service = None THEN row ELSE [row EXCEPT ![stop.service] = "stopped"]
    /\ stop' = [stop EXCEPT !.step = "pointer"]
    /\ UNCHANGED <<active, up, requests, registry, relays, check, checks, stops, failures>>

\* The pointer is cleared, whatever it holds by now.
StopPointer ==
    /\ stop.step = "pointer"
    /\ active' = [active EXCEPT ![stop.version] = None]
    /\ stop' = NoStop
    /\ UNCHANGED <<row, up, requests, registry, relays, check, checks, stops, failures>>

\* The stop and kill routes by service id only mark the row.
StopById(s) ==
    /\ checks + stops < MaxOperations
    /\ row[s] \notin {"absent", "stopped"}
    /\ row' = [row EXCEPT ![s] = "stopped"]
    /\ stops' = stops + 1
    /\ UNCHANGED <<active, up, requests, registry, relays, check, stop, checks, failures>>

-----------------------------------------------------------------------------
(* Specification                                                           *)

Init ==
    /\ active = [v \in Versions |-> None]
    /\ row = [s \in Services |-> "absent"]
    /\ up = {}
    /\ start = [n \in Services |-> "new"]
    /\ version \in Requests
    /\ prev = [n \in Services |-> None]
    /\ conns = [s \in Services |-> {}]
    /\ drain = [s \in Services |-> "none"]
    /\ at = [c \in Clients |-> None]
    /\ open = {}
    /\ check = NoCheck
    /\ stop = NoStop
    /\ checks = 0
    /\ stops = 0
    /\ failures = 0

\* The registry's own tasks.
DrainStep(s) == ForceDrain(s) \/ CloseRelays(s) \/ StopReplaced(s) \/ Retire(s)

StartStep(n) ==
    \/ RequestStart(n) \/ Launch(n) \/ LaunchFails(n) \/ ProbeCandidate(n) \/ RecordProbe(n)
    \/ Promote(n) \/ Discard(n)

RelayStep(c) == (\E s \in Services : Connect(c, s)) \/ Close(c) \/ Unregister(c)

OperatorStep ==
    \/ \E s \in Services : BeginCheck(s) \/ StopById(s)
    \/ CheckAnswers \/ RecordCheck \/ ProxyAnswered
    \/ \E v \in Versions : BeginStop(v)
    \/ StopRuntime \/ StopRow \/ StopPointer

Next ==
    \/ \E s \in Services : DrainStep(s) \/ RetireFails(s) \/ StartStep(s)
    \/ \E c \in Clients : RelayStep(c)
    \/ OperatorStep

Spec == Init /\ [][Next]_vars

\* Timers fire and the runtime answers a stop; nobody need start, connect,
\* leave, probe or stop anything.
FairSpec == Spec /\ \A s \in Services : WF_vars(DrainStep(s))

-----------------------------------------------------------------------------
(* Properties                                                              *)

\* The records, service rows, registry entries and requests are well typed.
TypeOK ==
    /\ active \in [Versions -> Services \cup {None}]
    /\ row \in [Services -> {"absent", "registered", "running", "failed", "stopped"}]
    /\ up \in SUBSET Services
    /\ start \in [Services -> Stages]
    /\ version \in [Services -> Versions]
    /\ prev \in [Services -> Services \cup {None}]
    /\ conns \in [Services -> SUBSET Clients]
    /\ drain \in [Services -> {"none", "draining", "forcing", "stopping", "clearing"}]
    /\ at \in [Clients -> Services \cup {None}]
    /\ open \in SUBSET Clients
    /\ check \in [service : Services \cup {None}, saw : {"nothing", "healthy", "unhealthy"}]
    /\ stop \in [step : {"idle", "runtime", "row", "pointer"},
                 version : Versions \cup {None}, service : Services \cup {None}]
    /\ checks \in Nat
    /\ stops \in Nat
    /\ failures \in Nat

\* "Existing WebSocket connections keep their direct connection to the old
\* service": while the registry stops a replaced runtime, or has stopped it
\* and not yet forgotten it, no client has an open socket to it.
RetireSparesClients ==
    \A s \in Services : drain[s] \in {"stopping", "clearing"} => \A c \in open : at[c] # s

\* A drain that waits has somebody to wait for: every relay it counts is one
\* that still has to unregister, and there is at least one.
DrainAwaitsClients ==
    \A s \in Services : drain[s] = "draining" =>
        /\ conns[s] # {}
        /\ \A c \in conns[s] : at[c] = s

\* As long as no operator stops a service and none fails, a rollout never
\* leaves the entry without a ready service: replacements, concurrent ones
\* and late probes included, a service once started stays or is succeeded.
AlwaysRoutable ==
    /\ stops = 0
    /\ failures = 0
    /\ \E n \in Services : start[n] = "started"
    => ReadyVersions # {}

\* "The old runtime stops after its last local connection closes or the
\* configured drain timeout expires": every drain ends, with the runtime down
\* unless stopping it raised.
DrainEnds ==
    \A s \in Services :
        drain[s] # "none" ~> drain[s] = "none" /\ (s \notin up \/ failures > 0)

=============================================================================
