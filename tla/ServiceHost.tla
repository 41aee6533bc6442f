---------------------------- MODULE ServiceHost ----------------------------
(***************************************************************************)
(* Notebook-defined services that are started in place: the service record *)
(* of one kind, the routable long-running service rows, the runtimes       *)
(* (containers or Deployments) and the handlers that declare, validate,    *)
(* start, stop, probe, proxy, halt and clean them up, one step per store   *)
(* transaction or runtime call.  A runtime is reached under its name, as   *)
(* on a Docker network or in Kubernetes.                                   *)
(*                                                                         *)
(* A runtime's name is cut to 63 characters, its tail first: "gk-nbsvc-",   *)
(* the kind, 12 characters of the source's hash, and for a validation      *)
(* "-validate" after the cut.  What is left of the hash depends on the      *)
(* length of the kind: all of it (short), all but that of a validation     *)
(* (medium), none (long).                                                  *)
(***************************************************************************)
EXTENDS Naturals, Sequences, FiniteSets

CONSTANTS
    Hosts,        \* connections whose requests reach these handlers
    Sources,      \* bundles that may be declared
    Backends,     \* runtimes under check: "docker", "kubernetes"
    Kinds,        \* lengths of the kind under check
    MaxRows,      \* long-running service rows
    MaxFailures,  \* launches and probes that fail, runtimes that die
    Nothing

ASSUME BackendsAssumption ==
    /\ Backends \subseteq {"docker", "kubernetes"}
    /\ Kinds \subseteq {"short", "medium", "long"}

\* The columns of notebook_services and long_services that the handlers use.
Names == [source : Sources \cup {Nothing}, suffix : {"", "validate", "elsewhere"}]

Records ==
    [source : Sources, status : {"declared", "validated", "running", "stopped", "failed"},
     name : Names \cup {Nothing}, active : Nat \cup {Nothing}]

ServiceRows ==
    [source : Sources \cup {Nothing}, url : Names,
     status : {"registered", "running", "failed", "stopped", "deleted"}]

ASSUME NothingAssumption == Nothing \notin Sources \cup Nat \cup Names \cup Records

VARIABLES
    backend,   \* the runtime manager's backend
    kind,      \* how long the kind is
    record,    \* the notebook_services row, or Nothing
    rows,      \* the long_services rows, in the order of their creation
    up,        \* per runtime name: the source it runs, or Nothing
    work,      \* per connection: the handler in progress
    failures,
    strays,    \* history: names of runtimes left up by an exception of a start
               \* or a validation
    disturbed  \* history: requests met, a runtime died, a validation cleared
               \* the name of a runtime that was up, or a declaration dropped
               \* the row of a failed start

hostVars == <<backend, kind, record, rows, up, work, failures, strays, disturbed>>

Free == [at |-> "idle"]

\* notebook_service_runtime_name
HashIsCut(suffix) == kind = "long" \/ (kind = "medium" /\ suffix = "validate")

RuntimeName(source, suffix) ==
    [source |-> IF HashIsCut(suffix) THEN Nothing ELSE source, suffix |-> suffix]

Elsewhere == [source |-> Nothing, suffix |-> "elsewhere"]   \* a service registered by its URL

HostInit ==
    /\ backend \in Backends
    /\ kind \in Kinds
    /\ record = Nothing
    /\ rows = << >>
    /\ up = [n \in Names |-> Nothing]
    /\ work = [c \in Hosts |-> Free]
    /\ failures = 0
    /\ strays = {}
    /\ disturbed = FALSE

Goto(c, at) == work' = [work EXCEPT ![c].at = at]
Done(c) == work' = [work EXCEPT ![c] = Free]
Fails == failures < MaxFailures /\ failures' = failures + 1

\* update_notebook_service_runtime: what is not passed becomes NULL.
SetRuntime(status, name, active) ==
    record' = [record EXCEPT !.status = status, !.name = name, !.active = active]

\* update_long_service_status of a row that may have been deleted.
SetStatus(i, status) ==
    rows' = IF i = Nothing \/ rows[i].status = "deleted" THEN rows
            ELSE [rows EXCEPT ![i].status = status]

Remove(name) ==
    /\ up' = [up EXCEPT ![name] = Nothing]
    /\ strays' = strays \ {name}

-----------------------------------------------------------------------------
(* Declaring new source.                                                   *)

\* A handler begins; it disturbs the others that are under way.
Begin(c, w) ==
    /\ work[c] = Free
    /\ work' = [work EXCEPT ![c] = w]
    /\ disturbed' = (disturbed \/ \E d \in Hosts \ {c} : work[d] # Free)

Declare(c, source) ==
    /\ IF record # Nothing /\ record.active # Nothing /\ record.status = "running"
       THEN Begin(c, Free)
       ELSE Begin(c, [at |-> "save", source |-> source])
    /\ UNCHANGED <<backend, kind, record, rows, up, strays, failures>>

\* The new declaration names no row, whether or not the old one did.
SaveDeclaration(c) ==
    /\ work[c].at = "save"
    /\ disturbed' = (disturbed \/ (record # Nothing /\ record.active # Nothing))
    /\ record' = [source |-> work[c].source, status |-> "declared", name |-> Nothing, active |-> Nothing]
    /\ Done(c)
    /\ UNCHANGED <<backend, kind, rows, up, strays, failures>>

\* validate, start and stop act on the record they read here.
ReadRecord(c, op) ==
    /\ IF record = Nothing
       THEN Begin(c, Free)
       ELSE Begin(c, [op |-> op, rec |-> record, row |-> Nothing, ok |-> FALSE,
                      name |-> RuntimeName(record.source, IF op = "validate" THEN "validate" ELSE ""),
                      at |-> CASE op = "start" -> "oldrow"
                               [] op = "validate" -> "remove"
                               [] op = "stop" -> "end"])
    /\ UNCHANGED <<backend, kind, record, rows, up, strays, failures>>

-----------------------------------------------------------------------------
(* start: _stop_existing_notebook_service_runtime first.                   *)

StopOldRow(c) ==
    /\ work[c].at = "oldrow"
    /\ SetStatus(work[c].rec.active, "stopped")
    /\ Goto(c, IF work[c].rec.name = Nothing THEN "remove" ELSE "oldruntime")
    /\ UNCHANGED <<backend, kind, record, up, strays, failures, disturbed>>

StopOldRuntime(c) ==
    /\ work[c].at = "oldruntime"
    /\ Remove(work[c].rec.name)
    /\ Goto(c, "oldrecord")
    /\ UNCHANGED <<backend, kind, record, rows, failures, disturbed>>

ClearOldRecord(c) ==
    /\ work[c].at = "oldrecord"
    /\ SetRuntime("stopped", Nothing, Nothing)
    /\ Goto(c, "remove")
    /\ UNCHANGED <<backend, kind, rows, up, strays, failures, disturbed>>

-----------------------------------------------------------------------------
(* The runtime manager: _start_docker and _start_kubernetes, for a start   *)
(* and for a validation under its own name.                                *)

RemoveName(c) ==
    /\ work[c].at = "remove"
    /\ Remove(work[c].name)
    /\ Goto(c, "create")
    /\ UNCHANGED <<backend, kind, record, rows, failures, disturbed>>

\* A name in use refuses the launch; Kubernetes then deletes what is under it.
Create(c) ==
    /\ work[c].at = "create"
    /\ IF up[work[c].name] = Nothing
       THEN /\ up' = [up EXCEPT ![work[c].name] = work[c].rec.source]
            /\ Goto(c, "await")
            /\ UNCHANGED strays
       ELSE /\ IF backend = "kubernetes" THEN Remove(work[c].name) ELSE UNCHANGED <<up, strays>>
            /\ Goto(c, "failed")
    /\ UNCHANGED <<backend, kind, record, rows, failures, disturbed>>

CreateFails(c) ==
    /\ work[c].at = "create"
    /\ Fails
    /\ Goto(c, "failed")
    /\ UNCHANGED <<backend, kind, record, rows, up, strays, disturbed>>

\* probe_http until something answers under the name ...
Answers(c) ==
    /\ work[c].at = "await"
    /\ up[work[c].name] # Nothing
    /\ Goto(c, IF work[c].op = "validate" THEN "unload" ELSE "register")
    /\ UNCHANGED <<backend, kind, record, rows, up, strays, failures, disturbed>>

\* Mutant: nothing is removed.
NeverAnswersKept(c) ==
    /\ work[c].at = "await"
    /\ up[work[c].name] # Nothing
    /\ Fails
    /\ Goto(c, "failed")
    /\ UNCHANGED <<backend, kind, record, rows, up, strays, disturbed>>

\* ... or its time is up, and what is under the name is removed.
NeverAnswers(c) ==
    /\ work[c].at = "await"
    /\ IF up[work[c].name] = Nothing THEN UNCHANGED failures ELSE Fails
    /\ Remove(work[c].name)
    /\ Goto(c, "failed")
    /\ UNCHANGED <<backend, kind, record, rows, disturbed>>

\* On Docker two exceptions leave the container as it is: the port cannot be
\* inspected, which the route records as a failure, ...
PortUnknown(c) ==
    /\ work[c].at = "await"
    /\ backend = "docker"
    /\ Fails
    /\ strays' = strays \cup {n \in {work[c].name} : up[n] # Nothing}
    /\ Goto(c, "failed")
    /\ UNCHANGED <<backend, kind, record, rows, up, disturbed>>

\* ... or the answer does not decode or breaks off, which neither probe_http
\* nor _start_docker nor the route expects: the route answers 500.
AnswerBroken(c) ==
    /\ work[c].at = "await"
    /\ backend = "docker"
    /\ up[work[c].name] # Nothing
    /\ Fails
    /\ strays' = strays \cup {work[c].name}
    /\ Done(c)
    /\ UNCHANGED <<backend, kind, record, rows, up, disturbed>>

\* Both routes store the failure, a validation's over a running service too.
RecordFailure(c) ==
    /\ work[c].at = "failed"
    /\ disturbed' = (disturbed \/ (work[c].op = "validate" /\ record.name # Nothing))
    /\ SetRuntime("failed", Nothing, Nothing)
    /\ Done(c)
    /\ UNCHANGED <<backend, kind, rows, up, strays, failures>>

UnloadValidated(c) ==
    /\ work[c].at = "unload"
    /\ Remove(work[c].name)
    /\ Goto(c, "verdict")
    /\ UNCHANGED <<backend, kind, record, rows, failures, disturbed>>

RecordValidated(c) ==
    /\ work[c].at = "verdict"
    /\ disturbed' = (disturbed \/ record.name # Nothing)
    /\ SetRuntime("validated", Nothing, Nothing)
    /\ Done(c)
    /\ UNCHANGED <<backend, kind, rows, up, strays, failures>>

-----------------------------------------------------------------------------
(* start: registering the route and probing it.                            *)

RegisterStarted(c) ==
    /\ work[c].at = "register"
    /\ Len(rows) < MaxRows
    /\ rows' = Append(rows, [source |-> work[c].rec.source, url |-> work[c].name,
                             status |-> "registered"])
    /\ work' = [work EXCEPT ![c].at = "point", ![c].row = Len(rows) + 1]
    /\ UNCHANGED <<backend, kind, record, up, strays, failures, disturbed>>

PointRecord(c) ==
    /\ work[c].at = "point"
    /\ SetRuntime("running", work[c].name, work[c].row)
    /\ Goto(c, "probe")
    /\ UNCHANGED <<backend, kind, rows, up, strays, failures, disturbed>>

\* _probe_long_service_record: the answer first, the row later.
Probe(c) ==
    LET url == rows[work[c].row].url IN
    /\ work[c].at = "probe"
    /\ \E ok \in BOOLEAN :
        /\ ok => url = Elsewhere \/ up[url] # Nothing
        /\ IF ~ok /\ url # Elsewhere /\ up[url] # Nothing THEN Fails ELSE UNCHANGED failures
        /\ work' = [work EXCEPT ![c].at = "proof", ![c].ok = ok]
    /\ UNCHANGED <<backend, kind, record, rows, up, strays, disturbed>>

\* The same unexpected exceptions end a probe, a start's too, with nothing
\* written.
ProbeBroken(c) ==
    LET url == rows[work[c].row].url IN
    /\ work[c].at = "probe"
    /\ url = Elsewhere \/ up[url] # Nothing
    /\ Fails
    /\ Done(c)
    /\ UNCHANGED <<backend, kind, record, rows, up, strays, disturbed>>

\* A row that was deleted fails an assertion, which no start cleans up after.
SaveProbe(c) ==
    LET w == work[c] IN
    /\ w.at = "proof"
    /\ SetStatus(w.row, IF w.ok THEN "running" ELSE "failed")
    /\ IF w.op = "start" /\ ~w.ok /\ rows[w.row].status # "deleted" THEN Goto(c, "undo") ELSE Done(c)
    /\ UNCHANGED <<backend, kind, record, up, strays, failures, disturbed>>

UndoStart(c) ==
    /\ work[c].at = "undo"
    /\ Remove(work[c].name)
    /\ Goto(c, "undone")
    /\ UNCHANGED <<backend, kind, record, rows, failures, disturbed>>

RecordUndone(c) ==
    /\ work[c].at = "undone"
    /\ SetRuntime("failed", work[c].name, work[c].row)
    /\ Done(c)
    /\ UNCHANGED <<backend, kind, rows, up, strays, failures, disturbed>>

-----------------------------------------------------------------------------
(* stop.                                                                   *)

StopRuntime(c) ==
    /\ work[c].at = "end"
    /\ IF work[c].rec.name = Nothing THEN UNCHANGED <<up, strays>> ELSE Remove(work[c].rec.name)
    /\ Goto(c, "endrow")
    /\ UNCHANGED <<backend, kind, record, rows, failures, disturbed>>

\* Mutant: the row stays as it is.
StopRowKept(c) ==
    /\ work[c].at = "endrow"
    /\ Goto(c, "endrecord")
    /\ UNCHANGED <<backend, kind, record, rows, up, strays, failures, disturbed>>

StopRow(c) ==
    /\ work[c].at = "endrow"
    /\ SetStatus(work[c].rec.active, "stopped")
    /\ Goto(c, "endrecord")
    /\ UNCHANGED <<backend, kind, record, up, strays, failures, disturbed>>

RecordStopped(c) ==
    /\ work[c].at = "endrecord"
    /\ SetRuntime("stopped", Nothing, Nothing)
    /\ Done(c)
    /\ UNCHANGED <<backend, kind, rows, up, strays, failures, disturbed>>

-----------------------------------------------------------------------------
(* Routes on a long-running service row.                                   *)

Present == {i \in DOMAIN rows : rows[i].status # "deleted"}

RegisterElsewhere(c) ==
    /\ Len(rows) < MaxRows
    /\ Begin(c, Free)
    /\ rows' = Append(rows, [source |-> Nothing, url |-> Elsewhere, status |-> "registered"])
    /\ UNCHANGED <<backend, kind, record, up, strays, failures>>

\* The status that lets a request pass is read here.
ReadRow(c, op, i) ==
    /\ i \in Present
    /\ IF rows[i].status = "stopped" THEN Begin(c, Free)
       ELSE Begin(c, [op |-> op, row |-> i, ok |-> FALSE, at |-> op])
    /\ UNCHANGED <<backend, kind, record, rows, up, strays, failures>>

\* _proxy_long_service_request, after the body has been awaited.
Proxy(c) ==
    LET url == rows[work[c].row].url IN
    /\ work[c].at = "proxy"
    /\ \E ok \in BOOLEAN :
        /\ ok => url = Elsewhere \/ up[url] # Nothing
        /\ IF ~ok /\ url # Elsewhere /\ up[url] # Nothing THEN Fails ELSE UNCHANGED failures
        /\ IF ok THEN UNCHANGED rows ELSE SetStatus(work[c].row, "failed")
    /\ Done(c)
    /\ UNCHANGED <<backend, kind, record, up, strays, disturbed>>

\* stop_long_running_service stops the row only, ...
Halt(c, i) ==
    /\ i \in Present
    /\ rows[i].status # "stopped"
    /\ Begin(c, Free)
    /\ SetStatus(i, "stopped")
    /\ UNCHANGED <<backend, kind, record, up, strays, failures>>

\* ... and so does the admin's kill, whatever the status.
Kill(c, i) ==
    /\ i \in Present
    /\ Begin(c, Free)
    /\ SetStatus(i, "stopped")
    /\ UNCHANGED <<backend, kind, record, up, strays, failures>>

\* cleanup_runtime_rows, with or without the rows nobody has probed.
CleanRows(c, unprobed) ==
    LET gone == {"failed", "stopped"} \cup (IF unprobed THEN {"registered"} ELSE {}) IN
    /\ Begin(c, Free)
    /\ rows' = [i \in DOMAIN rows |->
                  IF rows[i].status \in gone THEN [rows[i] EXCEPT !.status = "deleted"] ELSE rows[i]]
    /\ UNCHANGED <<backend, kind, record, up, strays, failures>>

\* A runtime dies on its own.
RuntimeDies(n) ==
    /\ up[n] # Nothing
    /\ Fails
    /\ Remove(n)
    /\ disturbed' = TRUE
    /\ UNCHANGED <<backend, kind, record, rows, work>>

\* The routes: for everyone but viewers, for everyone, for admins; and the
\* steps of the handlers.
WriterRoute(c) ==
    \/ \E s \in Sources : Declare(c, s)
    \/ \E op \in {"start", "validate", "stop"} : ReadRecord(c, op)

OpenRoute(c) ==
    \/ RegisterElsewhere(c)
    \/ \E i \in Present, op \in {"probe", "proxy"} : ReadRow(c, op, i)
    \/ \E i \in Present : Halt(c, i)

AdminRoute(c) ==
    \/ \E i \in Present : Kill(c, i)
    \/ \E unprobed \in BOOLEAN : CleanRows(c, unprobed)

Step(c) ==
    \/ SaveDeclaration(c)
    \/ StopOldRow(c) \/ StopOldRuntime(c) \/ ClearOldRecord(c)
    \/ RemoveName(c) \/ Create(c) \/ CreateFails(c) \/ Answers(c) \/ NeverAnswers(c)
    \/ PortUnknown(c) \/ AnswerBroken(c) \/ ProbeBroken(c)
    \/ RecordFailure(c) \/ UnloadValidated(c) \/ RecordValidated(c)
    \/ RegisterStarted(c) \/ PointRecord(c) \/ Probe(c) \/ SaveProbe(c)
    \/ UndoStart(c) \/ RecordUndone(c)
    \/ StopRuntime(c) \/ StopRow(c) \/ RecordStopped(c)
    \/ Proxy(c)

-----------------------------------------------------------------------------
(* Properties.                                                             *)

Quiet == ~disturbed /\ \A c \in Hosts : work[c] = Free

\* Whatever answers under the URL of a service row runs the source the row was
\* started for: at any moment, however requests meet, while the name holds the
\* hash; and even when the kind is so long that all sources have one name, as
\* long as requests follow one another and the row can still be reached.
RowServesItsSource ==
    \A i \in DOMAIN rows :
        /\ rows[i].url # Elsewhere
        /\ HashIsCut("") => Quiet /\ rows[i].status \notin {"stopped", "deleted"}
        => up[rows[i].url] \in {rows[i].source, Nothing}

\* While requests follow one another, no runtime dies, no validation runs
\* beside a started service and no declaration drops the row of a failed start:
\* between requests a row that says running has a runtime, and a runtime that
\* is up is the one the record can stop, or one that an unexpected exception
\* left behind and the next start under its name removes.
RuntimesMatchRows ==
    Quiet =>
        /\ \A i \in DOMAIN rows : rows[i].status = "running" /\ rows[i].url # Elsewhere =>
               up[rows[i].url] # Nothing
        /\ \A n \in Names \ strays : up[n] # Nothing => record # Nothing /\ record.name = n

=============================================================================
