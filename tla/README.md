# TLA+ models of Goblin King

Goblin King runs containerised workers ("goblins") for a team: an HTTP API takes
jobs, schedules, repository entries and managed services; scheduler processes
lease queued jobs from a SQLite store, run them in Docker or Kubernetes and
record their Runs; events about all of it are persisted and streamed. This
directory holds the TLA+ modules that model that behaviour, the TLC
configurations that check them on small instances, and TLAPS proofs of the
properties that hold for every instance. `PROJECT.json` maps every definition to
the lines of the source it models and lists the hazards the properties are for.

## The system

| Part | State it keeps | Operations | What is hard about it |
|---|---|---|---|
| Job queue: `store.py` (jobs, runs), `store_run_lifecycle.py` | one row per job (status, lease owner, lease deadline, attempt count), one row per Run | create, claim, count, finish, mark running, start run, finalize attempt, cancel, clean up | every operation is its own SQLite transaction, taken by several processes |
| Scheduler pass: `scheduler.py`, `scheduler_failures.py` | the claimed batch with the snapshot of each row, the job and attempt in execution | claim, concurrency check, deferral, validation gate, run, finalize, emit, recover from an exception | decisions on rows read earlier; a crash or an exception between any two transactions; lost leases |
| Lease renewal: `scheduler_leases.py` | a thread per claimed job | renew until the attempt ends | a stall past the deadline while the owner is alive |
| Schedules: `scheduler.py`, `api_schedules.py` | schedule rows with `next_run_at` | create, patch, list due, materialize, advance | list, create and advance are separate transactions; a patch writes back the row it read |
| Intake: `fanout.py`, `api.py`, `cli.py` | fanout rows and their jobs | submit, fan out, derive status, retry, clean up | a batch half created, a retry of what cleanup is about to delete |
| Resource policies: `resource_policies.py` | the policy file in force | merge defaults, overrides, ceilings; reload | ceilings that change after a request was accepted |
| Events: `events.py`, `causal_time.py`, `event_delivery.py`, `store.py` | events table with `store_seq`, delivery cursor, Redis streams | persist, append to the ordered stream, bootstrap, replay | an append to Redis inside a SQLite transaction that may roll back |
| Live run events: `run_events.py` | per run a bounded Redis stream, a sequence and a rate key | emit, list, stream | number and append are two commands; keys expire; followers reconnect |
| Goblin directory: `store.py`, `api.py` | entries, versions, bundles, validation proofs | submit, validate, review, publish, retire, delete, run | status read and written in different transactions |
| Repository services: `api.py`, `service_websocket_*.py` | service rows, version pointers, open relays, drains | staged start, promote, probe, drain, stop | awaits between reading a row and writing it; the last disconnect, the drain and its timeout race |
| Notebook services: `api.py`, `notebook_services.py` | one record per kind, service rows, containers or Deployments | declare, validate, start in place, probe, proxy, stop | record, row and runtime change in separate steps |
| Runtimes: `runtime.py`, `kubernetes_*.py`, `termination.py`, `validation.py` | containers, Jobs, config maps, result keys, retained bytes | run, time out, collect, retain, validate, kill | Pods, forwarders and the adapter meet only through Redis and a volume |
| Front door: `auth.py`, `api_settings.py` | token rows, the Hub cache, rate limit rows | authenticate, cache, count, reset | a cached identity that is stale; a counter read and written in separate transactions |
| Directory page: `directory_ui.py`, `directory-ui/static/app.js` | sessions; lists, selection and detail panel | log in, refresh, review, submit, launch | overlapping refreshes, answers after a logout, snapshots older than the directory |
| JupyterLab picker and notebook client: `jupyterlab-goblin-directory/lib/index.js`, `jupyter_directory.py`, `notebooks.py` | a listing; entry handles | list, launch; submit, review, wait, run | acting on a version that is no longer the published one; job and runs read in two requests |

The parts meet in the store: the API and every scheduler process open the same
SQLite file, and each transaction is atomic and serialised by SQLite's write
lock. So what one process may do between two transactions of another is an
interleaving of transactions, and that is the grain of the models: one action is
one transaction, one call to a runtime, to Redis or to the Hub, or one stretch
of a coroutine between two awaits.

## Modules

| Module | Models | Uses |
|---|---|---|
| `Scheduler` | the jobs and runs tables, scheduler passes, leases, cancellation, cleanup | `JobLifecycle` (refinement) |
| `JobLifecycle` | what the queue promises about a job, without owners, leases, Runs or schedulers | |
| `SchedulerProofs` | the inductive invariants of `Scheduler`, its theorems and the refinement of `JobLifecycle` | `Scheduler` |
| `EventDelivery` | the events table, its timestamps and the ordered Redis stream | |
| `EventDeliveryProofs` | the prefix and numbering invariants of the stream and their theorems | `EventDelivery` |
| `ServiceRollout` | staged replacement of repository services and the websocket drain registry | |
| `DirectoryLifecycle` | entries, versions, bundles and the review workflow | |
| `DirectoryLifecycleProofs` | what a request in flight may still rely on, and the theorems | `DirectoryLifecycle` |
| `ScheduleMaterialization` | schedules and the jobs they turn into | |
| `ScheduleMaterializationProofs` | what a pass and a patch still hold of the rows, and the theorems | `ScheduleMaterialization` |
| `BatchIntake` | single submissions, batches, retries, cleanup | |
| `BatchIntakeProofs` | what requests in flight know of the tables, and the theorems | `BatchIntake` |
| `WorkerRun` | one Run in Docker or Kubernetes, and the validation that uses the same adapters | |
| `WorkerRunProofs` | what exists in each phase of a Run, and the theorems | `WorkerRun` |
| `FrontDoor` | authentication and the rate limit of a request | |
| `ServiceHost` | notebook services started in place | |
| `ControlPlane` | requests that pass the front door and then run a service handler | `FrontDoor`, `ServiceHost` |
| `ControlPlaneProofs` | the invariants of the door and of the host behind it, and the theorems | `ControlPlane` |
| `DirectoryClients` | the directory page, the JupyterLab picker and the notebook's entry handle | |
| `RunEvents` | the live events of a run and their followers | |
| `ClientsProofs` | what each kind of client may rely on: relays of a service, clients of the directory, followers of a run; the theorems | `ServiceRollout`, `DirectoryClients`, `RunEvents` |
| `MC...` | instances for TLC; `MCRecords` puts `DirectoryLifecycle` and `BatchIntake` into one run, `MCClients` `DirectoryClients` and `RunEvents` | the module they are named after |

### Scheduler

State. `status`, `owner`, `attempts` and `lapsed` are the columns of the jobs
table that decide anything: `status`, `lease_owner`, `attempt_count` and whether
`leased_until` is in the past. A job is a number in `created_at` order; before
its creation its status is `absent` and after cleanup `deleted`. `runs` is the
runs table in insertion order; a row's index stands for its id. The local state of a scheduler is its program
counter `pc`, the claimed jobs not yet checked (`checking`) and admitted
(`runnable`), the attempt counts it read when it claimed (`seen`), and the job,
attempt number, Run id, outcome and recovery read of the attempt in execution
(`cur`, `try`, `run`, `verdict`, `found`). `ended` counts the terminal job
events emitted.

Actions, in the order of the code:

| Action | Code |
|---|---|
| `Submit` | `_queue_job` and the other creators that end in `save_job` |
| `Claim` | `claim_due_jobs`: the batch is the first `claim_limit` rows by priority and creation |
| `CheckProject`, `CheckKind`, `Defer` | `_claim_runnable_jobs`: two counts and the `finish_job(status="queued")` deferral, each its own transaction |
| `MarkRunning`, `Superseded` | `try_mark_job_running`, which succeeds only for the lease owner |
| `StartRun`, `RejectByValidation`, `WorkerReturns` | `_execute_claimed_job`: validation gate, `start_run`, the runtime |
| `FinalizeOwned`, `FinalizeLost`, `FinalizeRaises`, `Emit` | `finalize_job_attempt` / `finalize_attempt` and the event that follows an owned outcome |
| `Fault`, `FaultAtMark` | an exception out of the registry, the runtime, the store or the event rail, caught in `run_once` |
| `RecoverReadJob`, `RecoverKeepsRun`, `RecoverFilesRun`, `Settle`, `Refinalize`, `Report` | `record_unexpected_job_failure`, one action per transaction |
| `Renew`, `Stall`, `Lapse` | the renewal thread and the clock |
| `Cancel`, `Cleanup` | the API's cancel handler and `cleanup_runtime_rows` |
| `Crash` | the process dies between two transactions |

Two abstractions carry weight. Time is only whether a lease deadline has passed:
`Lapse` is the deadline of a dead owner, `Stall` that of a live owner whose
renewals did not come through (bounded by `MaxStalls`). And a scheduler draws a
fresh `worker_id` when it starts, so a restarted process is another element of
`Schedulers`; a crashed one never returns under its old name.

An exception that leaves `record_unexpected_job_failure` leaves `run_once` and
`run_loop` with it, so the scheduler is `dead` afterwards; `LoopSurvives` is the
statement that this does not happen ("one malformed attempt must not end the
scheduler loop", `scheduler.py:748`). It is the one property the code does not
keep, and the run `loop_ends` shows it (see the disagreements).

### JobLifecycle

The statuses a job passes through and the attempts it counts, as an observer of
the jobs table sees them. `Scheduler` instantiates it with its own `status` and
`attempts`, everything else hidden, and checks `Lifecycle!Spec` as a property.
It implements it as long as no attempt raises and no concurrency cap defers a
job: the disagreements below are the reason for both restrictions.

### EventDelivery

State. An event is its sequence number (`store_seq`). `counter`, `events` and
`created` are the causal sequence, the retained rows and their timestamps; `row`
is the `event_stream_deliveries` table, one cursor and stream id offset per
target; `stream` is the Redis stream, oldest entry first. A publisher (API,
scheduler, command line) is where `pc` says it is in `emit`, with the event it
emits (`goal`) and the cursor of its open delivery transaction (`tx`).
`appended` is a history of what ever reached the stream.

| Action | Code |
|---|---|
| `Persist` | `persist_event` with `causally_after` |
| `Begin`, `AppendNext`, `Commit` | `deliver_through`: cursor or `_bootstrap`, `_append` row by row with the check of a refused id, the final cursor |
| `AppendAmbiguous`, `DeliveryFails`, `Crash` | a lost reply, an error or a failed commit, a dead process: the transaction rolls back, its XADDs stay |
| `Publish` | `_publish`, best effort |
| `RedisLoses`, `Cleanup` | Redis restarts from an older snapshot; `cleanup_runtime_rows` deletes events |

The batches in which rows are read are not visible: they are read inside one
write transaction. A target is a digest of the Redis URL and the stream's name,
so two processes may know one stream as two targets. `Init` may start with a
stream the rail before sequences filled with the first events, under ids of its
own. `XADD MAXLEN ~` may keep more than `Maxlen` entries, never fewer.

### ServiceRollout

State. `active` is each version's record (`active_service_id` with its runtime
name), `row` the status of each service row, `up` the runtimes that run.
Service n is the one start request n creates; `start`, `version` and `prev` are
where that handler is and what it read before its first await. `conns` and
`drain` are the registry's `_DrainState`s, `at` and `open` the relays and their
sockets. `check` and `stop` are a probe and a stop handler in flight.

| Action | Code |
|---|---|
| `RequestStart`, `Launch`, `LaunchFails`, `ProbeCandidate`, `RecordProbe`, `Promote`, `Discard` | `start_repository_service`, one action per stretch between awaits |
| `Connect`, `Close`, `Unregister` | the websocket routes, `proxy_service_websocket` and the relay |
| `ForceDrain`, `CloseRelays`, `StopReplaced`, `Retire`, `RetireFails` | `_force_drain`, `_retire` and the retire callback |
| `BeginCheck`, `CheckAnswers`, `RecordCheck`, `ProxyAnswered` | the probe routes and the HTTP proxy |
| `BeginStop`, `StopRuntime`, `StopRow`, `StopPointer`, `StopById` | the stop routes by name and by id |

The registry's lock is never held across an await, so on the event loop a call
of it does not wait, and a route's choice of service and its `register` are one
step. Probe and stop handlers run in threads and are split at every store and
runtime call. The store reads of one stretch of a coroutine are taken together.
A relay is open or ending; frames and limits are left out.

### DirectoryLifecycle

State. `entries`, `versions` and `bundles` are the repository tables and the
notebook rows versions run from; `passed` is what worker validation proved of a
source; `req` is the request each client has in flight and `job` one queued run
of a published function. One name of one project is modelled; an entry that was
deleted or retired may be created again under it.

| Action | Code |
|---|---|
| `SubmitExisting`, `SubmitRecheck`, `SubmitVerify`, `SubmitRewrite`, `SubmitNumber`, `SubmitNewName`, `CreateEntry`, `SubmitBundle`, `SubmitCheck`, `SubmitVersion` | `submit_repository_entry` and the store methods it calls, split where SQLite leaves a read outside the write transaction |
| `BeginValidate`, `EndValidate`, `BeginValidated` | `validate_repository_entry` around the validation run |
| `RequestReview`, `Approve`, `Reject`, `Publish`, `CommitTransition` | the review routes and `transition_repository_version_status`: the checks, then the write |
| `Retire`, `BeginDelete`, `DeleteRows` | retirement and deletion |
| `RunFunction`, `LoadJob`, `GateJob`, `EndJob` | a run of a published name, its kind loaded and gated by the scheduler |
| `StartService`, `StopService`, `CreateNotebook` | the routes that write the same bundles under the version's kind |

SQLite opens its write transaction at the first write, so a `SELECT` before it
may be stale: a store method that checks and then writes takes two steps. So a
submission to an existing name looks at the published version (`SubmitVerify`)
and writes the row back from it (`SubmitRewrite`); `outrun` is a history of the
entries where a review step committed in between.

### ScheduleMaterialization

State. `rows` is the schedules table, `pass` where each scheduler is in its
pass, `patch` the patch request in flight, `policy` and `registered` what the
scheduler loaded, `made` a history of the jobs. Time counts cron units and a cron
expression is its period.

| Action | Code |
|---|---|
| `CreateSchedule`, `AddSchedule` | the API route and the command line |
| `BeginPatch`, `CommitPatch` | `patch_schedule`: read, then write of the whole row |
| `BeginPass`, `Examine`, `SaveJob`, `Advance` | `materialize_due_schedules`: list, registry and policy, save, advance |
| `Crash`, `Restart`, `Tick`, `ReloadPolicy`, `ReloadRegistry` | a dying and a new process, the clock, changed files |

### BatchIntake

State. `jobs` and `fanouts` are the tables, `batch`, `retry`, `cli` and
`cleanup` the requests in flight, `policy` the resource policies in force. The
statuses are kept as far as a batch's derived status tells them apart. `quota` is
the bounds a behaviour has. `met` and `late` are histories: the batches whose own
jobs ended, or were about to be saved, while a cleanup looked at jobs and batches
in turn, and the writes over the end of a job.

| Action | Code |
|---|---|
| `QueueJob`, `QueueNotebook`, `CliSubmit`, `CliFinish` | single submissions; the command line saves its job and runs it itself |
| `CreateFanout`, `SaveChild`, `AnswerFanout`, `CrashFanout` | `create_fanout`: the row, then job by job |
| `BeginRetry`, `SaveRetry` | `retry_job` with its policy check |
| `Progress` | whatever the queue does to a job that is not over (`Scheduler` has the detail) |
| `FinishLate` | `finish_job` from a deferral or from a recovery that settles, over a job that ended meanwhile |
| `BeginCleanup`, `ListFanouts`, `CheckFanout`, `PreviewCleanup`, `CommitCleanup` | `cleanup_runtime_rows`: the jobs that are over, the batches, a look at each batch's children, each read of its own; then the deletes under the write lock |

### WorkerRun

State. `rt` is the adapter (phase, result, what it created), `cluster` the Job
and the config map, `pods` the worker and forwarder containers with the files
they hold, `redis` the two result keys, `storage` the retained directory of the
Run. One Run is enough: runs share nothing but the cluster.

| Action | Code |
|---|---|
| `Begin`, `Refuse`, `Launch`, `LaunchFails`, `DockerTimesOut`, `DockerExits`, `DockerLoad` | `DockerRuntime.run` |
| `CreateConfigMap`, `CreateJob`, `PollJob`, `WaitTimesOut`, `LoadAfterSuccess`, `LoadAfterFailure` | `KubernetesRuntime.run_observed` and its wait |
| `RecordHeartbeats`, `CaptureDiagnostics`, `DeleteJob`, `DeleteConfigMap`, `Announce` | its exit path, call by call |
| `WorkerWrites`, `WorkerReports`, `WorkerPublishes`, `WorkerExits` | a worker that publishes its result itself (`workers/example.artifact`) |
| `LegacyForward`, `WaitForResult`, `CopyArtifacts`, `CommitStaging`, `CommitExisting`, `ForwardResult`, `ForwarderGivesUp` | the inline forwarder and the retaining one |
| `StartPod`, `PodKilled`, `JobSucceeds`, `JobFails` | Kubernetes, external |
| `TerminateDocker`, `TerminateKubernetes`, `CleanArtifacts`, `ValidateDocker`, `ValidateKubernetes` | termination, artifact cleanup, the validation gate |

### FrontDoor, ServiceHost and ControlPlane

`FrontDoor` resolves a bearer token (bootstrap, local row, OIDC, JupyterHub with
its cache) and counts the request: `Authenticate`, `HubReads`, `HubReturns`,
`HubRefuses`, then `Unlimited` or `ReadCounter`, `Increment`, `Reset`. The Hub's
user changes behind its back (`ChangeHubUser`). `held` and `passes` are
histories. `ServiceHost` has the record of one notebook service kind, the
long-running service rows, the runtimes by name, and per connection the handler
in progress, one action per store transaction or runtime call: declare
(`Declare`, `SaveDeclaration`), validate and start (`ReadRecord`, `StopOldRow`,
`StopOldRuntime`, `ClearOldRecord`, `RemoveName`, `Create`, `Answers`,
`RegisterStarted`, `PointRecord`, `Probe`, ...), stop, probe, proxy, halt, kill and
cleanup. `ControlPlane` composes them: an admitted request of the services route
runs a handler, with the role the door gave it.

A runtime's name is `gk-nbsvc-`, the kind and 12 characters of the source's hash,
cut to 63 characters, for a validation further still. So what is left of the hash
depends on the length of the kind, a constant of a behaviour (`kind`): all of it,
all but that of the validation's name, or none (`HashIsCut`), and then all
sources have one name. An exception the Docker path does not expect leaves the
container up: the port cannot be inspected (`PortUnknown`, recorded as a
failure), or the answer does not decode or breaks off (`AnswerBroken`, which
neither `probe_http` nor `_start_docker` nor the route catches, so nothing is
recorded); on Kubernetes `_start_kubernetes` catches everything and deletes what it
made. The probe of a row ends by the same exceptions (`ProbeBroken`).

`strays` is a history of the names such an exception left a container under.
`disturbed` is one of interference: handlers overlapped, a runtime died, or a
request cleared the record while it still named a row or a runtime (a declaration
after a start that failed half way, or a validation of a running service).

Left out: audit rows; the several objects of a Kubernetes service are created and
deleted as one; errors of `stop_by_backend`; one kind and one project.

### DirectoryClients

State. A behaviour follows one client (`client`): the page, the picker or a
handle. `dir` is the directory, `net` the requests in flight by slot, `listed`,
`picked` and `shown` what the client displays, `tab`, `session` and `isAdmin` the
page and the session its cookie names, `held` the entry handle, `launched` the
entry and version the last launch ran and those its user meant, `job` and `runs` what a
launch queued, `reported` what a wait returned. An entry others submit after
deleting one of the same name is another entry under a higher id; a behaviour may
start after that happened (`Recreated1`), and it may happen on the way.

| Action | Code |
|---|---|
| `OthersAct` | other users of the directory, by the same API routes |
| `Forward`, `FailRequest`, `ServeRead`, `ServeReview`, `ServeRemoval`, `ServeSubmit`, `ServeLaunch` | the session service or the user server, and the API, one request at a time; a reply may be lost after the API did its work |
| `OpenPage`, `LoginFails`, `OAuthCallback`, `InitPage`, `SessionEnds`, `Logout` | `directory_ui.py` and `init` |
| `PageRefreshes`, `LoadEntry`, `PageReviews`, `SubmitBundle`, `PageLaunches`, `PageChooses`, `PageLists`, `PageShows`, `PageReviewed`, `PageDeleted`, `PageLaunched`, `PageErrs`, `Unheard` | `app.js`, asking and answering |
| `PickerLoads`, `PickerSelects`, `PickerRuns`, `PickerUsesService`, `PickerProxies`, `PickerHears` | `index.js` |
| `HandleSubmits`, `HandleRefreshes`, `HandleValidates`, `HandleReviews`, `HandleWaits`, `HandleRuns`, `HandleUsesService`, `RunDeclared`, `HandleHears`, `PollJob`, `PollRuns` | `RepositoryEntryHandle` and `GoblinKingNotebookClient` |
| `AttemptStarts`, `AttemptEnds`, `JobCancelled`, `OtherRun` | the queue, as far as a wait sees it |

The four loads of a refresh are read and rendered in one step, the API serves a
request atomically (`DirectoryLifecycle` has what interleaves inside one), a name
belongs to one entry at a time, and the user's role does not change.

### RunEvents

State. `stream`, `sequence` and `rate` are the Redis keys of one run, `taken` the
number each emitting thread holds between INCR and XADD, `follower` and `got`
where each follower reads on and what it received.

| Action | Code |
|---|---|
| `Number`, `Publish`, `PublishFails` | `emit` up to INCR, its transaction, `try_emit` after a transport error |
| `RateExpires`, `KeysExpire` | Redis |
| `List`, `Follow`, `ReadPage`, `Send`, `Disconnect` | `list_run_events` and `stream_run_events` over `read_run_event_entries` |

## Runs

Every run but `loop_ends` passes and explores its whole state space; `loop_ends`
shows that the code does not keep what its comment says.

| Run | Bounds | Shows |
|---|---|---|
| `queue_races` | 2 schedulers, 2 jobs (one with a retry), 1 stall, 1 crash, 1 cancellation | attempt numbers are unique, a job announces its end once, and the refinement to `JobLifecycle` |
| `queue_faults` | 3 schedulers, 1 job with a retry, 1 exception at any step, 1 crash, 1 cancellation, 1 cleanup | no lease in limbo, Runs finish once, and under fairness every queued job ends |
| `queue_caps` | 2 schedulers, 2 jobs of a kind with cap 1 and 1 of an uncapped kind, a project cap of 2, 1 stall | caps are respected, by deferrals for the kind and for the project |
| `loop_ends` | 2 schedulers, 1 job with a retry, 1 exception; no crash, stall, cancellation or cleanup | violated: recovery adopts the Run of another scheduler's attempt, raises and ends the loop |
| `stream_faults` | 2 publishers, 2 names of the stream, 3 events, repeating clocks, 2 faults, 1 loss in Redis, 1 cleanup | the stream is ordered and duplicate-free, no cursor skips an event, predecessors are replayed first, timestamps follow the sequence |
| `stream_resume` | 2 publishers, 2 names, 2 events of the old rail and 3 new ones, 2 faults | delivery can always resume, and after the faults an emit delivers |
| `service_rollout` | 3 starts of 2 versions, 2 clients, 1 probe or stop, 1 failure | a replacement spares connected clients, keeps the entry routable, and every drain ends |
| `records` | either 2 clients (one admin), 2 sources, 1 entry with 2 versions, 1 clash of requests or kinds; or 1 batch of 2 items or 1 single job, 3 jobs, limits 1 and 2, 2 policies, 1 upset (a reload, a crash, a write over an end, a request that meets the cleanup of its batch) | what is published was validated and approved, an entry shown as published routes to a published version, a container starts on validated source, without a clash the published version and its bundle stay what was approved; jobs are within a ceiling, a child that can run has its batch, a complete batch's verdict is final |
| `schedule_races` | 1 schedule, 2 schedulers, periods and limits 1 and 2, time 2, 1 clash, 1 patch, 1 reload | jobs are within the ceiling of their pass, an occurrence is made once while nothing clashes, a due schedule is served in the end |
| `worker_runs` | 2 Pods, 2 contents, Docker, Kubernetes without and with retained artifacts, 1 fault | reported artifacts are on the volume, objects are released, success means exit 0, a passed validation leaves nothing |
| `control_plane` | 2 callers, 3 Hub models, 1 change; a deployment with limit 1, 3 requests and 2 ticks, one with 4 requests to services that may overlap and one with 6 that follow one another; 2 sources, both backends, all lengths of a kind where requests follow one another and those that keep the hash where they overlap, 2 rows, 1 failure or exception | a granted role is recent, the limit holds for a caller whose requests do not overlap, a row's URL serves its source, rows and runtimes agree while requests follow one another |
| `clients` | 2 entries (a function and a service) with 2 versions, 2 requests in flight, 3 requests of the page, 2 of the others, 1 or 2 changes by others, 1 failure; 2 publishers, 1 follower, 4 emits, 2 retained, 2 mishaps | a launch that names a version runs the one displayed or submitted, a choice stays selected, a wait reports the Run that ended the job, followers pass over nothing retained |

Several properties carry a condition on a history variable (`clashes`,
`disturbed`, `strays`, `met`, `late`, `lapped`, `outrun`, `overlapped`,
`expired`). The code gives no more: the disagreements below are what happens when
the condition fails, and the run also explores those behaviours.

Why the bounds are enough. The protocol between schedulers is about one row, so
two schedulers and one job show every race on it, including reclaim by the
other one and return of the first; a second job is needed for batches (a claim
of two, the rest of the batch waiting behind an attempt) and for deferral; a
third, of another kind, for the project cap to differ from the kind cap, which
two jobs of one kind contend for; a third scheduler to take
over from one that crashed and one whose attempt raised. One crash, one stall and
one cancellation can each fall between any two transactions. `MaxRetries = 1`
gives a retry and its exhaustion. In the event rail the write lock admits one
delivery at a time, so two publishers show every order of persisting and
delivering; three events make a backlog with a predecessor and a successor; two
faults let a replay fail again. `Maxlen` is above the number of events, so
nothing is trimmed. In a rollout three starts give two that read the same
previous service, or one that replaces a service whose own predecessor still
drains; the requests are a rollback (1, 2, 1) and a restart (1, 1, 2); two
clients make the last one to leave differ from the first. A directory request
meets at most one other one, because one clash is what a second client can
cause between two of its steps; two versions let a draft stand beside a
published one. Two periods let a patch shorten or lengthen a schedule, two
limits lie on both sides of a ceiling. A batch of two can be half created and
half done; its third job is a retry. A batch and a single job share only the
policies, so a behaviour has either (`Quotas`). Six requests to services that
follow one another are declare, start, stop, the same with other source, and one
more: enough for a row to outlive its source under a name that is cut. A second Pod is what a Job with its restart policy can start behind
the adapter's back. Two ticks let a window end and a cache entry expire, one Hub
change is a promotion or a removal. Two requests in flight let answers overtake
each other; a directory in which an entry was recreated before stands beside the
changes others make on the way; a retained length of two makes the stream trim under a follower.
Deadlock is not checked: when every job is over, every event delivered and every
request answered, the system rests.

Symmetry is used where values are interchangeable: sources, items, Pods and
contents, callers, publishers; never in a run with a liveness property.

Fairness. `PassStep(s)` of the queue is weakly fair: `run_loop` calls `run_once`
until its process dies and a worker returns within its enforced timeout. `Renew`
is weakly fair: the renewal thread runs every interval. `Lapse` is weakly fair:
time passes. `Emit(p)` is weakly fair: a live publisher finishes the emit it
began. `DrainStep(s)` is weakly fair: timers fire and a runtime answers a stop.
`PassStep(w)` and `Restart(w)` of a schedule pass are weakly fair: a supervisor
restarts the scheduler; `CommitPatch` is: a handler that began finishes. Faults,
crashes, stalls, cancellations, cleanups, starts, patches and departures are never
assumed to happen, and no strong fairness is used. `queue_faults` keeps one
scheduler able to live; `EmitDelivers` starts once the bounded faults are used
up, since an error swallowed by `_append_stream` is retried only by the next
emit.

## Proofs

All theorems hold for every value of the constants that meets the named
assumptions of the modules: the shapes of the parameters (`ConstantsAssumption`,
`DeliveryConstants`, `RolloutConstants`, `DirectoryAssumption`,
`ScheduleAssumption`, `BatchAssumption`, `TimesAssumption`,
`DeploymentsAssumption`, `BackendsAssumption`, `ModesAssumption`,
`FaultsAssumption`, `PodsAssumption`, `ClientsAssumption`, `DirectoriesAssumption`,
`RunEventsAssumption`), that every host connection is a caller of
the door (`HostsAssumption`), and that the value standing for NULL is none of the
values it is distinguished from (`NoneAssumption`, `NothingAssumption`,
`RowsAssumption`, `EnvelopeAssumption`). TLC evaluates all of them on the
instances of the runs. Bounds such as `MaxFaults` or `MaxTime` are constants of
the modules, so the theorems hold for any number of faults, clashes or ticks.
A restriction beyond that is part of a theorem's statement and named below.

`SchedulerProofs`: `TypeCorrect`, `NoLimbo`, `RunningExecuted`,
`SnapshotsCurrent`, `AttemptsAreMarks` and `FinishedOnce`, for `TypeOK`,
`NoLeaseInLimbo`, `RunningIsExecuted`, `SnapshotCurrent`, `AttemptsCountMarks`
and `RunsFinishOnce`. None of the three invariants is inductive as it stands:
whether recovery releases a lease depends on the attempt number it computes,
which depends on the row it read in an earlier transaction and on the snapshot
of the claim. `IndInv` adds what a pass looks like in each phase (`PassShape`)
and, for each row a live scheduler owns, that everything the scheduler remembers
of the row is still true (`OwnedRow`). The proof rests on one observation: every
write to a row by somebody else takes the ownership away (`KeepsOwned`), so
another actor's step never disturbs `OwnedRow` (lemma `Frame`), and each action
needs an argument only for the scheduler that takes it. One lemma per action;
those that end an attempt share `EndAttemptPass`, those that finalize share
`FinalizeRows`.

Four more theorems of the same module rest on `IndInv`:

- `UniqueAttempts` (`AttemptsAreUnique`) and `AttemptInvariance`, while no attempt
  has raised (`faults = 0`; recovery may adopt another attempt's Run, see below).
  `AttemptInv` says that a number in execution is one the job has counted, that
  two schedulers on one job execute different numbers, that no Run is ahead of
  its job's count and that a scheduler about to insert its Run finds none with
  its number.
- `LifecycleImplemented` (`ImplementsLifecycle`) is the refinement: with the
  identity mapping on `status` and `attempts`, an initial state is one of
  `JobLifecycle` and every step is one of its steps or a stutter. It assumes
  `MaxFaults = 0` and no cap (`NoCaps`), since settling and deferral write rows
  without looking. `OwnedIsRunning` carries it: what an owner finalizes is the
  running attempt.
- `EndsOnce` (`EndsAtMostOnce`), under `NoCaps` and `faults = 0`. `EndInv`: an end
  announced belongs to a finished job, and a job some scheduler is about to
  announce is finished, not announced yet, and about to be announced by no other.
- `CapsHold` (`CapsRespected`) has no such restriction: for any exceptions, crashes,
  stalls and cancellations. `CapsRespected` alone is not inductive, because the
  project check and the kind check of one job are two transactions. `CapsInv`
  bounds the jobs of a kind past the kind check by the cap, and everything past
  the project check (`Past`, which includes the job now at its kind check) by the
  largest project cap. A check counts all active rows, and what is past it is
  active, so the check bounds exactly the set it adds to. `Kinds # {}` is
  assumed: without a kind there is no job and no cap to name.

`EventDeliveryProofs`: `DeliveryTypeCorrect`, `NothingSkipped`,
`PredecessorsFirst`, `TimeFollowsSequence` and `StreamInOrder`, for `TypeOK`,
`CursorCovers`, `AppendsInOrder`, `CausalTime` and `StreamOrdered`. The invariant
says that what was ever appended is a prefix of the retained events, that the
stream holds nothing else, and that no cursor lies beyond that prefix. A rollback
leaves the stream ahead of the cursor and a loss leaves it behind; neither
changes the prefix. `StreamInOrder` assumes there is no old rail
(`LegacyEvents = 0`), which makes every offset zero and every id the sequence
number. `DeliveryResumes` (`Resumable`) and `ContinuedInOrder` (`StreamOrdered`)
cover a stream that continues an old rail, in every state that is `Undisturbed`:
Redis lost nothing, no more events were numbered than `Maxlen`, and no row of the
old rail was cleaned up (the disagreements below need one of these). `ResumeInv`
adds that all entries are numbered from one common offset, that nothing delivered
is missing from the stream, and that every cursor under that offset stands behind
the old rail's entries; so a refused id belongs to an entry that is there, and the
entry is the one the delivery would have written.

`ClientsProofs` has three parts that share nothing but the file.

Service clients: `RolloutTypeCorrect`, `ClientsSpared`,
`DrainsAwaitSomebody` and `RolloutKeepsRoute`, for `TypeOK`,
`RetireSparesClients`, `DrainAwaitsClients` and `AlwaysRoutable`. `RelayInv` ties
sockets and registry together (an open socket is registered, a registered relay
has still to leave), so an empty registry entry means no open socket.
`RolloutInv` finds the current service: the one promoted last is pointed at,
ready, up and not draining, because only promoted services are ever read as
previous and a late probe misses only a runtime that is gone.

Directory clients: `ChoicesKept` and `FinalRunReported`, for `ChoicesAreKept` and
`ReportedRunIsFinal` of `ClientsSpec`. Neither property is inductive: a launch
happens long after the click, and a wait reads job and Runs in two requests.
`ClientsInv` says of every request in flight that it names the version its user
meant, if it meant one (`NetInv`), that a handle names the version it was made for
(`HandleInv`), that a chosen entry is in the listing that is shown, with the same
id (`ChoiceInv`), and that a job that ended by itself was ended by its latest Run
(`RunsInv`), so the status a wait read of an ended job still holds when it reads
the Runs (`PolledInv`). `CallInv` adds that a notebook asks for an entry or its
review only through a handle. The number alone would not say which entry ran, so
`EntriesInv` follows the entries: everything a client was ever told of, a listing,
a handle, an answer on its way or what a launch was meant for, is a row whose id
is at most that of the entry that now has the name (`MetIn`), because a name is
given to entries with rising ids only (`DirStep`, `MetStaysMet`). So a launch runs the
meant number of the meant entry or of a later one under the name. Lemma
`FindsTheEnd` is the argument about the page: the newest Run of the job on it is
the one that ended the job, or the page has none of them (the answer is then
null). The directory may have any number of entries and changes; what it holds at
the start is one of the rows of `DirectoriesAssumption`.

Followers: `NothingMissed`, for `FollowersMissNothing` of `EventsSpec`. A page is
the oldest of what is retained after a number, sorted; that sorting a finite set
gives each number once and ascending (`AscendingSorts`) follows from counting how
many are not above a number. `FollowInv`: a follower reads on from the largest
number it received, however it follows. `AppendedInOrder`, while emits do not
overlap and no key expired: at most one number is taken and not appended, it is
the newest, and whatever is retained up to a number a follower has heard of
(received, or on the page being sent), it has heard of too. Trims only remove, so
they never disturb that.

`DirectoryLifecycleProofs`: `DirectoryTyped`, `PublishedIsVetted`,
`PublishedRoutes`, `ApprovedIsBundled`, `StartsValidated` and `PublishedStays`, for
`TypeOK`, `PublishedWasVetted`, `PublishedEntryRoutes`, `BundleIsApproved`,
`ExecutesValidated` and `PublishedImmutable`. A request writes from what it read
several transactions ago, so each part of `DirInv` says of every request in flight
what its write may still rely on: `Identity` (an id is given out once, so rows of a
deleted entry do not come back under a late write), `Vetting` (a proof and an
approver outlive every late write, so the columns a checked transition writes are
still covered), `Routing` (what a submission writes back still routes, or the
entry is `outrun`), `Undisturbed` (while nothing clashes there is one request at a
time and everything it read is current).

`ControlPlaneProofs`: `RolesAreRecent`, `LimitHolds`, `RowsServeTheirSource` and
`RuntimesMatch`, for `RoleIsRecent`, `WithinLimit`, `RowServesItsSource` and
`RuntimesMatchRows`, of the composed specification. `DoorInv` bounds the age of
every identity by where it is: asked, answered, cached, granted; and for a caller
whose requests do not overlap it relates the counter row to what was let through.
`HostInv` has three layers: types and references; `Naming` (a name that holds the
hash fixes its source, which gives `RowsServeTheirSource` whatever overlaps); and
`Orderly`, which says for each step of each handler what record, rows and runtimes
hold midway. While requests follow one another at most the active row can be
reached (`ActiveOnly`) and serves its source (`Serving`), which is what is left of
the property when the name is cut; and the runtimes that are up, but for `strays`,
are the one the record names (`NamedOnly`). A start under a name removes what is
there first, a stray included. A host step leaves the door's invariant alone (`DoorUnchanged`),
and a door step changes nothing the host's invariant reads.

`ScheduleMaterializationProofs`: `ScheduleTyped`, `MadeWithin` and `OccursOnce`, for
`TypeOK`, `MadeWithinCeiling` and `OncePerOccurrence`. A pass that decided to make a
job holds a limit within its own ceiling (`Accepted`), however policies reload; while
nothing clashes, one pass runs at a time (`Alone`), what it listed is what the table
holds (`Fresh`), and made occurrences lie before the row's next time (`Behind`).

`BatchIntakeProofs`: `IntakeTyped`, `JobsAreWithin`, `LiveChildrenAttached` and
`VerdictsAreFinal`, for `IntakeTypeOK`, `JobsWithinCeiling`, `LiveChildHasBatch` and
`VerdictIsFinal`. `Accepted` is the same idea for batches and retries; `Attached`,
stated for each batch that met no cleanup, adds that a cleanup that takes the batch
takes all the children it has, which it listed in an earlier read, and that the
batch is not under way. A late write does not disturb it: a child it revives is
still among those the cleanup deletes. The verdict is proved from what a step may
do to a row: but for a late write, terminal jobs stay terminal.

`WorkerRunProofs`: `RunTyped`, `ArtifactsDurable`, `ObjectsAreReleased`,
`SuccessIsClean` and `ValidationIsClean`, for `TypeOK`, `ArtifactsAreDurable`,
`ObjectsReleased`, `SuccessExitedCleanly` and `ValidationLeavesNothing`. `RunInv`
follows an envelope from the forwarder that holds it through Redis to the adapter,
and says at each place that the bytes it names are on the volume (`Durable`);
which objects can exist in which phase (`Objects`); that a success has a worker that
exited 0 (`Cleanly`); and that bytes appearing after a passed validation are another
Pod's (`Leaves`).

The type invariants, `RunningIsExecuted`, `SnapshotCurrent` and
`AttemptsCountMarks` serve the proofs and are proved only; the other theorems
state properties the runs check too. A theorem with a condition on a state
(`faults = 0`, `Undisturbed`) holds in every state up to the first one where the
condition fails, and the conditions are met by whole behaviours.

Only model-checked is liveness: `EveryJobEnds`, `EmitDelivers`, `DrainEnds` and
`DueIsServed`, which the proof system does not reach. Every other property of a run
that passes is stated by a theorem. `AttemptsAreUnique`, `EndsAtMostOnce`,
`Resumable` and the refinement are neither checked nor proved outside the
conditions above, because there they fail (see below).

`MCRecords` runs either the requests that bring jobs in and take them out or
those that review the directory: with the first choice its behaviours are those
of `IntakeSpec`, with the second those of `DirectoryLifecycle`'s `Spec`.
`MCClients` runs one client of the directory or the followers of one run: with the
first choice its behaviours are those of `ClientsSpec`, with the second those of
`EventsSpec`, each beside variables that do not move.

## Disagreements

What the modules show when a condition or a bound of the runs is lifted, each
against what the repository says or what a caller would expect.

Queue (`Scheduler`):

- A deferral for a full cap (`scheduler.py:245`, `:276`) and the settling write
  of recovery (`scheduler_failures.py:48`) call `finish_job`, which looks at
  neither status nor owner; a cancellation that commits between the read and the
  write is lost (`CancelledStaysCancelled`; 2 schedulers, 2 jobs, cap 1, 1
  cancellation), against `docs/causal-lifecycle-ordering.md:64-67`.
- One exception and no crash ends a scheduler loop (run `loop_ends`). The event
  after an attempt was finalized as retrying raises; `record_unexpected_job_failure`
  reads the job row; another scheduler claims the job and starts its next Run;
  recovery then reads the Runs, adopts that running one (`scheduler_failures.py:54-55`)
  under the number of the row it read, and `_finalize_run` raises for the changed
  lineage (`store_run_lifecycle.py:156`) inside the `except` of `run_once`, against
  the comment at `scheduler.py:748`.
- Two more ways to the same end: a Run orphaned by a crash is adopted under the
  next attempt's number (1 crash, 1 exception); and cleanup deletes a cancelled
  job whose worker is still active (1 cancellation, 1 cleanup), against
  `store.py:1452` ("preserving active work") too.
- Recovery adopts the latest running Run of a job whoever started it: one started
  by the scheduler that reclaimed the job is finished under its feet (1 job, 1
  stall, 1 exception).
- Schedulers that claim jobs of a capped kind in step count each other's leases
  and defer each other without end (`EveryJobEnds`; 2 schedulers, 2 jobs, cap
  1), against `docs/goblin-resource-policies.md:308-310`.

Event rail (`EventDelivery`):

- `deliver_through` drains a backlog in one transaction; if that rolls back after
  more than maxlen appends, the replay starts at an event whose id is refused and
  whose entry is trimmed, and no later emit delivers anything (`Resumable`; 5
  events, `Maxlen` 2, 3 faults), against `docs/causal-lifecycle-ordering.md:34-36`.
- Two old events and a cleanup: when the row of the newest old entry is gone,
  `_bootstrap` starts from cursor 0 and the retained old events are appended
  again (`StreamOrdered`), against `tests/test_events.py:222`.

Repository services (`ServiceRollout`): of two concurrent starts of one version,
the service promoted first is neither drained nor stopped when the second
replaces it, against `docs/managed-service-websockets.md:88-89`.

Directory (`DirectoryLifecycle`, with clashes): a review step on a retired entry
brings it back; a transition that was checked earlier can take a published
version back to another status (`docs/goblin-directory.md:33`: "Published versions
are immutable"); overlapping submissions, or `POST /notebooks/goblins` with a
version's kind, replace a published bundle; a name retired and created again
shares its kinds with the old entry, whose deletion removes the new bundles; a
new draft makes an entry with a published version deletable; validating a running
service version clears `active_service_id`; two creators of one name both succeed
in their checks; a version row can outlive its deleted entry.

Schedules (`ScheduleMaterialization`, with a clash): a crash between save and
advance, or a second scheduler, makes an occurrence twice; a patch that read
before an advance takes `next_run_at` back; a slow pass overwrites the next time a
patch computed; a schedule whose kind is no longer registered ends `run_loop`;
`patch_schedule` does not check the policy, so a schedule the policy rejects is
reported at every pass.

Intake (`BatchIntake`): `goblin-king submit` saves a queued job, which a scheduler
may claim, and runs it itself; a ceiling does not bound a limit that is unset,
and notebook jobs bypass the policy (`api.py:2220`); `create_jobs_fanout` does not
catch `ResourcePolicyError`. `cleanup_runtime_rows` lists jobs that are over before
it looks at each batch, so a child that ends in between stays while its batch is
deleted, and a retry of it has no batch, against "preserving active work"
(`store.py:1452`); the two reads in the other order would not allow it. A late
`finish_job` revives a cancelled child, and its batch's verdict changes with the same
children. A cleanup also erases the failed children of a batch that still runs,
which may then answer `completed`.

Runs of workers (`WorkerRun`): the inline forwarder answers an artifact result
with a failed envelope and the worker's own SET then writes the successful one
under the same key (`kubernetes_result_forwarder.py:54`,
`workers/example.artifact/worker.py:101-106`), against
`docs/kubernetes-artifact-retention.md:48-50`; a Docker timeout ends the client and
leaves the container; Docker validation judges `result.json` even after the
adapter timed out; attempts of a job share the Docker artifact root;
`_commit_staging` catches only `FileExistsError` where Linux reports ENOTEMPTY; a
store error while heartbeats are recorded ends a run without its terminal event;
a crash leaves Job and config map; a late forwarder commits bytes after a
validation cleaned up.

Front door and services (`ControlPlane`): overlapping requests lose increments,
and a late reset lets more through; two first requests insert one counter row and
one of them answers 500; a token row created without its user gives 403; start,
validate, stop leaves the runtime up, against
`docs/jupyterhub-service-access.md:591-592`; validating a running service orphans
its row; a stop that meets a start leaves a runtime; a late probe or proxy failure
rewrites a stopped row; a failed start removes the runtime another start of the
same source brought up; a kind of 53 characters or more leaves nothing of the hash
in the runtime name, so all sources share it and overlapping requests make a row
serve another source (one of 44 or more does the same to validations); an answer
that does not decode, or a port that cannot be inspected, leaves a Docker
container up that no record names until the next start or validation of that source, against
`docs/jupyterhub-service-access.md:591-592` too; cleanup of an unprobed row during a start trips an
assertion with the runtime up.

Clients (`DirectoryClients`, `RunEvents`): waiting on a handle of version 2 returns
when the entry has the status through version 1; the page shows the latest version
and runs the published one, and its review buttons act on the version that is
latest when the request is served; a late answer brings a refreshed or deleted
entry back into the detail panel; a request in flight at logout is still
forwarded; `is_admin` is fixed at login; the session service gives up after 10 s
where the page asks for a validation of 180 s; a refresh of the picker loses the
selection; launches of picker and handle name the entry and the number
(`index.js:134`, `notebooks.py:483`), so when others deleted the entry and published
another under its name, version 1 of that one runs. Two emitting threads can append out of order once the rate key expired,
and a follower past the higher number never sees the lower one; after an hour of
silence numbers start again and followers skip events until they catch up.

## Plan

Done: `Scheduler` with `JobLifecycle`, `EventDelivery`, `ServiceRollout`,
`DirectoryLifecycle`, `ScheduleMaterialization`, `BatchIntake`, `WorkerRun`,
`ControlPlane` with `FrontDoor` and `ServiceHost`, `DirectoryClients`,
`RunEvents`, and their proofs. Every invariant and action property a passing run
checks is also a theorem; the liveness properties are not.

Left to model: lease timing (renewal interval against lease length), the relay's
tasks and outcome record, the cache of validation proofs by image, heartbeats and
the consumer group reader of the event stream.

## Not modelled

Schema declarations, row conversion, request and response shapes, settings from
the environment, registry, worker and bundle loading, the templates, project,
demo, smoke and doctor commands, and the admin page: conversions and
input/output local to one request or one process, without state that two actors
share. Audit rows are appended and never read back by a decision. `PROJECT.json`
lists every component with its status.
