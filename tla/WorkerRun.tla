----------------------------- MODULE WorkerRun -----------------------------
(***************************************************************************)
(* One Run of a worker, from the runtime adapter's first line to what it   *)
(* returns: the Docker adapter, the Kubernetes adapter without and with    *)
(* durable artifact storage, the Pods with their worker and                *)
(* result-forwarder containers, the Redis keys results travel through, the *)
(* retained bytes, an operator's kill, and the validation that uses the    *)
(* same adapters.  Runs share nothing but the cluster, so one is enough.   *)
(***************************************************************************)
EXTENDS Naturals, FiniteSets

CONSTANTS
    Pods,        \* Pods (or Docker containers) one Job may start
    Contents,    \* artifact bytes a worker may write
    Modes,       \* runtimes under check: "docker", "legacy", "retained"
    MaxFaults,   \* failing API, storage and Redis calls, evictions, kills, second Pods
    None,        \* no value
    Undeclared   \* an artifact declared without its digest

ASSUME ModesAssumption == Modes \subseteq {"docker", "legacy", "retained"}
ASSUME FaultsAssumption == MaxFaults \in Nat
ASSUME NoneAssumption ==
    /\ None \notin Contents /\ Undeclared \notin Contents /\ None # Undeclared
    /\ "empty" \notin Contents \cup {None, Undeclared}   \* a directory without its file
    /\ None \notin {"ok", "failed"}
ASSUME PodsAssumption == IsFiniteSet(Pods)

VARIABLES
    conf,      \* settings: the runtime, and whether this is a job's Run or a validation
    rt,        \* the adapter: phase, result, valid envelope, Job created, raised,
               \* ended (the terminal worker event)
    cluster,   \* config map, Job, and the objects whose deletion failed
    pods,      \* per Pod: worker, disk, file, forwarder, the envelope and copy it holds
    redis,     \* the worker-owned and the forwarder-owned result key
    storage,   \* the retained directory of the Run, and whether cleanup emptied it
    verdict,   \* validation outcome
    faults

vars == <<conf, rt, cluster, pods, redis, storage, verdict, faults>>

Kubernetes == conf.mode # "docker"

\* A result envelope: its status and the artifact it declares.
Envelope(status, art) == [status |-> status, art |-> art]
Failure == Envelope("failed", None)
Partial == Envelope("partial", None)   \* a result file cut off while it is written
Envelopes == [status : {"success", "failed"}, art : Contents \cup {None, Undeclared}]
ASSUME EnvelopeAssumption == None \notin Envelopes

Idle == [worker |-> "none", disk |-> None, file |-> None, forwarder |-> "none", held |-> None, copy |-> None]
Exited == {"ok", "bad", "killed"}
Started == {p \in Pods : pods[p].worker # "none"}

SetPod(p, pod) == pods' = [pods EXCEPT ![p] = pod]
Fault == faults < MaxFaults /\ faults' = faults + 1
FaultIf(bad) == IF bad THEN Fault ELSE UNCHANGED faults

-----------------------------------------------------------------------------
(* Both adapters: an unknown worker or an unusable configuration ends the  *)
(* run before anything is announced.                                       *)

Refuse ==
    /\ rt.phase = "idle"
    /\ rt' = [rt EXCEPT !.phase = "done", !.result = Failure]
    /\ UNCHANGED <<conf, cluster, pods, redis, storage, verdict, faults>>

Begin ==
    /\ rt.phase = "idle"
    /\ rt' = [rt EXCEPT !.phase = IF Kubernetes THEN "config" ELSE "launch"]
    /\ UNCHANGED <<conf, cluster, pods, redis, storage, verdict, faults>>

-----------------------------------------------------------------------------
(* Docker: one container, waited for by the docker client.                 *)

Launch ==
    /\ rt.phase = "launch"
    /\ rt' = [rt EXCEPT !.phase = "running"]
    /\ \E p \in Pods : SetPod(p, [pods[p] EXCEPT !.worker = "running"])
    /\ UNCHANGED <<conf, cluster, redis, storage, verdict, faults>>

LaunchFails ==
    /\ rt.phase = "launch"
    /\ Fault
    /\ rt' = [rt EXCEPT !.phase = "done", !.result = Failure, !.ended = "failed"]
    /\ UNCHANGED <<conf, cluster, pods, redis, storage, verdict>>

\* subprocess.run kills the client, not the container, which goes on.
DockerTimesOut ==
    /\ rt.phase = "running"
    /\ rt' = [rt EXCEPT !.phase = "done", !.result = Failure, !.ended = "timed_out"]
    /\ UNCHANGED <<conf, cluster, pods, redis, storage, verdict, faults>>

DockerExits ==
    /\ rt.phase = "running"
    /\ \E p \in Started : pods[p].worker \in Exited
    /\ rt' = [rt EXCEPT !.phase = "load"]
    /\ UNCHANGED <<conf, cluster, pods, redis, storage, verdict, faults>>

\* Redis first, then the result file; a partial file is an invalid envelope.
DockerResult(p, reachable) ==
    IF reachable /\ redis.worker # None THEN redis.worker
    ELSE IF pods[p].file = Partial THEN Failure ELSE pods[p].file

\* artifact_policy_error may refuse any result that declares artifacts.
OverPolicy(e) == IF e.art = None THEN {FALSE} ELSE BOOLEAN

DockerLoad ==
    /\ rt.phase = "load"
    /\ \E p \in Started, reachable \in BOOLEAN :
        LET e == DockerResult(p, reachable) IN
        /\ FaultIf(~reachable)
        /\ IF e # None
           THEN \E over \in OverPolicy(e) :
                  rt' = [rt EXCEPT !.phase = "done", !.result = IF over THEN Failure ELSE e,
                                   !.ended = IF over THEN "failed" ELSE "completed"]
           ELSE rt' = [rt EXCEPT !.phase = "done", !.result = Failure,
                                 !.ended = IF pods[p].worker = "ok" THEN "no_result" ELSE "failed"]
    /\ UNCHANGED <<conf, cluster, pods, redis, storage, verdict>>

-----------------------------------------------------------------------------
(* Kubernetes: config map, Job, wait, diagnostics, deletion, announcement. *)

\* A create call that fails may or may not have taken effect.
CreateConfigMap ==
    /\ rt.phase = "config"
    /\ \/ /\ rt' = [rt EXCEPT !.phase = "create"]
          /\ cluster' = [cluster EXCEPT !.config = TRUE] /\ UNCHANGED faults
       \/ /\ Fault
          /\ rt' = [rt EXCEPT !.phase = "observe", !.result = Failure]
          /\ \E there \in BOOLEAN : cluster' = [cluster EXCEPT !.config = there]
    /\ UNCHANGED <<conf, pods, redis, storage, verdict>>

CreateJob ==
    /\ rt.phase = "create"
    /\ \/ /\ rt' = [rt EXCEPT !.phase = "wait", !.created = TRUE]
          /\ cluster' = [cluster EXCEPT !.job = "active"] /\ UNCHANGED faults
       \/ /\ Fault
          /\ rt' = [rt EXCEPT !.phase = "observe", !.result = Failure]
          /\ \E job \in {"absent", "active"} : cluster' = [cluster EXCEPT !.job = job]
    /\ UNCHANGED <<conf, pods, redis, storage, verdict>>

PullFailing == \E p \in Pods : pods[p].worker = "unpulled"

\* The wait ends in a failure of the adapter's own.
GivesUp == rt' = [rt EXCEPT !.phase = "observe", !.result = Failure]

\* One round of the wait loop that finds something.
PollJob ==
    /\ rt.phase = "wait"
    /\ \/ cluster.job = "succeeded" /\ rt' = [rt EXCEPT !.phase = "loadok"] /\ UNCHANGED faults
       \/ cluster.job = "failed" /\ rt' = [rt EXCEPT !.phase = "loadbad"] /\ UNCHANGED faults
       \/ cluster.job = "active" /\ PullFailing /\ GivesUp /\ UNCHANGED faults
       \/ cluster.job = "absent" /\ GivesUp /\ UNCHANGED faults
       \/ Fault /\ GivesUp
    /\ UNCHANGED <<conf, cluster, pods, redis, storage, verdict>>

WaitTimesOut ==
    /\ rt.phase = "wait"
    /\ GivesUp
    /\ UNCHANGED <<conf, cluster, pods, redis, storage, verdict, faults>>

\* With durable storage only the forwarder's own key is believed.
ResultKey == IF conf.mode = "retained" THEN redis.forwarded ELSE redis.worker

LoadedResult(reachable) == IF reachable THEN ResultKey ELSE None

LoadAfterSuccess ==
    /\ rt.phase = "loadok"
    /\ \E reachable \in BOOLEAN :
        LET e == LoadedResult(reachable) IN
        /\ FaultIf(~reachable)
        /\ rt' = [rt EXCEPT !.phase = "observe", !.valid = e # None,
                            !.result = IF e = None THEN Failure ELSE e]
    /\ UNCHANGED <<conf, cluster, pods, redis, storage, verdict>>

\* Mutant: what a failed Job published is returned as it is.
LoadTrusting ==
    /\ rt.phase = "loadbad"
    /\ LET e == LoadedResult(TRUE) IN
       rt' = [rt EXCEPT !.phase = "observe", !.valid = e # None,
                        !.result = IF e = None THEN Failure ELSE e]
    /\ UNCHANGED <<conf, cluster, pods, redis, storage, verdict, faults>>

\* A failed Job fails the Run, but keeps what its envelope proves durable.
LoadAfterFailure ==
    /\ rt.phase = "loadbad"
    /\ \E reachable \in BOOLEAN :
        LET e == LoadedResult(reachable) IN
        /\ FaultIf(~reachable)
        /\ rt' = [rt EXCEPT !.phase = "observe", !.valid = e # None,
                            !.result = IF e = None THEN Failure ELSE Envelope("failed", e.art)]
    /\ UNCHANGED <<conf, cluster, pods, redis, storage, verdict>>

\* Mutant: an error while observing skips the cleanup.
HeartbeatsUnguarded ==
    /\ rt.phase = "observe"
    /\ \/ rt' = [rt EXCEPT !.phase = IF rt.created THEN "diagnose" ELSE "deljob"] /\ UNCHANGED faults
       \/ Fault /\ rt' = [rt EXCEPT !.phase = "raised", !.raised = TRUE]
    /\ UNCHANGED <<conf, cluster, pods, redis, storage, verdict>>

\* The worker's heartbeats are persisted; a store error raises, but only
\* past the cleanup.
RecordHeartbeats ==
    /\ rt.phase = "observe"
    /\ \/ rt' = [rt EXCEPT !.phase = IF rt.created THEN "diagnose" ELSE "deljob"] /\ UNCHANGED faults
       \/ Fault /\ rt' = [rt EXCEPT !.phase = "deljob", !.raised = TRUE]
    /\ UNCHANGED <<conf, cluster, pods, redis, storage, verdict>>

\* Pod logs and exit code are read best effort and recorded as an event.
CaptureDiagnostics ==
    /\ rt.phase = "diagnose"
    /\ \/ rt' = [rt EXCEPT !.phase = "deljob"] /\ UNCHANGED faults
       \/ Fault /\ rt' = [rt EXCEPT !.phase = "deljob", !.raised = TRUE]
    /\ UNCHANGED <<conf, cluster, pods, redis, storage, verdict>>

DeleteJob ==
    /\ rt.phase = "deljob"
    /\ rt' = [rt EXCEPT !.phase = "delconfig"]
    /\ \/ cluster' = [cluster EXCEPT !.job = "absent"] /\ UNCHANGED faults
       \/ Fault /\ cluster' = [cluster EXCEPT !.kept = @ \cup {"job"}]
    /\ UNCHANGED <<conf, pods, redis, storage, verdict>>

\* The terminal worker event; a raised error propagates instead.
Announce ==
    rt' = IF rt.raised THEN [rt EXCEPT !.phase = "raised"]
          ELSE [rt EXCEPT !.phase = "done",
                          !.ended = IF rt.result.status = "success" THEN "completed" ELSE "failed"]

DeleteConfigMap ==
    /\ rt.phase = "delconfig"
    /\ Announce
    /\ \/ cluster' = [cluster EXCEPT !.config = FALSE] /\ UNCHANGED faults
       \/ Fault /\ cluster' = [cluster EXCEPT !.kept = @ \cup {"config"}]
    /\ UNCHANGED <<conf, pods, redis, storage, verdict>>

-----------------------------------------------------------------------------
(* The worker container: writes artifact bytes, its result file (with the  *)
(* digest of the bytes written so far, or without one) and, as the         *)
(* contract allows, its own Redis key, then exits.                         *)

\* Only retention looks at the bytes again, so only there a rewrite matters.
WorkerWrites(p, c) ==
    /\ pods[p].worker = "running" /\ pods[p].disk # c
    /\ conf.mode = "retained" \/ pods[p].disk = None
    /\ SetPod(p, [pods[p] EXCEPT !.disk = c])
    /\ UNCHANGED <<conf, rt, cluster, redis, storage, verdict, faults>>

WorkerReports(p) ==
    /\ pods[p].worker = "running"
    /\ \/ pods[p].file = None /\ SetPod(p, [pods[p] EXCEPT !.file = Partial])
       \/ pods[p].file = Partial /\ \E status \in {"success", "failed"}, art \in {None, Undeclared, pods[p].disk} :
            SetPod(p, [pods[p] EXCEPT !.file = Envelope(status, art)])
    /\ UNCHANGED <<conf, rt, cluster, redis, storage, verdict, faults>>

WorkerPublishes(p) ==
    /\ pods[p].worker = "running" /\ pods[p].file \in Envelopes
    /\ conf.mode # "retained"   \* where nobody reads the worker's key
    /\ redis' = [redis EXCEPT !.worker = pods[p].file]
    /\ UNCHANGED <<conf, rt, cluster, pods, storage, verdict, faults>>

WorkerExits(p) ==
    /\ pods[p].worker = "running"
    /\ \E code \in {"ok", "bad"} : SetPod(p, [pods[p] EXCEPT !.worker = code])
    /\ UNCHANGED <<conf, rt, cluster, redis, storage, verdict, faults>>

-----------------------------------------------------------------------------
(* The result forwarder.                                                   *)

\* Neither forwarder lets metadata of unretained bytes through.
WithoutArtifacts(e) == IF e.art = None THEN e ELSE Failure

\* The inline script of Pods without durable storage reads the file once.
LegacyForward(p) ==
    /\ pods[p].forwarder = "wait" /\ conf.mode = "legacy" /\ pods[p].file # None
    /\ IF pods[p].file = Partial THEN SetPod(p, [pods[p] EXCEPT !.forwarder = "bad"])
       ELSE SetPod(p, [pods[p] EXCEPT !.forwarder = "publish", !.held = WithoutArtifacts(pods[p].file)])
    /\ UNCHANGED <<conf, rt, cluster, redis, storage, verdict, faults>>

\* The packaged forwarder waits until the file is a valid envelope.
WaitForResult(p) ==
    /\ pods[p].forwarder = "wait" /\ conf.mode = "retained" /\ pods[p].file \in Envelopes
    /\ SetPod(p, [pods[p] EXCEPT !.forwarder = IF pods[p].file.art = None THEN "publish" ELSE "copy",
                                 !.held = pods[p].file])
    /\ UNCHANGED <<conf, rt, cluster, redis, storage, verdict, faults>>

\* Its deadline passes without one.
ForwarderGivesUp(p) ==
    /\ pods[p].forwarder = "wait" /\ pods[p].file \notin Envelopes
    /\ SetPod(p, [pods[p] EXCEPT !.forwarder = "bad"])
    /\ UNCHANGED <<conf, rt, cluster, redis, storage, verdict, faults>>

\* The declared file is below the artifact root and a regular file.
SourceResolves(p) == pods[p].disk # None

\* The declared digest, when there is one, is that of the bytes read.
DigestMatches(e, bytes) == e.art \in {Undeclared, bytes}

Retainable(p) == SourceResolves(p) /\ DigestMatches(pods[p].held, pods[p].disk)

\* Mutant: the result is published as the worker declared it.
UnretainedAsDeclared(p) == [pods[p] EXCEPT !.forwarder = "publish", !.copy = None]

\* artifact_retention_failure: an explicit failure without metadata.
Unretained(p) == [pods[p] EXCEPT !.forwarder = "publish", !.held = Failure, !.copy = None]

\* Every declared file is copied into a staging directory and checked.
CopyArtifacts(p) ==
    /\ pods[p].forwarder = "copy"
    /\ \/ /\ Retainable(p) /\ UNCHANGED faults
          /\ SetPod(p, [pods[p] EXCEPT !.forwarder = "commit", !.copy = pods[p].disk])
       \/ FaultIf(Retainable(p)) /\ SetPod(p, Unretained(p))
    /\ UNCHANGED <<conf, rt, cluster, redis, storage, verdict>>

\* What the forwarder publishes once the directory holds these bytes.
Retained(p) ==
    [pods[p] EXCEPT !.forwarder = "publish", !.copy = None,
                    !.held = Envelope(pods[p].held.status, pods[p].copy)]

\* An existing directory must already hold the same bytes.
CommitExisting(p) ==
    /\ pods[p].forwarder = "commit"
    /\ IF storage.bytes = None THEN SetPod(p, [pods[p] EXCEPT !.forwarder = "rename"])
       ELSE SetPod(p, IF storage.bytes = pods[p].copy THEN Retained(p) ELSE Unretained(p))
    /\ UNCHANGED <<conf, rt, cluster, redis, storage, verdict, faults>>

\* The rename loses to a directory made in between; some file systems
\* report that as an error the code does not take for an existing directory.
CommitStaging(p) ==
    /\ pods[p].forwarder = "rename"
    /\ \/ /\ storage.bytes \in {None, "empty"} /\ UNCHANGED faults
          /\ storage' = [storage EXCEPT !.bytes = pods[p].copy] /\ SetPod(p, Retained(p))
       \/ /\ storage.bytes \in Contents /\ UNCHANGED <<storage, faults>>
          /\ \E seen \in BOOLEAN :
               SetPod(p, IF seen /\ storage.bytes = pods[p].copy THEN Retained(p) ELSE Unretained(p))
       \/ Fault /\ UNCHANGED storage /\ SetPod(p, Unretained(p))
    /\ UNCHANGED <<conf, rt, cluster, redis, verdict>>

ForwardResult(p) ==
    /\ pods[p].forwarder = "publish"
    /\ \/ /\ redis' = IF conf.mode = "retained" THEN [redis EXCEPT !.forwarded = pods[p].held]
                      ELSE [redis EXCEPT !.worker = pods[p].held]
          /\ SetPod(p, [pods[p] EXCEPT !.forwarder = "ok", !.held = None]) /\ UNCHANGED faults
       \/ Fault /\ SetPod(p, [pods[p] EXCEPT !.forwarder = "bad", !.held = None]) /\ UNCHANGED redis
    /\ UNCHANGED <<conf, rt, cluster, storage, verdict>>

-----------------------------------------------------------------------------
(* Kubernetes itself.                                                      *)

\* The first Pod of the Job, and rarely a second one.
StartPod(p) ==
    /\ Kubernetes /\ cluster.job = "active" /\ pods[p].worker = "none"
    /\ FaultIf(Started # {})
    /\ \/ SetPod(p, [pods[p] EXCEPT !.worker = "running", !.forwarder = "wait"])
       \/ SetPod(p, [pods[p] EXCEPT !.worker = "unpulled"])
    /\ UNCHANGED <<conf, rt, cluster, redis, storage, verdict>>

PodDown(p) == pods[p].worker \in Exited /\ pods[p].forwarder \in Exited

JobSucceeds ==
    /\ cluster.job = "active" /\ \E p \in Pods : pods[p].worker = "ok" /\ pods[p].forwarder = "ok"
    /\ cluster' = [cluster EXCEPT !.job = "succeeded"]
    /\ UNCHANGED <<conf, rt, pods, redis, storage, verdict, faults>>

\* A Pod went down with a failed container (backoffLimit is 0), or, at any
\* point, the Job passed its activeDeadlineSeconds.
JobFails ==
    /\ cluster.job = "active"
    /\ cluster' = [cluster EXCEPT !.job = "failed"]
    /\ UNCHANGED <<conf, rt, pods, redis, storage, verdict, faults>>

\* Pods of a Job that is over go down in the background; eviction may take
\* any other.  Its emptyDir volumes go with it.
PodKilled(p) ==
    /\ pods[p].worker # "none" /\ Kubernetes /\ ~PodDown(p)
    /\ FaultIf(cluster.job = "active")
    /\ SetPod(p, [pods[p] EXCEPT !.worker = IF @ \in Exited THEN @ ELSE "killed",
                                 !.forwarder = IF @ \in Exited THEN @ ELSE "killed",
                                 !.disk = None, !.file = None, !.held = None, !.copy = None])
    /\ UNCHANGED <<conf, rt, cluster, redis, storage, verdict>>

-----------------------------------------------------------------------------
(* Operators and validation.  A crash of the adapter's process needs no    *)
(* action: it is an adapter that takes no further step.                    *)

\* The kill routes; validation runs have no persisted Run or job to kill.
Killable == conf.purpose = "job" /\ rt.phase # "idle"

\* docker kill of the labelled container.
TerminateDocker ==
    /\ Killable /\ ~Kubernetes
    /\ Fault
    /\ \E p \in Pods : pods[p].worker = "running" /\ SetPod(p, [pods[p] EXCEPT !.worker = "killed"])
    /\ UNCHANGED <<conf, rt, cluster, redis, storage, verdict>>

\* Deletion of the labelled Job; its Pods follow in the background.
TerminateKubernetes ==
    /\ Killable /\ Kubernetes /\ cluster.job # "absent"
    /\ Fault
    /\ cluster' = [cluster EXCEPT !.job = "absent"]
    /\ UNCHANGED <<conf, rt, pods, redis, storage, verdict>>

\* Files named by persisted artifact metadata that resolve below the root.
Cleanable == rt.phase = "done" /\ conf.purpose = "job" /\ rt.result.art # None /\ storage.bytes \in Contents

\* /admin/artifacts/cleanup unlinks them and leaves the directory.
CleanArtifacts ==
    /\ Cleanable
    /\ storage' = [bytes |-> "empty", cleaned |-> TRUE]
    /\ UNCHANGED <<conf, rt, cluster, pods, redis, verdict, faults>>

\* _validate_one judges the result file, whatever the adapter returned.
DockerValid(p, strict) ==
    /\ pods[p].file \in Envelopes
    /\ pods[p].file.art # None => pods[p].disk # None
    /\ strict => pods[p].file.status = "success"

ValidateDocker ==
    /\ ~Kubernetes /\ conf.purpose = "validation" /\ rt.phase = "done" /\ verdict = None
    /\ \E strict \in BOOLEAN : verdict' = IF \E p \in Started : DockerValid(p, strict) THEN "ok" ELSE "failed"
    /\ UNCHANGED <<conf, rt, cluster, pods, redis, storage, faults>>

KubernetesValid(strict) == rt.phase = "done" /\ rt.valid /\ (strict => rt.result.status = "success")

\* Mutant: a failed cleanup does not change the verdict.
ValidateLeniently ==
    /\ Kubernetes /\ conf.purpose = "validation" /\ rt.phase \in {"done", "raised"} /\ verdict = None
    /\ \E strict \in BOOLEAN : verdict' = IF KubernetesValid(strict) THEN "ok" ELSE "failed"
    /\ \/ storage' = [storage EXCEPT !.bytes = None] /\ UNCHANGED faults
       \/ Fault /\ UNCHANGED storage
    /\ UNCHANGED <<conf, rt, cluster, pods, redis>>

\* The verdict, after the retained bytes of the validation run are removed.
ValidateKubernetes ==
    /\ Kubernetes /\ conf.purpose = "validation" /\ rt.phase \in {"done", "raised"} /\ verdict = None
    /\ \/ /\ storage' = [storage EXCEPT !.bytes = None] /\ UNCHANGED faults
          /\ \E strict \in BOOLEAN : verdict' = IF KubernetesValid(strict) THEN "ok" ELSE "failed"
       \/ Fault /\ conf.mode = "retained" /\ verdict' = "failed" /\ UNCHANGED storage
    /\ UNCHANGED <<conf, rt, cluster, pods, redis>>

-----------------------------------------------------------------------------
Init ==
    /\ conf \in [mode : Modes, purpose : {"job", "validation"}]
    /\ rt = [phase |-> "idle", result |-> None, valid |-> FALSE, created |-> FALSE, raised |-> FALSE, ended |-> None]
    /\ cluster = [config |-> FALSE, job |-> "absent", kept |-> {}]
    /\ pods = [p \in Pods |-> Idle]
    /\ redis = [worker |-> None, forwarded |-> None]
    /\ storage = [bytes |-> None, cleaned |-> FALSE]
    /\ verdict = None /\ faults = 0

RuntimeStep ==
    \/ Refuse \/ Begin \/ Launch \/ LaunchFails \/ DockerTimesOut \/ DockerExits \/ DockerLoad
    \/ CreateConfigMap \/ CreateJob \/ PollJob \/ WaitTimesOut \/ LoadAfterSuccess \/ LoadAfterFailure
    \/ RecordHeartbeats \/ CaptureDiagnostics \/ DeleteJob \/ DeleteConfigMap

PodStep(p) ==
    \/ \E c \in Contents : WorkerWrites(p, c)
    \/ WorkerReports(p) \/ WorkerPublishes(p) \/ WorkerExits(p)
    \/ LegacyForward(p) \/ WaitForResult(p) \/ ForwarderGivesUp(p) \/ CopyArtifacts(p)
    \/ CommitExisting(p) \/ CommitStaging(p) \/ ForwardResult(p) \/ StartPod(p) \/ PodKilled(p)

Next ==
    \/ RuntimeStep
    \/ \E p \in Pods : PodStep(p)
    \/ JobSucceeds \/ JobFails
    \/ TerminateDocker \/ TerminateKubernetes \/ CleanArtifacts
    \/ ValidateDocker \/ ValidateKubernetes

Spec == Init /\ [][Next]_vars

-----------------------------------------------------------------------------
Phases ==
    {"idle", "launch", "running", "load", "config", "create", "wait", "loadok", "loadbad",
     "observe", "diagnose", "deljob", "delconfig", "done", "raised"}

AdapterState ==
    [phase : Phases, result : Envelopes \cup {None}, valid : BOOLEAN, created : BOOLEAN,
     raised : BOOLEAN, ended : {None, "failed", "timed_out", "completed", "no_result"}]

PodState ==
    [worker : {"none", "running", "unpulled"} \cup Exited,
     disk : Contents \cup {None},
     file : Envelopes \cup {None, Partial},
     forwarder : {"none", "wait", "copy", "commit", "rename", "publish"} \cup Exited,
     held : Envelopes \cup {None},
     copy : Contents \cup {None}]

\* The adapter, the objects, the Pods, the keys and the directory keep their
\* shapes.
TypeOK ==
    /\ conf \in [mode : Modes, purpose : {"job", "validation"}]
    /\ rt \in AdapterState
    /\ cluster \in [config : BOOLEAN, job : {"absent", "active", "succeeded", "failed"},
                    kept : SUBSET {"job", "config"}]
    /\ pods \in [Pods -> PodState]
    /\ redis \in [worker : Envelopes \cup {None}, forwarded : Envelopes \cup {None}]
    /\ storage \in [bytes : Contents \cup {None, "empty"}, cleaned : BOOLEAN]
    /\ verdict \in {None, "ok", "failed"}

\* What a download of the Run's artifact serves.
Downloadable == storage.bytes = rt.result.art

\* With durable storage, artifact metadata a Run returns, successful or
\* failed, names bytes that are on the volume, until an operator cleans them.
ArtifactsAreDurable ==
    (conf.mode = "retained" /\ conf.purpose = "job" /\ rt.phase = "done" /\ rt.result.art # None)
    => Downloadable \/ storage.cleaned

\* However a Kubernetes run ends short of a crash, its Job and config map
\* are gone unless the call that deletes that very object failed.
ObjectsReleased ==
    (Kubernetes /\ rt.phase \in {"done", "raised"})
    => /\ cluster.job # "absent" => "job" \in cluster.kept
       /\ cluster.config => "config" \in cluster.kept

\* A success that a Kubernetes run returns comes from a worker that exited 0.
SuccessExitedCleanly ==
    (Kubernetes /\ rt.phase = "done" /\ rt.result.status = "success")
    => \E p \in Pods : pods[p].worker = "ok"

\* A passed validation leaves no bytes on the volume, unless Kubernetes ran
\* a second Pod behind the Job's back.
ValidationLeavesNothing ==
    (conf.mode = "retained" /\ verdict = "ok" /\ Cardinality(Started) = 1) => storage.bytes = None

=============================================================================
