-------------------------- MODULE WorkerRunProofs --------------------------
(***************************************************************************)
(* Proofs about WorkerRun, for any finite set of Pods, any artifact bytes,  *)
(* any of the runtimes and any number of faults.                            *)
(***************************************************************************)
EXTENDS WorkerRun, FiniteSetTheorems, TLAPS

-----------------------------------------------------------------------------
(* The inductive invariant *)

\* Only the Docker adapter is in a phase of its own, and a run that is over
\* has a result unless it raised.
Phased ==
    /\ rt.phase \in {"launch", "running", "load"} => ~Kubernetes
    /\ rt.phase \in {"observe", "diagnose", "deljob", "delconfig", "done"} => rt.result # None

\* Objects exist only between the phases that create and delete them.
Objects ==
    Kubernetes =>
        /\ rt.phase \in {"idle", "config"} => ~cluster.config
        /\ rt.phase \in {"idle", "config", "create"} => cluster.job = "absent"
        /\ rt.phase \in {"delconfig", "done", "raised"} /\ cluster.job # "absent" => "job" \in cluster.kept
        /\ rt.phase \in {"done", "raised"} /\ cluster.config => "config" \in cluster.kept

\* A Job that succeeded has a worker that exited 0, and so has a success read
\* from it.
Clean == \E p \in Pods : pods[p].worker = "ok"

Cleanly ==
    Kubernetes =>
        /\ cluster.job = "succeeded" => Clean
        /\ rt.phase = "loadok" => Clean
        /\ rt.result # None /\ rt.result.status = "success" => Clean

\* Metadata names the bytes that are kept, or an operator removed them.
Backed(e) == e # None /\ e.art # None => e.art = storage.bytes \/ storage.cleaned

Durable ==
    /\ storage.bytes = "empty" => storage.cleaned
    /\ conf.mode = "retained" /\ conf.purpose = "job" =>
          /\ \A p \in Pods : pods[p].forwarder = "publish" => Backed(pods[p].held)
          /\ Backed(redis.forwarded)
          /\ Backed(rt.result)

\* What was forwarded comes from a Pod whose forwarder ended well; bytes that
\* appear after a passed validation are another Pod's.
Forwarded == \E p \in Pods : pods[p].forwarder = "ok"

Two == \E p, q \in Started : p # q

Leaves ==
    /\ \A p \in Pods :
          /\ pods[p].worker = "none" => pods[p] = Idle
          /\ pods[p].forwarder \in {"copy", "commit", "rename", "publish"} => pods[p].held \in Envelopes
    /\ verdict # None => conf.purpose = "validation"
    /\ conf.mode = "retained" =>
          /\ redis.forwarded # None => Forwarded
          /\ rt.valid => Forwarded
          /\ verdict = "ok" => Forwarded /\ (storage.bytes = None \/ Two)

RunInv == TypeOK /\ Phased /\ Objects /\ Cleanly /\ Durable /\ Leaves

-----------------------------------------------------------------------------
(* Steps of the adapter *)

\* The envelopes the adapter makes itself.
LEMMA EnvelopeTypes ==
    /\ Failure \in Envelopes /\ Failure.status = "failed" /\ Failure.art = None
    /\ Partial \notin Envelopes
    /\ \A e \in Envelopes :
          /\ e.status \in {"success", "failed"} /\ e.art \in Contents \cup {None, Undeclared}
          /\ Envelope("failed", e.art) \in Envelopes
          /\ Envelope("failed", e.art).status = "failed"
          /\ Envelope("failed", e.art).art = e.art
  BY DEF Failure, Partial, Envelope, Envelopes

\* What the adapter may make of its result.
ResultMoves ==
    \/ rt'.result = rt.result
    \/ rt'.result = Failure
    \/ ~Kubernetes
    \/ \E e \in Envelopes : e = ResultKey /\ rt'.result = Envelope("failed", e.art)
    \/ rt.phase = "loadok" /\ ResultKey \in Envelopes /\ rt'.result = ResultKey

\* A step of the adapter that changes nothing but its own state and the
\* objects keeps the invariant if it keeps the order of creating and deleting,
\* takes successes from a Job that succeeded, and takes what it returns from
\* the key it reads.
LEMMA AdapterKeeps ==
    ASSUME RunInv, UNCHANGED <<conf, pods, redis, storage, verdict>>,
           rt' \in AdapterState,
           cluster' \in [config : BOOLEAN, job : {"absent", "active", "succeeded", "failed"},
                         kept : SUBSET {"job", "config"}],
           Phased', Objects',
           cluster'.job = "succeeded" => cluster.job = "succeeded",
           rt'.phase = "loadok" => cluster.job = "succeeded",
           ResultMoves,
           rt'.valid => rt.valid \/ ResultKey # None
    PROVE  RunInv'
<1>1. TypeOK'
  BY DEF RunInv, TypeOK
<1>2. Kubernetes' = Kubernetes /\ Clean' = Clean /\ Forwarded' = Forwarded /\ Two' = Two
  BY DEF Kubernetes, Clean, Forwarded, Two, Started
<1>3. rt.result # None /\ rt.result.status = "success" /\ Kubernetes => Clean
  BY DEF RunInv, Cleanly
<1>4. Cleanly'
  <2>1. ASSUME Kubernetes, rt'.result # None, rt'.result.status = "success"
        PROVE  Clean
    <3>1. CASE rt'.result = rt.result
      BY <1>3, <2>1, <3>1
    <3>2. CASE rt.phase = "loadok"
      BY <2>1, <3>2 DEF RunInv, Cleanly
    <3> QED BY <2>1, <3>1, <3>2, EnvelopeTypes DEF ResultMoves
  <2> QED BY <1>2, <2>1 DEF RunInv, Cleanly
<1>5. ASSUME conf.mode = "retained", conf.purpose = "job"
      PROVE  Backed(rt'.result)
  <2>1. ResultKey = redis.forwarded /\ Kubernetes
    BY <1>5 DEF ResultKey, Kubernetes
  <2>2. Backed(redis.forwarded) /\ Backed(rt.result)
    BY <1>5 DEF RunInv, Durable
  <2>3. CASE rt'.result = rt.result
    BY <2>2, <2>3
  <2>4. CASE rt'.result = Failure
    BY <2>4, EnvelopeTypes DEF Backed
  <2>5. ASSUME NEW e \in Envelopes, e = ResultKey, rt'.result = Envelope("failed", e.art)
        PROVE  Backed(rt'.result)
    <3>1. rt'.result.art = e.art
      BY <2>5, EnvelopeTypes
    <3> QED BY <2>1, <2>2, <2>5, <3>1, EnvelopeAssumption DEF Backed
  <2>6. CASE rt'.result = ResultKey
    BY <2>1, <2>2, <2>6
  <2> QED BY <2>1, <2>3, <2>4, <2>5, <2>6 DEF ResultMoves
<1>6. Durable'
  BY <1>5 DEF RunInv, Durable, Backed
<1>7. Leaves'
  BY <1>2 DEF RunInv, Leaves, ResultKey
<1> QED BY <1>1, <1>4, <1>6, <1>7 DEF RunInv

\* Docker's own phases, which Kubernetes is never in.
LEMMA DockerStep ==
    ASSUME RunInv,
           \/ Refuse \/ Begin \/ LaunchFails \/ DockerTimesOut \/ DockerExits \/ DockerLoad
    PROVE  RunInv'
<1> USE EnvelopeTypes, EnvelopeAssumption
<1>0. /\ rt \in AdapterState /\ Phased /\ Objects
      /\ cluster \in [config : BOOLEAN, job : {"absent", "active", "succeeded", "failed"},
                      kept : SUBSET {"job", "config"}]
  BY DEF RunInv, TypeOK
<1>1. ASSUME NEW n \in AdapterState, rt' = n,
             UNCHANGED <<conf, cluster, pods, redis, storage, verdict>>,
             n.valid = rt.valid, n.phase # "loadok",
             n.result = rt.result \/ n.result = Failure \/ ~Kubernetes,
             n.phase \in {"launch", "running", "load"} => ~Kubernetes,
             n.phase = "done" => n.result # None,
             n.phase \notin {"observe", "diagnose", "deljob", "delconfig", "create", "raised"},
             rt.phase = "idle" \/ ~Kubernetes
      PROVE  RunInv'
  <2>1. Phased'
    BY <1>1 DEF Phased, Kubernetes
  <2>2. Objects'
    BY <1>0, <1>1 DEF Objects, Kubernetes
  <2>3. ResultMoves
    BY <1>1 DEF ResultMoves
  <2> QED BY <1>0, <1>1, <2>1, <2>2, <2>3, AdapterKeeps
<1>2. CASE Refuse
  <2>1. PICK n : n = [rt EXCEPT !.phase = "done", !.result = Failure]
    OBVIOUS
  <2>2. n \in AdapterState /\ n.valid = rt.valid /\ n.phase = "done" /\ n.result = Failure
    BY <1>0, <2>1 DEF AdapterState, Phases
  <2> QED BY <1>1, <1>2, <2>1, <2>2 DEF Refuse
<1>3. CASE Begin
  <2>1. PICK n : n = [rt EXCEPT !.phase = IF Kubernetes THEN "config" ELSE "launch"]
    OBVIOUS
  <2>2. n \in AdapterState /\ n.valid = rt.valid /\ n.result = rt.result
        /\ n.phase = IF Kubernetes THEN "config" ELSE "launch"
    BY <1>0, <2>1 DEF AdapterState, Phases
  <2>3. n.phase \in {"config", "launch"} /\ (n.phase = "launch" => ~Kubernetes)
    BY <2>2
  <2>4. rt.phase = "idle" /\ rt' = n /\ UNCHANGED <<conf, cluster, pods, redis, storage, verdict>>
    BY <1>3, <2>1 DEF Begin
  <2> QED BY <1>1, <2>2, <2>3, <2>4
<1>4. CASE LaunchFails \/ DockerTimesOut
  <2>1. PICK d \in {"failed", "timed_out"} :
            rt' = [rt EXCEPT !.phase = "done", !.result = Failure, !.ended = d]
    BY <1>4 DEF LaunchFails, DockerTimesOut
  <2>2. PICK n : n = [rt EXCEPT !.phase = "done", !.result = Failure, !.ended = d]
    OBVIOUS
  <2>3. n \in AdapterState /\ n.valid = rt.valid /\ n.phase = "done" /\ n.result = Failure
    BY <1>0, <2>2 DEF AdapterState, Phases
  <2>4. ~Kubernetes
    BY <1>0, <1>4 DEF LaunchFails, DockerTimesOut, Phased
  <2> QED BY <1>1, <1>4, <2>1, <2>2, <2>3, <2>4 DEF LaunchFails, DockerTimesOut
<1>5. CASE DockerExits
  <2>1. PICK n : n = [rt EXCEPT !.phase = "load"]
    OBVIOUS
  <2>2. n \in AdapterState /\ n.valid = rt.valid /\ n.phase = "load" /\ n.result = rt.result
    BY <1>0, <2>1 DEF AdapterState, Phases
  <2>3. ~Kubernetes
    BY <1>0, <1>5 DEF DockerExits, Phased
  <2> QED BY <1>1, <1>5, <2>1, <2>2, <2>3 DEF DockerExits
<1>6. CASE DockerLoad
  <2>1. ASSUME NEW p \in Started, NEW reachable \in BOOLEAN,
               NEW e, e = DockerResult(p, reachable), e # None
        PROVE  e \in Envelopes
    BY <2>1 DEF RunInv, TypeOK, Started, PodState, DockerResult
  <2>2. PICK r, d : /\ r \in Envelopes
                    /\ d \in {"failed", "completed", "no_result"}
                    /\ rt' = [rt EXCEPT !.phase = "done", !.result = r, !.ended = d]
    <3>1. PICK p \in Started, reachable \in BOOLEAN :
              IF DockerResult(p, reachable) # None
              THEN \E over \in OverPolicy(DockerResult(p, reachable)) :
                      rt' = [rt EXCEPT !.phase = "done",
                                       !.result = IF over THEN Failure ELSE DockerResult(p, reachable),
                                       !.ended = IF over THEN "failed" ELSE "completed"]
              ELSE rt' = [rt EXCEPT !.phase = "done", !.result = Failure,
                                    !.ended = IF pods[p].worker = "ok" THEN "no_result" ELSE "failed"]
      BY <1>6 DEF DockerLoad
    <3>2. PICK e : e = DockerResult(p, reachable)
      OBVIOUS
    <3>3. CASE e # None
      <4>1. e \in Envelopes
        BY <2>1, <3>2, <3>3
      <4>2. PICK over \in OverPolicy(e) :
                rt' = [rt EXCEPT !.phase = "done", !.result = IF over THEN Failure ELSE e,
                                 !.ended = IF over THEN "failed" ELSE "completed"]
        BY <3>1, <3>2, <3>3
      <4> QED BY <4>1, <4>2
    <3>4. CASE e = None
      BY <3>1, <3>2, <3>4
    <3> QED BY <3>3, <3>4
  <2>3. PICK n : n = [rt EXCEPT !.phase = "done", !.result = r, !.ended = d]
    OBVIOUS
  <2>4. n \in AdapterState /\ n.valid = rt.valid /\ n.phase = "done" /\ n.result = r
    BY <1>0, <2>2, <2>3 DEF AdapterState, Phases
  <2>5. ~Kubernetes
    BY <1>0, <1>6 DEF DockerLoad, Phased
  <2>6. rt' = n /\ r # None /\ UNCHANGED <<conf, cluster, pods, redis, storage, verdict>>
    BY <1>6, <2>2, <2>3 DEF DockerLoad
  <2> QED BY <1>1, <2>4, <2>5, <2>6
<1> QED BY <1>2, <1>3, <1>4, <1>5, <1>6

\* The Kubernetes adapter: objects are created in order, whatever happened
\* they are deleted in order, and what is announced was read in between.
LEMMA KubernetesStep ==
    ASSUME RunInv,
           \/ CreateConfigMap \/ CreateJob \/ PollJob \/ WaitTimesOut \/ LoadAfterSuccess
           \/ LoadAfterFailure \/ RecordHeartbeats \/ CaptureDiagnostics \/ DeleteJob
           \/ DeleteConfigMap
    PROVE  RunInv'
<1> USE EnvelopeTypes, EnvelopeAssumption
<1> DEFINE Clusters == [config : BOOLEAN, job : {"absent", "active", "succeeded", "failed"},
                        kept : SUBSET {"job", "config"}]
<1>0. rt \in AdapterState /\ cluster \in Clusters /\ Phased /\ Objects
  BY DEF RunInv, TypeOK
<1>1. ASSUME NEW n \in AdapterState, NEW c \in Clusters, rt' = n, cluster' = c,
             UNCHANGED <<conf, pods, redis, storage, verdict>>,
             n.phase \notin {"idle", "config", "launch", "running", "load"},
             n.phase \in {"observe", "diagnose", "deljob", "delconfig", "done"} => n.result # None,
             c.job = "succeeded" => cluster.job = "succeeded",
             n.phase = "loadok" => cluster.job = "succeeded",
             Kubernetes => /\ n.phase = "create" => c.job = "absent"
                           /\ n.phase \in {"delconfig", "done", "raised"} /\ c.job # "absent" =>
                                 "job" \in c.kept
                           /\ n.phase \in {"done", "raised"} /\ c.config => "config" \in c.kept,
             ResultMoves,
             n.valid => rt.valid \/ ResultKey # None
      PROVE  RunInv'
  <2>1. Phased'
    BY <1>1 DEF Phased, Kubernetes
  <2>2. Objects'
    BY <1>1 DEF Objects, Kubernetes
  <2> QED BY <1>1, <2>1, <2>2, AdapterKeeps
<1>2. CASE GivesUp /\ cluster' \in Clusters /\ UNCHANGED <<conf, pods, redis, storage, verdict>>
           /\ (cluster'.job = "succeeded" => cluster.job = "succeeded")
  <2>1. PICK n : n = [rt EXCEPT !.phase = "observe", !.result = Failure]
    OBVIOUS
  <2>2. n \in AdapterState /\ n.valid = rt.valid /\ n.phase = "observe" /\ n.result = Failure
    BY <1>0, <2>1 DEF AdapterState, Phases
  <2>3. PICK c \in Clusters : c = cluster'
    BY <1>2
  <2>4. rt' = n
    BY <1>2, <2>1 DEF GivesUp
  <2>5. ResultMoves
    BY <2>2, <2>4 DEF ResultMoves
  <2> HIDE DEF Clusters
  <2> QED BY <1>1, <1>2, <2>2, <2>3, <2>4, <2>5
<1>3. ASSUME NEW ph \in Phases, NEW v \in BOOLEAN, NEW c \in Clusters, cluster' = c,
             rt' = [rt EXCEPT !.phase = ph, !.created = v] \/ rt' = [rt EXCEPT !.phase = ph],
             UNCHANGED <<conf, pods, redis, storage, verdict>>,
             ph \in {"create", "wait", "loadok", "loadbad", "delconfig", "diagnose", "deljob"},
             ph = "create" => c.job = "absent",
             ph = "delconfig" /\ c.job # "absent" => "job" \in c.kept,
             ph \in {"delconfig", "diagnose", "deljob"} => rt.result # None,
             c.job = "succeeded" => cluster.job = "succeeded",
             ph = "loadok" => cluster.job = "succeeded"
      PROVE  RunInv'
  <2>1. PICK n : n = rt'
    OBVIOUS
  <2>2. n \in AdapterState /\ n.valid = rt.valid /\ n.phase = ph /\ n.result = rt.result
    BY <1>0, <1>3, <2>1, ZenonT(40) DEF AdapterState
  <2>3. ResultMoves
    BY <2>1, <2>2 DEF ResultMoves
  <2> HIDE DEF Clusters
  <2> QED BY <1>1, <1>3, <2>1, <2>2, <2>3
<1>4. CASE CreateConfigMap
  <2>1. rt.phase = "config" /\ UNCHANGED <<conf, pods, redis, storage, verdict>>
    BY <1>4 DEF CreateConfigMap
  <2>2. ASSUME NEW b \in BOOLEAN, cluster' = [cluster EXCEPT !.config = b]
        PROVE  cluster' \in Clusters /\ cluster'.job = cluster.job
    BY <1>0, <2>2
  <2>3. CASE rt' = [rt EXCEPT !.phase = "create"] /\ cluster' = [cluster EXCEPT !.config = TRUE]
    <3>1. cluster.job = "absent" \/ ~Kubernetes
      BY <1>0, <2>1 DEF Objects
    <3>2. PICK n : n = [rt EXCEPT !.phase = "create"]
      OBVIOUS
    <3>3. n \in AdapterState /\ n.valid = rt.valid /\ n.phase = "create" /\ n.result = rt.result
      BY <1>0, <3>2 DEF AdapterState, Phases
    <3>4. PICK c \in Clusters : c = cluster' /\ c.job = cluster.job
      BY <2>2, <2>3
    <3>5. ResultMoves
      BY <2>3, <3>2, <3>3 DEF ResultMoves
    <3>6. rt' = n /\ cluster' = c /\ UNCHANGED <<conf, pods, redis, storage, verdict>>
      BY <2>1, <2>3, <3>2, <3>4
    <3>7. Kubernetes => c.job = "absent"
      BY <3>1, <3>4
    <3>8. (c.job = "succeeded" => cluster.job = "succeeded") /\ (n.valid => rt.valid)
      BY <3>3, <3>4
    <3>9. n.phase \notin {"idle", "config", "launch", "running", "load", "loadok", "observe",
                         "diagnose", "deljob", "delconfig", "done", "raised"}
      BY <3>3
    <3> HIDE DEF Clusters
    <3> QED BY <1>1, <3>3, <3>5, <3>6, <3>7, <3>8, <3>9
  <2>4. CASE GivesUp /\ \E there \in BOOLEAN : cluster' = [cluster EXCEPT !.config = there]
    BY <1>2, <2>1, <2>2, <2>4
  <2> QED BY <1>4, <2>3, <2>4 DEF CreateConfigMap, GivesUp
<1>5. CASE CreateJob
  <2>1. rt.phase = "create" /\ UNCHANGED <<conf, pods, redis, storage, verdict>>
    BY <1>5 DEF CreateJob
  <2>2. ASSUME NEW job \in {"absent", "active"}, cluster' = [cluster EXCEPT !.job = job]
        PROVE  cluster' \in Clusters /\ cluster'.job # "succeeded"
    BY <1>0, <2>2
  <2>3. CASE /\ rt' = [rt EXCEPT !.phase = "wait", !.created = TRUE]
             /\ cluster' = [cluster EXCEPT !.job = "active"]
    <3>1. PICK c \in Clusters : c = cluster' /\ c.job # "succeeded"
      BY <2>2, <2>3
    <3>2. "wait" \in Phases
      BY DEF Phases
    <3> HIDE DEF Clusters
    <3> QED BY <1>3, <2>1, <2>3, <3>1, <3>2
  <2>4. CASE GivesUp /\ \E job \in {"absent", "active"} : cluster' = [cluster EXCEPT !.job = job]
    BY <1>2, <2>1, <2>2, <2>4
  <2> QED BY <1>5, <2>3, <2>4 DEF CreateJob, GivesUp
<1>6. CASE PollJob \/ WaitTimesOut
  <2>1. UNCHANGED <<conf, cluster, pods, redis, storage, verdict>>
    BY <1>6 DEF PollJob, WaitTimesOut
  <2>2. CASE GivesUp
    BY <1>0, <1>2, <2>1, <2>2
  <2>3. CASE cluster.job = "succeeded" /\ rt' = [rt EXCEPT !.phase = "loadok"]
    <3>1. "loadok" \in Phases
      BY DEF Phases
    <3> HIDE DEF Clusters
    <3> QED BY <1>0, <1>3, <2>1, <2>3, <3>1
  <2>4. CASE cluster.job = "failed" /\ rt' = [rt EXCEPT !.phase = "loadbad"]
    <3>1. "loadbad" \in Phases
      BY DEF Phases
    <3> HIDE DEF Clusters
    <3> QED BY <1>0, <1>3, <2>1, <2>4, <3>1
  <2> QED BY <1>6, <2>2, <2>3, <2>4 DEF PollJob, WaitTimesOut
<1>7. CASE LoadAfterSuccess \/ LoadAfterFailure
  <2>1. UNCHANGED <<conf, cluster, pods, redis, storage, verdict>>
    BY <1>7 DEF LoadAfterSuccess, LoadAfterFailure
  <2>2. ResultKey \in Envelopes \cup {None}
    BY DEF ResultKey, RunInv, TypeOK
  <2>3. PICK r, v : /\ r \in Envelopes
                    /\ v \in BOOLEAN
                    /\ v => ResultKey # None
                    /\ rt' = [rt EXCEPT !.phase = "observe", !.valid = v, !.result = r]
                    /\ \/ r = Failure
                       \/ ResultKey \in Envelopes /\ r = Envelope("failed", ResultKey.art)
                       \/ rt.phase = "loadok" /\ ResultKey \in Envelopes /\ r = ResultKey
    <3>1. CASE LoadAfterSuccess
      BY <2>2, <3>1 DEF LoadAfterSuccess, LoadedResult
    <3>2. CASE LoadAfterFailure
      BY <2>2, <3>2 DEF LoadAfterFailure, LoadedResult
    <3> QED BY <1>7, <3>1, <3>2
  <2>4. PICK n : n = rt'
    OBVIOUS
  <2>5. n \in AdapterState /\ n.valid = v /\ n.phase = "observe" /\ n.result = r
    BY <1>0, <2>3, <2>4 DEF AdapterState, Phases
  <2>6. ResultMoves
    BY <2>3, <2>4, <2>5 DEF ResultMoves
  <2> HIDE DEF Clusters
  <2> QED BY <1>0, <1>1, <2>1, <2>3, <2>4, <2>5, <2>6, ZenonT(40)
<1>8. CASE RecordHeartbeats \/ CaptureDiagnostics
  <2>1. UNCHANGED <<conf, cluster, pods, redis, storage, verdict>> /\ rt.result # None
    BY <1>0, <1>8 DEF RecordHeartbeats, CaptureDiagnostics, Phased
  <2>2. PICK n : n = rt'
    OBVIOUS
  <2>3. n \in AdapterState /\ n.valid = rt.valid /\ n.phase \in {"diagnose", "deljob"}
        /\ n.result = rt.result
    BY <1>0, <1>8, <2>2, ZenonT(40) DEF RecordHeartbeats, CaptureDiagnostics, AdapterState, Phases
  <2>4. ResultMoves
    BY <2>2, <2>3 DEF ResultMoves
  <2> HIDE DEF Clusters
  <2> QED BY <1>0, <1>1, <2>1, <2>2, <2>3, <2>4
<1>9. CASE DeleteJob
  <2>1. UNCHANGED <<conf, pods, redis, storage, verdict>> /\ rt.result # None
        /\ rt' = [rt EXCEPT !.phase = "delconfig"]
    BY <1>0, <1>9 DEF DeleteJob, Phased
  <2>2. PICK c \in Clusters :
            /\ c = cluster'
            /\ c.job # "absent" => "job" \in c.kept
            /\ c.job = "succeeded" => cluster.job = "succeeded"
    BY <1>0, <1>9 DEF DeleteJob
  <2>3. "delconfig" \in Phases
    BY DEF Phases
  <2> HIDE DEF Clusters
  <2> QED BY <1>3, <2>1, <2>2, <2>3
<1>10. CASE DeleteConfigMap
  <2>1. UNCHANGED <<conf, pods, redis, storage, verdict>> /\ rt.result # None
        /\ rt.phase = "delconfig"
    BY <1>0, <1>10 DEF DeleteConfigMap, Phased
  <2>2. PICK n : n = rt'
    OBVIOUS
  <2>3. n \in AdapterState /\ n.valid = rt.valid /\ n.phase \in {"done", "raised"}
        /\ n.result = rt.result
    <3>1. CASE rt' = [rt EXCEPT !.phase = "raised"]
      BY <1>0, <2>2, <3>1 DEF AdapterState, Phases
    <3>2. ASSUME NEW d \in {"completed", "failed"},
                 rt' = [rt EXCEPT !.phase = "done", !.ended = d]
          PROVE  n \in AdapterState /\ n.valid = rt.valid /\ n.phase \in {"done", "raised"}
                 /\ n.result = rt.result
      BY <1>0, <2>2, <3>2 DEF AdapterState, Phases
    <3>3. CASE rt.raised
      BY <1>10, <3>1, <3>3 DEF DeleteConfigMap, Announce
    <3>4. CASE ~rt.raised
      BY <1>10, <3>2, <3>4 DEF DeleteConfigMap, Announce
    <3> QED BY <3>3, <3>4
  <2>4. PICK c \in Clusters :
            /\ c = cluster' /\ c.job = cluster.job
            /\ c.config => "config" \in c.kept
            /\ "job" \in cluster.kept => "job" \in c.kept
    BY <1>0, <1>10, ZenonT(40) DEF DeleteConfigMap
  <2>5. Kubernetes /\ c.job # "absent" => "job" \in c.kept
    BY <1>0, <2>1, <2>4 DEF Objects
  <2>6. ResultMoves
    BY <2>2, <2>3 DEF ResultMoves
  <2> HIDE DEF Clusters
  <2> QED BY <1>1, <2>1, <2>2, <2>3, <2>4, <2>5, <2>6
<1> QED BY <1>4, <1>5, <1>6, <1>7, <1>8, <1>9, <1>10

-----------------------------------------------------------------------------
(* Steps of the Pods *)

Holding == {"copy", "commit", "rename", "publish"}

\* What a step may make of a Pod that has been started.
PodMoves(o, n) ==
    /\ n \in PodState
    /\ n.worker # "none"
    /\ o.worker = "ok" => n.worker = "ok"
    /\ o.forwarder = "ok" => n.forwarder = "ok"
    /\ n.forwarder \in Holding => n.held \in Envelopes

\* Exits, ended forwarders and started Pods stay.
LEMMA PodStays ==
    ASSUME TypeOK, NEW p \in Pods, NEW n, SetPod(p, n), PodMoves(pods[p], n)
    PROVE  /\ pods' \in [Pods -> PodState]
           /\ pods'[p] = n
           /\ \A q \in Pods : q # p => pods'[q] = pods[q]
           /\ Clean => Clean'
           /\ Forwarded => Forwarded'
           /\ Two => Two'
<1>1. /\ pods' \in [Pods -> PodState] /\ pods'[p] = n
      /\ \A q \in Pods : q # p => pods'[q] = pods[q]
  BY DEF TypeOK, SetPod, PodMoves
<1>2. \A q \in Pods : /\ pods[q].worker = "ok" => pods'[q].worker = "ok"
                      /\ pods[q].forwarder = "ok" => pods'[q].forwarder = "ok"
                      /\ pods[q].worker # "none" => pods'[q].worker # "none"
  BY <1>1 DEF PodMoves
<1>3. Started \subseteq Started'
  BY <1>2 DEF Started
<1>4. Two => Two'
  BY <1>3 DEF Two
<1> QED BY <1>1, <1>2, <1>4 DEF Clean, Forwarded

\* A step of a Pod's worker or of Kubernetes that writes no key and no bytes.
LEMMA PodKeeps ==
    ASSUME RunInv, NEW p \in Pods, NEW n, SetPod(p, n), PodMoves(pods[p], n),
           UNCHANGED <<conf, rt, cluster, redis, storage, verdict>>,
           conf.mode = "retained" /\ n.forwarder = "publish" =>
               \/ pods[p].forwarder = "publish" /\ n.held = pods[p].held
               \/ n.held.art = None
               \/ n.held.art = storage.bytes
    PROVE  RunInv'
<1>1. /\ pods' \in [Pods -> PodState] /\ pods'[p] = n
      /\ \A q \in Pods : q # p => pods'[q] = pods[q]
      /\ (Clean => Clean') /\ (Forwarded => Forwarded') /\ (Two => Two')
  BY PodStays DEF RunInv
<1>2. TypeOK'
  BY <1>1 DEF RunInv, TypeOK
<1>3. Phased' /\ Objects'
  BY DEF RunInv, Phased, Objects, Kubernetes
<1>4. Cleanly'
  BY <1>1 DEF RunInv, Cleanly, Kubernetes
<1>5. ASSUME conf.mode = "retained", conf.purpose = "job", NEW q \in Pods,
             pods'[q].forwarder = "publish"
      PROVE  Backed(pods'[q].held)
  <2>1. \A r \in Pods : pods[r].forwarder = "publish" => Backed(pods[r].held)
    BY <1>5 DEF RunInv, Durable
  <2> QED BY <1>1, <1>5, <2>1 DEF Backed
<1>6. Durable'
  BY <1>5 DEF RunInv, Durable, Backed
<1>7. Leaves'
  BY <1>1 DEF RunInv, Leaves, PodMoves, Holding
<1> QED BY <1>2, <1>3, <1>4, <1>6, <1>7 DEF RunInv

\* A Pod that does something has been started, and holds what its phase says.
LEMMA PodFacts ==
    ASSUME RunInv, NEW p \in Pods, NEW o, o = pods[p]
    PROVE  /\ o \in PodState
           /\ o.worker = "none" => o.forwarder = "none"
           /\ o.forwarder \in Holding => o.held \in Envelopes
  BY DEF RunInv, TypeOK, Leaves, Idle, Holding

\* The worker container.
LEMMA WorkerStep ==
    ASSUME RunInv, NEW p \in Pods,
           \/ \E c \in Contents : WorkerWrites(p, c)
           \/ WorkerReports(p) \/ WorkerExits(p)
    PROVE  RunInv'
<1> USE EnvelopeTypes
<1>0. PICK o : o = pods[p]
  OBVIOUS
<1>1. o \in PodState /\ o.worker = "running" /\ (o.forwarder \in Holding => o.held \in Envelopes)
  BY <1>0, PodFacts DEF WorkerWrites, WorkerReports, WorkerExits
<1>2. ASSUME NEW n \in PodState, SetPod(p, n), n.forwarder = o.forwarder, n.held = o.held,
             n.worker # "none", UNCHANGED <<conf, rt, cluster, redis, storage, verdict>>
      PROVE  RunInv'
  <2>1. PodMoves(o, n)
    BY <1>1, <1>2 DEF PodMoves
  <2> QED BY <1>0, <1>2, <2>1, PodKeeps
<1>3. ASSUME NEW c \in Contents, WorkerWrites(p, c)
      PROVE  RunInv'
  <2>1. PICK n : n = [o EXCEPT !.disk = c]
    OBVIOUS
  <2>2. n \in PodState /\ n.forwarder = o.forwarder /\ n.held = o.held /\ n.worker = o.worker
    BY <1>1, <2>1 DEF PodState
  <2> QED BY <1>0, <1>1, <1>2, <1>3, <2>1, <2>2 DEF WorkerWrites
<1>4. ASSUME NEW e \in Envelopes \cup {Partial}, SetPod(p, [pods[p] EXCEPT !.file = e]),
             UNCHANGED <<conf, rt, cluster, redis, storage, verdict>>
      PROVE  RunInv'
  <2>1. PICK n : n = [o EXCEPT !.file = e]
    OBVIOUS
  <2>2. n \in PodState /\ n.forwarder = o.forwarder /\ n.held = o.held /\ n.worker = o.worker
    BY <1>1, <2>1 DEF PodState
  <2> QED BY <1>0, <1>1, <1>2, <1>4, <2>1, <2>2
<1>5. CASE WorkerReports(p)
  <2>1. \A s \in {"success", "failed"}, a \in {None, Undeclared, pods[p].disk} :
            Envelope(s, a) \in Envelopes
    BY <1>0, <1>1 DEF PodState, Envelope, Envelopes
  <2> QED BY <1>4, <1>5, <2>1 DEF WorkerReports
<1>6. CASE WorkerExits(p)
  <2>1. PICK code \in {"ok", "bad"} : SetPod(p, [pods[p] EXCEPT !.worker = code])
    BY <1>6 DEF WorkerExits
  <2>2. PICK n : n = [o EXCEPT !.worker = code]
    OBVIOUS
  <2>3. n \in PodState /\ n.forwarder = o.forwarder /\ n.held = o.held /\ n.worker = code
    BY <1>1, <2>2 DEF PodState, Exited
  <2> QED BY <1>0, <1>2, <1>6, <2>1, <2>2, <2>3 DEF WorkerExits
<1> QED BY <1>3, <1>5, <1>6

\* Starting and killing Pods.
LEMMA ClusterPodStep ==
    ASSUME RunInv, NEW p \in Pods, StartPod(p) \/ PodKilled(p)
    PROVE  RunInv'
<1>0. PICK o : o = pods[p]
  OBVIOUS
<1>1. o \in PodState /\ (o.worker = "none" => o.forwarder = "none")
  BY <1>0, PodFacts
<1>2. UNCHANGED <<conf, rt, cluster, redis, storage, verdict>>
  BY DEF StartPod, PodKilled
<1>3. ASSUME NEW n \in PodState, SetPod(p, n), n.worker # "none", n.forwarder \notin Holding,
             o.worker = "ok" => n.worker = "ok", o.forwarder = "ok" => n.forwarder = "ok"
      PROVE  RunInv'
  <2>1. PodMoves(o, n) /\ n.forwarder # "publish"
    BY <1>3 DEF PodMoves, Holding
  <2> QED BY <1>0, <1>2, <1>3, <2>1, PodKeeps
<1>4. CASE StartPod(p)
  <2>1. o.worker = "none" /\ o.forwarder = "none"
    BY <1>0, <1>1, <1>4 DEF StartPod
  <2>2. PICK n : /\ SetPod(p, n)
                 /\ \/ n = [o EXCEPT !.worker = "running", !.forwarder = "wait"]
                    \/ n = [o EXCEPT !.worker = "unpulled"]
    BY <1>0, <1>4 DEF StartPod
  <2>3. n \in PodState /\ n.worker # "none" /\ n.forwarder \notin Holding
    BY <1>1, <2>1, <2>2 DEF PodState, Holding
  <2> QED BY <1>3, <2>1, <2>2, <2>3
<1>5. CASE PodKilled(p)
  <2>1. PICK w, f : /\ w = IF o.worker \in Exited THEN o.worker ELSE "killed"
                    /\ f = IF o.forwarder \in Exited THEN o.forwarder ELSE "killed"
    OBVIOUS
  <2>2. PICK n : n = [o EXCEPT !.worker = w, !.forwarder = f, !.disk = None, !.file = None,
                               !.held = None, !.copy = None]
    OBVIOUS
  <2>3. SetPod(p, n)
    BY <1>0, <1>5, <2>1, <2>2 DEF PodKilled
  <2>4. w \in Exited /\ f \in Exited /\ (o.worker = "ok" => w = "ok")
        /\ (o.forwarder = "ok" => f = "ok")
    BY <2>1 DEF Exited
  <2>5. n \in PodState /\ n.worker = w /\ n.forwarder = f
    BY <1>1, <2>2, <2>4 DEF PodState
  <2>6. w # "none" /\ f \notin Holding
    BY <2>4 DEF Exited, Holding
  <2> QED BY <1>3, <2>3, <2>4, <2>5, <2>6
<1> QED BY <1>4, <1>5

\* The forwarder, up to the rename.
LEMMA ForwarderStep ==
    ASSUME RunInv, NEW p \in Pods,
           \/ LegacyForward(p) \/ WaitForResult(p) \/ ForwarderGivesUp(p) \/ CopyArtifacts(p)
           \/ CommitExisting(p)
    PROVE  RunInv'
<1> USE EnvelopeTypes
<1>0. PICK o : o = pods[p]
  OBVIOUS
<1>1. /\ o \in PodState /\ o.worker # "none" /\ o.forwarder # "ok"
      /\ o.forwarder \in Holding => o.held \in Envelopes
  <2>1. o.forwarder \in {"wait", "copy", "commit"}
    BY <1>0 DEF LegacyForward, WaitForResult, ForwarderGivesUp, CopyArtifacts, CommitExisting
  <2> QED BY <1>0, <2>1, PodFacts
<1>2. UNCHANGED <<conf, rt, cluster, redis, storage, verdict>>
  BY DEF LegacyForward, WaitForResult, ForwarderGivesUp, CopyArtifacts, CommitExisting
<1>3. ASSUME NEW n \in PodState, SetPod(p, n), n.worker = o.worker,
             n.forwarder \in Holding => n.held \in Envelopes,
             conf.mode = "retained" /\ n.forwarder = "publish" =>
                 n.held.art = None \/ n.held.art = storage.bytes
      PROVE  RunInv'
  <2>1. PodMoves(o, n)
    BY <1>1, <1>3 DEF PodMoves
  <2> QED BY <1>0, <1>2, <1>3, <2>1, PodKeeps
<1>4. ASSUME NEW f \in {"bad", "rename"}, SetPod(p, [pods[p] EXCEPT !.forwarder = f]),
             o.forwarder \in Holding \/ f = "bad"
      PROVE  RunInv'
  <2>1. PICK n : n = [o EXCEPT !.forwarder = f]
    OBVIOUS
  <2>2. n \in PodState /\ n.worker = o.worker /\ n.forwarder = f /\ n.held = o.held
    BY <1>1, <2>1 DEF PodState, Exited
  <2>3. n.forwarder \in Holding => n.held \in Envelopes
    BY <1>1, <1>4, <2>2 DEF Holding
  <2> QED BY <1>0, <1>3, <1>4, <2>1, <2>2, <2>3
<1>5. ASSUME NEW f \in {"publish", "copy"}, NEW e \in Envelopes,
             SetPod(p, [pods[p] EXCEPT !.forwarder = f, !.held = e]),
             f = "publish" => e.art = None
      PROVE  RunInv'
  <2>1. PICK n : n = [o EXCEPT !.forwarder = f, !.held = e]
    OBVIOUS
  <2>2. n \in PodState /\ n.worker = o.worker /\ n.forwarder = f /\ n.held = e
    BY <1>1, <2>1 DEF PodState
  <2> QED BY <1>0, <1>3, <1>5, <2>1, <2>2
<1>6. CASE LegacyForward(p)
  <2>1. o.file # Partial => o.file \in Envelopes
    BY <1>0, <1>1, <1>6 DEF LegacyForward, PodState
  <2>2. CASE o.file = Partial
    BY <1>0, <1>4, <1>6, <2>2 DEF LegacyForward
  <2>3. CASE o.file # Partial
    <3>1. PICK e : e = WithoutArtifacts(o.file)
      OBVIOUS
    <3>2. e \in Envelopes /\ e.art = None
      BY <2>1, <2>3, <3>1 DEF WithoutArtifacts
    <3>3. SetPod(p, [pods[p] EXCEPT !.forwarder = "publish", !.held = e])
      BY <1>0, <1>6, <2>3, <3>1 DEF LegacyForward
    <3> QED BY <1>5, <3>2, <3>3
  <2> QED BY <2>2, <2>3
<1>7. CASE WaitForResult(p)
  <2>1. o.file \in Envelopes
    BY <1>0, <1>7 DEF WaitForResult
  <2>2. PICK f : f = IF o.file.art = None THEN "publish" ELSE "copy"
    OBVIOUS
  <2>3. SetPod(p, [pods[p] EXCEPT !.forwarder = f, !.held = o.file])
    BY <1>0, <1>7, <2>2 DEF WaitForResult
  <2> QED BY <1>5, <2>1, <2>2, <2>3
<1>8. CASE ForwarderGivesUp(p)
  BY <1>4, <1>8 DEF ForwarderGivesUp
<1>9. ASSUME SetPod(p, Unretained(p))
      PROVE  RunInv'
  <2>1. PICK n : n = [o EXCEPT !.forwarder = "publish", !.held = Failure, !.copy = None]
    OBVIOUS
  <2>2. n \in PodState /\ n.worker = o.worker /\ n.forwarder = "publish" /\ n.held = Failure
    BY <1>1, <2>1 DEF PodState
  <2>3. SetPod(p, n)
    BY <1>0, <1>9, <2>1 DEF Unretained
  <2> QED BY <1>3, <2>2, <2>3
<1>10. CASE CopyArtifacts(p)
  <2>1. CASE SetPod(p, [pods[p] EXCEPT !.forwarder = "commit", !.copy = pods[p].disk])
    <3>1. PICK n : n = [o EXCEPT !.forwarder = "commit", !.copy = o.disk]
      OBVIOUS
    <3>2. n \in PodState /\ n.worker = o.worker /\ n.forwarder = "commit" /\ n.held = o.held
      BY <1>1, <3>1 DEF PodState
    <3>3. o.held \in Envelopes
      BY <1>0, <1>1, <1>10 DEF CopyArtifacts, Holding
    <3> QED BY <1>0, <1>3, <2>1, <3>1, <3>2, <3>3
  <2> QED BY <1>9, <1>10, <2>1 DEF CopyArtifacts
<1>11. CASE CommitExisting(p)
  <2>1. o.forwarder = "commit" /\ o.held \in Envelopes
    BY <1>0, <1>1, <1>11 DEF CommitExisting, Holding
  <2>2. CASE storage.bytes = None
    BY <1>4, <1>11, <2>1, <2>2 DEF CommitExisting, Holding
  <2>3. CASE storage.bytes # None /\ storage.bytes = o.copy
    <3>1. PICK e : e = Envelope(o.held.status, o.copy)
      OBVIOUS
    <3>2. e \in Envelopes /\ e.art = o.copy
      BY <1>1, <2>1, <3>1 DEF Envelope, Envelopes, PodState
    <3>3. PICK n : n = [o EXCEPT !.forwarder = "publish", !.copy = None, !.held = e]
      OBVIOUS
    <3>4. n \in PodState /\ n.worker = o.worker /\ n.forwarder = "publish" /\ n.held = e
      BY <1>1, <3>2, <3>3 DEF PodState
    <3>5. SetPod(p, n)
      BY <1>0, <1>11, <2>3, <3>1, <3>3 DEF CommitExisting, Retained
    <3> QED BY <1>3, <2>3, <3>2, <3>4, <3>5
  <2>4. CASE storage.bytes # None /\ storage.bytes # o.copy
    BY <1>0, <1>9, <1>11, <2>4 DEF CommitExisting
  <2> QED BY <2>2, <2>3, <2>4
<1> QED BY <1>6, <1>7, <1>8, <1>10, <1>11

\* Bytes that metadata names are not written over.
LEMMA BytesStay ==
    ASSUME RunInv, storage.bytes \in {None, "empty"}, storage'.cleaned = storage.cleaned,
           NEW e \in Envelopes \cup {None}, Backed(e)
    PROVE  e # None /\ e.art # None => storage'.cleaned
<1>1. storage.bytes = "empty" => storage.cleaned
  BY DEF RunInv, Durable
<1>2. e # None => e.art \in Contents \cup {None, Undeclared}
  BY EnvelopeTypes
<1>3. e # None => e.art # "empty"
  BY <1>2, NoneAssumption
<1> QED BY <1>1, <1>3 DEF Backed

\* The rename, which is the only step that writes bytes.
LEMMA CommitStep ==
    ASSUME RunInv, NEW p \in Pods, CommitStaging(p)
    PROVE  RunInv'
<1> USE EnvelopeTypes
<1>0. PICK o : o = pods[p]
  OBVIOUS
<1>1. /\ o \in PodState /\ o.worker # "none" /\ o.forwarder = "rename"
      /\ o.held \in Envelopes
  BY <1>0, PodFacts DEF CommitStaging, Holding
<1>2. UNCHANGED <<conf, rt, cluster, redis, verdict>>
  BY DEF CommitStaging
<1>3. PICK e : e = Envelope(o.held.status, o.copy)
  OBVIOUS
<1>4. e \in Envelopes /\ e.art = o.copy
  BY <1>1, <1>3 DEF Envelope, Envelopes, PodState
<1>5. PICK n : n = [o EXCEPT !.forwarder = "publish", !.copy = None, !.held = e]
  OBVIOUS
<1>6. n \in PodState /\ n.worker = o.worker /\ n.forwarder = "publish" /\ n.held = e
  BY <1>1, <1>4, <1>5 DEF PodState
<1>7. n = Retained(p)
  BY <1>0, <1>3, <1>5 DEF Retained
<1>8. PodMoves(o, n)
  BY <1>1, <1>4, <1>6 DEF PodMoves
<1>9. ASSUME SetPod(p, Unretained(p)), storage' = storage
      PROVE  RunInv'
  <2>1. PICK m : m = [o EXCEPT !.forwarder = "publish", !.held = Failure, !.copy = None]
    OBVIOUS
  <2>2. m \in PodState /\ m.worker = o.worker /\ m.forwarder = "publish" /\ m.held = Failure
    BY <1>1, <2>1 DEF PodState
  <2>3. SetPod(p, m)
    BY <1>0, <1>9, <2>1 DEF Unretained
  <2>4. PodMoves(o, m)
    BY <1>1, <2>2 DEF PodMoves
  <2> QED BY <1>0, <1>2, <1>9, <2>2, <2>3, <2>4, PodKeeps
<1>10. ASSUME storage.bytes = o.copy, SetPod(p, n), storage' = storage
       PROVE  RunInv'
  BY <1>0, <1>2, <1>4, <1>6, <1>8, <1>10, PodKeeps
<1>11. ASSUME storage.bytes \in {None, "empty"}, storage' = [storage EXCEPT !.bytes = o.copy],
              SetPod(p, n)
       PROVE  RunInv'
  <2>1. /\ pods' \in [Pods -> PodState] /\ pods'[p] = n
        /\ \A q \in Pods : q # p => pods'[q] = pods[q]
        /\ (Clean => Clean') /\ (Forwarded => Forwarded') /\ (Two => Two')
    BY <1>0, <1>8, <1>11, PodStays DEF RunInv
  <2>2. /\ storage' \in [bytes : Contents \cup {None, "empty"}, cleaned : BOOLEAN]
        /\ storage'.bytes = o.copy /\ storage'.cleaned = storage.cleaned
    BY <1>1, <1>11 DEF RunInv, TypeOK, PodState
  <2>3. TypeOK'
    BY <1>2, <2>1, <2>2 DEF RunInv, TypeOK
  <2>4. Phased' /\ Objects' /\ Cleanly'
    BY <1>2, <2>1 DEF RunInv, Phased, Objects, Cleanly, Kubernetes
  <2> DEFINE Stays(d) == d # None /\ d.art # None => d.art = storage'.bytes \/ storage'.cleaned
  <2>5. ASSUME NEW d \in Envelopes \cup {None}, Backed(d)
        PROVE  Stays(d)
    BY <1>11, <2>2, <2>5, BytesStay
  <2>6. storage'.bytes # "empty"
    BY <1>1, <2>2, NoneAssumption DEF PodState
  <2>7. ASSUME conf.mode = "retained", conf.purpose = "job"
        PROVE  /\ \A q \in Pods : pods'[q].forwarder = "publish" => Stays(pods'[q].held)
               /\ Stays(redis'.forwarded)
               /\ Stays(rt'.result)
    <3>1. redis.forwarded \in Envelopes \cup {None} /\ rt.result \in Envelopes \cup {None}
      BY DEF RunInv, TypeOK, AdapterState
    <3>2. Backed(redis.forwarded) /\ Backed(rt.result)
      BY <2>7 DEF RunInv, Durable
    <3>4. Stays(redis'.forwarded) /\ Stays(rt'.result)
      BY <1>2, <2>5, <3>1, <3>2
    <3>6. ASSUME NEW q \in Pods, pods'[q].forwarder = "publish"
          PROVE  Stays(pods'[q].held)
      <4>1. CASE q = p
        <5>1. pods'[q].held = e /\ e.art = storage'.bytes
          BY <1>4, <1>6, <2>1, <2>2, <4>1
        <5> QED BY <5>1
      <4>2. CASE q # p
        <5>1. PICK d : d = pods[q].held
          OBVIOUS
        <5>2. d \in Envelopes \cup {None} /\ Backed(d)
          BY <2>1, <2>7, <3>6, <4>2, <5>1 DEF RunInv, Durable, TypeOK, PodState
        <5>3. Stays(d) /\ pods'[q].held = d
          BY <2>1, <2>5, <4>2, <5>1, <5>2
        <5> QED BY <5>3
      <4> QED BY <4>1, <4>2
    <3> QED BY <3>4, <3>6
  <2>8. Durable'
    BY <1>2, <2>6, <2>7 DEF Durable, Backed
  <2>9. ASSUME conf.mode = "retained", verdict = "ok"
        PROVE  Two'
    <3>1. PICK q \in Pods : pods[q].forwarder = "ok"
      BY <2>9 DEF RunInv, Leaves, Forwarded
    <3>2. q # p /\ pods'[q].worker # "none" /\ pods'[p].worker # "none"
      <4>1. q # p
        BY <1>0, <1>1, <3>1
      <4>2. pods[q].worker # "none"
        BY <3>1, PodFacts
      <4> QED BY <1>1, <1>6, <2>1, <4>1, <4>2
    <3>3. p \in Started' /\ q \in Started'
      BY <3>2 DEF Started
    <3> QED BY <3>2, <3>3 DEF Two
  <2>10. Leaves'
    <3>1. \A q \in Pods :
             /\ pods'[q].worker = "none" => pods'[q] = Idle
             /\ pods'[q].forwarder \in {"copy", "commit", "rename", "publish"} =>
                   pods'[q].held \in Envelopes
      BY <1>1, <1>4, <1>6, <2>1 DEF RunInv, Leaves
    <3> QED BY <1>2, <2>1, <2>9, <3>1 DEF RunInv, Leaves
  <2> QED BY <2>3, <2>4, <2>8, <2>10 DEF RunInv
<1> QED BY <1>0, <1>7, <1>9, <1>10, <1>11 DEF CommitStaging

\* The worker's own key, which no run with durable storage reads.
LEMMA PublishStep ==
    ASSUME RunInv, NEW p \in Pods, WorkerPublishes(p)
    PROVE  RunInv'
<1>1. UNCHANGED <<conf, rt, cluster, pods, storage, verdict>>
      /\ redis' = [redis EXCEPT !.worker = pods[p].file] /\ pods[p].file \in Envelopes
  BY DEF WorkerPublishes
<1>2. TypeOK' /\ redis'.forwarded = redis.forwarded
  BY <1>1 DEF RunInv, TypeOK
<1>3. Phased' /\ Objects' /\ Cleanly'
  BY <1>1 DEF RunInv, Phased, Objects, Cleanly, Kubernetes, Clean
<1>4. Durable'
  BY <1>1, <1>2 DEF RunInv, Durable, Backed
<1>5. Leaves'
  BY <1>1, <1>2 DEF RunInv, Leaves, Forwarded, Two, Started
<1> QED BY <1>2, <1>3, <1>4, <1>5 DEF RunInv

\* The forwarder's key holds what a forwarder published, and that forwarder
\* has ended well.
LEMMA ForwardStep ==
    ASSUME RunInv, NEW p \in Pods, ForwardResult(p)
    PROVE  RunInv'
<1>0. PICK o : o = pods[p]
  OBVIOUS
<1>1. o \in PodState /\ o.worker # "none" /\ o.forwarder = "publish" /\ o.held \in Envelopes
  BY <1>0, PodFacts DEF ForwardResult, Holding
<1>2. UNCHANGED <<conf, rt, cluster, storage, verdict>>
  BY DEF ForwardResult
<1>3. ASSUME NEW f \in {"ok", "bad"}, NEW n, n = [o EXCEPT !.forwarder = f, !.held = None]
      PROVE  n.forwarder = f /\ PodMoves(o, n)
  <2>1. n \in PodState /\ n.forwarder = f /\ n.worker = o.worker
    BY <1>1, <1>3 DEF PodState, Exited
  <2> QED BY <1>1, <2>1 DEF PodMoves, Holding
<1>4. CASE SetPod(p, [pods[p] EXCEPT !.forwarder = "bad", !.held = None]) /\ UNCHANGED redis
  <2>1. PICK n : n = [o EXCEPT !.forwarder = "bad", !.held = None]
    OBVIOUS
  <2>2. n.forwarder = "bad" /\ PodMoves(o, n)
    BY <1>3, <2>1
  <2> QED BY <1>0, <1>2, <1>4, <2>1, <2>2, PodKeeps
<1>5. CASE /\ redis' = IF conf.mode = "retained" THEN [redis EXCEPT !.forwarded = pods[p].held]
                       ELSE [redis EXCEPT !.worker = pods[p].held]
           /\ SetPod(p, [pods[p] EXCEPT !.forwarder = "ok", !.held = None])
  <2>1. PICK n : n = [o EXCEPT !.forwarder = "ok", !.held = None]
    OBVIOUS
  <2>2. n.forwarder = "ok" /\ PodMoves(o, n) /\ SetPod(p, n)
    BY <1>0, <1>3, <1>5, <2>1
  <2>3. /\ pods' \in [Pods -> PodState] /\ pods'[p] = n
        /\ \A q \in Pods : q # p => pods'[q] = pods[q]
        /\ (Clean => Clean') /\ (Forwarded => Forwarded') /\ (Two => Two')
    BY <1>0, <2>2, PodStays DEF RunInv
  <2>4. /\ redis' \in [worker : Envelopes \cup {None}, forwarded : Envelopes \cup {None}]
        /\ conf.mode = "retained" => redis'.forwarded = o.held
    BY <1>0, <1>1, <1>5 DEF RunInv, TypeOK
  <2>5. TypeOK'
    BY <1>2, <2>3, <2>4 DEF RunInv, TypeOK
  <2>6. Phased' /\ Objects' /\ Cleanly'
    BY <1>2, <2>3 DEF RunInv, Phased, Objects, Cleanly, Kubernetes
  <2>7. Forwarded'
    BY <2>2, <2>3 DEF Forwarded
  <2>8. ASSUME conf.mode = "retained", conf.purpose = "job"
        PROVE  /\ \A q \in Pods : pods'[q].forwarder = "publish" => Backed(pods'[q].held)
               /\ Backed(redis'.forwarded)
    <3>1. Backed(o.held)
      BY <1>0, <1>1, <2>8 DEF RunInv, Durable
    <3>2. ASSUME NEW q \in Pods, pods'[q].forwarder = "publish"
          PROVE  Backed(pods'[q].held)
      <4>1. q # p
        BY <2>2, <2>3, <3>2
      <4> QED BY <2>3, <2>8, <3>2, <4>1 DEF RunInv, Durable
    <3> QED BY <2>4, <2>8, <3>1, <3>2
  <2>9. Durable'
    BY <1>2, <2>8 DEF RunInv, Durable, Backed
  <2>10. Leaves'
    <3>1. \A q \in Pods :
             /\ pods'[q].worker = "none" => pods'[q] = Idle
             /\ pods'[q].forwarder \in {"copy", "commit", "rename", "publish"} =>
                   pods'[q].held \in Envelopes
      BY <2>2, <2>3 DEF RunInv, Leaves, PodMoves
    <3> QED BY <1>2, <2>3, <2>7, <3>1 DEF RunInv, Leaves
  <2> QED BY <2>5, <2>6, <2>9, <2>10 DEF RunInv
<1> QED BY <1>4, <1>5 DEF ForwardResult

-----------------------------------------------------------------------------
(* Steps of the cluster, of operators and of validation *)

\* Docker's container, started by the adapter or killed by an operator.
LEMMA ContainerStep ==
    ASSUME RunInv, Launch \/ TerminateDocker
    PROVE  RunInv'
<1>0. rt \in AdapterState
  BY DEF RunInv, TypeOK
<1>1. ~Kubernetes
  BY DEF Launch, TerminateDocker, RunInv, Phased
<1>2. UNCHANGED <<conf, cluster, redis, storage, verdict>>
  BY DEF Launch, TerminateDocker
<1>3. rt' \in AdapterState /\ rt'.result = rt.result /\ rt'.valid = rt.valid
      /\ (rt' = rt \/ rt'.phase = "running")
  BY <1>0 DEF Launch, TerminateDocker, AdapterState, Phases
<1>4. PICK p \in Pods, w \in {"running", "killed"} :
          /\ SetPod(p, [pods[p] EXCEPT !.worker = w])
          /\ w = "killed" => pods[p].worker = "running"
          /\ w = "running" => rt.phase = "launch"
  BY DEF Launch, TerminateDocker
<1>5. PICK n : n = [pods[p] EXCEPT !.worker = w]
  OBVIOUS
<1>6. n \in PodState /\ n.worker = w /\ n.forwarder = pods[p].forwarder /\ n.held = pods[p].held
  BY <1>4, <1>5, PodFacts DEF PodState, Exited
<1>7. /\ pods' \in [Pods -> PodState] /\ pods'[p] = n
      /\ \A q \in Pods : q # p => pods'[q] = pods[q]
  BY <1>4, <1>5, <1>6 DEF RunInv, TypeOK, SetPod
<1>8. TypeOK'
  BY <1>2, <1>3, <1>7 DEF RunInv, TypeOK
<1>9. Phased' /\ Objects' /\ Cleanly'
  BY <1>1, <1>2, <1>3 DEF RunInv, Phased, Objects, Cleanly, Kubernetes
<1>10. conf.mode # "retained"
  BY <1>1 DEF Kubernetes
<1>11. Durable'
  BY <1>2, <1>10 DEF RunInv, Durable
<1>12. Leaves'
  <2>1. \A q \in Pods :
           /\ pods'[q].worker = "none" => pods'[q] = Idle
           /\ pods'[q].forwarder \in {"copy", "commit", "rename", "publish"} =>
                 pods'[q].held \in Envelopes
    BY <1>4, <1>6, <1>7 DEF RunInv, Leaves
  <2> QED BY <1>2, <1>10, <2>1 DEF RunInv, Leaves
<1> QED BY <1>8, <1>9, <1>11, <1>12 DEF RunInv

\* The Job's status, and its deletion by an operator.
LEMMA JobStep ==
    ASSUME RunInv, JobSucceeds \/ JobFails \/ TerminateKubernetes
    PROVE  RunInv'
<1>1. UNCHANGED <<conf, rt, pods, redis, storage, verdict>>
  BY DEF JobSucceeds, JobFails, TerminateKubernetes
<1>2. PICK job \in {"succeeded", "failed", "absent"} :
          /\ cluster' = [cluster EXCEPT !.job = job]
          /\ cluster.job # "absent"
          /\ job = "succeeded" => Clean
  BY DEF JobSucceeds, JobFails, TerminateKubernetes, Clean
<1>3. /\ cluster' \in [config : BOOLEAN, job : {"absent", "active", "succeeded", "failed"},
                       kept : SUBSET {"job", "config"}]
      /\ cluster'.config = cluster.config /\ cluster'.kept = cluster.kept /\ cluster'.job = job
  BY <1>2 DEF RunInv, TypeOK
<1>4. TypeOK'
  BY <1>1, <1>3 DEF RunInv, TypeOK
<1>5. Phased' /\ Objects'
  BY <1>1, <1>2, <1>3 DEF RunInv, Phased, Objects, Kubernetes
<1>6. Cleanly'
  BY <1>1, <1>2, <1>3 DEF RunInv, Cleanly, Kubernetes, Clean
<1>7. Durable'
  BY <1>1 DEF RunInv, Durable, Backed
<1>8. Leaves'
  BY <1>1 DEF RunInv, Leaves, Forwarded, Two, Started
<1> QED BY <1>4, <1>5, <1>6, <1>7, <1>8 DEF RunInv

\* An operator's cleanup, and the two validations.
LEMMA StorageStep ==
    ASSUME RunInv, CleanArtifacts \/ ValidateDocker \/ ValidateKubernetes
    PROVE  RunInv'
<1>1. UNCHANGED <<conf, rt, cluster, pods, redis>>
  BY DEF CleanArtifacts, ValidateDocker, ValidateKubernetes
<1>2. Phased' /\ Objects' /\ Cleanly'
  BY <1>1 DEF RunInv, Phased, Objects, Cleanly, Kubernetes, Clean
<1>3. CASE CleanArtifacts
  <2>1. storage' = [bytes |-> "empty", cleaned |-> TRUE] /\ verdict' = verdict
        /\ conf.purpose = "job"
    BY <1>3 DEF CleanArtifacts, Cleanable
  <2>2. TypeOK' /\ storage'.cleaned
    BY <1>1, <2>1 DEF RunInv, TypeOK
  <2>3. Durable'
    BY <1>1, <2>2 DEF RunInv, Durable, Backed
  <2>4. verdict = None
    BY <2>1 DEF RunInv, Leaves
  <2>5. verdict' # "ok"
    BY <2>1, <2>4, NoneAssumption
  <2>6. Leaves'
    BY <1>1, <2>1, <2>5 DEF RunInv, Leaves, Forwarded, Two, Started
  <2> QED BY <1>2, <2>2, <2>3, <2>6 DEF RunInv
<1>4. CASE ValidateDocker
  <2>1. storage' = storage /\ verdict' \in {"ok", "failed"} /\ conf.purpose = "validation"
        /\ conf.mode # "retained"
    BY <1>4 DEF ValidateDocker, Kubernetes
  <2>2. TypeOK'
    BY <1>1, <2>1 DEF RunInv, TypeOK
  <2>3. Durable'
    BY <1>1, <2>1 DEF RunInv, Durable, Backed
  <2>4. Leaves'
    BY <1>1, <2>1 DEF RunInv, Leaves, Forwarded, Two, Started
  <2> QED BY <1>2, <2>2, <2>3, <2>4 DEF RunInv
<1>5. CASE ValidateKubernetes
  <2>1. conf.purpose = "validation" /\ verdict' \in {"ok", "failed"}
        /\ (storage' = storage \/ storage' = [storage EXCEPT !.bytes = None])
        /\ (verdict' = "ok" => rt.valid /\ storage' = [storage EXCEPT !.bytes = None])
    BY <1>5 DEF ValidateKubernetes, KubernetesValid
  <2>2. /\ storage' \in [bytes : Contents \cup {None, "empty"}, cleaned : BOOLEAN]
        /\ storage'.bytes = "empty" => storage.bytes = "empty"
        /\ storage'.cleaned = storage.cleaned
        /\ verdict' = "ok" => storage'.bytes = None
    BY <2>1, NoneAssumption DEF RunInv, TypeOK
  <2>3. TypeOK'
    BY <1>1, <2>1, <2>2 DEF RunInv, TypeOK
  <2>4. Durable'
    BY <1>1, <2>1, <2>2 DEF RunInv, Durable
  <2>5. Leaves'
    BY <1>1, <2>1, <2>2 DEF RunInv, Leaves, Forwarded, Two, Started
  <2> QED BY <1>2, <2>3, <2>4, <2>5 DEF RunInv
<1> QED BY <1>3, <1>4, <1>5

-----------------------------------------------------------------------------
(* Theorems *)

\* Nothing has been created for the run at first.
LEMMA RunStart == Init => RunInv
<1> SUFFICES ASSUME Init PROVE RunInv
  OBVIOUS
<1>1. Idle \in PodState
  BY DEF Idle, PodState
<1>2. TypeOK
  BY <1>1 DEF Init, TypeOK, AdapterState, Phases
<1>3. Phased /\ Objects /\ Cleanly
  BY DEF Init, Phased, Objects, Cleanly
<1>4. \A p \in Pods : pods[p] = Idle /\ pods[p].forwarder = "none"
  BY DEF Init, Idle
<1>5. Durable
  BY <1>4, NoneAssumption DEF Init, Durable, Backed
<1>6. Leaves
  BY <1>4, NoneAssumption DEF Init, Leaves
<1> QED BY <1>2, <1>3, <1>5, <1>6 DEF RunInv

\* Every step keeps the invariant of the run.
LEMMA RunStep ==
    ASSUME RunInv, [Next]_vars
    PROVE  RunInv'
<1>1. CASE RuntimeStep
  BY <1>1, DockerStep, KubernetesStep, ContainerStep DEF RuntimeStep
<1>2. ASSUME NEW p \in Pods, PodStep(p)
      PROVE  RunInv'
  BY <1>2, WorkerStep, ClusterPodStep, ForwarderStep, CommitStep, PublishStep, ForwardStep
     DEF PodStep
<1>3. CASE JobSucceeds \/ JobFails \/ TerminateKubernetes
  BY <1>3, JobStep
<1>4. CASE TerminateDocker
  BY <1>4, ContainerStep
<1>5. CASE CleanArtifacts \/ ValidateDocker \/ ValidateKubernetes
  BY <1>5, StorageStep
<1>6. CASE UNCHANGED vars
  <2>1. TypeOK' /\ Phased' /\ Objects' /\ Cleanly'
    BY <1>6 DEF vars, RunInv, TypeOK, Phased, Objects, Cleanly, Kubernetes, Clean
  <2>2. Durable' /\ Leaves'
    BY <1>6 DEF vars, RunInv, Durable, Backed, Leaves, Forwarded, Two, Started
  <2> QED BY <2>1, <2>2 DEF RunInv
<1> QED BY <1>1, <1>2, <1>3, <1>4, <1>5, <1>6 DEF Next

\* The inductive invariant holds of every Run.
THEOREM RunInvariant == Spec => []RunInv
<1>1. Init => RunInv
  BY RunStart
<1>2. RunInv /\ [Next]_vars => RunInv'
  BY RunStep
<1> QED BY <1>1, <1>2, PTL DEF Spec

\* The adapter, the objects, the Pods, the keys and the retained directory
\* keep their shapes.
THEOREM RunTyped == Spec => []TypeOK
<1>1. RunInv => TypeOK
  BY DEF RunInv
<1> QED BY <1>1, RunInvariant, PTL

\* With durable storage, metadata a job's Run returns names bytes on the
\* volume until an operator cleans them (retain_artifacts in the forwarder,
\* the load in the adapter).
THEOREM ArtifactsDurable == Spec => []ArtifactsAreDurable
<1>1. RunInv => ArtifactsAreDurable
  <2> SUFFICES ASSUME RunInv, conf.mode = "retained", conf.purpose = "job", rt.phase = "done",
                      rt.result.art # None
               PROVE  Downloadable \/ storage.cleaned
    BY DEF ArtifactsAreDurable
  <2>1. rt.result # None /\ Backed(rt.result)
    BY DEF RunInv, Phased, Durable
  <2> QED BY <2>1 DEF Backed, Downloadable
<1> QED BY <1>1, RunInvariant, PTL

\* The finally block of the Kubernetes adapter deletes the Job and the config
\* map, or the call that deletes that very object failed.
THEOREM ObjectsAreReleased == Spec => []ObjectsReleased
<1>1. RunInv => ObjectsReleased
  BY DEF RunInv, Objects, ObjectsReleased
<1> QED BY <1>1, RunInvariant, PTL

\* A success that a Kubernetes run returns comes from a worker that exited 0.
THEOREM SuccessIsClean == Spec => []SuccessExitedCleanly
<1>1. RunInv => SuccessExitedCleanly
  BY DEF RunInv, Phased, Cleanly, Clean, SuccessExitedCleanly
<1> QED BY <1>1, RunInvariant, PTL

\* A passed validation leaves no bytes behind, unless a second Pod ran.
THEOREM ValidationIsClean == Spec => []ValidationLeavesNothing
<1>1. RunInv => ValidationLeavesNothing
  <2> SUFFICES ASSUME RunInv, conf.mode = "retained", verdict = "ok", Cardinality(Started) = 1
               PROVE  storage.bytes = None
    BY DEF ValidationLeavesNothing
  <2>1. IsFiniteSet(Started)
    BY PodsAssumption, FS_Subset DEF Started
  <2>2. PICK p : Started = {p}
    BY <2>1, FS_Singleton
  <2>3. ~Two
    BY <2>2 DEF Two
  <2> QED BY <2>3 DEF RunInv, Leaves
<1> QED BY <1>1, RunInvariant, PTL

=============================================================================
