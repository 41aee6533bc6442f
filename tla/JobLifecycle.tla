---------------------------- MODULE JobLifecycle ----------------------------
(***************************************************************************)
(* What the queue promises about a job, whoever runs it: the statuses a    *)
(* job row passes through and the attempts it counts.  No owner, lease,    *)
(* Run or scheduler appears.  Scheduler implements this specification      *)
(* when no attempt raises and no concurrency cap defers a claimed job.     *)
(***************************************************************************)
EXTENDS Naturals

CONSTANTS Jobs, MaxRetries

VARIABLES status, attempts

Pending   == {"queued", "retrying", "leased", "running"}
Worked    == {"completed", "failed", "timed_out"}
Over      == Worked \cup {"cancelled"}

Init ==
    /\ status = [j \in Jobs |-> "absent"]
    /\ attempts = [j \in Jobs |-> 0]

Create(j) ==
    /\ status[j] = "absent"
    /\ status' = [status EXCEPT ![j] = "queued"]
    /\ UNCHANGED attempts

\* Jobs that wait, or whose lease was lost, are leased together.
Lease(S) ==
    /\ \A j \in S : status[j] \in Pending
    /\ status' = [j \in Jobs |-> IF j \in S THEN "leased" ELSE status[j]]
    /\ UNCHANGED attempts

\* Only a leased job starts, and starting counts exactly one attempt.
Start(j) ==
    /\ status[j] = "leased"
    /\ status' = [status EXCEPT ![j] = "running"]
    /\ attempts' = [attempts EXCEPT ![j] = @ + 1]

Finish(j) ==
    /\ status[j] = "running"
    /\ \E st \in Worked : status' = [status EXCEPT ![j] = st]
    /\ UNCHANGED attempts

\* A failed attempt is retried only while retries remain.
Retry(j) ==
    /\ status[j] = "running"
    /\ attempts[j] <= MaxRetries[j]
    /\ status' = [status EXCEPT ![j] = "retrying"]
    /\ UNCHANGED attempts

Cancel(j) ==
    /\ status[j] \in Pending
    /\ status' = [status EXCEPT ![j] = "cancelled"]
    /\ UNCHANGED attempts

\* Only jobs that are over are deleted.
Delete(S) ==
    /\ \A j \in S : status[j] \in Over
    /\ status' = [j \in Jobs |-> IF j \in S THEN "deleted" ELSE status[j]]
    /\ UNCHANGED attempts

Next ==
    \/ \E j \in Jobs : Create(j) \/ Start(j) \/ Finish(j) \/ Retry(j) \/ Cancel(j)
    \/ \E S \in SUBSET Jobs : Lease(S) \/ Delete(S)

Spec == Init /\ [][Next]_<<status, attempts>>

=============================================================================
