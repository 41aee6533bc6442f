---------------------------- MODULE BatchIntake ----------------------------
(***************************************************************************)
(* How jobs enter the queue other than by a schedule: single submissions    *)
(* of the API and the CLI, fanout batches, retries of finished jobs, and    *)
(* the cleanup that removes what is over.  Each transaction is a step, so   *)
(* a batch may be half created, and the source of a retry gone, when        *)
(* somebody else looks.                                                     *)
(*                                                                         *)
(* A job's statuses are kept as far as a batch's derived status tells them  *)
(* apart: "active" is leased, running or retrying, "failed" is every        *)
(* terminal status but completed.  Of a policy, timeout_seconds is kept.    *)
(***************************************************************************)
EXTENDS Naturals, FiniteSets

CONSTANTS
    Fanouts,       \* ids of batches
    Items,         \* items of a batch
    Limits,        \* values of timeout_seconds
    Asks,          \* limits a request asks for, Unset among them
    Policies,      \* resource policies: defaults, goblin override and ceiling
    MaxJobs,       \* bound on jobs ever saved
    Quotas,        \* bounds: batches created, jobs submitted that are not of a batch,
                   \* and upsets, which are crashes, writes over an end, changes of
                   \* the policy, and requests that overlap the cleanup of their batch
    Unset          \* NULL

ASSUME BatchAssumption ==
    /\ Limits \subseteq Nat
    /\ Asks \subseteq Limits \cup {Unset}
    /\ Policies \subseteq [defaults : Limits \cup {Unset}, goblin : Limits \cup {Unset},
                           ceilings : Limits \cup {Unset}]
    /\ MaxJobs \in Nat
    /\ Quotas \subseteq [fanouts : SUBSET Fanouts, singles : Nat, upsets : Nat]
    /\ Unset \notin Nat
    /\ Unset \notin Fanouts

VARIABLES
    jobs,      \* the jobs table
    issued,    \* jobs ever saved; an id is never used twice
    singles,   \* jobs ever submitted on their own
    fanouts,   \* ids in the fanouts table
    batch,     \* how far the creation of each batch is
    retry,     \* the retry request in flight
    cli,       \* the job a CLI submission is executing, or Unset
    cleanup,   \* the cleanup in flight
    policy,    \* the resource policies in force
    quota,     \* the bounds chosen
    met,       \* history: batches whose jobs ended, or were being created, while
               \* a cleanup looked at them in turn
    late,      \* history: writes over the end of a job so far
    upsets     \* history: upsets so far

intakeVars ==
    <<jobs, issued, singles, fanouts, batch, retry, cli, cleanup, policy, quota, met, late, upsets>>

JobIds == 1..MaxJobs

\* TERMINAL_STATUSES
TerminalStatuses == {"completed", "failed"}

\* JobRecord; ceiling is history, the ceiling the job was accepted under.
JobRow ==
    [kind : {"registry", "notebook"}, fan : Fanouts \cup {Unset},
     status : {"queued", "active"} \cup TerminalStatuses, limit : Limits \cup {Unset},
     ceiling : Limits \cup {Unset}]

ASSUME UnsetAssumption == Unset \notin JobRow

NewJob(kind, fan, limit) ==
    [kind |-> kind, fan |-> fan, status |-> "queued", limit |-> limit,
     ceiling |-> policy.ceilings]

IntakeInit ==
    /\ jobs = [j \in JobIds |-> Unset]
    /\ issued = 0
    /\ singles = 0
    /\ fanouts = {}
    /\ batch = [f \in Fanouts |-> [at |-> "none"]]
    /\ retry = [at |-> "idle"]
    /\ cli = Unset
    /\ cleanup = [at |-> "idle"]
    /\ policy \in Policies
    /\ quota \in Quotas
    /\ met = {}
    /\ late = 0
    /\ upsets = 0

\* What meets, changes, dies or writes late is counted and bounded.
Upset(does) ==
    /\ does => upsets < quota.upsets
    /\ upsets' = IF does THEN upsets + 1 ELSE upsets

-----------------------------------------------------------------------------
(* Resource policies *)

\* _deep_merge of one value: the override wins where it says anything.
Merged(base, override) == IF override # Unset THEN override ELSE base

\* ResourcePolicySet.effective_for: defaults, then the goblin's override, then
\* what the request asks for.
Effective(ask) == Merged(Merged(policy.defaults, policy.goblin), ask)

\* validate_within_ceilings: a value that is not set is never above a ceiling.
WithinCeilings(limit) ==
    limit # Unset /\ policy.ceilings # Unset => limit <= policy.ceilings

\* A restart with another policy file.
ReloadPolicy(new) ==
    /\ Upset(TRUE)
    /\ policy' = new
    /\ UNCHANGED <<jobs, issued, singles, fanouts, batch, retry, cli, cleanup, quota, met, late>>

-----------------------------------------------------------------------------
(* Jobs *)

Saved == {j \in JobIds : jobs[j] # Unset}

\* save_job under a fresh id.
SaveJob(row) ==
    /\ issued < MaxJobs
    /\ issued' = issued + 1
    /\ jobs' = [jobs EXCEPT ![issued + 1] = row]

\* A job that belongs to no batch.
SaveSingle(kind, limit) ==
    /\ singles < quota.singles
    /\ singles' = singles + 1
    /\ SaveJob(NewJob(kind, Unset, limit))

\* _queue_job of a registry kind: refused above the ceiling.
QueueJob(ask) ==
    /\ WithinCeilings(Effective(ask))
    /\ SaveSingle("registry", Effective(ask))
    /\ UNCHANGED <<fanouts, batch, retry, cli, cleanup, policy, quota, met, late, upsets>>

\* _queue_job of a notebook kind: no policy applies, the bundle's own timeout
\* is the default.
QueueNotebook(ask) ==
    /\ SaveSingle("notebook", ask)
    /\ UNCHANGED <<fanouts, batch, retry, cli, cleanup, policy, quota, met, late, upsets>>

\* The CLI's submit_job saves a queued job and runs it in its own process ...
CliSubmit(ask) ==
    /\ cli = Unset
    /\ WithinCeilings(Effective(ask))
    /\ SaveSingle("registry", Effective(ask))
    /\ cli' = issued + 1
    /\ UNCHANGED <<fanouts, batch, retry, cleanup, policy, quota, met, late, upsets>>

\* ... and writes its end with finish_job, whatever a scheduler that claimed
\* the queued row has done to it.
CliFinish(status) ==
    /\ cli # Unset
    /\ jobs' = IF jobs[cli] = Unset THEN jobs ELSE [jobs EXCEPT ![cli].status = status]
    /\ cli' = Unset
    /\ UNCHANGED <<issued, singles, fanouts, batch, retry, cleanup, policy, quota, met, late, upsets>>

-----------------------------------------------------------------------------
(* Batches *)

Children(f) == {j \in Saved : jobs[j].fan = f}

\* Mutant: one failed child decides the batch.
DeriveEager(statuses) ==
    IF statuses = {} THEN "queued"
    ELSE IF statuses = {"completed"} THEN "completed"
    ELSE IF "failed" \in statuses
         THEN IF "completed" \in statuses THEN "partial" ELSE "failed"
    ELSE IF "active" \in statuses THEN "running"
    ELSE "queued"

\* derive_fanout_status over the statuses that occur among the children.
DeriveStatus(statuses) ==
    IF statuses = {} THEN "queued"
    ELSE IF statuses = {"completed"} THEN "completed"
    ELSE IF statuses \subseteq TerminalStatuses
         THEN IF "completed" \in statuses THEN "partial" ELSE "failed"
    ELSE IF TerminalStatuses \subseteq statuses THEN "partial"
    ELSE IF "active" \in statuses THEN "running"
    ELSE "queued"

\* fanout_detail
Verdict(f) == DeriveStatus({jobs[j].status : j \in Children(f)})

Creating(f) == batch[f].at = "saving"

\* Jobs of the batch are still to be saved.
UnderWay(f) == Creating(f) \/ (retry.at = "save" /\ retry.fan = f)

\* The cleanup in flight has listed the jobs that are over and has not looked
\* at the children of this batch, ...
Unchecked(f) == cleanup.at = "list" \/ (cleanup.at = "check" /\ f \in cleanup.left)

\* ... or has, and will delete it.
Taken(f) == cleanup.at = "check" /\ f \in cleanup.fanouts

\* create_fanout resolves every kind and policy before it saves anything: one
\* item above the ceiling refuses the batch.
CreateFanout(f, asks) ==
    /\ batch[f].at = "none" /\ f \in quota.fanouts
    /\ IF \A i \in Items : WithinCeilings(Effective(asks[i]))
       THEN /\ fanouts' = fanouts \cup {f}
            /\ batch' = [batch EXCEPT
                  ![f] = [at |-> "saving", left |-> Items,
                          asks |-> [i \in Items |-> Effective(asks[i])],
                          ceiling |-> policy.ceilings]]
       ELSE /\ batch' = [batch EXCEPT ![f] = [at |-> "rejected"]]
            /\ UNCHANGED fanouts
    /\ UNCHANGED <<jobs, issued, singles, retry, cli, cleanup, policy, quota, met, late, upsets>>

\* Then the children are saved one by one.
SaveChild(f, i) ==
    /\ Creating(f)
    /\ i \in batch[f].left
    /\ SaveJob([NewJob("registry", f, batch[f].asks[i]) EXCEPT !.ceiling = batch[f].ceiling])
    /\ batch' = [batch EXCEPT ![f].left = @ \ {i}]
    /\ UNCHANGED <<singles, fanouts, retry, cli, cleanup, policy, quota, met, late, upsets>>

\* fanout_detail answers the request; it raises when the row is gone.
AnswerFanout(f) ==
    /\ Creating(f)
    /\ batch[f].left = {}
    /\ batch' = [batch EXCEPT ![f] = [at |-> IF f \in fanouts THEN "done" ELSE "lost"]]
    /\ UNCHANGED <<jobs, issued, singles, fanouts, retry, cli, cleanup, policy, quota, met, late, upsets>>

\* The process dies in the middle of a batch, or a save raises.
CrashFanout(f) ==
    /\ Creating(f)
    /\ Upset(TRUE)
    /\ batch' = [batch EXCEPT ![f] = [at |-> "crashed"]]
    /\ UNCHANGED <<jobs, issued, singles, fanouts, retry, cli, cleanup, policy, quota, met, late>>

-----------------------------------------------------------------------------
(* Execution *)

\* What a scheduler, a deferral or a cancellation does to the row of a job
\* that is not over (see Scheduler).
Progress(j, status) ==
    /\ j \in Saved
    /\ jobs[j].status \notin TerminalStatuses
    /\ status # jobs[j].status
    /\ jobs' = [jobs EXCEPT ![j].status = status]
    /\ met' = met \cup {f \in Fanouts : f = jobs[j].fan /\ status \in TerminalStatuses /\ Unchecked(f)}
    /\ UNCHANGED <<issued, singles, fanouts, batch, retry, cli, cleanup, policy, quota, late, upsets>>

\* finish_job looks at neither status nor owner: the deferral of a job that was
\* cancelled meanwhile puts it back into the queue, and a recovery that settles
\* a row it read earlier writes the status of a Run over any end.
FinishLate(j, status) ==
    /\ j \in Saved
    /\ jobs[j].status \in TerminalStatuses
    /\ status # jobs[j].status
    /\ jobs' = [jobs EXCEPT ![j].status = status]
    /\ late' = late + 1
    /\ Upset(TRUE)
    /\ UNCHANGED <<issued, singles, fanouts, batch, retry, cli, cleanup, policy, quota, met>>

-----------------------------------------------------------------------------
(* Retries *)

\* retry_job asks the policy again, with the source's limit as the request's.
RetryLimit(row, ask) == Effective(Merged(row.limit, ask))

\* Mutant: the limit was checked when the source was accepted.
BeginRetryTrusting(j, ask) ==
    /\ retry.at = "idle"
    /\ j \in Saved
    /\ jobs[j].status \in TerminalStatuses
    /\ retry' = [at |-> "save", fan |-> jobs[j].fan, limit |-> RetryLimit(jobs[j], ask),
                 ceiling |-> policy.ceilings]
    /\ met' = met \cup {f \in Fanouts : f = jobs[j].fan /\ Taken(f)}
    /\ Upset(met' # met)
    /\ UNCHANGED <<jobs, issued, singles, fanouts, batch, cli, cleanup, policy, quota, late>>

\* The source must be over; the new job joins its batch.
BeginRetry(j, ask) ==
    /\ retry.at = "idle"
    /\ j \in Saved
    /\ jobs[j].status \in TerminalStatuses
    /\ WithinCeilings(RetryLimit(jobs[j], ask))
    /\ retry' = [at |-> "save", fan |-> jobs[j].fan, limit |-> RetryLimit(jobs[j], ask),
                 ceiling |-> policy.ceilings]
    /\ met' = met \cup {f \in Fanouts : f = jobs[j].fan /\ Taken(f)}
    /\ Upset(met' # met)
    /\ UNCHANGED <<jobs, issued, singles, fanouts, batch, cli, cleanup, policy, quota, late>>

SaveRetry ==
    /\ retry.at = "save"
    /\ SaveJob([NewJob("registry", retry.fan, retry.limit) EXCEPT !.ceiling = retry.ceiling])
    /\ retry' = [at |-> "idle"]
    /\ UNCHANGED <<singles, fanouts, batch, cli, cleanup, policy, quota, met, late, upsets>>

-----------------------------------------------------------------------------
(* Cleanup *)

\* Mutant: a batch with anything finished in it is taken as over.
OverSomewhere(f) == \E j \in Children(f) : jobs[j].status \in TerminalStatuses

\* A batch is over when no child of it is unfinished.
Over(f) == \A j \in Children(f) : jobs[j].status \in TerminalStatuses

\* cleanup_runtime_rows lists the jobs that are over ...
BeginCleanup ==
    /\ cleanup.at = "idle"
    /\ cleanup' = [at |-> "list", jobs |-> {j \in Saved : jobs[j].status \in TerminalStatuses}]
    /\ UNCHANGED <<jobs, issued, singles, fanouts, batch, retry, cli, policy, quota, met, late, upsets>>

\* ... then the batches, ...
ListFanouts ==
    /\ cleanup.at = "list"
    /\ cleanup' = [at |-> "check", jobs |-> cleanup.jobs, left |-> fanouts, fanouts |-> {}]
    /\ UNCHANGED <<jobs, issued, singles, fanouts, batch, retry, cli, policy, quota, met, late, upsets>>

\* ... and asks of each in turn for a child that is not over.  The transaction
\* takes its lock with the first delete: others write between these reads.
CheckFanout(f) ==
    /\ cleanup.at = "check"
    /\ f \in cleanup.left
    /\ cleanup' = [cleanup EXCEPT !.left = @ \ {f},
                                  !.fanouts = IF Over(f) THEN @ \cup {f} ELSE @]
    /\ met' = IF Over(f) /\ UnderWay(f) THEN met \cup {f} ELSE met
    /\ Upset(met' # met)
    /\ UNCHANGED <<jobs, issued, singles, fanouts, batch, retry, cli, policy, quota, late>>

Checked == cleanup.at = "check" /\ cleanup.left = {}

\* A dry run only counts.
PreviewCleanup ==
    /\ Checked
    /\ cleanup' = [at |-> "idle"]
    /\ UNCHANGED <<jobs, issued, singles, fanouts, batch, retry, cli, policy, quota, met, late, upsets>>

CommitCleanup ==
    /\ Checked
    /\ jobs' = [j \in JobIds |-> IF j \in cleanup.jobs THEN Unset ELSE jobs[j]]
    /\ fanouts' = fanouts \ cleanup.fanouts
    /\ cleanup' = [at |-> "idle"]
    /\ UNCHANGED <<issued, singles, batch, retry, cli, policy, quota, met, late, upsets>>

-----------------------------------------------------------------------------

SubmitJob ==
    \/ \E ask \in Asks : QueueJob(ask) \/ QueueNotebook(ask) \/ CliSubmit(ask)
    \/ \E s \in TerminalStatuses : CliFinish(s)

Fanout(f) ==
    \/ \E asks \in [Items -> Asks] : CreateFanout(f, asks)
    \/ \E i \in Items : SaveChild(f, i)
    \/ AnswerFanout(f)
    \/ CrashFanout(f)

IntakeNext ==
    \/ SubmitJob
    \/ \E f \in Fanouts : Fanout(f)
    \/ \E j \in JobIds :
          \/ \E s \in {"queued", "active"} \cup TerminalStatuses : Progress(j, s)
          \/ \E s \in {"queued"} \cup TerminalStatuses : FinishLate(j, s)
          \/ \E ask \in Asks : BeginRetry(j, ask)
    \/ SaveRetry
    \/ BeginCleanup
    \/ ListFanouts
    \/ \E f \in Fanouts : CheckFanout(f)
    \/ PreviewCleanup
    \/ CommitCleanup
    \/ \E new \in Policies : ReloadPolicy(new)

IntakeSpec == IntakeInit /\ [][IntakeNext]_intakeVars

-----------------------------------------------------------------------------
(* Properties *)

Batches ==
    [at : {"none", "rejected", "done", "lost", "crashed"}]
    \cup [at : {"saving"}, left : SUBSET Items, asks : [Items -> Limits \cup {Unset}],
          ceiling : Limits \cup {Unset}]

Retries ==
    [at : {"idle"}]
    \cup [at : {"save"}, fan : Fanouts \cup {Unset}, limit : Limits \cup {Unset},
          ceiling : Limits \cup {Unset}]

Cleanups ==
    [at : {"idle"}]
    \cup [at : {"list"}, jobs : SUBSET JobIds]
    \cup [at : {"check"}, jobs : SUBSET JobIds, left : SUBSET Fanouts, fanouts : SUBSET Fanouts]

\* Tables and requests keep the shape of their records.
IntakeTypeOK ==
    /\ jobs \in [JobIds -> JobRow \cup {Unset}]
    /\ issued \in 0..MaxJobs
    /\ quota \in Quotas
    /\ singles \in 0..quota.singles
    /\ fanouts \subseteq Fanouts
    /\ batch \in [Fanouts -> Batches]
    /\ retry \in Retries
    /\ cli \in JobIds \cup {Unset}
    /\ cleanup \in Cleanups
    /\ policy \in Policies
    /\ met \subseteq Fanouts
    /\ late \in Nat
    /\ upsets \in 0..quota.upsets

\* Every job of a registry kind is within the ceiling that was in force when
\* its request was accepted: single, CLI and batch jobs, and retries of jobs
\* that were accepted under another policy or under none.
JobsWithinCeiling ==
    \A j \in Saved : jobs[j].kind = "registry" =>
        (jobs[j].limit # Unset /\ jobs[j].ceiling # Unset => jobs[j].limit <= jobs[j].ceiling)

\* A batch with an unfinished child is still there to be looked up, whatever
\* else a cleanup meets, unless one of its own jobs ended or was about to be
\* saved while cleanup_runtime_rows looked at jobs and batch in turn.  A late
\* write of finish_job is no exception.
LiveChildHasBatch ==
    \A j \in Saved :
        jobs[j].fan \notin met \cup {Unset} /\ jobs[j].status \notin TerminalStatuses
        => jobs[j].fan \in fanouts

\* The verdict completed, failed or partial of a fully created batch changes
\* only with the set of its children, by a retry or a cleanup, and by
\* finish_job's write over the end of one of them.
VerdictIsFinal ==
    [][\A f \in Fanouts :
          /\ batch[f].at = "done"
          /\ Verdict(f) \in {"completed", "failed", "partial"}
          /\ Children(f)' = Children(f)
          /\ late' = late
          => Verdict(f)' = Verdict(f)]_intakeVars

=============================================================================
