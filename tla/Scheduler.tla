------------------------------ MODULE Scheduler ------------------------------
(***************************************************************************)
(* The job queue of Goblin King: the jobs and runs tables of the SQLite    *)
(* store, the scheduler processes that lease, execute and settle jobs, and *)
(* the API calls that submit, cancel and clean jobs up.                    *)
(*                                                                         *)
(* One action is one store transaction (or one step of a scheduler pass    *)
(* that touches no table), so every interleaving of two scheduler          *)
(* processes and the API that SQLite's write lock permits is a behaviour.  *)
(*                                                                         *)
(* Time is abstract: a lease deadline is either ahead or in the past       *)
(* (`lapsed').  Every job the code creates is due at once (due_at is the   *)
(* creation, deferral or attempt start time), so due_at is left out.       *)
(* A scheduler process draws a fresh worker_id, so a restarted process is  *)
(* another element of Schedulers.                                          *)
(***************************************************************************)
EXTENDS Integers, Sequences, FiniteSets

CONSTANTS
    Schedulers,         \* worker_id of every scheduler process ever started
    NumJobs,            \* jobs the API creates, numbered in created_at order
    Kinds,              \* goblin kinds
    KindOf,             \* kind of each job; one project holds all the jobs
    Priority,           \* priority of each job
    MaxRetries,         \* max_retries of each job
    ClaimLimit,         \* claim_limit of a scheduler pass
    MaxRunning,         \* concurrency.max_running of each kind, or Unbounded
    MaxProjectRunning,  \* concurrency.max_project_running of each kind, or Unbounded
    Unbounded,          \* stands for a policy field that is None
    NoOwner,            \* lease_owner NULL
    MaxCancels,         \* bound: cancel calls that find a job to cancel
    MaxStalls,          \* bound: leases lost by a live owner (stalled renewals)
    MaxCrashes,         \* bound: scheduler processes killed
    MaxFaults,          \* bound: exceptions out of runtime, registry or store
    MaxCleanups         \* bound: cleanup_runtime_rows calls

Jobs == 1 .. NumJobs

ASSUME ConstantsAssumption ==
    /\ NumJobs \in Nat
    /\ KindOf \in [Jobs -> Kinds]
    /\ Priority \in [Jobs -> Int]
    /\ MaxRetries \in [Jobs -> Nat]
    /\ ClaimLimit \in Nat \ {0}
    /\ NoOwner \notin Schedulers
    /\ Unbounded \notin Nat
    /\ MaxRunning \in [Kinds -> (Nat \ {0}) \cup {Unbounded}]
    /\ MaxProjectRunning \in [Kinds -> (Nat \ {0}) \cup {Unbounded}]
    /\ {MaxCancels, MaxStalls, MaxCrashes, MaxFaults, MaxCleanups} \subseteq Nat

VARIABLES
    status,     \* jobs.status; "absent" before creation, "deleted" after cleanup
    owner,      \* jobs.lease_owner
    attempts,   \* jobs.attempt_count
    lapsed,     \* jobs whose leased_until is in the past
    runs,       \* the runs table, in insertion order
    pc,         \* where each scheduler is in its pass
    checking,   \* claimed jobs whose concurrency limits are not yet checked
    runnable,   \* claimed jobs waiting to be executed
    seen,       \* attempt_count of each job in the claimed snapshot
    cur,        \* the job being executed
    try,        \* the attempt being executed
    run,        \* id (index in runs) of the Run being executed, 0 for none yet
    verdict,    \* outcome of the attempt, or the status recovery settles on
    found,      \* the job row recovery read
    ended,      \* history: terminal job events emitted for each job
    cancels, stalls, crashes, faults, cleanups   \* budgets used

jobVars   == <<status, owner, attempts, lapsed>>
batchVars == <<checking, runnable, seen>>
stepVars  == <<cur, try, run, verdict, found>>
budgets   == <<cancels, stalls, crashes, faults, cleanups>>
vars      == <<jobVars, runs, pc, batchVars, stepVars, ended, budgets>>

TerminalRun == {"completed", "failed", "timed_out"}
Terminal    == TerminalRun \cup {"cancelled"}
Active      == {"leased", "running"}
JobStatus   == {"absent", "queued", "retrying", "deleted"} \cup Active \cup Terminal
RunStatus   == {"running", "deleted"} \cup TerminalRun
Verdicts    == TerminalRun \cup {"rejected"}

\* While executing, a scheduler keeps an ActiveJobLease on every claimed job.
Executing == {"mark", "prepare", "working", "finalize", "emit",
              "recover", "inspect", "settle", "refinalize", "report"}
PCs == {"idle", "check_project", "check_kind", "defer", "dead"} \cup Executing

RunRow == [job : Jobs, attempt : Nat, status : RunStatus]

TypeOK ==
    /\ status \in [Jobs -> JobStatus]
    /\ owner \in [Jobs -> Schedulers \cup {NoOwner}]
    /\ attempts \in [Jobs -> Nat]
    /\ lapsed \in SUBSET Jobs
    /\ runs \in Seq(RunRow)
    /\ pc \in [Schedulers -> PCs]
    /\ checking \in [Schedulers -> SUBSET Jobs]
    /\ runnable \in [Schedulers -> SUBSET Jobs]
    /\ seen \in [Schedulers -> [Jobs -> Nat]]
    /\ cur \in [Schedulers -> Jobs \cup {0}]
    /\ try \in [Schedulers -> Nat]
    /\ run \in [Schedulers -> Nat]
    /\ verdict \in [Schedulers -> Verdicts]
    /\ found \in [Schedulers -> [status : JobStatus, attempts : Nat]]
    /\ ended \in [Jobs -> Nat]
    /\ cancels \in Nat /\ stalls \in Nat /\ crashes \in Nat /\ faults \in Nat /\ cleanups \in Nat

NoRow == [status |-> "absent", attempts |-> 0]

Init ==
    /\ status = [j \in Jobs |-> "absent"]
    /\ owner = [j \in Jobs |-> NoOwner]
    /\ attempts = [j \in Jobs |-> 0]
    /\ lapsed = {}
    /\ runs = <<>>
    /\ pc = [s \in Schedulers |-> "idle"]
    /\ checking = [s \in Schedulers |-> {}]
    /\ runnable = [s \in Schedulers |-> {}]
    /\ seen = [s \in Schedulers |-> [j \in Jobs |-> 0]]
    /\ cur = [s \in Schedulers |-> 0]
    /\ try = [s \in Schedulers |-> 0]
    /\ run = [s \in Schedulers |-> 0]
    /\ verdict = [s \in Schedulers |-> "failed"]
    /\ found = [s \in Schedulers |-> NoRow]
    /\ ended = [j \in Jobs |-> 0]
    /\ cancels = 0 /\ stalls = 0 /\ crashes = 0 /\ faults = 0 /\ cleanups = 0

-----------------------------------------------------------------------------
(* The jobs table                                                          *)

\* ORDER BY priority DESC, created_at
Before(i, j) ==
    \/ Priority[i] > Priority[j]
    \/ Priority[i] = Priority[j] /\ i < j

IsFirst(j, S) == \A i \in S \ {j} : Before(j, i)

\* Mutant: a lapsed lease is never offered again.
ClaimableFresh == {j \in Jobs : status[j] \in {"queued", "retrying"}}

Claimable ==
    {j \in Jobs : \/ status[j] \in {"queued", "retrying"}
                  \/ status[j] \in Active /\ j \in lapsed}

\* SQLiteStore.finish_job: a write that looks at neither status nor owner.
\* It updates no row when cleanup has deleted the job.
FinishJob(j, st) ==
    /\ status' = IF status[j] = "deleted" THEN status ELSE [status EXCEPT ![j] = st]
    /\ owner' = [owner EXCEPT ![j] = NoOwner]
    /\ lapsed' = lapsed \ {j}
    /\ UNCHANGED attempts

\* Mutant: only running rows are counted.
RunningOthers(j, S) == {i \in S \ {j} : status[i] = "running"}

\* The rows count_active_jobs and count_active_project_jobs count.
ActiveOthers(j, S) == {i \in S \ {j} : status[i] \in Active}

-----------------------------------------------------------------------------
(* API calls                                                               *)

\* A queued job is created: _queue_job, and the fanout, retry and schedule
\* paths that end in the same save_job.
Submit(j) ==
    /\ status[j] = "absent"
    /\ \A i \in Jobs : i < j => status[i] # "absent"
    /\ status' = [status EXCEPT ![j] = "queued"]
    /\ UNCHANGED <<owner, attempts, lapsed, runs, pc, batchVars, stepVars, ended, budgets>>

\* Mutant: cancellation does not look at the status.
CancelAnyStatus(j) ==
    /\ cancels < MaxCancels
    /\ cancels' = cancels + 1
    /\ status[j] \notin {"absent", "deleted"}
    /\ status' = [status EXCEPT ![j] = "cancelled"]
    /\ owner' = [owner EXCEPT ![j] = NoOwner]
    /\ lapsed' = lapsed \ {j}
    /\ ended' = [ended EXCEPT ![j] = @ + 1]
    /\ UNCHANGED <<attempts, runs, pc, batchVars, stepVars, stalls, crashes, faults, cleanups>>

Cancel(j) ==
    /\ cancels < MaxCancels
    /\ cancels' = cancels + 1
    /\ status[j] \notin Terminal \cup {"absent", "deleted"}
    /\ status' = [status EXCEPT ![j] = "cancelled"]
    /\ owner' = [owner EXCEPT ![j] = NoOwner]
    /\ lapsed' = lapsed \ {j}
    /\ ended' = [ended EXCEPT ![j] = @ + 1]
    /\ UNCHANGED <<attempts, runs, pc, batchVars, stepVars, stalls, crashes, faults, cleanups>>

\* Terminal jobs go with their finished Runs; when no job is terminal the
\* Run query is not narrowed and every finished Run goes.
Cleanup ==
    LET gone == {j \in Jobs : status[j] \in Terminal}
        purged(r) == /\ runs[r].status \in TerminalRun
                     /\ gone # {} => runs[r].job \in gone
    IN  /\ cleanups < MaxCleanups
        /\ cleanups' = cleanups + 1
        /\ status' = [j \in Jobs |-> IF j \in gone THEN "deleted" ELSE status[j]]
        /\ runs' = [r \in DOMAIN runs |->
                       IF purged(r) THEN [runs[r] EXCEPT !.status = "deleted"] ELSE runs[r]]
        /\ UNCHANGED <<owner, attempts, lapsed, pc, batchVars, stepVars, ended,
                       cancels, stalls, crashes, faults>>

-----------------------------------------------------------------------------
(* Leases                                                                  *)

\* The lease of a dead owner is not renewed and passes its deadline.
Lapse(j) ==
    /\ status[j] \in Active /\ j \notin lapsed
    /\ owner[j] \in Schedulers /\ pc[owner[j]] = "dead"
    /\ lapsed' = lapsed \cup {j}
    /\ UNCHANGED <<status, owner, attempts, runs, pc, batchVars, stepVars, ended, budgets>>

\* A live owner's renewals stall past the deadline: store errors, a paused
\* process, a claim that has not reached its ActiveJobLease yet.
Stall(j) ==
    /\ status[j] \in Active /\ j \notin lapsed
    /\ owner[j] \in Schedulers /\ pc[owner[j]] # "dead"
    /\ stalls < MaxStalls
    /\ stalls' = stalls + 1
    /\ lapsed' = lapsed \cup {j}
    /\ UNCHANGED <<status, owner, attempts, runs, pc, batchVars, stepVars, ended,
                   cancels, crashes, faults, cleanups>>

\* The ActiveJobLease thread of a job in the executing batch.
Renew(s, j) ==
    /\ pc[s] \in Executing
    /\ j \in runnable[s] \cup {cur[s]}
    /\ status[j] \in Active /\ owner[j] = s
    /\ j \in lapsed
    /\ lapsed' = lapsed \ {j}
    /\ UNCHANGED <<status, owner, attempts, runs, pc, batchVars, stepVars, ended, budgets>>

-----------------------------------------------------------------------------
(* A scheduler pass: claim                                                 *)

\* SQLiteStore.claim_due_jobs, one immediate transaction.
Claim(s) ==
    /\ pc[s] = "idle"
    /\ Claimable # {}
    /\ \E S \in SUBSET Claimable :
          /\ \/ Cardinality(S) = ClaimLimit
             \/ S = Claimable /\ Cardinality(S) < ClaimLimit
          /\ \A i \in S, j \in Claimable \ S : Before(i, j)
          /\ status' = [j \in Jobs |-> IF j \in S THEN "leased" ELSE status[j]]
          /\ owner' = [j \in Jobs |-> IF j \in S THEN s ELSE owner[j]]
          /\ lapsed' = lapsed \ S
          /\ checking' = [checking EXCEPT ![s] = S]
          /\ seen' = [seen EXCEPT ![s] = [j \in Jobs |-> IF j \in S THEN attempts[j] ELSE 0]]
    /\ pc' = [pc EXCEPT ![s] = "check_project"]
    /\ UNCHANGED <<attempts, runs, runnable, stepVars, ended, budgets>>

\* Where a pass goes once the sets of unchecked and runnable jobs are C and R.
AfterCheck(C, R) ==
    CASE C # {} -> "check_project"
      [] C = {} /\ R # {} -> "mark"
      [] OTHER -> "idle"

\* A concurrency check reads one count; the deferral is a later transaction.
CheckProject(s, j) ==
    /\ pc[s] = "check_project"
    /\ j \in checking[s] /\ IsFirst(j, checking[s])
    /\ LET limit == MaxProjectRunning[KindOf[j]]
           full  == limit # Unbounded /\ Cardinality(ActiveOthers(j, Jobs)) >= limit
       IN  pc' = [pc EXCEPT ![s] = IF full THEN "defer" ELSE "check_kind"]
    /\ UNCHANGED <<jobVars, runs, batchVars, stepVars, ended, budgets>>

CheckKind(s, j) ==
    /\ pc[s] = "check_kind"
    /\ j \in checking[s] /\ IsFirst(j, checking[s])
    /\ LET limit == MaxRunning[KindOf[j]]
           peers == {i \in Jobs : KindOf[i] = KindOf[j]}
           full  == limit # Unbounded /\ Cardinality(ActiveOthers(j, peers)) >= limit
           rest  == checking[s] \ {j}
           ready == runnable[s] \cup {j}
       IN  \/ /\ full
              /\ pc' = [pc EXCEPT ![s] = "defer"]
              /\ UNCHANGED batchVars
           \/ /\ ~ full
              /\ checking' = [checking EXCEPT ![s] = rest]
              /\ runnable' = [runnable EXCEPT ![s] = ready]
              /\ pc' = [pc EXCEPT ![s] = AfterCheck(rest, ready)]
              /\ UNCHANGED seen
    /\ UNCHANGED <<jobVars, runs, stepVars, ended, budgets>>

Defer(s, j) ==
    /\ pc[s] = "defer"
    /\ j \in checking[s] /\ IsFirst(j, checking[s])
    /\ FinishJob(j, "queued")
    /\ checking' = [checking EXCEPT ![s] = @ \ {j}]
    /\ seen' = [seen EXCEPT ![s][j] = 0]
    /\ pc' = [pc EXCEPT ![s] = AfterCheck(checking[s] \ {j}, runnable[s])]
    /\ UNCHANGED <<runs, runnable, stepVars, ended, budgets>>

-----------------------------------------------------------------------------
(* A scheduler pass: execute                                               *)

\* The attempt of the current job is over: take the next one or end the pass.
EndAttempt(s) ==
    /\ pc' = [pc EXCEPT ![s] = AfterCheck({}, runnable[s])]
    /\ seen' = IF cur[s] = 0 THEN seen ELSE [seen EXCEPT ![s][cur[s]] = 0]
    /\ cur' = [cur EXCEPT ![s] = 0]
    /\ try' = [try EXCEPT ![s] = 0]
    /\ run' = [run EXCEPT ![s] = 0]
    /\ verdict' = [verdict EXCEPT ![s] = "failed"]
    /\ found' = [found EXCEPT ![s] = NoRow]
    /\ UNCHANGED <<checking, runnable>>

\* Mutant: the job is marked running by id alone (mark_job_running).
MarkAnyJob(s, j) ==
    /\ pc[s] = "mark"
    /\ j \in runnable[s] /\ IsFirst(j, runnable[s])
    /\ status' = [status EXCEPT ![j] = "running"]
    /\ attempts' = [attempts EXCEPT ![j] = seen[s][j] + 1]
    /\ runnable' = [runnable EXCEPT ![s] = @ \ {j}]
    /\ cur' = [cur EXCEPT ![s] = j]
    /\ try' = [try EXCEPT ![s] = seen[s][j] + 1]
    /\ pc' = [pc EXCEPT ![s] = "prepare"]
    /\ UNCHANGED <<owner, lapsed, runs, checking, seen, run, verdict, found, ended, budgets>>

\* try_mark_job_running succeeds; job.running is emitted.
MarkRunning(s, j) ==
    /\ pc[s] = "mark"
    /\ j \in runnable[s] /\ IsFirst(j, runnable[s])
    /\ status[j] = "leased" /\ owner[j] = s
    /\ status' = [status EXCEPT ![j] = "running"]
    /\ attempts' = [attempts EXCEPT ![j] = seen[s][j] + 1]
    /\ runnable' = [runnable EXCEPT ![s] = @ \ {j}]
    /\ cur' = [cur EXCEPT ![s] = j]
    /\ try' = [try EXCEPT ![s] = seen[s][j] + 1]
    /\ pc' = [pc EXCEPT ![s] = "prepare"]
    /\ UNCHANGED <<owner, lapsed, runs, checking, seen, run, verdict, found, ended, budgets>>

\* try_mark_job_running matches no row: JobAttemptSuperseded, skip the job.
Superseded(s, j) ==
    /\ pc[s] = "mark"
    /\ j \in runnable[s] /\ IsFirst(j, runnable[s])
    /\ ~ (status[j] = "leased" /\ owner[j] = s)
    /\ runnable' = [runnable EXCEPT ![s] = @ \ {j}]
    /\ seen' = [seen EXCEPT ![s][j] = 0]
    /\ pc' = [pc EXCEPT ![s] = AfterCheck({}, runnable[s] \ {j})]
    /\ UNCHANGED <<jobVars, runs, checking, stepVars, ended, budgets>>

\* The validation gate lets the attempt pass and start_run inserts its Run.
StartRun(s) ==
    /\ pc[s] = "prepare"
    /\ runs' = Append(runs, [job |-> cur[s], attempt |-> try[s], status |-> "running"])
    /\ run' = [run EXCEPT ![s] = Len(runs) + 1]
    /\ pc' = [pc EXCEPT ![s] = "working"]
    /\ UNCHANGED <<jobVars, batchVars, cur, try, verdict, found, ended, budgets>>

\* The validation gate refuses the image; no Run exists yet.
RejectByValidation(s) ==
    /\ pc[s] = "prepare"
    /\ verdict' = [verdict EXCEPT ![s] = "rejected"]
    /\ pc' = [pc EXCEPT ![s] = "finalize"]
    /\ UNCHANGED <<jobVars, runs, batchVars, cur, try, run, found, ended, budgets>>

\* The runtime returns and _status_for_result classifies the result.
WorkerReturns(s, result) ==
    /\ pc[s] = "working"
    /\ verdict' = [verdict EXCEPT ![s] = result]
    /\ pc' = [pc EXCEPT ![s] = "finalize"]
    /\ UNCHANGED <<jobVars, runs, batchVars, cur, try, run, found, ended, budgets>>

\* The Run status and the job status an attempt ends with.
RunStatusOf(v) == IF v = "rejected" THEN "failed" ELSE v
Retrying(s) == verdict[s] = "failed" /\ try[s] <= MaxRetries[cur[s]]
JobStatusOf(s) == IF Retrying(s) THEN "retrying" ELSE RunStatusOf(verdict[s])

\* Mutant: the attempt number alone decides.
OwnsByNumber(s, j, a) == attempts[j] = a

\* The job transition of attempt a still belongs to scheduler s.
OwnsAttempt(s, j, a) ==
    /\ owner[j] = s
    /\ \/ status[j] = "running" /\ attempts[j] = a
       \/ status[j] = "leased" /\ attempts[j] + 1 = a

\* Mutant: a finished Run is finished again.
CanRefinish(j, r, a) == status[j] = "deleted"

\* finalize_attempt raises and rolls back: the job row is gone, or Run r is
\* already finished, or it is the running Run of another attempt.
CannotFinalize(j, r, a) ==
    \/ status[j] = "deleted"
    \/ /\ r # 0
       /\ \/ runs[r].status \in TerminalRun
          \/ runs[r].status = "running" /\ runs[r].attempt # a

\* finalize_attempt commits: the job moves only if s still owns the attempt,
\* the Run is finished in place, or inserted when it has no row.
FinalizeAttempt(s, j, r, a, runStatus, jobStatus) ==
    /\ ~ CannotFinalize(j, r, a)
    /\ IF OwnsAttempt(s, j, a)
       THEN /\ status' = [status EXCEPT ![j] = jobStatus]
            /\ owner' = [owner EXCEPT ![j] = NoOwner]
            /\ lapsed' = lapsed \ {j}
       ELSE UNCHANGED <<status, owner, lapsed>>
    /\ runs' = IF r = 0
               THEN Append(runs, [job |-> j, attempt |-> a, status |-> runStatus])
               ELSE [runs EXCEPT ![r].status = runStatus, ![r].attempt = a]
    /\ UNCHANGED attempts

\* The attempt is finalized while s still owns it: an event is due.
FinalizeOwned(s) ==
    /\ pc[s] = "finalize"
    /\ OwnsAttempt(s, cur[s], try[s])
    /\ FinalizeAttempt(s, cur[s], run[s], try[s], RunStatusOf(verdict[s]), JobStatusOf(s))
    /\ pc' = [pc EXCEPT ![s] = "emit"]
    /\ UNCHANGED <<batchVars, stepVars, ended, budgets>>

\* Outcome cancelled or stale: only the Run is written, no event follows.
FinalizeLost(s) ==
    /\ pc[s] = "finalize"
    /\ ~ OwnsAttempt(s, cur[s], try[s])
    /\ FinalizeAttempt(s, cur[s], run[s], try[s], RunStatusOf(verdict[s]), JobStatusOf(s))
    /\ EndAttempt(s)
    /\ UNCHANGED <<ended, budgets>>

\* job.completed, job.failed and job.timed_out end a job; job.retrying and
\* validation.scheduling_rejected are emitted here too.
Emit(s) ==
    /\ pc[s] = "emit"
    /\ ended' = IF verdict[s] = "rejected" \/ Retrying(s)
                THEN ended ELSE [ended EXCEPT ![cur[s]] = @ + 1]
    /\ EndAttempt(s)
    /\ UNCHANGED <<jobVars, runs, budgets>>

-----------------------------------------------------------------------------
(* A scheduler pass: an attempt that raises                                *)

\* run_once catches whatever _execute_claimed_job raised.
Caught(s) ==
    /\ pc' = [pc EXCEPT ![s] = "recover"]
    /\ try' = [try EXCEPT ![s] = 0]
    /\ run' = [run EXCEPT ![s] = 0]
    /\ verdict' = [verdict EXCEPT ![s] = "failed"]

\* The registry, the runtime or a store call raises; a store transaction
\* that raises has not happened.
Fault(s) ==
    /\ faults < MaxFaults
    /\ faults' = faults + 1
    /\ pc[s] \in {"prepare", "working", "finalize", "emit"}
    /\ Caught(s)
    /\ UNCHANGED <<jobVars, runs, batchVars, cur, found, ended, cancels, stalls, crashes, cleanups>>

FaultAtMark(s, j) ==
    /\ faults < MaxFaults
    /\ faults' = faults + 1
    /\ pc[s] = "mark"
    /\ j \in runnable[s] /\ IsFirst(j, runnable[s])
    /\ runnable' = [runnable EXCEPT ![s] = @ \ {j}]
    /\ cur' = [cur EXCEPT ![s] = j]
    /\ Caught(s)
    /\ UNCHANGED <<jobVars, runs, checking, seen, found, ended, cancels, stalls, crashes, cleanups>>

FinalizeRaises(s) ==
    /\ pc[s] = "finalize"
    /\ CannotFinalize(cur[s], run[s], try[s])
    /\ Caught(s)
    /\ UNCHANGED <<jobVars, runs, batchVars, cur, found, ended, budgets>>

\* record_unexpected_job_failure reads the job row; without one it raises
\* out of run_once and run_loop.
RecoverReadJob(s) ==
    /\ pc[s] = "recover"
    /\ \/ /\ status[cur[s]] = "deleted"
          /\ pc' = [pc EXCEPT ![s] = "dead"]
          /\ UNCHANGED found
       \/ /\ status[cur[s]] # "deleted"
          /\ found' = [found EXCEPT ![s] = [status |-> status[cur[s]], attempts |-> attempts[cur[s]]]]
          /\ pc' = [pc EXCEPT ![s] = "inspect"]
    /\ UNCHANGED <<jobVars, runs, batchVars, cur, try, run, verdict, ended, budgets>>

JobRuns(j) == {r \in DOMAIN runs : runs[r].job = j /\ runs[r].status # "deleted"}

\* max(prior_runs, key = (attempt, finished?, time)); times that tie on the
\* first two are left open.
IsLatest(r, R) ==
    /\ r \in R
    /\ \A q \in R : \/ runs[q].attempt < runs[r].attempt
                    \/ /\ runs[q].attempt = runs[r].attempt
                       /\ runs[r].status = "running" => runs[q].status = "running"

\* Mutant: the attempt a lease stands for is not counted in.
RecoveredAttemptAsRead(s) == found[s].attempts

\* The attempt recovery files the failure under.
RecoveredAttempt(s) ==
    LET a == IF found[s].status = "leased" THEN found[s].attempts + 1 ELSE found[s].attempts
        b == seen[s][cur[s]] + 1
    IN  IF a >= b THEN a ELSE b

\* The latest Run already speaks for the job: keep it, settle the row on it
\* unless the row is terminal or leased again.
RecoverKeepsRun(s, r) ==
    /\ pc[s] = "inspect"
    /\ IsLatest(r, JobRuns(cur[s]))
    /\ runs[r].status # "running" /\ runs[r].attempt >= found[s].attempts
    /\ \/ /\ found[s].status \in Terminal
          /\ EndAttempt(s)
       \/ /\ found[s].status \notin Terminal \cup {"leased"}
          /\ verdict' = [verdict EXCEPT ![s] = runs[r].status]
          /\ pc' = [pc EXCEPT ![s] = "settle"]
          /\ UNCHANGED <<batchVars, cur, try, run, found>>
    /\ UNCHANGED <<jobVars, runs, ended, budgets>>

\* Otherwise a failed Run is written, in place of the latest running one if
\* there is one for this attempt count.
RecoverFilesRun(s) ==
    /\ pc[s] = "inspect"
    /\ LET R == JobRuns(cur[s])
           inPlace(r) == /\ IsLatest(r, R)
                         /\ runs[r].status = "running"
                         /\ runs[r].attempt >= found[s].attempts
           keeps(r) == /\ IsLatest(r, R)
                       /\ runs[r].status # "running"
                       /\ runs[r].attempt >= found[s].attempts
                       /\ found[s].status # "leased"
       IN  \/ \E r \in R : inPlace(r) /\ run' = [run EXCEPT ![s] = r]
           \/ /\ ~ \E r \in R : inPlace(r) \/ keeps(r)
              /\ UNCHANGED run
    /\ try' = [try EXCEPT ![s] = RecoveredAttempt(s)]
    /\ pc' = [pc EXCEPT ![s] = "refinalize"]
    /\ UNCHANGED <<jobVars, runs, batchVars, cur, verdict, found, ended, budgets>>

Settle(s) ==
    /\ pc[s] = "settle"
    /\ FinishJob(cur[s], verdict[s])
    /\ EndAttempt(s)
    /\ UNCHANGED <<runs, ended, budgets>>

\* finalize_job_attempt(status = "failed"); a raise here escapes run_once.
Refinalize(s) ==
    /\ pc[s] = "refinalize"
    /\ \/ /\ FinalizeAttempt(s, cur[s], run[s], try[s], "failed", "failed")
          /\ IF OwnsAttempt(s, cur[s], try[s])
             THEN pc' = [pc EXCEPT ![s] = "report"] /\ UNCHANGED <<batchVars, stepVars>>
             ELSE EndAttempt(s)
       \/ /\ CannotFinalize(cur[s], run[s], try[s])
          /\ pc' = [pc EXCEPT ![s] = "dead"]
          /\ UNCHANGED <<jobVars, runs, batchVars, stepVars>>
    /\ UNCHANGED <<ended, budgets>>

\* job.failed after a recovered attempt.
Report(s) ==
    /\ pc[s] = "report"
    /\ ended' = [ended EXCEPT ![cur[s]] = @ + 1]
    /\ EndAttempt(s)
    /\ UNCHANGED <<jobVars, runs, budgets>>

\* The process dies: a kill, or a store error outside the guarded region.
Crash(s) ==
    /\ crashes < MaxCrashes
    /\ crashes' = crashes + 1
    /\ pc[s] # "dead"
    /\ pc' = [pc EXCEPT ![s] = "dead"]
    /\ UNCHANGED <<jobVars, runs, batchVars, stepVars, ended, cancels, stalls, faults, cleanups>>

-----------------------------------------------------------------------------
PassStep(s) ==
    \/ Claim(s)
    \/ \E j \in Jobs : \/ CheckProject(s, j) \/ CheckKind(s, j) \/ Defer(s, j)
                       \/ MarkRunning(s, j) \/ Superseded(s, j)
    \/ StartRun(s)
    \/ RejectByValidation(s)
    \/ \E result \in TerminalRun : WorkerReturns(s, result)
    \/ FinalizeOwned(s)
    \/ FinalizeLost(s)
    \/ Emit(s)
    \/ FinalizeRaises(s)
    \/ RecoverReadJob(s)
    \/ \E r \in DOMAIN runs : RecoverKeepsRun(s, r)
    \/ RecoverFilesRun(s)
    \/ Settle(s)
    \/ Refinalize(s)
    \/ Report(s)

Next ==
    \/ \E s \in Schedulers : \/ PassStep(s)
                             \/ Fault(s)
                             \/ \E j \in Jobs : FaultAtMark(s, j) \/ Renew(s, j)
                             \/ Crash(s)
    \/ \E j \in Jobs : Submit(j) \/ Cancel(j) \/ Lapse(j) \/ Stall(j)
    \/ Cleanup

Spec == Init /\ [][Next]_vars

\* run_loop keeps taking steps until its process dies, a worker returns
\* within its timeout, a renewal thread runs every interval, and the lease
\* of a dead owner passes its deadline.
Fairness ==
    /\ \A s \in Schedulers : WF_vars(PassStep(s))
    /\ \A s \in Schedulers, j \in Jobs : WF_vars(Renew(s, j))
    /\ \A j \in Jobs : WF_vars(Lapse(j))

FairSpec == Spec /\ Fairness

-----------------------------------------------------------------------------
(* Properties                                                              *)

Holds(s) ==
    checking[s] \cup runnable[s] \cup (IF cur[s] = 0 THEN {} ELSE {cur[s]})

\* A leased or running row names an owner, any other row names none, and a
\* scheduler that is still alive still has every job it owns in its pass: no
\* path through execution, supersession or recovery walks away from a lease
\* (scheduler_failures: "without leaving leased work in limbo").
NoLeaseInLimbo ==
    \A j \in Jobs :
        /\ owner[j] # NoOwner <=> status[j] \in Active
        /\ \A s \in Schedulers :
              owner[j] = s /\ pc[s] # "dead" => j \in Holds(s)

\* A running row whose owner is alive is the attempt that owner is executing
\* now, under the attempt number the row counts: the row never credits one
\* scheduler's attempt to another.
RunningIsExecuted ==
    \A j \in Jobs, s \in Schedulers :
        status[j] = "running" /\ owner[j] = s /\ pc[s] # "dead"
            => /\ cur[s] = j
               /\ pc[s] \in {"prepare", "working", "finalize"} => try[s] = attempts[j]

\* The claimed snapshot a scheduler executes from is never stale where it is
\* used: while s owns a lease, the row's attempt_count is the one s read.
SnapshotCurrent ==
    \A j \in Jobs, s \in Schedulers :
        status[j] = "leased" /\ owner[j] = s /\ pc[s] # "dead"
            => seen[s][j] = attempts[j]

\* Why the three properties above are inductive.  The shape of a pass: which
\* jobs a scheduler holds in each phase.
Attempting == Executing \ {"mark"}
PassShape(s) ==
    /\ checking[s] \cap runnable[s] = {}
    /\ pc[s] = "idle" => checking[s] = {} /\ runnable[s] = {}
    /\ pc[s] \in Executing => checking[s] = {}
    /\ pc[s] \in Attempting => cur[s] \in Jobs /\ cur[s] \notin runnable[s]
    /\ pc[s] \notin Attempting \cup {"dead"} => cur[s] = 0
    /\ pc[s] = "settle" => verdict[s] \in TerminalRun

\* What a live scheduler knows of a row as long as it owns it: nobody else
\* moves that row, so what it read of the row before is still current.
OwnedRow(s, j) ==
    /\ j \in Holds(s)
    /\ status[j] = "leased" => seen[s][j] = attempts[j]
    /\ status[j] = "running" => cur[s] = j /\ attempts[j] = seen[s][j] + 1
    /\ cur[s] = j =>
          /\ pc[s] \notin {"emit", "report"}
          /\ pc[s] \in {"prepare", "working", "finalize"} => status[j] = "running" /\ try[s] = attempts[j]
          /\ pc[s] = "inspect" => found[s].status = status[j] /\ found[s].attempts = attempts[j]
          /\ pc[s] = "refinalize" => OwnsAttempt(s, j, try[s])

RowsOwned == \A j \in Jobs : owner[j] # NoOwner <=> status[j] \in Active
PassInv(s) ==
    /\ PassShape(s)
    /\ pc[s] # "dead" => \A j \in Jobs : owner[j] = s => OwnedRow(s, j)

IndInv ==
    /\ TypeOK
    /\ RowsOwned
    /\ \A s \in Schedulers : PassInv(s)

\* At most one Run row carries a given attempt of a job, across retries,
\* reclaims of lapsed leases and cancellations ("a retry receives a later
\* attempt").
AttemptsAreUnique ==
    \A q, r \in DOMAIN runs :
        runs[q].job = runs[r].job /\ runs[q].attempt = runs[r].attempt => q = r

\* A job announces its end at most once: no second job.completed, .failed,
\* .timed_out or .cancelled is emitted whatever schedulers and API race for.
EndsAtMostOnce == \A j \in Jobs : ended[j] <= 1

\* Jobs past their concurrency check never exceed the cap of their kind, or
\* the largest project cap in force, although count and deferral are separate
\* transactions and several schedulers check at once.
Admitted ==
    {j \in Jobs : status[j] \in Active
                  /\ \E s \in Schedulers : owner[j] = s /\ j \notin checking[s]}
CapsRespected ==
    /\ \A k \in Kinds : MaxRunning[k] # Unbounded =>
          Cardinality({j \in Admitted : KindOf[j] = k}) <= MaxRunning[k]
    /\ (\A k \in Kinds : MaxProjectRunning[k] # Unbounded) =>
          \E k \in Kinds : Cardinality(Admitted) <= MaxProjectRunning[k]

\* A scheduler loop ends only with its process ("one malformed attempt must
\* not end the scheduler loop", run_once).
LoopSurvives ==
    Cardinality({s \in Schedulers : pc[s] = "dead"}) <= crashes

\* A job that was cancelled while its worker is active stays cancelled
\* (docs/causal-lifecycle-ordering.md).
CancelledStaysCancelled ==
    [][\A j \in Jobs :
          status[j] = "cancelled" /\ (\E s \in Schedulers : cur[s] = j /\ pc[s] = "working")
              => status'[j] \in {"cancelled", "deleted"}]_vars

\* A finished Run keeps its status, attempt and job until cleanup deletes it:
\* it is finished at most once and never takes on another attempt's result.
RunsFinishOnce ==
    [][\A r \in DOMAIN runs :
          runs[r].status \in TerminalRun =>
              \/ runs'[r] = runs[r]
              \/ runs'[r].status = "deleted"]_vars

\* attempt_count never decreases and grows by one only when the lease owner
\* marks its job running.
AttemptsCountMarks ==
    [][\A j \in Jobs : attempts'[j] # attempts[j] =>
          /\ attempts'[j] = attempts[j] + 1
          /\ status[j] = "leased" /\ status'[j] = "running"]_vars

\* The queue implements the job lifecycle: jobs end once and stay ended, an
\* attempt is counted only by the start of a leased job, a retry is taken
\* only while retries remain, and only ended jobs are deleted.
Lifecycle == INSTANCE JobLifecycle
                 WITH Jobs <- Jobs, MaxRetries <- MaxRetries,
                      status <- status, attempts <- attempts
ImplementsLifecycle == Lifecycle!Spec

\* Every submitted job is eventually finished, cancelled or deleted, though a
\* scheduler may crash in any step, a lease may stall and an attempt may raise.
EveryJobEnds ==
    \A j \in Jobs : status[j] = "queued" ~> status[j] \in Terminal \cup {"deleted"}

=============================================================================
