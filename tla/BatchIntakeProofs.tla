------------------------- MODULE BatchIntakeProofs -------------------------
(***************************************************************************)
(* Proofs about BatchIntake, for any batches, items, limits, policies and   *)
(* bounds: accepted limits, children of batches and cleanups, and verdicts. *)
(***************************************************************************)
EXTENDS BatchIntake, TLAPS

-----------------------------------------------------------------------------
(* The inductive invariant *)

\* Every request that has been accepted and not yet saved holds limits within
\* the ceiling it was accepted under, and so does every job of a registry kind.
Under(limit, ceiling) == limit # Unset /\ ceiling # Unset => limit <= ceiling

Accepted ==
    /\ \A f \in Fanouts : \A b \in {batch[f]} :
          b.at = "saving" => \A i \in Items : Under(b.asks[i], b.ceiling)
    /\ retry.at = "save" => Under(retry.limit, retry.ceiling)
    /\ \A j \in JobIds : \A row \in {jobs[j]} :
          row # Unset /\ row.kind = "registry" => Under(row.limit, row.ceiling)

\* Ids are handed out in order, and the job a CLI executes is of no batch.
Numbered ==
    /\ \A j \in JobIds : jobs[j] # Unset => j <= issued
    /\ cli # Unset => cli <= issued /\ (jobs[cli] # Unset => jobs[cli].fan = Unset)

\* No cleanup holds a batch that nobody has asked for.
Begun ==
    \A f \in Fanouts : batch[f].at = "none" =>
        /\ f \notin fanouts /\ ~Taken(f)
        /\ cleanup.at = "check" => f \notin cleanup.left

\* Of a batch that no cleanup met: while jobs of it are to be saved it is in
\* the table and no cleanup takes it, its children have it, and a cleanup that
\* takes it takes all its children, which it can tell because it has listed
\* every child that is over before it looks.
Attached(f) ==
    /\ UnderWay(f) => f \in fanouts /\ ~Taken(f)
    /\ \A j \in JobIds : \A row \in {jobs[j]} : row # Unset /\ row.fan = f =>
          /\ f \in fanouts
          /\ Taken(f) => j \in cleanup.jobs
          /\ Unchecked(f) /\ row.status \in TerminalStatuses => j \in cleanup.jobs

AllAttached == \A f \in Fanouts : f \notin met => Attached(f)

IntakeInv == IntakeTypeOK /\ Accepted /\ Numbered /\ Begun /\ AllAttached

-----------------------------------------------------------------------------
(* Types *)

Statuses == {"queued", "active"} \cup TerminalStatuses

Bound == Limits \cup {Unset}

\* What the policy makes of a request's limit is a limit.
LEMMA EffectiveType ==
    ASSUME IntakeTypeOK, NEW ask \in Bound
    PROVE  Effective(ask) \in Bound /\ policy.ceilings \in Bound
  BY BatchAssumption DEF IntakeTypeOK, Effective, Merged, Bound

\* An accepted limit is within the ceiling in force.
LEMMA WithinIsUnder ==
    ASSUME NEW limit, WithinCeilings(limit)
    PROVE  Under(limit, policy.ceilings)
  BY DEF WithinCeilings, Under

\* The row of a new job, field by field.
LEMMA NewJobRow ==
    ASSUME NEW kind \in {"registry", "notebook"}, NEW fan \in Fanouts \cup {Unset},
           NEW limit \in Bound, NEW ceiling \in Bound,
           NEW row, row = [kind |-> kind, fan |-> fan, status |-> "queued", limit |-> limit,
                           ceiling |-> ceiling]
    PROVE  /\ row \in JobRow /\ row # Unset
           /\ row.kind = kind /\ row.fan = fan /\ row.limit = limit /\ row.ceiling = ceiling
          /\ row.status = "queued"
<1>1. row \in JobRow
  BY DEF JobRow, Bound
<1> QED BY <1>1, UnsetAssumption

\* save_job takes the next id and leaves every other row alone.
LEMMA SaveJobType ==
    ASSUME IntakeTypeOK, NEW row \in JobRow, SaveJob(row)
    PROVE  /\ jobs' \in [JobIds -> JobRow \cup {Unset}]
           /\ issued' \in 0..MaxJobs /\ issued' = issued + 1
           /\ issued + 1 \in JobIds
           /\ jobs'[issued + 1] = row
           /\ \A j \in JobIds : j # issued + 1 => jobs'[j] = jobs[j]
<1>1. issued + 1 \in JobIds /\ issued' \in 0..MaxJobs /\ issued' = issued + 1
  BY BatchAssumption DEF IntakeTypeOK, SaveJob, JobIds
<1> QED BY <1>1 DEF IntakeTypeOK, SaveJob

\* A job that is not of a batch.
LEMMA SaveSingleRow ==
    ASSUME IntakeTypeOK, NEW kind \in {"registry", "notebook"}, NEW limit \in Bound,
           SaveSingle(kind, limit)
    PROVE  \E row \in JobRow :
              /\ SaveJob(row) /\ row.fan = Unset /\ row.status = "queued" /\ singles' \in 0..quota.singles
              /\ row.kind = kind /\ row.limit = limit /\ row.ceiling = policy.ceilings
              /\ row.status = "queued"
<1>1. PICK row : row = NewJob(kind, Unset, limit)
  OBVIOUS
<1>2. policy.ceilings \in Bound
  BY BatchAssumption DEF IntakeTypeOK, Bound
<1>3. row \in JobRow /\ row.kind = kind /\ row.fan = Unset /\ row.limit = limit
      /\ row.ceiling = policy.ceilings /\ row.status = "queued"
  BY <1>1, <1>2, NewJobRow DEF NewJob
<1>4. SaveJob(row) /\ singles' \in 0..quota.singles
  BY <1>1, BatchAssumption DEF SaveSingle, IntakeTypeOK
<1> QED BY <1>3, <1>4

\* A child is saved with the limit and the ceiling of its batch.
LEMMA SaveChildRow ==
    ASSUME IntakeTypeOK, NEW f \in Fanouts, NEW i \in Items, SaveChild(f, i), NEW b, b = batch[f]
    PROVE  /\ b \in Batches /\ b.at = "saving"
           /\ \E row \in JobRow :
                /\ SaveJob(row) /\ row.fan = f /\ row.status = "queued"
                /\ row.limit = b.asks[i] /\ row.ceiling = b.ceiling
<1>1. b \in Batches /\ b.at = "saving"
  BY DEF IntakeTypeOK, SaveChild, Creating
<1>2. b.asks[i] \in Bound /\ b.ceiling \in Bound
  BY <1>1 DEF Batches, Bound
<1>3. PICK row : row = [kind |-> "registry", fan |-> f, status |-> "queued",
                        limit |-> b.asks[i], ceiling |-> b.ceiling]
  OBVIOUS
<1>4. row \in JobRow /\ row.fan = f /\ row.limit = b.asks[i] /\ row.ceiling = b.ceiling
      /\ row.status = "queued"
  BY <1>2, <1>3, NewJobRow
<1>5. SaveJob([NewJob("registry", f, b.asks[i]) EXCEPT !.ceiling = b.ceiling])
  BY DEF SaveChild
<1>6. [NewJob("registry", f, b.asks[i]) EXCEPT !.ceiling = b.ceiling] = row
  BY <1>3 DEF NewJob
<1> QED BY <1>1, <1>4, <1>5, <1>6

\* A retry is saved with the batch, the limit and the ceiling it holds.
LEMMA SaveRetryRow ==
    ASSUME IntakeTypeOK, SaveRetry
    PROVE  /\ retry.at = "save"
           /\ \E row \in JobRow :
                /\ SaveJob(row) /\ row.fan = retry.fan /\ row.status = "queued"
                /\ row.limit = retry.limit /\ row.ceiling = retry.ceiling
<1>1. retry.at = "save"
  BY DEF SaveRetry
<1>2. retry.limit \in Bound /\ retry.ceiling \in Bound /\ retry.fan \in Fanouts \cup {Unset}
  BY <1>1 DEF IntakeTypeOK, Retries, Bound
<1>3. PICK row : row = [kind |-> "registry", fan |-> retry.fan, status |-> "queued",
                        limit |-> retry.limit, ceiling |-> retry.ceiling]
  OBVIOUS
<1>4. row \in JobRow /\ row.fan = retry.fan /\ row.limit = retry.limit
      /\ row.ceiling = retry.ceiling /\ row.status = "queued"
  BY <1>2, <1>3, NewJobRow
<1>5. SaveJob([NewJob("registry", retry.fan, retry.limit) EXCEPT !.ceiling = retry.ceiling])
  BY DEF SaveRetry
<1>6. [NewJob("registry", retry.fan, retry.limit) EXCEPT !.ceiling = retry.ceiling] = row
  BY <1>3 DEF NewJob
<1> QED BY <1>1, <1>4, <1>5, <1>6

\* A row with another status is a row with everything else as it was.
LEMMA StatusRow ==
    ASSUME NEW row \in JobRow, NEW status \in Statuses,
           NEW new, new = [row EXCEPT !.status = status]
    PROVE  /\ new \in JobRow /\ new # Unset /\ new.status = status
           /\ new.kind = row.kind /\ new.fan = row.fan
           /\ new.limit = row.limit /\ new.ceiling = row.ceiling
<1>1. new \in JobRow /\ new.status = status
      /\ new.kind = row.kind /\ new.fan = row.fan
      /\ new.limit = row.limit /\ new.ceiling = row.ceiling
  BY DEF JobRow, Statuses
<1> QED BY <1>1, UnsetAssumption

\* A upset is counted within its bound.
LEMMA ClashCounts ==
    ASSUME IntakeTypeOK, NEW does \in BOOLEAN, Upset(does), quota' = quota
    PROVE  upsets' \in 0..quota'.upsets
<1>1. quota.upsets \in Nat /\ upsets \in 0..quota.upsets
  BY BatchAssumption DEF IntakeTypeOK
<1> QED BY <1>1 DEF Upset

\* Where a new job comes from: a single submission that was accepted or is of
\* a notebook kind, a batch that is being saved, or a retry.
Originates(n) ==
    \/ n.fan = Unset /\ (n.kind = "registry" => Under(n.limit, n.ceiling))
    \/ \E f \in Fanouts, i \in Items :
          /\ Creating(f) /\ n.fan = f
          /\ n.limit = batch[f].asks[i] /\ n.ceiling = batch[f].ceiling
    \/ retry.at = "save" /\ n.fan = retry.fan
          /\ n.limit = retry.limit /\ n.ceiling = retry.ceiling

\* Who writes a status: the CLI, anyone before the job is over, marking its
\* batch when a cleanup is about to look at it, and finish_job afterwards.
Rewritten(o, j, status) ==
    \/ j = cli
    \/ /\ o.status \notin TerminalStatuses
       /\ status \in TerminalStatuses => \A f \in Fanouts : f = o.fan /\ Unchecked(f) => f \in met'
    \/ o.status \in TerminalStatuses /\ late' # late

\* What a step does to one row of the jobs table.
Moved(o, n, j) ==
    \/ n = o
    \/ n = Unset
    \/ /\ j = issued + 1 /\ issued' = issued + 1 /\ n \in JobRow /\ Originates(n)
       /\ n.status = "queued"
    \/ /\ o \in JobRow
       /\ \E status \in Statuses : Rewritten(o, j, status) /\ n = [o EXCEPT !.status = status]

\* Rows are inserted whole and then only change status.
LEMMA JobMoves ==
    ASSUME IntakeTypeOK, [IntakeNext]_intakeVars
    PROVE  /\ jobs' \in [JobIds -> JobRow \cup {Unset}]
           /\ \A j \in JobIds : Moved(jobs[j], jobs'[j], j)
           /\ issued' \in 0..MaxJobs
           /\ singles' \in 0..quota.singles
           /\ issued <= issued'
<1> DEFINE Goal == /\ jobs' \in [JobIds -> JobRow \cup {Unset}]
                   /\ \A j \in JobIds : Moved(jobs[j], jobs'[j], j)
                   /\ issued' \in 0..MaxJobs
                   /\ singles' \in 0..quota.singles
                   /\ issued <= issued'
<1> SUFFICES Goal
  OBVIOUS
<1>0. issued \in Nat /\ MaxJobs \in Nat
  BY BatchAssumption DEF IntakeTypeOK
<1>1. ASSUME UNCHANGED <<jobs, issued, singles>>
      PROVE  Goal
  BY <1>0, <1>1 DEF IntakeTypeOK, Moved
<1>2. ASSUME NEW row \in JobRow, row.status = "queued", Originates(row), SaveJob(row), singles' \in 0..quota.singles
      PROVE  Goal
  <2>1. /\ jobs' \in [JobIds -> JobRow \cup {Unset}]
        /\ issued' \in 0..MaxJobs /\ issued' = issued + 1
        /\ jobs'[issued + 1] = row
        /\ \A j \in JobIds : j # issued + 1 => jobs'[j] = jobs[j]
    BY <1>2, SaveJobType
  <2>2. \A j \in JobIds : Moved(jobs[j], jobs'[j], j)
    BY <1>2, <2>1 DEF Moved
  <2>3. issued <= issued'
    BY <1>0, <2>1
  <2> QED BY <1>2, <2>1, <2>2, <2>3
<1>3. ASSUME NEW j \in JobIds, NEW status \in Statuses, jobs[j] # Unset,
             Rewritten(jobs[j], j, status),
             jobs' = [jobs EXCEPT ![j].status = status], UNCHANGED <<issued, singles>>
      PROVE  Goal
  <2>1. PICK row \in JobRow : row = jobs[j]
    BY <1>3 DEF IntakeTypeOK
  <2>2. PICK new : new = [row EXCEPT !.status = status]
    OBVIOUS
  <2>3. new \in JobRow
    BY <2>2, StatusRow
  <2>4. jobs' = [jobs EXCEPT ![j] = new]
    BY <1>3, <2>1, <2>2 DEF IntakeTypeOK
  <2>5. jobs' \in [JobIds -> JobRow \cup {Unset}]
    BY <2>3, <2>4 DEF IntakeTypeOK
  <2>6. \A k \in JobIds : k # j => jobs'[k] = jobs[k]
    BY <2>4 DEF IntakeTypeOK
  <2>7. jobs'[j] = new
    BY <2>4 DEF IntakeTypeOK
  <2>8. \A k \in JobIds : Moved(jobs[k], jobs'[k], k)
    BY <1>3, <2>1, <2>2, <2>6, <2>7 DEF Moved
  <2> QED BY <1>0, <1>3, <2>5, <2>8 DEF IntakeTypeOK
<1>4. ASSUME NEW ask \in Asks, QueueJob(ask) \/ QueueNotebook(ask) \/ CliSubmit(ask)
      PROVE  Goal
  <2>1. ask \in Bound /\ Effective(ask) \in Bound
    BY BatchAssumption, EffectiveType DEF Bound
  <2>2. CASE WithinCeilings(Effective(ask)) /\ SaveSingle("registry", Effective(ask))
    <3>1. PICK row \in JobRow :
              /\ SaveJob(row) /\ row.fan = Unset /\ row.status = "queued" /\ singles' \in 0..quota.singles
              /\ row.limit = Effective(ask) /\ row.ceiling = policy.ceilings
      BY <2>1, <2>2, SaveSingleRow
    <3>2. Originates(row)
      BY <2>2, <3>1, WithinIsUnder DEF Originates
    <3> QED BY <1>2, <3>1, <3>2
  <2>3. CASE SaveSingle("notebook", ask)
    <3>1. PICK row \in JobRow :
              /\ SaveJob(row) /\ row.fan = Unset /\ row.status = "queued" /\ singles' \in 0..quota.singles
              /\ row.kind = "notebook"
      BY <2>1, <2>3, SaveSingleRow
    <3>2. Originates(row)
      BY <3>1 DEF Originates
    <3> QED BY <1>2, <3>1, <3>2
  <2> QED BY <1>4, <2>2, <2>3 DEF QueueJob, QueueNotebook, CliSubmit
<1>5. ASSUME NEW s \in TerminalStatuses, CliFinish(s)
      PROVE  Goal
  <2>1. cli \in JobIds /\ s \in Statuses
    BY <1>5 DEF CliFinish, IntakeTypeOK, Statuses
  <2>2. CASE jobs[cli] = Unset
    BY <1>1, <1>5, <2>2 DEF CliFinish
  <2>3. CASE jobs[cli] # Unset
    <3>1. /\ jobs' = [jobs EXCEPT ![cli].status = s] /\ UNCHANGED <<issued, singles>>
          /\ Rewritten(jobs[cli], cli, s)
      BY <1>5, <2>3 DEF CliFinish, Rewritten
    <3> QED BY <1>3, <2>1, <2>3, <3>1
  <2> QED BY <2>2, <2>3
<1>6. ASSUME NEW f \in Fanouts, Fanout(f)
      PROVE  Goal
  <2>1. ASSUME NEW i \in Items, SaveChild(f, i)
        PROVE  Goal
    <3>1. PICK row \in JobRow :
              /\ SaveJob(row) /\ row.fan = f /\ row.status = "queued"
              /\ row.limit = batch[f].asks[i] /\ row.ceiling = batch[f].ceiling
      BY <2>1, SaveChildRow
    <3>2. singles' \in 0..quota.singles
      BY <2>1 DEF SaveChild, IntakeTypeOK
    <3>3. Originates(row)
      BY <2>1, <3>1 DEF Originates, SaveChild
    <3> QED BY <1>2, <3>1, <3>2, <3>3
  <2> QED BY <1>1, <1>6, <2>1 DEF Fanout, CreateFanout, AnswerFanout, CrashFanout
<1>7. ASSUME NEW j \in JobIds, NEW s \in Statuses, Progress(j, s) \/ FinishLate(j, s)
      PROVE  Goal
  <2>1. CASE Progress(j, s)
    <3>1. Rewritten(jobs[j], j, s)
      BY <2>1 DEF Progress, Rewritten
    <3> QED BY <1>3, <2>1, <3>1 DEF Progress, Saved
  <2>2. CASE FinishLate(j, s)
    <3>1. late' # late
      BY <2>2 DEF FinishLate, IntakeTypeOK
    <3>2. Rewritten(jobs[j], j, s)
      BY <2>2, <3>1 DEF FinishLate, Rewritten
    <3> QED BY <1>3, <2>2, <3>2 DEF FinishLate, Saved
  <2> QED BY <1>7, <2>1, <2>2
<1>8. ASSUME SaveRetry
      PROVE  Goal
  <2>1. PICK row \in JobRow :
            /\ SaveJob(row) /\ row.fan = retry.fan /\ row.status = "queued"
            /\ row.limit = retry.limit /\ row.ceiling = retry.ceiling
    BY <1>8, SaveRetryRow
  <2>2. singles' \in 0..quota.singles
    BY <1>8 DEF SaveRetry, IntakeTypeOK
  <2>3. Originates(row)
    BY <1>8, <2>1 DEF Originates, SaveRetry
  <2> QED BY <1>2, <2>1, <2>2, <2>3
<1>9. ASSUME CommitCleanup
      PROVE  Goal
  <2>1. jobs' = [j \in JobIds |-> IF j \in cleanup.jobs THEN Unset ELSE jobs[j]]
        /\ UNCHANGED <<issued, singles>>
    BY <1>9 DEF CommitCleanup
  <2>2. jobs' \in [JobIds -> JobRow \cup {Unset}]
    BY <2>1 DEF IntakeTypeOK
  <2>3. \A j \in JobIds : Moved(jobs[j], jobs'[j], j)
    BY <2>1 DEF Moved
  <2> QED BY <1>0, <2>1, <2>2, <2>3 DEF IntakeTypeOK
<1>10. CASE UNCHANGED intakeVars
  BY <1>1, <1>10 DEF intakeVars
<1> HIDE DEF Goal
<1>11. CASE SubmitJob
  BY <1>4, <1>5, <1>11 DEF SubmitJob
<1>12. CASE \E j \in JobIds :
              \/ \E s \in {"queued", "active"} \cup TerminalStatuses : Progress(j, s)
              \/ \E s \in {"queued"} \cup TerminalStatuses : FinishLate(j, s)
              \/ \E ask \in Asks : BeginRetry(j, ask)
  BY <1>1, <1>7, <1>12 DEF BeginRetry, Statuses
<1>13. CASE \/ BeginCleanup \/ ListFanouts \/ PreviewCleanup
            \/ \E f \in Fanouts : CheckFanout(f)
            \/ \E new \in Policies : ReloadPolicy(new)
  BY <1>1, <1>13 DEF BeginCleanup, ListFanouts, CheckFanout, PreviewCleanup, ReloadPolicy
<1> QED BY <1>6, <1>8, <1>9, <1>10, <1>11, <1>12, <1>13 DEF IntakeNext

\* What a step does to the creation of one batch.
BatchMoves(f, b, c) ==
    \/ c = b
    \/ c.at \notin {"none", "saving"} /\ c \in Batches
    \/ /\ b.at = "saving" /\ c.at = "saving" /\ c \in Batches
       /\ c.asks = b.asks /\ c.ceiling = b.ceiling
    \/ /\ b.at = "none" /\ c.at = "saving" /\ c \in Batches
       /\ \A i \in Items : Under(c.asks[i], c.ceiling)
       /\ fanouts' = fanouts \cup {f}
       /\ cleanup' = cleanup

\* A batch moves through its steps in order.
LEMMA BatchStep ==
    ASSUME IntakeTypeOK, [IntakeNext]_intakeVars
    PROVE  /\ batch' \in [Fanouts -> Batches]
           /\ \A f \in Fanouts : BatchMoves(f, batch[f], batch'[f])
<1> DEFINE Goal == /\ batch' \in [Fanouts -> Batches]
                   /\ \A f \in Fanouts : BatchMoves(f, batch[f], batch'[f])
<1> SUFFICES Goal
  OBVIOUS
<1>1. ASSUME batch' = batch
      PROVE  Goal
  BY <1>1 DEF IntakeTypeOK, BatchMoves
<1>2. ASSUME NEW f \in Fanouts, NEW c \in Batches, batch' = [batch EXCEPT ![f] = c],
             BatchMoves(f, batch[f], c)
      PROVE  Goal
  <2>1. batch' \in [Fanouts -> Batches]
    BY <1>2 DEF IntakeTypeOK
  <2>2. batch'[f] = c /\ \A g \in Fanouts : g # f => batch'[g] = batch[g]
    BY <1>2 DEF IntakeTypeOK
  <2>3. \A g \in Fanouts : g # f => BatchMoves(g, batch[g], batch'[g])
    BY <2>2 DEF BatchMoves
  <2>4. \A g \in Fanouts : BatchMoves(g, batch[g], batch'[g])
    BY <1>2, <2>2, <2>3
  <2> QED BY <2>1, <2>4
<1>3. ASSUME NEW f \in Fanouts, NEW asks \in [Items -> Asks], CreateFanout(f, asks)
      PROVE  Goal
  <2>1. CASE \A i \in Items : WithinCeilings(Effective(asks[i]))
    <3>1. PICK g : g = [i \in Items |-> Effective(asks[i])]
      OBVIOUS
    <3>2. PICK c : c = [at |-> "saving", left |-> Items, asks |-> g, ceiling |-> policy.ceilings]
      OBVIOUS
    <3>3. \A i \in Items : asks[i] \in Bound
      BY BatchAssumption DEF Bound
    <3>4. policy.ceilings \in Bound
      BY BatchAssumption DEF IntakeTypeOK, Bound
    <3>5. g \in [Items -> Bound]
      BY <3>1, <3>3, EffectiveType
    <3>6. c \in Batches /\ c.at = "saving" /\ c.asks = g /\ c.ceiling = policy.ceilings
      BY <3>2, <3>4, <3>5 DEF Batches, Bound
    <3>7. \A i \in Items : Under(g[i], policy.ceilings)
      BY <2>1, <3>1, WithinIsUnder
    <3>8. /\ batch' = [batch EXCEPT ![f] = c]
          /\ fanouts' = fanouts \cup {f} /\ batch[f].at = "none"
          /\ cleanup' = cleanup
      BY <1>3, <2>1, <3>1, <3>2 DEF CreateFanout
    <3>9. BatchMoves(f, batch[f], c)
      BY <3>6, <3>7, <3>8 DEF BatchMoves
    <3> QED BY <1>2, <3>6, <3>8, <3>9
  <2>2. CASE ~\A i \in Items : WithinCeilings(Effective(asks[i]))
    <3>1. PICK c : c = [at |-> "rejected"]
      OBVIOUS
    <3>2. c \in Batches /\ c.at \notin {"none", "saving"}
      BY <3>1 DEF Batches
    <3>3. batch' = [batch EXCEPT ![f] = c]
      BY <1>3, <2>2, <3>1 DEF CreateFanout
    <3>4. BatchMoves(f, batch[f], c)
      BY <3>2 DEF BatchMoves
    <3> QED BY <1>2, <3>2, <3>3, <3>4
  <2> QED BY <2>1, <2>2
<1>4. ASSUME NEW f \in Fanouts, NEW i \in Items, SaveChild(f, i)
      PROVE  Goal
  <2>1. PICK b \in Batches : b = batch[f]
    BY DEF IntakeTypeOK
  <2>2. b.at = "saving"
    BY <1>4, <2>1 DEF SaveChild, Creating
  <2>3. PICK c : c = [b EXCEPT !.left = b.left \ {i}]
    OBVIOUS
  <2>4. c \in Batches /\ c.at = "saving" /\ c.asks = b.asks /\ c.ceiling = b.ceiling
    BY <2>2, <2>3 DEF Batches
  <2>5. batch' = [batch EXCEPT ![f] = c]
    BY <1>4, <2>1, <2>3 DEF SaveChild, IntakeTypeOK
  <2>6. BatchMoves(f, batch[f], c)
    BY <2>1, <2>2, <2>4 DEF BatchMoves
  <2> QED BY <1>2, <2>4, <2>5, <2>6
<1>5. ASSUME NEW f \in Fanouts, AnswerFanout(f) \/ CrashFanout(f)
      PROVE  Goal
  <2>1. PICK at \in {"done", "lost", "crashed"} : batch' = [batch EXCEPT ![f] = [at |-> at]]
    BY <1>5 DEF AnswerFanout, CrashFanout
  <2>2. PICK c : c = [at |-> at]
    OBVIOUS
  <2>3. c \in Batches /\ c.at \notin {"none", "saving"}
    BY <2>2 DEF Batches
  <2>4. BatchMoves(f, batch[f], c)
    BY <2>3 DEF BatchMoves
  <2> QED BY <1>2, <2>1, <2>2, <2>3, <2>4
<1> HIDE DEF Goal
<1> QED BY <1>1, <1>3, <1>4, <1>5 DEF IntakeNext, SubmitJob, QueueJob, QueueNotebook, CliSubmit,
           CliFinish, Fanout, Progress, FinishLate, BeginRetry, SaveRetry, BeginCleanup, ListFanouts, CheckFanout, PreviewCleanup,
           CommitCleanup, ReloadPolicy, intakeVars

\* The retry in flight is as it was, idle, or a request that was accepted for
\* a job that is there.
LEMMA RetryStep ==
    ASSUME IntakeTypeOK, [IntakeNext]_intakeVars
    PROVE  /\ retry' \in Retries
           /\ \/ retry' = retry
              \/ retry'.at = "idle"
              \/ /\ retry'.at = "save"
                 /\ Under(retry'.limit, retry'.ceiling)
                 /\ UNCHANGED <<jobs, fanouts, batch, cleanup>>
                 /\ \E j \in JobIds : jobs[j] # Unset /\ retry'.fan = jobs[j].fan
                 /\ \A f \in Fanouts : f = retry'.fan /\ Taken(f) => f \in met'
<1>1. CASE retry' = retry
  BY <1>1 DEF IntakeTypeOK
<1>2. CASE SaveRetry
  BY <1>2 DEF SaveRetry, Retries
<1>3. ASSUME NEW j \in JobIds, NEW ask \in Asks, BeginRetry(j, ask)
      PROVE  /\ retry' \in Retries
             /\ retry'.at = "save"
             /\ Under(retry'.limit, retry'.ceiling)
             /\ UNCHANGED <<jobs, fanouts, batch, cleanup>>
             /\ jobs[j] # Unset /\ retry'.fan = jobs[j].fan
             /\ \A f \in Fanouts : f = retry'.fan /\ Taken(f) => f \in met'
  <2>1. PICK row \in JobRow : row = jobs[j]
    BY <1>3 DEF BeginRetry, Saved, IntakeTypeOK
  <2>2. row.limit \in Bound /\ row.fan \in Fanouts \cup {Unset} /\ ask \in Bound
    BY BatchAssumption DEF JobRow, Bound
  <2>3. Merged(row.limit, ask) \in Bound
    BY <2>2 DEF Merged
  <2>4. PICK l : l = RetryLimit(row, ask)
    OBVIOUS
  <2>5. l \in Bound /\ policy.ceilings \in Bound
    BY <2>3, <2>4, EffectiveType DEF RetryLimit
  <2>6. Under(l, policy.ceilings)
    BY <1>3, <2>1, <2>4, WithinIsUnder DEF BeginRetry
  <2>7. retry' = [at |-> "save", fan |-> row.fan, limit |-> l, ceiling |-> policy.ceilings]
    BY <1>3, <2>1, <2>4 DEF BeginRetry
  <2>8. retry' \in Retries /\ retry'.at = "save" /\ Under(retry'.limit, retry'.ceiling)
        /\ retry'.fan = row.fan
    BY <2>2, <2>5, <2>6, <2>7 DEF Retries, Bound
  <2> QED BY <1>3, <2>1, <2>8 DEF BeginRetry, Saved
<1>4. CASE \E j \in JobIds, ask \in Asks : BeginRetry(j, ask)
  BY <1>3, <1>4
<1> QED BY <1>1, <1>2, <1>4 DEF IntakeNext, SubmitJob, QueueJob, QueueNotebook, CliSubmit, CliFinish,
           Fanout, CreateFanout, SaveChild, AnswerFanout, CrashFanout, Progress, FinishLate,
           BeginCleanup, ListFanouts, CheckFanout, PreviewCleanup, CommitCleanup, ReloadPolicy, intakeVars

\* The cleanup in flight moves by its own steps, and only its commit takes
\* batches out of the table.
LEMMA CleanupStep ==
    ASSUME IntakeTypeOK, [IntakeNext]_intakeVars
    PROVE  /\ cleanup' \in Cleanups
           /\ fanouts' \subseteq Fanouts
           /\ \/ cleanup' = cleanup /\ fanouts \subseteq fanouts'
              \/ BeginCleanup \/ ListFanouts \/ PreviewCleanup \/ CommitCleanup
              \/ \E f \in Fanouts : CheckFanout(f)
<1>1. ASSUME NEW f \in Fanouts, NEW asks \in [Items -> Asks], CreateFanout(f, asks)
      PROVE  fanouts' \subseteq Fanouts /\ fanouts \subseteq fanouts' /\ cleanup' = cleanup
  <2>1. fanouts' = fanouts \cup {f} \/ fanouts' = fanouts
    BY <1>1 DEF CreateFanout
  <2>2. cleanup' = cleanup
    BY <1>1 DEF CreateFanout
  <2> QED BY <2>1, <2>2 DEF IntakeTypeOK
<1>2. CASE BeginCleanup
  <2> DEFINE js == {j \in Saved : jobs[j].status \in TerminalStatuses}
  <2>0. js \subseteq JobIds
    BY DEF Saved
  <2>1. cleanup' = [at |-> "list", jobs |-> js]
    BY <1>2 DEF BeginCleanup
  <2> HIDE DEF js
  <2>2. cleanup' \in Cleanups
    BY <2>0, <2>1 DEF Cleanups
  <2> QED BY <1>2, <2>2 DEF BeginCleanup, IntakeTypeOK
<1>3. CASE PreviewCleanup
  BY <1>3 DEF PreviewCleanup, IntakeTypeOK, Cleanups
<1>4. CASE CommitCleanup
  BY <1>4 DEF CommitCleanup, IntakeTypeOK, Cleanups
<1>5. CASE ListFanouts
  <2>1. cleanup.jobs \subseteq JobIds
    BY <1>5 DEF ListFanouts, IntakeTypeOK, Cleanups
  <2> QED BY <1>5, <2>1 DEF ListFanouts, IntakeTypeOK, Cleanups
<1>6. ASSUME NEW f \in Fanouts, CheckFanout(f)
      PROVE  cleanup' \in Cleanups /\ fanouts' \subseteq Fanouts
  <2>1. PICK c \in Cleanups : c = cleanup
    BY DEF IntakeTypeOK
  <2>2. c.at = "check"
    BY <1>6, <2>1 DEF CheckFanout
  <2>3. PICK d : d = [c EXCEPT !.left = @ \ {f},
                              !.fanouts = IF Over(f) THEN @ \cup {f} ELSE @]
    OBVIOUS
  <2>4. d \in Cleanups
    BY <2>2, <2>3 DEF Cleanups
  <2>5. cleanup' = d
    BY <1>6, <2>1, <2>3 DEF CheckFanout
  <2> QED BY <1>6, <2>4, <2>5 DEF CheckFanout, IntakeTypeOK
<1>7. CASE UNCHANGED <<cleanup, fanouts>>
  BY <1>7 DEF IntakeTypeOK
<1>8. CASE \E f \in Fanouts, asks \in [Items -> Asks] : CreateFanout(f, asks)
  BY <1>1, <1>8 DEF IntakeTypeOK
<1>9. CASE \E f \in Fanouts : CheckFanout(f)
  BY <1>6, <1>9
<1> QED BY <1>2, <1>3, <1>4, <1>5, <1>7, <1>8, <1>9 DEF IntakeNext, SubmitJob, QueueJob,
           QueueNotebook, CliSubmit, CliFinish, Fanout, SaveChild, AnswerFanout, CrashFanout,
           Progress, FinishLate, BeginRetry, SaveRetry, ReloadPolicy, intakeVars

\* Marks stay, and what is counted stays within its bound.
LEMMA CountStep ==
    ASSUME IntakeTypeOK, [IntakeNext]_intakeVars
    PROVE  /\ quota' = quota
           /\ met \subseteq met' /\ met' \subseteq Fanouts
           /\ late' \in Nat
           /\ upsets' \in 0..quota'.upsets
<1>1. quota' = quota
  BY DEF IntakeNext, SubmitJob, QueueJob, QueueNotebook, CliSubmit, CliFinish, Fanout,
         CreateFanout, SaveChild, AnswerFanout, CrashFanout, Progress, FinishLate, BeginRetry,
         SaveRetry, BeginCleanup, ListFanouts, CheckFanout, PreviewCleanup, CommitCleanup,
         ReloadPolicy, intakeVars
<1>2. met \subseteq met' /\ met' \subseteq Fanouts
  <2>1. ASSUME NEW S \in SUBSET Fanouts, met' = met \cup S
        PROVE  met \subseteq met' /\ met' \subseteq Fanouts
    BY <2>1 DEF IntakeTypeOK
  <2>2. CASE met' = met
    BY <2>2 DEF IntakeTypeOK
  <2>3. ASSUME NEW j \in JobIds, NEW s \in Statuses, Progress(j, s)
        PROVE  met \subseteq met' /\ met' \subseteq Fanouts
    BY <2>1, <2>3 DEF Progress
  <2>4. ASSUME NEW j \in JobIds, NEW ask \in Asks, BeginRetry(j, ask)
        PROVE  met \subseteq met' /\ met' \subseteq Fanouts
    BY <2>1, <2>4 DEF BeginRetry
  <2>5. ASSUME NEW f \in Fanouts, CheckFanout(f)
        PROVE  met \subseteq met' /\ met' \subseteq Fanouts
    BY <2>1, <2>2, <2>5 DEF CheckFanout
  <2>6. CASE \/ \E j \in JobIds, s \in Statuses : Progress(j, s)
             \/ \E j \in JobIds, ask \in Asks : BeginRetry(j, ask)
             \/ \E f \in Fanouts : CheckFanout(f)
    BY <2>3, <2>4, <2>5, <2>6
  <2> QED BY <2>2, <2>6 DEF IntakeNext, SubmitJob, QueueJob, QueueNotebook, CliSubmit, CliFinish,
             Fanout, CreateFanout, SaveChild, AnswerFanout, CrashFanout, FinishLate, SaveRetry,
             BeginCleanup, ListFanouts, PreviewCleanup, CommitCleanup, ReloadPolicy, intakeVars,
             Statuses
<1>3. late' \in Nat
  <2>1. CASE \E j \in JobIds, s \in {"queued"} \cup TerminalStatuses : FinishLate(j, s)
    BY <2>1 DEF FinishLate, IntakeTypeOK
  <2>2. CASE late' = late
    BY <2>2 DEF IntakeTypeOK
  <2> QED BY <2>1, <2>2 DEF IntakeNext, SubmitJob, QueueJob, QueueNotebook, CliSubmit, CliFinish,
             Fanout, CreateFanout, SaveChild, AnswerFanout, CrashFanout, Progress, BeginRetry,
             SaveRetry, BeginCleanup, ListFanouts, CheckFanout, PreviewCleanup, CommitCleanup,
             ReloadPolicy, intakeVars
<1>4. upsets' \in 0..quota'.upsets
  <2>1. CASE upsets' = upsets
    BY <1>1, <2>1 DEF IntakeTypeOK
  <2>2. CASE \E does \in BOOLEAN : Upset(does)
    BY <1>1, <2>2, ClashCounts
  <2>3. CASE \E j \in JobIds, ask \in Asks : BeginRetry(j, ask)
    BY <2>2, <2>3 DEF BeginRetry
  <2>4. CASE \E f \in Fanouts : CheckFanout(f)
    BY <2>2, <2>4 DEF CheckFanout
  <2>5. CASE \/ \E f \in Fanouts : CrashFanout(f)
             \/ \E j \in JobIds, s \in {"queued"} \cup TerminalStatuses : FinishLate(j, s)
             \/ \E new \in Policies : ReloadPolicy(new)
    BY <2>2, <2>5 DEF CrashFanout, FinishLate, ReloadPolicy
  <2> QED BY <2>1, <2>3, <2>4, <2>5 DEF IntakeNext, SubmitJob, QueueJob, QueueNotebook, CliSubmit,
             CliFinish, Fanout, CreateFanout, SaveChild, AnswerFanout, Progress, SaveRetry,
             BeginCleanup, ListFanouts, PreviewCleanup, CommitCleanup, intakeVars
<1> QED BY <1>1, <1>2, <1>3, <1>4

\* The CLI executes the job it has just saved, goes on executing, or stops.
LEMMA CliStep ==
    ASSUME IntakeTypeOK, [IntakeNext]_intakeVars
    PROVE  /\ cli' \in JobIds \cup {Unset}
           /\ \/ cli' = cli
              \/ cli' = Unset
              \/ /\ cli' = issued + 1 /\ issued' = issued + 1 /\ issued + 1 \in JobIds
                 /\ jobs'[issued + 1].fan = Unset
<1>1. ASSUME NEW ask \in Asks, CliSubmit(ask)
      PROVE  /\ cli' = issued + 1 /\ issued' = issued + 1 /\ issued + 1 \in JobIds
             /\ jobs'[issued + 1].fan = Unset
  <2>1. Effective(ask) \in Bound
    BY BatchAssumption, EffectiveType DEF Bound
  <2>2. PICK row \in JobRow : SaveJob(row) /\ row.fan = Unset
    BY <1>1, <2>1, SaveSingleRow DEF CliSubmit
  <2>3. issued' = issued + 1 /\ issued + 1 \in JobIds /\ jobs'[issued + 1] = row
    BY <2>2, SaveJobType
  <2> QED BY <1>1, <2>2, <2>3 DEF CliSubmit
<1>2. CASE \E ask \in Asks : CliSubmit(ask)
  BY <1>1, <1>2
<1>3. CASE cli' = Unset
  BY <1>3
<1>4. CASE cli' = cli
  BY <1>4 DEF IntakeTypeOK
<1> QED BY <1>2, <1>3, <1>4 DEF IntakeNext, SubmitJob, QueueJob, QueueNotebook, CliFinish, Fanout,
           CreateFanout, SaveChild, AnswerFanout, CrashFanout, Progress, FinishLate, BeginRetry, SaveRetry,
           BeginCleanup, ListFanouts, CheckFanout, PreviewCleanup, CommitCleanup, ReloadPolicy, intakeVars

\* Every step keeps the tables and batches well typed.
LEMMA TypeStep ==
    ASSUME IntakeTypeOK, [IntakeNext]_intakeVars
    PROVE  IntakeTypeOK'
<1>1. policy' \in Policies
  BY DEF IntakeTypeOK, IntakeNext, SubmitJob, QueueJob, QueueNotebook, CliSubmit, CliFinish, Fanout,
         CreateFanout, SaveChild, AnswerFanout, CrashFanout, Progress, FinishLate, BeginRetry, SaveRetry,
         BeginCleanup, ListFanouts, CheckFanout, PreviewCleanup, CommitCleanup, ReloadPolicy, intakeVars
<1> QED BY <1>1, JobMoves, BatchStep, RetryStep, CleanupStep, CountStep, CliStep DEF IntakeTypeOK

-----------------------------------------------------------------------------
(* Ceilings and ids *)

\* Every limit that is held or saved was accepted under the ceiling recorded
\* with it.
LEMMA AcceptedStep ==
    ASSUME IntakeTypeOK, Accepted, [IntakeNext]_intakeVars
    PROVE  Accepted'
<1>1. ASSUME NEW f \in Fanouts, NEW b, b = batch[f], NEW c, c = batch'[f], c.at = "saving"
      PROVE  \A i \in Items : Under(c.asks[i], c.ceiling)
  <2>1. BatchMoves(f, b, c)
    BY <1>1, BatchStep
  <2>2. b.at = "saving" => \A i \in Items : Under(b.asks[i], b.ceiling)
    BY <1>1 DEF Accepted
  <2> QED BY <1>1, <2>1, <2>2 DEF BatchMoves
<1>2. retry'.at = "save" => Under(retry'.limit, retry'.ceiling)
  BY RetryStep DEF Accepted
<1>3. ASSUME NEW j \in JobIds, NEW o, o = jobs[j], NEW n, n = jobs'[j], n # Unset,
             n.kind = "registry"
      PROVE  Under(n.limit, n.ceiling)
  <2>1. Moved(o, n, j)
    BY <1>3, JobMoves
  <2>2. o # Unset /\ o.kind = "registry" => Under(o.limit, o.ceiling)
    BY <1>3 DEF Accepted
  <2>3. CASE Originates(n)
    BY <1>3, <2>3 DEF Originates, Accepted, Creating
  <2>4. ASSUME o \in JobRow, NEW status \in Statuses, n = [o EXCEPT !.status = status]
        PROVE  Under(n.limit, n.ceiling)
    <3>1. n.kind = o.kind /\ n.limit = o.limit /\ n.ceiling = o.ceiling /\ o # Unset
      BY <2>4, StatusRow, UnsetAssumption
    <3> QED BY <1>3, <2>2, <3>1
  <2> QED BY <1>3, <2>1, <2>2, <2>3, <2>4 DEF Moved
<1> QED BY <1>1, <1>2, <1>3 DEF Accepted

\* The row of a new id is empty, and the job of the CLI stays of no batch.
LEMMA NumberedStep ==
    ASSUME IntakeTypeOK, Numbered, [IntakeNext]_intakeVars
    PROVE  Numbered'
<1>0. issued \in Nat /\ issued' \in Nat /\ issued <= issued' /\ JobIds \subseteq Nat
  BY JobMoves, BatchAssumption DEF IntakeTypeOK, JobIds
<1>1. ASSUME NEW j \in JobIds, jobs'[j] # Unset
      PROVE  j <= issued'
  <2>1. Moved(jobs[j], jobs'[j], j)
    BY JobMoves
  <2>2. CASE jobs[j] # Unset
    <3>1. j <= issued /\ j \in Nat
      BY <1>0, <2>2 DEF Numbered
    <3> QED BY <1>0, <3>1
  <2>3. CASE jobs[j] = Unset
    BY <1>0, <1>1, <2>1, <2>3, UnsetAssumption DEF Moved
  <2> QED BY <2>2, <2>3
<1>2. ASSUME cli' # Unset, cli' = cli
      PROVE  cli' <= issued' /\ (jobs'[cli'] # Unset => jobs'[cli'].fan = Unset)
  <2>1. PICK j \in JobIds : j = cli
    BY <1>2 DEF IntakeTypeOK
  <2>2. j <= issued /\ j \in Nat /\ (jobs[j] # Unset => jobs[j].fan = Unset)
    BY <1>0, <1>2, <2>1 DEF Numbered
  <2>3. j <= issued' /\ j # issued + 1
    BY <1>0, <2>2
  <2>4. Moved(jobs[j], jobs'[j], j)
    BY JobMoves
  <2>5. ASSUME jobs[j] \in JobRow, NEW status \in Statuses,
               jobs'[j] = [jobs[j] EXCEPT !.status = status]
        PROVE  jobs'[j].fan = Unset
    BY <2>2, <2>5, StatusRow, UnsetAssumption
  <2> QED BY <1>2, <2>1, <2>2, <2>3, <2>4, <2>5 DEF Moved
<1>3. ASSUME cli' # Unset, cli' # cli
      PROVE  cli' <= issued' /\ jobs'[cli'].fan = Unset
  <2>1. cli' = issued + 1 /\ issued' = issued + 1 /\ jobs'[issued + 1].fan = Unset
    BY <1>3, CliStep
  <2> QED BY <1>0, <2>1
<1> QED BY <1>1, <1>2, <1>3 DEF Numbered

-----------------------------------------------------------------------------
(* Children and their batches *)

\* A batch that nobody has asked for stays unknown to cleanups.
LEMMA BegunStep ==
    ASSUME IntakeTypeOK, Begun, [IntakeNext]_intakeVars
    PROVE  Begun'
<1> SUFFICES ASSUME NEW f \in Fanouts, batch'[f].at = "none"
             PROVE  /\ f \notin fanouts' /\ ~Taken(f)'
                    /\ cleanup'.at = "check" => f \notin cleanup'.left
  BY DEF Begun
<1>1. BatchMoves(f, batch[f], batch'[f])
  BY BatchStep
<1>2. batch[f].at = "none"
  BY <1>1 DEF BatchMoves
<1>3. f \notin fanouts /\ ~Taken(f) /\ (cleanup.at = "check" => f \notin cleanup.left)
  BY <1>2 DEF Begun
<1>4. f \notin fanouts'
  <2>1. ASSUME NEW g \in Fanouts, NEW asks \in [Items -> Asks], CreateFanout(g, asks)
        PROVE  f \notin fanouts'
    <3>1. CASE g = f
      <4>1. CASE \A i \in Items : WithinCeilings(Effective(asks[i]))
        <5>1. batch'[f].at = "saving"
          BY <2>1, <3>1, <4>1 DEF CreateFanout, IntakeTypeOK
        <5> QED BY <5>1
      <4>2. CASE ~\A i \in Items : WithinCeilings(Effective(asks[i]))
        BY <1>3, <2>1, <4>2 DEF CreateFanout
      <4> QED BY <4>1, <4>2
    <3>2. CASE g # f
      BY <1>3, <2>1, <3>2 DEF CreateFanout
    <3> QED BY <3>1, <3>2
  <2>2. CASE \E g \in Fanouts, asks \in [Items -> Asks] : CreateFanout(g, asks)
    BY <2>1, <2>2
  <2>3. CASE fanouts' \subseteq fanouts
    BY <1>3, <2>3
  <2> QED BY <2>2, <2>3 DEF IntakeNext, SubmitJob, QueueJob, QueueNotebook, CliSubmit, CliFinish,
             Fanout, SaveChild, AnswerFanout, CrashFanout, Progress, FinishLate, BeginRetry,
             SaveRetry, BeginCleanup, ListFanouts, CheckFanout, PreviewCleanup, CommitCleanup,
             ReloadPolicy, intakeVars
<1>5. ~Taken(f)' /\ (cleanup'.at = "check" => f \notin cleanup'.left)
  <2>1. CASE cleanup' = cleanup
    BY <1>3, <2>1 DEF Taken
  <2>2. CASE BeginCleanup \/ PreviewCleanup \/ CommitCleanup
    BY <2>2 DEF BeginCleanup, PreviewCleanup, CommitCleanup, Taken
  <2>3. CASE ListFanouts
    BY <1>3, <2>3 DEF ListFanouts, Taken
  <2>4. ASSUME NEW g \in Fanouts, CheckFanout(g)
        PROVE  ~Taken(f)' /\ (cleanup'.at = "check" => f \notin cleanup'.left)
    <3>1. g # f /\ cleanup.at = "check"
      BY <1>3, <2>4 DEF CheckFanout
    <3>2. PICK c \in Cleanups : c = cleanup /\ c.at = "check"
      BY <3>1 DEF IntakeTypeOK
    <3>3. cleanup' = [c EXCEPT !.left = @ \ {g}, !.fanouts = IF Over(g) THEN @ \cup {g} ELSE @]
      BY <2>4, <3>2 DEF CheckFanout
    <3>4. /\ cleanup'.left = c.left \ {g} /\ cleanup'.at = "check"
          /\ cleanup'.fanouts \subseteq c.fanouts \cup {g}
      BY <3>2, <3>3 DEF Cleanups
    <3> QED BY <1>3, <3>1, <3>2, <3>4 DEF Taken
  <2> QED BY <2>1, <2>2, <2>3, <2>4, CleanupStep
<1> QED BY <1>4, <1>5

\* What the look at one batch does to the cleanup.
LEMMA CheckMoves ==
    ASSUME IntakeTypeOK, NEW g \in Fanouts, CheckFanout(g)
    PROVE  /\ cleanup.at = "check" /\ cleanup'.at = "check"
           /\ cleanup'.jobs = cleanup.jobs
           /\ cleanup'.left = cleanup.left \ {g}
           /\ cleanup'.fanouts = IF Over(g) THEN cleanup.fanouts \cup {g} ELSE cleanup.fanouts
           /\ g \in cleanup.left
           /\ Over(g) /\ UnderWay(g) => g \in met'
           /\ UNCHANGED <<jobs, fanouts, batch, retry>>
<1>1. PICK c \in Cleanups : c = cleanup /\ c.at = "check"
  BY DEF IntakeTypeOK, CheckFanout
<1>2. PICK d : d = [c EXCEPT !.left = @ \ {g}, !.fanouts = IF Over(g) THEN @ \cup {g} ELSE @]
  OBVIOUS
<1>3. cleanup' = d
  BY <1>1, <1>2 DEF CheckFanout
<1>4. /\ d.at = "check" /\ d.jobs = c.jobs /\ d.left = c.left \ {g}
      /\ d.fanouts = IF Over(g) THEN c.fanouts \cup {g} ELSE c.fanouts
  BY <1>1, <1>2 DEF Cleanups
<1> QED BY <1>1, <1>3, <1>4 DEF CheckFanout

\* A cleanup that takes an unmarked batch leaves no job of it to be saved, and
\* the requests that save one leave it to no cleanup.
LEMMA UnderWayStep ==
    ASSUME IntakeTypeOK, Begun, [IntakeNext]_intakeVars, NEW f \in Fanouts, f \notin met', Attached(f),
           UnderWay(f)'
    PROVE  f \in fanouts' /\ ~Taken(f)'
<1>1. CASE UnderWay(f)
  <2>1. f \in fanouts /\ ~Taken(f)
    BY <1>1 DEF Attached
  <2>2. CASE cleanup' = cleanup /\ fanouts \subseteq fanouts'
    BY <2>1, <2>2 DEF Taken
  <2>3. CASE BeginCleanup \/ ListFanouts \/ PreviewCleanup
    BY <2>1, <2>3 DEF BeginCleanup, ListFanouts, PreviewCleanup, Taken
  <2>4. CASE CommitCleanup
    BY <2>1, <2>4 DEF CommitCleanup, Taken, Checked
  <2>5. ASSUME NEW g \in Fanouts, CheckFanout(g)
        PROVE  f \in fanouts' /\ ~Taken(f)'
    BY <1>1, <2>1, <2>5, CheckMoves DEF Taken
  <2> QED BY <2>2, <2>3, <2>4, <2>5, CleanupStep
<1>2. CASE ~UnderWay(f) /\ Creating(f)'
  <2>1. BatchMoves(f, batch[f], batch'[f])
    BY BatchStep
  <2>2. batch[f].at = "none" /\ fanouts' = fanouts \cup {f} /\ cleanup' = cleanup
    BY <1>2, <2>1 DEF BatchMoves, UnderWay, Creating
  <2> QED BY <2>2 DEF Begun, Taken
<1>3. CASE ~UnderWay(f) /\ retry'.at = "save" /\ retry'.fan = f
  <2>1. /\ UNCHANGED <<jobs, fanouts, batch, cleanup>>
        /\ \E j \in JobIds : jobs[j] # Unset /\ retry'.fan = jobs[j].fan
        /\ f = retry'.fan /\ Taken(f) => f \in met'
    BY <1>3, RetryStep DEF UnderWay
  <2>2. f \in fanouts
    BY <1>3, <2>1 DEF Attached
  <2>3. ~Taken(f)
    BY <1>3, <2>1
  <2> QED BY <2>1, <2>2, <2>3 DEF Taken
<1> QED BY <1>1, <1>2, <1>3 DEF UnderWay

\* Every child of an unmarked batch has it, and the cleanup that takes the
\* batch takes the child.
LEMMA ChildStep ==
    ASSUME IntakeTypeOK, Numbered, [IntakeNext]_intakeVars, NEW f \in Fanouts, f \notin met', Attached(f),
           NEW j \in JobIds, NEW n, n = jobs'[j], n # Unset, n.fan = f
    PROVE  /\ f \in fanouts'
           /\ Taken(f)' => j \in cleanup'.jobs
           /\ Unchecked(f)' /\ n.status \in TerminalStatuses => j \in cleanup'.jobs
<1> DEFINE o == jobs[j]
           Goal == /\ f \in fanouts'
                   /\ Taken(f)' => j \in cleanup'.jobs
                   /\ Unchecked(f)' /\ n.status \in TerminalStatuses => j \in cleanup'.jobs
<1> SUFFICES Goal
  OBVIOUS
<1>0. o # Unset /\ o.fan = f =>
          /\ f \in fanouts
          /\ Taken(f) => j \in cleanup.jobs
          /\ Unchecked(f) /\ o.status \in TerminalStatuses => j \in cleanup.jobs
  BY DEF Attached
<1>1. CASE cleanup' = cleanup /\ fanouts \subseteq fanouts'
  <2>1. Moved(o, n, j)
    BY JobMoves
  <2>2. CASE n = o
    BY <1>0, <1>1, <2>2 DEF Taken, Unchecked
  <2>3. CASE Originates(n) /\ n.status = "queued"
    <3>1. UnderWay(f)
      BY <2>3, BatchAssumption DEF Originates, UnderWay
    <3> QED BY <1>1, <2>3, <3>1 DEF Attached, Taken, TerminalStatuses
  <2>4. ASSUME o \in JobRow, NEW status \in Statuses, Rewritten(o, j, status),
               n = [o EXCEPT !.status = status]
        PROVE  Goal
    <3>1. n.fan = o.fan /\ n.status = status /\ o # Unset
      BY <2>4, StatusRow, UnsetAssumption
    <3>2. f \in fanouts' /\ (Taken(f)' => j \in cleanup'.jobs)
      BY <1>0, <1>1, <3>1 DEF Taken
    <3>3. j # cli
      <4>1. j # Unset /\ f # Unset
        BY BatchAssumption DEF JobIds
      <4> QED BY <3>1, <4>1 DEF Numbered
    <3>4. Unchecked(f)' /\ n.status \in TerminalStatuses => j \in cleanup'.jobs
      BY <1>0, <1>1, <2>4, <3>1, <3>3 DEF Rewritten, Unchecked
    <3> QED BY <3>2, <3>4
  <2> QED BY <2>1, <2>2, <2>3, <2>4 DEF Moved
<1>2. CASE BeginCleanup
  <2>1. jobs' = jobs /\ fanouts' = fanouts
        /\ cleanup' = [at |-> "list", jobs |-> {k \in Saved : jobs[k].status \in TerminalStatuses}]
    BY <1>2 DEF BeginCleanup
  <2>2. j \in Saved
    BY <2>1 DEF Saved
  <2> QED BY <1>0, <2>1, <2>2 DEF Taken
<1>3. CASE ListFanouts
  <2>1. /\ jobs' = jobs /\ fanouts' = fanouts /\ cleanup.at = "list"
        /\ cleanup' = [at |-> "check", jobs |-> cleanup.jobs, left |-> fanouts, fanouts |-> {}]
    BY <1>3 DEF ListFanouts
  <2> QED BY <1>0, <2>1 DEF Taken, Unchecked
<1>4. CASE PreviewCleanup
  BY <1>0, <1>4 DEF PreviewCleanup, Taken, Unchecked
<1>5. CASE CommitCleanup
  <2>1. /\ n = o /\ j \notin cleanup.jobs /\ fanouts' = fanouts \ cleanup.fanouts
        /\ cleanup' = [at |-> "idle"] /\ cleanup.at = "check"
    BY <1>5 DEF CommitCleanup, Checked
  <2> QED BY <1>0, <2>1 DEF Taken, Unchecked
<1>6. ASSUME NEW g \in Fanouts, CheckFanout(g)
      PROVE  Goal
  <2>1. /\ cleanup.at = "check" /\ cleanup'.at = "check"
        /\ cleanup'.jobs = cleanup.jobs
        /\ cleanup'.left = cleanup.left \ {g}
        /\ cleanup'.fanouts = IF Over(g) THEN cleanup.fanouts \cup {g} ELSE cleanup.fanouts
        /\ g \in cleanup.left
        /\ UNCHANGED <<jobs, fanouts>>
    BY <1>6, CheckMoves
  <2>2. f \in fanouts' /\ (Unchecked(f)' /\ n.status \in TerminalStatuses => j \in cleanup'.jobs)
    BY <1>0, <2>1 DEF Unchecked
  <2>3. ASSUME Taken(f)', ~Taken(f)
        PROVE  j \in cleanup'.jobs
    <3>1. f = g /\ Over(f) /\ Unchecked(f)
      BY <2>1, <2>3 DEF Taken, Unchecked
    <3>2. j \in Children(f)
      BY <2>1 DEF Children, Saved
    <3> QED BY <1>0, <2>1, <3>1, <3>2 DEF Over
  <2> QED BY <1>0, <2>1, <2>2, <2>3
<1> HIDE DEF Goal
<1> QED BY <1>1, <1>2, <1>3, <1>4, <1>5, <1>6, CleanupStep

\* Every step keeps unmarked batches attached to their jobs.
LEMMA AttachedStep ==
    ASSUME IntakeTypeOK, Numbered, Begun, AllAttached, [IntakeNext]_intakeVars
    PROVE  AllAttached'
<1> SUFFICES ASSUME NEW f \in Fanouts, f \notin met' PROVE Attached(f)'
  BY DEF AllAttached
<1>1. Attached(f)
  BY CountStep DEF AllAttached
<1> QED BY <1>1, UnderWayStep, ChildStep DEF Attached

-----------------------------------------------------------------------------
(* Verdicts *)

\* A child of a batch keeps its status once it is over, but for a late write:
\* the job that a CLI writes over is of no batch.
LEMMA ChildIsOver ==
    ASSUME IntakeTypeOK, Numbered, [IntakeNext]_intakeVars, NEW f \in Fanouts, NEW j \in Children(f),
           j \in Children(f)', jobs[j].status \in TerminalStatuses, late' = late
    PROVE  jobs'[j].status = jobs[j].status
<1>1. j \in JobIds /\ jobs[j] # Unset /\ jobs[j].fan = f /\ jobs'[j] # Unset
  BY DEF Children, Saved
<1>2. Moved(jobs[j], jobs'[j], j)
  BY <1>1, JobMoves
<1>3. j # issued + 1
  <2>1. issued \in Nat /\ j <= issued /\ j \in Nat
    BY <1>1, BatchAssumption DEF IntakeTypeOK, Numbered, JobIds
  <2> QED BY <2>1
<1>4. f # Unset
  BY BatchAssumption
<1>5. j # cli
  <2>1. j # Unset
    BY <1>1, BatchAssumption DEF JobIds
  <2> QED BY <1>1, <1>4, <2>1 DEF Numbered
<1> QED BY <1>1, <1>2, <1>3, <1>5 DEF Moved, Rewritten

\* derive_fanout_status of statuses that are all ends, and of any that hold
\* both kinds of end.
LEMMA Derived ==
    ASSUME NEW S \in SUBSET Statuses
    PROVE  /\ DeriveStatus(S) \in {"completed", "failed", "partial"} <=>
                 S # {} /\ (S \subseteq TerminalStatuses \/ TerminalStatuses \subseteq S)
           /\ TerminalStatuses \subseteq S => DeriveStatus(S) = "partial"
<1>1. TerminalStatuses \subseteq S => S # {} /\ S # {"completed"} /\ "completed" \in S
  BY DEF TerminalStatuses
<1>2. S = {"completed"} => S # {} /\ S \subseteq TerminalStatuses
  BY DEF TerminalStatuses
<1> QED BY <1>1, <1>2 DEF DeriveStatus

\* A step that leaves the children of a batch leaves its verdict.
LEMMA VerdictStays ==
    ASSUME IntakeTypeOK, Numbered, [IntakeNext]_intakeVars, NEW f \in Fanouts,
           Verdict(f) \in {"completed", "failed", "partial"},
           Children(f)' = Children(f), late' = late
    PROVE  Verdict(f)' = Verdict(f)
<1> DEFINE S == {jobs[j].status : j \in Children(f)}
           T == {jobs'[j].status : j \in Children(f)}
<1>1. Verdict(f) = DeriveStatus(S) /\ Verdict(f)' = DeriveStatus(T)
  BY DEF Verdict
<1>2. S \in SUBSET Statuses
  BY DEF Children, Saved, IntakeTypeOK, JobRow, Statuses
<1>3. T \in SUBSET Statuses
  <2>1. jobs' \in [JobIds -> JobRow \cup {Unset}]
    BY JobMoves
  <2>2. \A j \in Children(f) : j \in JobIds /\ jobs'[j] # Unset
    BY DEF Children, Saved
  <2>3. \A j \in Children(f) : jobs'[j] \in JobRow
    BY <2>1, <2>2
  <2> QED BY <2>3 DEF JobRow, Statuses
<1>4. \A j \in Children(f) : jobs[j].status \in TerminalStatuses => jobs'[j].status = jobs[j].status
  BY ChildIsOver
<1>5. CASE S \subseteq TerminalStatuses
  <2>1. T = S
    BY <1>4, <1>5
  <2> QED BY <1>1, <2>1
<1>6. CASE TerminalStatuses \subseteq S
  <2>1. ASSUME NEW s \in TerminalStatuses PROVE s \in T
    <3>1. PICK j \in Children(f) : s = jobs[j].status
      BY <1>6, <2>1
    <3> QED BY <1>4, <3>1
  <2>2. TerminalStatuses \subseteq T
    BY <2>1
  <2> HIDE DEF S, T
  <2> QED BY <1>1, <1>2, <1>3, <1>6, <2>2, Derived
<1>7. S \subseteq TerminalStatuses \/ TerminalStatuses \subseteq S
  <2> HIDE DEF S, T
  <2> QED BY <1>1, <1>2, Derived
<1> QED BY <1>5, <1>6, <1>7

-----------------------------------------------------------------------------
(* Theorems *)

\* No job and no batch exists at first.
LEMMA IntakeStart == IntakeInit => IntakeInv
<1> SUFFICES ASSUME IntakeInit PROVE IntakeInv
  OBVIOUS
<1>1. IntakeTypeOK
  BY BatchAssumption DEF IntakeInit, IntakeTypeOK, Batches, Retries, Cleanups
<1>2. Accepted /\ Numbered
  BY DEF IntakeInit, Accepted, Numbered
<1>3. Begun /\ AllAttached
  BY DEF IntakeInit, Begun, AllAttached, Attached, UnderWay, Creating, Taken, Unchecked
<1> QED BY <1>1, <1>2, <1>3 DEF IntakeInv

\* Every step keeps the invariant of the intake.
LEMMA IntakeStep ==
    ASSUME IntakeInv, [IntakeNext]_intakeVars
    PROVE  IntakeInv'
<1>1. IntakeTypeOK' /\ Accepted' /\ Numbered' /\ Begun'
  BY TypeStep, AcceptedStep, NumberedStep, BegunStep DEF IntakeInv
<1> QED BY <1>1, AttachedStep DEF IntakeInv

\* The inductive invariant holds of every behaviour.
THEOREM IntakeInvariant == IntakeSpec => []IntakeInv
<1>1. IntakeInit => IntakeInv
  BY IntakeStart
<1>2. IntakeInv /\ [IntakeNext]_intakeVars => IntakeInv'
  BY IntakeStep
<1> QED BY <1>1, <1>2, PTL DEF IntakeSpec

\* Tables and requests keep the shape of their records.
THEOREM IntakeTyped == IntakeSpec => []IntakeTypeOK
<1>1. IntakeInv => IntakeTypeOK
  BY DEF IntakeInv
<1> QED BY <1>1, IntakeInvariant, PTL

\* Whatever path a job of a registry kind took into the queue (_queue_job,
\* submit_job, create_fanout, retry_job), its limit is within the ceiling in
\* force when its request was accepted.
THEOREM JobsAreWithin == IntakeSpec => []JobsWithinCeiling
<1>1. IntakeInv => JobsWithinCeiling
  BY DEF IntakeInv, Accepted, Under, JobsWithinCeiling, Saved
<1> QED BY <1>1, IntakeInvariant, PTL

\* An unfinished child has its batch in the table, unless a job of that very
\* batch ended or was about to be saved between the reads of a cleanup
\* (cleanup_runtime_rows); writes of finish_job over an end included.
THEOREM LiveChildrenAttached == IntakeSpec => []LiveChildHasBatch
<1>1. IntakeInv => LiveChildHasBatch
  <2> SUFFICES ASSUME IntakeInv, NEW j \in Saved, NEW row, row = jobs[j],
                      row.fan \notin met \cup {Unset}
               PROVE  row.fan \in fanouts
    BY DEF LiveChildHasBatch
  <2>1. j \in JobIds /\ row # Unset /\ row \in JobRow
    BY DEF Saved, IntakeInv, IntakeTypeOK
  <2>2. PICK f \in Fanouts : f = row.fan
    BY <2>1 DEF JobRow
  <2>3. Attached(f)
    BY <2>2 DEF IntakeInv, AllAttached
  <2> QED BY <2>1, <2>2, <2>3 DEF Attached
<1> QED BY <1>1, IntakeInvariant, PTL

\* derive_fanout_status never takes back the verdict on a created batch while
\* its children are the same jobs and finish_job does not write over their end.
THEOREM VerdictsAreFinal == IntakeSpec => VerdictIsFinal
<1> DEFINE A == \A f \in Fanouts :
                   /\ batch[f].at = "done"
                   /\ Verdict(f) \in {"completed", "failed", "partial"}
                   /\ Children(f)' = Children(f)
                   /\ late' = late
                   => Verdict(f)' = Verdict(f)
<1>1. IntakeInv /\ [IntakeNext]_intakeVars => [A]_intakeVars
  <2>1. ASSUME IntakeInv, [IntakeNext]_intakeVars, NEW f \in Fanouts,
               Verdict(f) \in {"completed", "failed", "partial"},
               Children(f)' = Children(f), late' = late
        PROVE  Verdict(f)' = Verdict(f)
    BY <2>1, VerdictStays DEF IntakeInv
  <2> QED BY <2>1
<1>2. VerdictIsFinal <=> [][A]_intakeVars
  BY DEF VerdictIsFinal
<1> HIDE DEF A
<1> QED BY <1>1, <1>2, IntakeInvariant, PTL DEF IntakeSpec

=============================================================================
