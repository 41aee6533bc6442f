-------------------------- MODULE SchedulerProofs --------------------------
(***************************************************************************)
(* Proofs about the job queue, for every set of schedulers, number of jobs *)
(* and concurrency policy.                                                 *)
(*                                                                         *)
(* The argument is one inductive invariant, IndInv: a scheduler knows the  *)
(* row of every job it owns.  Owning a row excludes every other writer but *)
(* cancellation and finish_job, and both take the ownership away, so the   *)
(* reads a pass made before (the claimed snapshot, the row recovery looked *)
(* up) are still current wherever the row is still owned.  One lemma per   *)
(* action shows that it keeps IndInv; the first theorems follow.           *)
(*                                                                         *)
(* Three invariants on top of it carry the rest: AttemptInv (attempts in   *)
(* execution are counted and belong to one scheduler, while nothing        *)
(* raises), EndInv (a job whose end is still to be announced is finished,  *)
(* by one scheduler) and CapsInv (both counts are bounded at the check     *)
(* where they grow).                                                       *)
(***************************************************************************)
EXTENDS Scheduler, SequenceTheorems, FiniteSetTheorems, TLAPS

\* The step leaves the pass of scheduler s alone.
SameLocals(s) ==
    /\ pc'[s] = pc[s]
    /\ checking'[s] = checking[s]
    /\ runnable'[s] = runnable[s]
    /\ seen'[s] = seen[s]
    /\ cur'[s] = cur[s]
    /\ try'[s] = try[s]
    /\ verdict'[s] = verdict[s]
    /\ found'[s] = found[s]

\* Every row s owns after the step it owned before, unchanged.
KeepsOwned(s) ==
    \A j \in Jobs : owner'[j] = s =>
        /\ owner[j] = s
        /\ status'[j] = status[j]
        /\ attempts'[j] = attempts[j]

\* A scheduler whose pass does not move, and from whose rows nothing but
\* ownership is taken, keeps its part of the invariant: what another scheduler
\* or an API call does to the jobs table cannot make its reads stale.
LEMMA Frame ==
    ASSUME NEW s \in Schedulers, PassInv(s), SameLocals(s), KeepsOwned(s)
    PROVE  PassInv(s)'
  BY DEF PassInv, PassShape, OwnedRow, Holds, OwnsAttempt, SameLocals, KeepsOwned

\* 0, the empty `cur', is no job.
LEMMA ZeroIsNoJob == 0 \notin Jobs
  BY DEF Jobs

\* A function on 1 .. n is a table.
LEMMA SeqOfRows ==
    ASSUME NEW n \in Nat, NEW f \in [1 .. n -> RunRow]
    PROVE  f \in Seq(RunRow)
  BY SeqDef

\* finalize_attempt finishing Run r in place leaves a well-formed table.
LEMMA FinishRunType ==
    ASSUME TypeOK, NEW r \in Nat, NEW a \in Nat, NEW st \in TerminalRun
    PROVE  [runs EXCEPT ![r].status = st, ![r].attempt = a] \in Seq(RunRow)
<1> DEFINE new == [runs EXCEPT ![r].status = st, ![r].attempt = a]
<1>1. Len(runs) \in Nat /\ DOMAIN runs = 1 .. Len(runs) /\ runs \in [1 .. Len(runs) -> RunRow]
  BY LenProperties DEF TypeOK
<1>2. ASSUME NEW q \in 1 .. Len(runs) PROVE new[q] \in RunRow
  <2>1. runs[q] \in RunRow
    BY <1>1
  <2> QED BY <1>1, <2>1 DEF RunRow, RunStatus
<1>3. new \in [1 .. Len(runs) -> RunRow]
  BY <1>1, <1>2
<1> QED BY <1>1, <1>3, SeqOfRows

\* A row that s owns and is not executing stays known to s when the step
\* leaves the row, its snapshot and its place in the batch alone.
LEMMA OtherRow ==
    ASSUME NEW s \in Schedulers, NEW i \in Jobs,
           OwnedRow(s, i), i # cur[s], i # cur'[s],
           i \in checking[s] \cup runnable[s] => i \in checking'[s] \cup runnable'[s],
           seen'[s][i] = seen[s][i],
           status'[i] = status[i], attempts'[i] = attempts[i]
    PROVE  OwnedRow(s, i)'
  BY DEF OwnedRow, Holds

\* Ending an attempt resets the pass to values of the right type.
LEMMA EndAttemptTypes ==
    ASSUME TypeOK, NEW s \in Schedulers, EndAttempt(s)
    PROVE  /\ pc' \in [Schedulers -> PCs]
           /\ checking' \in [Schedulers -> SUBSET Jobs]
           /\ runnable' \in [Schedulers -> SUBSET Jobs]
           /\ seen' \in [Schedulers -> [Jobs -> Nat]]
           /\ cur' \in [Schedulers -> Jobs \cup {0}]
           /\ try' \in [Schedulers -> Nat]
           /\ run' \in [Schedulers -> Nat]
           /\ verdict' \in [Schedulers -> Verdicts]
           /\ found' \in [Schedulers -> [status : JobStatus, attempts : Nat]]
<1> USE DEF TypeOK, EndAttempt
<1>1. AfterCheck({}, runnable[s]) \in {"mark", "idle"}
  BY DEF AfterCheck
<1>2. pc' \in [Schedulers -> PCs]
  BY <1>1 DEF PCs, Executing
<1>3. seen' \in [Schedulers -> [Jobs -> Nat]]
  <2>1. CASE cur[s] = 0
    BY <2>1
  <2>2. CASE cur[s] # 0
    <3>1. cur[s] \in Jobs
      BY <2>2
    <3> QED BY <2>2, <3>1
  <2> QED BY <2>1, <2>2
<1>4. verdict' \in [Schedulers -> Verdicts]
  BY DEF Verdicts, TerminalRun
<1>5. found' \in [Schedulers -> [status : JobStatus, attempts : Nat]]
  BY DEF NoRow, JobStatus
<1>6. cur' \in [Schedulers -> Jobs \cup {0}] /\ try' \in [Schedulers -> Nat] /\ run' \in [Schedulers -> Nat]
  OBVIOUS
<1> QED BY <1>2, <1>3, <1>4, <1>5, <1>6

\* Ending an attempt of s moves no other pass.
LEMMA EndAttemptOthers ==
    ASSUME TypeOK, NEW s \in Schedulers, EndAttempt(s), NEW t \in Schedulers, t # s
    PROVE  SameLocals(t)
  BY DEF TypeOK, EndAttempt, SameLocals

\* Ending an attempt is safe once the executed row is no longer owned by s:
\* the pass forgets that row and still knows the rest of its batch.
LEMMA EndAttemptPass ==
    ASSUME TypeOK, NEW s \in Schedulers, PassInv(s), pc[s] \in Attempting, EndAttempt(s),
           KeepsOwned(s), owner'[cur[s]] # s
    PROVE  PassInv(s)'
<1>1. AfterCheck({}, runnable[s]) = IF runnable[s] = {} THEN "idle" ELSE "mark"
  BY DEF AfterCheck
<1>2. cur[s] \in Jobs /\ cur[s] # 0 /\ pc[s] # "dead" /\ checking[s] = {}
  BY ConstantsAssumption DEF PassInv, PassShape, Attempting, Executing, Jobs
<1>3. PassShape(s)'
  BY <1>1, <1>2 DEF TypeOK, EndAttempt, PassShape, PassInv, Attempting, Executing
<1>4. ASSUME NEW i \in Jobs, owner'[i] = s PROVE OwnedRow(s, i)'
  <2>1. i # cur[s] /\ i # cur'[s] /\ seen'[s][i] = seen[s][i]
    <3>1. i # cur[s]
      BY <1>4
    <3>2. cur'[s] = 0
      BY DEF TypeOK, EndAttempt
    <3>3. seen'[s][i] = seen[s][i]
      BY <1>2, <3>1 DEF TypeOK, EndAttempt
    <3> QED BY <3>1, <3>2, <3>3, ZeroIsNoJob
  <2>2. OwnedRow(s, i)
    BY <1>2, <1>4 DEF PassInv, KeepsOwned
  <2> QED BY <1>4, <2>1, <2>2, OtherRow DEF EndAttempt, KeepsOwned
<1> QED BY <1>3, <1>4 DEF PassInv

\* Before an attempt starts no job is being executed.
LEMMA NoJobYet ==
    ASSUME IndInv, NEW s \in Schedulers, pc[s] \in {"check_project", "check_kind", "defer", "mark"}
    PROVE  cur[s] = 0
<1>1. PassShape(s)
  BY DEF IndInv, PassInv
<1>2. pc[s] \notin Attempting \cup {"dead"}
  BY DEF Attempting, Executing
<1> QED BY <1>1, <1>2 DEF PassShape

\* A row owned by a live scheduler is active and known to its owner.
LEMMA LiveRow ==
    ASSUME IndInv, NEW s \in Schedulers, pc[s] # "dead", NEW i \in Jobs, owner[i] = s
    PROVE  OwnedRow(s, i) /\ status[i] \in Active
<1>1. OwnedRow(s, i)
  BY DEF IndInv, PassInv
<1>2. status[i] \in Active
  BY ConstantsAssumption DEF IndInv, RowsOwned
<1> QED BY <1>1, <1>2

\* During an attempt `cur' is a job.
LEMMA AttemptedJob ==
    ASSUME IndInv, NEW s \in Schedulers, pc[s] \in Attempting
    PROVE  cur[s] \in Jobs
  BY DEF IndInv, PassInv, PassShape

\* finalize_attempt keeps the tables well formed.
LEMMA FinalizeTypes ==
    ASSUME TypeOK, NEW s \in Schedulers, NEW j \in Jobs, NEW r \in Nat, NEW a \in Nat,
           NEW rs \in TerminalRun, NEW js \in TerminalRun \cup {"retrying"},
           FinalizeAttempt(s, j, r, a, rs, js)
    PROVE  /\ status' \in [Jobs -> JobStatus]
           /\ owner' \in [Jobs -> Schedulers \cup {NoOwner}]
           /\ lapsed' \in SUBSET Jobs
           /\ attempts' \in [Jobs -> Nat]
           /\ runs' \in Seq(RunRow)
<1>1. runs' \in Seq(RunRow)
  <2>1. CASE r = 0
    BY <2>1 DEF TypeOK, FinalizeAttempt, RunRow, RunStatus
  <2>2. CASE r # 0
    BY <2>2, FinishRunType DEF FinalizeAttempt
  <2> QED BY <2>1, <2>2
<1>2. status' \in [Jobs -> JobStatus]
  BY DEF TypeOK, FinalizeAttempt, JobStatus, Terminal
<1> QED BY <1>1, <1>2 DEF TypeOK, FinalizeAttempt

\* finalize_attempt takes the row from s when s owns the attempt, leaves
\* ownership alone otherwise, and takes no row from anyone else.
LEMMA FinalizeRows ==
    ASSUME TypeOK, RowsOwned, NEW s \in Schedulers, NEW j \in Jobs, NEW r, NEW a,
           NEW rs, NEW js \in TerminalRun \cup {"retrying"},
           FinalizeAttempt(s, j, r, a, rs, js)
    PROVE  /\ RowsOwned'
           /\ \A t \in Schedulers : KeepsOwned(t)
           /\ OwnsAttempt(s, j, a) => owner'[j] # s
           /\ ~ OwnsAttempt(s, j, a) => owner' = owner
<1>1. RowsOwned'
  BY ConstantsAssumption DEF TypeOK, FinalizeAttempt, RowsOwned, Active, TerminalRun
<1>2. \A t \in Schedulers : KeepsOwned(t)
  BY ConstantsAssumption DEF TypeOK, FinalizeAttempt, KeepsOwned
<1> QED BY <1>1, <1>2, ConstantsAssumption DEF TypeOK, FinalizeAttempt

\* finish_job, which looks at no owner, takes the row from whoever owns it
\* and moves no other row.
LEMMA FinishJobRows ==
    ASSUME TypeOK, RowsOwned, NEW j \in Jobs, NEW st \in TerminalRun \cup {"queued"},
           FinishJob(j, st)
    PROVE  /\ status' \in [Jobs -> JobStatus]
           /\ owner' \in [Jobs -> Schedulers \cup {NoOwner}]
           /\ lapsed' \in SUBSET Jobs
           /\ RowsOwned'
           /\ \A t \in Schedulers : KeepsOwned(t)
           /\ owner'[j] = NoOwner
<1>1. status' \in [Jobs -> JobStatus]
  BY DEF TypeOK, FinishJob, JobStatus, Terminal
<1>2. RowsOwned'
  BY ConstantsAssumption DEF TypeOK, FinishJob, RowsOwned, Active, TerminalRun
<1>3. \A t \in Schedulers : KeepsOwned(t)
  BY ConstantsAssumption DEF TypeOK, FinishJob, KeepsOwned
<1> QED BY <1>1, <1>2, <1>3 DEF TypeOK, FinishJob

\* Submit keeps the invariant.
LEMMA SubmitStep ==
    ASSUME IndInv, NEW j \in Jobs, Submit(j)
    PROVE  IndInv'
<1> USE ConstantsAssumption DEF IndInv, Submit, batchVars, stepVars, budgets
<1>1. TypeOK'
  BY DEF TypeOK, JobStatus
<1>2. RowsOwned'
  BY DEF TypeOK, RowsOwned, Active, Terminal, TerminalRun
<1>3. ASSUME NEW t \in Schedulers PROVE PassInv(t)'
  BY Frame DEF TypeOK, SameLocals, KeepsOwned, RowsOwned, Active, Terminal, TerminalRun
<1> QED BY <1>1, <1>2, <1>3

\* Cancel keeps the invariant.
LEMMA CancelStep ==
    ASSUME IndInv, NEW j \in Jobs, Cancel(j)
    PROVE  IndInv'
<1> USE ConstantsAssumption DEF IndInv, Cancel, batchVars, stepVars, budgets
<1>1. TypeOK'
  <2>1. status' \in [Jobs -> JobStatus]
    BY DEF TypeOK, JobStatus, Terminal
  <2>2. ended' \in [Jobs -> Nat]
    BY DEF TypeOK
  <2>3. owner' \in [Jobs -> Schedulers \cup {NoOwner}] /\ lapsed' \in SUBSET Jobs
    BY DEF TypeOK
  <2>4. cancels' \in Nat
    BY DEF TypeOK
  <2> QED BY <2>1, <2>2, <2>3, <2>4 DEF TypeOK
<1>2. RowsOwned'
  BY DEF TypeOK, RowsOwned, Active, Terminal, TerminalRun
<1>3. ASSUME NEW t \in Schedulers PROVE PassInv(t)'
  BY Frame DEF TypeOK, SameLocals, KeepsOwned, RowsOwned, Active, Terminal, TerminalRun
<1> QED BY <1>1, <1>2, <1>3

\* Lapse keeps the invariant.
LEMMA LapseStep ==
    ASSUME IndInv, NEW j \in Jobs, Lapse(j)
    PROVE  IndInv'
<1> USE ConstantsAssumption DEF IndInv, Lapse, batchVars, stepVars, budgets
<1>1. TypeOK'
  BY DEF TypeOK
<1>2. RowsOwned'
  BY DEF TypeOK, RowsOwned, Active, Terminal, TerminalRun
<1>3. ASSUME NEW t \in Schedulers PROVE PassInv(t)'
  BY Frame DEF TypeOK, SameLocals, KeepsOwned, RowsOwned, Active, Terminal, TerminalRun
<1> QED BY <1>1, <1>2, <1>3

\* Stall keeps the invariant.
LEMMA StallStep ==
    ASSUME IndInv, NEW j \in Jobs, Stall(j)
    PROVE  IndInv'
<1> USE ConstantsAssumption DEF IndInv, Stall, batchVars, stepVars, budgets
<1>1. TypeOK'
  <2>1. stalls' \in Nat
    BY DEF TypeOK
  <2>2. lapsed' \in SUBSET Jobs
    BY DEF TypeOK
  <2> QED BY <2>1, <2>2 DEF TypeOK
<1>2. RowsOwned'
  BY DEF TypeOK, RowsOwned, Active, Terminal, TerminalRun
<1>3. ASSUME NEW t \in Schedulers PROVE PassInv(t)'
  BY Frame DEF TypeOK, SameLocals, KeepsOwned, RowsOwned, Active, Terminal, TerminalRun
<1> QED BY <1>1, <1>2, <1>3

\* Renew keeps the invariant.
LEMMA RenewStep ==
    ASSUME IndInv, NEW s \in Schedulers, NEW j \in Jobs, Renew(s, j)
    PROVE  IndInv'
<1> USE ConstantsAssumption DEF IndInv, Renew, batchVars, stepVars, budgets
<1>1. TypeOK'
  BY DEF TypeOK
<1>2. RowsOwned'
  BY DEF TypeOK, RowsOwned, Active, Terminal, TerminalRun
<1>3. ASSUME NEW t \in Schedulers PROVE PassInv(t)'
  BY Frame DEF TypeOK, SameLocals, KeepsOwned, RowsOwned, Active, Terminal, TerminalRun
<1> QED BY <1>1, <1>2, <1>3

\* Cleanup keeps the invariant.
LEMMA CleanupStep ==
    ASSUME IndInv, Cleanup
    PROVE  IndInv'
<1> USE ConstantsAssumption DEF IndInv, Cleanup, batchVars, stepVars, budgets
<1>1. TypeOK'
  <2>1. runs' \in Seq(RunRow)
    <3>1. /\ Len(runs) \in Nat
          /\ DOMAIN runs = 1 .. Len(runs)
          /\ runs \in [1 .. Len(runs) -> RunRow]
      BY LenProperties DEF TypeOK
    <3>2. ASSUME NEW r \in 1 .. Len(runs)
          PROVE  runs[r] \in RunRow /\ [runs[r] EXCEPT !.status = "deleted"] \in RunRow
      BY <3>1 DEF RunRow, RunStatus
    <3>3. runs' \in [1 .. Len(runs) -> RunRow]
      BY <3>1, <3>2
    <3> QED BY <3>1, <3>3, SeqOfRows
  <2>2. status' \in [Jobs -> JobStatus]
    BY DEF TypeOK, JobStatus
  <2>3. cleanups' \in Nat
    BY DEF TypeOK
  <2> QED BY <2>1, <2>2, <2>3 DEF TypeOK
<1>2. RowsOwned'
  BY DEF TypeOK, RowsOwned, Active, Terminal, TerminalRun
<1>3. ASSUME NEW t \in Schedulers PROVE PassInv(t)'
  BY Frame DEF TypeOK, SameLocals, KeepsOwned, RowsOwned, Active, Terminal, TerminalRun
<1> QED BY <1>1, <1>2, <1>3

\* Claim keeps the invariant.
LEMMA ClaimStep ==
    ASSUME IndInv, NEW s \in Schedulers, Claim(s)
    PROVE  IndInv'
<1> USE ConstantsAssumption DEF IndInv, stepVars, budgets
<1>0. PICK S \in SUBSET Claimable :
          /\ status' = [j \in Jobs |-> IF j \in S THEN "leased" ELSE status[j]]
          /\ owner' = [j \in Jobs |-> IF j \in S THEN s ELSE owner[j]]
          /\ lapsed' = lapsed \ S
          /\ checking' = [checking EXCEPT ![s] = S]
          /\ seen' = [seen EXCEPT ![s] = [j \in Jobs |-> IF j \in S THEN attempts[j] ELSE 0]]
  BY DEF Claim
<1>a. S \subseteq Jobs
  BY DEF Claimable
<1>b. /\ pc[s] = "idle"
      /\ pc' = [pc EXCEPT ![s] = "check_project"]
      /\ UNCHANGED <<attempts, runs, runnable, stepVars, ended, budgets>>
  BY DEF Claim
<1>1. TypeOK'
  <2>1. seen' \in [Schedulers -> [Jobs -> Nat]]
    BY <1>0 DEF TypeOK
  <2>2. status' \in [Jobs -> JobStatus] /\ owner' \in [Jobs -> Schedulers \cup {NoOwner}]
    BY <1>0 DEF TypeOK, JobStatus, Active
  <2>3. checking' \in [Schedulers -> SUBSET Jobs] /\ lapsed' \in SUBSET Jobs
    BY <1>0, <1>a DEF TypeOK
  <2> QED BY <2>1, <2>2, <2>3, <1>b DEF TypeOK, PCs
<1>2. RowsOwned'
  BY <1>0, <1>b DEF TypeOK, RowsOwned, Active
<1>3. ASSUME NEW t \in Schedulers, t # s PROVE PassInv(t)'
  BY <1>0, <1>b, <1>3, Frame DEF TypeOK, SameLocals, KeepsOwned, RowsOwned, Active
<1>4. PassShape(s)'
  BY <1>0, <1>a, <1>b DEF TypeOK, PassInv, PassShape, Executing, Attempting
<1>5. ASSUME NEW i \in Jobs, owner'[i] = s PROVE OwnedRow(s, i)'
  <2>1. i \in S
    BY <1>0, <1>b, <1>5 DEF TypeOK, PassInv, PassShape, OwnedRow, Holds, Attempting, Executing
  <2> QED BY <2>1, <1>0, <1>b, <1>4 DEF TypeOK, PassShape, OwnedRow, Holds, Attempting, Executing
<1> QED BY <1>1, <1>2, <1>3, <1>4, <1>5 DEF PassInv

\* CheckProject keeps the invariant.
LEMMA CheckProjectStep ==
    ASSUME IndInv, NEW s \in Schedulers, NEW j \in Jobs, CheckProject(s, j)
    PROVE  IndInv'
<1> USE ConstantsAssumption DEF IndInv, CheckProject, jobVars, batchVars, stepVars, budgets
<1>1. TypeOK'
  BY DEF TypeOK, PCs, Executing
<1>2. RowsOwned'
  BY DEF TypeOK, RowsOwned, Active
<1>3. ASSUME NEW t \in Schedulers, t # s PROVE PassInv(t)'
  BY <1>3, Frame DEF TypeOK, SameLocals, KeepsOwned
<1>4. PassShape(s)'
  BY DEF TypeOK, PassInv, PassShape, Executing, Attempting
<1>5. ASSUME NEW i \in Jobs, owner'[i] = s PROVE OwnedRow(s, i)'
  <2>1. OwnedRow(s, i)
    BY <1>5, LiveRow
  <2>2. i # cur[s]
    BY NoJobYet, ZeroIsNoJob
  <2> QED BY <2>1, <2>2, OtherRow
<1> QED BY <1>1, <1>2, <1>3, <1>4, <1>5 DEF PassInv

\* CheckKind keeps the invariant.
LEMMA CheckKindStep ==
    ASSUME IndInv, NEW s \in Schedulers, NEW j \in Jobs, CheckKind(s, j)
    PROVE  IndInv'
<1> USE ConstantsAssumption DEF IndInv
<1> DEFINE rest == checking[s] \ {j}
           ready == runnable[s] \cup {j}
<1>a. /\ pc[s] = "check_kind" /\ j \in checking[s]
      /\ UNCHANGED <<jobVars, runs, stepVars, ended, budgets>>
  BY DEF CheckKind
<1>b. \/ /\ pc' = [pc EXCEPT ![s] = "defer"]
         /\ UNCHANGED batchVars
      \/ /\ checking' = [checking EXCEPT ![s] = rest]
         /\ runnable' = [runnable EXCEPT ![s] = ready]
         /\ pc' = [pc EXCEPT ![s] = AfterCheck(rest, ready)]
         /\ UNCHANGED seen
  BY DEF CheckKind
<1>c. AfterCheck(rest, ready) = IF rest # {} THEN "check_project" ELSE "mark"
  BY DEF AfterCheck
<1>d. cur[s] = 0 /\ cur' = cur /\ PassShape(s)
  BY <1>a, NoJobYet DEF stepVars, PassInv
<1>1. TypeOK'
  <2>1. pc' \in [Schedulers -> PCs]
    BY <1>b, <1>c DEF TypeOK, PCs, Executing
  <2>2. checking' \in [Schedulers -> SUBSET Jobs]
    <3>1. checking \in [Schedulers -> SUBSET Jobs] /\ rest \in SUBSET Jobs
      BY DEF TypeOK
    <3>2. checking' = checking \/ checking' = [checking EXCEPT ![s] = rest]
      BY <1>b DEF batchVars
    <3> HIDE DEF rest
    <3> QED BY <3>1, <3>2
  <2>3. runnable' \in [Schedulers -> SUBSET Jobs]
    <3>1. runnable \in [Schedulers -> SUBSET Jobs] /\ ready \in SUBSET Jobs
      BY DEF TypeOK
    <3>2. runnable' = runnable \/ runnable' = [runnable EXCEPT ![s] = ready]
      BY <1>b DEF batchVars
    <3> HIDE DEF ready
    <3> QED BY <3>1, <3>2
  <2>4. seen' = seen
    BY <1>b DEF batchVars
  <2> QED BY <1>a, <2>1, <2>2, <2>3, <2>4 DEF TypeOK, jobVars, stepVars, budgets
<1>2. RowsOwned'
  BY <1>a DEF RowsOwned, jobVars
<1>3. ASSUME NEW t \in Schedulers, t # s PROVE PassInv(t)'
  BY <1>3, <1>a, <1>b, Frame DEF TypeOK, SameLocals, KeepsOwned, jobVars, batchVars, stepVars
<1>4. PassShape(s)'
  <2>1. CASE pc' = [pc EXCEPT ![s] = "defer"] /\ UNCHANGED batchVars
    <3>1. pc'[s] = "defer" /\ checking'[s] = checking[s] /\ runnable'[s] = runnable[s] /\ cur'[s] = 0
      BY <1>d, <2>1 DEF TypeOK, batchVars
    <3> QED BY <1>d, <3>1 DEF PassShape, Executing, Attempting
  <2>2. CASE /\ checking' = [checking EXCEPT ![s] = rest]
             /\ runnable' = [runnable EXCEPT ![s] = ready]
             /\ pc' = [pc EXCEPT ![s] = AfterCheck(rest, ready)]
    <3>1. /\ checking'[s] = rest /\ runnable'[s] = ready /\ cur'[s] = 0
          /\ pc'[s] = IF rest # {} THEN "check_project" ELSE "mark"
      BY <1>c, <1>d, <2>2 DEF TypeOK
    <3> QED BY <1>d, <3>1 DEF PassShape, Executing, Attempting
  <2> QED BY <1>b, <2>1, <2>2
<1>5. ASSUME NEW i \in Jobs, owner'[i] = s PROVE OwnedRow(s, i)'
  <2>1. OwnedRow(s, i) /\ status'[i] = status[i] /\ attempts'[i] = attempts[i]
    BY <1>5, <1>a, LiveRow DEF jobVars
  <2>2. i # cur[s] /\ i # cur'[s]
    BY <1>d, ZeroIsNoJob
  <2>3. checking[s] \cup runnable[s] = checking'[s] \cup runnable'[s] /\ seen' = seen
    <3>1. CASE UNCHANGED batchVars
      BY <3>1 DEF batchVars
    <3>2. CASE /\ checking' = [checking EXCEPT ![s] = rest]
               /\ runnable' = [runnable EXCEPT ![s] = ready]
               /\ UNCHANGED seen
      <4>1. checking'[s] = rest /\ runnable'[s] = ready
        BY <3>2 DEF TypeOK
      <4> QED BY <1>a, <3>2, <4>1
    <3> QED BY <1>b, <3>1, <3>2
  <2> QED BY <2>1, <2>2, <2>3, OtherRow
<1> QED BY <1>1, <1>2, <1>3, <1>4, <1>5 DEF PassInv

\* MarkRunning keeps the invariant.
LEMMA MarkRunningStep ==
    ASSUME IndInv, NEW s \in Schedulers, NEW j \in Jobs, MarkRunning(s, j)
    PROVE  IndInv'
<1> USE ConstantsAssumption DEF IndInv, MarkRunning, jobVars, batchVars, stepVars, budgets
<1>1. TypeOK'
  <2>1. /\ status' = [status EXCEPT ![j] = "running"]
        /\ attempts' = [attempts EXCEPT ![j] = seen[s][j] + 1]
        /\ try' = [try EXCEPT ![s] = seen[s][j] + 1]
        /\ pc' = [pc EXCEPT ![s] = "prepare"]
    OBVIOUS
  <2>2. seen[s][j] \in Nat /\ status \in [Jobs -> JobStatus] /\ attempts \in [Jobs -> Nat]
    BY DEF TypeOK
  <2>3. try \in [Schedulers -> Nat] /\ pc \in [Schedulers -> PCs]
    BY DEF TypeOK
  <2>4. status' \in [Jobs -> JobStatus] /\ attempts' \in [Jobs -> Nat]
    BY ONLY <2>1, <2>2 DEF JobStatus, Active
  <2>5. try' \in [Schedulers -> Nat] /\ pc' \in [Schedulers -> PCs]
    BY ONLY <2>1, <2>2, <2>3 DEF PCs, Executing
  <2>6. runnable' \in [Schedulers -> SUBSET Jobs] /\ cur' \in [Schedulers -> Jobs \cup {0}]
    BY DEF TypeOK
  <2> QED BY <2>4, <2>5, <2>6 DEF TypeOK
<1>2. RowsOwned'
  BY DEF TypeOK, RowsOwned, Active
<1>3. ASSUME NEW t \in Schedulers, t # s PROVE PassInv(t)'
  BY <1>3, Frame DEF TypeOK, SameLocals, KeepsOwned
<1>4. PassShape(s)'
  BY DEF TypeOK, PassInv, PassShape, Executing, Attempting, Jobs
<1>5. ASSUME NEW i \in Jobs, owner'[i] = s PROVE OwnedRow(s, i)'
  <2>1. OwnedRow(s, i)
    BY <1>5 DEF TypeOK, PassInv
  <2>2. CASE i = j
    BY <2>1, <2>2, <1>5 DEF TypeOK, PassInv, PassShape, OwnedRow, Holds, Jobs, Executing, Attempting
  <2>3. CASE i # j
    <3>1. cur[s] = 0 /\ cur'[s] = j /\ i # 0
      BY NoJobYet, ZeroIsNoJob DEF TypeOK
    <3>2. status'[i] = status[i] /\ attempts'[i] = attempts[i]
      BY <2>3 DEF TypeOK
    <3>3. i \in checking[s] \cup runnable[s] => i \in checking'[s] \cup runnable'[s]
      BY <2>3 DEF TypeOK
    <3> QED BY <2>1, <2>3, <3>1, <3>2, <3>3, OtherRow
  <2> QED BY <2>2, <2>3
<1> QED BY <1>1, <1>2, <1>3, <1>4, <1>5 DEF PassInv

\* Superseded keeps the invariant.
LEMMA SupersededStep ==
    ASSUME IndInv, NEW s \in Schedulers, NEW j \in Jobs, Superseded(s, j)
    PROVE  IndInv'
<1> USE ConstantsAssumption DEF IndInv, Superseded, jobVars, batchVars, stepVars, budgets
<1>0. \A C, R : AfterCheck(C, R) = IF C # {} THEN "check_project" ELSE IF R # {} THEN "mark" ELSE "idle"
  BY DEF AfterCheck
<1>1. TypeOK'
  BY <1>0 DEF TypeOK, PCs, Executing
<1>2. RowsOwned'
  BY DEF TypeOK, RowsOwned, Active
<1>3. ASSUME NEW t \in Schedulers, t # s PROVE PassInv(t)'
  BY <1>3, Frame DEF TypeOK, SameLocals, KeepsOwned
<1>4. PassShape(s)'
  BY <1>0 DEF TypeOK, PassInv, PassShape, Executing, Attempting
<1>5. ASSUME NEW i \in Jobs, owner'[i] = s PROVE OwnedRow(s, i)'
  <2>1. OwnedRow(s, i) /\ status[i] \in Active
    BY <1>5 DEF TypeOK, PassInv, RowsOwned
  <2>2. cur[s] = 0 /\ cur'[s] = 0 /\ i # 0
    BY NoJobYet, ZeroIsNoJob
  <2>3. i # j
    BY <1>5, <2>1, <2>2 DEF OwnedRow, Active
  <2>4. i \in checking[s] \cup runnable[s] => i \in checking'[s] \cup runnable'[s]
    BY <2>3 DEF TypeOK
  <2>5. seen'[s][i] = seen[s][i]
    BY <2>3 DEF TypeOK
  <2> QED BY <2>1, <2>2, <2>4, <2>5, OtherRow
<1> QED BY <1>1, <1>2, <1>3, <1>4, <1>5 DEF PassInv

\* Defer keeps the invariant.
LEMMA DeferStep ==
    ASSUME IndInv, NEW s \in Schedulers, NEW j \in Jobs, Defer(s, j)
    PROVE  IndInv'
<1> USE ConstantsAssumption DEF IndInv, Defer, jobVars, batchVars, stepVars, budgets
<1>0. \A C, R : AfterCheck(C, R) = IF C # {} THEN "check_project" ELSE IF R # {} THEN "mark" ELSE "idle"
  BY DEF AfterCheck
<1>6. /\ status' \in [Jobs -> JobStatus]
      /\ owner' \in [Jobs -> Schedulers \cup {NoOwner}]
      /\ lapsed' \in SUBSET Jobs
      /\ RowsOwned'
      /\ \A t \in Schedulers : KeepsOwned(t)
      /\ owner'[j] = NoOwner
  BY FinishJobRows
<1>1. TypeOK'
  <2>1. seen' \in [Schedulers -> [Jobs -> Nat]]
    BY DEF TypeOK
  <2> QED BY <1>0, <1>6, <2>1 DEF TypeOK, PCs, Executing, FinishJob
<1>2. RowsOwned'
  BY <1>6
<1>3. ASSUME NEW t \in Schedulers, t # s PROVE PassInv(t)'
  BY <1>3, <1>6, Frame DEF TypeOK, SameLocals
<1>4. PassShape(s)'
  BY <1>0 DEF TypeOK, PassInv, PassShape, Executing, Attempting
<1>5. ASSUME NEW i \in Jobs, owner'[i] = s PROVE OwnedRow(s, i)'
  <2>1. OwnedRow(s, i) /\ status'[i] = status[i] /\ attempts'[i] = attempts[i] /\ i # j
    BY <1>5, <1>6 DEF TypeOK, PassInv, KeepsOwned
  <2>2. cur[s] = 0 /\ cur'[s] = 0 /\ i # 0
    BY NoJobYet, ZeroIsNoJob
  <2>3. i \in checking[s] \cup runnable[s] => i \in checking'[s] \cup runnable'[s]
    BY <2>1 DEF TypeOK
  <2>4. seen'[s][i] = seen[s][i]
    BY <2>1 DEF TypeOK
  <2> QED BY <2>1, <2>2, <2>3, <2>4, OtherRow
<1> QED BY <1>1, <1>2, <1>3, <1>4, <1>5 DEF PassInv

\* StartRun keeps the invariant.
LEMMA StartRunStep ==
    ASSUME IndInv, NEW s \in Schedulers, StartRun(s)
    PROVE  IndInv'
<1> USE ConstantsAssumption DEF IndInv, StartRun, jobVars, batchVars, stepVars, budgets
<1>0. cur[s] \in Jobs
  BY AttemptedJob DEF Attempting, Executing
<1>1. TypeOK'
  <2>1. Append(runs, [job |-> cur[s], attempt |-> try[s], status |-> "running"]) \in Seq(RunRow)
    BY <1>0 DEF TypeOK, RunRow, RunStatus
  <2>2. run' \in [Schedulers -> Nat]
    BY LenProperties DEF TypeOK
  <2>3. pc' \in [Schedulers -> PCs]
    BY DEF TypeOK, PCs, Executing
  <2> QED BY <2>1, <2>2, <2>3 DEF TypeOK
<1>2. RowsOwned'
  BY DEF TypeOK, RowsOwned, Active
<1>3. ASSUME NEW t \in Schedulers, t # s PROVE PassInv(t)'
  BY <1>3, Frame DEF TypeOK, SameLocals, KeepsOwned
<1>4. PassShape(s)'
  BY DEF TypeOK, PassInv, PassShape, Executing, Attempting
<1>5. ASSUME NEW i \in Jobs, owner'[i] = s PROVE OwnedRow(s, i)'
  BY <1>5 DEF TypeOK, PassInv, PassShape, OwnedRow, Holds, OwnsAttempt, Executing, Attempting
<1> QED BY <1>1, <1>2, <1>3, <1>4, <1>5 DEF PassInv

\* RejectByValidation keeps the invariant.
LEMMA RejectByValidationStep ==
    ASSUME IndInv, NEW s \in Schedulers, RejectByValidation(s)
    PROVE  IndInv'
<1> USE ConstantsAssumption DEF IndInv, RejectByValidation, jobVars, batchVars, stepVars, budgets
<1>1. TypeOK'
  BY DEF TypeOK, PCs, Executing, Verdicts
<1>2. RowsOwned'
  BY DEF TypeOK, RowsOwned, Active
<1>3. ASSUME NEW t \in Schedulers, t # s PROVE PassInv(t)'
  BY <1>3, Frame DEF TypeOK, SameLocals, KeepsOwned
<1>4. PassShape(s)'
  BY DEF TypeOK, PassInv, PassShape, Executing, Attempting
<1>5. ASSUME NEW i \in Jobs, owner'[i] = s PROVE OwnedRow(s, i)'
  BY <1>5 DEF TypeOK, PassInv, PassShape, OwnedRow, Holds, OwnsAttempt, Executing, Attempting
<1> QED BY <1>1, <1>2, <1>3, <1>4, <1>5 DEF PassInv

\* WorkerReturns keeps the invariant.
LEMMA WorkerReturnsStep ==
    ASSUME IndInv, NEW s \in Schedulers, NEW result \in TerminalRun, WorkerReturns(s, result)
    PROVE  IndInv'
<1> USE ConstantsAssumption DEF IndInv, WorkerReturns, jobVars, batchVars, stepVars, budgets
<1>1. TypeOK'
  BY DEF TypeOK, PCs, Executing, Verdicts
<1>2. RowsOwned'
  BY DEF TypeOK, RowsOwned, Active
<1>3. ASSUME NEW t \in Schedulers, t # s PROVE PassInv(t)'
  BY <1>3, Frame DEF TypeOK, SameLocals, KeepsOwned
<1>4. PassShape(s)'
  BY DEF TypeOK, PassInv, PassShape, Executing, Attempting
<1>5. ASSUME NEW i \in Jobs, owner'[i] = s PROVE OwnedRow(s, i)'
  BY <1>5 DEF TypeOK, PassInv, PassShape, OwnedRow, Holds, OwnsAttempt, Executing, Attempting
<1> QED BY <1>1, <1>2, <1>3, <1>4, <1>5 DEF PassInv

\* Fault keeps the invariant.
LEMMA FaultStep ==
    ASSUME IndInv, NEW s \in Schedulers, Fault(s)
    PROVE  IndInv'
<1> USE ConstantsAssumption DEF IndInv, Fault, Caught, jobVars, batchVars, stepVars, budgets
<1>1. TypeOK'
  <2>1. pc' \in [Schedulers -> PCs] /\ verdict' \in [Schedulers -> Verdicts]
    BY DEF TypeOK, PCs, Executing, Verdicts, TerminalRun
  <2>2. try' \in [Schedulers -> Nat] /\ run' \in [Schedulers -> Nat]
    BY DEF TypeOK
  <2>3. faults' \in Nat
    BY DEF TypeOK
  <2> QED BY <2>1, <2>2, <2>3 DEF TypeOK
<1>2. RowsOwned'
  BY DEF TypeOK, RowsOwned, Active
<1>3. ASSUME NEW t \in Schedulers, t # s PROVE PassInv(t)'
  BY <1>3, Frame DEF TypeOK, SameLocals, KeepsOwned
<1>4. PassShape(s)'
  BY DEF TypeOK, PassInv, PassShape, Executing, Attempting
<1>5. ASSUME NEW i \in Jobs, owner'[i] = s PROVE OwnedRow(s, i)'
  BY <1>5 DEF TypeOK, PassInv, PassShape, OwnedRow, Holds, OwnsAttempt, Executing, Attempting
<1> QED BY <1>1, <1>2, <1>3, <1>4, <1>5 DEF PassInv

\* FinalizeRaises keeps the invariant.
LEMMA FinalizeRaisesStep ==
    ASSUME IndInv, NEW s \in Schedulers, FinalizeRaises(s)
    PROVE  IndInv'
<1> USE ConstantsAssumption DEF IndInv, FinalizeRaises, Caught, jobVars, batchVars, stepVars, budgets
<1>1. TypeOK'
  BY DEF TypeOK, PCs, Executing, Verdicts, TerminalRun
<1>2. RowsOwned'
  BY DEF TypeOK, RowsOwned, Active
<1>3. ASSUME NEW t \in Schedulers, t # s PROVE PassInv(t)'
  BY <1>3, Frame DEF TypeOK, SameLocals, KeepsOwned
<1>4. PassShape(s)'
  BY DEF TypeOK, PassInv, PassShape, Executing, Attempting
<1>5. ASSUME NEW i \in Jobs, owner'[i] = s PROVE OwnedRow(s, i)'
  BY <1>5 DEF TypeOK, PassInv, PassShape, OwnedRow, Holds, OwnsAttempt, Executing, Attempting
<1> QED BY <1>1, <1>2, <1>3, <1>4, <1>5 DEF PassInv

\* FaultAtMark keeps the invariant.
LEMMA FaultAtMarkStep ==
    ASSUME IndInv, NEW s \in Schedulers, NEW j \in Jobs, FaultAtMark(s, j)
    PROVE  IndInv'
<1> USE ConstantsAssumption DEF IndInv, FaultAtMark, Caught, jobVars, batchVars, stepVars, budgets
<1>1. TypeOK'
  <2>1. runnable' \in [Schedulers -> SUBSET Jobs] /\ cur' \in [Schedulers -> Jobs \cup {0}]
    BY DEF TypeOK
  <2>2. pc' \in [Schedulers -> PCs] /\ verdict' \in [Schedulers -> Verdicts]
    BY DEF TypeOK, PCs, Executing, Verdicts, TerminalRun
  <2>3. try' \in [Schedulers -> Nat] /\ run' \in [Schedulers -> Nat]
    BY DEF TypeOK
  <2>4. faults' \in Nat
    <3>1. faults \in Nat
      BY DEF TypeOK
    <3>2. faults' = faults + 1
      OBVIOUS
    <3> QED BY ONLY <3>1, <3>2
  <2> QED BY <2>1, <2>2, <2>3, <2>4 DEF TypeOK
<1>2. RowsOwned'
  BY DEF TypeOK, RowsOwned, Active
<1>3. ASSUME NEW t \in Schedulers, t # s PROVE PassInv(t)'
  BY <1>3, Frame DEF TypeOK, SameLocals, KeepsOwned
<1>4. PassShape(s)'
  BY DEF TypeOK, PassInv, PassShape, Executing, Attempting, Jobs
<1>5. ASSUME NEW i \in Jobs, owner'[i] = s PROVE OwnedRow(s, i)'
  <2>1. OwnedRow(s, i)
    BY <1>5, LiveRow
  <2>2. cur[s] = 0 /\ cur'[s] = j /\ i # 0 /\ pc'[s] = "recover"
    BY NoJobYet, ZeroIsNoJob DEF TypeOK
  <2>3. CASE i = j
    BY <2>1, <2>2, <2>3 DEF OwnedRow, Holds
  <2>4. CASE i # j
    <3>1. i \in checking[s] \cup runnable[s] => i \in checking'[s] \cup runnable'[s]
      BY <2>4 DEF TypeOK
    <3> QED BY <2>1, <2>2, <2>4, <3>1, OtherRow
  <2> QED BY <2>3, <2>4
<1> QED BY <1>1, <1>2, <1>3, <1>4, <1>5 DEF PassInv

\* RecoverReadJob keeps the invariant.
LEMMA RecoverReadJobStep ==
    ASSUME IndInv, NEW s \in Schedulers, RecoverReadJob(s)
    PROVE  IndInv'
<1> USE ConstantsAssumption DEF IndInv, RecoverReadJob, jobVars, batchVars, stepVars, budgets
<1>0. cur[s] \in Jobs
  BY AttemptedJob DEF Attempting, Executing
<1>1. TypeOK'
  <2>1. found' \in [Schedulers -> [status : JobStatus, attempts : Nat]]
    <3>1. [status |-> status[cur[s]], attempts |-> attempts[cur[s]]] \in [status : JobStatus, attempts : Nat]
      <4>1. status[cur[s]] \in JobStatus /\ attempts[cur[s]] \in Nat
        BY <1>0 DEF TypeOK
      <4> QED BY ONLY <4>1
    <3>2. \/ found' = found
          \/ found' = [found EXCEPT ![s] = [status |-> status[cur[s]], attempts |-> attempts[cur[s]]]]
      OBVIOUS
    <3>3. found \in [Schedulers -> [status : JobStatus, attempts : Nat]]
      BY DEF TypeOK
    <3> HIDE DEF IndInv, RecoverReadJob
    <3> QED BY <3>1, <3>2, <3>3
  <2>2. pc' \in [Schedulers -> PCs]
    <3>1. pc' = [pc EXCEPT ![s] = "dead"] \/ pc' = [pc EXCEPT ![s] = "inspect"]
      OBVIOUS
    <3>2. pc \in [Schedulers -> PCs]
      BY DEF TypeOK
    <3> QED BY ONLY <3>1, <3>2 DEF PCs, Executing
  <2> QED BY <2>1, <2>2 DEF TypeOK
<1>2. RowsOwned'
  BY DEF TypeOK, RowsOwned, Active
<1>3. ASSUME NEW t \in Schedulers, t # s PROVE PassInv(t)'
  BY <1>3, Frame DEF TypeOK, SameLocals, KeepsOwned
<1>4. PassShape(s)'
  <2>1. PassShape(s) /\ pc[s] = "recover" /\ UNCHANGED <<checking, runnable, cur, verdict>>
    BY DEF PassInv
  <2>2. pc'[s] \in {"dead", "inspect"}
    BY DEF TypeOK
  <2> QED BY ONLY <2>1, <2>2 DEF PassShape, Executing, Attempting
<1>5. ASSUME NEW i \in Jobs, owner'[i] = s PROVE OwnedRow(s, i)'
  <2>1. OwnedRow(s, i) /\ status[i] \in Active
    BY <1>5, LiveRow
  <2>2. CASE i = cur[s]
    <3>1. status[cur[s]] # "deleted"
      BY <2>1, <2>2 DEF Active
    <3>2. /\ pc'[s] = "inspect"
          /\ found'[s].status = status[i] /\ found'[s].attempts = attempts[i]
      <4>1. /\ pc' = [pc EXCEPT ![s] = "inspect"]
            /\ found' = [found EXCEPT ![s] = [status |-> status[i], attempts |-> attempts[i]]]
        BY <2>2, <3>1
      <4>2. s \in DOMAIN pc /\ s \in DOMAIN found
        BY DEF TypeOK
      <4> QED BY ONLY <4>1, <4>2
    <3> QED BY <2>1, <2>2, <3>2 DEF OwnedRow, Holds
  <2>3. CASE i # cur[s]
    BY <2>1, <2>3, OtherRow
  <2> QED BY <2>2, <2>3
<1> QED BY <1>1, <1>2, <1>3, <1>4, <1>5 DEF PassInv

\* RecoverFilesRun keeps the invariant.
LEMMA RecoverFilesRunStep ==
    ASSUME IndInv, NEW s \in Schedulers, RecoverFilesRun(s)
    PROVE  IndInv'
<1> USE ConstantsAssumption DEF IndInv, RecoverFilesRun, jobVars, batchVars, stepVars, budgets
<1>0. cur[s] \in Jobs
  BY AttemptedJob DEF Attempting, Executing
<1>1. TypeOK'
  <2>1. RecoveredAttempt(s) \in Nat
    <3>1. found[s].attempts \in Nat /\ seen[s][cur[s]] \in Nat
      BY <1>0 DEF TypeOK
    <3> QED BY ONLY <3>1 DEF RecoveredAttempt
  <2>2. run' \in [Schedulers -> Nat]
    <3>1. DOMAIN runs \subseteq Nat
      BY LenProperties DEF TypeOK
    <3> QED BY <3>1 DEF TypeOK, JobRuns
  <2> QED BY <2>1, <2>2 DEF TypeOK, PCs, Executing
<1>2. RowsOwned'
  BY DEF TypeOK, RowsOwned, Active
<1>3. ASSUME NEW t \in Schedulers, t # s PROVE PassInv(t)'
  BY <1>3, Frame DEF TypeOK, SameLocals, KeepsOwned
<1>4. PassShape(s)'
  BY DEF TypeOK, PassInv, PassShape, Executing, Attempting
<1>5. ASSUME NEW i \in Jobs, owner'[i] = s PROVE OwnedRow(s, i)'
  <2>1. OwnedRow(s, i) /\ status[i] \in Active
    BY <1>5 DEF TypeOK, PassInv, RowsOwned
  <2>2. CASE i = cur[s]
    <3>1. /\ found[s].status = status[i] /\ found[s].attempts = attempts[i]
          /\ status[i] = "leased" => seen[s][i] = attempts[i]
          /\ status[i] = "running" => attempts[i] = seen[s][i] + 1
          /\ attempts[i] \in Nat /\ seen[s][i] \in Nat
      BY <2>1, <2>2 DEF TypeOK, OwnedRow
    <3>2. try'[s] = RecoveredAttempt(s)
      BY DEF TypeOK
    <3>3. OwnsAttempt(s, i, RecoveredAttempt(s))
      BY <1>5, <2>1, <2>2, <3>1 DEF OwnsAttempt, RecoveredAttempt, Active
    <3> QED BY <2>1, <2>2, <3>2, <3>3 DEF TypeOK, OwnedRow, Holds, OwnsAttempt
  <2>3. CASE i # cur[s]
    BY <2>1, <2>3, OtherRow
  <2> QED BY <2>2, <2>3
<1> QED BY <1>1, <1>2, <1>3, <1>4, <1>5 DEF PassInv

\* Crash keeps the invariant.
LEMMA CrashStep ==
    ASSUME IndInv, NEW s \in Schedulers, Crash(s)
    PROVE  IndInv'
<1> USE ConstantsAssumption DEF IndInv, Crash, jobVars, batchVars, stepVars, budgets
<1>1. TypeOK'
  BY SMTT(30) DEF TypeOK, PCs, Executing
<1>2. RowsOwned'
  BY DEF TypeOK, RowsOwned, Active
<1>3. ASSUME NEW t \in Schedulers, t # s PROVE PassInv(t)'
  BY <1>3, Frame DEF TypeOK, SameLocals, KeepsOwned
<1>4. PassShape(s)'
  BY DEF TypeOK, PassInv, PassShape, Executing, Attempting
<1>5. pc'[s] = "dead"
  BY DEF TypeOK
<1> QED BY <1>1, <1>2, <1>3, <1>4, <1>5 DEF PassInv

\* Emit keeps the invariant.
LEMMA EmitStep ==
    ASSUME IndInv, NEW s \in Schedulers, Emit(s)
    PROVE  IndInv'
<1> USE ConstantsAssumption DEF IndInv
<1>0. cur[s] \in Jobs /\ pc[s] \in Attempting
  BY AttemptedJob DEF Attempting, Executing, Emit
<1>1. EndAttempt(s)
  BY DEF Emit
<1>2. RowsOwned' /\ (\A t \in Schedulers : KeepsOwned(t)) /\ owner'[cur[s]] # s
  <2>1. owner[cur[s]] # s
    BY <1>0 DEF Emit, PassInv, OwnedRow
  <2> QED BY <2>1 DEF Emit, jobVars, RowsOwned, KeepsOwned
<1>3. TypeOK'
  <2>1. ended' \in [Jobs -> Nat]
    <3>1. ended' = ended \/ ended' = [ended EXCEPT ![cur[s]] = @ + 1]
      BY DEF Emit
    <3>2. ended \in [Jobs -> Nat] /\ cur[s] \in Jobs
      BY <1>0 DEF TypeOK
    <3> QED BY ONLY <3>1, <3>2
  <2> QED BY <1>1, <2>1, EndAttemptTypes DEF Emit, TypeOK, jobVars, budgets
<1>4. ASSUME NEW t \in Schedulers, t # s PROVE PassInv(t)'
  BY <1>1, <1>2, <1>4, EndAttemptOthers, Frame
<1>5. PassInv(s)'
  BY <1>0, <1>1, <1>2, EndAttemptPass
<1> QED BY <1>2, <1>3, <1>4, <1>5

\* Report keeps the invariant.
LEMMA ReportStep ==
    ASSUME IndInv, NEW s \in Schedulers, Report(s)
    PROVE  IndInv'
<1> USE ConstantsAssumption DEF IndInv
<1>0. cur[s] \in Jobs /\ pc[s] \in Attempting
  BY AttemptedJob DEF Attempting, Executing, Report
<1>1. EndAttempt(s)
  BY DEF Report
<1>2. RowsOwned' /\ (\A t \in Schedulers : KeepsOwned(t)) /\ owner'[cur[s]] # s
  <2>1. owner[cur[s]] # s
    BY <1>0 DEF Report, PassInv, OwnedRow
  <2> QED BY <2>1 DEF Report, jobVars, RowsOwned, KeepsOwned
<1>3. TypeOK'
  <2>1. ended' \in [Jobs -> Nat]
    <3>1. ended' = [ended EXCEPT ![cur[s]] = @ + 1]
      BY DEF Report
    <3>2. ended \in [Jobs -> Nat] /\ cur[s] \in Jobs
      BY <1>0 DEF TypeOK
    <3> QED BY ONLY <3>1, <3>2
  <2> QED BY <1>1, <2>1, EndAttemptTypes DEF Report, TypeOK, jobVars, budgets
<1>4. ASSUME NEW t \in Schedulers, t # s PROVE PassInv(t)'
  BY <1>1, <1>2, <1>4, EndAttemptOthers, Frame
<1>5. PassInv(s)'
  BY <1>0, <1>1, <1>2, EndAttemptPass
<1> QED BY <1>2, <1>3, <1>4, <1>5

\* Settle keeps the invariant.
LEMMA SettleStep ==
    ASSUME IndInv, NEW s \in Schedulers, Settle(s)
    PROVE  IndInv'
<1> USE ConstantsAssumption DEF IndInv
<1>0. cur[s] \in Jobs /\ pc[s] \in Attempting
  BY AttemptedJob DEF Attempting, Executing, Settle
<1>6. FinishJob(cur[s], verdict[s]) /\ verdict[s] \in TerminalRun
  BY DEF Settle, PassInv, PassShape
<1>1. EndAttempt(s)
  BY DEF Settle
<1>2. RowsOwned' /\ (\A t \in Schedulers : KeepsOwned(t)) /\ owner'[cur[s]] # s
  BY <1>0, <1>6, FinishJobRows
<1>3. TypeOK'
  <2>1. attempts' = attempts
    BY <1>6 DEF FinishJob
  <2> QED BY <1>0, <1>1, <1>6, <2>1, FinishJobRows, EndAttemptTypes DEF Settle, TypeOK, budgets
<1>4. ASSUME NEW t \in Schedulers, t # s PROVE PassInv(t)'
  BY <1>1, <1>2, <1>4, EndAttemptOthers, Frame
<1>5. PassInv(s)'
  BY <1>0, <1>1, <1>2, EndAttemptPass
<1> QED BY <1>2, <1>3, <1>4, <1>5

\* FinalizeLost keeps the invariant.
LEMMA FinalizeLostStep ==
    ASSUME IndInv, NEW s \in Schedulers, FinalizeLost(s)
    PROVE  IndInv'
<1> USE ConstantsAssumption DEF IndInv
<1>0. cur[s] \in Jobs /\ pc[s] \in Attempting
  BY AttemptedJob DEF Attempting, Executing, FinalizeLost
<1>6. /\ verdict[s] \in Verdicts /\ run[s] \in Nat /\ try[s] \in Nat
      /\ RunStatusOf(verdict[s]) \in TerminalRun
      /\ JobStatusOf(s) \in TerminalRun \cup {"retrying"}
  BY DEF TypeOK, Verdicts, RunStatusOf, JobStatusOf, TerminalRun
<1>7. FinalizeAttempt(s, cur[s], run[s], try[s], RunStatusOf(verdict[s]), JobStatusOf(s))
  BY DEF FinalizeLost, FinalizeOwned
<1>1. EndAttempt(s)
  BY DEF FinalizeLost
<1>2. RowsOwned' /\ (\A t \in Schedulers : KeepsOwned(t)) /\ owner'[cur[s]] # s
  <2>1. pc[s] = "finalize" /\ ~ OwnsAttempt(s, cur[s], try[s])
    BY DEF FinalizeLost
  <2>2. owner[cur[s]] # s
    BY <1>0, <2>1 DEF PassInv, OwnedRow, OwnsAttempt
  <2> QED BY <1>0, <1>6, <1>7, <2>1, <2>2, FinalizeRows
<1>3. TypeOK'
  BY <1>0, <1>1, <1>6, <1>7, FinalizeTypes, EndAttemptTypes DEF FinalizeLost, TypeOK, budgets
<1>4. ASSUME NEW t \in Schedulers, t # s PROVE PassInv(t)'
  BY <1>1, <1>2, <1>4, EndAttemptOthers, Frame
<1>5. PassInv(s)'
  BY <1>0, <1>1, <1>2, EndAttemptPass
<1> QED BY <1>2, <1>3, <1>4, <1>5

\* FinalizeOwned keeps the invariant.
LEMMA FinalizeOwnedStep ==
    ASSUME IndInv, NEW s \in Schedulers, FinalizeOwned(s)
    PROVE  IndInv'
<1> USE ConstantsAssumption DEF IndInv
<1>0. cur[s] \in Jobs /\ pc[s] \in Attempting
  BY AttemptedJob DEF Attempting, Executing, FinalizeOwned
<1>6. /\ verdict[s] \in Verdicts /\ run[s] \in Nat /\ try[s] \in Nat
      /\ RunStatusOf(verdict[s]) \in TerminalRun
      /\ JobStatusOf(s) \in TerminalRun \cup {"retrying"}
  BY DEF TypeOK, Verdicts, RunStatusOf, JobStatusOf, TerminalRun
<1>7. FinalizeAttempt(s, cur[s], run[s], try[s], RunStatusOf(verdict[s]), JobStatusOf(s))
  BY DEF FinalizeLost, FinalizeOwned
<1>1. /\ pc' = [pc EXCEPT ![s] = "emit"] /\ UNCHANGED <<batchVars, stepVars, ended, budgets>>
      /\ pc[s] = "finalize" /\ OwnsAttempt(s, cur[s], try[s])
  BY DEF FinalizeOwned
<1>2. RowsOwned' /\ (\A t \in Schedulers : KeepsOwned(t)) /\ owner'[cur[s]] # s
  BY <1>0, <1>1, <1>6, <1>7, FinalizeRows
<1>3. TypeOK'
  BY <1>0, <1>1, <1>6, <1>7, FinalizeTypes DEF TypeOK, batchVars, stepVars, budgets, PCs, Executing
<1>4. ASSUME NEW t \in Schedulers, t # s PROVE PassInv(t)'
  BY <1>1, <1>2, <1>4, Frame DEF TypeOK, SameLocals, batchVars, stepVars
<1>5. PassInv(s)'
  <2>1. PassShape(s)'
    BY <1>1 DEF TypeOK, PassInv, PassShape, Attempting, Executing, batchVars, stepVars
  <2>2. ASSUME NEW i \in Jobs, owner'[i] = s PROVE OwnedRow(s, i)'
    BY <1>1, <1>2, <2>2, OtherRow DEF PassInv, KeepsOwned, batchVars, stepVars
  <2> QED BY <2>1, <2>2 DEF PassInv
<1> QED BY <1>2, <1>3, <1>4, <1>5

\* RecoverKeepsRun keeps the invariant.
LEMMA RecoverKeepsRunStep ==
    ASSUME IndInv, NEW s \in Schedulers, NEW r \in DOMAIN runs, RecoverKeepsRun(s, r)
    PROVE  IndInv'
<1> USE ConstantsAssumption DEF IndInv
<1>0. cur[s] \in Jobs /\ pc[s] \in Attempting
  BY AttemptedJob DEF Attempting, Executing, RecoverKeepsRun
<1>1. /\ pc[s] = "inspect" /\ UNCHANGED <<jobVars, runs, ended, budgets>>
      /\ runs[r].status # "running" /\ r \in JobRuns(cur[s])
  BY DEF RecoverKeepsRun, IsLatest
<1>2. RowsOwned' /\ \A t \in Schedulers : KeepsOwned(t)
  BY <1>1 DEF jobVars, RowsOwned, KeepsOwned
<1>3. CASE found[s].status \in Terminal /\ EndAttempt(s)
  <2>1. owner'[cur[s]] # s
    BY <1>0, <1>1, <1>3 DEF PassInv, OwnedRow, RowsOwned, Active, Terminal, TerminalRun, jobVars
  <2>2. TypeOK'
    BY <1>1, <1>3, EndAttemptTypes DEF TypeOK, jobVars, budgets
  <2>3. ASSUME NEW t \in Schedulers, t # s PROVE PassInv(t)'
    BY <1>2, <1>3, <2>3, EndAttemptOthers, Frame
  <2>4. PassInv(s)'
    BY <1>0, <1>2, <1>3, <2>1, EndAttemptPass
  <2> QED BY <1>2, <2>2, <2>3, <2>4
<1>4. CASE /\ verdict' = [verdict EXCEPT ![s] = runs[r].status]
           /\ pc' = [pc EXCEPT ![s] = "settle"]
           /\ UNCHANGED <<batchVars, cur, try, run, found>>
  <2>1. runs[r].status \in TerminalRun
    <3>1. runs[r] \in RunRow
      BY ElementOfSeq, LenProperties DEF TypeOK
    <3> QED BY <1>1, <3>1 DEF JobRuns, RunRow, RunStatus
  <2>2. TypeOK'
    BY <1>1, <1>4, <2>1 DEF TypeOK, jobVars, batchVars, budgets, PCs, Executing, Verdicts
  <2>3. ASSUME NEW t \in Schedulers, t # s PROVE PassInv(t)'
    BY <1>2, <1>4, <2>3, Frame DEF TypeOK, SameLocals, batchVars
  <2>4. PassShape(s)'
    BY <1>1, <1>4, <2>1 DEF TypeOK, PassInv, PassShape, Attempting, Executing, batchVars
  <2>5. ASSUME NEW i \in Jobs, owner'[i] = s PROVE OwnedRow(s, i)'
    <3>1. OwnedRow(s, i)
      BY <1>1, <2>5, LiveRow DEF jobVars
    <3>2. pc'[s] = "settle"
      BY <1>4 DEF TypeOK
    <3> QED BY <1>1, <1>4, <3>1, <3>2 DEF OwnedRow, Holds, jobVars, batchVars
  <2> QED BY <1>2, <2>2, <2>3, <2>4, <2>5 DEF PassInv
<1> QED BY <1>3, <1>4 DEF RecoverKeepsRun

\* Refinalize keeps the invariant.
LEMMA RefinalizeStep ==
    ASSUME IndInv, NEW s \in Schedulers, Refinalize(s)
    PROVE  IndInv'
<1> USE ConstantsAssumption DEF IndInv
<1>0. cur[s] \in Jobs /\ pc[s] \in Attempting
  BY AttemptedJob DEF Attempting, Executing, Refinalize
<1>1. /\ pc[s] = "refinalize" /\ UNCHANGED <<ended, budgets>>
      /\ run[s] \in Nat /\ try[s] \in Nat /\ "failed" \in TerminalRun
  BY DEF Refinalize, TypeOK, TerminalRun
<1>2. CASE /\ FinalizeAttempt(s, cur[s], run[s], try[s], "failed", "failed")
           /\ OwnsAttempt(s, cur[s], try[s])
           /\ pc' = [pc EXCEPT ![s] = "report"] /\ UNCHANGED <<batchVars, stepVars>>
  <2>1. RowsOwned' /\ (\A t \in Schedulers : KeepsOwned(t)) /\ owner'[cur[s]] # s
    BY <1>0, <1>1, <1>2, FinalizeRows
  <2>2. TypeOK'
    BY <1>0, <1>1, <1>2, FinalizeTypes DEF TypeOK, batchVars, stepVars, budgets, PCs, Executing
  <2>3. ASSUME NEW t \in Schedulers, t # s PROVE PassInv(t)'
    BY <1>2, <2>1, <2>3, Frame DEF TypeOK, SameLocals, batchVars, stepVars
  <2>4. PassShape(s)'
    BY <1>1, <1>2 DEF TypeOK, PassInv, PassShape, Attempting, Executing, batchVars, stepVars
  <2>5. ASSUME NEW i \in Jobs, owner'[i] = s PROVE OwnedRow(s, i)'
    BY <1>1, <1>2, <2>1, <2>5, OtherRow DEF PassInv, KeepsOwned, batchVars, stepVars
  <2> QED BY <2>1, <2>2, <2>3, <2>4, <2>5 DEF PassInv
<1>3. CASE /\ FinalizeAttempt(s, cur[s], run[s], try[s], "failed", "failed")
           /\ ~ OwnsAttempt(s, cur[s], try[s])
           /\ EndAttempt(s)
  <2>1. owner[cur[s]] # s
    BY <1>0, <1>1, <1>3 DEF PassInv, OwnedRow
  <2>2. RowsOwned' /\ (\A t \in Schedulers : KeepsOwned(t)) /\ owner'[cur[s]] # s
    BY <1>0, <1>1, <1>3, <2>1, FinalizeRows
  <2>3. TypeOK'
    BY <1>0, <1>1, <1>3, FinalizeTypes, EndAttemptTypes DEF TypeOK, budgets
  <2>4. ASSUME NEW t \in Schedulers, t # s PROVE PassInv(t)'
    BY <1>3, <2>2, <2>4, EndAttemptOthers, Frame
  <2>5. PassInv(s)'
    BY <1>0, <1>3, <2>2, EndAttemptPass
  <2> QED BY <2>2, <2>3, <2>4, <2>5
<1>4. CASE pc' = [pc EXCEPT ![s] = "dead"] /\ UNCHANGED <<jobVars, runs, batchVars, stepVars>>
  <2>1. TypeOK'
    BY <1>1, <1>4 DEF TypeOK, jobVars, batchVars, stepVars, budgets, PCs, Executing
  <2>2. RowsOwned' /\ \A t \in Schedulers : KeepsOwned(t)
    BY <1>4 DEF jobVars, RowsOwned, KeepsOwned
  <2>3. ASSUME NEW t \in Schedulers, t # s PROVE PassInv(t)'
    BY <1>4, <2>2, <2>3, Frame DEF TypeOK, SameLocals, batchVars, stepVars
  <2>4. PassInv(s)'
    BY <1>1, <1>4 DEF TypeOK, PassInv, PassShape, Attempting, Executing, batchVars, stepVars
  <2> QED BY <2>1, <2>2, <2>3, <2>4
<1> QED BY <1>2, <1>3, <1>4 DEF Refinalize

\* The invariant holds of the empty tables and idle schedulers.
LEMMA InitInv == Init => IndInv
<1> SUFFICES ASSUME Init PROVE IndInv
  OBVIOUS
<1> USE ConstantsAssumption DEF Init
<1>1. TypeOK
  <2>1. runs \in Seq(RunRow)
    BY EmptySeq
  <2>2. found \in [Schedulers -> [status : JobStatus, attempts : Nat]]
    BY DEF NoRow, JobStatus
  <2>3. /\ status \in [Jobs -> JobStatus] /\ pc \in [Schedulers -> PCs]
        /\ verdict \in [Schedulers -> Verdicts]
    BY DEF JobStatus, PCs, Verdicts, TerminalRun
  <2> QED BY <2>1, <2>2, <2>3 DEF TypeOK
<1>2. RowsOwned
  BY DEF RowsOwned, Active
<1>3. ASSUME NEW s \in Schedulers PROVE PassInv(s)
  BY DEF PassInv, PassShape, Attempting, Executing
<1> QED BY <1>1, <1>2, <1>3 DEF IndInv

\* A step that changes nothing keeps the invariant.
LEMMA StutterInv == IndInv /\ UNCHANGED vars => IndInv'
<1> SUFFICES ASSUME IndInv, UNCHANGED vars PROVE IndInv'
  OBVIOUS
<1>1. /\ UNCHANGED <<status, owner, attempts, lapsed, runs, pc, checking, runnable, seen>>
      /\ UNCHANGED <<cur, try, run, verdict, found, ended, cancels, stalls, crashes, faults, cleanups>>
  BY DEF vars, jobVars, batchVars, stepVars, budgets
<1>2. TypeOK'
  BY <1>1 DEF IndInv, TypeOK
<1>3. RowsOwned'
  BY <1>1 DEF IndInv, RowsOwned
<1>4. ASSUME NEW s \in Schedulers PROVE PassInv(s)'
  BY <1>1, Frame DEF IndInv, SameLocals, KeepsOwned
<1> QED BY <1>2, <1>3, <1>4 DEF IndInv

\* Every step of a scheduler pass keeps the invariant, one case per action.
LEMMA PassStepInv ==
    ASSUME IndInv, NEW s \in Schedulers, PassStep(s)
    PROVE  IndInv'
<1>1. CASE Claim(s)
  BY <1>1, ClaimStep
<1>2. ASSUME NEW j \in Jobs,
             \/ CheckProject(s, j) \/ CheckKind(s, j) \/ Defer(s, j)
             \/ MarkRunning(s, j) \/ Superseded(s, j)
      PROVE  IndInv'
  BY <1>2, CheckProjectStep, CheckKindStep, DeferStep, MarkRunningStep, SupersededStep
<1>3. CASE StartRun(s) \/ RejectByValidation(s)
  BY <1>3, StartRunStep, RejectByValidationStep
<1>4. ASSUME NEW result \in TerminalRun, WorkerReturns(s, result) PROVE IndInv'
  BY <1>4, WorkerReturnsStep
<1>5. CASE FinalizeOwned(s) \/ FinalizeLost(s) \/ Emit(s) \/ FinalizeRaises(s)
  BY <1>5, FinalizeOwnedStep, FinalizeLostStep, EmitStep, FinalizeRaisesStep
<1>6. CASE RecoverReadJob(s) \/ RecoverFilesRun(s) \/ Settle(s) \/ Refinalize(s) \/ Report(s)
  BY <1>6, RecoverReadJobStep, RecoverFilesRunStep, SettleStep, RefinalizeStep, ReportStep
<1>7. ASSUME NEW r \in DOMAIN runs, RecoverKeepsRun(s, r) PROVE IndInv'
  BY <1>7, RecoverKeepsRunStep
<1> QED BY <1>1, <1>2, <1>3, <1>4, <1>5, <1>6, <1>7 DEF PassStep

\* Every step keeps the invariant: the induction step.
LEMMA NextInv == IndInv /\ [Next]_vars => IndInv'
<1> SUFFICES ASSUME IndInv, [Next]_vars PROVE IndInv'
  OBVIOUS
<1>1. ASSUME NEW s \in Schedulers,
             \/ PassStep(s) \/ Fault(s) \/ Crash(s)
             \/ \E j \in Jobs : FaultAtMark(s, j) \/ Renew(s, j)
      PROVE  IndInv'
  BY <1>1, PassStepInv, FaultStep, CrashStep, FaultAtMarkStep, RenewStep
<1>2. ASSUME NEW j \in Jobs, Submit(j) \/ Cancel(j) \/ Lapse(j) \/ Stall(j) PROVE IndInv'
  BY <1>2, SubmitStep, CancelStep, LapseStep, StallStep
<1>3. CASE Cleanup
  BY <1>3, CleanupStep
<1>4. CASE UNCHANGED vars
  BY <1>4, StutterInv
<1> QED BY <1>1, <1>2, <1>3, <1>4 DEF Next

\* The inductive invariant: what a live scheduler read of a row it owns is
\* current in every reachable state, whatever leases, cancellations, cleanups,
\* faults and crashes interleave.
THEOREM Invariance == Spec => []IndInv
  BY InitInv, NextInv, PTL DEF Spec

\* Type correctness of the tables and of every pass.
THEOREM TypeCorrect == Spec => []TypeOK
<1>1. IndInv => TypeOK
  BY DEF IndInv
<1> QED BY <1>1, Invariance, PTL

\* No path through execution, supersession or recovery walks away from a
\* lease, for any number of schedulers and jobs and any policy.
THEOREM NoLimbo == Spec => []NoLeaseInLimbo
<1>1. IndInv => NoLeaseInLimbo
  BY DEF IndInv, RowsOwned, PassInv, OwnedRow, NoLeaseInLimbo
<1> QED BY <1>1, Invariance, PTL

\* A running row with a live owner is the attempt that owner executes, under
\* the attempt number the row counts.
THEOREM RunningExecuted == Spec => []RunningIsExecuted
<1>1. IndInv => RunningIsExecuted
  BY DEF IndInv, PassInv, OwnedRow, RunningIsExecuted
<1> QED BY <1>1, Invariance, PTL

\* The claimed snapshot attempt_count is computed from is current as long as
\* the lease is held.
THEOREM SnapshotsCurrent == Spec => []SnapshotCurrent
<1>1. IndInv => SnapshotCurrent
  BY DEF IndInv, PassInv, OwnedRow, SnapshotCurrent
<1> QED BY <1>1, Invariance, PTL

\* What AttemptsCountMarks says of one step.
MarksOnly ==
    \A j \in Jobs : attempts'[j] # attempts[j] =>
        /\ attempts'[j] = attempts[j] + 1
        /\ status[j] = "leased" /\ status'[j] = "running"

\* try_mark_job_running writes the snapshot plus one; because the snapshot is
\* current, that is the row plus one.
LEMMA MarkCounts ==
    ASSUME IndInv, NEW s \in Schedulers, NEW j \in Jobs, MarkRunning(s, j)
    PROVE  MarksOnly
<1>1. /\ pc[s] = "mark" /\ status[j] = "leased" /\ owner[j] = s
      /\ status' = [status EXCEPT ![j] = "running"]
      /\ attempts' = [attempts EXCEPT ![j] = seen[s][j] + 1]
  BY DEF MarkRunning
<1>2. seen[s][j] = attempts[j]
  BY <1>1, LiveRow DEF OwnedRow
<1> QED BY <1>1, <1>2 DEF IndInv, TypeOK, MarksOnly

\* No other action writes attempt_count.
LEMMA OnlyMarksCount == IndInv /\ [Next]_vars => MarksOnly
<1> SUFFICES ASSUME IndInv, [Next]_vars PROVE MarksOnly
  OBVIOUS
<1>0. UNCHANGED attempts => MarksOnly
  BY DEF MarksOnly
<1>1. ASSUME NEW s \in Schedulers, PassStep(s) PROVE MarksOnly
  <2>1. ASSUME NEW j \in Jobs, MarkRunning(s, j) PROVE MarksOnly
    BY <2>1, MarkCounts
  <2>2. CASE Claim(s)
    BY <1>0, <2>2 DEF Claim
  <2>3. ASSUME NEW j \in Jobs, \/ CheckProject(s, j) \/ CheckKind(s, j)
                               \/ Defer(s, j) \/ Superseded(s, j)
        PROVE  UNCHANGED attempts
    BY <2>3 DEF CheckProject, CheckKind, Defer, Superseded, FinishJob, jobVars
  <2>4. CASE \/ StartRun(s) \/ RejectByValidation(s) \/ FinalizeOwned(s) \/ FinalizeLost(s)
             \/ Emit(s) \/ FinalizeRaises(s)
    BY <1>0, <2>4 DEF StartRun, RejectByValidation, FinalizeOwned, FinalizeLost, Emit,
                      FinalizeRaises, FinalizeAttempt, jobVars
  <2>5. ASSUME NEW result \in TerminalRun, WorkerReturns(s, result) PROVE UNCHANGED attempts
    BY <2>5 DEF WorkerReturns, jobVars
  <2>6. CASE \/ RecoverReadJob(s) \/ RecoverFilesRun(s) \/ Settle(s) \/ Refinalize(s) \/ Report(s)
    BY <1>0, <2>6 DEF RecoverReadJob, RecoverFilesRun, Settle, Refinalize, Report,
                      FinishJob, FinalizeAttempt, jobVars
  <2>7. ASSUME NEW r \in DOMAIN runs, RecoverKeepsRun(s, r) PROVE UNCHANGED attempts
    BY <2>7 DEF RecoverKeepsRun, jobVars
  <2> QED BY <1>0, <1>1, <2>1, <2>2, <2>3, <2>4, <2>5, <2>6, <2>7 DEF PassStep
<1>2. ASSUME NEW s \in Schedulers, Fault(s) \/ Crash(s) PROVE UNCHANGED attempts
  BY <1>2 DEF Fault, Crash, jobVars
<1>3. ASSUME NEW s \in Schedulers, NEW j \in Jobs, FaultAtMark(s, j) \/ Renew(s, j)
      PROVE  UNCHANGED attempts
  BY <1>3 DEF FaultAtMark, Renew, jobVars
<1>4. ASSUME NEW j \in Jobs, Submit(j) \/ Cancel(j) \/ Lapse(j) \/ Stall(j)
      PROVE  UNCHANGED attempts
  BY <1>4 DEF Submit, Cancel, Lapse, Stall
<1>5. CASE Cleanup \/ UNCHANGED vars
  BY <1>0, <1>5 DEF Cleanup, vars, jobVars
<1> QED BY <1>0, <1>1, <1>2, <1>3, <1>4, <1>5 DEF Next

\* attempt_count grows by one, and only when the lease owner marks the job
\* running (try_mark_job_running).
THEOREM AttemptsAreMarks == Spec => AttemptsCountMarks
<1>1. IndInv /\ [Next]_vars => MarksOnly
  BY OnlyMarksCount
<1>2. MarksOnly <=> (\A j \in Jobs : attempts'[j] # attempts[j] =>
          /\ attempts'[j] = attempts[j] + 1
          /\ status[j] = "leased" /\ status'[j] = "running")
  BY DEF MarksOnly
<1> QED BY <1>1, <1>2, Invariance, PTL DEF Spec, AttemptsCountMarks

\* What RunsFinishOnce says of one step.
KeepsFinished ==
    \A r \in DOMAIN runs :
        runs[r].status \in TerminalRun => runs'[r] = runs[r] \/ runs'[r].status = "deleted"

\* Inserting a Run leaves the others alone.
LEMMA AppendKeeps ==
    ASSUME TypeOK, NEW row, runs' = Append(runs, row)
    PROVE  KeepsFinished
<1>1. \A r \in DOMAIN runs : r \in 1 .. Len(runs)
  BY LenProperties DEF TypeOK
<1>2. \A r \in 1 .. Len(runs) : Append(runs, row)[r] = runs[r]
  BY DEF TypeOK
<1> QED BY <1>1, <1>2 DEF KeepsFinished

\* finalize_attempt refuses a finished Run, so it overwrites none.
LEMMA FinalizeKeeps ==
    ASSUME TypeOK, NEW s, NEW j, NEW r, NEW a, NEW rs, NEW js,
           FinalizeAttempt(s, j, r, a, rs, js)
    PROVE  KeepsFinished
<1>1. CASE r = 0
  BY <1>1, AppendKeeps DEF FinalizeAttempt
<1>2. CASE r # 0
  <2>1. runs' = [runs EXCEPT ![r].status = rs, ![r].attempt = a] /\ runs[r].status \notin TerminalRun
    BY <1>2 DEF FinalizeAttempt, CannotFinalize
  <2>2. ASSUME NEW q \in DOMAIN runs, runs[q].status \in TerminalRun PROVE runs'[q] = runs[q]
    BY <2>1, <2>2
  <2> QED BY <2>2 DEF KeepsFinished
<1> QED BY <1>1, <1>2

\* No action moves a finished Run, except cleanup, which deletes it.
LEMMA FinishedRunsKept == IndInv /\ [Next]_vars => KeepsFinished
<1> SUFFICES ASSUME IndInv, [Next]_vars PROVE KeepsFinished
  OBVIOUS
<1>0. TypeOK /\ (UNCHANGED runs => KeepsFinished)
  BY DEF IndInv, KeepsFinished
<1>1. ASSUME NEW s \in Schedulers, PassStep(s) PROVE KeepsFinished
  <2>1. CASE FinalizeOwned(s) \/ FinalizeLost(s)
    BY <1>0, <2>1, FinalizeKeeps DEF FinalizeOwned, FinalizeLost
  <2>2. CASE Refinalize(s)
    BY <1>0, <2>2, FinalizeKeeps DEF Refinalize
  <2>3. CASE StartRun(s)
    BY <1>0, <2>3, AppendKeeps DEF StartRun
  <2>4. CASE \/ Claim(s) \/ RejectByValidation(s) \/ Emit(s) \/ FinalizeRaises(s)
             \/ RecoverReadJob(s) \/ RecoverFilesRun(s) \/ Settle(s) \/ Report(s)
    BY <1>0, <2>4 DEF Claim, RejectByValidation, Emit, FinalizeRaises, RecoverReadJob,
                      RecoverFilesRun, Settle, Report
  <2>5. ASSUME NEW j \in Jobs, \/ CheckProject(s, j) \/ CheckKind(s, j) \/ Defer(s, j)
                               \/ MarkRunning(s, j) \/ Superseded(s, j)
        PROVE  UNCHANGED runs
    BY <2>5 DEF CheckProject, CheckKind, Defer, MarkRunning, Superseded
  <2>6. ASSUME NEW result \in TerminalRun, WorkerReturns(s, result) PROVE UNCHANGED runs
    BY <2>6 DEF WorkerReturns
  <2>7. ASSUME NEW r \in DOMAIN runs, RecoverKeepsRun(s, r) PROVE UNCHANGED runs
    BY <2>7 DEF RecoverKeepsRun
  <2> QED BY <1>0, <1>1, <2>1, <2>2, <2>3, <2>4, <2>5, <2>6, <2>7 DEF PassStep
<1>2. ASSUME NEW s \in Schedulers, Fault(s) \/ Crash(s) PROVE UNCHANGED runs
  BY <1>2 DEF Fault, Crash
<1>3. ASSUME NEW s \in Schedulers, NEW j \in Jobs, FaultAtMark(s, j) \/ Renew(s, j)
      PROVE  UNCHANGED runs
  BY <1>3 DEF FaultAtMark, Renew
<1>4. ASSUME NEW j \in Jobs, Submit(j) \/ Cancel(j) \/ Lapse(j) \/ Stall(j)
      PROVE  UNCHANGED runs
  BY <1>4 DEF Submit, Cancel, Lapse, Stall
<1>5. CASE Cleanup
  <2>1. ASSUME NEW r \in DOMAIN runs
        PROVE  runs'[r] = runs[r] \/ runs'[r] = [runs[r] EXCEPT !.status = "deleted"]
    BY <1>5 DEF Cleanup
  <2>2. ASSUME NEW r \in DOMAIN runs
        PROVE  [runs[r] EXCEPT !.status = "deleted"].status = "deleted"
    <3>1. runs[r] \in RunRow
      BY <1>0, ElementOfSeq, LenProperties DEF TypeOK
    <3> QED BY <3>1 DEF RunRow
  <2> QED BY <2>1, <2>2 DEF KeepsFinished
<1>6. CASE UNCHANGED vars
  BY <1>0, <1>6 DEF vars
<1> QED BY <1>0, <1>1, <1>2, <1>3, <1>4, <1>5, <1>6 DEF Next

\* A finished Run is never finished again or given to another attempt
\* (store_run_lifecycle), whatever recovery and reclaiming schedulers race for.
THEOREM FinishedOnce == Spec => RunsFinishOnce
<1>1. IndInv /\ [Next]_vars => KeepsFinished
  BY FinishedRunsKept
<1>2. KeepsFinished <=> (\A r \in DOMAIN runs :
          runs[r].status \in TerminalRun =>
              \/ runs'[r] = runs[r]
              \/ runs'[r].status = "deleted")
  BY DEF KeepsFinished
<1> QED BY <1>1, <1>2, Invariance, PTL DEF Spec, RunsFinishOnce

-----------------------------------------------------------------------------
(* Attempts and their Runs while nothing raises.                           *)

Underway == {"prepare", "working", "finalize"}

\* The attempt a scheduler executes is one its job has counted; its Run is
\* not inserted yet, or is the running row of that attempt.
AttemptRow(s) ==
    /\ pc[s] \notin {"working", "finalize", "emit", "dead"} => run[s] = 0
    /\ pc[s] = "working" => run[s] # 0
    /\ pc[s] \in Underway =>
          /\ try[s] <= attempts[cur[s]]
          /\ run[s] = 0 => \A r \in DOMAIN runs : ~ (runs[r].job = cur[s] /\ runs[r].attempt = try[s])
          /\ run[s] # 0 => /\ run[s] \in DOMAIN runs
                           /\ runs[run[s]] = [job |-> cur[s], attempt |-> try[s], status |-> "running"]

\* Only a job that cleanup deleted sends an attempt into recovery.
OnlyDeleted(s) ==
    /\ pc[s] \notin {"inspect", "settle", "refinalize", "report"}
    /\ pc[s] = "recover" => status[cur[s]] = "deleted"

\* No two schedulers execute one attempt of a job.
OwnAttempts ==
    \A s, t \in Schedulers :
        s # t /\ pc[s] \in Underway /\ pc[t] \in Underway /\ cur[s] = cur[t] => try[s] # try[t]

RunsCounted == \A r \in DOMAIN runs : runs[r].attempt <= attempts[runs[r].job]

AttemptInv ==
    /\ \A s \in Schedulers : AttemptRow(s) /\ OnlyDeleted(s)
    /\ OwnAttempts
    /\ RunsCounted
    /\ AttemptsAreUnique


\* What a step may do to the tables as far as attempts are concerned.
TableStep ==
    /\ \A j \in Jobs : attempts[j] <= attempts'[j]
    /\ \A j \in Jobs : status[j] = "deleted" => status'[j] = "deleted"
    /\ DOMAIN runs \subseteq DOMAIN runs'
    /\ \A r \in DOMAIN runs : runs'[r].job = runs[r].job /\ runs'[r].attempt = runs[r].attempt

\* The step does not move the attempt of t, nor write its Run or another of
\* its number.
SameAttempt(t) ==
    /\ pc'[t] = pc[t] /\ cur'[t] = cur[t] /\ try'[t] = try[t] /\ run'[t] = run[t]
    /\ pc[t] \in Underway =>
          /\ run[t] # 0 => runs'[run[t]] = runs[run[t]]
          /\ \A r \in DOMAIN runs' \ DOMAIN runs :
                ~ (runs'[r].job = cur[t] /\ runs'[r].attempt = try[t])

\* The tables hold jobs and numbers.
LEMMA RunsTyped ==
    ASSUME TypeOK
    PROVE  /\ DOMAIN runs = 1 .. Len(runs) /\ Len(runs) \in Nat
           /\ \A r \in DOMAIN runs : runs[r] \in RunRow /\ runs[r].job \in Jobs /\ runs[r].attempt \in Nat
<1>1. DOMAIN runs = 1 .. Len(runs) /\ Len(runs) \in Nat /\ \A r \in 1 .. Len(runs) : runs[r] \in RunRow
  BY LenProperties, ElementOfSeq DEF TypeOK
<1> QED BY <1>1 DEF RunRow

\* A scheduler whose attempt the step does not touch keeps its part.
LEMMA AttemptFrame ==
    ASSUME IndInv, NEW t \in Schedulers, AttemptRow(t), OnlyDeleted(t), TableStep, SameAttempt(t), IndInv'
    PROVE  AttemptRow(t)' /\ OnlyDeleted(t)'
<1>1. pc[t] \in Underway \cup {"recover"} => cur[t] \in Jobs
  BY AttemptedJob DEF Underway, Attempting, Executing
<1>2. TypeOK /\ TypeOK'
  BY DEF IndInv
<1>3. OnlyDeleted(t)'
  BY <1>1 DEF OnlyDeleted, SameAttempt, TableStep
<1>4. ASSUME pc[t] \in Underway PROVE try[t] <= attempts'[cur[t]]
  <2>1. cur[t] \in Jobs /\ try[t] \in Nat
    BY <1>1, <1>2, <1>4 DEF TypeOK
  <2>2. attempts[cur[t]] \in Nat /\ attempts'[cur[t]] \in Nat
    BY <1>2, <2>1 DEF TypeOK
  <2>3. try[t] <= attempts[cur[t]] /\ attempts[cur[t]] <= attempts'[cur[t]]
    BY <1>4, <2>1 DEF AttemptRow, TableStep
  <2> QED BY <2>1, <2>2, <2>3
<1>5. ASSUME pc[t] \in Underway, run[t] = 0, NEW r \in DOMAIN runs'
      PROVE  ~ (runs'[r].job = cur[t] /\ runs'[r].attempt = try[t])
  <2>1. CASE r \in DOMAIN runs
    BY <1>5, <2>1 DEF AttemptRow, TableStep
  <2>2. CASE r \notin DOMAIN runs
    BY <1>5, <2>2 DEF SameAttempt
  <2> QED BY <2>1, <2>2
<1>6. ASSUME pc[t] \in Underway, run[t] # 0
      PROVE  /\ run[t] \in DOMAIN runs'
             /\ runs'[run[t]] = [job |-> cur[t], attempt |-> try[t], status |-> "running"]
  BY <1>6 DEF AttemptRow, SameAttempt, TableStep
<1>7. AttemptRow(t)'
  BY <1>4, <1>5, <1>6 DEF AttemptRow, SameAttempt
<1> QED BY <1>3, <1>7

\* A scheduler that executes nothing has nothing to keep.
LEMMA AtRest ==
    ASSUME NEW s \in Schedulers,
           \/ pc'[s] \in {"idle", "check_project", "check_kind", "defer", "mark"} /\ run'[s] = 0
           \/ pc'[s] \in {"emit", "dead"}
           \/ pc'[s] = "recover" /\ run'[s] = 0 /\ status'[cur'[s]] = "deleted"
    PROVE  AttemptRow(s)' /\ OnlyDeleted(s)' /\ pc'[s] \notin Underway
  BY DEF AttemptRow, OnlyDeleted, Underway

\* A step that inserts no Run and begins no attempt keeps the numbers distinct.
LEMMA NothingNew ==
    ASSUME IndInv, IndInv', AttemptInv, TableStep, DOMAIN runs' = DOMAIN runs,
           \A t \in Schedulers : pc'[t] \in Underway =>
               pc[t] \in Underway /\ cur'[t] = cur[t] /\ try'[t] = try[t]
    PROVE  OwnAttempts' /\ RunsCounted' /\ AttemptsAreUnique'
<1>1. OwnAttempts'
  BY DEF AttemptInv, OwnAttempts
<1>2. ASSUME NEW r \in DOMAIN runs' PROVE runs'[r].attempt <= attempts'[runs'[r].job]
  <2>1. runs'[r].job = runs[r].job /\ runs'[r].attempt = runs[r].attempt
    BY DEF TableStep
  <2>2. runs[r].job \in Jobs /\ runs[r].attempt \in Nat /\ runs[r].attempt <= attempts[runs[r].job]
    BY RunsTyped DEF AttemptInv, RunsCounted, IndInv
  <2>3. attempts[runs[r].job] \in Nat /\ attempts'[runs[r].job] \in Nat
        /\ attempts[runs[r].job] <= attempts'[runs[r].job]
    BY <2>2 DEF IndInv, TypeOK, TableStep
  <2> QED BY <2>1, <2>2, <2>3
<1>3. AttemptsAreUnique'
  BY DEF AttemptInv, AttemptsAreUnique, TableStep
<1> QED BY <1>1, <1>2, <1>3 DEF RunsCounted

\* A step that moves the pass of s at most, inserts no Run and begins no
\* attempt keeps the invariant once s keeps its own part.
LEMMA AttemptsKept ==
    ASSUME IndInv, IndInv', AttemptInv, NEW s \in Schedulers, TableStep, DOMAIN runs' = DOMAIN runs,
           \A t \in Schedulers \ {s} : SameAttempt(t),
           AttemptRow(s)' /\ OnlyDeleted(s)',
           pc'[s] \in Underway => pc[s] \in Underway /\ cur'[s] = cur[s] /\ try'[s] = try[s]
    PROVE  AttemptInv'
<1>1. ASSUME NEW t \in Schedulers PROVE AttemptRow(t)' /\ OnlyDeleted(t)'
  <2>1. CASE t = s
    BY <2>1
  <2>2. CASE t # s
    BY <2>2, AttemptFrame DEF AttemptInv
  <2> QED BY <2>1, <2>2
<1>2. ASSUME NEW t \in Schedulers, pc'[t] \in Underway
      PROVE  pc[t] \in Underway /\ cur'[t] = cur[t] /\ try'[t] = try[t]
  BY <1>2 DEF SameAttempt
<1>3. OwnAttempts' /\ RunsCounted' /\ AttemptsAreUnique'
  BY <1>2, NothingNew
<1> QED BY <1>1, <1>3 DEF AttemptInv

\* The same for steps of nobody's pass.
LEMMA AttemptsUntouched ==
    ASSUME IndInv, IndInv', AttemptInv, TableStep, DOMAIN runs' = DOMAIN runs,
           \A t \in Schedulers : SameAttempt(t)
    PROVE  AttemptInv'
<1>1. ASSUME NEW t \in Schedulers PROVE AttemptRow(t)' /\ OnlyDeleted(t)'
  BY AttemptFrame DEF AttemptInv
<1>2. OwnAttempts' /\ RunsCounted' /\ AttemptsAreUnique'
  BY NothingNew DEF SameAttempt
<1> QED BY <1>1, <1>2 DEF AttemptInv

\* Neither Runs nor attempt counts change and no deleted row comes back.
LEMMA TablesStill ==
    ASSUME IndInv, UNCHANGED <<runs, attempts>>,
           \A j \in Jobs : status[j] = "deleted" => status'[j] = "deleted"
    PROVE  /\ TableStep /\ DOMAIN runs' = DOMAIN runs
           /\ \A t \in Schedulers :
                 pc'[t] = pc[t] /\ cur'[t] = cur[t] /\ try'[t] = try[t] /\ run'[t] = run[t]
                 => SameAttempt(t)
<1>1. \A j \in Jobs : attempts[j] \in Nat
  BY DEF IndInv, TypeOK
<1> QED BY <1>1 DEF TableStep, SameAttempt

\* finish_job brings no deleted row back.
LEMMA DeletedStays ==
    ASSUME IndInv, NEW j \in Jobs, NEW st, FinishJob(j, st)
    PROVE  \A i \in Jobs : status[i] = "deleted" => status'[i] = "deleted"
  BY DEF IndInv, TypeOK, FinishJob

\* The calls of the API and the lease clock leave attempts alone.
LEMMA ApiAttempts ==
    ASSUME IndInv, IndInv', AttemptInv, NEW j \in Jobs,
           \/ Submit(j) \/ Cancel(j) \/ Lapse(j) \/ Stall(j)
           \/ \E s \in Schedulers : Renew(s, j)
    PROVE  AttemptInv'
<1>1. /\ UNCHANGED <<runs, attempts, pc, cur, try, run>>
      /\ \A i \in Jobs : status[i] = "deleted" => status'[i] = "deleted"
  BY DEF IndInv, TypeOK, Submit, Cancel, Lapse, Stall, Renew, stepVars
<1> QED BY <1>1, TablesStill, AttemptsUntouched

\* Cleanup deletes finished Runs only, and no attempt under way has one.
LEMMA CleanupAttempts ==
    ASSUME IndInv, IndInv', AttemptInv, Cleanup
    PROVE  AttemptInv'
<1>1. /\ UNCHANGED <<attempts, pc, cur, try, run>>
      /\ \A i \in Jobs : status[i] = "deleted" => status'[i] = "deleted"
      /\ DOMAIN runs' = DOMAIN runs
  BY DEF IndInv, TypeOK, Cleanup, stepVars
<1>2. ASSUME NEW r \in DOMAIN runs
      PROVE  /\ runs'[r].job = runs[r].job /\ runs'[r].attempt = runs[r].attempt
             /\ runs[r].status \notin TerminalRun => runs'[r] = runs[r]
  <2>1. runs'[r] = runs[r] \/ (runs[r].status \in TerminalRun /\ runs'[r] = [runs[r] EXCEPT !.status = "deleted"])
    BY DEF Cleanup
  <2>2. runs[r] \in RunRow
    BY RunsTyped DEF IndInv
  <2> QED BY <2>1, <2>2 DEF RunRow
<1>3. TableStep
  BY <1>1, <1>2 DEF TableStep, IndInv, TypeOK
<1>4. ASSUME NEW t \in Schedulers PROVE SameAttempt(t)
  <2>1. ASSUME pc[t] \in Underway, run[t] # 0 PROVE runs'[run[t]] = runs[run[t]]
    <3>1. AttemptRow(t)
      BY DEF AttemptInv
    <3>2. /\ run[t] \in DOMAIN runs
          /\ runs[run[t]] = [job |-> cur[t], attempt |-> try[t], status |-> "running"]
      BY <2>1, <3>1 DEF AttemptRow
    <3>3. runs[run[t]].status = "running"
      BY <3>2
    <3> QED BY <1>2, <3>2, <3>3 DEF TerminalRun
  <2> QED BY <1>1, <2>1 DEF SameAttempt
<1> QED BY <1>1, <1>3, <1>4, AttemptsUntouched

\* Claiming, checking, deferring and skipping begin no attempt.
LEMMA BatchAttempts ==
    ASSUME IndInv, IndInv', AttemptInv, NEW s \in Schedulers,
           \/ Claim(s)
           \/ \E j \in Jobs : CheckProject(s, j) \/ CheckKind(s, j) \/ Defer(s, j) \/ Superseded(s, j)
    PROVE  AttemptInv'
<1>1. \A C, R : AfterCheck(C, R) \in {"check_project", "mark", "idle"}
  BY DEF AfterCheck
<1>2. /\ UNCHANGED <<runs, attempts, cur, try, run>>
      /\ pc[s] \in {"idle", "check_project", "check_kind", "defer", "mark"}
      /\ pc' = [pc EXCEPT ![s] = pc'[s]]
      /\ pc'[s] \in {"idle", "check_project", "check_kind", "defer", "mark"}
      /\ \A i \in Jobs : status[i] = "deleted" => status'[i] = "deleted"
  <2>1. CASE Claim(s)
    <3>1. PICK S \in SUBSET Claimable :
             status' = [j \in Jobs |-> IF j \in S THEN "leased" ELSE status[j]]
      BY <2>1 DEF Claim
    <3>2. \A i \in Jobs : status[i] = "deleted" => status'[i] = "deleted"
      BY <3>1 DEF Claimable, Active
    <3>3. pc[s] = "idle" /\ pc' = [pc EXCEPT ![s] = "check_project"] /\ UNCHANGED <<runs, attempts, cur, try, run>>
      BY <2>1 DEF Claim, stepVars
    <3> QED BY <3>2, <3>3 DEF IndInv, TypeOK
  <2>2. ASSUME NEW j \in Jobs, CheckProject(s, j) \/ Superseded(s, j)
        PROVE  <1>2!:
    BY <1>1, <2>2, SMTT(30) DEF CheckProject, Superseded, stepVars, jobVars, IndInv, TypeOK
  <2>3. ASSUME NEW j \in Jobs, CheckKind(s, j) PROVE <1>2!:
    BY <1>1, <2>3 DEF CheckKind, stepVars, jobVars, batchVars, IndInv, TypeOK
  <2>4. ASSUME NEW j \in Jobs, Defer(s, j) PROVE <1>2!:
    <3>1. FinishJob(j, "queued") /\ pc[s] = "defer" /\ UNCHANGED <<runs, cur, try, run>>
          /\ pc' = [pc EXCEPT ![s] = AfterCheck(checking[s] \ {j}, runnable[s])]
      BY <2>4 DEF Defer, stepVars
    <3>2. UNCHANGED attempts
      BY <3>1 DEF FinishJob
    <3>3. \A i \in Jobs : status[i] = "deleted" => status'[i] = "deleted"
      BY <3>1, DeletedStays
    <3> QED BY <1>1, <3>1, <3>2, <3>3 DEF IndInv, TypeOK
  <2> QED BY <2>1, <2>2, <2>3, <2>4
<1>3. run'[s] = 0
  BY <1>2 DEF AttemptInv, AttemptRow
<1>4. AttemptRow(s)' /\ OnlyDeleted(s)' /\ pc'[s] \notin Underway
  BY <1>2, <1>3, AtRest
<1>5. \A t \in Schedulers \ {s} : pc'[t] = pc[t]
  BY <1>2 DEF IndInv, TypeOK
<1>6. TableStep /\ DOMAIN runs' = DOMAIN runs /\ \A t \in Schedulers \ {s} : SameAttempt(t)
  BY <1>2, <1>5, TablesStill
<1> QED BY <1>4, <1>6, AttemptsKept

\* The gate's refusal and the worker's return only record the outcome.
LEMMA OutcomeAttempts ==
    ASSUME IndInv, IndInv', AttemptInv, NEW s \in Schedulers,
           RejectByValidation(s) \/ \E result \in TerminalRun : WorkerReturns(s, result)
    PROVE  AttemptInv'
<1>1. /\ UNCHANGED <<runs, attempts, status, cur, try, run>>
      /\ pc[s] \in {"prepare", "working"} /\ pc' = [pc EXCEPT ![s] = "finalize"]
  BY DEF RejectByValidation, WorkerReturns, jobVars
<1>2. pc'[s] = "finalize" /\ \A t \in Schedulers \ {s} : pc'[t] = pc[t]
  BY <1>1 DEF IndInv, TypeOK
<1>3. AttemptRow(s)' /\ OnlyDeleted(s)'
  <2>1. AttemptRow(s)
    BY DEF AttemptInv
  <2> QED BY <1>1, <1>2, <2>1 DEF AttemptRow, OnlyDeleted, Underway
<1>4. TableStep /\ DOMAIN runs' = DOMAIN runs /\ \A t \in Schedulers \ {s} : SameAttempt(t)
  BY <1>1, <1>2, TablesStill
<1> QED BY <1>1, <1>2, <1>3, <1>4, AttemptsKept DEF Underway

\* An emitted attempt and a dead process leave the tables alone.
LEMMA LeavingAttempts ==
    ASSUME IndInv, IndInv', AttemptInv, NEW s \in Schedulers, Emit(s) \/ Crash(s)
    PROVE  AttemptInv'
<1>1. AfterCheck({}, runnable[s]) \in {"mark", "idle"}
  BY DEF AfterCheck
<1>2. /\ UNCHANGED <<runs, attempts, status>>
      /\ \/ pc'[s] \in {"mark", "idle"} /\ run'[s] = 0
         \/ pc'[s] = "dead"
      /\ \A t \in Schedulers \ {s} : pc'[t] = pc[t] /\ cur'[t] = cur[t] /\ try'[t] = try[t] /\ run'[t] = run[t]
  BY <1>1, ZenonT(40) DEF Emit, Crash, EndAttempt, jobVars, stepVars, IndInv, TypeOK
<1>3. AttemptRow(s)' /\ OnlyDeleted(s)' /\ pc'[s] \notin Underway
  BY <1>2, AtRest
<1>4. TableStep /\ DOMAIN runs' = DOMAIN runs /\ \A t \in Schedulers \ {s} : SameAttempt(t)
  BY <1>2, TablesStill
<1> QED BY <1>3, <1>4, AttemptsKept

\* The number try_mark_job_running counts is new: no Run and no attempt under
\* way carries a number above attempt_count.
LEMMA MarkAttempts ==
    ASSUME IndInv, IndInv', AttemptInv, NEW s \in Schedulers, NEW j \in Jobs, MarkRunning(s, j)
    PROVE  AttemptInv'
<1>1. /\ pc[s] = "mark" /\ status[j] = "leased" /\ owner[j] = s
      /\ status' = [status EXCEPT ![j] = "running"]
      /\ attempts' = [attempts EXCEPT ![j] = seen[s][j] + 1]
      /\ cur' = [cur EXCEPT ![s] = j]
      /\ try' = [try EXCEPT ![s] = seen[s][j] + 1]
      /\ pc' = [pc EXCEPT ![s] = "prepare"]
      /\ UNCHANGED <<runs, run>>
  BY DEF MarkRunning
<1>2. seen[s][j] = attempts[j] /\ attempts[j] \in Nat
  BY <1>1, LiveRow DEF OwnedRow, IndInv, TypeOK
<1>3. /\ attempts'[j] = attempts[j] + 1 /\ \A i \in Jobs \ {j} : attempts'[i] = attempts[i]
      /\ cur'[s] = j /\ try'[s] = attempts[j] + 1 /\ pc'[s] = "prepare"
      /\ \A t \in Schedulers \ {s} : pc'[t] = pc[t] /\ cur'[t] = cur[t] /\ try'[t] = try[t]
      /\ run'[s] = 0
  BY <1>1, <1>2, ZenonT(40) DEF IndInv, TypeOK, AttemptInv, AttemptRow
<1>4. TableStep
  <2>1. ASSUME NEW i \in Jobs PROVE attempts[i] <= attempts'[i]
    <3>1. attempts[i] \in Nat
      BY DEF IndInv, TypeOK
    <3> QED BY <1>3, <3>1
  <2>2. ASSUME NEW i \in Jobs, status[i] = "deleted" PROVE status'[i] = "deleted"
    BY <1>1, <2>2 DEF IndInv, TypeOK
  <2> QED BY <1>1, <2>1, <2>2 DEF TableStep
<1>5. ASSUME NEW t \in Schedulers, t # s PROVE AttemptRow(t)' /\ OnlyDeleted(t)'
  <2>1. SameAttempt(t)
    BY <1>1, <1>3, <1>5 DEF SameAttempt
  <2> QED BY <1>4, <2>1, AttemptFrame DEF AttemptInv
<1>6. ASSUME NEW r \in DOMAIN runs, runs[r].job = j PROVE runs[r].attempt <= attempts[j]
  BY <1>6 DEF AttemptInv, RunsCounted
<1>7. AttemptRow(s)' /\ OnlyDeleted(s)'
  <2>1. ASSUME NEW r \in DOMAIN runs PROVE ~ (runs[r].job = j /\ runs[r].attempt = attempts[j] + 1)
    <3>1. runs[r].attempt \in Nat
      BY RunsTyped DEF IndInv
    <3> QED BY <1>2, <1>6, <3>1
  <2>2. try'[s] <= attempts'[cur'[s]]
    BY <1>2, <1>3
  <2> QED BY <1>1, <1>3, <2>1, <2>2 DEF AttemptRow, OnlyDeleted, Underway
<1>8. ASSUME NEW t \in Schedulers, t # s, pc[t] \in Underway, cur[t] = j PROVE try[t] # attempts[j] + 1
  <2>1. try[t] \in Nat /\ try[t] <= attempts[j]
    BY <1>8 DEF AttemptInv, AttemptRow, IndInv, TypeOK
  <2> QED BY <1>2, <2>1
<1>9. OwnAttempts'
  <2> SUFFICES ASSUME NEW t \in Schedulers, NEW u \in Schedulers, t # u,
                      pc'[t] \in Underway, pc'[u] \in Underway, cur'[t] = cur'[u]
               PROVE  try'[t] # try'[u]
    BY DEF OwnAttempts
  <2>1. CASE t = s
    BY <1>3, <1>8, <2>1
  <2>2. CASE u = s
    BY <1>3, <1>8, <2>2
  <2>3. CASE t # s /\ u # s
    BY <1>3, <2>3 DEF AttemptInv, OwnAttempts
  <2> QED BY <2>1, <2>2, <2>3
<1>10. RunsCounted' /\ AttemptsAreUnique'
  <2>1. ASSUME NEW r \in DOMAIN runs PROVE runs[r].attempt <= attempts'[runs[r].job]
    <3>1. runs[r].attempt \in Nat /\ runs[r].job \in Jobs
      BY RunsTyped DEF IndInv
    <3>2. runs[r].attempt <= attempts[runs[r].job]
      BY DEF AttemptInv, RunsCounted
    <3> QED BY <1>2, <1>3, <3>1, <3>2
  <2> QED BY <1>1, <2>1 DEF RunsCounted, AttemptInv, AttemptsAreUnique
<1> QED BY <1>5, <1>7, <1>9, <1>10 DEF AttemptInv

\* What the table holds once a Run is inserted.
LEMMA InsertedRun ==
    ASSUME TypeOK, NEW row, runs' = Append(runs, row)
    PROVE  /\ DOMAIN runs' = DOMAIN runs \cup {Len(runs) + 1}
           /\ Len(runs) + 1 \notin DOMAIN runs
           /\ runs'[Len(runs) + 1] = row
           /\ \A r \in DOMAIN runs : runs'[r] = runs[r]
<1>1. DOMAIN runs = 1 .. Len(runs) /\ Len(runs) \in Nat
  BY RunsTyped
<1>2. DOMAIN runs' = 1 .. Len(runs) + 1 /\ runs'[Len(runs) + 1] = row
      /\ \A r \in 1 .. Len(runs) : runs'[r] = runs[r]
  BY <1>1 DEF TypeOK
<1> QED BY <1>1, <1>2

\* Inserting the Run of an attempt that has none keeps the numbers distinct.
LEMMA InsertAttempts ==
    ASSUME IndInv, AttemptInv, NEW s \in Schedulers, pc[s] \in Underway, run[s] = 0, NEW st,
           runs' = Append(runs, [job |-> cur[s], attempt |-> try[s], status |-> st]),
           UNCHANGED attempts
    PROVE  /\ RunsCounted' /\ AttemptsAreUnique'
           /\ DOMAIN runs \subseteq DOMAIN runs'
           /\ \A r \in DOMAIN runs : runs'[r] = runs[r]
           /\ \A r \in DOMAIN runs' \ DOMAIN runs : runs'[r].job = cur[s] /\ runs'[r].attempt = try[s]
<1> DEFINE row == [job |-> cur[s], attempt |-> try[s], status |-> st]
<1>1. /\ DOMAIN runs' = DOMAIN runs \cup {Len(runs) + 1} /\ Len(runs) + 1 \notin DOMAIN runs
      /\ runs'[Len(runs) + 1] = row /\ \A r \in DOMAIN runs : runs'[r] = runs[r]
  BY InsertedRun DEF IndInv
<1>2. row.job = cur[s] /\ row.attempt = try[s]
  OBVIOUS
<1>3. try[s] <= attempts[cur[s]]
  BY DEF AttemptInv, AttemptRow
<1>4. \A r \in DOMAIN runs : ~ (runs[r].job = cur[s] /\ runs[r].attempt = try[s])
  BY DEF AttemptInv, AttemptRow
<1> HIDE DEF row
<1>5. RunsCounted'
  BY <1>1, <1>2, <1>3 DEF AttemptInv, RunsCounted
<1>6. AttemptsAreUnique'
  BY <1>1, <1>2, <1>4 DEF AttemptInv, AttemptsAreUnique
<1> QED BY <1>1, <1>2, <1>5, <1>6

\* start_run inserts the Run of the attempt.
LEMMA StartRunAttempts ==
    ASSUME IndInv, IndInv', AttemptInv, NEW s \in Schedulers, StartRun(s)
    PROVE  AttemptInv'
<1> DEFINE row == [job |-> cur[s], attempt |-> try[s], status |-> "running"]
<1>1. /\ pc[s] = "prepare" /\ pc' = [pc EXCEPT ![s] = "working"]
      /\ runs' = Append(runs, row) /\ run' = [run EXCEPT ![s] = Len(runs) + 1]
      /\ UNCHANGED <<attempts, status, cur, try>>
  BY DEF StartRun, jobVars
<1>2. /\ pc'[s] = "working" /\ run'[s] = Len(runs) + 1 /\ run[s] = 0
      /\ \A t \in Schedulers \ {s} : pc'[t] = pc[t] /\ run'[t] = run[t]
  BY <1>1 DEF IndInv, TypeOK, AttemptInv, AttemptRow
<1>3. /\ RunsCounted' /\ AttemptsAreUnique' /\ DOMAIN runs \subseteq DOMAIN runs'
      /\ \A r \in DOMAIN runs : runs'[r] = runs[r]
      /\ \A r \in DOMAIN runs' \ DOMAIN runs : runs'[r].job = cur[s] /\ runs'[r].attempt = try[s]
  BY <1>1, <1>2, InsertAttempts DEF Underway
<1>4. TableStep
  BY <1>1, <1>3 DEF TableStep, IndInv, TypeOK
<1>5. ASSUME NEW t \in Schedulers, t # s PROVE AttemptRow(t)' /\ OnlyDeleted(t)'
  <2>1. ASSUME pc[t] \in Underway PROVE ~ (cur[t] = cur[s] /\ try[t] = try[s])
    BY <1>1, <1>5, <2>1 DEF AttemptInv, OwnAttempts, Underway
  <2>2. ASSUME pc[t] \in Underway, run[t] # 0 PROVE run[t] \in DOMAIN runs
    BY <2>2 DEF AttemptInv, AttemptRow
  <2>3. SameAttempt(t)
    BY <1>1, <1>2, <1>3, <1>5, <2>1, <2>2 DEF SameAttempt
  <2> QED BY <1>4, <2>3, AttemptFrame DEF AttemptInv
<1>6. AttemptRow(s)' /\ OnlyDeleted(s)'
  <2>1. Len(runs) + 1 \in DOMAIN runs' /\ runs'[Len(runs) + 1] = row /\ Len(runs) + 1 # 0
    BY <1>1, InsertedRun, RunsTyped DEF IndInv
  <2>2. try[s] <= attempts[cur[s]]
    BY <1>1 DEF AttemptInv, AttemptRow, Underway
  <2> QED BY <1>1, <1>2, <2>1, <2>2 DEF AttemptRow, OnlyDeleted
<1>7. OwnAttempts'
  BY <1>1, <1>2 DEF AttemptInv, OwnAttempts, Underway
<1> QED BY <1>3, <1>5, <1>6, <1>7 DEF AttemptInv

\* finalize_attempt finishes the Run of the attempt in place, or inserts the
\* one a refused attempt never had; nobody else works on either.
LEMMA FinalizeAttempts ==
    ASSUME IndInv, IndInv', AttemptInv, NEW s \in Schedulers, FinalizeOwned(s) \/ FinalizeLost(s)
    PROVE  AttemptInv'
<1>1. AfterCheck({}, runnable[s]) \in {"mark", "idle"}
  BY DEF AfterCheck
<1>2. cur[s] \in Jobs /\ pc[s] = "finalize" /\ pc[s] \in Underway
  BY AttemptedJob DEF FinalizeOwned, FinalizeLost, Attempting, Executing, Underway
<1>3. PICK rs, js : FinalizeAttempt(s, cur[s], run[s], try[s], rs, js)
  BY DEF FinalizeOwned, FinalizeLost
<1>4. /\ \/ pc'[s] \in {"mark", "idle"} /\ run'[s] = 0
         \/ pc'[s] = "emit"
      /\ \A t \in Schedulers \ {s} : pc'[t] = pc[t] /\ cur'[t] = cur[t] /\ try'[t] = try[t] /\ run'[t] = run[t]
  <2>1. CASE FinalizeOwned(s)
    BY <2>1 DEF FinalizeOwned, stepVars, IndInv, TypeOK
  <2>2. CASE FinalizeLost(s)
    BY <1>1, <2>2 DEF FinalizeLost, EndAttempt, IndInv, TypeOK
  <2> QED BY <2>1, <2>2
<1>5. UNCHANGED attempts /\ \A i \in Jobs : status[i] = "deleted" => status'[i] = "deleted"
  BY <1>2, <1>3 DEF FinalizeAttempt, CannotFinalize, IndInv, TypeOK
<1>6. AttemptRow(s)' /\ OnlyDeleted(s)' /\ pc'[s] \notin Underway
  BY <1>4, AtRest
<1>7. ASSUME NEW t \in Schedulers, t # s, pc[t] \in Underway PROVE ~ (cur[t] = cur[s] /\ try[t] = try[s])
  BY <1>2, <1>7 DEF AttemptInv, OwnAttempts
<1>8. ASSUME NEW t \in Schedulers, t # s, pc[t] \in Underway, run[t] # 0
      PROVE  run[t] \in DOMAIN runs /\ runs[run[t]].job = cur[t] /\ runs[run[t]].attempt = try[t]
  <2>1. AttemptRow(t)
    BY DEF AttemptInv
  <2>2. /\ run[t] \in DOMAIN runs
        /\ runs[run[t]] = [job |-> cur[t], attempt |-> try[t], status |-> "running"]
    BY <1>8, <2>1 DEF AttemptRow
  <2> QED BY <2>2
<1>9. CASE run[s] = 0
  <2>1. runs' = Append(runs, [job |-> cur[s], attempt |-> try[s], status |-> rs])
    BY <1>3, <1>9 DEF FinalizeAttempt
  <2>2. /\ RunsCounted' /\ AttemptsAreUnique' /\ DOMAIN runs \subseteq DOMAIN runs'
        /\ \A r \in DOMAIN runs : runs'[r] = runs[r]
        /\ \A r \in DOMAIN runs' \ DOMAIN runs : runs'[r].job = cur[s] /\ runs'[r].attempt = try[s]
    BY <1>2, <1>5, <1>9, <2>1, InsertAttempts
  <2>3. TableStep
    BY <1>5, <2>2 DEF TableStep, IndInv, TypeOK
  <2>4. ASSUME NEW t \in Schedulers, t # s PROVE AttemptRow(t)' /\ OnlyDeleted(t)'
    <3>1. SameAttempt(t)
      BY <1>4, <1>7, <1>8, <2>2, <2>4 DEF SameAttempt
    <3> QED BY <2>3, <3>1, AttemptFrame DEF AttemptInv
  <2>5. OwnAttempts'
    BY <1>4, <1>6 DEF AttemptInv, OwnAttempts
  <2> QED BY <1>6, <2>2, <2>4, <2>5 DEF AttemptInv
<1>10. CASE run[s] # 0
  <2>1. runs' = [runs EXCEPT ![run[s]].status = rs, ![run[s]].attempt = try[s]]
    BY <1>3, <1>10 DEF FinalizeAttempt
  <2>2. /\ run[s] \in DOMAIN runs
        /\ runs[run[s]] = [job |-> cur[s], attempt |-> try[s], status |-> "running"]
    BY <1>2, <1>10 DEF AttemptInv, AttemptRow
  <2>3. /\ DOMAIN runs' = DOMAIN runs /\ \A r \in DOMAIN runs \ {run[s]} : runs'[r] = runs[r]
        /\ runs'[run[s]].job = cur[s] /\ runs'[run[s]].attempt = try[s]
    BY <2>1, <2>2
  <2>4. TableStep
    <3>1. runs[run[s]].job = cur[s] /\ runs[run[s]].attempt = try[s]
      BY <2>2
    <3>2. ASSUME NEW r \in DOMAIN runs PROVE runs'[r].job = runs[r].job /\ runs'[r].attempt = runs[r].attempt
      BY <2>3, <3>1
    <3>3. \A j \in Jobs : attempts[j] <= attempts'[j]
      BY <1>5 DEF IndInv, TypeOK
    <3> QED BY <1>5, <2>3, <3>2, <3>3 DEF TableStep
  <2>5. ASSUME NEW t \in Schedulers, t # s PROVE SameAttempt(t)
    <3>1. ASSUME pc[t] \in Underway, run[t] # 0 PROVE run[t] # run[s]
      BY <1>7, <1>8, <2>2, <2>5, <3>1
    <3> QED BY <1>4, <1>8, <2>3, <2>5, <3>1 DEF SameAttempt
  <2> QED BY <1>6, <2>3, <2>4, <2>5, AttemptsKept
<1> QED BY <1>9, <1>10

\* finalize_attempt refuses the Run of no attempt under way: what it raises
\* for is a job that cleanup deleted, and recovery then finds no row.
LEMMA RaisingAttempts ==
    ASSUME IndInv, IndInv', AttemptInv, NEW s \in Schedulers, FinalizeRaises(s) \/ RecoverReadJob(s)
    PROVE  AttemptInv'
<1>1. CASE FinalizeRaises(s)
  <2>1. /\ pc[s] = "finalize" /\ CannotFinalize(cur[s], run[s], try[s])
        /\ UNCHANGED <<runs, attempts, status, cur>>
        /\ pc'[s] = "recover" /\ run'[s] = 0
        /\ \A t \in Schedulers \ {s} : pc'[t] = pc[t] /\ try'[t] = try[t] /\ run'[t] = run[t]
    BY <1>1 DEF FinalizeRaises, Caught, jobVars, IndInv, TypeOK
  <2>2. status[cur[s]] = "deleted"
    <3>1. run[s] # 0 => runs[run[s]] = [job |-> cur[s], attempt |-> try[s], status |-> "running"]
      BY <2>1 DEF AttemptInv, AttemptRow, Underway
    <3> QED BY <2>1, <3>1 DEF CannotFinalize, TerminalRun
  <2>3. AttemptRow(s)' /\ OnlyDeleted(s)' /\ pc'[s] \notin Underway
    BY <2>1, <2>2, AtRest
  <2>4. TableStep /\ DOMAIN runs' = DOMAIN runs /\ \A t \in Schedulers \ {s} : SameAttempt(t)
    BY <2>1, TablesStill
  <2> QED BY <2>3, <2>4, AttemptsKept
<1>2. CASE RecoverReadJob(s)
  <2>1. status[cur[s]] = "deleted"
    BY <1>2 DEF RecoverReadJob, AttemptInv, OnlyDeleted
  <2>2. /\ UNCHANGED <<runs, attempts, status, cur, try, run>> /\ pc'[s] = "dead"
        /\ \A t \in Schedulers \ {s} : pc'[t] = pc[t]
    BY <1>2, <2>1 DEF RecoverReadJob, jobVars, IndInv, TypeOK
  <2>3. AttemptRow(s)' /\ OnlyDeleted(s)' /\ pc'[s] \notin Underway
    BY <2>2, AtRest
  <2>4. TableStep /\ DOMAIN runs' = DOMAIN runs /\ \A t \in Schedulers \ {s} : SameAttempt(t)
    BY <2>2, TablesStill
  <2> QED BY <2>3, <2>4, AttemptsKept
<1> QED BY <1>1, <1>2

\* Without an exception there is nothing to recover from.
LEMMA NoRecovery ==
    ASSUME AttemptInv, NEW s \in Schedulers
    PROVE  /\ ~ RecoverFilesRun(s) /\ ~ Settle(s) /\ ~ Refinalize(s) /\ ~ Report(s)
           /\ \A r \in DOMAIN runs : ~ RecoverKeepsRun(s, r)
<1>1. pc[s] \notin {"inspect", "settle", "refinalize", "report"}
  BY DEF AttemptInv, OnlyDeleted
<1> QED BY <1>1 DEF RecoverFilesRun, Settle, Refinalize, Report, RecoverKeepsRun

\* Only an exception counts as one.
LEMMA FaultsStay ==
    ASSUME [Next]_vars, \A s \in Schedulers : ~ Fault(s) /\ \A j \in Jobs : ~ FaultAtMark(s, j)
    PROVE  UNCHANGED faults
<1>1. ASSUME NEW s \in Schedulers, PassStep(s) PROVE UNCHANGED faults
  <2>1. ASSUME NEW j \in Jobs, \/ CheckProject(s, j) \/ CheckKind(s, j) \/ Defer(s, j)
                               \/ MarkRunning(s, j) \/ Superseded(s, j)
        PROVE  UNCHANGED faults
    BY <2>1 DEF CheckProject, CheckKind, Defer, MarkRunning, Superseded, budgets
  <2>2. ASSUME NEW result \in TerminalRun, WorkerReturns(s, result) PROVE UNCHANGED faults
    BY <2>2 DEF WorkerReturns, budgets
  <2>3. ASSUME NEW r \in DOMAIN runs, RecoverKeepsRun(s, r) PROVE UNCHANGED faults
    BY <2>3 DEF RecoverKeepsRun, budgets
  <2>4. CASE \/ Claim(s) \/ StartRun(s) \/ RejectByValidation(s) \/ FinalizeOwned(s) \/ FinalizeLost(s)
             \/ Emit(s) \/ FinalizeRaises(s)
    BY <2>4 DEF Claim, StartRun, RejectByValidation, FinalizeOwned, FinalizeLost, Emit, FinalizeRaises, budgets
  <2>5. CASE \/ RecoverReadJob(s) \/ RecoverFilesRun(s) \/ Settle(s) \/ Refinalize(s) \/ Report(s)
    BY <2>5 DEF RecoverReadJob, RecoverFilesRun, Settle, Refinalize, Report, budgets
  <2> QED BY <1>1, <2>1, <2>2, <2>3, <2>4, <2>5 DEF PassStep
<1>2. ASSUME NEW s \in Schedulers, Crash(s) \/ \E j \in Jobs : Renew(s, j) PROVE UNCHANGED faults
  BY <1>2 DEF Crash, Renew, budgets
<1>3. ASSUME NEW j \in Jobs, Submit(j) \/ Cancel(j) \/ Lapse(j) \/ Stall(j) PROVE UNCHANGED faults
  BY <1>3 DEF Submit, Cancel, Lapse, Stall, budgets
<1>4. CASE Cleanup \/ UNCHANGED vars
  BY <1>4 DEF Cleanup, vars, budgets
<1> QED BY <1>1, <1>2, <1>3, <1>4 DEF Next

\* A step after which nothing has raised is none of the raising ones.
LEMMA NothingRaised ==
    ASSUME IndInv, [Next]_vars, faults' = 0
    PROVE  /\ faults = 0
           /\ \A s \in Schedulers : ~ Fault(s) /\ \A j \in Jobs : ~ FaultAtMark(s, j)
<1>1. faults \in Nat
  BY DEF IndInv, TypeOK
<1>2. ASSUME NEW s \in Schedulers PROVE ~ Fault(s) /\ \A j \in Jobs : ~ FaultAtMark(s, j)
  BY <1>1 DEF Fault, FaultAtMark
<1> QED BY <1>2, FaultsStay

\* A step that changes nothing keeps the attempts.
LEMMA StutterAttempts ==
    ASSUME IndInv, IndInv', AttemptInv, UNCHANGED vars
    PROVE  AttemptInv'
<1>1. UNCHANGED <<runs, attempts, status, pc, cur, try, run>>
  BY DEF vars, jobVars, stepVars
<1> QED BY <1>1, TablesStill, AttemptsUntouched

\* Every step that does not raise keeps the attempts.
LEMMA NextAttempts ==
    ASSUME IndInv, faults = 0 => AttemptInv, [Next]_vars, faults' = 0
    PROVE  AttemptInv'
<1>1. IndInv' /\ AttemptInv
  BY NextInv, NothingRaised
<1>2. ASSUME NEW s \in Schedulers, PassStep(s) PROVE AttemptInv'
  <2>1. CASE Claim(s) \/ \E j \in Jobs : CheckProject(s, j) \/ CheckKind(s, j) \/ Defer(s, j) \/ Superseded(s, j)
    BY <1>1, <2>1, BatchAttempts
  <2>2. ASSUME NEW j \in Jobs, MarkRunning(s, j) PROVE AttemptInv'
    BY <1>1, <2>2, MarkAttempts
  <2>3. CASE RejectByValidation(s) \/ \E result \in TerminalRun : WorkerReturns(s, result)
    BY <1>1, <2>3, OutcomeAttempts
  <2>4. CASE StartRun(s)
    BY <1>1, <2>4, StartRunAttempts
  <2>5. CASE FinalizeOwned(s) \/ FinalizeLost(s)
    BY <1>1, <2>5, FinalizeAttempts
  <2>6. CASE Emit(s)
    BY <1>1, <2>6, LeavingAttempts
  <2>7. CASE FinalizeRaises(s) \/ RecoverReadJob(s)
    BY <1>1, <2>7, RaisingAttempts
  <2>8. /\ ~ RecoverFilesRun(s) /\ ~ Settle(s) /\ ~ Refinalize(s) /\ ~ Report(s)
        /\ \A r \in DOMAIN runs : ~ RecoverKeepsRun(s, r)
    BY <1>1, NoRecovery
  <2> QED BY <1>2, <2>1, <2>2, <2>3, <2>4, <2>5, <2>6, <2>7, <2>8 DEF PassStep
<1>3. ASSUME NEW s \in Schedulers, Crash(s) PROVE AttemptInv'
  BY <1>1, <1>3, LeavingAttempts
<1>4. ASSUME NEW j \in Jobs,
             \/ Submit(j) \/ Cancel(j) \/ Lapse(j) \/ Stall(j)
             \/ \E s \in Schedulers : Renew(s, j)
      PROVE  AttemptInv'
  BY <1>1, <1>4, ApiAttempts
<1>5. CASE Cleanup
  BY <1>1, <1>5, CleanupAttempts
<1>6. CASE UNCHANGED vars
  BY <1>1, <1>6, StutterAttempts
<1>7. \A s \in Schedulers : ~ Fault(s) /\ \A j \in Jobs : ~ FaultAtMark(s, j)
  BY NothingRaised
<1> QED BY <1>2, <1>3, <1>4, <1>5, <1>6, <1>7 DEF Next

\* Before anything ran there is no attempt.
LEMMA InitAttempts == Init => AttemptInv
<1> SUFFICES ASSUME Init PROVE AttemptInv
  OBVIOUS
<1>1. DOMAIN runs = {}
  BY DEF Init
<1> QED BY <1>1 DEF Init, AttemptInv, AttemptRow, OnlyDeleted, OwnAttempts, RunsCounted, AttemptsAreUnique, Underway

\* The invariant of the attempts: as long as no attempt raised, every number
\* in execution is one the job has counted and belongs to one scheduler.
THEOREM AttemptInvariance == Spec => [](IndInv /\ (faults = 0 => AttemptInv))
<1>1. Init => IndInv /\ (faults = 0 => AttemptInv)
  BY InitInv, InitAttempts
<1>2. (IndInv /\ (faults = 0 => AttemptInv)) /\ [Next]_vars => (IndInv /\ (faults = 0 => AttemptInv))'
  BY NextInv, NextAttempts
<1> QED BY <1>1, <1>2, PTL DEF Spec

\* As long as no attempt raised, one Run at most carries an attempt of a job,
\* through retries, reclaimed leases, deferrals, cancellations, cleanups and
\* crashes, for any number of schedulers and jobs.
THEOREM UniqueAttempts == Spec => [](faults = 0 => AttemptsAreUnique)
<1>1. (faults = 0 => AttemptInv) => (faults = 0 => AttemptsAreUnique)
  BY DEF AttemptInv
<1> QED BY <1>1, AttemptInvariance, PTL

-----------------------------------------------------------------------------
(* Ends and the job lifecycle, while nothing raises and no cap defers.     *)

\* The policy of no kind has a cap.
NoCaps == \A k \in Kinds : MaxRunning[k] = Unbounded /\ MaxProjectRunning[k] = Unbounded

Finished(j) == status[j] \in Terminal \cup {"deleted"}

\* Scheduler s is about to announce the end of job j.
Announcing(s, j) ==
    pc[s] = "emit" /\ cur[s] = j /\ verdict[s] # "rejected" /\ ~ Retrying(s)

\* A job that announced its end, or is about to, is finished, and one
\* scheduler at most is about to.
EndInv ==
    /\ \A s \in Schedulers : pc[s] # "defer"
    /\ \A j \in Jobs : ended[j] <= 1 /\ (ended[j] = 1 => Finished(j))
    /\ \A s \in Schedulers, j \in Jobs : Announcing(s, j) =>
          /\ ended[j] = 0
          /\ Finished(j)
          /\ \A t \in Schedulers : Announcing(t, j) => t = s

\* The attempt s finalizes as its owner is the running one.
LEMMA OwnedIsRunning ==
    ASSUME IndInv, AttemptInv, NEW s \in Schedulers, FinalizeOwned(s)
    PROVE  /\ cur[s] \in Jobs /\ status[cur[s]] = "running" /\ attempts[cur[s]] = try[s]
           /\ status' = [status EXCEPT ![cur[s]] = JobStatusOf(s)]
           /\ UNCHANGED attempts
<1>1. cur[s] \in Jobs /\ pc[s] = "finalize"
  BY AttemptedJob DEF FinalizeOwned, Attempting, Executing
<1>2. try[s] \in Nat /\ attempts[cur[s]] \in Nat /\ try[s] <= attempts[cur[s]]
  BY <1>1 DEF AttemptInv, AttemptRow, Underway, IndInv, TypeOK
<1>3. OwnsAttempt(s, cur[s], try[s])
  BY DEF FinalizeOwned
<1>4. status[cur[s]] = "running" /\ attempts[cur[s]] = try[s]
  BY <1>2, <1>3 DEF OwnsAttempt
<1>5. status' = [status EXCEPT ![cur[s]] = JobStatusOf(s)] /\ UNCHANGED attempts
  BY <1>3 DEF FinalizeOwned, FinalizeAttempt
<1> QED BY <1>1, <1>4, <1>5

\* Outcomes are statuses of the lifecycle.
LEMMA Outcome ==
    ASSUME IndInv, NEW s \in Schedulers
    PROVE  /\ JobStatusOf(s) \in TerminalRun \cup {"retrying"}
           /\ JobStatusOf(s) = "retrying" <=> Retrying(s)
<1>1. verdict[s] \in Verdicts
  BY DEF IndInv, TypeOK
<1> QED BY <1>1 DEF JobStatusOf, RunStatusOf, Verdicts, TerminalRun

\* How a step of a queue without exceptions and deferrals moves the rows of
\* the jobs table: the steps of JobLifecycle.
LEMMA LifecycleStep ==
    ASSUME IndInv, AttemptInv, \A s \in Schedulers : pc[s] # "defer", [Next]_vars, faults' = 0
    PROVE  [Lifecycle!Next]_<<status, attempts>>
<1> USE DEF Lifecycle!Next
<1>0. UNCHANGED <<status, attempts>> => [Lifecycle!Next]_<<status, attempts>>
  OBVIOUS
<1>1. ASSUME NEW s \in Schedulers, PassStep(s) PROVE [Lifecycle!Next]_<<status, attempts>>
  <2>1. CASE Claim(s)
    <3>1. PICK S \in SUBSET Claimable :
             status' = [j \in Jobs |-> IF j \in S THEN "leased" ELSE status[j]]
      BY <2>1 DEF Claim
    <3>2. S \in SUBSET Jobs /\ \A j \in S : status[j] \in Lifecycle!Pending
      BY DEF Claimable, Active, Lifecycle!Pending
    <3>3. Lifecycle!Lease(S)
      BY <2>1, <3>1, <3>2 DEF Claim, Lifecycle!Lease
    <3> QED BY <3>2, <3>3
  <2>2. ASSUME NEW j \in Jobs, MarkRunning(s, j) PROVE Lifecycle!Start(j)
    <3>1. /\ pc[s] = "mark" /\ status[j] = "leased" /\ owner[j] = s
          /\ status' = [status EXCEPT ![j] = "running"]
          /\ attempts' = [attempts EXCEPT ![j] = seen[s][j] + 1]
      BY <2>2 DEF MarkRunning
    <3>2. seen[s][j] = attempts[j]
      BY <3>1, LiveRow DEF OwnedRow
    <3> QED BY <3>1, <3>2 DEF Lifecycle!Start
  <2>3. CASE FinalizeOwned(s)
    <3>1. /\ cur[s] \in Jobs /\ status[cur[s]] = "running" /\ attempts[cur[s]] = try[s]
          /\ status' = [status EXCEPT ![cur[s]] = JobStatusOf(s)] /\ UNCHANGED attempts
      BY <2>3, OwnedIsRunning
    <3>2. CASE Retrying(s)
      <4>1. Lifecycle!Retry(cur[s])
        BY <3>1, <3>2, Outcome DEF Lifecycle!Retry, Retrying
      <4> QED BY <3>1, <4>1
    <3>3. CASE ~ Retrying(s)
      <4>1. JobStatusOf(s) \in Lifecycle!Worked
        BY <3>3, Outcome DEF Lifecycle!Worked, TerminalRun
      <4>2. Lifecycle!Finish(cur[s])
        BY <3>1, <4>1 DEF Lifecycle!Finish
      <4> QED BY <3>1, <4>2
    <3> QED BY <3>2, <3>3
  <2>4. CASE FinalizeLost(s)
    BY <2>4 DEF FinalizeLost, FinalizeAttempt
  <2>5. ASSUME NEW j \in Jobs, CheckProject(s, j) \/ CheckKind(s, j) \/ Defer(s, j) \/ Superseded(s, j)
        PROVE  UNCHANGED <<status, attempts>>
    BY <2>5 DEF CheckProject, CheckKind, Defer, Superseded, jobVars
  <2>6. ASSUME NEW result \in TerminalRun, WorkerReturns(s, result) PROVE UNCHANGED <<status, attempts>>
    BY <2>6 DEF WorkerReturns, jobVars
  <2>7. CASE StartRun(s) \/ RejectByValidation(s) \/ Emit(s) \/ FinalizeRaises(s) \/ RecoverReadJob(s)
    BY <2>7 DEF StartRun, RejectByValidation, Emit, FinalizeRaises, RecoverReadJob, jobVars
  <2>8. /\ ~ RecoverFilesRun(s) /\ ~ Settle(s) /\ ~ Refinalize(s) /\ ~ Report(s)
        /\ \A r \in DOMAIN runs : ~ RecoverKeepsRun(s, r)
    BY NoRecovery
  <2> QED BY <1>0, <1>1, <2>1, <2>2, <2>3, <2>4, <2>5, <2>6, <2>7, <2>8 DEF PassStep
<1>2. ASSUME NEW s \in Schedulers, Crash(s) \/ \E j \in Jobs : Renew(s, j)
      PROVE  UNCHANGED <<status, attempts>>
  BY <1>2 DEF Crash, Renew, jobVars
<1>3. ASSUME NEW j \in Jobs, Submit(j) PROVE Lifecycle!Create(j)
  BY <1>3 DEF Submit, Lifecycle!Create
<1>4. ASSUME NEW j \in Jobs, Cancel(j) PROVE Lifecycle!Cancel(j)
  <2>1. status[j] \in Lifecycle!Pending
    BY <1>4 DEF Cancel, IndInv, TypeOK, JobStatus, Active, Terminal, Lifecycle!Pending
  <2> QED BY <1>4, <2>1 DEF Cancel, Lifecycle!Cancel
<1>5. ASSUME NEW j \in Jobs, Lapse(j) \/ Stall(j) PROVE UNCHANGED <<status, attempts>>
  BY <1>5 DEF Lapse, Stall
<1>6. CASE Cleanup
  <2> DEFINE gone == {j \in Jobs : status[j] \in Terminal}
  <2>1. Lifecycle!Delete(gone)
    BY <1>6 DEF Cleanup, Lifecycle!Delete, Lifecycle!Over, Lifecycle!Worked, Terminal, TerminalRun
  <2> QED BY <2>1
<1>7. CASE UNCHANGED vars
  BY <1>7 DEF vars, jobVars
<1>8. \A s \in Schedulers : ~ Fault(s) /\ \A j \in Jobs : ~ FaultAtMark(s, j)
  BY NothingRaised
<1> QED BY <1>0, <1>1, <1>2, <1>3, <1>4, <1>5, <1>6, <1>7, <1>8 DEF Next

\* A step of the lifecycle leaves finished jobs finished.
LEMMA FinishedStays ==
    ASSUME IndInv, [Lifecycle!Next]_<<status, attempts>>, NEW j \in Jobs, Finished(j)
    PROVE  Finished(j)'
<1>1. CASE UNCHANGED <<status, attempts>>
  BY <1>1 DEF Finished
<1>2. ASSUME NEW i \in Jobs,
             \/ Lifecycle!Create(i) \/ Lifecycle!Start(i) \/ Lifecycle!Finish(i)
             \/ Lifecycle!Retry(i) \/ Lifecycle!Cancel(i)
      PROVE  status'[j] = status[j]
  BY <1>2 DEF Finished, Terminal, TerminalRun, IndInv, TypeOK, Lifecycle!Create, Lifecycle!Start,
              Lifecycle!Finish, Lifecycle!Retry, Lifecycle!Cancel, Lifecycle!Pending
<1>3. ASSUME NEW S \in SUBSET Jobs, Lifecycle!Lease(S) \/ Lifecycle!Delete(S)
      PROVE  Finished(j)'
  BY <1>3 DEF Finished, Terminal, TerminalRun, Lifecycle!Lease, Lifecycle!Delete, Lifecycle!Pending
<1> QED BY <1>1, <1>2, <1>3 DEF Finished, Lifecycle!Next

\* The step moves no pass but that of s.
OthersStill(s) ==
    \A t \in Schedulers \ {s} :
        pc'[t] = pc[t] /\ cur'[t] = cur[t] /\ try'[t] = try[t] /\ verdict'[t] = verdict[t]

\* A step that announces nothing and makes nobody ready to.
LEMMA EndFrame ==
    ASSUME EndInv, UNCHANGED ended, \A j \in Jobs : Finished(j) => Finished(j)',
           NEW s \in Schedulers, OthersStill(s), pc'[s] \notin {"emit", "defer"}
    PROVE  EndInv'
<1>1. ASSUME NEW t \in Schedulers, NEW j \in Jobs, Announcing(t, j)' PROVE Announcing(t, j)
  BY <1>1 DEF Announcing, Retrying, OthersStill
<1>2. \A t \in Schedulers : pc'[t] # "defer"
  BY DEF EndInv, OthersStill
<1> QED BY <1>1, <1>2 DEF EndInv

\* The same for steps of nobody's pass.
LEMMA EndUntouched ==
    ASSUME EndInv, UNCHANGED <<ended, pc, cur, try, verdict>>, \A j \in Jobs : Finished(j) => Finished(j)'
    PROVE  EndInv'
<1>1. ASSUME NEW t \in Schedulers, NEW j \in Jobs, Announcing(t, j)' PROVE Announcing(t, j)
  BY <1>1 DEF Announcing, Retrying
<1> QED BY <1>1 DEF EndInv

\* A claimed job of a kind without caps is never deferred.
LEMMA NeverDeferred ==
    ASSUME IndInv, NoCaps, NEW s \in Schedulers, pc[s] # "defer",
           \/ Claim(s)
           \/ \E j \in Jobs : CheckProject(s, j) \/ CheckKind(s, j) \/ Defer(s, j) \/ Superseded(s, j)
    PROVE  pc'[s] \notin {"emit", "defer"} /\ OthersStill(s) /\ UNCHANGED ended
<1> DEFINE Goal == pc'[s] \notin {"emit", "defer"} /\ OthersStill(s) /\ UNCHANGED ended
<1> SUFFICES Goal
  OBVIOUS
<1>1. \A C, R : AfterCheck(C, R) \in {"check_project", "mark", "idle"}
  BY DEF AfterCheck
<1>2. CASE Claim(s)
  BY <1>2 DEF Claim, stepVars, IndInv, TypeOK, OthersStill
<1>3. ASSUME NEW j \in Jobs, CheckProject(s, j) PROVE Goal
  <2>1. MaxProjectRunning[KindOf[j]] = Unbounded
    BY ConstantsAssumption DEF NoCaps
  <2> QED BY <1>3, <2>1 DEF CheckProject, stepVars, IndInv, TypeOK, OthersStill
<1>4. ASSUME NEW j \in Jobs, CheckKind(s, j) PROVE Goal
  <2>1. MaxRunning[KindOf[j]] = Unbounded
    BY ConstantsAssumption DEF NoCaps
  <2>2. UNCHANGED <<ended, cur, try, verdict>>
        /\ pc' = [pc EXCEPT ![s] = AfterCheck(checking[s] \ {j}, runnable[s] \cup {j})]
    BY <1>4, <2>1 DEF CheckKind, stepVars
  <2>3. PICK p : p = AfterCheck(checking[s] \ {j}, runnable[s] \cup {j})
    OBVIOUS
  <2>4. p \in {"check_project", "mark", "idle"} /\ pc' = [pc EXCEPT ![s] = p]
    BY <1>1, <2>2, <2>3
  <2> QED BY <2>2, <2>4 DEF IndInv, TypeOK, OthersStill
<1>5. ASSUME NEW j \in Jobs, Superseded(s, j) PROVE Goal
  BY <1>1, <1>5 DEF Superseded, stepVars, IndInv, TypeOK, OthersStill
<1> QED BY <1>2, <1>3, <1>4, <1>5 DEF Defer

\* The owner's outcome: the job was running, so it had announced nothing.
LEMMA FinalizeOwnedEnds ==
    ASSUME IndInv, AttemptInv, EndInv, NEW s \in Schedulers, FinalizeOwned(s),
           \A j \in Jobs : Finished(j) => Finished(j)'
    PROVE  EndInv'
<1>1. /\ cur[s] \in Jobs /\ status[cur[s]] = "running"
      /\ status' = [status EXCEPT ![cur[s]] = JobStatusOf(s)]
  BY OwnedIsRunning
<1>2. /\ UNCHANGED <<ended, cur, try, verdict>> /\ pc'[s] = "emit"
      /\ \A t \in Schedulers \ {s} : pc'[t] = pc[t]
  BY DEF FinalizeOwned, stepVars, IndInv, TypeOK
<1>3. ~ Finished(cur[s])
  BY <1>1 DEF Finished, Terminal, TerminalRun
<1>4. ended[cur[s]] = 0 /\ \A t \in Schedulers : ~ Announcing(t, cur[s])
  <2>1. ended[cur[s]] \in Nat /\ ended[cur[s]] <= 1 /\ ended[cur[s]] # 1
    BY <1>1, <1>3 DEF EndInv, IndInv, TypeOK
  <2> QED BY <1>1, <1>3, <2>1 DEF EndInv
<1>5. ~ Retrying(s) => Finished(cur[s])'
  <2>1. status'[cur[s]] = JobStatusOf(s)
    BY <1>1 DEF IndInv, TypeOK
  <2>2. JobStatusOf(s) \in TerminalRun \cup {"retrying"} /\ (JobStatusOf(s) = "retrying" <=> Retrying(s))
    BY Outcome
  <2>3. ~ Retrying(s) => status'[cur[s]] \in TerminalRun
    BY <2>1, <2>2
  <2>4. cur'[s] = cur[s]
    BY <1>2
  <2> QED BY <2>3, <2>4 DEF Finished, Terminal
<1>6. ASSUME NEW t \in Schedulers, NEW j \in Jobs, Announcing(t, j)'
      PROVE  Announcing(t, j) \/ (t = s /\ j = cur[s] /\ ~ Retrying(s))
  BY <1>2, <1>6 DEF Announcing, Retrying
<1>7. ASSUME NEW t \in Schedulers, NEW j \in Jobs, Announcing(t, j)'
      PROVE  /\ ended'[j] = 0
             /\ Finished(j)'
             /\ \A u \in Schedulers : Announcing(u, j)' => u = t
  BY <1>1, <1>2, <1>4, <1>5, <1>6, <1>7 DEF EndInv
<1>8. \A t \in Schedulers : pc'[t] # "defer"
  BY <1>2 DEF EndInv
<1> QED BY <1>2, <1>7, <1>8 DEF EndInv

\* The announcement of an end that is due.
LEMMA EmitEnds ==
    ASSUME IndInv, EndInv, NEW s \in Schedulers, Emit(s), \A j \in Jobs : Finished(j) => Finished(j)'
    PROVE  EndInv'
<1>1. AfterCheck({}, runnable[s]) \in {"mark", "idle"}
  BY DEF AfterCheck
<1>2. pc[s] = "emit" /\ cur[s] \in Jobs
  BY AttemptedJob DEF Emit, Attempting, Executing
<1>3. pc'[s] \in {"mark", "idle"} /\ OthersStill(s)
  BY <1>1 DEF Emit, EndAttempt, OthersStill, IndInv, TypeOK
<1>4. CASE verdict[s] = "rejected" \/ Retrying(s)
  <2>1. UNCHANGED ended
    BY <1>4 DEF Emit
  <2> QED BY <1>3, <2>1, EndFrame
<1>5. CASE ~ (verdict[s] = "rejected" \/ Retrying(s))
  <2>1. ended' = [ended EXCEPT ![cur[s]] = ended[cur[s]] + 1]
    BY <1>5 DEF Emit
  <2>2. Announcing(s, cur[s])
    BY <1>2, <1>5 DEF Announcing
  <2>3. ended[cur[s]] = 0 /\ Finished(cur[s]) /\ \A t \in Schedulers : Announcing(t, cur[s]) => t = s
    BY <1>2, <2>2 DEF EndInv
  <2>4. ended'[cur[s]] = 1 /\ \A j \in Jobs \ {cur[s]} : ended'[j] = ended[j]
    BY <1>2, <2>1, <2>3 DEF IndInv, TypeOK
  <2>5. ASSUME NEW t \in Schedulers, NEW j \in Jobs, Announcing(t, j)' PROVE Announcing(t, j) /\ t # s
    BY <1>3, <2>5 DEF Announcing, Retrying, OthersStill
  <2>6. ASSUME NEW t \in Schedulers, NEW j \in Jobs, Announcing(t, j)'
        PROVE  j # cur[s]
    BY <2>3, <2>5, <2>6
  <2>7. \A t \in Schedulers : pc'[t] # "defer"
    BY <1>3 DEF EndInv, OthersStill
  <2>8. \A j \in Jobs : ended'[j] <= 1 /\ (ended'[j] = 1 => Finished(j)')
    BY <1>2, <2>3, <2>4 DEF EndInv
  <2> QED BY <2>4, <2>5, <2>6, <2>7, <2>8 DEF EndInv
<1> QED BY <1>4, <1>5

\* A cancellation announces the end of a job that is not finished.
LEMMA CancelEnds ==
    ASSUME IndInv, EndInv, NEW j \in Jobs, Cancel(j), \A i \in Jobs : Finished(i) => Finished(i)'
    PROVE  EndInv'
<1>1. /\ ~ Finished(j) /\ ended' = [ended EXCEPT ![j] = ended[j] + 1]
      /\ status' = [status EXCEPT ![j] = "cancelled"]
      /\ UNCHANGED <<pc, cur, try, verdict>>
  BY DEF Cancel, Finished, stepVars
<1>2. ended[j] = 0 /\ \A t \in Schedulers : ~ Announcing(t, j)
  <2>1. ended[j] \in Nat /\ ended[j] <= 1 /\ ended[j] # 1
    BY <1>1 DEF EndInv, IndInv, TypeOK
  <2> QED BY <1>1, <2>1 DEF EndInv
<1>3. /\ ended'[j] = 1 /\ \A i \in Jobs \ {j} : ended'[i] = ended[i]
      /\ Finished(j)'
  BY <1>1, <1>2 DEF IndInv, TypeOK, Finished, Terminal
<1>4. ASSUME NEW t \in Schedulers, NEW i \in Jobs, Announcing(t, i)' PROVE Announcing(t, i) /\ i # j
  BY <1>1, <1>2, <1>4 DEF Announcing, Retrying
<1> QED BY <1>1, <1>3, <1>4 DEF EndInv

\* Every step of a queue without exceptions and caps keeps the ends.
LEMMA NextEnds ==
    ASSUME NoCaps, IndInv, AttemptInv, EndInv, [Next]_vars, faults' = 0
    PROVE  EndInv'
<1>1. \A s \in Schedulers : pc[s] # "defer"
  BY DEF EndInv
<1>2. ASSUME NEW j \in Jobs, Finished(j) PROVE Finished(j)'
  BY <1>1, <1>2, LifecycleStep, FinishedStays
<1>3. \A s \in Schedulers : AfterCheck({}, runnable[s]) \in {"mark", "idle"}
  BY DEF AfterCheck
<1>4. ASSUME NEW s \in Schedulers, PassStep(s) PROVE EndInv'
  <2>1. CASE Claim(s) \/ \E j \in Jobs : CheckProject(s, j) \/ CheckKind(s, j) \/ Defer(s, j) \/ Superseded(s, j)
    <3>1. pc'[s] \notin {"emit", "defer"} /\ OthersStill(s) /\ UNCHANGED ended
      BY <1>1, <2>1, NeverDeferred
    <3> QED BY <1>2, <3>1, EndFrame
  <2>2. ASSUME NEW j \in Jobs, MarkRunning(s, j) PROVE EndInv'
    <3>1. pc'[s] = "prepare" /\ OthersStill(s) /\ UNCHANGED ended
      BY <2>2 DEF MarkRunning, OthersStill, IndInv, TypeOK
    <3> QED BY <1>2, <3>1, EndFrame
  <2>3. CASE RejectByValidation(s) \/ \E result \in TerminalRun : WorkerReturns(s, result)
    <3>1. pc'[s] = "finalize" /\ OthersStill(s) /\ UNCHANGED ended
      BY <2>3 DEF RejectByValidation, WorkerReturns, OthersStill, IndInv, TypeOK
    <3> QED BY <1>2, <3>1, EndFrame
  <2>4. CASE StartRun(s)
    <3>1. pc'[s] = "working" /\ OthersStill(s) /\ UNCHANGED ended
      BY <2>4 DEF StartRun, OthersStill, IndInv, TypeOK
    <3> QED BY <1>2, <3>1, EndFrame
  <2>5. CASE FinalizeOwned(s)
    BY <1>2, <2>5, FinalizeOwnedEnds
  <2>6. CASE FinalizeLost(s)
    <3>1. pc'[s] \in {"mark", "idle"} /\ OthersStill(s) /\ UNCHANGED ended
      BY <1>3, <2>6 DEF FinalizeLost, EndAttempt, OthersStill, IndInv, TypeOK
    <3> QED BY <1>2, <3>1, EndFrame
  <2>7. CASE Emit(s)
    BY <1>2, <2>7, EmitEnds
  <2>8. CASE FinalizeRaises(s)
    <3>1. pc'[s] = "recover" /\ OthersStill(s) /\ UNCHANGED ended
      BY <2>8 DEF FinalizeRaises, Caught, OthersStill, IndInv, TypeOK
    <3> QED BY <1>2, <3>1, EndFrame
  <2>9. CASE RecoverReadJob(s)
    <3>1. pc'[s] \in {"dead", "inspect"} /\ OthersStill(s) /\ UNCHANGED ended
      BY <2>9 DEF RecoverReadJob, OthersStill, IndInv, TypeOK
    <3> QED BY <1>2, <3>1, EndFrame
  <2>10. /\ ~ RecoverFilesRun(s) /\ ~ Settle(s) /\ ~ Refinalize(s) /\ ~ Report(s)
         /\ \A r \in DOMAIN runs : ~ RecoverKeepsRun(s, r)
    BY NoRecovery
  <2> QED BY <1>4, <2>1, <2>2, <2>3, <2>4, <2>5, <2>6, <2>7, <2>8, <2>9, <2>10 DEF PassStep
<1>5. ASSUME NEW s \in Schedulers, Crash(s) PROVE EndInv'
  <2>1. pc'[s] = "dead" /\ OthersStill(s) /\ UNCHANGED ended
    BY <1>5 DEF Crash, OthersStill, stepVars, IndInv, TypeOK
  <2> QED BY <1>2, <2>1, EndFrame
<1>6. ASSUME NEW j \in Jobs, Cancel(j) PROVE EndInv'
  BY <1>2, <1>6, CancelEnds
<1>7. CASE \/ Cleanup \/ UNCHANGED vars
           \/ \E j \in Jobs : Submit(j) \/ Lapse(j) \/ Stall(j) \/ \E s \in Schedulers : Renew(s, j)
  <2>1. UNCHANGED <<ended, pc, cur, try, verdict>>
    BY <1>7 DEF Cleanup, vars, Submit, Lapse, Stall, Renew, stepVars
  <2> QED BY <1>2, <2>1, EndUntouched
<1>8. \A s \in Schedulers : ~ Fault(s) /\ \A j \in Jobs : ~ FaultAtMark(s, j)
  BY NothingRaised
<1> QED BY <1>4, <1>5, <1>6, <1>7, <1>8 DEF Next

\* Nothing has ended at the start.
LEMMA InitEnds == Init => EndInv
  BY DEF Init, EndInv, Announcing

\* Without caps, as long as no attempt raised, a job announces its end at most
\* once, whatever schedulers and API race for, for any number of both.
THEOREM EndsOnce ==
    ASSUME NoCaps
    PROVE  Spec => [](faults = 0 => EndsAtMostOnce)
<1>1. Init => (faults = 0 => EndInv)
  BY InitEnds
<1>2. (IndInv /\ (faults = 0 => AttemptInv)) /\ (faults = 0 => EndInv) /\ [Next]_vars
      => (faults = 0 => EndInv)'
  BY NextEnds, NothingRaised
<1>3. (faults = 0 => EndInv) => (faults = 0 => EndsAtMostOnce)
  BY DEF EndInv, EndsAtMostOnce
<1> QED BY <1>1, <1>2, <1>3, AttemptInvariance, PTL DEF Spec

\* Without caps and exceptions the queue implements the job lifecycle: jobs
\* end once and stay ended, an attempt is counted only by the start of a leased
\* job, a retry is taken only while retries remain, and only ended jobs are
\* deleted, for any number of schedulers, jobs, crashes, stalled leases,
\* cancellations and cleanups.
THEOREM LifecycleImplemented ==
    ASSUME NoCaps, MaxFaults = 0
    PROVE  Spec => ImplementsLifecycle
<1>1. Init => faults = 0 /\ EndInv /\ Lifecycle!Init
  BY InitEnds DEF Init, Lifecycle!Init
<1>2. IndInv /\ faults = 0 /\ [Next]_vars => faults' = 0
  <2> SUFFICES ASSUME IndInv, faults = 0, [Next]_vars PROVE faults' = 0
    OBVIOUS
  <2>1. ASSUME NEW s \in Schedulers PROVE ~ Fault(s) /\ \A j \in Jobs : ~ FaultAtMark(s, j)
    BY DEF Fault, FaultAtMark
  <2> QED BY <2>1, FaultsStay
<1>3. (IndInv /\ (faults = 0 => AttemptInv)) /\ (faults = 0 /\ EndInv) /\ [Next]_vars
      => (faults = 0 /\ EndInv)'
  BY <1>2, NextEnds
<1>4. (IndInv /\ (faults = 0 => AttemptInv)) /\ (faults = 0 /\ EndInv) /\ [Next]_vars
      => [Lifecycle!Next]_<<status, attempts>>
  BY <1>2, LifecycleStep DEF EndInv
<1> QED BY <1>1, <1>3, <1>4, AttemptInvariance, PTL DEF Spec, ImplementsLifecycle, Lifecycle!Spec

-----------------------------------------------------------------------------
(* Caps, whatever raises, crashes, stalls or is cancelled.                 *)

\* One more element makes a finite set larger by one at most.
LEMMA OneMore ==
    ASSUME NEW S, NEW T, NEW x, IsFiniteSet(T), S \subseteq T \cup {x}
    PROVE  /\ IsFiniteSet(S) /\ Cardinality(S) \in Nat /\ Cardinality(T) \in Nat
           /\ Cardinality(S) <= Cardinality(T) + 1
<1>1. IsFiniteSet(T \cup {x}) /\ Cardinality(T \cup {x}) = IF x \in T THEN Cardinality(T) ELSE Cardinality(T) + 1
  BY FS_AddElement
<1>2. IsFiniteSet(S) /\ Cardinality(S) <= Cardinality(T \cup {x})
  BY <1>1, FS_Subset
<1>3. Cardinality(S) \in Nat /\ Cardinality(T) \in Nat
  BY <1>2, FS_CardinalityType
<1> QED BY <1>1, <1>2, <1>3

\* Scheduler s owns the active row j and is done with its project check.
PastCheck(s, j) ==
    /\ status[j] \in Active /\ owner[j] = s
    /\ j \notin checking[s] \/ (pc[s] = "check_kind" /\ IsFirst(j, checking[s]))
Past == {j \in Jobs : \E s \in Schedulers : PastCheck(s, j)}

\* Both counts are bounded where they grow: the kind check bounds the admitted
\* jobs of a kind, the project check everything past it.
CapsInv ==
    /\ \A k \in Kinds : MaxRunning[k] # Unbounded =>
          Cardinality({j \in Admitted : KindOf[j] = k}) <= MaxRunning[k]
    /\ (\A k \in Kinds : MaxProjectRunning[k] # Unbounded) =>
          \E k \in Kinds : Cardinality(Past) <= MaxProjectRunning[k]

\* Every set of jobs is finite, and a part of it is no larger.
LEMMA JobSets ==
    ASSUME NEW T \in SUBSET Jobs, NEW S \in SUBSET T
    PROVE  /\ IsFiniteSet(S) /\ IsFiniteSet(T)
           /\ Cardinality(S) \in Nat /\ Cardinality(T) \in Nat /\ Cardinality(S) <= Cardinality(T)
<1>1. IsFiniteSet(Jobs)
  BY ConstantsAssumption, FS_Interval DEF Jobs
<1>2. IsFiniteSet(T)
  BY <1>1, FS_Subset
<1>3. IsFiniteSet(S) /\ Cardinality(S) <= Cardinality(T)
  BY <1>2, FS_Subset
<1> QED BY <1>2, <1>3, FS_CardinalityType

\* A cap is a number.
LEMMA CapIsNumber ==
    ASSUME NEW k \in Kinds
    PROVE  /\ MaxRunning[k] # Unbounded => MaxRunning[k] \in Nat
           /\ MaxProjectRunning[k] # Unbounded => MaxProjectRunning[k] \in Nat
  BY ConstantsAssumption

\* Fewer admitted jobs stay within the caps of their kinds.
LEMMA KindCapsKept ==
    ASSUME CapsInv, NEW k \in Kinds, MaxRunning[k] # Unbounded,
           \A j \in Jobs : j \in Admitted' /\ KindOf[j] = k => j \in Admitted
    PROVE  Cardinality({j \in Admitted' : KindOf[j] = k}) <= MaxRunning[k]
<1> DEFINE S == {j \in Admitted' : KindOf[j] = k}
           T == {j \in Admitted : KindOf[j] = k}
<1>1. T \in SUBSET Jobs /\ S \in SUBSET T
  BY DEF Admitted
<1>2. Cardinality(T) <= MaxRunning[k] /\ MaxRunning[k] \in Nat
  BY CapIsNumber DEF CapsInv
<1> HIDE DEF S, T
<1>3. Cardinality(S) \in Nat /\ Cardinality(T) \in Nat /\ Cardinality(S) <= Cardinality(T)
  BY <1>1, JobSets
<1>4. Cardinality(S) <= MaxRunning[k]
  BY <1>2, <1>3
<1> QED BY <1>4 DEF S

\* Fewer jobs past the project check stay within the project cap.
LEMMA ProjectCapsKept ==
    ASSUME CapsInv, \A k \in Kinds : MaxProjectRunning[k] # Unbounded, Past' \subseteq Past
    PROVE  \E k \in Kinds : Cardinality(Past') <= MaxProjectRunning[k]
<1>1. PICK k \in Kinds : Cardinality(Past) <= MaxProjectRunning[k]
  BY DEF CapsInv
<1>2. MaxProjectRunning[k] \in Nat
  BY CapIsNumber
<1>3. Past \in SUBSET Jobs /\ Past' \in SUBSET Past
  BY DEF Past
<1>4. Cardinality(Past') \in Nat /\ Cardinality(Past) \in Nat /\ Cardinality(Past') <= Cardinality(Past)
  BY <1>3, JobSets
<1>5. Cardinality(Past') <= MaxProjectRunning[k]
  BY <1>1, <1>2, <1>4
<1> QED BY <1>5

\* A step that lets no job past a check.
LEMMA CapsFrame ==
    ASSUME CapsInv, Admitted' \subseteq Admitted, Past' \subseteq Past
    PROVE  CapsInv'
<1>1. ASSUME NEW k \in Kinds, MaxRunning[k] # Unbounded
      PROVE  Cardinality({j \in Admitted' : KindOf[j] = k}) <= MaxRunning[k]
  BY <1>1, KindCapsKept
<1>2. (\A k \in Kinds : MaxProjectRunning[k] # Unbounded) =>
          \E k \in Kinds : Cardinality(Past') <= MaxProjectRunning[k]
  BY ProjectCapsKept
<1> QED BY <1>1, <1>2 DEF CapsInv

\* Rows that keep their owner stay where they are while the batches do.
LEMMA CapsUntouched ==
    ASSUME CapsInv,
           \A j \in Jobs : status'[j] \in Active /\ owner'[j] \in Schedulers =>
               status[j] \in Active /\ owner[j] = owner'[j],
           UNCHANGED checking,
           \A t \in Schedulers : pc'[t] = "check_kind" => pc[t] = "check_kind"
    PROVE  CapsInv'
<1>1. Admitted' \subseteq Admitted
  BY DEF Admitted
<1>2. Past' \subseteq Past
  BY DEF Past, PastCheck, IsFirst
<1> QED BY <1>1, <1>2, CapsFrame

\* A claim admits nothing: the rows it takes are unchecked, and its scheduler
\* owned none before.
LEMMA ClaimCaps ==
    ASSUME IndInv, CapsInv, NEW s \in Schedulers, Claim(s)
    PROVE  CapsInv'
<1>1. PICK S \in SUBSET Claimable :
         /\ status' = [j \in Jobs |-> IF j \in S THEN "leased" ELSE status[j]]
         /\ owner' = [j \in Jobs |-> IF j \in S THEN s ELSE owner[j]]
         /\ checking' = [checking EXCEPT ![s] = S]
  BY DEF Claim
<1>2. pc[s] = "idle" /\ pc' = [pc EXCEPT ![s] = "check_project"]
  BY DEF Claim
<1>3. ASSUME NEW j \in Jobs, owner[j] = s PROVE FALSE
  <2>1. j \in Holds(s)
    BY <1>2, <1>3, LiveRow DEF OwnedRow
  <2>2. PassShape(s)
    BY DEF IndInv, PassInv
  <2>3. checking[s] = {} /\ runnable[s] = {} /\ cur[s] = 0
    BY <1>2, <2>2 DEF PassShape, Attempting, Executing
  <2> QED BY <2>1, <2>3 DEF Holds
<1>4. /\ checking'[s] = S /\ \A t \in Schedulers \ {s} : checking'[t] = checking[t]
      /\ pc'[s] = "check_project" /\ \A t \in Schedulers \ {s} : pc'[t] = pc[t]
  BY <1>1, <1>2 DEF IndInv, TypeOK
<1>5. ASSUME NEW j \in Jobs, NEW t \in Schedulers, status'[j] \in Active, owner'[j] = t
      PROVE  \/ t = s /\ j \in checking'[s]
             \/ t # s /\ status[j] \in Active /\ owner[j] = t
  BY <1>1, <1>3, <1>4, <1>5
<1>6. Admitted' \subseteq Admitted
  BY <1>4, <1>5 DEF Admitted
<1>7. Past' \subseteq Past
  BY <1>4, <1>5 DEF Past, PastCheck, IsFirst
<1> QED BY <1>6, <1>7, CapsFrame

\* The first of a batch is one job.
LEMMA FirstIsOne ==
    ASSUME NEW S \in SUBSET Jobs, NEW i \in S, NEW j \in S, IsFirst(i, S), IsFirst(j, S)
    PROVE  i = j
<1> SUFFICES ASSUME i # j PROVE FALSE
  OBVIOUS
<1>1. Before(i, j) /\ Before(j, i)
  BY DEF IsFirst
<1>2. i \in Int /\ j \in Int /\ Priority[i] \in Int /\ Priority[j] \in Int
  BY ConstantsAssumption DEF Jobs
<1> QED BY <1>1, <1>2 DEF Before

\* A job passes the project check only when fewer active jobs than its cap
\* are there, and everything past the check is active.
LEMMA CheckProjectCaps ==
    ASSUME IndInv, CapsInv, NEW s \in Schedulers, NEW j \in Jobs, CheckProject(s, j)
    PROVE  CapsInv'
<1> DEFINE limit == MaxProjectRunning[KindOf[j]]
           full == limit # Unbounded /\ Cardinality(ActiveOthers(j, Jobs)) >= limit
<1>1. /\ pc[s] = "check_project" /\ j \in checking[s] /\ IsFirst(j, checking[s])
      /\ pc' = [pc EXCEPT ![s] = IF full THEN "defer" ELSE "check_kind"]
      /\ UNCHANGED <<status, owner, checking>>
  BY DEF CheckProject, jobVars, batchVars
<1> HIDE DEF full
<1>2. \A t \in Schedulers \ {s} : pc'[t] = pc[t]
  BY <1>1 DEF IndInv, TypeOK
<1>3. CASE full
  <2>1. pc'[s] = "defer"
    BY <1>1, <1>3 DEF IndInv, TypeOK
  <2> QED BY <1>1, <1>2, <2>1, CapsUntouched
<1>4. CASE ~ full
  <2>1. Admitted' \subseteq Admitted
    BY <1>1 DEF Admitted
  <2>2. ASSUME NEW i \in Past' PROVE i \in Past \cup {j}
    <3>1. PICK t \in Schedulers : PastCheck(t, i)'
      BY DEF Past
    <3>2. i \in Jobs
      BY DEF Past
    <3>3. CASE t # s
      BY <1>1, <1>2, <3>1, <3>2, <3>3 DEF Past, PastCheck, IsFirst
    <3>4. CASE t = s /\ i \notin checking[s]
      BY <1>1, <3>1, <3>2, <3>4 DEF Past, PastCheck
    <3>5. CASE t = s /\ i \in checking[s]
      <4>1. IsFirst(i, checking[s])
        BY <1>1, <3>1, <3>5 DEF PastCheck, IsFirst
      <4>2. i = j
        BY <1>1, <3>5, <4>1, FirstIsOne DEF IndInv, TypeOK
      <4> QED BY <4>2
    <3> QED BY <3>3, <3>4, <3>5
  <2>3. ASSUME \A k \in Kinds : MaxProjectRunning[k] # Unbounded
        PROVE  Cardinality(Past') <= limit
    <3>1. KindOf[j] \in Kinds /\ limit # Unbounded /\ limit \in Nat
      BY <2>3, ConstantsAssumption, CapIsNumber
    <3>2. Past' \subseteq ActiveOthers(j, Jobs) \cup {j}
      <4>1. \A i \in Past : i \in Jobs /\ status[i] \in Active
        BY DEF Past, PastCheck
      <4> QED BY <2>2, <4>1 DEF ActiveOthers
    <3>3. IsFiniteSet(ActiveOthers(j, Jobs)) /\ Cardinality(ActiveOthers(j, Jobs)) \in Nat
      BY JobSets DEF ActiveOthers
    <3>4. Cardinality(Past') \in Nat /\ Cardinality(Past') <= Cardinality(ActiveOthers(j, Jobs)) + 1
      BY <3>2, <3>3, OneMore
    <3>5. Cardinality(ActiveOthers(j, Jobs)) < limit
      BY <1>4, <3>1, <3>3 DEF full
    <3> HIDE DEF limit
    <3> QED BY <3>1, <3>3, <3>4, <3>5
  <2>4. ASSUME NEW k \in Kinds, MaxRunning[k] # Unbounded
        PROVE  Cardinality({i \in Admitted' : KindOf[i] = k}) <= MaxRunning[k]
    BY <2>1, <2>4, KindCapsKept
  <2>5. KindOf[j] \in Kinds
    BY ConstantsAssumption
  <2> QED BY <2>3, <2>4, <2>5 DEF CapsInv
<1> QED BY <1>3, <1>4

\* The kind check admits a job only when fewer active jobs of its kind than
\* its cap are there.
LEMMA CheckKindCaps ==
    ASSUME IndInv, CapsInv, NEW s \in Schedulers, NEW j \in Jobs, CheckKind(s, j)
    PROVE  CapsInv'
<1> DEFINE limit == MaxRunning[KindOf[j]]
           peers == {i \in Jobs : KindOf[i] = KindOf[j]}
           full == limit # Unbounded /\ Cardinality(ActiveOthers(j, peers)) >= limit
<1>1. /\ pc[s] = "check_kind" /\ j \in checking[s] /\ IsFirst(j, checking[s])
      /\ UNCHANGED <<status, owner>>
      /\ \/ full /\ pc' = [pc EXCEPT ![s] = "defer"] /\ UNCHANGED checking
         \/ /\ ~ full /\ checking' = [checking EXCEPT ![s] = checking[s] \ {j}]
            /\ pc' = [pc EXCEPT ![s] = AfterCheck(checking[s] \ {j}, runnable[s] \cup {j})]
  BY DEF CheckKind, jobVars, batchVars
<1> HIDE DEF full
<1>2. CASE full
  <2>1. UNCHANGED <<status, owner, checking>> /\ pc' = [pc EXCEPT ![s] = "defer"]
    BY <1>1, <1>2
  <2>2. \A t \in Schedulers : pc'[t] = "check_kind" => pc[t] = "check_kind"
    BY <2>1 DEF IndInv, TypeOK
  <2> QED BY <2>1, <2>2, CapsUntouched
<1>3. CASE ~ full
  <2>1. PICK p : p = AfterCheck(checking[s] \ {j}, runnable[s] \cup {j})
    OBVIOUS
  <2>2. p # "check_kind" /\ pc' = [pc EXCEPT ![s] = p] /\ checking' = [checking EXCEPT ![s] = checking[s] \ {j}]
    BY <1>1, <1>3, <2>1 DEF AfterCheck
  <2>3. /\ pc'[s] # "check_kind" /\ checking'[s] = checking[s] \ {j}
        /\ \A t \in Schedulers \ {s} : pc'[t] = pc[t] /\ checking'[t] = checking[t]
    BY <2>2 DEF IndInv, TypeOK
  <2>4. Past' \subseteq Past
    BY <1>1, <2>3 DEF Past, PastCheck, IsFirst
  <2>5. Admitted' \subseteq Admitted \cup {j}
    BY <1>1, <2>3 DEF Admitted
  <2>6. ASSUME NEW k \in Kinds, MaxRunning[k] # Unbounded
        PROVE  Cardinality({i \in Admitted' : KindOf[i] = k}) <= MaxRunning[k]
    <3>1. CASE k # KindOf[j]
      BY <2>5, <2>6, <3>1, KindCapsKept
    <3>2. CASE k = KindOf[j]
      <4> DEFINE S == {i \in Admitted' : KindOf[i] = k}
      <4>1. S \subseteq ActiveOthers(j, peers) \cup {j}
        <5>1. \A i \in Admitted : i \in Jobs /\ status[i] \in Active
          BY DEF Admitted
        <5> QED BY <2>5, <3>2, <5>1 DEF ActiveOthers
      <4>2. IsFiniteSet(ActiveOthers(j, peers)) /\ Cardinality(ActiveOthers(j, peers)) \in Nat
        BY JobSets DEF ActiveOthers
      <4>3. Cardinality(ActiveOthers(j, peers)) < limit /\ limit = MaxRunning[k] /\ limit \in Nat
        BY <1>3, <2>6, <3>2, <4>2, CapIsNumber DEF full
      <4> HIDE DEF S, limit, peers
      <4>4. Cardinality(S) \in Nat /\ Cardinality(S) <= Cardinality(ActiveOthers(j, peers)) + 1
        BY <4>1, <4>2, OneMore
      <4>5. Cardinality(S) <= MaxRunning[k]
        BY <4>2, <4>3, <4>4
      <4> QED BY <4>5 DEF S
    <3> QED BY <3>1, <3>2
  <2>7. (\A k \in Kinds : MaxProjectRunning[k] # Unbounded) =>
            \E k \in Kinds : Cardinality(Past') <= MaxProjectRunning[k]
    BY <2>4, ProjectCapsKept
  <2> QED BY <2>6, <2>7 DEF CapsInv
<1> QED BY <1>2, <1>3

\* A deferred job leaves the batch and its row loses its owner.
LEMMA DeferCaps ==
    ASSUME IndInv, CapsInv, NEW s \in Schedulers, NEW j \in Jobs, Defer(s, j)
    PROVE  CapsInv'
<1>1. PICK p : p = AfterCheck(checking[s] \ {j}, runnable[s])
  OBVIOUS
<1>2. /\ p # "check_kind" /\ pc' = [pc EXCEPT ![s] = p]
      /\ checking' = [checking EXCEPT ![s] = checking[s] \ {j}]
      /\ owner' = [owner EXCEPT ![j] = NoOwner]
      /\ \A i \in Jobs \ {j} : status'[i] = status[i]
  BY <1>1 DEF Defer, FinishJob, AfterCheck, IndInv, TypeOK
<1>3. /\ pc'[s] # "check_kind" /\ checking'[s] = checking[s] \ {j} /\ owner'[j] \notin Schedulers
      /\ \A t \in Schedulers \ {s} : pc'[t] = pc[t] /\ checking'[t] = checking[t]
      /\ \A i \in Jobs \ {j} : owner'[i] = owner[i]
  BY <1>2, ConstantsAssumption DEF IndInv, TypeOK
<1>4. Admitted' \subseteq Admitted
  BY <1>2, <1>3 DEF Admitted
<1>5. Past' \subseteq Past
  BY <1>2, <1>3 DEF Past, PastCheck, IsFirst
<1> QED BY <1>4, <1>5, CapsFrame

\* Everything else: no row becomes active or changes hands, no batch grows and
\* no scheduler enters its kind check.
NothingAdmitted ==
    /\ \A j \in Jobs : status'[j] \in Active /\ owner'[j] \in Schedulers =>
           status[j] \in Active /\ owner[j] = owner'[j]
    /\ UNCHANGED checking
    /\ \A t \in Schedulers : pc'[t] = "check_kind" => pc[t] = "check_kind"

\* The rest of a pass admits nothing.
LEMMA PassAdmitsNothing ==
    ASSUME IndInv, NEW s \in Schedulers, PassStep(s), ~ Claim(s),
           \A j \in Jobs : ~ (CheckProject(s, j) \/ CheckKind(s, j) \/ Defer(s, j))
    PROVE  NothingAdmitted
<1>0. /\ \A C, R : C = {} => AfterCheck(C, R) # "check_kind"
      /\ status \in [Jobs -> JobStatus] /\ pc \in [Schedulers -> PCs]
      /\ owner \in [Jobs -> Schedulers \cup {NoOwner}] /\ NoOwner \notin Schedulers
  BY ConstantsAssumption DEF AfterCheck, IndInv, TypeOK
<1>1. ASSUME NEW j \in Jobs, MarkRunning(s, j) PROVE NothingAdmitted
  BY <1>0, <1>1 DEF MarkRunning, NothingAdmitted, Active
<1>2. ASSUME NEW j \in Jobs, Superseded(s, j) PROVE NothingAdmitted
  BY <1>0, <1>2 DEF Superseded, jobVars, NothingAdmitted
<1>3. CASE StartRun(s) \/ RejectByValidation(s) \/ \E result \in TerminalRun : WorkerReturns(s, result)
  BY <1>0, <1>3 DEF StartRun, RejectByValidation, WorkerReturns, jobVars, batchVars, NothingAdmitted
<1>4. CASE FinalizeOwned(s)
  <2>0. cur[s] \in Jobs
    BY <1>4, AttemptedJob DEF FinalizeOwned, Attempting, Executing
  <2>1. OwnsAttempt(s, cur[s], try[s]) /\ UNCHANGED checking /\ pc' = [pc EXCEPT ![s] = "emit"]
    BY <1>4 DEF FinalizeOwned, batchVars
  <2>2. /\ owner' = [owner EXCEPT ![cur[s]] = NoOwner]
        /\ status' = [status EXCEPT ![cur[s]] = JobStatusOf(s)]
    BY <1>4, <2>1 DEF FinalizeOwned, FinalizeAttempt
  <2> QED BY <1>0, <2>0, <2>1, <2>2 DEF NothingAdmitted
<1>5. CASE FinalizeLost(s) \/ Emit(s) \/ Report(s)
  BY <1>0, <1>5 DEF FinalizeLost, FinalizeAttempt, Emit, Report, EndAttempt, jobVars, NothingAdmitted
<1>6. CASE FinalizeRaises(s) \/ RecoverReadJob(s) \/ RecoverFilesRun(s)
  BY <1>0, <1>6 DEF FinalizeRaises, Caught, RecoverReadJob, RecoverFilesRun, jobVars, batchVars, NothingAdmitted
<1>7. ASSUME NEW r \in DOMAIN runs, RecoverKeepsRun(s, r) PROVE NothingAdmitted
  BY <1>0, <1>7 DEF RecoverKeepsRun, EndAttempt, jobVars, batchVars, NothingAdmitted
<1>8. CASE Settle(s)
  <2>1. /\ cur[s] \in Jobs /\ owner' = [owner EXCEPT ![cur[s]] = NoOwner]
        /\ \A i \in Jobs \ {cur[s]} : status'[i] = status[i]
    BY <1>0, <1>8, AttemptedJob DEF Settle, FinishJob, Attempting, Executing
  <2>2. UNCHANGED checking /\ pc' = [pc EXCEPT ![s] = AfterCheck({}, runnable[s])]
    BY <1>8 DEF Settle, EndAttempt
  <2> QED BY <1>0, <2>1, <2>2 DEF NothingAdmitted
<1>9. CASE Refinalize(s)
  <2>1. cur[s] \in Jobs
    BY <1>9, AttemptedJob DEF Refinalize, Attempting, Executing
  <2>2. \/ UNCHANGED <<status, owner>>
        \/ /\ owner' = [owner EXCEPT ![cur[s]] = NoOwner]
           /\ status' = [status EXCEPT ![cur[s]] = "failed"]
    BY <1>9 DEF Refinalize, FinalizeAttempt, jobVars
  <2>3. /\ UNCHANGED checking
        /\ \/ pc' = [pc EXCEPT ![s] = "report"] \/ pc' = [pc EXCEPT ![s] = "dead"]
           \/ pc' = [pc EXCEPT ![s] = AfterCheck({}, runnable[s])]
    BY <1>9 DEF Refinalize, EndAttempt, batchVars
  <2> QED BY <1>0, <2>1, <2>2, <2>3 DEF NothingAdmitted
<1> QED BY <1>1, <1>2, <1>3, <1>4, <1>5, <1>6, <1>7, <1>8, <1>9 DEF PassStep

\* Every step keeps the caps.
LEMMA NextCaps ==
    ASSUME IndInv, CapsInv, [Next]_vars
    PROVE  CapsInv'
<1>0. /\ status \in [Jobs -> JobStatus] /\ pc \in [Schedulers -> PCs]
      /\ owner \in [Jobs -> Schedulers \cup {NoOwner}] /\ NoOwner \notin Schedulers
  BY ConstantsAssumption DEF IndInv, TypeOK
<1>1. NothingAdmitted => CapsInv'
  BY CapsUntouched DEF NothingAdmitted
<1>2. ASSUME NEW s \in Schedulers, PassStep(s) PROVE CapsInv'
  BY <1>1, <1>2, ClaimCaps, CheckProjectCaps, CheckKindCaps, DeferCaps, PassAdmitsNothing
<1>3. ASSUME NEW s \in Schedulers, Fault(s) \/ Crash(s) PROVE NothingAdmitted
  BY <1>0, <1>3 DEF Fault, Caught, Crash, jobVars, batchVars, NothingAdmitted
<1>4. ASSUME NEW s \in Schedulers, NEW j \in Jobs, FaultAtMark(s, j) \/ Renew(s, j) PROVE NothingAdmitted
  BY <1>0, <1>4 DEF FaultAtMark, Caught, Renew, jobVars, batchVars, NothingAdmitted
<1>5. ASSUME NEW j \in Jobs, Submit(j) \/ Cancel(j) \/ Lapse(j) \/ Stall(j) PROVE NothingAdmitted
  BY <1>0, <1>5 DEF Submit, Cancel, Lapse, Stall, batchVars, NothingAdmitted, Active
<1>6. CASE Cleanup
  <2>1. /\ \A j \in Jobs : status'[j] = "deleted" \/ status'[j] = status[j]
        /\ UNCHANGED <<owner, checking, pc>>
    BY <1>6 DEF Cleanup, batchVars
  <2>2. NothingAdmitted
    BY <2>1 DEF NothingAdmitted, Active
  <2> QED BY <1>1, <2>2
<1>7. CASE UNCHANGED vars
  <2>1. UNCHANGED <<status, owner, checking, pc>>
    BY <1>7 DEF vars, jobVars, batchVars
  <2>2. NothingAdmitted
    BY <2>1 DEF NothingAdmitted
  <2> QED BY <1>1, <2>2
<1> QED BY <1>1, <1>2, <1>3, <1>4, <1>5, <1>6, <1>7 DEF Next

\* Jobs that passed their concurrency checks never exceed the cap of their
\* kind, nor the largest project cap in force, although the count, the
\* decision and the deferral are separate transactions, schedulers check at
\* once and any of them may crash, stall or raise in between.
THEOREM CapsHold == ASSUME Kinds # {} PROVE Spec => []CapsRespected
<1>1. Init => CapsInv
  <2> SUFFICES ASSUME Init PROVE CapsInv
    OBVIOUS
  <2>1. Past = {} /\ Admitted = {}
    BY DEF Init, Past, PastCheck, Admitted, Active
  <2>2. ASSUME NEW k \in Kinds, MaxRunning[k] # Unbounded
        PROVE  Cardinality({j \in Admitted : KindOf[j] = k}) <= MaxRunning[k]
    <3>1. {j \in Admitted : KindOf[j] = k} = {}
      BY <2>1
    <3>2. Cardinality({j \in Admitted : KindOf[j] = k}) = 0
      BY <3>1, FS_EmptySet
    <3> QED BY <2>2, <3>2, CapIsNumber
  <2>3. ASSUME \A k \in Kinds : MaxProjectRunning[k] # Unbounded
        PROVE  \E k \in Kinds : Cardinality(Past) <= MaxProjectRunning[k]
    BY <2>1, <2>3, FS_EmptySet, CapIsNumber
  <2> QED BY <2>2, <2>3 DEF CapsInv
<1>2. CapsInv => CapsRespected
  <2> SUFFICES ASSUME CapsInv, \A k \in Kinds : MaxProjectRunning[k] # Unbounded
               PROVE  \E k \in Kinds : Cardinality(Admitted) <= MaxProjectRunning[k]
    BY DEF CapsInv, CapsRespected
  <2>1. PICK k \in Kinds : Cardinality(Past) <= MaxProjectRunning[k]
    BY DEF CapsInv
  <2>2. Past \in SUBSET Jobs /\ Admitted \in SUBSET Past
    BY DEF Past, PastCheck, Admitted
  <2>3. /\ Cardinality(Past) \in Nat /\ Cardinality(Admitted) \in Nat
        /\ Cardinality(Admitted) <= Cardinality(Past) /\ MaxProjectRunning[k] \in Nat
    BY <2>2, JobSets, CapIsNumber
  <2>4. Cardinality(Admitted) <= MaxProjectRunning[k]
    BY <2>1, <2>3
  <2> QED BY <2>4
<1>3. IndInv /\ CapsInv /\ [Next]_vars => CapsInv'
  BY NextCaps
<1> QED BY <1>1, <1>2, <1>3, Invariance, PTL DEF Spec

=============================================================================
