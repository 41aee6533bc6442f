---------------------- MODULE ScheduleMaterialization ----------------------
(***************************************************************************)
(* Recurring schedules and the jobs they turn into.  A scheduler pass lists *)
(* the due schedules, and for each of them saves a job and then advances    *)
(* the row: three transactions, with other schedulers, the API's patch of   *)
(* a schedule (a read and a write of the whole row), crashes and changes of *)
(* the resource policy or the registry between them.                        *)
(*                                                                         *)
(* Time is counted in units of the cron granularity and a cron expression   *)
(* is its period.  What becomes of a materialized job is Scheduler's part.  *)
(***************************************************************************)
EXTENDS Naturals, FiniteSets

CONSTANTS
    Schedules,     \* schedule ids
    Schedulers,    \* scheduler processes
    Periods,       \* cron expressions, as periods
    Limits,        \* values of timeout_seconds
    Policies,      \* resource policies: default and ceiling of timeout_seconds
    MaxTime,       \* bound on the clock
    MaxClashes,    \* bound on passes and patches that overlap, and on crashes
    MaxPatches,    \* bound on patches of schedules
    MaxReloads,    \* bound on changes of policy or registry
    None           \* NULL

\* ScheduleRecord, as far as materialization reads it.
ScheduleRow ==
    [cron : Periods, enabled : BOOLEAN, next : Nat, last : Nat \cup {None},
     limit : Limits \cup {None}]

ASSUME ScheduleAssumption ==
    /\ Periods \subseteq Nat \ {0}
    /\ Limits \subseteq Nat
    /\ Policies \subseteq [default : Limits \cup {None}, ceiling : Limits \cup {None}]
    /\ MaxTime \in Nat
    /\ MaxClashes \in Nat
    /\ MaxPatches \in Nat
    /\ MaxReloads \in Nat
    /\ None \notin Nat \cup ScheduleRow

VARIABLES
    now,        \* the clock
    rows,       \* the schedules table
    pass,       \* the pass each scheduler is in
    patch,      \* the patch request in flight
    policy,     \* timeout default and ceiling of the resource policies
    registered, \* schedules whose kind is in the registry
    made,       \* history: every job a schedule was turned into
    clashes,    \* history: overlaps and crashes so far
    patches,    \* history: patches so far
    reloads     \* history: policy and registry changes so far

vars ==
    <<now, rows, pass, patch, policy, registered, made, clashes, patches, reloads>>

\* Mutant: the occurrence at the given time itself is returned.
NextRunAt(row, t) == ((t + row.cron - 1) \div row.cron) * row.cron

\* next_run_after: the first occurrence strictly after the time given.
NextRunAfter(row, t) == (t \div row.cron + 1) * row.cron

\* effective_for: the request's value, else the file's default; refused above
\* the ceiling.  A missing value is never above it.
Effective(ask) == IF ask # None THEN ask ELSE policy.default

WithinCeilings(limit) ==
    limit # None /\ policy.ceiling # None => limit <= policy.ceiling

Init ==
    /\ now = 0
    /\ rows = [s \in Schedules |-> None]
    /\ pass = [w \in Schedulers |-> [at |-> "idle"]]
    /\ patch = [at |-> "idle"]
    /\ policy \in Policies
    /\ registered = Schedules
    /\ made = {}
    /\ clashes = 0
    /\ patches = 0
    /\ reloads = 0

Saved == {s \in Schedules : rows[s] # None}

Tick ==
    /\ now < MaxTime
    /\ now' = now + 1
    /\ UNCHANGED <<rows, pass, patch, policy, registered, made, clashes, patches, reloads>>

\* Overlaps and crashes are counted and bounded.
Clash(met) ==
    /\ met => clashes < MaxClashes
    /\ clashes' = IF met THEN clashes + 1 ELSE clashes

Calm == clashes = 0

InPass(w) == pass[w].at \in {"list", "save", "advance"}

Busy == patch.at # "idle" \/ \E w \in Schedulers : InPass(w)

-----------------------------------------------------------------------------
(* Requests *)

\* schedule_from_request: the first run is now or at the first occurrence.
NewRow(cron, enabled, limit, dueNow) ==
    LET row == [cron |-> cron, enabled |-> enabled, next |-> now, last |-> None,
                limit |-> limit]
    IN  IF dueNow THEN row ELSE [row EXCEPT !.next = NextRunAfter(row, now)]

\* create_schedule: a known kind and a policy that accepts it; the row keeps
\* the limit as it was asked for.
CreateSchedule(s, cron, enabled, limit, dueNow) ==
    /\ rows[s] = None
    /\ s \in registered
    /\ WithinCeilings(Effective(limit))
    /\ rows' = [rows EXCEPT ![s] = NewRow(cron, enabled, limit, dueNow)]
    /\ UNCHANGED <<now, pass, patch, policy, registered, made, clashes, patches, reloads>>

\* The CLI's add_schedule keeps the limit the policy made of it.
AddSchedule(s, cron, limit, dueNow) ==
    /\ rows[s] = None
    /\ s \in registered
    /\ WithinCeilings(Effective(limit))
    /\ rows' = [rows EXCEPT ![s] = NewRow(cron, TRUE, Effective(limit), dueNow)]
    /\ UNCHANGED <<now, pass, patch, policy, registered, made, clashes, patches, reloads>>

\* patch_schedule copies the row it read; a change of timing also computes
\* the next run from the clock.  The policy is not asked.
Patched(row, change) ==
    CASE change.field = "cron" ->
             LET new == [row EXCEPT !.cron = change.cron]
             IN  [new EXCEPT !.next = NextRunAfter(new, now)]
      [] change.field = "enabled" ->
             [row EXCEPT !.enabled = change.enabled, !.next = NextRunAfter(row, now)]
      [] OTHER -> [row EXCEPT !.limit = change.limit]

Changes ==
    [field : {"cron"}, cron : Periods] \cup [field : {"enabled"}, enabled : BOOLEAN]
    \cup [field : {"limit"}, limit : Limits]

BeginPatch(s, change) ==
    /\ patch.at = "idle"
    /\ patches < MaxPatches
    /\ s \in Saved
    /\ patch' = [at |-> "write", s |-> s, row |-> Patched(rows[s], change)]
    /\ patches' = patches + 1
    /\ Clash(Busy)
    /\ UNCHANGED <<now, rows, pass, policy, registered, made, reloads>>

\* update_schedule writes every column of the copy.
CommitPatch ==
    /\ patch.at = "write"
    /\ rows' = [rows EXCEPT ![patch.s] = patch.row]
    /\ patch' = [at |-> "idle"]
    /\ UNCHANGED <<now, pass, policy, registered, made, clashes, patches, reloads>>

\* The policy file and the registry are read at start, or at a reload.
ReloadPolicy(new) ==
    /\ reloads < MaxReloads
    /\ policy' = new
    /\ reloads' = reloads + 1
    /\ UNCHANGED <<now, rows, pass, patch, registered, made, clashes, patches>>

ReloadRegistry(kinds) ==
    /\ reloads < MaxReloads
    /\ registered' = kinds
    /\ reloads' = reloads + 1
    /\ UNCHANGED <<now, rows, pass, patch, policy, made, clashes, patches>>

-----------------------------------------------------------------------------
(* A scheduler pass *)

\* list_due_schedules
Due(s) == rows[s] # None /\ rows[s].enabled /\ rows[s].next <= now

\* Mutant: a schedule that has run before is not listed again.
BeginPassFirst(w) ==
    /\ pass[w].at = "idle"
    /\ \E s \in Schedules : Due(s) /\ rows[s].last = None
    /\ pass' = [pass EXCEPT ![w] =
                   [at |-> "list", now |-> now,
                    todo |-> {[s |-> s, row |-> rows[s]] : s \in {d \in Schedules : Due(d)}}]]
    /\ Clash(Busy)
    /\ UNCHANGED <<now, rows, patch, policy, registered, made, patches, reloads>>

\* run_once lists with the clock it started with.
BeginPass(w) ==
    /\ pass[w].at = "idle"
    /\ \E s \in Schedules : Due(s)
    /\ pass' = [pass EXCEPT ![w] =
                   [at |-> "list", now |-> now,
                    todo |-> {[s |-> s, row |-> rows[s]] : s \in {d \in Schedules : Due(d)}}]]
    /\ Clash(Busy)
    /\ UNCHANGED <<now, rows, patch, policy, registered, made, patches, reloads>>

Go(w, p) == pass' = [pass EXCEPT ![w] = p]

\* The schedules are taken in the order of their next run.
Head(w) ==
    CHOOSE item \in pass[w].todo : \A o \in pass[w].todo : item.row.next <= o.row.next

Without(w, item) == [at |-> "list", now |-> pass[w].now, todo |-> pass[w].todo \ {item}]

\* Mutant: the policy was asked when the schedule was created.
ExamineTrusting(w) ==
    /\ pass[w].at = "list"
    /\ IF pass[w].todo = {}
       THEN Go(w, [at |-> "idle"])
       ELSE LET item == Head(w) IN
            IF item.s \notin registered THEN Go(w, [at |-> "dead"])
            ELSE Go(w, [at |-> "save", now |-> pass[w].now, todo |-> pass[w].todo,
                        item |-> item, limit |-> Effective(item.row.limit),
                        ceiling |-> policy.ceiling])
    /\ UNCHANGED <<now, rows, patch, policy, registered, made, clashes, patches, reloads>>

\* An unregistered kind raises out of run_loop and ends the process; a policy
\* that refuses the schedule skips it, and the row stays due.
Examine(w) ==
    /\ pass[w].at = "list"
    /\ IF pass[w].todo = {}
       THEN Go(w, [at |-> "idle"])
       ELSE LET item == Head(w) IN
            IF item.s \notin registered THEN Go(w, [at |-> "dead"])
            ELSE IF ~WithinCeilings(Effective(item.row.limit)) THEN Go(w, Without(w, item))
            ELSE Go(w, [at |-> "save", now |-> pass[w].now, todo |-> pass[w].todo,
                        item |-> item, limit |-> Effective(item.row.limit),
                        ceiling |-> policy.ceiling])
    /\ UNCHANGED <<now, rows, patch, policy, registered, made, clashes, patches, reloads>>

\* save_job.  The history keeps the occurrence the job stands for and the
\* ceiling it was accepted under.
SaveJob(w) ==
    /\ pass[w].at = "save"
    /\ made' = made \cup {[id |-> Cardinality(made) + 1, s |-> pass[w].item.s,
                           due |-> pass[w].item.row.next, at |-> pass[w].now,
                           limit |-> pass[w].limit, ceiling |-> pass[w].ceiling]}
    /\ Go(w, [pass[w] EXCEPT !.at = "advance"])
    /\ UNCHANGED <<now, rows, patch, policy, registered, clashes, patches, reloads>>

\* update_schedule_after_materialize writes without looking at the row, from
\* the clock of the pass and the cron expression it listed.
Advance(w) ==
    LET item == pass[w].item IN
    /\ pass[w].at = "advance"
    /\ rows' = [rows EXCEPT ![item.s].last = pass[w].now,
                            ![item.s].next = NextRunAfter(item.row, pass[w].now)]
    /\ Go(w, Without(w, item))
    /\ UNCHANGED <<now, patch, policy, registered, made, clashes, patches, reloads>>

\* A scheduler process dies anywhere in a pass.
Crash(w) ==
    /\ InPass(w)
    /\ Clash(TRUE)
    /\ Go(w, [at |-> "dead"])
    /\ UNCHANGED <<now, rows, patch, policy, registered, made, patches, reloads>>

\* The deployment starts a process that ended again.
Restart(w) ==
    /\ pass[w].at = "dead"
    /\ Go(w, [at |-> "idle"])
    /\ UNCHANGED <<now, rows, patch, policy, registered, made, clashes, patches, reloads>>

Request ==
    \/ \E s \in Schedules, p \in Periods, l \in Limits \cup {None}, d \in BOOLEAN :
          \/ \E enabled \in BOOLEAN : CreateSchedule(s, p, enabled, l, d)
          \/ AddSchedule(s, p, l, d)
    \/ \E s \in Schedules, c \in Changes : BeginPatch(s, c)
    \/ CommitPatch
    \/ \E new \in Policies : ReloadPolicy(new)
    \/ \E k \in SUBSET Schedules : ReloadRegistry(k)

PassStep(w) == BeginPass(w) \/ Examine(w) \/ SaveJob(w) \/ Advance(w)

Next ==
    \/ Tick
    \/ Request
    \/ \E w \in Schedulers : PassStep(w) \/ Crash(w) \/ Restart(w)

\* A scheduler's loop keeps taking steps, the deployment restarts it, and the
\* API finishes the patch it is writing.  Nothing else has to happen.
Fairness ==
    /\ \A w \in Schedulers : WF_vars(PassStep(w)) /\ WF_vars(Restart(w))
    /\ WF_vars(CommitPatch)

Spec == Init /\ [][Next]_vars /\ Fairness

-----------------------------------------------------------------------------
(* Properties *)

Item == [s : Schedules, row : ScheduleRow]

Passes ==
    [at : {"idle", "dead"}]
    \cup [at : {"list"}, now : Nat, todo : SUBSET Item]
    \cup [at : {"save", "advance"}, now : Nat, todo : SUBSET Item, item : Item,
          limit : Limits \cup {None}, ceiling : Limits \cup {None}]

Patches == [at : {"idle"}] \cup [at : {"write"}, s : Schedules, row : ScheduleRow]

\* Rows, passes and the patch in flight keep the shape of the tables and of
\* the scheduler's locals.
TypeOK ==
    /\ now \in 0..MaxTime
    /\ rows \in [Schedules -> ScheduleRow \cup {None}]
    /\ pass \in [Schedulers -> Passes]
    /\ patch \in Patches
    /\ policy \in Policies
    /\ registered \subseteq Schedules
    /\ clashes \in 0..MaxClashes
    /\ \A m \in made : m.s \in Schedules /\ m.due \in Nat

\* Every job a schedule makes is within the ceiling in force when the pass
\* accepted it, although a patch is not checked and the ceiling may have been
\* lowered since the schedule was created.
MadeWithinCeiling ==
    \A m \in made : m.limit # None /\ m.ceiling # None => m.limit <= m.ceiling

\* While passes, patches and crashes do not meet, an occurrence becomes one
\* job.
OncePerOccurrence ==
    Calm => \A m, n \in made : m.s = n.s /\ m.due = n.due => m.id = n.id

\* A due schedule with a known kind and an accepted policy is materialized in
\* the end, although schedulers crash and patches interfere.
DueIsServed ==
    \A s \in Schedules :
        Due(s) ~> \/ ~Due(s)
                  \/ registered # Schedules
                  \/ ~WithinCeilings(Effective(rows[s].limit))

=============================================================================
