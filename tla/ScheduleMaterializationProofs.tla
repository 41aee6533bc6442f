------------------- MODULE ScheduleMaterializationProofs -------------------
(***************************************************************************)
(* Proofs about ScheduleMaterialization, for any set of schedules and       *)
(* schedulers, any cron periods, policies and bounds: a schedule never      *)
(* makes a job above the ceiling its pass read, and while passes, patches   *)
(* and crashes do not meet, an occurrence becomes at most one job.          *)
(***************************************************************************)
EXTENDS ScheduleMaterialization, WellFoundedInduction, TLAPS

-----------------------------------------------------------------------------
(* The inductive invariant *)

Running == {"list", "save", "advance"}

\* A schedule that a pass holds is in the table: nothing deletes one.
Held ==
    \A w \in Schedulers : \A p \in {pass[w]} :
        /\ p.at \in Running => \A i \in p.todo : rows[i.s] # None
        /\ p.at \in {"save", "advance"} => rows[p.item.s] # None

\* A pass that has decided to make a job holds a limit within its ceiling.
Under(limit, ceiling) == limit # None /\ ceiling # None => limit <= ceiling

Accepted ==
    /\ \A w \in Schedulers : \A p \in {pass[w]} :
          p.at \in {"save", "advance"} => Under(p.limit, p.ceiling)
    /\ \A m \in made : Under(m.limit, m.ceiling)

\* One request or pass is under way at a time.
Alone ==
    /\ \A w, v \in Schedulers :
          pass[w].at \in Running /\ pass[v].at \in Running => w = v
    /\ patch.at = "write" => \A w \in Schedulers : pass[w].at \notin Running

\* What a pass listed is what the table holds, and was due.
Current(i, t) == rows[i.s] = i.row /\ i.row.next <= t

Fresh ==
    \A w \in Schedulers : \A p \in {pass[w]} :
        /\ p.at \in Running => p.now <= now /\ \A i \in p.todo : Current(i, p.now)
        /\ p.at \in {"save", "advance"} => Current(p.item, p.now)

\* A job stands for an occurrence that is over: its schedule has moved past
\* it, or is about to be moved by the pass that made the job; the row a patch
\* is about to write is past it as well.
Past(m) ==
    \/ m.due < rows[m.s].next
    \/ \E w \in Schedulers : pass[w].at = "advance" /\ pass[w].item.s = m.s
                             /\ m.due <= rows[m.s].next

Behind ==
    \A m \in made :
        /\ rows[m.s] # None
        /\ m.due <= now
        /\ Past(m)
        /\ patch.at = "write" /\ patch.s = m.s => m.due < patch.row.next

Distinct == \A m, n \in made : m.s = n.s /\ m.due = n.due => m.id = n.id

Quiet == Alone /\ Fresh /\ Behind /\ Distinct

ScheduleInv == TypeOK /\ Held /\ Accepted /\ (Calm => Quiet)

-----------------------------------------------------------------------------
(* Operators *)

\* A set of numbers has a least element.
LEMMA LeastNumber ==
    ASSUME NEW S, S \subseteq Nat, S # {}
    PROVE  \E n \in S : \A m \in S : n <= m
<1>1. PICK n \in S : \A m \in S : ~(<<m, n>> \in OpToRel(<, Nat))
  BY NatLessThanWellFounded, WFMin
<1>2. \A m \in S : ~(m < n)
  BY <1>1 DEF OpToRel
<1> QED BY <1>2

\* Rounding down to a multiple and going one further is past where one was.
LEMMA NextMultiple ==
    ASSUME NEW t \in Nat, NEW c \in Nat \ {0}
    PROVE  (t \div c + 1) * c \in Nat /\ t < (t \div c + 1) * c
<1>1. t \div c \in Nat
  BY SMT
<1>2. t = c * (t \div c) + (t % c) /\ 0 <= t % c /\ t % c < c /\ t % c \in Nat
  BY SMT
<1>3. (t \div c + 1) * c = c * (t \div c) + c
  BY <1>1, SMT
<1> QED BY <1>1, <1>2, <1>3

\* The next run is strictly after the time it is computed from.
LEMMA NextIsLater ==
    ASSUME NEW row \in ScheduleRow, NEW t \in Nat
    PROVE  NextRunAfter(row, t) \in Nat /\ t < NextRunAfter(row, t)
<1>1. row.cron \in Nat \ {0}
  BY ScheduleAssumption DEF ScheduleRow
<1> QED BY <1>1, NextMultiple DEF NextRunAfter

\* What the place of a pass says about its fields.
LEMMA PassShapes ==
    ASSUME NEW p \in Passes
    PROVE  /\ p.at \in {"idle", "dead"} \cup Running
           /\ p.at = "list" => p \in [at : {"list"}, now : Nat, todo : SUBSET Item]
           /\ p.at \in {"save", "advance"} =>
                 p \in [at : {"save", "advance"}, now : Nat, todo : SUBSET Item,
                        item : Item, limit : Limits \cup {None},
                        ceiling : Limits \cup {None}]
  BY DEF Passes, Running

\* The schedule a pass takes next is one it listed.
LEMMA HeadIsListed ==
    ASSUME TypeOK, NEW w \in Schedulers, pass[w].at = "list", pass[w].todo # {}
    PROVE  Head(w) \in pass[w].todo
<1> DEFINE nexts == {i.row.next : i \in pass[w].todo}
<1>1. pass[w].todo \subseteq Item
  BY PassShapes DEF TypeOK
<1>2. nexts \subseteq Nat /\ nexts # {}
  BY <1>1 DEF Item, ScheduleRow
<1>3. PICK n \in nexts : \A m \in nexts : n <= m
  BY <1>2, LeastNumber
<1>4. PICK i \in pass[w].todo : n = i.row.next
  BY <1>3
<1>5. \A o \in pass[w].todo : i.row.next <= o.row.next
  BY <1>3, <1>4
<1> QED BY <1>4, <1>5 DEF Head

\* The clock is a number.
LEMMA ClockIsNumber ==
    ASSUME TypeOK
    PROVE  now \in Nat
  BY ScheduleAssumption DEF TypeOK

\* A new row, and a patched one, is a row.
LEMMA NewRowType ==
    ASSUME TypeOK, NEW cron \in Periods, NEW enabled \in BOOLEAN,
           NEW limit \in Limits \cup {None}, NEW dueNow \in BOOLEAN
    PROVE  NewRow(cron, enabled, limit, dueNow) \in ScheduleRow
<1> DEFINE row == [cron |-> cron, enabled |-> enabled, next |-> now, last |-> None,
                   limit |-> limit]
<1>1. row \in ScheduleRow
  BY ClockIsNumber DEF ScheduleRow
<1>2. NextRunAfter(row, now) \in Nat
  BY <1>1, NextIsLater, ClockIsNumber
<1>3. [row EXCEPT !.next = NextRunAfter(row, now)] \in ScheduleRow
  BY <1>1, <1>2 DEF ScheduleRow
<1> QED BY <1>1, <1>3 DEF NewRow

\* A patch keeps the next run or moves it past the clock.
LEMMA PatchedType ==
    ASSUME TypeOK, NEW row \in ScheduleRow, NEW change \in Changes
    PROVE  /\ Patched(row, change) \in ScheduleRow
           /\ Patched(row, change).next = row.next \/ now < Patched(row, change).next
<1>1. CASE change.field = "cron"
  <2> DEFINE new == [row EXCEPT !.cron = change.cron]
  <2>1. change.cron \in Periods
    BY <1>1 DEF Changes
  <2>2. new \in ScheduleRow
    BY <2>1 DEF ScheduleRow
  <2> DEFINE n == NextRunAfter(new, now)
  <2>3. n \in Nat /\ now < n
    BY <2>2, NextIsLater, ClockIsNumber
  <2>4. Patched(row, change) = [new EXCEPT !.next = n]
    BY <1>1 DEF Patched
  <2> HIDE DEF n, new
  <2>5. [new EXCEPT !.next = n] \in ScheduleRow /\ [new EXCEPT !.next = n].next = n
    BY <2>2, <2>3 DEF ScheduleRow
  <2> QED BY <2>3, <2>4, <2>5
<1>2. CASE change.field = "enabled"
  <2>1. change.enabled \in BOOLEAN
    BY <1>2 DEF Changes
  <2> DEFINE n == NextRunAfter(row, now)
  <2>3. n \in Nat /\ now < n
    BY NextIsLater, ClockIsNumber
  <2>4. Patched(row, change) = [row EXCEPT !.enabled = change.enabled, !.next = n]
    BY <1>2 DEF Patched
  <2> HIDE DEF n
  <2>5. /\ [row EXCEPT !.enabled = change.enabled, !.next = n] \in ScheduleRow
        /\ [row EXCEPT !.enabled = change.enabled, !.next = n].next = n
    BY <2>1, <2>3 DEF ScheduleRow
  <2> QED BY <2>3, <2>4, <2>5
<1>3. CASE change.field = "limit"
  <2>1. change.limit \in Limits
    BY <1>3 DEF Changes
  <2>4. Patched(row, change) = [row EXCEPT !.limit = change.limit]
    BY <1>3 DEF Patched
  <2>5. /\ [row EXCEPT !.limit = change.limit] \in ScheduleRow
        /\ [row EXCEPT !.limit = change.limit].next = row.next
    BY <2>1 DEF ScheduleRow
  <2> QED BY <2>4, <2>5
<1> QED BY <1>1, <1>2, <1>3 DEF Changes

-----------------------------------------------------------------------------
(* Types are kept *)

\* What the policy makes of a limit is a limit.
LEMMA EffectiveType ==
    ASSUME TypeOK, NEW ask \in Limits \cup {None}
    PROVE  Effective(ask) \in Limits \cup {None} /\ policy.ceiling \in Limits \cup {None}
  BY ScheduleAssumption DEF TypeOK, Effective

\* Writing a pass of one of the shapes keeps the passes in shape.
LEMMA GoType ==
    ASSUME TypeOK, NEW w \in Schedulers, NEW p \in Passes, Go(w, p)
    PROVE  pass' \in [Schedulers -> Passes]
  BY DEF TypeOK, Go

\* The number of overlaps stays a number, and only grows.
LEMMA ClashCounts ==
    ASSUME TypeOK, NEW met \in BOOLEAN, Clash(met)
    PROVE  clashes' \in 0..MaxClashes /\ (Calm' => Calm /\ ~met)
  BY ScheduleAssumption DEF TypeOK, Clash, Calm

\* Whether something is under way is true or false.
LEMMA BusyIsBoolean == Busy \in BOOLEAN
  BY DEF Busy

\* Every request keeps the shapes.
LEMMA TypeRequest ==
    ASSUME TypeOK, Request
    PROVE  TypeOK'
<1>1. ASSUME NEW s \in Schedules, NEW p \in Periods, NEW l \in Limits \cup {None},
             NEW d \in BOOLEAN, NEW enabled \in BOOLEAN, CreateSchedule(s, p, enabled, l, d)
      PROVE  TypeOK'
  <2>1. NewRow(p, enabled, l, d) \in ScheduleRow
    BY NewRowType
  <2> QED BY <1>1, <2>1 DEF CreateSchedule, TypeOK
<1>2. ASSUME NEW s \in Schedules, NEW p \in Periods, NEW l \in Limits \cup {None},
             NEW d \in BOOLEAN, AddSchedule(s, p, l, d)
      PROVE  TypeOK'
  <2>1. NewRow(p, TRUE, Effective(l), d) \in ScheduleRow
    BY NewRowType, EffectiveType
  <2> QED BY <1>2, <2>1 DEF AddSchedule, TypeOK
<1>3. ASSUME NEW s \in Schedules, NEW c \in Changes, BeginPatch(s, c)
      PROVE  TypeOK'
  <2>1. rows[s] \in ScheduleRow
    BY <1>3 DEF BeginPatch, Saved, TypeOK
  <2>2. Patched(rows[s], c) \in ScheduleRow
    BY <2>1, PatchedType
  <2>3. patch' \in Patches
    BY <1>3, <2>2 DEF BeginPatch, Patches
  <2>4. clashes' \in 0..MaxClashes
    BY <1>3, ClashCounts, BusyIsBoolean DEF BeginPatch
  <2> QED BY <1>3, <2>3, <2>4 DEF BeginPatch, TypeOK
<1>4. ASSUME CommitPatch
      PROVE  TypeOK'
  <2>1. patch.s \in Schedules /\ patch.row \in ScheduleRow
    BY <1>4 DEF CommitPatch, TypeOK, Patches
  <2>2. patch' \in Patches
    BY <1>4 DEF CommitPatch, Patches
  <2>3. rows' \in [Schedules -> ScheduleRow \cup {None}]
    BY <1>4, <2>1 DEF CommitPatch, TypeOK
  <2> QED BY <1>4, <2>2, <2>3 DEF CommitPatch, TypeOK
<1>5. ASSUME NEW new \in Policies, ReloadPolicy(new)
      PROVE  TypeOK'
  BY <1>5 DEF ReloadPolicy, TypeOK
<1>6. ASSUME NEW k \in SUBSET Schedules, ReloadRegistry(k)
      PROVE  TypeOK'
  BY <1>6 DEF ReloadRegistry, TypeOK
<1> QED BY <1>1, <1>2, <1>3, <1>4, <1>5, <1>6 DEF Request

\* The three outcomes of examining a schedule, and the end of a pass.
LEMMA ExamineCases ==
    ASSUME TypeOK, NEW w \in Schedulers, Examine(w)
    PROVE  \/ Go(w, [at |-> "idle"])
           \/ Go(w, [at |-> "dead"])
           \/ \E i \in pass[w].todo : Go(w, Without(w, i))
           \/ \E i \in pass[w].todo :
                 /\ Under(Effective(i.row.limit), policy.ceiling)
                 /\ Go(w, [at |-> "save", now |-> pass[w].now, todo |-> pass[w].todo,
                           item |-> i, limit |-> Effective(i.row.limit),
                           ceiling |-> policy.ceiling])
<1>1. CASE pass[w].todo = {}
  BY <1>1 DEF Examine
<1>2. CASE pass[w].todo # {}
  <2>1. PICK i \in pass[w].todo : i = Head(w)
    BY <1>2, HeadIsListed DEF Examine
  <2>2. \/ Go(w, [at |-> "dead"])
        \/ Go(w, Without(w, i))
        \/ /\ WithinCeilings(Effective(i.row.limit))
           /\ Go(w, [at |-> "save", now |-> pass[w].now, todo |-> pass[w].todo,
                     item |-> i, limit |-> Effective(i.row.limit),
                     ceiling |-> policy.ceiling])
    BY <1>2, <2>1 DEF Examine
  <2> QED BY <2>1, <2>2 DEF WithinCeilings, Under
<1> QED BY <1>1, <1>2

\* Every step of a pass keeps the shapes.
LEMMA TypePass ==
    ASSUME TypeOK, Held, NEW w \in Schedulers, PassStep(w) \/ Crash(w) \/ Restart(w)
    PROVE  TypeOK'
<1> USE DEF TypeOK
<1>0. [at |-> "idle"] \in Passes /\ [at |-> "dead"] \in Passes /\ pass[w] \in Passes
  BY DEF Passes
<1>1. CASE BeginPass(w)
  <2> DEFINE todo == {[s |-> s, row |-> rows[s]] : s \in {d \in Schedules : Due(d)}}
  <2>1. todo \subseteq Item
    BY DEF Due, Item
  <2> HIDE DEF todo
  <2> DEFINE p == [at |-> "list", now |-> now, todo |-> todo]
  <2>2. p \in Passes
    BY <2>1, ClockIsNumber DEF Passes
  <2>3. Go(w, p)
    BY <1>1 DEF BeginPass, Go, todo
  <2>4. clashes' \in 0..MaxClashes
    BY <1>1, ClashCounts, BusyIsBoolean DEF BeginPass
  <2> HIDE DEF p
  <2>5. pass' \in [Schedulers -> Passes]
    BY <2>2, <2>3, GoType
  <2> QED BY <1>1, <2>4, <2>5 DEF BeginPass
<1>2. CASE Examine(w)
  <2>1. pass[w] \in [at : {"list"}, now : Nat, todo : SUBSET Item]
    BY <1>0, <1>2, PassShapes DEF Examine
  <2>2. ASSUME NEW i \in pass[w].todo
        PROVE  /\ Without(w, i) \in Passes
               /\ [at |-> "save", now |-> pass[w].now, todo |-> pass[w].todo,
                   item |-> i, limit |-> Effective(i.row.limit),
                   ceiling |-> policy.ceiling] \in Passes
    <3>1. i \in Item /\ i.row.limit \in Limits \cup {None}
      BY <2>1 DEF Item, ScheduleRow
    <3>2. Effective(i.row.limit) \in Limits \cup {None} /\ policy.ceiling \in Limits \cup {None}
      BY <3>1, EffectiveType
    <3>3. Without(w, i) \in Passes
      BY <2>1 DEF Without, Passes
    <3> QED BY <2>1, <3>1, <3>2, <3>3 DEF Passes
  <2>3. pass' \in [Schedulers -> Passes]
    BY <1>0, <1>2, <2>2, ExamineCases, GoType
  <2> QED BY <1>2, <2>3 DEF Examine
<1>3. CASE SaveJob(w)
  <2>1. pass[w] \in [at : {"save", "advance"}, now : Nat, todo : SUBSET Item,
                     item : Item, limit : Limits \cup {None},
                     ceiling : Limits \cup {None}]
    BY <1>0, <1>3, PassShapes DEF SaveJob
  <2> DEFINE p == [pass[w] EXCEPT !.at = "advance"]
  <2>2. p \in Passes
    BY <2>1 DEF Passes
  <2>3. Go(w, p)
    BY <1>3 DEF SaveJob
  <2> HIDE DEF p
  <2>4. pass' \in [Schedulers -> Passes]
    BY <2>2, <2>3, GoType
  <2>5. \A m \in made' : m.s \in Schedules /\ m.due \in Nat
    <3>1. pass[w].item.s \in Schedules /\ pass[w].item.row.next \in Nat
      BY <2>1 DEF Item, ScheduleRow
    <3> QED BY <1>3, <3>1 DEF SaveJob
  <2> QED BY <1>3, <2>4, <2>5 DEF SaveJob
<1>4. CASE Advance(w)
  <2>1. pass[w] \in [at : {"save", "advance"}, now : Nat, todo : SUBSET Item,
                     item : Item, limit : Limits \cup {None},
                     ceiling : Limits \cup {None}]
    BY <1>0, <1>4, PassShapes DEF Advance
  <2>2. PICK i \in Item : i = pass[w].item
    BY <2>1
  <2>3. PICK n \in Nat : n = NextRunAfter(i.row, pass[w].now)
    BY <2>1, NextIsLater DEF Item
  <2>4. rows' = [rows EXCEPT ![i.s] =
                    [[rows[i.s] EXCEPT !.last = pass[w].now] EXCEPT !.next = n]]
    BY <1>4, <2>2, <2>3 DEF Advance, Item
  <2>5. rows[i.s] \in ScheduleRow /\ i.s \in Schedules
    BY <1>4, <2>2 DEF Held, Advance, Item
  <2>6. [[rows[i.s] EXCEPT !.last = pass[w].now] EXCEPT !.next = n] \in ScheduleRow
    BY <2>1, <2>3, <2>5 DEF ScheduleRow
  <2>7. rows' \in [Schedules -> ScheduleRow \cup {None}]
    BY <2>4, <2>5, <2>6
  <2>8. Without(w, i) \in Passes
    BY <2>1 DEF Without, Passes
  <2>9. pass' \in [Schedulers -> Passes]
    BY <1>4, <2>2, <2>8, GoType DEF Advance
  <2> QED BY <1>4, <2>7, <2>9 DEF Advance
<1>5. CASE Crash(w)
  <2>1. pass' \in [Schedulers -> Passes]
    BY <1>0, <1>5, GoType DEF Crash
  <2>2. clashes' \in 0..MaxClashes
    BY <1>5, ClashCounts DEF Crash
  <2> QED BY <1>5, <2>1, <2>2 DEF Crash
<1>6. CASE Restart(w)
  <2>1. pass' \in [Schedulers -> Passes]
    BY <1>0, <1>6, GoType DEF Restart
  <2> QED BY <1>6, <2>1 DEF Restart
<1> QED BY <1>1, <1>2, <1>3, <1>4, <1>5, <1>6 DEF PassStep

\* Every step keeps schedules, passes and occurrences well typed.
LEMMA TypeStep ==
    ASSUME TypeOK, Held, [Next]_vars
    PROVE  TypeOK'
<1>1. CASE Tick
  BY <1>1, ScheduleAssumption DEF Tick, TypeOK
<1>2. CASE Request
  BY <1>2, TypeRequest
<1>3. CASE \E w \in Schedulers : PassStep(w) \/ Crash(w) \/ Restart(w)
  BY <1>3, TypePass
<1>4. CASE UNCHANGED vars
  BY <1>4 DEF vars, TypeOK
<1> QED BY <1>1, <1>2, <1>3, <1>4 DEF Next

-----------------------------------------------------------------------------
(* A schedule stays in the table, so a pass holds only schedules that exist *)

\* What the steps of a pass do to the rows.
LEMMA AdvanceRows ==
    ASSUME TypeOK, Held, NEW w \in Schedulers, Advance(w),
           NEW i, i = pass[w].item
    PROVE  /\ i \in Item
           /\ pass[w].now \in Nat
           /\ \A s \in Schedules : s # i.s => rows'[s] = rows[s]
           /\ rows'[i.s] \in ScheduleRow
           /\ rows'[i.s].next \in Nat
           /\ pass[w].now < rows'[i.s].next
           /\ rows[i.s] \in ScheduleRow
<1>1. pass[w] \in Passes /\ pass[w].at = "advance"
  BY DEF TypeOK, Advance
<1>2. i \in Item /\ pass[w].now \in Nat
  BY <1>1, PassShapes
<1>3. PICK n \in Nat : n = NextRunAfter(i.row, pass[w].now) /\ pass[w].now < n
  BY <1>2, NextIsLater DEF Item
<1>4. rows[i.s] \in ScheduleRow /\ i.s \in Schedules
  BY <1>1, <1>2 DEF Held, Item, TypeOK
<1>5. rows' = [rows EXCEPT ![i.s] = [[rows[i.s] EXCEPT !.last = pass[w].now] EXCEPT !.next = n]]
  BY <1>3, <1>4 DEF Advance, TypeOK
<1>6. /\ [[rows[i.s] EXCEPT !.last = pass[w].now] EXCEPT !.next = n] \in ScheduleRow
      /\ [[rows[i.s] EXCEPT !.last = pass[w].now] EXCEPT !.next = n].next = n
  BY <1>2, <1>3, <1>4 DEF ScheduleRow
<1>7. rows'[i.s] = [[rows[i.s] EXCEPT !.last = pass[w].now] EXCEPT !.next = n]
  BY <1>4, <1>5 DEF TypeOK
<1>8. \A s \in Schedules : s # i.s => rows'[s] = rows[s]
  BY <1>5 DEF TypeOK
<1> QED BY <1>2, <1>3, <1>4, <1>6, <1>7, <1>8

\* No step takes a schedule out of the table.
LEMMA RowsStay ==
    ASSUME TypeOK, Held, [Next]_vars, NEW s \in Schedules, rows[s] # None
    PROVE  rows'[s] # None
<1>0. None \notin ScheduleRow
  BY ScheduleAssumption
<1>1. CASE Tick
  BY <1>1 DEF Tick
<1>2. CASE Request
  <2>1. ASSUME NEW r \in Schedules, NEW p \in Periods, NEW l \in Limits \cup {None},
               NEW d \in BOOLEAN, NEW e \in BOOLEAN,
               CreateSchedule(r, p, e, l, d) \/ AddSchedule(r, p, l, d)
        PROVE  rows'[s] # None
    BY <2>1 DEF CreateSchedule, AddSchedule, TypeOK
  <2>2. ASSUME CommitPatch
        PROVE  rows'[s] # None
    BY <1>0, <2>2 DEF CommitPatch, TypeOK, Patches
  <2>3. CASE UNCHANGED rows
    BY <2>3
  <2> QED BY <1>2, <2>1, <2>2, <2>3 DEF Request, BeginPatch, ReloadPolicy, ReloadRegistry
<1>3. ASSUME NEW w \in Schedulers, Advance(w)
      PROVE  rows'[s] # None
  BY <1>0, <1>3, AdvanceRows
<1>4. CASE \E w \in Schedulers : PassStep(w) \/ Crash(w) \/ Restart(w)
  BY <1>3, <1>4 DEF PassStep, BeginPass, Examine, SaveJob, Crash, Restart
<1>5. CASE UNCHANGED vars
  BY <1>5 DEF vars
<1> QED BY <1>1, <1>2, <1>4, <1>5 DEF Next

\* What a step can make of a pass: it stays, begins, ends, drops an item,
\* takes one of its items to be saved, or goes from saving to advancing.
PassMoves(p, q) ==
    \/ q = p
    \/ q.at \in {"idle", "dead"}
    \/ q.at = "list" /\ p.at \in Running /\ q.now = p.now /\ q.todo \subseteq p.todo
    \/ /\ p.at = "list" /\ q.at = "save" /\ q.now = p.now /\ q.todo = p.todo
       /\ q.item \in p.todo /\ Under(q.limit, q.ceiling)
    \/ p.at = "save" /\ q = [p EXCEPT !.at = "advance"]

\* A pass that does not begin moves along its steps.
LEMMA PassMove ==
    ASSUME TypeOK, [Next]_vars, NEW w \in Schedulers,
           NEW p, p = pass[w], NEW q, q = pass'[w]
    PROVE  BeginPass(w) \/ PassMoves(p, q)
<1>1. CASE pass' = pass
  BY <1>1 DEF PassMoves
<1>2. ASSUME NEW v \in Schedulers, NEW r, Go(v, r), v # w
      PROVE  q = p
  BY <1>2 DEF Go, TypeOK
<1>3. ASSUME NEW r, Go(w, r)
      PROVE  q = r
  BY <1>3 DEF Go, TypeOK
<1>4. ASSUME NEW v \in Schedulers, PassStep(v) \/ Crash(v) \/ Restart(v)
      PROVE  BeginPass(w) \/ PassMoves(p, q)
  <2>1. CASE v # w
    <3>1. \E r : Go(v, r)
      BY <1>4, ExamineCases DEF PassStep, BeginPass, SaveJob, Advance, Crash, Restart, Go
    <3> QED BY <1>2, <2>1, <3>1 DEF PassMoves
  <2>2. CASE v = w
    <3>1. CASE Examine(w)
      <4>1. p.at = "list"
        BY <3>1 DEF Examine
      <4>2. CASE Go(w, [at |-> "idle"]) \/ Go(w, [at |-> "dead"])
        BY <1>3, <4>2 DEF PassMoves
      <4>3. ASSUME NEW i \in pass[w].todo, Go(w, Without(w, i))
            PROVE  PassMoves(p, q)
        <5>1. q = [at |-> "list", now |-> p.now, todo |-> p.todo \ {i}]
          BY <1>3, <4>3 DEF Without
        <5> QED BY <4>1, <5>1 DEF PassMoves, Running
      <4>4. ASSUME NEW i \in pass[w].todo, NEW l, NEW c, Under(l, c),
                   Go(w, [at |-> "save", now |-> pass[w].now, todo |-> pass[w].todo,
                          item |-> i, limit |-> l, ceiling |-> c])
            PROVE  PassMoves(p, q)
        <5>1. q = [at |-> "save", now |-> p.now, todo |-> p.todo, item |-> i,
                   limit |-> l, ceiling |-> c]
          BY <1>3, <4>4
        <5>2. q.at = "save" /\ q.now = p.now /\ q.todo = p.todo /\ q.item \in p.todo
              /\ q.limit = l /\ q.ceiling = c
          BY <5>1
        <5> QED BY <4>1, <4>4, <5>2 DEF PassMoves
      <4> QED BY <3>1, <4>2, <4>3, <4>4, ExamineCases
    <3>2. CASE SaveJob(w)
      BY <1>3, <3>2 DEF SaveJob, PassMoves
    <3>3. CASE Advance(w)
      <4>1. q = [at |-> "list", now |-> p.now, todo |-> p.todo \ {p.item}]
        BY <1>3, <3>3 DEF Advance, Without
      <4>2. p.at \in Running
        BY <3>3 DEF Advance, Running
      <4> QED BY <4>1, <4>2 DEF PassMoves
    <3>4. CASE Crash(w) \/ Restart(w)
      <4>1. q = [at |-> "dead"] \/ q = [at |-> "idle"]
        BY <1>3, <3>4 DEF Crash, Restart
      <4> QED BY <4>1 DEF PassMoves
    <3> QED BY <1>4, <2>2, <3>1, <3>2, <3>3, <3>4 DEF PassStep
  <2> QED BY <2>1, <2>2
<1> QED BY <1>1, <1>4 DEF Next, Tick, Request, CreateSchedule, AddSchedule, BeginPatch,
                          CommitPatch, ReloadPolicy, ReloadRegistry, vars

\* A pass that begins has listed the due schedules of the table.
LEMMA BegunPass ==
    ASSUME TypeOK, NEW w \in Schedulers, BeginPass(w), NEW q, q = pass'[w]
    PROVE  /\ q.at = "list"
           /\ q.now = now
           /\ \A i \in q.todo : i.s \in Schedules /\ Due(i.s) /\ i.row = rows[i.s]
           /\ rows' = rows /\ now' = now /\ made' = made /\ patch' = patch
           /\ \A v \in Schedulers : v # w => pass'[v] = pass[v]
<1> DEFINE todo == {[s |-> s, row |-> rows[s]] : s \in {d \in Schedules : Due(d)}}
<1>1. pass' = [pass EXCEPT ![w] = [at |-> "list", now |-> now, todo |-> todo]]
  BY DEF BeginPass
<1>2. \A i \in todo : i.s \in Schedules /\ Due(i.s) /\ i.row = rows[i.s]
  OBVIOUS
<1> HIDE DEF todo
<1>3. q = [at |-> "list", now |-> now, todo |-> todo]
  BY <1>1 DEF TypeOK
<1>4. \A v \in Schedulers : v # w => pass'[v] = pass[v]
  BY <1>1 DEF TypeOK
<1> QED BY <1>2, <1>3, <1>4 DEF BeginPass

\* Schedules that a pass holds stay in the table.
LEMMA HeldStep ==
    ASSUME TypeOK, Held, [Next]_vars
    PROVE  Held'
<1> SUFFICES ASSUME NEW w \in Schedulers
             PROVE  \A q \in {pass'[w]} :
                        /\ q.at \in Running => \A i \in q.todo : rows'[i.s] # None
                        /\ q.at \in {"save", "advance"} => rows'[q.item.s] # None
  BY DEF Held
<1>1. PICK p : p = pass[w]
  OBVIOUS
<1>2. PICK q : q = pass'[w]
  OBVIOUS
<1>3. p \in Passes
  BY <1>1 DEF TypeOK
<1>4. /\ p.at \in Running => \A i \in p.todo : i.s \in Schedules /\ rows[i.s] # None
      /\ p.at \in {"save", "advance"} => p.item.s \in Schedules /\ rows[p.item.s] # None
  BY <1>1, <1>3, PassShapes DEF Held, Item, Running
<1>5. \A s \in Schedules : rows[s] # None => rows'[s] # None
  BY RowsStay
<1>6. CASE BeginPass(w)
  <2>1. q.at = "list" /\ \A i \in q.todo : i.s \in Schedules /\ Due(i.s)
    BY <1>2, <1>6, BegunPass
  <2> QED BY <1>2, <1>5, <2>1 DEF Due
<1>7. CASE PassMoves(p, q)
  <2>1. CASE p.at = "save" /\ q = [p EXCEPT !.at = "advance"]
    <3>1. q.at = "advance" /\ q.todo = p.todo /\ q.item = p.item
      BY <1>3, <2>1, PassShapes
    <3> QED BY <1>2, <1>4, <1>5, <2>1, <3>1 DEF Running
  <2>2. CASE q = p
    BY <1>2, <1>4, <1>5, <2>2
  <2>3. CASE q.at \in {"idle", "dead"}
    BY <1>2, <2>3 DEF Running
  <2>4. CASE q.at = "list" /\ p.at \in Running /\ q.todo \subseteq p.todo
    BY <1>2, <1>4, <1>5, <2>4
  <2>5. CASE p.at = "list" /\ q.at = "save" /\ q.todo = p.todo /\ q.item \in p.todo
    BY <1>2, <1>4, <1>5, <2>5 DEF Running
  <2> QED BY <1>7, <2>1, <2>2, <2>3, <2>4, <2>5 DEF PassMoves
<1> QED BY <1>1, <1>2, <1>6, <1>7, PassMove

-----------------------------------------------------------------------------
(* Ceilings *)

\* A pass takes a schedule to be saved only within the ceiling it read.
LEMMA AcceptedStep ==
    ASSUME TypeOK, Accepted, [Next]_vars
    PROVE  Accepted'
<1>1. ASSUME NEW w \in Schedulers
      PROVE  \A q \in {pass'[w]} : q.at \in {"save", "advance"} => Under(q.limit, q.ceiling)
  <2>1. PICK p : p = pass[w]
    OBVIOUS
  <2>2. PICK q : q = pass'[w]
    OBVIOUS
  <2>3. p \in Passes /\ (p.at \in {"save", "advance"} => Under(p.limit, p.ceiling))
    BY <2>1 DEF TypeOK, Accepted
  <2>4. CASE BeginPass(w)
    BY <2>2, <2>4, BegunPass
  <2>5. CASE p.at = "save" /\ q = [p EXCEPT !.at = "advance"]
    <3>1. q.limit = p.limit /\ q.ceiling = p.ceiling
      BY <2>3, <2>5, PassShapes
    <3> QED BY <2>2, <2>3, <2>5, <3>1
  <2> QED BY <2>1, <2>2, <2>3, <2>4, <2>5, PassMove DEF PassMoves
<1>2. ASSUME NEW m \in made'
      PROVE  Under(m.limit, m.ceiling)
  <2>1. CASE m \in made
    BY <2>1 DEF Accepted
  <2>2. CASE m \notin made
    <3>1. PICK w \in Schedulers : SaveJob(w)
      BY <2>2 DEF Next, vars, Tick, Request, CreateSchedule, AddSchedule, BeginPatch, CommitPatch,
                  ReloadPolicy, ReloadRegistry, PassStep, BeginPass, Examine, Advance, Crash,
                  Restart
    <3>2. m.limit = pass[w].limit /\ m.ceiling = pass[w].ceiling
      BY <2>2, <3>1 DEF SaveJob
    <3> QED BY <3>1, <3>2 DEF SaveJob, Accepted
  <2> QED BY <2>1, <2>2
<1> QED BY <1>1, <1>2 DEF Accepted

-----------------------------------------------------------------------------
(* While nothing meets *)

\* As long as nothing has met, a pass or a patch begins alone and nothing
\* crashes.
LEMMA CalmStep ==
    ASSUME TypeOK, [Next]_vars, Calm'
    PROVE  /\ Calm
           /\ \A w \in Schedulers : ~Crash(w)
           /\ \A w \in Schedulers : BeginPass(w) => ~Busy
           /\ \A s \in Schedules, c \in Changes : BeginPatch(s, c) => ~Busy
<1>1. ASSUME NEW w \in Schedulers, Crash(w) PROVE FALSE
  BY <1>1, ClashCounts DEF Crash
<1>2. ASSUME NEW w \in Schedulers, BeginPass(w) PROVE Calm /\ ~Busy
  BY <1>2, ClashCounts, BusyIsBoolean DEF BeginPass
<1>3. ASSUME NEW s \in Schedules, NEW c \in Changes, BeginPatch(s, c) PROVE Calm /\ ~Busy
  BY <1>3, ClashCounts, BusyIsBoolean DEF BeginPatch
<1>4. CASE clashes' = clashes
  BY <1>1, <1>2, <1>3, <1>4 DEF Calm
<1> QED BY <1>1, <1>2, <1>3, <1>4 DEF Next, Tick, Request, CreateSchedule, AddSchedule,
           CommitPatch, ReloadPolicy, ReloadRegistry, PassStep, Examine, SaveJob, Advance,
           Restart, vars

\* A pass that runs after a step ran before it, or begins with it.
LEMMA RunsBefore ==
    ASSUME TypeOK, [Next]_vars, NEW w \in Schedulers, pass'[w].at \in Running
    PROVE  BeginPass(w) \/ pass[w].at \in Running
<1>1. PICK p : p = pass[w]
  OBVIOUS
<1>2. PICK q : q = pass'[w]
  OBVIOUS
<1>3. CASE PassMoves(p, q)
  BY <1>1, <1>2, <1>3 DEF PassMoves, Running
<1> QED BY <1>1, <1>2, <1>3, PassMove

\* Calm steps leave one pass at work.
LEMMA AloneStep ==
    ASSUME TypeOK, Alone, [Next]_vars, Calm'
    PROVE  Alone'
<1>1. ASSUME NEW w \in Schedulers, NEW v \in Schedulers,
             pass'[w].at \in Running, pass'[v].at \in Running
      PROVE  w = v
  <2>1. ASSUME NEW x \in Schedulers, NEW y \in Schedulers, BeginPass(x), y # x
        PROVE  pass'[y].at \notin Running
    <3>1. pass'[y] = pass[y]
      BY <2>1, BegunPass
    <3>2. ~Busy
      BY <2>1, CalmStep
    <3> QED BY <3>1, <3>2 DEF Busy, InPass, Running
  <2> QED BY <1>1, <2>1, RunsBefore DEF Alone
<1>2. ASSUME patch'.at = "write", NEW w \in Schedulers, pass'[w].at \in Running
      PROVE  FALSE
  <2>1. CASE patch' = patch
    <3>1. BeginPass(w)
      BY <1>2, <2>1, RunsBefore DEF Alone
    <3>2. ~Busy
      BY <3>1, CalmStep
    <3> QED BY <1>2, <2>1, <3>2 DEF Busy
  <2>2. CASE \E s \in Schedules, c \in Changes : BeginPatch(s, c)
    <3>1. pass' = pass /\ ~Busy
      BY <2>2, CalmStep DEF BeginPatch
    <3> QED BY <1>2, <3>1 DEF Busy, InPass, Running
  <2>3. CASE CommitPatch
    BY <1>2, <2>3 DEF CommitPatch
  <2> QED BY <2>1, <2>2, <2>3 DEF Next, Tick, Request, CreateSchedule, AddSchedule,
           ReloadPolicy, ReloadRegistry, PassStep, BeginPass, Examine, SaveJob, Advance,
           Crash, Restart, vars
<1> QED BY <1>1, <1>2 DEF Alone

\* While one pass runs, the rows it holds change under no one's hands but its
\* own.
LEMMA RowsOfPass ==
    ASSUME TypeOK, Held, Alone, [Next]_vars, NEW w \in Schedulers, pass[w].at \in Running,
           ~Advance(w), NEW s \in Schedules, rows[s] # None
    PROVE  rows'[s] = rows[s]
<1>1. ASSUME NEW r \in Schedules, NEW p \in Periods, NEW l \in Limits \cup {None},
             NEW d \in BOOLEAN, NEW e \in BOOLEAN,
             CreateSchedule(r, p, e, l, d) \/ AddSchedule(r, p, l, d)
      PROVE  rows'[s] = rows[s]
  BY <1>1 DEF CreateSchedule, AddSchedule, TypeOK
<1>2. ~CommitPatch
  BY DEF CommitPatch, Alone
<1>3. \A v \in Schedulers : ~Advance(v)
  BY DEF Advance, Alone, Running
<1>4. CASE rows' = rows
  BY <1>4
<1> QED BY <1>1, <1>2, <1>3, <1>4 DEF Next, Tick, Request, BeginPatch, ReloadPolicy,
           ReloadRegistry, PassStep, BeginPass, Examine, SaveJob, Crash, Restart, vars

\* The clock does not go back.
LEMMA ClockGoesOn ==
    ASSUME TypeOK, [Next]_vars
    PROVE  now \in Nat /\ now' \in Nat /\ now <= now'
<1>1. now \in Nat
  BY ClockIsNumber
<1>2. CASE Tick
  BY <1>1, <1>2 DEF Tick
<1>3. CASE now' = now
  BY <1>1, <1>3
<1> QED BY <1>2, <1>3 DEF Next, Request, CreateSchedule, AddSchedule, BeginPatch,
           CommitPatch, ReloadPolicy, ReloadRegistry, PassStep, BeginPass, Examine, SaveJob,
           Advance, Crash, Restart, vars

\* What a pass holds stays what the table holds.
LEMMA FreshStep ==
    ASSUME TypeOK, Held, Alone, Fresh, [Next]_vars
    PROVE  Fresh'
<1> SUFFICES ASSUME NEW w \in Schedulers
             PROVE  \A q \in {pass'[w]} :
                       /\ q.at \in Running =>
                             /\ q.now <= now'
                             /\ \A i \in q.todo : rows'[i.s] = i.row /\ i.row.next <= q.now
                       /\ q.at \in {"save", "advance"} =>
                             rows'[q.item.s] = q.item.row /\ q.item.row.next <= q.now
  BY DEF Fresh, Current
<1>1. PICK p : p = pass[w]
  OBVIOUS
<1>2. PICK q : q = pass'[w]
  OBVIOUS
<1>3. p \in Passes /\ now \in Nat /\ now' \in Nat /\ now <= now'
  BY <1>1, ClockGoesOn DEF TypeOK
<1>4. /\ p.at \in Running =>
            /\ p.now \in Nat /\ p.now <= now /\ p.now <= now'
            /\ \A i \in p.todo : /\ i.s \in Schedules /\ rows[i.s] # None
                                 /\ rows[i.s] = i.row /\ i.row.next <= p.now
      /\ p.at \in {"save", "advance"} =>
            /\ p.item.s \in Schedules /\ rows[p.item.s] # None
            /\ rows[p.item.s] = p.item.row /\ p.item.row.next <= p.now
  <2>1. p.at \in Running => p.now \in Nat /\ \A i \in p.todo : i.s \in Schedules
    BY <1>3, PassShapes DEF Running, Item
  <2>2. p.at \in {"save", "advance"} => p.item.s \in Schedules
    BY <1>3, PassShapes DEF Item
  <2>3. \A n \in Nat : n <= now => n <= now'
    BY <1>3
  <2>4. p.at \in Running => p.now <= now /\ \A i \in p.todo : Current(i, p.now)
    BY <1>1 DEF Fresh
  <2>5. p.at \in {"save", "advance"} => Current(p.item, p.now)
    BY <1>1 DEF Fresh
  <2>6. /\ p.at \in Running => \A i \in p.todo : rows[i.s] # None
        /\ p.at \in {"save", "advance"} => rows[p.item.s] # None
    BY <1>1 DEF Held
  <2> QED BY <2>1, <2>2, <2>3, <2>4, <2>5, <2>6 DEF Current
<1>5. CASE BeginPass(w)
  <2>1. /\ q.at = "list" /\ q.now = now /\ now' = now /\ rows' = rows
        /\ \A i \in q.todo : Due(i.s) /\ i.row = rows[i.s]
    BY <1>2, <1>5, BegunPass
  <2> QED BY <1>2, <1>3, <2>1 DEF Due
<1>6. CASE Advance(w)
  <2>1. PICK i : i = p.item
    OBVIOUS
  <2>2. i \in Item /\ \A s \in Schedules : s # i.s => rows'[s] = rows[s]
    BY <1>1, <1>6, <2>1, AdvanceRows
  <2>3. q = [at |-> "list", now |-> p.now, todo |-> p.todo \ {i}]
    BY <1>1, <1>2, <1>6, <2>1 DEF Advance, Go, Without, TypeOK
  <2>4. p.at = "advance" /\ p.todo \subseteq Item
    BY <1>1, <1>3, <1>6, PassShapes DEF Advance
  <2>5. ASSUME NEW j \in q.todo PROVE rows'[j.s] = j.row /\ j.row.next <= q.now
    <3>1. j \in p.todo /\ j # i /\ q.now = p.now
      BY <2>3
    <3>2. CASE j.s = i.s
      <4>1. j.row = i.row
        BY <1>4, <2>1, <2>4, <3>1, <3>2 DEF Running
      <4>2. j = i
        BY <2>2, <2>4, <3>1, <3>2, <4>1 DEF Item
      <4> QED BY <3>1, <4>2
    <3>3. CASE j.s # i.s
      BY <1>4, <2>2, <2>4, <3>1, <3>3 DEF Running
    <3> QED BY <3>2, <3>3
  <2>6. q.at = "list" /\ q.now <= now'
    BY <1>4, <2>3, <2>4 DEF Running
  <2> QED BY <1>2, <2>5, <2>6
<1>7. CASE PassMoves(p, q) /\ ~Advance(w)
  <2>1. p.at \in Running => \A s \in Schedules : rows[s] # None => rows'[s] = rows[s]
    BY <1>1, <1>7, RowsOfPass
  <2>2. CASE p.at = "save" /\ q = [p EXCEPT !.at = "advance"]
    <3>1. q.at = "advance" /\ q.todo = p.todo /\ q.item = p.item /\ q.now = p.now
      BY <1>3, <2>2, PassShapes
    <3> QED BY <1>2, <1>4, <2>1, <2>2, <3>1, ZenonT(40) DEF Running
  <2>3. CASE q = p
    BY <1>2, <1>4, <2>1, <2>3 DEF Running
  <2>4. CASE q.at \in {"idle", "dead"}
    BY <1>2, <2>4 DEF Running
  <2>5. CASE q.at = "list" /\ p.at \in Running /\ q.now = p.now /\ q.todo \subseteq p.todo
    BY <1>2, <1>4, <2>1, <2>5
  <2>6. CASE p.at = "list" /\ q.at = "save" /\ q.now = p.now /\ q.todo = p.todo /\ q.item \in p.todo
    BY <1>2, <1>4, <2>1, <2>6 DEF Running
  <2> QED BY <1>7, <2>2, <2>3, <2>4, <2>5, <2>6 DEF PassMoves
<1> QED BY <1>1, <1>2, <1>5, <1>6, <1>7, PassMove

\* Nothing but SaveJob adds to the history.
LEMMA OnlySaveMakes ==
    ASSUME [Next]_vars
    PROVE  made' = made \/ \E w \in Schedulers : SaveJob(w)
  BY DEF Next, vars, Tick, Request, CreateSchedule, AddSchedule, BeginPatch, CommitPatch,
         ReloadPolicy, ReloadRegistry, PassStep, BeginPass, Examine, Advance, Crash, Restart

\* The job a pass saves stands for the run its schedule was waiting for, which
\* no job stood for.
LEMMA SavedIsNew ==
    ASSUME TypeOK, Held, Quiet, NEW w \in Schedulers, SaveJob(w),
           NEW i, i = pass[w].item
    PROVE  /\ i.s \in Schedules
           /\ rows[i.s] # None
           /\ i.row.next = rows[i.s].next
           /\ i.row.next \in Nat
           /\ i.row.next <= now
           /\ patch.at # "write"
           /\ \A m \in made : m.due < rows[m.s].next
           /\ \E new : /\ made' = made \cup {new} /\ new.s = i.s /\ new.due = i.row.next
           /\ pass'[w].at = "advance" /\ pass'[w].item = i
<1>1. PICK p : p = pass[w]
  OBVIOUS
<1>2. p.at = "save" /\ p \in Passes
  BY <1>1 DEF SaveJob, TypeOK
<1>3. i \in Item /\ p.now \in Nat /\ now \in Nat
  BY <1>1, <1>2, PassShapes, ClockIsNumber
<1>4. rows[i.s] # None /\ Current(i, p.now) /\ p.now <= now
  BY <1>1, <1>2 DEF Held, Quiet, Fresh, Running
<1>5. i.s \in Schedules /\ i.row.next \in Nat
  BY <1>3 DEF Item, ScheduleRow
<1>6. i.row.next <= now
  BY <1>3, <1>4, <1>5 DEF Current
<1>7. patch.at # "write" /\ \A v \in Schedulers : pass[v].at # "advance"
  BY <1>1, <1>2 DEF Quiet, Alone, Running
<1>8. \A m \in made : m.due < rows[m.s].next
  BY <1>7 DEF Quiet, Behind, Past
<1>9. \E new : made' = made \cup {new} /\ new.s = i.s /\ new.due = i.row.next
  <2> DEFINE new == [id |-> Cardinality(made) + 1, s |-> pass[w].item.s,
                     due |-> pass[w].item.row.next, at |-> pass[w].now,
                     limit |-> pass[w].limit, ceiling |-> pass[w].ceiling]
  <2>1. made' = made \cup {new}
    BY DEF SaveJob
  <2>2. new.s = i.s /\ new.due = i.row.next
    OBVIOUS
  <2> HIDE DEF new
  <2> QED BY <2>1, <2>2
<1>10. pass'[w] = [p EXCEPT !.at = "advance"]
  BY <1>1 DEF SaveJob, Go, TypeOK
<1>11. pass'[w].at = "advance" /\ pass'[w].item = i
  BY <1>1, <1>2, <1>10, PassShapes
<1>12. i.row.next = rows[i.s].next
  BY <1>4 DEF Current
<1> QED BY <1>4, <1>5, <1>6, <1>7, <1>8, <1>9, <1>11, <1>12

\* While passes are alone, made occurrences stay distinct.
LEMMA DistinctStep ==
    ASSUME TypeOK, Held, Quiet, [Next]_vars
    PROVE  Distinct'
<1>1. CASE made' = made
  BY <1>1 DEF Quiet, Distinct
<1>2. ASSUME NEW w \in Schedulers, SaveJob(w)
      PROVE  Distinct'
  <2>1. PICK i : i = pass[w].item
    OBVIOUS
  <2>2. PICK new : made' = made \cup {new} /\ new.s = i.s /\ new.due = i.row.next
    BY <1>2, <2>1, SavedIsNew
  <2>3. \A m \in made : m.due < rows[m.s].next /\ m.due \in Nat
    BY <1>2, <2>1, SavedIsNew DEF TypeOK
  <2>4. i.row.next = rows[i.s].next /\ i.row.next \in Nat
    BY <1>2, <2>1, SavedIsNew
  <2>5. ASSUME NEW m \in made, m.s = new.s PROVE m.due # new.due
    BY <2>2, <2>3, <2>4, <2>5
  <2> QED BY <2>2, <2>5 DEF Quiet, Distinct
<1> QED BY <1>1, <1>2, OnlySaveMakes

\* Jobs that are there stay behind their schedules.
LEMMA BehindStep ==
    ASSUME TypeOK, Held, Quiet, [Next]_vars, Calm'
    PROVE  Behind'
<1> DEFINE Ok(m) == /\ rows'[m.s] # None
                    /\ m.due <= now'
                    /\ Past(m)'
                    /\ patch'.at = "write" /\ patch'.s = m.s => m.due < patch'.row.next
<1>0. now \in Nat /\ now' \in Nat /\ now <= now'
  BY ClockGoesOn
<1>1. ASSUME NEW m \in made
      PROVE  /\ m.s \in Schedules /\ m.due \in Nat /\ rows[m.s] \in ScheduleRow
             /\ rows[m.s].next \in Nat /\ m.due <= now /\ m.due <= now' /\ Past(m)
             /\ rows'[m.s] # None /\ m.due <= rows[m.s].next
  <2>1. m.s \in Schedules /\ m.due \in Nat /\ rows[m.s] # None /\ m.due <= now /\ Past(m)
    BY DEF TypeOK, Quiet, Behind
  <2>2. rows[m.s] \in ScheduleRow /\ rows[m.s].next \in Nat
    BY <2>1 DEF TypeOK, ScheduleRow
  <2>3. m.due <= now'
    BY <1>0, <2>1
  <2>4. m.due <= rows[m.s].next
    BY <2>1, <2>2 DEF Past
  <2> QED BY <2>1, <2>2, <2>3, <2>4, RowsStay
<1>2. ASSUME NEW m \in made, UNCHANGED <<rows, pass>>
      PROVE  Past(m)'
  BY <1>1, <1>2 DEF Past
<1>3. ASSUME NEW m \in made, patch.at = "write", patch.s = m.s
      PROVE  m.due < patch.row.next
  BY <1>3 DEF Quiet, Behind
<1>4. ASSUME NEW m \in made, Request
      PROVE  Ok(m)
  <2>1. ASSUME NEW s \in Schedules, NEW p \in Periods, NEW l \in Limits \cup {None},
               NEW d \in BOOLEAN, NEW e \in BOOLEAN,
               CreateSchedule(s, p, e, l, d) \/ AddSchedule(s, p, l, d)
        PROVE  Ok(m)
    <3>1. rows'[m.s] = rows[m.s] /\ pass' = pass /\ patch' = patch
      BY <1>1, <2>1 DEF CreateSchedule, AddSchedule, TypeOK, Quiet, Behind
    <3>2. Past(m)'
      BY <1>1, <3>1 DEF Past
    <3> QED BY <1>1, <1>3, <3>1, <3>2
  <2>2. ASSUME NEW s \in Schedules, NEW c \in Changes, BeginPatch(s, c)
        PROVE  Ok(m)
    <3>1. rows' = rows /\ pass' = pass
          /\ patch' = [at |-> "write", s |-> s, row |-> Patched(rows[s], c)]
      BY <2>2 DEF BeginPatch
    <3>2. ~Busy
      BY <2>2, CalmStep
    <3>3. m.due < rows[m.s].next
      BY <1>1, <3>2 DEF Past, Busy, InPass
    <3>4. CASE s = m.s
      <4>1. PICK r : r = Patched(rows[s], c)
        OBVIOUS
      <4>2. r \in ScheduleRow /\ (r.next = rows[s].next \/ now < r.next)
        BY <1>1, <3>4, <4>1, PatchedType
      <4>3. r.next \in Nat
        BY <4>2 DEF ScheduleRow
      <4>4. m.due < r.next
        BY <1>0, <1>1, <3>3, <3>4, <4>2, <4>3
      <4>5. patch'.row = r
        BY <3>1, <4>1
      <4> QED BY <1>1, <1>2, <3>1, <4>4, <4>5
    <3>5. CASE s # m.s
      <4>1. patch'.s = s
        BY <3>1
      <4> QED BY <1>1, <1>2, <3>1, <3>5, <4>1
    <3> QED BY <3>4, <3>5
  <2>3. ASSUME CommitPatch
        PROVE  Ok(m)
    <3>1. patch.at = "write" /\ pass' = pass /\ patch'.at = "idle"
      BY <2>3 DEF CommitPatch
    <3>2. rows' = [rows EXCEPT ![patch.s] = patch.row]
      BY <2>3 DEF CommitPatch
    <3>3. Past(m)'
      <4>1. CASE m.s = patch.s
        <5>1. rows'[m.s] = patch.row
          BY <1>1, <3>2, <4>1 DEF TypeOK
        <5> QED BY <1>3, <3>1, <4>1, <5>1 DEF Past
      <4>2. CASE m.s # patch.s
        <5>1. rows'[m.s] = rows[m.s]
          BY <1>1, <3>2, <4>2 DEF TypeOK
        <5> QED BY <1>1, <3>1, <5>1 DEF Past
      <4> QED BY <4>1, <4>2
    <3> QED BY <1>1, <3>1, <3>3
  <2>4. CASE UNCHANGED <<rows, pass, patch>>
    BY <1>1, <1>2, <1>3, <2>4
  <2> QED BY <1>4, <2>1, <2>2, <2>3, <2>4 DEF Request, ReloadPolicy, ReloadRegistry
<1>5. ASSUME NEW m \in made, NEW w \in Schedulers, PassStep(w) \/ Restart(w)
      PROVE  Ok(m)
  <2>0. patch' = patch
    BY <1>5 DEF PassStep, BeginPass, Examine, SaveJob, Advance, Restart
  <2>1. ASSUME rows' = rows, pass[w].at # "advance",
               \A v \in Schedulers : v # w => pass'[v] = pass[v]
        PROVE  Past(m)'
    BY <1>1, <2>1 DEF Past
  <2>2. CASE BeginPass(w)
    <3>1. Past(m)'
      BY <2>1, <2>2, BegunPass DEF BeginPass
    <3> QED BY <1>1, <1>3, <2>0, <3>1
  <2>3. CASE Examine(w)
    <3>1. \A v \in Schedulers : v # w => pass'[v] = pass[v]
      BY <2>3, ExamineCases DEF Go, TypeOK
    <3>2. Past(m)'
      BY <2>1, <2>3, <3>1 DEF Examine
    <3> QED BY <1>1, <1>3, <2>0, <3>2
  <2>4. CASE SaveJob(w)
    <3>1. rows' = rows
      BY <2>4 DEF SaveJob
    <3>2. m.due < rows[m.s].next
      BY <2>4, SavedIsNew
    <3>3. Past(m)'
      BY <3>1, <3>2 DEF Past
    <3> QED BY <1>1, <1>3, <2>0, <3>3
  <2>5. CASE Advance(w)
    <3>1. PICK i : i = pass[w].item
      OBVIOUS
    <3>2. /\ i \in Item /\ pass[w].now \in Nat
          /\ \A s \in Schedules : s # i.s => rows'[s] = rows[s]
          /\ rows'[i.s].next \in Nat
          /\ pass[w].now < rows'[i.s].next
      BY <2>5, <3>1, AdvanceRows
    <3>3. pass[w].at = "advance"
      BY <2>5 DEF Advance
    <3>4. Current(i, pass[w].now)
      BY <3>1, <3>3 DEF Quiet, Fresh
    <3>5. CASE m.s = i.s
      <4>1. rows[m.s].next <= pass[w].now
        BY <3>4, <3>5 DEF Current
      <4>2. m.due < rows'[m.s].next
        BY <1>1, <3>2, <3>5, <4>1
      <4> QED BY <1>1, <1>3, <2>0, <4>2 DEF Past
    <3>6. CASE m.s # i.s
      <4>1. rows'[m.s] = rows[m.s]
        BY <1>1, <3>2, <3>6
      <4>2. \A v \in Schedulers : pass[v].at = "advance" => v = w
        BY <3>3 DEF Quiet, Alone, Running
      <4>3. m.due < rows[m.s].next
        BY <1>1, <3>1, <3>6, <4>2 DEF Past
      <4> QED BY <1>1, <1>3, <2>0, <4>1, <4>3 DEF Past
    <3> QED BY <3>5, <3>6
  <2>6. CASE Restart(w)
    <3>1. Past(m)'
      BY <2>1, <2>6 DEF Restart, Go, TypeOK
    <3> QED BY <1>1, <1>3, <2>0, <3>1
  <2> QED BY <1>5, <2>2, <2>3, <2>4, <2>5, <2>6 DEF PassStep
<1>6. ASSUME NEW m \in made
      PROVE  Ok(m)
  <2>1. CASE Tick \/ UNCHANGED vars
    <3>1. UNCHANGED <<rows, pass, patch>>
      BY <2>1 DEF Tick, vars
    <3> QED BY <1>1, <1>2, <1>3, <3>1
  <2> QED BY <1>4, <1>5, <2>1, CalmStep DEF Next
<1>7. ASSUME NEW w \in Schedulers, SaveJob(w), NEW new, made' = made \cup {new},
             new.s = pass[w].item.s, new.due = pass[w].item.row.next
      PROVE  Ok(new)
  <2>1. PICK i : i = pass[w].item
    OBVIOUS
  <2>2. /\ i.s \in Schedules /\ rows[i.s] # None /\ i.row.next = rows[i.s].next
        /\ i.row.next \in Nat /\ i.row.next <= now /\ patch.at # "write"
        /\ pass'[w].at = "advance" /\ pass'[w].item = i
    BY <1>7, <2>1, SavedIsNew
  <2>3. rows' = rows /\ patch' = patch /\ now' = now
    BY <1>7 DEF SaveJob
  <2>4. Past(new)'
    BY <1>7, <2>1, <2>2, <2>3 DEF Past
  <2> QED BY <1>7, <2>1, <2>2, <2>3, <2>4
<1>8. ASSUME NEW m \in made'
      PROVE  Ok(m)
  <2>1. CASE made' = made
    BY <1>6, <2>1
  <2>2. ASSUME NEW w \in Schedulers, SaveJob(w)
        PROVE  Ok(m)
    <3>1. PICK new : /\ made' = made \cup {new}
                     /\ new.s = pass[w].item.s /\ new.due = pass[w].item.row.next
      BY <2>2, SavedIsNew
    <3>2. Ok(new)
      BY <1>7, <2>2, <3>1
    <3> QED BY <1>6, <3>1, <3>2
  <2> QED BY <2>1, <2>2, OnlySaveMakes
<1> QED BY <1>8 DEF Behind

-----------------------------------------------------------------------------
(* Theorems *)

\* No pass and no occurrence at first.
LEMMA ScheduleStart == Init => ScheduleInv
<1> SUFFICES ASSUME Init PROVE ScheduleInv
  OBVIOUS
<1>1. TypeOK
  BY ScheduleAssumption DEF Init, TypeOK, Passes, Patches
<1>2. \A w \in Schedulers : pass[w].at = "idle"
  BY DEF Init
<1>3. Held /\ Accepted
  BY <1>2 DEF Init, Held, Accepted, Running
<1>4. Quiet
  BY <1>2 DEF Init, Quiet, Alone, Fresh, Behind, Distinct, Running
<1> QED BY <1>1, <1>3, <1>4 DEF ScheduleInv

\* Every step keeps the invariant of the schedules.
LEMMA ScheduleStep ==
    ASSUME ScheduleInv, [Next]_vars
    PROVE  ScheduleInv'
<1>1. TypeOK /\ Held /\ Accepted /\ (Calm => Quiet)
  BY DEF ScheduleInv
<1>2. TypeOK' /\ Held' /\ Accepted'
  BY <1>1, TypeStep, HeldStep, AcceptedStep
<1>3. ASSUME Calm' PROVE Quiet'
  <2>1. Calm /\ Quiet
    BY <1>1, <1>3, CalmStep
  <2>2. Alone' /\ Fresh'
    BY <1>1, <1>3, <2>1, AloneStep, FreshStep DEF Quiet
  <2>3. Behind'
    BY <1>1, <1>3, <2>1, BehindStep
  <2>4. Distinct'
    BY <1>1, <1>3, <2>1, DistinctStep
  <2> QED BY <2>2, <2>3, <2>4 DEF Quiet
<1> QED BY <1>2, <1>3 DEF ScheduleInv

\* The inductive invariant holds of every behaviour: types, schedules that
\* stay, accepted limits, and the order of jobs and runs while nothing meets.
THEOREM ScheduleInvariant == Spec => []ScheduleInv
<1>1. Init => ScheduleInv
  BY ScheduleStart
<1>2. ScheduleInv /\ [Next]_vars => ScheduleInv'
  BY ScheduleStep
<1> QED BY <1>1, <1>2, PTL DEF Spec

\* Rows, passes and the patch in flight keep the shape of the tables and of
\* _materialize_due_schedules' locals.
THEOREM ScheduleTyped == Spec => []TypeOK
<1>1. ScheduleInv => TypeOK
  BY DEF ScheduleInv
<1> QED BY <1>1, ScheduleInvariant, PTL

\* Every job a schedule makes is within the ceiling its pass read, for any
\* policies, reloads and unchecked patches (effective_for in a pass).
THEOREM MadeWithin == Spec => []MadeWithinCeiling
<1>1. ScheduleInv => MadeWithinCeiling
  BY DEF ScheduleInv, Accepted, Under, MadeWithinCeiling
<1> QED BY <1>1, ScheduleInvariant, PTL

\* While passes, patches and crashes do not meet, an occurrence becomes at
\* most one job (save_job, then update_schedule_after_materialize).
THEOREM OccursOnce == Spec => []OncePerOccurrence
<1>1. ScheduleInv => OncePerOccurrence
  BY DEF ScheduleInv, Quiet, Distinct, OncePerOccurrence
<1> QED BY <1>1, ScheduleInvariant, PTL

=============================================================================
