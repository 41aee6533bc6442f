---------------------------- MODULE ClientsProofs ----------------------------
(***************************************************************************)
(* Proofs about the three modules of clients, for any number of them: the  *)
(* websocket clients of a managed service while it is replaced             *)
(* (ServiceRollout), a client of the directory (DirectoryClients) and the  *)
(* followers of a run (RunEvents).  The three share no state: each part    *)
(* stands by itself.                                                       *)
(***************************************************************************)
EXTENDS ServiceRollout, DirectoryClients, RunEvents, FiniteSetTheorems, SequenceTheorems, TLAPS

-----------------------------------------------------------------------------
(* Clients of a managed service: for any number of versions, start requests  *)
(* and clients, what the drain registry knows of the relays (RelayInv) and   *)
(* what a rollout leaves behind (RolloutInv).                                *)

(***************************************************************************)
(* Types                                                                   *)
(***************************************************************************)

\* None is no service: it stands for a null column.
LEMMA NoneIsNoService == None \notin Services /\ None \notin Versions
  BY RolloutConstants DEF None, Services, Versions

\* One step, whoever takes it, keeps every table and task well typed.
LEMMA TypeStep == TypeOK /\ [Next]_vars => TypeOK'
<1> SUFFICES ASSUME TypeOK, [Next]_vars PROVE TypeOK'
  OBVIOUS
<1> USE DEF TypeOK
<1>1. ASSUME NEW s \in Services, DrainStep(s) \/ RetireFails(s) PROVE TypeOK'
  BY <1>1 DEF DrainStep, ForceDrain, CloseRelays, StopReplaced, Retire, RetireFails, Forget,
     Cleared, requests, relays, operators, registry
<1>2. ASSUME NEW n \in Services, StartStep(n) PROVE TypeOK'
  <2>1. CASE RequestStart(n) \/ Launch(n) \/ LaunchFails(n)
    BY <2>1 DEF RequestStart, Launch, LaunchFails, Goto, Stages, relays, operators, registry
  <2>2. CASE ProbeCandidate(n) \/ RecordProbe(n) \/ Discard(n)
    BY <2>2 DEF ProbeCandidate, RecordProbe, Discard, Goto, StatusAfter, Stages, relays,
       operators, registry
  <2>3. CASE Promote(n)
    BY <2>3 DEF Promote, Goto, AfterDraining, Stages, relays, operators
  <2> QED
    BY <1>2, <2>1, <2>2, <2>3 DEF StartStep
<1>3. ASSUME NEW c \in Clients, RelayStep(c) PROVE TypeOK'
  BY <1>3 DEF RelayStep, Connect, Close, Unregister, AfterLeaving, requests, operators, registry
<1>4. CASE OperatorStep
  <2>1. ASSUME NEW s \in Services, BeginCheck(s) \/ StopById(s) PROVE TypeOK'
    BY <2>1 DEF BeginCheck, StopById, requests, registry, relays
  <2>2. CASE CheckAnswers \/ RecordCheck \/ ProxyAnswered
    BY <2>2 DEF CheckAnswers, RecordCheck, ProxyAnswered, StatusAfter, NoCheck, requests, registry, relays
  <2>3. ASSUME NEW v \in Versions, BeginStop(v) PROVE TypeOK'
    BY <2>3 DEF BeginStop, requests, registry, relays
  <2>4. CASE StopRuntime \/ StopRow \/ StopPointer
    BY <2>4 DEF StopRuntime, StopRow, StopPointer, NoStop, requests, registry, relays
  <2> QED
    BY <1>4, <2>1, <2>2, <2>3, <2>4 DEF OperatorStep
<1>5. CASE UNCHANGED vars
  BY <1>5 DEF vars
<1> QED
  BY <1>1, <1>2, <1>3, <1>4, <1>5 DEF Next

\* Initially no version has a service and nobody is connected.
LEMMA TypeInit == Init => TypeOK
  BY RolloutConstants DEF Init, TypeOK, NoCheck, NoStop, Versions, Services, Stages, None

\* The records, service rows, registry entries and requests stay well typed
\* under every handler, task and thread.
THEOREM RolloutTypeCorrect == Spec => []TypeOK
  BY TypeInit, TypeStep, PTL DEF Spec

(***************************************************************************)
(* What the registry knows of the relays                                   *)
(***************************************************************************)

\* Every open socket is registered with its service, and every registered
\* relay is one that has still to unregister from that service.
Registered ==
    /\ \A c \in open : at[c] # None /\ c \in conns[at[c]]
    /\ \A s \in Services : \A c \in conns[s] : at[c] = s

RelayInv ==
    /\ Registered
    /\ RetireSparesClients
    /\ \A s \in Services : drain[s] = "draining" => conns[s] # {}

\* The variables RelayInv is about.
relayVars == <<conns, drain, at, open>>

\* Steps that touch neither sockets nor registry do not matter.
LEMMA RelayStable == RelayInv /\ UNCHANGED relayVars => RelayInv'
  BY DEF RelayInv, Registered, RetireSparesClients, relayVars

\* The registry's tasks: sockets are closed before the runtime is stopped,
\* and what is forgotten is registered with nobody who is open.
LEMMA RelayDrain ==
    ASSUME TypeOK, RelayInv, NEW s \in Services, DrainStep(s) \/ RetireFails(s)
    PROVE  RelayInv'
<1> USE NoneIsNoService DEF TypeOK, RelayInv, Registered, RetireSparesClients
<1>1. CASE ForceDrain(s)
  BY <1>1 DEF ForceDrain, relays
<1>2. CASE CloseRelays(s)
  BY <1>2 DEF CloseRelays
<1>3. CASE StopReplaced(s)
  BY <1>3 DEF StopReplaced, relays
<1>4. CASE Retire(s) \/ RetireFails(s)
  BY <1>4 DEF Retire, RetireFails, Forget, relays
<1> QED
  BY <1>1, <1>2, <1>3, <1>4 DEF DrainStep

\* Clients: a draining service takes no new relay, and the last one to leave
\* is the one that starts the retirement.
LEMMA RelayClient ==
    ASSUME TypeOK, RelayInv, NEW c \in Clients, RelayStep(c)
    PROVE  RelayInv'
<1> USE NoneIsNoService DEF TypeOK, RelayInv, Registered, RetireSparesClients
<1>1. ASSUME NEW s \in Services, Connect(c, s) PROVE RelayInv'
  BY <1>1 DEF Connect, TakesRelay
<1>2. CASE Close(c)
  BY <1>2 DEF Close, registry
<1>3. CASE Unregister(c)
  BY <1>3 DEF Unregister, AfterLeaving
<1> QED
  BY <1>1, <1>2, <1>3 DEF RelayStep

\* A promotion drains a service at once only when no relay is registered.
LEMMA RelayPromote ==
    ASSUME TypeOK, RelayInv, NEW n \in Services, Promote(n)
    PROVE  RelayInv'
  BY NoneIsNoService DEF TypeOK, RelayInv, Registered, RetireSparesClients, Promote,
     AfterDraining, relays

\* One step keeps what the registry knows of the relays.
LEMMA RelayNext == TypeOK /\ RelayInv /\ [Next]_vars => RelayInv'
<1> SUFFICES ASSUME TypeOK, RelayInv, [Next]_vars PROVE RelayInv'
  OBVIOUS
<1>1. ASSUME NEW n \in Services, StartStep(n), ~Promote(n) PROVE UNCHANGED relayVars
  BY <1>1 DEF StartStep, RequestStart, Launch, LaunchFails, ProbeCandidate, RecordProbe, Discard,
     registry, relays, relayVars
<1>2. ASSUME OperatorStep PROVE UNCHANGED relayVars
  BY <1>2 DEF OperatorStep, BeginCheck, StopById, CheckAnswers, RecordCheck, ProxyAnswered,
     BeginStop, StopRuntime, StopRow, StopPointer, registry, relays, relayVars
<1>3. ASSUME UNCHANGED vars PROVE UNCHANGED relayVars
  BY <1>3 DEF vars, relayVars
<1> QED
  BY <1>1, <1>2, <1>3, RelayStable, RelayDrain, RelayClient, RelayPromote DEF Next

\* In every reachable state the registry and the sockets agree.
LEMMA RelayInvariance == Spec => []RelayInv
<1>1. Init => RelayInv
  BY DEF Init, RelayInv, Registered, RetireSparesClients
<1> QED
  BY <1>1, TypeInit, TypeStep, RelayNext, PTL DEF Spec

\* A replaced runtime is stopped by the registry only when no client has an
\* open socket to it.
THEOREM ClientsSpared == Spec => []RetireSparesClients
<1>1. RelayInv => RetireSparesClients
  BY DEF RelayInv
<1> QED
  BY <1>1, RelayInvariance, PTL

\* A waiting drain always has a registered relay whose departure ends it.
THEOREM DrainsAwaitSomebody == Spec => []DrainAwaitsClients
<1>1. RelayInv => DrainAwaitsClients
  BY DEF RelayInv, Registered, DrainAwaitsClients
<1> QED
  BY <1>1, RelayInvariance, PTL

(***************************************************************************)
(* What a rollout leaves behind                                            *)
(***************************************************************************)

\* No operator has stopped a service and nothing has failed.
Calm == stops = 0 /\ failures = 0

\* Only services that were promoted are pointed at, replaced, drained
\* or stopped.
OnlyStarted ==
    /\ \A v \in Versions : active[v] # None => start[active[v]] = "started"
    /\ \A n \in Services : prev[n] # None => start[prev[n]] = "started"
    /\ \A s \in Services : drain[s] # "none" => start[s] = "started"
    /\ stop.service # None => start[stop.service] = "started"

\* A service has a row, and can be probed, once it is launched.
Launched ==
    /\ \A n \in Services : start[n] \in {"new", "launching"} => row[n] = "absent"
    /\ check.service # None => start[check.service] \notin {"new", "launching"}
    /\ check.saw # "nothing" => check.service # None

\* In calm times a candidate is up, one about to be promoted is ready, no stop
\* is in flight and a probe misses only a runtime that is gone.
CandidatesReady ==
    Calm =>
        /\ \A n \in Services : start[n] \in {"probing", "healthy", "promoting"} => n \in up
        /\ \A n \in Services : start[n] = "promoting" => row[n] = "running"
        /\ check.saw = "unhealthy" => check.service \notin up
        /\ stop = NoStop

\* Service n is current: promoted, pointed at, ready, up and not being drained.
Current(n) ==
    /\ start[n] = "started"
    /\ active[version[n]] = n
    /\ row[n] = "running"
    /\ drain[n] = "none"
    /\ n \in up

\* In calm times, once a service was started there is a current one.
HasCurrent ==
    Calm /\ (\E n \in Services : start[n] = "started") => \E n \in Services : Current(n)

RolloutInv == OnlyStarted /\ Launched /\ CandidatesReady /\ HasCurrent

\* A fresh deployment.
LEMMA RolloutInit == Init => RolloutInv
  BY NoneIsNoService DEF Init, RolloutInv, OnlyStarted, Launched, CandidatesReady, HasCurrent,
     NoCheck, NoStop, Calm

\* Steps that leave the rollout's state alone do not matter.
LEMMA RolloutStable ==
    RolloutInv /\ UNCHANGED <<active, row, up, start, version, prev, drain, check, stop, stops, failures>>
        => RolloutInv'
  BY DEF RolloutInv, OnlyStarted, Launched, CandidatesReady, HasCurrent, Current, Calm

\* Retiring a service takes neither the pointer nor the runtime of another.
LEMMA RolloutDrain ==
    ASSUME TypeOK, RolloutInv, NEW s \in Services, DrainStep(s) \/ RetireFails(s)
    PROVE  RolloutInv'
<1> USE NoneIsNoService DEF TypeOK, RolloutInv, OnlyStarted, Launched, CandidatesReady, Calm
<1>1. CASE ForceDrain(s) \/ CloseRelays(s)
  BY <1>1 DEF ForceDrain, CloseRelays, HasCurrent, Current, requests, operators
<1>2. CASE StopReplaced(s)
  BY <1>2 DEF StopReplaced, HasCurrent, Current, requests, operators
<1>3. CASE Retire(s)
  BY <1>3 DEF Retire, Cleared, Forget, HasCurrent, Current, requests, operators
<1>4. CASE RetireFails(s)
  BY <1>4 DEF RetireFails, Forget, HasCurrent, Current, requests, operators
<1> QED
  BY <1>1, <1>2, <1>3, <1>4 DEF DrainStep

\* A promotion makes its own service the current one.
LEMMA RolloutPromote ==
    ASSUME TypeOK, RolloutInv, NEW n \in Services, Promote(n)
    PROVE  RolloutInv'
<1> USE NoneIsNoService DEF TypeOK, RolloutInv, OnlyStarted, Launched, CandidatesReady, Calm,
        Promote, Goto, AfterDraining, operators, relays
<1>1. OnlyStarted' /\ Launched' /\ CandidatesReady'
  OBVIOUS
<1>2. HasCurrent'
  <2> SUFFICES ASSUME Calm PROVE Current(n)'
    BY DEF HasCurrent
  <2> QED
    BY DEF Current
<1> QED
  BY <1>1, <1>2

\* The other steps of a start touch only their own candidate.
LEMMA RolloutStart ==
    ASSUME TypeOK, RolloutInv, NEW n \in Services, StartStep(n), ~Promote(n)
    PROVE  RolloutInv'
<1> USE NoneIsNoService DEF TypeOK, RolloutInv, OnlyStarted, Launched, CandidatesReady, Calm,
        HasCurrent, Current, Goto, registry, relays, operators
<1>1. CASE RequestStart(n)
  BY <1>1 DEF RequestStart, LastKnownGood, ReadyVersions
<1>2. CASE Launch(n)
  BY <1>2 DEF Launch
<1>3. CASE LaunchFails(n)
  BY <1>3 DEF LaunchFails
<1>4. CASE ProbeCandidate(n)
  BY <1>4 DEF ProbeCandidate
<1>5. CASE RecordProbe(n)
  BY <1>5 DEF RecordProbe, StatusAfter
<1>6. CASE Discard(n)
  BY <1>6 DEF Discard
<1> QED
  BY <1>1, <1>2, <1>3, <1>4, <1>5, <1>6 DEF StartStep

\* Operators: a stop ends the calm, and a probe reports what it saw.
LEMMA RolloutOperator ==
    ASSUME TypeOK, RolloutInv, OperatorStep
    PROVE  RolloutInv'
<1> USE NoneIsNoService DEF TypeOK, RolloutInv, OnlyStarted, Launched, CandidatesReady, Calm,
        HasCurrent, Current, NoStop, requests, registry, relays
<1>1. ASSUME NEW s \in Services, BeginCheck(s) PROVE RolloutInv'
  BY <1>1 DEF BeginCheck, NoCheck
<1>2. ASSUME NEW s \in Services, StopById(s) PROVE RolloutInv'
  BY <1>2 DEF StopById
<1>3. CASE CheckAnswers
  BY <1>3 DEF CheckAnswers
<1>4. CASE RecordCheck \/ ProxyAnswered
  BY <1>4 DEF RecordCheck, ProxyAnswered, StatusAfter, NoCheck
<1>5. ASSUME NEW v \in Versions, BeginStop(v) PROVE RolloutInv'
  BY <1>5 DEF BeginStop
<1>6. CASE StopRuntime
  BY <1>6 DEF StopRuntime
<1>7. CASE StopRow
  BY <1>7 DEF StopRow
<1>8. CASE StopPointer
  BY <1>8 DEF StopPointer
<1> QED
  BY <1>1, <1>2, <1>3, <1>4, <1>5, <1>6, <1>7, <1>8 DEF OperatorStep

\* One step keeps what a rollout leaves behind.
LEMMA RolloutNext == TypeOK /\ RolloutInv /\ [Next]_vars => RolloutInv'
<1> SUFFICES ASSUME TypeOK, RolloutInv, [Next]_vars PROVE RolloutInv'
  OBVIOUS
<1>1. ASSUME NEW c \in Clients, RelayStep(c) PROVE RolloutInv'
  <2>1. CASE ~Unregister(c)
    BY <1>1, <2>1, RolloutStable DEF RelayStep, Connect, Close, Unregister, requests, operators, registry
  <2>2. CASE Unregister(c)
    BY <2>2, NoneIsNoService DEF TypeOK, RolloutInv, OnlyStarted, Launched, CandidatesReady, Calm,
       HasCurrent, Current, Unregister, AfterLeaving, requests, operators
  <2> QED
    BY <2>1, <2>2
<1>2. ASSUME UNCHANGED vars PROVE RolloutInv'
  BY <1>2, RolloutStable DEF vars
<1> QED
  BY <1>1, <1>2, RolloutDrain, RolloutStart, RolloutPromote, RolloutOperator DEF Next

\* While nobody stops a service and nothing fails, an entry that was ever
\* started keeps a ready service through any number of concurrent
\* replacements, drains, rollbacks and late probes.
THEOREM RolloutKeepsRoute == Spec => []AlwaysRoutable
<1>1. TypeOK /\ RolloutInv => AlwaysRoutable
  BY NoneIsNoService DEF TypeOK, RolloutInv, HasCurrent, Current, Calm, AlwaysRoutable, ReadyVersions, Ready
<1> QED
  BY <1>1, TypeInit, TypeStep, RolloutInit, RolloutNext, PTL DEF Spec

-----------------------------------------------------------------------------
(* Numbers in ascending order.                                               *)

\* Every number is above those before it.
Rising(s) == \A i, j \in DOMAIN s : i < j => s[i] < s[j]

\* The numbers of a finite set can be put in ascending order: the place of a
\* number is how many are not above it.
LEMMA AscendingExists ==
    ASSUME NEW S \in SUBSET Nat, IsFiniteSet(S)
    PROVE  \E s \in [1..Cardinality(S) -> S] : Rising(s)
<1> DEFINE N == Cardinality(S)
           low(m) == {k \in S : k <= m}
           rank == [m \in S |-> Cardinality(low(m))]
<1>0. N \in Nat /\ \A m \in S : m \in Nat
  BY FS_CardinalityType
<1>1. ASSUME NEW m \in S PROVE IsFiniteSet(low(m)) /\ rank[m] \in 1..N
  <2>1. low(m) \in SUBSET S /\ m \in low(m)
    OBVIOUS
  <2>2. IsFiniteSet(low(m)) /\ Cardinality(low(m)) <= N
    BY <2>1, FS_Subset
  <2>3. Cardinality(low(m)) \in Nat /\ Cardinality(low(m)) # 0
    BY <2>1, <2>2, FS_CardinalityType, FS_EmptySet
  <2> QED
    BY <1>0, <2>2, <2>3
<1>2. ASSUME NEW m \in S, NEW k \in S, m < k PROVE rank[m] < rank[k]
  <2>0. m \in Nat /\ k \in Nat /\ \A x \in S : x \in Nat
    BY <1>0
  <2>1. low(m) \in SUBSET low(k) /\ k \in low(k) /\ k \notin low(m)
    <3>1. \A x \in Nat : x <= m => x <= k
      BY <2>0, <1>2
    <3>2. k <= k /\ ~ (k <= m)
      BY <2>0, <1>2
    <3> QED
      BY <2>0, <3>1, <3>2
  <2>2. Cardinality(low(m)) <= Cardinality(low(k)) /\ Cardinality(low(m)) # Cardinality(low(k))
    BY <1>1, <2>1, FS_Subset
  <2> QED
    BY <1>1, <2>2
<1> HIDE DEF rank, low
<1>3. rank \in [S -> 1..N]
  BY <1>1 DEF rank
<1>4. rank \in Injection(S, 1..N)
  <2>1. \A m, k \in S : rank[m] = rank[k] => m = k
    BY <1>2, <1>3
  <2> QED
    BY <1>3, <2>1 DEF Injection, IsInjective
<1>5. IsFiniteSet(1..N) /\ Cardinality(1..N) = N
  BY <1>0, FS_Interval
<1>6. rank \in Surjection(S, 1..N)
  BY <1>4, <1>5, FS_Injection
<1>7. \A i \in 1..N : \E m \in S : rank[m] = i
  BY <1>6 DEF Surjection
<1> DEFINE s == [i \in 1..N |-> CHOOSE m \in S : rank[m] = i]
<1>8. \A i \in 1..N : s[i] \in S /\ rank[s[i]] = i
  BY <1>7
<1>9. s \in [1..N -> S]
  BY <1>8
<1>10. ASSUME NEW i \in DOMAIN s, NEW j \in DOMAIN s, i < j PROVE s[i] < s[j]
  <2>1. i \in 1..N /\ j \in 1..N
    OBVIOUS
  <2>2. s[i] \in S /\ s[j] \in S /\ rank[s[i]] = i /\ rank[s[j]] = j
    BY <1>8, <2>1
  <2> HIDE DEF s
  <2>3. s[i] # s[j]
    BY <1>10, <2>1, <2>2, <1>0
  <2>4. ASSUME s[j] < s[i] PROVE FALSE
    <3>1. rank[s[j]] < rank[s[i]]
      BY <1>2, <2>2, <2>4
    <3> QED
      BY <1>0, <1>10, <2>1, <2>2, <3>1
  <2>5. s[i] \in Nat /\ s[j] \in Nat
    BY <1>0, <2>2
  <2> QED
    BY <2>3, <2>4, <2>5
<1> QED
  BY <1>9, <1>10 DEF Rising

\* What read_run_event_entries sorts: every number once, ascending.
LEMMA AscendingSorts ==
    ASSUME NEW S \in SUBSET Nat, IsFiniteSet(S)
    PROVE  /\ Ascending(S) \in Seq(Nat)
           /\ Rising(Ascending(S))
           /\ ToSet(Ascending(S)) = S
<1> DEFINE N == Cardinality(S)
           s == Ascending(S)
<1>1. s \in [1..N -> S] /\ Rising(s)
  <2>1. Ascending(S) = CHOOSE t \in [1..N -> S] : Rising(t)
    BY DEF Ascending, Rising
  <2> QED
    BY <2>1, AscendingExists
<1> HIDE DEF s
<1>2. N \in Nat /\ \A m \in S : m \in Nat
  BY FS_CardinalityType
<1> HIDE DEF N
<1>3. ASSUME NEW i \in 1..N, NEW j \in 1..N, s[i] = s[j] PROVE i = j
  <2>1. i \in DOMAIN s /\ j \in DOMAIN s /\ s[i] \in Nat
    BY <1>1, <1>2
  <2>2. ~ (i < j) /\ ~ (j < i)
    BY <1>1, <1>3, <2>1 DEF Rising
  <2> QED
    BY <1>2, <2>2
<1>4. s \in Injection(1..N, S)
  BY <1>1, <1>3 DEF Injection, IsInjective
<1>5. IsFiniteSet(1..N) /\ Cardinality(1..N) = Cardinality(S)
  BY <1>2, FS_Interval DEF N
<1>6. s \in Surjection(1..N, S)
  BY <1>4, <1>5, FS_Injection
<1>7. ToSet(s) = S
  BY <1>1, <1>6 DEF Surjection, ToSet
<1>8. s \in Seq(Nat)
  <2>1. s \in [1..N -> Nat]
    BY <1>1, <1>2
  <2> QED
    BY <1>2, <2>1, SeqDef
<1> QED
  BY <1>1, <1>7, <1>8 DEF s

\* A set of some of finitely many numbers has a least one.
LEMMA LeastExists ==
    ASSUME NEW S \in SUBSET Nat, IsFiniteSet(S), S # {}
    PROVE  \E e \in S : \A d \in S : e <= d
<1> DEFINE s == Ascending(S)
<1>1. s \in Seq(Nat) /\ Rising(s) /\ S = {s[i] : i \in DOMAIN s}
  BY AscendingSorts DEF ToSet
<1> HIDE DEF s
<1>2. DOMAIN s = 1..Len(s) /\ Len(s) \in Nat /\ \A i \in DOMAIN s : s[i] \in Nat
  BY <1>1
<1>3. 1 \in DOMAIN s
  BY <1>1, <1>2
<1>4. ASSUME NEW i \in DOMAIN s PROVE s[1] <= s[i]
  <2>1. s[1] \in Nat /\ s[i] \in Nat /\ i \in Nat /\ (i = 1 \/ 1 < i)
    BY <1>2, <1>3
  <2>2. 1 < i => s[1] < s[i]
    BY <1>1, <1>3 DEF Rising
  <2> QED
    BY <2>1, <2>2
<1> QED
  BY <1>1, <1>3, <1>4

-----------------------------------------------------------------------------
(* A client of the directory: what its requests name (NetInv, CallInv), what *)
(* it shows (ChoiceInv), the version its handle was made for (HandleInv) and *)
(* which run ended the job it waits for (RunsInv, PolledInv).                *)

\* The fields of a request.
RequestFields == {"at", "op", "e", "id", "v", "meant", "goal", "after", "kept", "ok", "data"}

\* A request that says which version its user meant names that version.
Faithful(q) ==
    /\ q.at \in {"sent", "forwarded", "served"}
    /\ DOMAIN q = RequestFields
    /\ q.meant # Null => q.v = q.meant.v

\* A wait for a job: before it reads the job, and with the status it read.
Waits(q) ==
    \/ q = [at |-> "poll"]
    \/ q.at = "polled" /\ q = [at |-> "polled", job |-> q.job]

\* A notebook has one call under way, and only a notebook waits.
NetInv ==
    /\ DOMAIN net = Slots
    /\ \A i \in Slots : net[i] = Free \/ Faithful(net[i]) \/ (OnHandle /\ Waits(net[i]))
    /\ OnHandle => \A i, k \in Slots : net[i] # Free /\ net[k] # Free => i = k

\* A handle runs the version it was made for.
IsHandle(h) ==
    /\ DOMAIN h = {"e", "id", "n", "submitted", "status", "entry"}
    /\ h.submitted = h.n

HandleInv ==
    held # Null => IsHandle(held)

HasHandle == held # Null /\ IsHandle(held)

\* What an answer may replace a handle from.
Transitions == Reviews \cup {"get"}

\* A notebook asks for an entry and its review through a handle.
CallInv ==
    OnHandle =>
        \A i \in Slots :
            /\ net[i].at \in {"sent", "forwarded", "served"}
            /\ net[i].op \in Transitions
            => HasHandle

\* Only a page has a choice of its user's, and its listing holds the entry.
ChoiceInv ==
    /\ tab # "off" => OnPage
    /\ ~ OnPage => chosen = Null
    /\ chosen # Null =>
           /\ chosen.e \in Names
           /\ picked = chosen.e
           /\ Usable(listed[chosen.e])
           /\ listed[chosen.e].id = chosen.id

\* The ends of a job that was not cancelled.
SelfEnds == {"completed", "failed", "timed_out"}

\* The latest run of the job.
LatestMine(r) == runs[r].mine /\ \A s \in DOMAIN runs : runs[s].mine => s <= r

\* A job that ended by itself was ended by its latest attempt.
RunsInv ==
    /\ runs \in Seq([mine : BOOLEAN, status : {"running"} \cup SelfEnds])
    /\ job \in SelfEnds => \E r \in DOMAIN runs : LatestMine(r) /\ runs[r].status = job

\* What a wait read of an ended job still holds.
PolledInv ==
    \A i \in Slots : net[i].at = "polled" /\ net[i].job \in JobEnds => job = net[i].job

\* The launch ran the version of the number that was meant.
VersionMeant ==
    launched # Null /\ launched.meant # Null /\ launched.meant.v # Null =>
        launched.v = launched.meant.v

ClientsInv ==
    NetInv /\ HandleInv /\ ChoiceInv /\ RunsInv /\ PolledInv
    /\ VersionMeant /\ ReportedRunIsFinal

-----------------------------------------------------------------------------

\* Where a slot is tells what it holds.
LEMMA SlotHolds ==
    ASSUME NetInv, NEW i \in Slots
    PROVE  /\ net[i].at \in {"sent", "forwarded", "served"} => Faithful(net[i])
           /\ net[i].at \in {"sent", "forwarded", "served", "poll", "polled"} => net[i] # Free
           /\ net[i].at \in {"poll", "polled"} => OnHandle /\ Waits(net[i])
           /\ net[i] # Free /\ ~ OnHandle => Faithful(net[i])
  BY DEF NetInv, Faithful, Waits, Free

\* What a request becomes on its way.
LEMMA RequestMoves ==
    ASSUME NEW q, Faithful(q), NEW a, NEW b, NEW c \in {"sent", "forwarded", "served"}
    PROVE  /\ Faithful([q EXCEPT !.at = c])
           /\ Faithful([q EXCEPT !.at = c, !.ok = a, !.data = b])
           /\ Faithful([q EXCEPT !.kept = FALSE])
           /\ [q EXCEPT !.kept = FALSE].at = q.at
<1>1. Faithful([q EXCEPT !.at = c])
  BY DEF Faithful, RequestFields
<1>2. Faithful([q EXCEPT !.at = c, !.ok = a, !.data = b])
  BY DEF Faithful, RequestFields
<1>3. Faithful([q EXCEPT !.kept = FALSE]) /\ [q EXCEPT !.kept = FALSE].at = q.at
  BY DEF Faithful, RequestFields
<1> QED
  BY <1>1, <1>2, <1>3

\* What clients ask.
LEMMA RequestsAsked ==
    ASSUME NEW op, NEW e, NEW a, NEW b, NEW c
    PROVE  /\ Faithful(Request(op, e))
           /\ Faithful(Listing)
           /\ Faithful([Request(op, e) EXCEPT !.id = a])
           /\ Faithful([Request(op, e) EXCEPT !.id = a, !.v = b])
           /\ Faithful([Request(op, e) EXCEPT !.v = a, !.meant = [id |-> b, v |-> a]])
           /\ Faithful([Listing EXCEPT !.after = a])
           /\ Faithful([[Request(op, e) EXCEPT !.id = a, !.v = b] EXCEPT !.goal = c])
           /\ Faithful([[Request(op, e) EXCEPT !.id = a, !.v = b] EXCEPT !.meant = [id |-> c, v |-> b]])
<1> DEFINE q == Request(op, e)
<1>1. q.at = "sent" /\ DOMAIN q = RequestFields /\ q.meant = Null
  BY DEF Request, RequestFields
<1>2. Listing.at = "sent" /\ DOMAIN Listing = RequestFields /\ Listing.meant = Null
  BY DEF Request, Listing, RequestFields
<1> HIDE DEF q
<1> USE DEF Faithful, RequestFields
<1>3. Faithful(q) /\ Faithful(Listing) /\ Faithful([q EXCEPT !.id = a])
  BY <1>1, <1>2
<1>4. Faithful([q EXCEPT !.id = a, !.v = b])
  BY <1>1
<1>5. Faithful([q EXCEPT !.v = a, !.meant = [id |-> b, v |-> a]])
  BY <1>1
<1>6. Faithful([Listing EXCEPT !.after = a])
  BY <1>2
<1>7. Faithful([[q EXCEPT !.id = a, !.v = b] EXCEPT !.goal = c])
  BY <1>1
<1>8. Faithful([[q EXCEPT !.id = a, !.v = b] EXCEPT !.meant = [id |-> c, v |-> b]])
  BY <1>1
<1> QED
  BY <1>3, <1>4, <1>5, <1>6, <1>7, <1>8 DEF q

\* One slot changes: it was under way, or nothing was.
LEMMA SlotStep ==
    ASSUME NetInv, UNCHANGED client, NEW i \in Slots, NEW q,
           net' = [net EXCEPT ![i] = q],
           q = Free \/ Faithful(q) \/ (OnHandle /\ Waits(q)),
           OnHandle => net[i] # Free \/ \A k \in Slots : net[k] = Free,
           q.at = "polled" => (q.job \in JobEnds => job' = q.job)
    PROVE  NetInv' /\ PolledInv'
<1>1. net'[i] = q /\ DOMAIN net' = Slots /\ \A k \in Slots \ {i} : net'[k] = net[k]
  BY DEF NetInv
<1>2. OnHandle => \A k \in Slots \ {i} : net[k] = Free
  BY DEF NetInv
<1>3. OnHandle' = OnHandle
  BY DEF OnHandle
<1>4. NetInv'
  <2>1. ASSUME NEW k \in Slots
        PROVE  net'[k] = Free \/ Faithful(net'[k]) \/ (OnHandle /\ Waits(net'[k]))
    BY <1>1 DEF NetInv
  <2>2. ASSUME OnHandle, NEW k \in Slots, NEW m \in Slots, net'[k] # Free, net'[m] # Free
        PROVE  k = m
    BY <1>1, <1>2, <2>2
  <2> QED
    BY <1>1, <1>3, <2>1, <2>2 DEF NetInv, Faithful, Waits, Free
<1>5. ASSUME NEW k \in Slots, net'[k].at = "polled", net'[k].job \in JobEnds
      PROVE  job' = net'[k].job
  <2>1. CASE k = i
    BY <1>1, <1>5, <2>1
  <2>2. CASE k # i
    BY <1>1, <1>2, <1>5, <2>2, SlotHolds DEF Free
  <2> QED
    BY <2>1, <2>2
<1> QED
  BY <1>4, <1>5 DEF PolledInv

\* A request is sent, by a client that has no wait under way.
LEMMA AskStep ==
    ASSUME NetInv, UNCHANGED client, NEW q, Ask(q), Faithful(q),
           OnHandle => \A k \in Slots : net[k] = Free
    PROVE  NetInv' /\ PolledInv'
<1>1. PICK i \in Slots : net' = [net EXCEPT ![i] = q]
  BY DEF Ask
<1>2. q.at # "polled"
  BY DEF Faithful
<1> QED
  BY <1>1, <1>2, SlotStep

\* An answer is taken up, and the request ends or another follows it.
LEMMA ThenStep ==
    ASSUME NetInv, UNCHANGED client, NEW i \in Slots, NEW q, Then(i, q), net[i] # Free,
           q = Free \/ Faithful(q)
    PROVE  NetInv' /\ PolledInv'
<1>1. q.at # "polled"
  BY DEF Faithful, Free
<1> QED
  BY <1>1, SlotStep DEF Then

\* The parts of the invariant a step leaves alone.
LEMMA ChoiceKept ==
    ASSUME ChoiceInv, UNCHANGED <<client, listVars>>, tab' = tab \/ OnPage
    PROVE  ChoiceInv'
  BY DEF ChoiceInv, OnPage, Usable, listVars

\* The launch and its job.
LEMMA JobKept ==
    ASSUME RunsInv, VersionMeant, UNCHANGED jobVars
    PROVE  RunsInv' /\ VersionMeant'
  BY DEF RunsInv, VersionMeant, LatestMine, jobVars

\* The handle and what its wait returned.
LEMMA HandKept ==
    ASSUME HandleInv, ReportedRunIsFinal, UNCHANGED handVars
    PROVE  HandleInv' /\ ReportedRunIsFinal'
  BY DEF HandleInv, IsHandle, ReportedRunIsFinal, handVars

\* The requests in flight.
LEMMA NetKept ==
    ASSUME NetInv, UNCHANGED <<client, net>>, PolledInv,
           job \in JobEnds => UNCHANGED job
    PROVE  NetInv' /\ PolledInv'
  BY DEF NetInv, PolledInv, OnHandle, Faithful, Waits

\* A step that only moves a request.
LEMMA RequestOnly ==
    ASSUME ClientsInv, UNCHANGED <<client, listVars, handVars, jobVars>>, tab' = tab \/ OnPage,
           NetInv' /\ PolledInv'
    PROVE  ClientsInv'
  BY ChoiceKept, JobKept, HandKept DEF ClientsInv

-----------------------------------------------------------------------------

\* The API serves a request.
LEMMA ServeStep ==
    ASSUME ClientsInv, NEW i \in Slots, Serve(i)
    PROVE  ClientsInv'
<1>0. NetInv /\ UNCHANGED client
  BY DEF ClientsInv, Serve, Forward, FailRequest, ServeRead, ServeReview, ServeRemoval,
     ServeSubmit, ServeLaunch, Write
<1>1. net[i].at \in {"sent", "forwarded"}
  BY DEF Serve, Forward, FailRequest, ServeRead, ServeReview, ServeRemoval, ServeSubmit, ServeLaunch
<1>2. Faithful(net[i]) /\ net[i] # Free
  BY <1>0, <1>1, SlotHolds
<1>3. ASSUME NEW a, NEW b, Answer(i, a, b) PROVE NetInv' /\ PolledInv'
  <2>1. Faithful([net[i] EXCEPT !.at = "served", !.ok = a, !.data = b])
    BY <1>2, RequestMoves
  <2> QED
    BY <1>0, <1>2, <1>3, <2>1, ThenStep DEF Answer
<1>4. ASSUME Refuse(i) PROVE NetInv' /\ PolledInv'
  <2>1. Faithful([net[i] EXCEPT !.at = "served"])
    BY <1>2, RequestMoves
  <2> QED
    BY <1>0, <1>2, <1>4, <2>1, ThenStep DEF Refuse
<1>5. CASE Forward(i)
  <2>1. /\ Faithful([net[i] EXCEPT !.at = "served"])
        /\ Faithful([net[i] EXCEPT !.at = "forwarded"])
    BY <1>2, RequestMoves
  <2>2. NetInv' /\ PolledInv'
    BY <1>0, <1>2, <1>5, <2>1, ThenStep DEF Forward
  <2> QED
    BY <1>5, <2>2, RequestOnly DEF Forward, pageVars
<1>6. CASE FailRequest(i)
  <2>1. Faithful([net[i] EXCEPT !.at = "served"])
    BY <1>2, RequestMoves
  <2>2. NetInv' /\ PolledInv'
    BY <1>0, <1>2, <1>6, <2>1, ThenStep DEF FailRequest
  <2> QED
    BY <1>6, <2>2, RequestOnly DEF FailRequest, pageVars
<1>7. CASE ServeRead(i)
  <2>1. NetInv' /\ PolledInv'
    BY <1>3, <1>4, <1>7 DEF ServeRead
  <2> QED
    BY <1>7, <2>1, RequestOnly DEF ServeRead, pageVars
<1>8. ASSUME NEW answered \in BOOLEAN, ServeReview(i, answered) PROVE ClientsInv'
  <2>1. NetInv' /\ PolledInv'
    BY <1>3, <1>4, <1>8 DEF ServeReview, Write
  <2> QED
    BY <1>8, <2>1, RequestOnly DEF ServeReview, Write, pageVars
<1>9. ASSUME NEW answered \in BOOLEAN, ServeRemoval(i, answered) PROVE ClientsInv'
  <2>1. NetInv' /\ PolledInv'
    BY <1>3, <1>4, <1>9 DEF ServeRemoval, Write
  <2> QED
    BY <1>9, <2>1, RequestOnly DEF ServeRemoval, Write, pageVars
<1>10. ASSUME NEW answered \in BOOLEAN, ServeSubmit(i, answered) PROVE ClientsInv'
  <2>1. NetInv' /\ PolledInv'
    BY <1>3, <1>4, <1>10 DEF ServeSubmit, Write
  <2> QED
    BY <1>10, <2>1, RequestOnly DEF ServeSubmit, Write, pageVars
<1>11. ASSUME NEW answered \in BOOLEAN, ServeLaunch(i, answered) PROVE ClientsInv'
  <2>1. NetInv' /\ PolledInv'
    BY <1>3, <1>4, <1>11 DEF ServeLaunch
  <2>2. UNCHANGED <<client, listVars, handVars, tab>>
    BY <1>11 DEF ServeLaunch, pageVars
  <2>3. RunsInv'
    <3>1. CASE UNCHANGED jobVars
      BY <3>1, JobKept DEF ClientsInv
    <3>2. CASE UNCHANGED <<job, runs>>
      BY <3>2 DEF ClientsInv, RunsInv, LatestMine
    <3>3. CASE job' = "queued" /\ runs' = << >>
      BY <3>3 DEF RunsInv, SelfEnds
    <3> QED
      BY <1>11, <3>1, <3>2, <3>3 DEF ServeLaunch
  <2>4. VersionMeant'
    <3> DEFINE q == net[i]
               v == Resolve(q.e, q.v)
    <3>1. CASE launched' = launched
      BY <3>1 DEF ClientsInv, VersionMeant
    <3>2. CASE v # Null /\ launched' = [id |-> dir[q.e].id, v |-> v, meant |-> q.meant]
      <4>1. q.v # Null => v = q.v
        BY <3>2 DEF Resolve
      <4>2. q.meant # Null => q.v = q.meant.v
        BY <1>2 DEF Faithful
      <4>3. launched'.v = v /\ launched'.meant = q.meant
        BY <3>2
      <4>4. v # Null
        BY <3>2
      <4> HIDE DEF v, q
      <4> QED
        BY <4>1, <4>2, <4>3, <4>4 DEF VersionMeant
    <3> QED
      BY <1>11, <3>1, <3>2 DEF ServeLaunch, jobVars
  <2> QED
    BY <2>1, <2>2, <2>3, <2>4, ChoiceKept, HandKept DEF ClientsInv
<1> QED
  BY <1>5, <1>6, <1>7, <1>8, <1>9, <1>10, <1>11 DEF Serve

-----------------------------------------------------------------------------

\* The page, logged in or not, asks and hears.
LEMMA PageAskStep ==
    ASSUME ClientsInv, NEW q, PageAsks(q), Faithful(q)
    PROVE  ClientsInv'
<1>1. UNCHANGED <<client, listVars, handVars, jobVars, tab>> /\ Ask(q) /\ tab = "ready"
  BY DEF PageAsks, pageVars
<1>2. ~ OnHandle
  BY <1>1 DEF ClientsInv, ChoiceInv, OnPage, OnHandle
<1>3. NetInv' /\ PolledInv'
  BY <1>1, <1>2, AskStep DEF ClientsInv
<1> QED
  BY <1>1, <1>3, RequestOnly

\* Everything the page asks.
LEMMA PageAsking ==
    ASSUME ClientsInv, PageRefreshes \/ LoadEntry \/ PageReviews \/ SubmitBundle \/ PageLaunches
    PROVE  ClientsInv'
<1>1. CASE PageRefreshes
  BY <1>1, RequestsAsked, PageAskStep DEF PageRefreshes
<1>2. CASE LoadEntry \/ PageReviews
  <2>1. PICK op, e, r : PageAsks(ById(op, e, r))
    BY <1>2 DEF LoadEntry, PageReviews
  <2>2. Faithful(ById(op, e, r))
    BY RequestsAsked DEF ById
  <2> QED
    BY <2>1, <2>2, PageAskStep
<1>3. CASE SubmitBundle \/ PageLaunches
  <2>1. PICK op, e : PageAsks(Request(op, e))
    BY <1>3 DEF SubmitBundle, PageLaunches
  <2>2. Faithful(Request(op, e))
    BY RequestsAsked
  <2> QED
    BY <2>1, <2>2, PageAskStep
<1> QED
  BY <1>1, <1>2, <1>3

\* Login, session and logout.
LEMMA SessionStep ==
    ASSUME ClientsInv,
           OpenPage \/ LoginFails \/ OAuthCallback \/ InitPage \/ SessionEnds \/ Logout
    PROVE  ClientsInv'
<1>1. CASE OpenPage \/ LoginFails \/ OAuthCallback \/ SessionEnds
  <2>1. UNCHANGED <<client, listVars, handVars, jobVars, net>>
    BY <1>1 DEF OpenPage, LoginFails, OAuthCallback, SessionEnds
  <2>2. tab' = tab \/ OnPage
    BY <1>1 DEF OpenPage, LoginFails, OAuthCallback, SessionEnds, ClientsInv, ChoiceInv
  <2>3. NetInv' /\ PolledInv'
    BY <2>1, NetKept DEF ClientsInv, jobVars
  <2> QED
    BY <2>1, <2>2, <2>3, RequestOnly
<1>2. CASE InitPage
  <2>1. UNCHANGED <<client, listVars, handVars, jobVars>> /\ tab = "boot"
    BY <1>2 DEF InitPage
  <2>2. OnPage /\ ~ OnHandle
    BY <2>1 DEF ClientsInv, ChoiceInv, OnPage, OnHandle
  <2>3. NetInv' /\ PolledInv'
    <3>1. CASE UNCHANGED net
      BY <2>1, <3>1, NetKept DEF ClientsInv, jobVars
    <3>2. CASE \E i \in Slots : Then(i, Listing)
      <4>1. Faithful(Listing) /\ Listing.at # "polled"
        BY RequestsAsked DEF Faithful
      <4> QED
        BY <2>1, <2>2, <3>2, <4>1, SlotStep DEF ClientsInv, Then
    <3> QED
      BY <1>2, <3>1, <3>2 DEF InitPage
  <2> QED
    BY <2>1, <2>2, <2>3, RequestOnly
<1>3. CASE Logout
  <2>1. /\ UNCHANGED <<client, handVars, jobVars>> /\ tab = "ready" /\ tab' = "off"
        /\ chosen' = Null
        /\ net' = [i \in Slots |-> IF net[i] = Free THEN Free ELSE [net[i] EXCEPT !.kept = FALSE]]
    BY <1>3 DEF Logout
  <2>2. OnPage /\ ~ OnHandle /\ ~ OnHandle'
    BY <2>1 DEF ClientsInv, ChoiceInv, OnPage, OnHandle
  <2>3. ChoiceInv'
    BY <2>1 DEF ChoiceInv
  <2>4. ASSUME NEW i \in Slots PROVE net'[i] = Free \/ Faithful(net'[i])
    <3>1. CASE net[i] = Free
      BY <2>1, <3>1
    <3>2. CASE net[i] # Free
      <4>1. Faithful(net[i])
        BY <2>2, <3>2, SlotHolds DEF ClientsInv
      <4> QED
        BY <2>1, <3>2, <4>1, RequestMoves
    <3> QED
      BY <3>1, <3>2
  <2>5. NetInv'
    BY <2>1, <2>2, <2>4 DEF NetInv, Faithful, Free
  <2>6. PolledInv'
    BY <2>4 DEF PolledInv, Faithful, Free
  <2> QED
    BY <2>1, <2>3, <2>5, <2>6, JobKept, HandKept DEF ClientsInv
<1> QED
  BY <1>1, <1>2, <1>3

\* A listing leaves the user's choice selected while it holds the entry.
LEMMA RenderKeepsChoice ==
    ASSUME ChoiceInv, OnPage, NEW new, RenderLists(new), UNCHANGED <<client, tab>>
    PROVE  ChoiceInv'
<1>1. OnPage'
  BY DEF OnPage
<1>2. ASSUME chosen' # Null
      PROVE  /\ chosen'.e \in Names
             /\ picked' = chosen'.e
             /\ Usable(listed'[chosen'.e])
             /\ listed'[chosen'.e].id = chosen'.id
  <2>1. /\ chosen # Null /\ chosen' = chosen /\ listed' = new
        /\ Usable(new[chosen.e]) /\ new[chosen.e].id = chosen.id
    BY <1>2 DEF RenderLists
  <2>2. /\ chosen.e \in Names /\ picked = chosen.e /\ listed[chosen.e].id = chosen.id
    BY <2>1 DEF ChoiceInv
  <2>3. picked # Null
    BY <2>2, ClientsAssumption DEF Names
  <2>4. picked' = picked
    BY <2>1, <2>2, <2>3 DEF RenderLists, Selection
  <2> QED
    BY <2>1, <2>2, <2>4
<1> QED
  BY <1>1, <1>2 DEF ChoiceInv, Usable

\* What the page makes of an answer.
LEMMA PageHearing ==
    ASSUME ClientsInv, OnPage, NEW i \in Slots,
           PageLists(i) \/ PageShows(i) \/ PageReviewed(i) \/ PageDeleted(i)
               \/ PageLaunched(i) \/ PageErrs(i) \/ Unheard(i)
    PROVE  ClientsInv'
<1>1. /\ UNCHANGED <<client, tab, handVars, jobVars>> /\ NetInv /\ net[i].at = "served"
  BY DEF PageLists, PageShows, PageReviewed, PageDeleted, PageLaunched, PageErrs, Unheard,
     PageHears, pageVars, ClientsInv
<1>2. net[i] # Free
  BY <1>1, SlotHolds
<1>3. \E q : Then(i, q) /\ (q = Free \/ Faithful(q))
  <2>1. Faithful(Listing) /\ \A a : Faithful([Listing EXCEPT !.after = a])
    BY RequestsAsked
  <2> QED
    BY <2>1 DEF PageLists, PageShows, PageReviewed, PageDeleted, PageLaunched, PageErrs, Unheard, Done
<1>4. NetInv' /\ PolledInv'
  BY <1>1, <1>2, <1>3, ThenStep
<1>5. CASE UNCHANGED listVars
  BY <1>1, <1>4, <1>5, RequestOnly
<1>6. CASE \E new : RenderLists(new)
  BY <1>1, <1>4, <1>6, RenderKeepsChoice, JobKept, HandKept DEF ClientsInv
<1> QED
  BY <1>5, <1>6 DEF PageLists, PageShows, PageReviewed, PageDeleted, PageLaunched, PageErrs, Unheard

\* The user chooses.
LEMMA ChooseStep ==
    ASSUME ClientsInv, PageChooses
    PROVE  ClientsInv'
<1>1. UNCHANGED <<client, tab, net, listed, handVars, jobVars>> /\ tab = "ready"
  BY DEF PageChooses, pageVars
<1>2. OnPage /\ OnPage'
  BY <1>1 DEF ClientsInv, ChoiceInv, OnPage
<1>3. PICK e, r :
         /\ e \in Names
         /\ picked' = IF Usable(listed[e]) /\ listed[e].id = r.id THEN e ELSE Null
         /\ chosen' = IF picked' = e THEN [e |-> e, id |-> r.id] ELSE Null
  BY DEF PageChooses
<1>4. e # Null
  BY <1>3, ClientsAssumption DEF Names
<1>5. ChoiceInv'
  BY <1>1, <1>2, <1>3, <1>4 DEF ChoiceInv, Usable
<1>6. NetInv' /\ PolledInv'
  BY <1>1, NetKept DEF ClientsInv, jobVars
<1> QED
  BY <1>1, <1>5, <1>6, JobKept, HandKept DEF ClientsInv

\* The page.
LEMMA PageStep ==
    ASSUME ClientsInv, PageNext
    PROVE  ClientsInv'
  BY PageAsking, SessionStep, PageHearing, ChooseStep DEF PageNext

-----------------------------------------------------------------------------

\* The picker.
LEMMA PickerStep ==
    ASSUME ClientsInv, PickerNext
    PROVE  ClientsInv'
<1>1. /\ OnPicker /\ UNCHANGED <<client, tab, handVars, jobVars, chosen>>
      /\ ~ OnHandle /\ ~ OnPage /\ ~ OnPage'
  BY DEF PickerNext, PickerLoads, PickerSelects, PickerRuns, PickerUsesService, PickerProxies,
     PickerLaunches, PickerHears, OnPicker, OnHandle, OnPage, pageVars, listVars
<1>2. ChoiceInv'
  BY <1>1 DEF ClientsInv, ChoiceInv
<1>3. NetInv' /\ PolledInv'
  <2>1. CASE PickerLoads
    BY <1>1, <2>1, AskStep, RequestsAsked DEF PickerLoads, ClientsInv
  <2>2. CASE PickerSelects
    BY <1>1, <2>2, NetKept DEF PickerSelects, ClientsInv, jobVars
  <2>3. CASE PickerRuns \/ PickerUsesService \/ PickerProxies
    <3>1. PICK op : PickerLaunches(op)
      BY <2>3 DEF PickerRuns, PickerUsesService, PickerProxies
    <3>2. PICK e, d, a : Ask([Request(op, e) EXCEPT !.v = a, !.meant = [id |-> d, v |-> a]])
      BY <3>1 DEF PickerLaunches, LaunchVersion
    <3>3. Faithful([Request(op, e) EXCEPT !.v = a, !.meant = [id |-> d, v |-> a]])
      BY RequestsAsked
    <3> QED
      BY <1>1, <3>2, <3>3, AskStep DEF ClientsInv
  <2>4. CASE \E i \in Slots : net[i] # Free /\ PickerHears(i)
    BY <1>1, <2>4, ThenStep DEF PickerHears, Done, ClientsInv
  <2> QED
    BY <2>1, <2>2, <2>3, <2>4 DEF PickerNext
<1> QED
  BY <1>1, <1>2, <1>3, JobKept, HandKept DEF ClientsInv

-----------------------------------------------------------------------------

\* The notebook's calls.
LEMMA CallStep ==
    ASSUME ClientsInv, NEW q, Call(q), Faithful(q)
    PROVE  ClientsInv'
<1>1. UNCHANGED <<client, listVars, handVars, jobVars, tab>> /\ Ask(q)
      /\ \A i \in Slots : net[i] = Free
  BY DEF Call, pageVars
<1>2. NetInv' /\ PolledInv'
  BY <1>1, AskStep DEF ClientsInv
<1> QED
  BY <1>1, <1>2, RequestOnly

\* Every call names the version the handle was made for.
LEMMA HandleCalls ==
    ASSUME ClientsInv,
           HandleSubmits \/ HandleRefreshes \/ HandleValidates \/ HandleReviews \/ HandleWaits
               \/ HandleRuns \/ HandleUsesService \/ RunDeclared
    PROVE  ClientsInv'
<1>1. CASE HandleSubmits \/ RunDeclared
  <2>1. PICK op, e : Call(Request(op, e))
    BY <1>1 DEF HandleSubmits, RunDeclared
  <2> QED
    BY <2>1, RequestsAsked, CallStep
<1>2. CASE HandleRefreshes \/ HandleValidates \/ HandleReviews
  <2>1. PICK op : Call(Mine(op))
    BY <1>2 DEF HandleRefreshes, HandleValidates, HandleReviews
  <2>2. Faithful(Mine(op))
    BY RequestsAsked DEF Mine
  <2> QED
    BY <2>1, <2>2, CallStep
<1>3. CASE HandleWaits
  <2>1. PICK goal : Call([Mine("get") EXCEPT !.goal = goal])
    BY <1>3 DEF HandleWaits
  <2>2. Faithful([Mine("get") EXCEPT !.goal = goal])
    BY RequestsAsked DEF Mine
  <2> QED
    BY <2>1, <2>2, CallStep
<1>4. CASE HandleRuns \/ HandleUsesService
  <2>1. PICK op : held # Null /\ Call([Mine(op) EXCEPT !.meant = [id |-> held.id, v |-> held.submitted]])
    BY <1>4 DEF HandleRuns, HandleUsesService, HandleLaunches
  <2>2. held.submitted = held.n
    BY <2>1 DEF ClientsInv, HandleInv, IsHandle
  <2>3. Faithful([Mine(op) EXCEPT !.meant = [id |-> held.id, v |-> held.submitted]])
    BY <2>2, RequestsAsked DEF Mine
  <2> QED
    BY <2>1, <2>3, CallStep
<1> QED
  BY <1>1, <1>2, <1>3, <1>4

\* A new handle, and one that an answer replaced the status of.
LEMMA NewHandle == \A e, r, n : IsHandle(HandleOn(e, r, n))
  BY DEF IsHandle, HandleOn

\* A handle keeps the version it was made for.
LEMMA ReplacedHandle ==
    ASSUME IsHandle(held), NEW r
    PROVE  IsHandle(ReplaceFrom(r))
  BY DEF IsHandle, ReplaceFrom

\* What the notebook makes of an answer.
LEMMA HandleHearing ==
    ASSUME ClientsInv, CallInv, NEW i \in Slots, HandleHears(i)
    PROVE  ClientsInv'
<1>1. /\ UNCHANGED <<client, listVars, tab, jobVars, reported>>
      /\ NetInv /\ OnHandle /\ net[i].at = "served"
  BY DEF HandleHears, ClientsInv, pageVars
<1>2. Faithful(net[i]) /\ net[i] # Free
  BY <1>1, SlotHolds
<1>3. NetInv' /\ PolledInv'
  <2>1. CASE \E q : Then(i, q) /\ (q = Free \/ Faithful(q))
    BY <1>1, <1>2, <2>1, ThenStep
  <2>2. CASE Then(i, [at |-> "poll"])
    BY <1>1, <1>2, <2>2, SlotStep DEF Then, Waits
  <2>3. Faithful([net[i] EXCEPT !.at = "sent", !.ok = FALSE, !.data = Null])
    BY <1>2, RequestMoves
  <2> QED
    BY <2>1, <2>2, <2>3 DEF HandleHears, HandleRaises, HandleMade, HandleReplaced, WaitsOn,
       HandleLaunched, Done
<1>4. HandleInv'
  <2>1. CASE UNCHANGED held
    BY <2>1 DEF ClientsInv, HandleInv, IsHandle
  <2>2. CASE HandleMade(i)
    BY <2>2, NewHandle DEF HandleMade, HandleInv
  <2>3. CASE HandleReplaced(i)
    <3>1. IsHandle(held) /\ held' = ReplaceFrom(net[i].data)
      BY <1>1, <2>3 DEF HandleReplaced, CallInv, Transitions, HasHandle
    <3> QED
      BY <3>1, ReplacedHandle DEF HandleInv
  <2> QED
    BY <2>1, <2>2, <2>3 DEF HandleHears, HandleRaises, WaitsOn, HandleLaunched
<1>5. ReportedRunIsFinal'
  BY <1>1 DEF ClientsInv, ReportedRunIsFinal
<1> QED
  BY <1>1, <1>3, <1>4, <1>5, ChoiceKept, JobKept DEF ClientsInv

\* A change of one slot keeps CallInv if a transition is asked through a handle.
LEMMA OneCallStep ==
    ASSUME ClientsInv, CallInv, UNCHANGED client, NEW i \in Slots, NEW q,
           net' = [net EXCEPT ![i] = q],
           UNCHANGED held \/ (OnHandle => net[i] # Free),
           OnHandle /\ q.at \in {"sent", "forwarded", "served"} /\ q.op \in Transitions
               => HasHandle /\ UNCHANGED held
    PROVE  CallInv'
<1>1. net'[i] = q /\ \A k \in Slots \ {i} : net'[k] = net[k]
  BY DEF ClientsInv, NetInv
<1>2. UNCHANGED held => (HasHandle => HasHandle')
  BY DEF HasHandle, IsHandle
<1>3. OnHandle' => OnHandle
  BY DEF OnHandle
<1>4. ASSUME OnHandle', NEW k \in Slots \ {i}, net'[k].at \in {"sent", "forwarded", "served"},
             net'[k].op \in Transitions
      PROVE  HasHandle'
  <2>1. net[k] # Free
    BY <1>1, <1>4 DEF Free
  <2>2. UNCHANGED held
    BY <1>3, <1>4, <2>1 DEF ClientsInv, NetInv
  <2> QED
    BY <1>1, <1>2, <1>3, <1>4, <2>2 DEF CallInv
<1>5. ASSUME OnHandle', net'[i].at \in {"sent", "forwarded", "served"}, net'[i].op \in Transitions
      PROVE  HasHandle'
  BY <1>1, <1>2, <1>3, <1>5
<1> QED
  BY <1>4, <1>5 DEF CallInv

\* No request and no handle changes.
LEMMA CallsKept ==
    ASSUME CallInv, UNCHANGED <<client, net, held>>
    PROVE  CallInv'
  BY DEF CallInv, OnHandle, HasHandle, IsHandle

\* What a request becomes keeps its operation.
LEMMA ServeCalls ==
    ASSUME ClientsInv, CallInv, NEW i \in Slots, Serve(i)
    PROVE  CallInv'
<1>1. net[i].at \in {"sent", "forwarded"} /\ UNCHANGED <<client, held>>
  BY DEF Serve, Forward, FailRequest, ServeRead, ServeReview, ServeRemoval, ServeSubmit,
     ServeLaunch, Write, handVars
<1>2. DOMAIN net[i] = RequestFields
  BY <1>1, SlotHolds DEF ClientsInv, Faithful
<1>3. PICK q : net' = [net EXCEPT ![i] = q] /\ q.op = net[i].op
  <2>1. /\ [net[i] EXCEPT !.at = "served"].op = net[i].op
        /\ [net[i] EXCEPT !.at = "forwarded"].op = net[i].op
        /\ \A a, b : [net[i] EXCEPT !.at = "served", !.ok = a, !.data = b].op = net[i].op
    BY <1>2 DEF RequestFields
  <2>2. \E q : Then(i, q) /\ q.op = net[i].op
    <3>1. ASSUME NEW a, NEW b, Answer(i, a, b) PROVE \E q : Then(i, q) /\ q.op = net[i].op
      <4> DEFINE q == [net[i] EXCEPT !.at = "served", !.ok = a, !.data = b]
      <4>1. Then(i, q) /\ q.op = net[i].op
        BY <2>1, <3>1 DEF Answer
      <4> QED
        BY <4>1
    <3>2. ASSUME Refuse(i) PROVE \E q : Then(i, q) /\ q.op = net[i].op
      BY <2>1, <3>2 DEF Refuse
    <3>3. CASE Forward(i) \/ FailRequest(i)
      BY <2>1, <3>3 DEF Forward, FailRequest
    <3>4. CASE ServeRead(i)
      BY <3>1, <3>2, <3>4 DEF ServeRead
    <3>5. CASE \E answered \in BOOLEAN : ServeReview(i, answered)
      BY <3>1, <3>2, <3>5 DEF ServeReview, Write
    <3>6. CASE \E answered \in BOOLEAN : ServeRemoval(i, answered)
      BY <3>1, <3>2, <3>6 DEF ServeRemoval, Write
    <3>7. CASE \E answered \in BOOLEAN : ServeSubmit(i, answered)
      BY <3>1, <3>2, <3>7 DEF ServeSubmit, Write
    <3>8. CASE \E answered \in BOOLEAN : ServeLaunch(i, answered)
      BY <3>1, <3>2, <3>8 DEF ServeLaunch
    <3> QED
      BY <3>3, <3>4, <3>5, <3>6, <3>7, <3>8 DEF Serve
  <2> QED
    BY <2>2 DEF Then
<1> QED
  BY <1>1, <1>3, OneCallStep DEF CallInv

\* Transitions are asked by a notebook that has a handle.
LEMMA NotebookCalls ==
    ASSUME ClientsInv, CallInv,
           HandleSubmits \/ HandleRefreshes \/ HandleValidates \/ HandleReviews \/ HandleWaits
               \/ HandleRuns \/ HandleUsesService \/ RunDeclared
    PROVE  CallInv'
<1>1. PICK q :
         /\ Call(q)
         /\ held # Null \/ (q.op \notin Transitions)
  <2>1. \A op, e : Request(op, e).op = op
    BY DEF Request
  <2>2. "submit" \notin Transitions /\ "jobs" \notin Transitions
    BY DEF Transitions, Reviews
  <2> QED
    BY <2>1, <2>2 DEF HandleSubmits, HandleRefreshes, HandleValidates, HandleReviews, HandleWaits,
       HandleRuns, HandleUsesService, HandleLaunches, RunDeclared
<1>2. UNCHANGED <<client, held>> /\ Ask(q)
  BY <1>1 DEF Call, handVars
<1>3. q.op \in Transitions => HasHandle
  BY <1>1 DEF ClientsInv, HandleInv, HasHandle
<1>4. PICK i \in Slots : net' = [net EXCEPT ![i] = q]
  BY <1>2 DEF Ask
<1> QED
  BY <1>2, <1>3, <1>4, OneCallStep

\* A notebook that had a handle when it asked has one when it hears.
LEMMA NotebookHears ==
    ASSUME ClientsInv, CallInv, NEW i \in Slots, HandleHears(i)
    PROVE  CallInv'
<1>1. UNCHANGED client /\ OnHandle /\ net[i].at = "served"
  BY DEF HandleHears
<1>2. DOMAIN net[i] = RequestFields
  BY <1>1, SlotHolds DEF ClientsInv, Faithful
<1>3. net[i].op \in Transitions => HasHandle
  BY <1>1 DEF CallInv
<1>4. PICK q : Then(i, q) /\ (q.at \in {"free", "poll"} \/ (q.op = net[i].op /\ UNCHANGED held))
  <2>1. [net[i] EXCEPT !.at = "sent", !.ok = FALSE, !.data = Null].op = net[i].op
    BY <1>2 DEF RequestFields
  <2>2. Free.at = "free" /\ [at |-> "poll"].at = "poll"
    BY DEF Free
  <2> QED
    BY <2>1, <2>2 DEF HandleHears, HandleRaises, HandleMade, HandleReplaced, WaitsOn,
       HandleLaunched, Done
<1>5. net[i] # Free
  BY <1>1 DEF Free
<1> QED
  BY <1>1, <1>3, <1>4, <1>5, OneCallStep DEF Then

-----------------------------------------------------------------------------

\* A wait reads the job, then its runs.
LEMMA PollJobStep ==
    ASSUME ClientsInv, CallInv, NEW i \in Slots, PollJob(i)
    PROVE  ClientsInv' /\ CallInv'
<1>1. /\ UNCHANGED <<client, listVars, tab, handVars, jobVars, held, job>> /\ net[i].at = "poll"
      /\ net' = [net EXCEPT ![i] = [at |-> "polled", job |-> job]]
  BY DEF PollJob, Then, handVars, jobVars, pageVars
<1>2. OnHandle /\ net[i] # Free
  BY <1>1, SlotHolds DEF ClientsInv
<1>3. Waits([at |-> "polled", job |-> job]) /\ [at |-> "polled", job |-> job].job = job
      /\ [at |-> "polled", job |-> job].at = "polled"
  BY DEF Waits
<1>4. NetInv' /\ PolledInv'
  BY <1>1, <1>2, <1>3, SlotStep DEF ClientsInv
<1>5. CallInv'
  BY <1>1, <1>3, OneCallStep
<1> QED
  BY <1>1, <1>4, <1>5, RequestOnly

\* The page of runs ends with the latest one.
LEMMA RunsPageIsTheEnd ==
    ASSUME RunsInv
    PROVE  \E d \in Nat :
               /\ RunsPage \in Seq([mine : BOOLEAN, status : {"running"} \cup SelfEnds])
               /\ Len(RunsPage) + d = Len(runs)
               /\ \A r \in DOMAIN RunsPage : r + d \in DOMAIN runs /\ RunsPage[r] = runs[r + d]
               /\ \A r \in DOMAIN runs : r > d => r - d \in DOMAIN RunsPage
<1> DEFINE T == [mine : BOOLEAN, status : {"running"} \cup SelfEnds]
<1>1. runs \in Seq(T) /\ Len(runs) \in Nat /\ PageSize \in Nat \ {0}
  BY ClientsAssumption DEF RunsInv
<1> HIDE DEF T
<1>2. CASE Len(runs) <= PageSize
  <2>1. RunsPage = runs
    BY <1>2 DEF RunsPage
  <2>2. /\ Len(RunsPage) + 0 = Len(runs)
        /\ \A r \in DOMAIN RunsPage : r + 0 \in DOMAIN runs /\ RunsPage[r] = runs[r + 0]
        /\ \A r \in DOMAIN runs : r > 0 => r - 0 \in DOMAIN RunsPage
    BY <1>1, <2>1
  <2> QED
    BY <1>1, <2>1, <2>2 DEF T
<1>3. CASE ~ (Len(runs) <= PageSize)
  <2> DEFINE d == Len(runs) - PageSize
  <2>1. RunsPage = SubSeq(runs, d + 1, Len(runs)) /\ d \in Nat /\ d + 1 \in 1..Len(runs)
    BY <1>1, <1>3 DEF RunsPage
  <2>2. /\ RunsPage \in Seq(T) /\ Len(RunsPage) = PageSize
        /\ \A r \in 1..PageSize : RunsPage[r] = runs[r + d]
    BY <1>1, <2>1
  <2>3. /\ \A r \in 1..PageSize : r + d \in 1..Len(runs)
        /\ \A r \in 1..Len(runs) : r > d => r - d \in 1..PageSize
    BY <1>1, <1>3
  <2>4. DOMAIN runs = 1..Len(runs) /\ DOMAIN RunsPage = 1..PageSize
    BY <1>1, <2>2
  <2>5. Len(RunsPage) + d = Len(runs)
    BY <1>1, <2>2
  <2> QED
    BY <2>1, <2>2, <2>3, <2>4, <2>5 DEF T
<1> QED
  BY <1>1, <1>2, <1>3

\* _run_for_job finds the Run that ended the job, or none if the page lacks it.
LEMMA FindsTheEnd ==
    ASSUME RunsInv, job \in SelfEnds
    PROVE  RunForJob \in {Null, job}
<1>1. PICK w \in DOMAIN runs : LatestMine(w) /\ runs[w].status = job
  BY DEF RunsInv
<1>2. PICK d \in Nat :
         /\ RunsPage \in Seq([mine : BOOLEAN, status : {"running"} \cup SelfEnds])
         /\ \A r \in DOMAIN RunsPage : r + d \in DOMAIN runs /\ RunsPage[r] = runs[r + d]
         /\ \A r \in DOMAIN runs : r > d => r - d \in DOMAIN RunsPage
  BY RunsPageIsTheEnd
<1> DEFINE mine == {r \in DOMAIN RunsPage : RunsPage[r].mine}
<1>3. CASE mine = {}
  BY <1>3 DEF RunForJob
<1>4. CASE mine # {}
  <2>1. \A r \in DOMAIN RunsPage : r \in Nat /\ w \in Nat
    BY <1>1, <1>2 DEF RunsInv
  <2>2. \A r \in mine : r + d <= w
    BY <1>1, <1>2 DEF LatestMine
  <2>3. w > d
    BY <1>2, <1>4, <2>1, <2>2
  <2>4. w - d \in DOMAIN RunsPage /\ (w - d) + d = w
    BY <1>1, <1>2, <2>1, <2>3
  <2>5. RunsPage[w - d] = runs[w]
    BY <1>2, <2>4
  <2>6. w - d \in mine
    BY <1>1, <2>4, <2>5 DEF LatestMine
  <2>7. \A r \in mine : r <= w - d
    BY <1>2, <2>1, <2>2
  <2> DEFINE c == CHOOSE r \in mine : \A s \in mine : s <= r
  <2>8. c \in mine /\ \A s \in mine : s <= c
    BY <2>6, <2>7
  <2>9. c = w - d
    <3>1. c \in Nat /\ w - d \in Nat /\ c <= w - d /\ w - d <= c
      BY <2>1, <2>4, <2>6, <2>7, <2>8
    <3> QED
      BY <3>1
  <2>10. RunForJob = RunsPage[c].status
    BY <1>4 DEF RunForJob
  <2> QED
    BY <1>1, <2>5, <2>9, <2>10
<1> QED
  BY <1>3, <1>4

\* The wait returns the Run it finds, or polls again.
LEMMA PollRunsStep ==
    ASSUME ClientsInv, CallInv, NEW i \in Slots, PollRuns(i)
    PROVE  ClientsInv' /\ CallInv'
<1>1. UNCHANGED <<client, listVars, tab, jobVars, held>> /\ net[i].at = "polled"
  BY DEF PollRuns, pageVars
<1>2. OnHandle /\ net[i] # Free
  BY <1>1, SlotHolds DEF ClientsInv
<1>3. PICK q : net' = [net EXCEPT ![i] = q] /\ q \in {Free, [at |-> "poll"]}
  BY DEF PollRuns, Done, Then
<1>4. q.at \in {"free", "poll"} /\ (q = Free \/ Waits(q))
  BY <1>3 DEF Free, Waits
<1>5. NetInv' /\ PolledInv'
  BY <1>1, <1>2, <1>3, <1>4, SlotStep DEF ClientsInv
<1>6. CallInv'
  BY <1>1, <1>3, <1>4, OneCallStep
<1>7. ReportedRunIsFinal'
  <2>1. CASE UNCHANGED reported
    BY <2>1 DEF ClientsInv, ReportedRunIsFinal
  <2>2. CASE net[i].job \in JobEnds /\ reported' = [job |-> net[i].job, run |-> RunForJob]
    <3>1. job = net[i].job
      BY <1>1, <2>2 DEF ClientsInv, PolledInv
    <3>2. job = "cancelled" \/ job \in SelfEnds
      BY <2>2, <3>1 DEF JobEnds, SelfEnds
    <3>3. job \in SelfEnds => RunForJob \in {Null, job}
      BY FindsTheEnd DEF ClientsInv
    <3> QED
      BY <2>2, <3>1, <3>2, <3>3 DEF ReportedRunIsFinal
  <2> QED
    BY <2>1, <2>2 DEF PollRuns
<1>8. HandleInv'
  BY <1>1 DEF ClientsInv, HandleInv, IsHandle
<1> QED
  BY <1>1, <1>5, <1>6, <1>7, <1>8, ChoiceKept, JobKept DEF ClientsInv

-----------------------------------------------------------------------------

\* The job and its runs meanwhile: a run starts, of this job or of another.
LEMMA RunStarts ==
    ASSUME RunsInv, NEW m \in BOOLEAN, job \notin SelfEnds \/ (~ m /\ UNCHANGED job),
           runs' = Append(runs, [mine |-> m, status |-> "running"]),
           job' \in SelfEnds => UNCHANGED job
    PROVE  RunsInv'
<1> DEFINE T == [mine : BOOLEAN, status : {"running"} \cup SelfEnds]
           new == [mine |-> m, status |-> "running"]
<1>1. runs \in Seq(T) /\ new \in T /\ new.mine = m
  BY DEF RunsInv
<1> HIDE DEF T
<1>2. /\ runs' \in Seq(T) /\ Len(runs') = Len(runs) + 1
      /\ \A s \in 1..Len(runs) : runs'[s] = runs[s]
      /\ runs'[Len(runs) + 1] = new
  BY <1>1 DEF T
<1>3. DOMAIN runs = 1..Len(runs) /\ DOMAIN runs' = 1..(Len(runs) + 1) /\ Len(runs) \in Nat
  BY <1>1, <1>2
<1>4. ASSUME job' \in SelfEnds
      PROVE  \E r \in DOMAIN runs' : LatestMine(r)' /\ runs'[r].status = job'
  <2>1. job' = job /\ job \in SelfEnds /\ ~ m
    BY <1>4
  <2>2. PICK r \in DOMAIN runs : LatestMine(r) /\ runs[r].status = job
    BY <2>1 DEF RunsInv
  <2>3. \A s \in DOMAIN runs' : runs'[s].mine => s <= r
    BY <1>1, <1>2, <1>3, <2>1, <2>2 DEF LatestMine
  <2>4. r \in DOMAIN runs' /\ runs'[r] = runs[r]
    BY <1>2, <1>3
  <2> QED
    BY <2>1, <2>2, <2>3, <2>4 DEF LatestMine
<1> QED
  BY <1>2, <1>4 DEF RunsInv, T

\* A run ends; the job ends with it only if it is the latest.
LEMMA RunEnds ==
    ASSUME RunsInv, NEW r \in DOMAIN runs, NEW end \in SelfEnds,
           runs[r] = [mine |-> TRUE, status |-> "running"],
           runs' = [runs EXCEPT ![r].status = end],
           \/ (\A s \in DOMAIN runs : runs[s].mine => s <= r) /\ job' = end
           \/ job' = "retrying"
           \/ UNCHANGED job
    PROVE  RunsInv'
<1> DEFINE T == [mine : BOOLEAN, status : {"running"} \cup SelfEnds]
<1>1. runs \in Seq(T) /\ r \in 1..Len(runs)
  BY DEF RunsInv
<1> DEFINE ended == [runs[r] EXCEPT !.status = end]
<1>2. ended \in T /\ ended.mine /\ ended.status = end
  <2>1. \A q \in T : /\ [q EXCEPT !.status = end] \in T
                    /\ [q EXCEPT !.status = end].mine = q.mine
                    /\ [q EXCEPT !.status = end].status = end
    OBVIOUS
  <2>2. runs[r] \in T /\ runs[r].mine
    BY <1>1
  <2> HIDE DEF T
  <2> QED
    BY <2>1, <2>2
<1>3. runs[r].mine /\ runs[r].status = "running"
  OBVIOUS
<1>4. runs' = [runs EXCEPT ![r] = ended]
  OBVIOUS
<1> HIDE DEF T, ended
<1>5. /\ DOMAIN runs' = DOMAIN runs
      /\ \A s \in DOMAIN runs : runs'[s].mine = runs[s].mine
      /\ \A s \in DOMAIN runs : s # r => runs'[s] = runs[s]
      /\ runs'[r].status = end
  <2>1. /\ DOMAIN runs' = DOMAIN runs /\ runs'[r] = ended
        /\ \A s \in DOMAIN runs : s # r => runs'[s] = runs[s]
    BY <1>4
  <2> QED
    BY <1>2, <1>3, <2>1
<1>6. runs' \in Seq(T)
  BY <1>1, <1>2, <1>4
<1>7. ASSUME job' \in SelfEnds
      PROVE  \E w \in DOMAIN runs' : LatestMine(w)' /\ runs'[w].status = job'
  <2>1. CASE (\A s \in DOMAIN runs : runs[s].mine => s <= r) /\ job' = end
    BY <1>5, <1>3, <2>1 DEF LatestMine
  <2>2. CASE job' = "retrying"
    BY <1>7, <2>2 DEF SelfEnds
  <2>3. CASE UNCHANGED job
    <3>1. PICK w \in DOMAIN runs : LatestMine(w) /\ runs[w].status = job
      BY <1>7, <2>3 DEF RunsInv
    <3>2. w # r
      BY <1>3, <1>7, <2>3, <3>1 DEF SelfEnds
    <3> QED
      BY <1>5, <2>3, <3>1, <3>2 DEF LatestMine
  <2> QED
    BY <2>1, <2>2, <2>3
<1> QED
  BY <1>6, <1>7 DEF RunsInv, T

\* Attempts, other runs and a cancellation, while a wait may be under way.
LEMMA JobStep ==
    ASSUME ClientsInv, CallInv,
           AttemptStarts \/ (\E r \in DOMAIN runs : AttemptEnds(r)) \/ JobCancelled \/ OtherRun
    PROVE  ClientsInv' /\ CallInv'
<1>1. UNCHANGED <<client, net, listVars, handVars, held, tab, launched>>
  BY DEF AttemptStarts, AttemptEnds, JobCancelled, OtherRun, handVars, pageVars
<1>2. job \in JobEnds => UNCHANGED job
  BY DEF AttemptStarts, AttemptEnds, JobCancelled, OtherRun, JobEnds
<1>3. NetInv' /\ PolledInv'
  BY <1>1, <1>2, NetKept DEF ClientsInv
<1>4. CallInv'
  BY <1>1, CallsKept
<1>5. RunsInv'
  <2>1. CASE AttemptStarts
    BY <2>1, RunStarts DEF AttemptStarts, ClientsInv, SelfEnds
  <2>2. CASE \E r \in DOMAIN runs : AttemptEnds(r)
    BY <2>2, RunEnds DEF AttemptEnds, ClientsInv, SelfEnds
  <2>3. CASE JobCancelled
    BY <2>3 DEF JobCancelled, ClientsInv, RunsInv, SelfEnds, LatestMine
  <2>4. CASE OtherRun
    BY <2>4, RunStarts DEF OtherRun, ClientsInv
  <2> QED
    BY <2>1, <2>2, <2>3, <2>4
<1>6. VersionMeant'
  BY <1>1 DEF ClientsInv, VersionMeant
<1> QED
  BY <1>1, <1>3, <1>4, <1>5, <1>6, ChoiceKept, HandKept DEF ClientsInv

-----------------------------------------------------------------------------

\* A step of the page or of the picker is no step of a notebook.
LEMMA OtherClients ==
    ASSUME ClientsInv, CallInv, PageNext \/ PickerNext
    PROVE  CallInv'
<1>1. CASE SessionEnds
  BY <1>1, CallsKept DEF SessionEnds, handVars
<1>2. CASE ~ SessionEnds /\ PageNext
  <2>1. UNCHANGED client
    BY <1>2 DEF PageNext, OpenPage, LoginFails, OAuthCallback, InitPage, Logout,
       PageRefreshes, LoadEntry, PageReviews, SubmitBundle, PageLaunches, PageAsks, PageChooses,
       PageLists, PageShows, PageReviewed, PageDeleted, PageLaunched, PageErrs, Unheard
  <2>2. tab # "off" \/ OnPage
    BY <1>2 DEF PageNext, OpenPage, LoginFails, OAuthCallback, InitPage, Logout,
       PageRefreshes, LoadEntry, PageReviews, SubmitBundle, PageLaunches, PageAsks, PageChooses
  <2>3. ~ OnHandle'
    BY <2>1, <2>2 DEF ClientsInv, ChoiceInv, OnPage, OnHandle
  <2> QED
    BY <2>3 DEF CallInv
<1>3. CASE PickerNext
  <2>1. OnPicker /\ UNCHANGED client
    BY <1>3 DEF PickerNext, PickerLoads, PickerSelects, PickerRuns, PickerUsesService,
       PickerProxies, PickerLaunches, PickerHears
  <2>2. ~ OnHandle'
    BY <2>1 DEF OnPicker, OnHandle
  <2> QED
    BY <2>2 DEF CallInv
<1> QED
  BY <1>1, <1>2, <1>3 DEF PageNext

\* The notebook.
LEMMA HandleStep ==
    ASSUME ClientsInv, CallInv, HandleNext
    PROVE  ClientsInv' /\ CallInv'
  BY HandleCalls, NotebookCalls, HandleHearing, NotebookHears, PollJobStep, PollRunsStep, JobStep
     DEF HandleNext

\* Other users change the directory, and nothing a client holds.
LEMMA OthersStep ==
    ASSUME ClientsInv, CallInv, UNCHANGED <<client, net, listVars, pageVars, handVars, jobVars>>
    PROVE  ClientsInv' /\ CallInv'
<1>1. UNCHANGED <<tab, held, job>>
  BY DEF pageVars, handVars, jobVars
<1>2. NetInv' /\ PolledInv'
  BY <1>1, NetKept DEF ClientsInv
<1> QED
  BY <1>1, <1>2, RequestOnly, CallsKept

\* Every step keeps the invariant.
LEMMA ClientsStep ==
    ASSUME ClientsInv, CallInv, [ClientsNext]_clientVars
    PROVE  ClientsInv' /\ CallInv'
<1>1. CASE (\E e \in Names : OthersAct(e)) \/ UNCHANGED clientVars
  BY <1>1, OthersStep DEF OthersAct, clientVars
<1>2. CASE \E i \in Slots : net[i] # Free /\ Serve(i)
  BY <1>2, ServeStep, ServeCalls
<1>3. CASE PageNext \/ PickerNext
  BY <1>3, PageStep, PickerStep, OtherClients
<1>4. CASE HandleNext
  BY <1>4, HandleStep
<1> QED
  BY <1>1, <1>2, <1>3, <1>4 DEF ClientsNext

\* It holds of every client that a behaviour may begin with.
LEMMA ClientsStart ==
    ASSUME ClientsInit
    PROVE  ClientsInv /\ CallInv
<1>1. net = [i \in Slots |-> Free] /\ chosen = Null /\ tab = "off" /\ launched = Null
      /\ job = "none" /\ runs = << >> /\ reported = Null
  BY DEF ClientsInit
<1>2. NetInv /\ PolledInv /\ CallInv
  BY <1>1 DEF NetInv, PolledInv, CallInv, Free
<1>3. ChoiceInv /\ VersionMeant /\ ReportedRunIsFinal
  BY <1>1 DEF ChoiceInv, VersionMeant, ReportedRunIsFinal
<1>4. RunsInv
  BY <1>1 DEF RunsInv, SelfEnds
<1>5. HandleInv
  <2>1. held = Null \/ held \in EarlierHandles
    BY DEF ClientsInit
  <2>2. ASSUME held \in EarlierHandles PROVE IsHandle(held)
    <3>1. PICK e, rec, n : held = HandleOn(e, rec, n)
      BY <2>2 DEF EarlierHandles
    <3> QED
      BY <3>1, NewHandle
  <2> QED
    BY <2>1, <2>2 DEF HandleInv
<1> QED
  BY <1>2, <1>3, <1>4, <1>5 DEF ClientsInv

\* The invariant of one client with the API.
THEOREM ClientsInvariance == ClientsSpec => [](ClientsInv /\ CallInv)
  BY ClientsStart, ClientsStep, PTL DEF ClientsSpec

\* The Run a wait returns for a job that ended by itself is the one that ended
\* it: _wait_for_job reads the job and then, in another request, its Runs.
THEOREM FinalRunReported == ClientsSpec => []ReportedRunIsFinal
<1>1. ClientsInv => ReportedRunIsFinal
  BY DEF ClientsInv
<1> QED
  BY <1>1, ClientsInvariance, PTL

-----------------------------------------------------------------------------
(* Which entries a client's requests are meant for: a name given to another  *)
(* entry is given to a later one, so that no launch runs an entry earlier    *)
(* than the one its user saw.                                                *)

RowFields == {"id", "status", "published", "versions"}

\* The directory holds entries whose ids have been given out.
DirInv ==
    /\ born \in Nat
    /\ DOMAIN dir = Names
    /\ \A e \in Names :
           dir[e] # Null => DOMAIN dir[e] = RowFields /\ dir[e].id \in Nat /\ dir[e].id <= born

\* An entry that was met under the name e, in a directory d with b ids given
\* out: what is there now is that entry or a later one.
MetIn(d, b, e, id) ==
    e \in Names /\ id \in Nat /\ id <= b /\ (d[e] # Null => id <= d[e].id)

\* What a picker lists, and what it has selected.
PickerInv ==
    OnPicker =>
        /\ \A e \in Names : listed[e] # Null => MetIn(dir, born, e, listed[e].id)
        /\ picked # Null => picked \in Names /\ listed[picked] # Null

\* What a handle was made for.
HeldInv == held # Null => MetIn(dir, born, held.e, held.id)

\* What an answer tells, and what a launch is meant for.
RequestIn(d, b, q) ==
    /\ q.ok /\ q.op = "lists" => \A e \in Names : q.data[e] # Null => MetIn(d, b, e, q.data[e].id)
    /\ q.op = "submit" => q.e \in Names
    /\ q.ok /\ q.op = "submit" => MetIn(d, b, q.e, q.data.id)
    /\ q.meant # Null => MetIn(d, b, q.e, q.meant.id)

AnswersInv ==
    \A i \in Slots :
        net[i].at \in {"sent", "forwarded", "served"} => RequestIn(dir, born, net[i])

\* The launch ran the entry that was meant, or a later one.
EntryMeant == launched # Null /\ launched.meant # Null => launched.meant.id <= launched.id

EntriesInv == DirInv /\ PickerInv /\ HeldInv /\ AnswersInv /\ EntryMeant

\* What a step may do to the directory: an entry keeps its id, and a new one
\* gets the next.
DirStep ==
    \/ UNCHANGED <<dir, born>>
    \/ \E e, rec :
           /\ dir' = [dir EXCEPT ![e] = rec]
           /\ e \in Names /\ rec # Null => DOMAIN rec = RowFields
           /\ \/ /\ born' = born
                 /\ e \in Names /\ rec # Null => dir[e] # Null /\ rec.id = dir[e].id
              \/ born' = born + 1 /\ rec.id = born + 1

\* Whatever was met stays met.
LEMMA MetStaysMet ==
    ASSUME DirInv, DirStep
    PROVE  /\ DirInv'
           /\ \A e, id : MetIn(dir, born, e, id) => MetIn(dir', born', e, id)
<1>1. CASE UNCHANGED <<dir, born>>
  BY <1>1 DEF DirInv
<1>2. CASE ~ UNCHANGED <<dir, born>>
  <2>1. PICK e, rec :
           /\ dir' = [dir EXCEPT ![e] = rec]
           /\ e \in Names /\ rec # Null => DOMAIN rec = RowFields
           /\ \/ /\ born' = born
                 /\ e \in Names /\ rec # Null => dir[e] # Null /\ rec.id = dir[e].id
              \/ born' = born + 1 /\ rec.id = born + 1
    BY <1>2 DEF DirStep
  <2>2. born \in Nat /\ born' \in Nat /\ born <= born' /\ DOMAIN dir = Names /\ DOMAIN dir' = Names
    BY <2>1 DEF DirInv
  <2>3. ASSUME NEW d \in Names, dir'[d] # Null
        PROVE  /\ DOMAIN dir'[d] = RowFields /\ dir'[d].id \in Nat /\ dir'[d].id <= born'
               /\ \A id \in Nat : id <= born /\ (dir[d] # Null => id <= dir[d].id) => id <= dir'[d].id
    <3>1. CASE d # e
      <4>1. dir'[d] = dir[d]
        BY <2>1, <2>2, <3>1
      <4> QED
        BY <2>2, <2>3, <4>1 DEF DirInv
    <3>2. CASE d = e
      <4>1. dir'[d] = rec
        BY <2>1, <2>2, <3>2
      <4>2. CASE born' = born /\ dir[d] # Null /\ rec.id = dir[d].id
        BY <2>1, <2>2, <2>3, <4>1, <4>2 DEF DirInv
      <4>3. CASE born' = born + 1 /\ rec.id = born + 1
        <5>1. dir'[d].id = born + 1 /\ born' = born + 1 /\ born \in Nat
          BY <2>2, <4>1, <4>3
        <5>2. DOMAIN dir'[d] = RowFields
          BY <2>1, <2>3, <3>2, <4>1
        <5>3. born + 1 \in Nat /\ \A id \in Nat : id <= born => id <= born + 1
          BY <2>2
        <5> QED
          BY <5>1, <5>2, <5>3
      <4> QED
        BY <2>1, <2>3, <3>2, <4>1, <4>2, <4>3
    <3> QED
      BY <3>1, <3>2
  <2>4. DirInv'
    BY <2>2, <2>3 DEF DirInv
  <2>5. ASSUME NEW d, NEW id, MetIn(dir, born, d, id) PROVE MetIn(dir', born', d, id)
    BY <2>2, <2>3, <2>5 DEF MetIn
  <2> QED
    BY <2>4, <2>5
<1> QED
  BY <1>1, <1>2

\* Nothing is known of a request that is not answered and not a launch.
Plain(q) == q.ok = FALSE /\ q.meant = Null /\ (q.op = "submit" => q.e \in Names)

LEMMA PlainRequests ==
    ASSUME NEW op, NEW e, op = "submit" => e \in Names, NEW a, NEW b, NEW c
    PROVE  /\ Plain(Request(op, e))
           /\ Plain([Request(op, e) EXCEPT !.id = a])
           /\ Plain([Request(op, e) EXCEPT !.id = a, !.v = b])
           /\ Plain([[Request(op, e) EXCEPT !.id = a, !.v = b] EXCEPT !.goal = c])
<1> DEFINE q == Request(op, e)
<1>1. q.ok = FALSE /\ DOMAIN q = RequestFields /\ q.meant = Null /\ q.op = op /\ q.e = e
  BY DEF Request, RequestFields
<1> HIDE DEF q
<1> USE DEF Plain, RequestFields
<1>3. Plain(q) /\ Plain([q EXCEPT !.id = a])
  BY <1>1
<1>4. Plain([q EXCEPT !.id = a, !.v = b])
  BY <1>1
<1>5. Plain([[q EXCEPT !.id = a, !.v = b] EXCEPT !.goal = c])
  BY <1>1
<1> QED
  BY <1>3, <1>4, <1>5 DEF q

LEMMA PlainTells ==
    ASSUME NEW d, NEW b, NEW q, Plain(q)
    PROVE  RequestIn(d, b, q)
  BY DEF Plain, RequestIn

LEMMA PlainListing == Plain(Listing) /\ \A a : Plain([Listing EXCEPT !.after = a])
  BY DEF Plain, Listing, Request

\* A launch is meant for an entry that was met.
LEMMA LaunchTells ==
    ASSUME NEW op, op # "submit", NEW e, NEW v, NEW w, NEW x, NEW id, NEW d, NEW b, MetIn(d, b, e, id)
    PROVE  /\ RequestIn(d, b, [Request(op, e) EXCEPT !.v = v, !.meant = [id |-> id, v |-> w]])
           /\ RequestIn(d, b, [[Request(op, e) EXCEPT !.id = x, !.v = v]
                                   EXCEPT !.meant = [id |-> id, v |-> w]])
<1> DEFINE q == Request(op, e)
<1>1. q.ok = FALSE /\ DOMAIN q = RequestFields /\ q.e = e /\ q.op = op
  BY DEF Request, RequestFields
<1> DEFINE m == [id |-> id, v |-> w]
<1>2. m.id = id
  OBVIOUS
<1> HIDE DEF q, m
<1>3. /\ [q EXCEPT !.v = v, !.meant = m].ok = FALSE
      /\ [q EXCEPT !.v = v, !.meant = m].e = e
      /\ [q EXCEPT !.v = v, !.meant = m].op = op
      /\ [q EXCEPT !.v = v, !.meant = m].meant = m
  BY <1>1 DEF RequestFields
<1>4. /\ [[q EXCEPT !.id = x, !.v = v] EXCEPT !.meant = m].ok = FALSE
      /\ [[q EXCEPT !.id = x, !.v = v] EXCEPT !.meant = m].e = e
      /\ [[q EXCEPT !.id = x, !.v = v] EXCEPT !.meant = m].op = op
      /\ [[q EXCEPT !.id = x, !.v = v] EXCEPT !.meant = m].meant = m
  BY <1>1 DEF RequestFields
<1>5. RequestIn(d, b, [q EXCEPT !.v = v, !.meant = m])
  BY <1>2, <1>3 DEF RequestIn
<1>6. RequestIn(d, b, [[q EXCEPT !.id = x, !.v = v] EXCEPT !.meant = m])
  BY <1>2, <1>4 DEF RequestIn
<1> QED
  BY <1>5, <1>6 DEF q, m

\* A request on its way, and the one an answer is put to.
LEMMA RequestGoesOn ==
    ASSUME NEW d, NEW b, NEW q, Faithful(q), RequestIn(d, b, q), NEW c
    PROVE  /\ RequestIn(d, b, [q EXCEPT !.at = c])
           /\ RequestIn(d, b, [q EXCEPT !.kept = FALSE])
           /\ RequestIn(d, b, [q EXCEPT !.at = c, !.ok = FALSE, !.data = Null])
  BY DEF Faithful, RequestFields, RequestIn

LEMMA RequestAnswered ==
    ASSUME NEW d, NEW b, NEW q, Faithful(q), NEW c, NEW a, NEW data,
           q.meant # Null => MetIn(d, b, q.e, q.meant.id),
           q.op = "lists" => \A e \in Names : data[e] # Null => MetIn(d, b, e, data[e].id),
           q.op = "submit" => q.e \in Names /\ MetIn(d, b, q.e, data.id)
    PROVE  RequestIn(d, b, [q EXCEPT !.at = c, !.ok = a, !.data = data])
<1> DEFINE r == [q EXCEPT !.at = c, !.ok = a, !.data = data]
<1>1. r.op = q.op /\ r.e = q.e /\ r.meant = q.meant /\ r.data = data
  BY DEF Faithful, RequestFields
<1> HIDE DEF r
<1>2. RequestIn(d, b, r)
  BY <1>1 DEF RequestIn
<1> QED
  BY <1>2 DEF r

\* One slot changes.
LEMMA AnswersStep ==
    ASSUME NetInv, DirInv, DirStep, AnswersInv, NEW i \in Slots, NEW q,
           net' = [net EXCEPT ![i] = q],
           q.at \in {"sent", "forwarded", "served"} => RequestIn(dir', born', q)
    PROVE  AnswersInv'
<1>1. net'[i] = q /\ \A k \in Slots \ {i} : net'[k] = net[k]
  BY DEF NetInv
<1>2. ASSUME NEW k \in Slots \ {i}, net[k].at \in {"sent", "forwarded", "served"}
      PROVE  RequestIn(dir', born', net[k])
  <2>1. RequestIn(dir, born, net[k])
    BY <1>2 DEF AnswersInv
  <2> QED
    BY <2>1, MetStaysMet DEF RequestIn
<1> QED
  BY <1>1, <1>2 DEF AnswersInv

LEMMA AnswersKept ==
    ASSUME DirInv, DirStep, AnswersInv, UNCHANGED net
    PROVE  AnswersInv'
<1>1. ASSUME NEW k \in Slots, net[k].at \in {"sent", "forwarded", "served"}
      PROVE  RequestIn(dir', born', net[k])
  <2>1. RequestIn(dir, born, net[k])
    BY <1>1 DEF AnswersInv
  <2> QED
    BY <2>1, MetStaysMet DEF RequestIn
<1> QED
  BY <1>1 DEF AnswersInv

\* The parts a step leaves alone.
LEMMA PickerKept ==
    ASSUME DirInv, DirStep, PickerInv, UNCHANGED <<client, listed, picked>>
    PROVE  PickerInv'
<1>1. \A e, id : MetIn(dir, born, e, id) => MetIn(dir', born', e, id)
  BY MetStaysMet
<1> QED
  BY <1>1 DEF PickerInv, OnPicker

LEMMA HeldKept ==
    ASSUME DirInv, DirStep, HeldInv, UNCHANGED held
    PROVE  HeldInv'
<1>1. \A e, id : MetIn(dir, born, e, id) => MetIn(dir', born', e, id)
  BY MetStaysMet
<1> QED
  BY <1>1 DEF HeldInv

LEMMA EntriesKept ==
    ASSUME EntriesInv, DirStep, UNCHANGED <<client, listed, picked, held, launched>>, AnswersInv'
    PROVE  EntriesInv'
<1>1. DirInv' /\ PickerInv' /\ HeldInv'
  BY MetStaysMet, PickerKept, HeldKept DEF EntriesInv
<1>2. EntryMeant'
  BY DEF EntriesInv, EntryMeant
<1> QED
  BY <1>1, <1>2 DEF EntriesInv

-----------------------------------------------------------------------------

\* What the steps make of an entry.
LEMMA RowsKeepIds ==
    ASSUME NEW rec, DOMAIN rec = RowFields, NEW v, NEW op
    PROVE  /\ DOMAIN Reviewed(rec, v, op) = RowFields /\ Reviewed(rec, v, op).id = rec.id
           /\ DOMAIN WithDraft(rec) = RowFields /\ WithDraft(rec).id = rec.id
           /\ DOMAIN [rec EXCEPT !.status = "retired"] = RowFields
           /\ [rec EXCEPT !.status = "retired"].id = rec.id
  BY DEF Reviewed, WithDraft, RowFields

LEMMA NewRowIsNext == DOMAIN NewRow = RowFields /\ NewRow.id = born + 1
  BY DEF NewRow, RowFields

\* Other users change the directory.
LEMMA OthersChange ==
    ASSUME EntriesInv, NEW e \in Names, OthersAct(e)
    PROVE  EntriesInv'
<1>1. UNCHANGED <<client, net, listed, picked, held, launched>>
  BY DEF OthersAct, listVars, handVars, jobVars
<1>2. DirStep
  <2>1. CASE dir[e] = Null /\ Change(e, NewRow) /\ born' = born + 1
    BY <2>1, NewRowIsNext DEF Change, DirStep
  <2>2. CASE dir[e] # Null /\ born' = born
    <3>1. DOMAIN dir[e] = RowFields
      BY <2>2 DEF EntriesInv, DirInv
    <3>2. ASSUME NEW op, NEW v, Change(e, Reviewed(dir[e], v, op)) PROVE DirStep
      <4>1. DOMAIN Reviewed(dir[e], v, op) = RowFields /\ Reviewed(dir[e], v, op).id = dir[e].id
        BY <3>1, RowsKeepIds
      <4> QED
        BY <2>2, <3>2, <4>1 DEF Change, DirStep
    <3>3. CASE Change(e, WithDraft(dir[e]))
      <4>1. DOMAIN WithDraft(dir[e]) = RowFields /\ WithDraft(dir[e]).id = dir[e].id
        BY <3>1, RowsKeepIds
      <4> QED
        BY <2>2, <3>3, <4>1 DEF Change, DirStep
    <3>4. CASE Change(e, [dir[e] EXCEPT !.status = "retired"])
      <4>1. DOMAIN [dir[e] EXCEPT !.status = "retired"] = RowFields
            /\ [dir[e] EXCEPT !.status = "retired"].id = dir[e].id
        BY <3>1, RowsKeepIds
      <4> QED
        BY <2>2, <3>4, <4>1 DEF Change, DirStep
    <3>5. CASE Change(e, Null)
      BY <2>2, <3>5 DEF Change, DirStep
    <3> QED
      BY <2>2, <3>2, <3>3, <3>4, <3>5 DEF OthersAct
  <2> QED
    BY <2>1, <2>2 DEF OthersAct
<1> QED
  BY <1>1, <1>2, AnswersKept, EntriesKept DEF EntriesInv

\* The API serves a request.
LEMMA ServeKeepsEntries ==
    ASSUME EntriesInv, NetInv, NEW i \in Slots, Serve(i)
    PROVE  EntriesInv'
<1> DEFINE q == net[i]
<1>1. UNCHANGED <<client, listed, picked, held>>
  BY DEF Serve, Forward, FailRequest, ServeRead, ServeReview, ServeRemoval, ServeSubmit,
     ServeLaunch, Write, listVars, handVars
<1>2. q.at \in {"sent", "forwarded"}
  BY DEF Serve, Forward, FailRequest, ServeRead, ServeReview, ServeRemoval, ServeSubmit, ServeLaunch
<1>3. Faithful(q) /\ RequestIn(dir, born, q)
  BY <1>2, SlotHolds DEF EntriesInv, AnswersInv
<1>4. ASSUME UNCHANGED <<dir, born>>, Refuse(i) PROVE AnswersInv' /\ DirStep
  <2>1. RequestIn(dir', born', [q EXCEPT !.at = "served"])
    BY <1>3, <1>4, RequestGoesOn
  <2>2. DirStep
    BY <1>4 DEF DirStep
  <2> QED
    BY <1>4, <2>1, <2>2, AnswersStep DEF Refuse, Then, EntriesInv
<1>5. ASSUME DirStep, NEW a, NEW data, Answer(i, a, data),
             q.op = "lists" => \A e \in Names : data[e] # Null => MetIn(dir', born', e, data[e].id),
             q.op = "submit" => q.e \in Names /\ MetIn(dir', born', q.e, data.id)
      PROVE  AnswersInv'
  <2>1. q.meant # Null => MetIn(dir', born', q.e, q.meant.id)
    BY <1>3, <1>5, MetStaysMet DEF RequestIn, EntriesInv
  <2>2. RequestIn(dir', born', [q EXCEPT !.at = "served", !.ok = a, !.data = data])
    BY <1>3, <1>5, <2>1, RequestAnswered
  <2> QED
    BY <1>5, <2>2, AnswersStep DEF Answer, Then, EntriesInv
<1>6. CASE Forward(i) \/ FailRequest(i)
  <2>1. DirStep /\ UNCHANGED <<dir, born, launched>>
    BY <1>6 DEF Forward, FailRequest, DirStep, dirVars, jobVars
  <2>2. /\ RequestIn(dir', born', [q EXCEPT !.at = "served"])
        /\ RequestIn(dir', born', [q EXCEPT !.at = "forwarded"])
    BY <1>3, <2>1, RequestGoesOn
  <2>3. \/ net' = [net EXCEPT ![i] = [q EXCEPT !.at = "served"]]
        \/ net' = [net EXCEPT ![i] = [q EXCEPT !.at = "forwarded"]]
    BY <1>6 DEF Forward, FailRequest, Then
  <2>4. AnswersInv'
    BY <2>1, <2>2, <2>3, AnswersStep DEF EntriesInv
  <2> QED
    BY <1>1, <2>1, <2>4, EntriesKept
<1>7. CASE ServeRead(i)
  <2>1. DirStep /\ UNCHANGED <<dir, born, launched>>
    BY <1>7 DEF ServeRead, DirStep, dirVars, jobVars
  <2>2. AnswersInv'
    <3>1. CASE Refuse(i)
      BY <1>4, <2>1, <3>1
    <3>2. CASE q.op = "get" /\ Answer(i, TRUE, dir[q.e])
      BY <1>5, <2>1, <3>2
    <3>3. CASE Answer(i, TRUE, [e \in Names |-> IF Listed(e) THEN dir[e] ELSE Null]) /\ q.op = "lists"
      <4> DEFINE data == [e \in Names |-> IF Listed(e) THEN dir[e] ELSE Null]
      <4>1. \A e \in Names : data[e] # Null => MetIn(dir', born', e, data[e].id)
        BY <2>1 DEF EntriesInv, DirInv, MetIn
      <4> HIDE DEF data
      <4>2. Answer(i, TRUE, data)
        BY <3>3 DEF data
      <4> QED
        BY <1>5, <2>1, <3>3, <4>1, <4>2
    <3> QED
      BY <1>7, <3>1, <3>2, <3>3 DEF ServeRead
  <2> QED
    BY <1>1, <2>1, <2>2, EntriesKept
<1>8. ASSUME NEW a \in BOOLEAN, ServeReview(i, a) \/ ServeRemoval(i, a) PROVE EntriesInv'
  <2>1. UNCHANGED <<born, launched>> /\ q.op # "lists" /\ q.op # "submit"
    BY <1>8 DEF ServeReview, ServeRemoval, Write, jobVars, Reviews
  <2>2. CASE Refuse(i) /\ UNCHANGED dir
    BY <1>1, <1>4, <2>1, <2>2, EntriesKept
  <2>3. ASSUME NEW rec, Write(i, a, q.e, rec), dir[q.e] # Null, rec = Null \/
               (q.e \in Names => DOMAIN rec = RowFields /\ rec.id = dir[q.e].id)
        PROVE  EntriesInv'
    <3>1. DirStep
      <4>1. dir' = [dir EXCEPT ![q.e] = rec] /\ born' = born
        BY <2>1, <2>3 DEF Write
      <4> QED
        BY <2>3, <4>1 DEF DirStep
    <3>2. AnswersInv'
      BY <1>5, <2>1, <2>3, <3>1 DEF Write
    <3> QED
      BY <1>1, <2>1, <3>1, <3>2, EntriesKept
  <2>4. q.e \in Names /\ dir[q.e] # Null => DOMAIN dir[q.e] = RowFields
    BY DEF EntriesInv, DirInv
  <2>5. CASE ServeReview(i, a)
    <3> DEFINE rec == Reviewed(dir[q.e], VersionOf(dir[q.e], q.v), q.op)
    <3>1. (dir[q.e] # Null /\ Write(i, a, q.e, rec)) \/ (Refuse(i) /\ UNCHANGED dir)
      BY <2>5 DEF ServeReview
    <3>2. ASSUME q.e \in Names, dir[q.e] # Null
          PROVE  DOMAIN rec = RowFields /\ rec.id = dir[q.e].id
      <4>1. DOMAIN dir[q.e] = RowFields
        BY <2>4, <3>2
      <4> HIDE DEF q
      <4>2. \A v, op : /\ DOMAIN Reviewed(dir[q.e], v, op) = RowFields
                       /\ Reviewed(dir[q.e], v, op).id = dir[q.e].id
        BY <4>1, RowsKeepIds
      <4> QED
        BY <4>2
    <3> HIDE DEF rec
    <3> QED
      BY <2>2, <2>3, <3>1, <3>2
  <2>6. CASE ServeRemoval(i, a)
    <3> DEFINE rec == [dir[q.e] EXCEPT !.status = "retired"]
    <3>1. \/ dir[q.e] # Null /\ (Write(i, a, q.e, rec) \/ Write(i, a, q.e, Null))
          \/ Refuse(i) /\ UNCHANGED dir
      BY <2>6 DEF ServeRemoval
    <3>2. q.e \in Names /\ dir[q.e] # Null => DOMAIN rec = RowFields /\ rec.id = dir[q.e].id
      BY <2>4, RowsKeepIds
    <3> HIDE DEF rec
    <3> QED
      BY <2>2, <2>3, <3>1, <3>2
  <2> QED
    BY <1>8, <2>5, <2>6
<1>9. ASSUME NEW a \in BOOLEAN, ServeSubmit(i, a) PROVE EntriesInv'
  <2>1. UNCHANGED launched /\ q.op # "lists" /\ q.op = "submit"
    BY <1>9 DEF ServeSubmit, Write, jobVars
  <2>2. PICK rec : Write(i, a, q.e, rec)
                   /\ \/ dir[q.e] = Null /\ rec = NewRow /\ born' = born + 1
                      \/ dir[q.e] # Null /\ rec = WithDraft(dir[q.e]) /\ born' = born
    BY <1>9 DEF ServeSubmit
  <2>3. q.e \in Names /\ dir' = [dir EXCEPT ![q.e] = rec] /\ DOMAIN dir = Names
    BY <1>3, <2>1, <2>2 DEF RequestIn, Write, EntriesInv, DirInv
  <2>4. /\ DOMAIN rec = RowFields
        /\ \/ rec.id = born + 1 /\ born' = born + 1
           \/ dir[q.e] # Null /\ rec.id = dir[q.e].id /\ born' = born
    BY <2>2, <2>3, RowsKeepIds, NewRowIsNext DEF EntriesInv, DirInv
  <2>5. DirStep
    BY <2>3, <2>4 DEF DirStep
  <2>6. MetIn(dir', born', q.e, rec.id)
    <3>1. dir'[q.e] = rec
      BY <2>3
    <3>2. CASE rec.id = born + 1 /\ born' = born + 1
      BY <2>3, <3>1, <3>2 DEF EntriesInv, DirInv, MetIn
    <3>3. CASE dir[q.e] # Null /\ rec.id = dir[q.e].id /\ born' = born
      BY <2>3, <3>1, <3>3 DEF EntriesInv, DirInv, MetIn
    <3> QED
      BY <2>4, <3>2, <3>3
  <2>7. AnswersInv'
    BY <1>5, <2>1, <2>2, <2>3, <2>5, <2>6 DEF Write
  <2> QED
    BY <1>1, <2>1, <2>5, <2>7, EntriesKept
<1>10. ASSUME NEW a \in BOOLEAN, ServeLaunch(i, a) PROVE EntriesInv'
  <2> DEFINE v == Resolve(q.e, q.v)
  <2>1. UNCHANGED <<dir, born>> /\ q.op # "lists" /\ q.op # "submit"
    BY <1>10 DEF ServeLaunch, dirVars, Launches
  <2>2. DirStep
    BY <2>1 DEF DirStep
  <2>3. AnswersInv'
    BY <1>4, <1>5, <1>10, <2>1, <2>2 DEF ServeLaunch
  <2>4. EntryMeant'
    <3>1. CASE UNCHANGED launched
      BY <3>1 DEF EntriesInv, EntryMeant
    <3>2. CASE v # Null /\ launched' = [id |-> dir[q.e].id, v |-> v, meant |-> q.meant]
      <4>1. dir[q.e] # Null
        BY <3>2 DEF Resolve
      <4>2. launched'.id = dir[q.e].id /\ launched'.meant = q.meant
        BY <3>2
      <4> HIDE DEF q, v
      <4> QED
        BY <1>3, <4>1, <4>2 DEF RequestIn, MetIn, EntryMeant
    <3> QED
      BY <1>10, <3>1, <3>2 DEF ServeLaunch, jobVars
  <2> QED
    BY <1>1, <2>2, <2>3, <2>4, MetStaysMet, PickerKept, HeldKept DEF EntriesInv
<1> QED
  BY <1>6, <1>7, <1>8, <1>9, <1>10 DEF Serve

-----------------------------------------------------------------------------

\* A step that only asks, or takes up an answer.
LEMMA NetKeepsEntries ==
    ASSUME EntriesInv, NetInv, UNCHANGED <<client, dir, born, listed, picked, held, launched>>,
           NEW i \in Slots, NEW q, net' = [net EXCEPT ![i] = q],
           q.at \in {"sent", "forwarded", "served"} => RequestIn(dir, born, q)
    PROVE  EntriesInv'
<1>1. DirStep
  BY DEF DirStep
<1> QED
  BY <1>1, AnswersStep, EntriesKept DEF EntriesInv

LEMMA AskKeepsEntries ==
    ASSUME EntriesInv, NetInv, UNCHANGED <<client, dir, born, listed, picked, held, launched>>,
           NEW q, Ask(q), RequestIn(dir, born, q)
    PROVE  EntriesInv'
  BY NetKeepsEntries DEF Ask

\* A step that leaves entries, requests, handle and launch alone.
LEMMA NothingAsked ==
    ASSUME EntriesInv, UNCHANGED <<client, dir, born, net, listed, picked, held, launched>>
    PROVE  EntriesInv'
<1>1. DirStep
  BY DEF DirStep
<1> QED
  BY <1>1, AnswersKept, EntriesKept DEF EntriesInv

\* The page is no picker.
LEMMA PageKeepsEntries ==
    ASSUME EntriesInv, ClientsInv, PageNext
    PROVE  EntriesInv'
<1>1. UNCHANGED <<client, dir, born, held, launched>>
  BY DEF PageNext, OpenPage, LoginFails, OAuthCallback, InitPage, SessionEnds, Logout,
     PageRefreshes, LoadEntry, PageReviews, SubmitBundle, PageLaunches, PageAsks, PageChooses,
     PageLists, PageShows, PageReviewed, PageDeleted, PageLaunched, PageErrs, Unheard,
     dirVars, handVars, jobVars
<1>2. NetInv /\ DirStep
  BY <1>1 DEF ClientsInv, DirStep
<1>3. Plain(Listing) /\ \A a : Plain([Listing EXCEPT !.after = a])
  BY PlainListing
<1>4. AnswersInv'
  <2>1. CASE UNCHANGED net
    BY <1>2, <2>1, AnswersKept DEF EntriesInv
  <2>2. ASSUME NEW q, Plain(q), NEW i \in Slots, net' = [net EXCEPT ![i] = q] PROVE AnswersInv'
    BY <1>2, <2>2, PlainTells, AnswersStep DEF EntriesInv
  <2>3. ASSUME NEW i \in Slots, net' = [net EXCEPT ![i] = Free] PROVE AnswersInv'
    BY <1>2, <2>3, AnswersStep DEF EntriesInv, Free
  <2>4. CASE PageRefreshes \/ LoadEntry \/ PageReviews \/ SubmitBundle \/ PageLaunches
    <3>1. PICK q : Plain(q) /\ PageAsks(q)
      <4>1. CASE PageRefreshes
        BY <1>3, <4>1 DEF PageRefreshes
      <4>2. CASE LoadEntry \/ PageReviews
        <5>1. PICK op, e, rec : PageAsks(ById(op, e, rec)) /\ op # "submit"
          BY <4>2 DEF LoadEntry, PageReviews, Buttons, Reviews
        <5> QED
          BY <5>1, PlainRequests DEF ById
      <4>3. CASE SubmitBundle \/ PageLaunches
        <5>1. PICK op, e : PageAsks(Request(op, e)) /\ (op = "submit" => e \in Names)
          BY <4>3 DEF SubmitBundle, PageLaunches, Launches
        <5> QED
          BY <5>1, PlainRequests
      <4> QED
        BY <2>4, <4>1, <4>2, <4>3
    <3> QED
      BY <2>2, <3>1 DEF PageAsks, Ask
  <2>5. CASE OpenPage \/ LoginFails \/ OAuthCallback \/ SessionEnds \/ PageChooses
    BY <2>1, <2>5 DEF OpenPage, LoginFails, OAuthCallback, SessionEnds, PageChooses
  <2>6. CASE InitPage
    BY <1>3, <2>1, <2>2, <2>6 DEF InitPage, Then
  <2>7. CASE Logout
    <3>1. tab = "ready" /\ net' = [i \in Slots |-> IF net[i] = Free THEN Free
                                                   ELSE [net[i] EXCEPT !.kept = FALSE]]
      BY <2>7 DEF Logout
    <3>2. ~ OnHandle
      BY <3>1 DEF ClientsInv, ChoiceInv, OnPage, OnHandle
    <3>3. ASSUME NEW i \in Slots, net'[i].at \in {"sent", "forwarded", "served"}
          PROVE  RequestIn(dir, born, net'[i])
      <4>1. net[i] # Free /\ net'[i] = [net[i] EXCEPT !.kept = FALSE]
        BY <3>1, <3>3 DEF Free
      <4>2. Faithful(net[i])
        BY <1>2, <3>2, <4>1, SlotHolds
      <4>3. RequestIn(dir, born, net[i])
        BY <4>2 DEF Faithful, EntriesInv, AnswersInv
      <4>4. RequestIn(dir, born, [net[i] EXCEPT !.kept = FALSE])
        BY <4>2, <4>3, RequestGoesOn
      <4> QED
        BY <4>1, <4>4
    <3> QED
      BY <1>1, <3>3 DEF AnswersInv
  <2>8. ASSUME NEW i \in Slots,
               PageLists(i) \/ PageShows(i) \/ PageReviewed(i) \/ PageDeleted(i)
                   \/ PageLaunched(i) \/ PageErrs(i) \/ Unheard(i)
        PROVE  AnswersInv'
    <3>1. \E q : (q = Free \/ Plain(q)) /\ net' = [net EXCEPT ![i] = q]
      BY <1>3, <2>8 DEF PageLists, PageShows, PageReviewed, PageDeleted, PageLaunched, PageErrs,
         Unheard, Done, Then
    <3> QED
      BY <2>2, <2>3, <3>1
  <2> QED
    BY <2>4, <2>5, <2>6, <2>7, <2>8 DEF PageNext
<1>5. OnPage \/ UNCHANGED <<listed, picked>>
  BY DEF PageNext, OpenPage, LoginFails, OAuthCallback, InitPage, SessionEnds, Logout,
     PageRefreshes, LoadEntry, PageReviews, SubmitBundle, PageLaunches, PageAsks, PageChooses,
     ClientsInv, ChoiceInv, listVars
<1>6. PickerInv'
  <2>1. CASE OnPage
    BY <1>1, <2>1 DEF PickerInv, OnPicker, OnPage
  <2>2. CASE UNCHANGED <<listed, picked>>
    BY <1>1, <1>2, <2>2, PickerKept DEF EntriesInv
  <2> QED
    BY <1>5, <2>1, <2>2
<1>7. EntryMeant'
  BY <1>1 DEF EntriesInv, EntryMeant
<1> QED
  BY <1>1, <1>2, <1>4, <1>6, <1>7, MetStaysMet, HeldKept DEF EntriesInv

\* The first usable entry of a listing is one of its entries.
LEMMA FirstIsListed ==
    ASSUME NEW rows, First(rows) # Null
    PROVE  First(rows) \in Names /\ rows[First(rows)] # Null
<1> DEFINE P == {e \in Names : Usable(rows[e])}
<1>1. P # {} /\ First(rows) = CHOOSE e \in P : \A d \in P : e <= d
  BY DEF First
<1>2. P \in SUBSET Nat /\ IsFiniteSet(P)
  <2>1. Names \in SUBSET Nat /\ IsFiniteSet(Names)
    BY ClientsAssumption, FS_Interval DEF Names
  <2> QED
    BY <2>1, FS_Subset
<1>3. \E e \in P : \A d \in P : e <= d
  BY <1>1, <1>2, LeastExists
<1>4. First(rows) \in P
  BY <1>1, <1>3
<1> QED
  BY <1>4 DEF Usable

\* The picker asks for the entry it shows.
LEMMA PickerKeepsEntries ==
    ASSUME EntriesInv, NetInv, PickerNext
    PROVE  EntriesInv'
<1>1. OnPicker /\ UNCHANGED <<client, dir, born, held, launched>>
  BY DEF PickerNext, PickerLoads, PickerSelects, PickerRuns, PickerUsesService, PickerProxies,
     PickerLaunches, PickerHears, dirVars, handVars, jobVars
<1>2. DirStep /\ DirInv'
  BY <1>1, MetStaysMet DEF DirStep, EntriesInv
<1>3. EntryMeant' /\ HeldInv'
  BY <1>1, <1>2, HeldKept DEF EntriesInv, EntryMeant
<1>4. CASE PickerLoads
  <2>1. Plain(Listing)
    BY PlainListing
  <2> QED
    BY <1>1, <1>4, <2>1, PlainTells, AskKeepsEntries DEF PickerLoads, listVars
<1>5. CASE PickerSelects
  <2>1. UNCHANGED <<net, listed>> /\ picked' \in Names /\ listed[picked'] # Null
    BY <1>5 DEF PickerSelects
  <2>2. PickerInv'
    BY <1>1, <2>1 DEF EntriesInv, PickerInv
  <2>3. AnswersInv'
    BY <1>2, <2>1, AnswersKept DEF EntriesInv
  <2> QED
    BY <1>2, <1>3, <2>2, <2>3 DEF EntriesInv
<1>6. CASE PickerRuns \/ PickerUsesService \/ PickerProxies
  <2>1. PICK op : PickerLaunches(op) /\ op # "submit"
    BY <1>6 DEF PickerRuns, PickerUsesService, PickerProxies
  <2>2. PICK id, v, w : /\ Ask([Request(op, picked) EXCEPT !.v = v, !.meant = [id |-> id, v |-> w]])
                        /\ id = listed[picked].id
    BY <2>1 DEF PickerLaunches
  <2>3. MetIn(dir, born, picked, id)
    BY <1>1, <2>1, <2>2 DEF PickerLaunches, EntriesInv, PickerInv
  <2>4. RequestIn(dir, born, [Request(op, picked) EXCEPT !.v = v, !.meant = [id |-> id, v |-> w]])
    BY <2>1, <2>3, LaunchTells
  <2> QED
    BY <1>1, <2>1, <2>2, <2>4, AskKeepsEntries DEF PickerLaunches, listVars
<1>7. ASSUME NEW i \in Slots, PickerHears(i) PROVE EntriesInv'
  <2>1. AnswersInv'
    BY <1>2, <1>7, AnswersStep DEF PickerHears, Done, Then, Free, EntriesInv
  <2>2. CASE UNCHANGED <<listed, picked>>
    BY <1>1, <1>2, <2>1, <2>2, EntriesKept
  <2>3. CASE /\ net[i].at = "served" /\ net[i].op = "lists" /\ net[i].ok
             /\ listed' = net[i].data /\ picked' = First(net[i].data)
    <3>1. \A e \in Names : listed'[e] # Null => MetIn(dir, born, e, listed'[e].id)
      BY <2>3 DEF EntriesInv, AnswersInv, RequestIn
    <3>2. picked' # Null => picked' \in Names /\ listed'[picked'] # Null
      BY <2>3, FirstIsListed
    <3>3. PickerInv'
      BY <1>1, <3>1, <3>2 DEF PickerInv
    <3> QED
      BY <1>2, <1>3, <2>1, <3>3 DEF EntriesInv
  <2> QED
    BY <1>7, <2>2, <2>3 DEF PickerHears
<1> QED
  BY <1>4, <1>5, <1>6, <1>7 DEF PickerNext

\* A handle asks for the entry it was made for.
LEMMA HandleAsks ==
    ASSUME EntriesInv, NetInv,
           HandleSubmits \/ HandleRefreshes \/ HandleValidates \/ HandleReviews \/ HandleWaits
               \/ HandleRuns \/ HandleUsesService \/ RunDeclared
    PROVE  EntriesInv'
<1>1. ASSUME NEW q, Call(q), RequestIn(dir, born, q) PROVE EntriesInv'
  BY <1>1, AskKeepsEntries DEF Call, dirVars, listVars, handVars, jobVars
<1>2. CASE HandleSubmits \/ RunDeclared
  <2>1. PICK op, e : Call(Request(op, e)) /\ (op = "submit" => e \in Names)
    BY <1>2 DEF HandleSubmits, RunDeclared
  <2> QED
    BY <1>1, <2>1, PlainRequests, PlainTells
<1>3. CASE HandleRefreshes \/ HandleValidates \/ HandleReviews
  <2>1. PICK op : Call(Mine(op)) /\ op # "submit"
    BY <1>3 DEF HandleRefreshes, HandleValidates, HandleReviews, Reviews
  <2>2. Plain(Mine(op))
    BY <2>1, PlainRequests DEF Mine
  <2> QED
    BY <1>1, <2>1, <2>2, PlainTells
<1>4. CASE HandleWaits
  <2>1. PICK goal : Call([Mine("get") EXCEPT !.goal = goal])
    BY <1>4 DEF HandleWaits
  <2>2. Plain([Mine("get") EXCEPT !.goal = goal])
    BY PlainRequests DEF Mine
  <2> QED
    BY <1>1, <2>1, <2>2, PlainTells
<1>5. CASE HandleRuns \/ HandleUsesService
  <2>1. PICK op, id, w : /\ held # Null /\ op # "submit" /\ id = held.id
                         /\ Call([Mine(op) EXCEPT !.meant = [id |-> id, v |-> w]])
    BY <1>5 DEF HandleRuns, HandleUsesService, HandleLaunches, Launches
  <2>2. MetIn(dir, born, held.e, id)
    BY <2>1 DEF EntriesInv, HeldInv
  <2>3. RequestIn(dir, born, [Mine(op) EXCEPT !.meant = [id |-> id, v |-> w]])
    BY <2>1, <2>2, LaunchTells DEF Mine
  <2> QED
    BY <1>1, <2>1, <2>3
<1> QED
  BY <1>2, <1>3, <1>4, <1>5

\* A new handle is on the entry the answer gave, and an old one stays on its.
LEMMA HandleHearsEntries ==
    ASSUME EntriesInv, NetInv, CallInv, NEW i \in Slots, HandleHears(i)
    PROVE  EntriesInv'
<1>1. /\ UNCHANGED <<client, dir, born, listed, picked, launched>>
      /\ OnHandle /\ net[i].at = "served"
  BY DEF HandleHears, dirVars, listVars, jobVars
<1>2. Faithful(net[i]) /\ RequestIn(dir, born, net[i])
  BY <1>1, SlotHolds DEF EntriesInv, AnswersInv
<1>3. DirStep /\ DirInv' /\ PickerInv' /\ EntryMeant'
  <2>1. DirStep
    BY <1>1 DEF DirStep
  <2> QED
    BY <1>1, <2>1, MetStaysMet, PickerKept DEF EntriesInv, EntryMeant
<1>4. AnswersInv'
  <2>1. RequestIn(dir, born, [net[i] EXCEPT !.at = "sent", !.ok = FALSE, !.data = Null])
    BY <1>2, RequestGoesOn
  <2>2. \/ net' = [net EXCEPT ![i] = [net[i] EXCEPT !.at = "sent", !.ok = FALSE, !.data = Null]]
        \/ net' = [net EXCEPT ![i] = Free]
        \/ net' = [net EXCEPT ![i] = [at |-> "poll"]]
    BY DEF HandleHears, HandleRaises, HandleMade, HandleReplaced, WaitsOn, HandleLaunched, Done, Then
  <2> QED
    BY <1>1, <1>3, <2>1, <2>2, AnswersStep DEF EntriesInv, Free
<1>5. HeldInv'
  <2>1. CASE UNCHANGED held
    BY <1>3, <2>1, HeldKept DEF EntriesInv
  <2>2. CASE HandleMade(i)
    <3>1. held' = HandleOn(net[i].e, net[i].data, Len(net[i].data.versions))
          /\ net[i].ok /\ net[i].op = "submit"
      BY <2>2 DEF HandleMade
    <3>2. held'.e = net[i].e /\ held'.id = net[i].data.id
      BY <3>1 DEF HandleOn
    <3> QED
      BY <1>1, <1>2, <3>1, <3>2 DEF RequestIn, HeldInv
  <2>3. CASE HandleReplaced(i)
    <3>1. IsHandle(held) /\ held' = ReplaceFrom(net[i].data) /\ held # Null
      BY <1>1, <2>3 DEF HandleReplaced, CallInv, Transitions, HasHandle
    <3>2. held'.e = held.e /\ held'.id = held.id
      BY <3>1 DEF IsHandle, ReplaceFrom
    <3> QED
      BY <1>1, <3>1, <3>2 DEF EntriesInv, HeldInv
  <2> QED
    BY <2>1, <2>2, <2>3 DEF HandleHears, HandleRaises, WaitsOn, HandleLaunched
<1> QED
  BY <1>3, <1>4, <1>5 DEF EntriesInv

\* Polls, and what becomes of the job.
LEMMA PollsKeepEntries ==
    ASSUME EntriesInv, NetInv, NEW i \in Slots, PollJob(i) \/ PollRuns(i)
    PROVE  EntriesInv'
<1>1. UNCHANGED <<client, dir, born, listed, picked, held, launched>>
  BY DEF PollJob, PollRuns, dirVars, listVars, handVars, jobVars
<1>2. \E q : net' = [net EXCEPT ![i] = q] /\ q.at \notin {"sent", "forwarded", "served"}
  <2>1. CASE PollJob(i)
    <3>1. net' = [net EXCEPT ![i] = [at |-> "polled", job |-> job]]
      BY <2>1 DEF PollJob, Then
    <3>2. [at |-> "polled", job |-> job].at = "polled"
      OBVIOUS
    <3> QED
      BY <3>1, <3>2
  <2>2. CASE PollRuns(i)
    BY <2>2 DEF PollRuns, Then, Done, Free
  <2> QED
    BY <2>1, <2>2
<1> QED
  BY <1>1, <1>2, NetKeepsEntries

LEMMA JobKeepsEntries ==
    ASSUME EntriesInv,
           AttemptStarts \/ (\E r \in DOMAIN runs : AttemptEnds(r)) \/ JobCancelled \/ OtherRun
    PROVE  EntriesInv'
<1>1. UNCHANGED <<client, dir, born, net, listed, picked, held, launched>>
  BY DEF AttemptStarts, AttemptEnds, JobCancelled, OtherRun, dirVars, listVars, handVars
<1> QED
  BY <1>1, NothingAsked

\* Every step keeps the invariant.
LEMMA EntriesStep ==
    ASSUME EntriesInv, ClientsInv, CallInv, [ClientsNext]_clientVars
    PROVE  EntriesInv'
<1>0. NetInv
  BY DEF ClientsInv
<1>1. CASE UNCHANGED clientVars
  BY <1>1, NothingAsked DEF clientVars, dirVars, listVars, handVars, jobVars
<1>2. CASE \E e \in Names : OthersAct(e)
  BY <1>2, OthersChange
<1>3. CASE \E i \in Slots : net[i] # Free /\ Serve(i)
  BY <1>0, <1>3, ServeKeepsEntries
<1>4. CASE PageNext \/ PickerNext
  BY <1>0, <1>4, PageKeepsEntries, PickerKeepsEntries
<1>5. CASE HandleNext
  BY <1>0, <1>5, HandleAsks, HandleHearsEntries, PollsKeepEntries, JobKeepsEntries DEF HandleNext
<1> QED
  BY <1>1, <1>2, <1>3, <1>4, <1>5 DEF ClientsNext

\* It holds of the directories and clients a behaviour may begin with.
LEMMA EntriesStart ==
    ASSUME ClientsInit
    PROVE  EntriesInv
<1>1. net = [i \in Slots |-> Free] /\ launched = Null /\ born = 1
  BY DEF ClientsInit
<1>2. dir \in [Names -> {Null, Published1, Approved2, Recreated1}]
  BY DirectoriesAssumption DEF ClientsInit
<1>3. \A r \in {Published1, Approved2, Recreated1} :
          DOMAIN r = RowFields /\ r.id \in {0, 1}
  BY DEF Published1, Approved2, Recreated1, RowFields
<1>4. DirInv
  BY <1>1, <1>2, <1>3 DEF DirInv
<1>5. AnswersInv /\ EntryMeant
  BY <1>1 DEF AnswersInv, EntryMeant, Free
<1>6. Published1.id = 0
  BY DEF Published1
<1>7. PickerInv
  <2>1. CASE listed = NoList
    BY <2>1, FirstIsListed DEF NoList, PickerInv, ClientsInit
  <2>2. CASE listed = EarlierList
    <3>1. \A e \in Names : listed[e] # Null => dir[e] # Null /\ listed[e] = Published1
      BY <2>2 DEF EarlierList
    <3>2. \A e \in Names : listed[e] # Null => MetIn(dir, born, e, listed[e].id)
      BY <1>1, <1>4, <1>6, <3>1 DEF DirInv, MetIn
    <3>3. picked = First(listed)
      BY DEF ClientsInit
    <3> QED
      BY <3>2, <3>3, FirstIsListed DEF PickerInv
  <2> QED
    BY <2>1, <2>2 DEF ClientsInit
<1>8. HeldInv
  <2>1. held = Null \/ held \in EarlierHandles
    BY DEF ClientsInit
  <2>2. ASSUME held \in EarlierHandles PROVE HeldInv
    <3>1. PICK e, rec, n :
             e \in Names /\
             held = HandleOn(e, rec, n) /\ dir[e] # Null /\ rec \in {dir[e], Published1}
      BY <2>2 DEF EarlierHandles
    <3>2. held.e = e /\ held.id = rec.id
      BY <3>1 DEF HandleOn
    <3> QED
      BY <1>1, <1>4, <1>6, <3>1, <3>2 DEF DirInv, MetIn, HeldInv
  <2> QED
    BY <2>1, <2>2 DEF HeldInv
<1> QED
  BY <1>4, <1>5, <1>7, <1>8 DEF EntriesInv

\* A launch runs the version that was displayed or submitted, and never one of
\* an entry earlier than the one it was displayed or submitted for
\* (runFunction and serviceAction of the picker, run() of the handle); what a
\* user chose on the page stays selected until a listing lacks it
\* (renderRuntimeSelect).
THEOREM ChoicesKept == ClientsSpec => []ChoicesAreKept
<1>1. ClientsInv /\ EntriesInv => ChoicesAreKept
  BY DEF ClientsInv, ChoiceInv, VersionMeant, EntriesInv, EntryMeant,
     ChoicesAreKept, ChoiceStays, LaunchRunsWhatWasMeant
<1> QED
  BY <1>1, ClientsInvariance, EntriesStart, EntriesStep, PTL DEF ClientsSpec

-----------------------------------------------------------------------------
(* Followers of a run: sorting a page, then what a follower has heard of     *)
(* (FollowInv) and how the stream is appended (AppendedInOrder).             *)

\* A sequence holds finitely many values.
LEMMA ValuesAreFinite ==
    ASSUME NEW s \in Seq(Nat)
    PROVE  IsFiniteSet(ToSet(s)) /\ ToSet(s) \in SUBSET Nat
<1>1. s \in Surjection(1..Len(s), ToSet(s))
  BY DEF Surjection, ToSet
<1>2. ExistsSurjection(1..Len(s), ToSet(s)) /\ Len(s) \in Nat
  BY <1>1 DEF ExistsSurjection
<1> QED
  BY <1>2, FS_NatSurjection DEF ToSet

-----------------------------------------------------------------------------

\* A page is the oldest of what was retained after a number, ascending and
\* without a gap.
LEMMA PageFacts ==
    ASSUME stream \in Seq(Nat \ {0}), NEW n \in Nat, NEW limit \in Nat \ {0}
    PROVE  LET P == Page(n, limit)
           IN  /\ P \in Seq(Nat \ {0})
               /\ Rising(P)
               /\ \A i \in DOMAIN P : P[i] > n /\ P[i] \in ToSet(stream)
               /\ \A m \in ToSet(stream), i \in DOMAIN P : n < m /\ m <= P[i] => m \in ToSet(P)
<1> DEFINE S == {m \in ToSet(stream) : m > n}
           all == After(n)
           P == Page(n, limit)
<1>1. ToSet(stream) \in SUBSET (Nat \ {0})
  BY DEF ToSet
<1>2. IsFiniteSet(S) /\ S \in SUBSET Nat
  <2>1. stream \in Seq(Nat)
    OBVIOUS
  <2> QED
    BY <1>1, <2>1, ValuesAreFinite, FS_Subset
<1>3. all \in Seq(Nat) /\ Rising(all) /\ ToSet(all) = S
  BY <1>2, AscendingSorts DEF After
<1> HIDE DEF S, all
<1>4. P = IF Len(all) <= limit THEN all ELSE SubSeq(all, 1, limit)
  BY DEF Page, all
<1>5. /\ P \in Seq(Nat) /\ DOMAIN P \subseteq DOMAIN all
      /\ \A i \in DOMAIN P : P[i] = all[i]
      /\ \A i \in DOMAIN P, j \in DOMAIN all : j <= i => j \in DOMAIN P
  <2>1. CASE Len(all) <= limit
    BY <1>3, <1>4, <2>1
  <2>2. CASE ~ (Len(all) <= limit)
    <3>1. 1 \in 1..Len(all) /\ limit \in 1..Len(all)
      BY <1>3, <2>2
    <3>2. P = SubSeq(all, 1, limit)
      BY <1>4, <2>2
    <3>3. Len(P) = limit /\ P \in Seq(Nat) /\ \A i \in 1..limit : P[i] = all[i]
      BY <1>3, <3>1, <3>2
    <3> QED
      BY <1>3, <3>1, <3>3
  <2> QED
    BY <2>1, <2>2
<1> HIDE DEF P
<1>6. \A i \in DOMAIN all : all[i] \in S /\ all[i] \in Nat /\ i \in Nat
  BY <1>3 DEF ToSet
<1>7. Rising(P)
  BY <1>3, <1>5 DEF Rising
<1>8. \A i \in DOMAIN P : P[i] > n /\ P[i] \in ToSet(stream)
  BY <1>5, <1>6 DEF S
<1>9. P \in Seq(Nat \ {0})
  <2>1. \A i \in 1..Len(P) : P[i] \in Nat \ {0}
    BY <1>1, <1>5, <1>8
  <2> QED
    BY <1>5, <2>1
<1>10. ASSUME NEW m \in ToSet(stream), NEW i \in DOMAIN P, n < m, m <= P[i]
       PROVE  m \in ToSet(P)
  <2>1. m \in S /\ m \in Nat
    BY <1>1, <1>10 DEF S
  <2>2. PICK j \in DOMAIN all : all[j] = m
    BY <1>3, <2>1 DEF ToSet
  <2>3. i \in DOMAIN all /\ P[i] = all[i] /\ i \in Nat /\ j \in Nat /\ all[i] \in Nat
    BY <1>5, <1>6
  <2>4. ~ (i < j)
    BY <1>3, <1>10, <2>1, <2>2, <2>3 DEF Rising
  <2>5. j \in DOMAIN P
    BY <1>5, <2>3, <2>4
  <2> QED
    BY <1>5, <2>2, <2>5 DEF ToSet
<1> QED
  BY <1>7, <1>8, <1>9, <1>10 DEF P
-----------------------------------------------------------------------------

\* A websocket that is open.
OpenStates == [at : {"open"}, last : Nat, page : Seq(Nat \ {0})]

EventsType ==
    /\ stream \in Seq(Nat \ {0})
    /\ sequence \in Nat
    /\ taken \in [Publishers -> Nat]
    /\ follower \in [Followers -> {Away} \cup OpenStates]
    /\ got \in [Followers -> Seq(Nat \ {0})]

\* What a follower is about to be sent.
OnPageOf(f) == IF follower[f] = Away THEN {} ELSE ToSet(follower[f].page)

\* What a follower has heard of.
Heard(f) == ToSet(got[f]) \cup OnPageOf(f)

\* A follower reads on from the last number it received, whichever way it
\* follows, and everything it gets rises.
FollowInv ==
    \A f \in Followers :
        /\ Rising(got[f])
        /\ follower[f] # Away =>
               /\ follower[f].last = Received(f)
               /\ Rising(follower[f].page)
               /\ \A n \in ToSet(follower[f].page) : n > follower[f].last

\* n was numbered before every number that is still to be appended.
Old(n) == n <= sequence /\ \A p \in Publishers : taken[p] # 0 => n < taken[p]

\* With one emit at a time the stream is appended in the order of its numbers,
\* so nothing appears behind what a follower has heard of.
AppendedInOrder ==
    /\ \A p, q \in Publishers : taken[p] # 0 /\ taken[q] # 0 => p = q
    /\ \A p \in Publishers : taken[p] # 0 => taken[p] = sequence
    /\ \A n \in ToSet(stream) : Old(n)
    /\ \A f \in Followers :
           /\ \A n \in Heard(f) : Old(n)
           /\ \A n \in ToSet(stream) : \A m \in Heard(f) : n <= m => n \in Heard(f)

EventsInv == EventsType /\ FollowInv /\ (~ overlapped /\ ~ expired => AppendedInOrder)

-----------------------------------------------------------------------------

\* The last number received is the largest.
LEMMA ReceivedIsLargest ==
    ASSUME NEW f, got[f] \in Seq(Nat \ {0}), Rising(got[f])
    PROVE  /\ Received(f) \in Nat
           /\ \A n \in ToSet(got[f]) : n <= Received(f)
           /\ got[f] # << >> => Received(f) \in ToSet(got[f])
<1>1. CASE got[f] = << >>
  BY <1>1 DEF Received, ToSet
<1>2. CASE got[f] # << >>
  <2> DEFINE s == got[f]
             l == Len(s)
  <2>1. l \in DOMAIN s /\ l \in Nat /\ Received(f) = s[l] /\ s[l] \in Nat \ {0}
    BY <1>2 DEF Received, Last
  <2>2. \A i \in DOMAIN s : s[i] \in Nat /\ (i < l \/ i = l)
    OBVIOUS
  <2>3. \A i \in DOMAIN s : s[i] <= s[l]
    BY <2>1, <2>2 DEF Rising
  <2> QED
    BY <1>2, <2>1, <2>3 DEF ToSet
<1> QED
  BY <1>1, <1>2

\* A step of the worker or of Redis leaves the followers alone.
LEMMA WorkerStep ==
    ASSUME EventsInv, UNCHANGED <<follower, got>>,
           stream' \in Seq(Nat \ {0}), sequence' \in Nat, taken' \in [Publishers -> Nat],
           ~ overlapped' /\ ~ expired' => AppendedInOrder'
    PROVE  EventsInv'
<1>1. EventsType'
  BY DEF EventsInv, EventsType
<1>2. FollowInv'
  BY DEF EventsInv, FollowInv, Received
<1> QED
  BY <1>1, <1>2 DEF EventsInv

\* Emits and expiries.
LEMMA EmitStep ==
    ASSUME EventsInv, NEW p \in Publishers, Number(p) \/ Publish(p) \/ PublishFails(p)
    PROVE  EventsInv'
<1> USE DEF EventsInv, EventsType
<1>1. CASE Number(p)
  <2>1. stream' = stream /\ sequence' = sequence + 1 /\ taken' = [taken EXCEPT ![p] = sequence + 1]
        /\ UNCHANGED <<follower, got, expired>>
    BY <1>1 DEF Number
  <2>2. ASSUME ~ overlapped', ~ expired' PROVE AppendedInOrder'
    <3>1. ~ overlapped /\ ~ expired /\ \A q \in Publishers : taken[q] = 0
      BY <1>1, <2>2 DEF Number
    <3>2. AppendedInOrder
      BY <3>1
    <3>3. \A n \in Nat : Old(n) => Old(n)'
      BY <2>1, <3>1 DEF Old
    <3>4. \A f \in Followers : Heard(f)' = Heard(f)
      BY <2>1 DEF Heard, OnPageOf
    <3>5. \A n \in ToSet(stream) : n \in Nat
      BY DEF ToSet
    <3>6. \A f \in Followers : \A n \in Heard(f) : n \in Nat
      BY DEF Heard, OnPageOf, ToSet, OpenStates, Away
    <3> QED
      BY <2>1, <3>1, <3>2, <3>3, <3>4, <3>5, <3>6 DEF AppendedInOrder
  <2> QED
    BY <2>1, <2>2, WorkerStep
<1>2. CASE Publish(p)
  <2>1. stream' = Appended(taken[p]) /\ taken' = [taken EXCEPT ![p] = 0] /\ taken[p] # 0
        /\ UNCHANGED <<sequence, follower, got, overlapped, expired>>
    BY <1>2 DEF Publish
  <2>2. stream' \in Seq(Nat \ {0}) /\ ToSet(stream') \subseteq ToSet(stream) \cup {taken[p]}
    <3> DEFINE longer == Append(stream, taken[p])
    <3>1. longer \in Seq(Nat \ {0}) /\ longer # << >>
      BY <2>1
    <3>2. ToSet(longer) \subseteq ToSet(stream) \cup {taken[p]}
      BY <2>1 DEF ToSet
    <3>3. Tail(longer) \in Seq(Nat \ {0}) /\ ToSet(Tail(longer)) \subseteq ToSet(longer)
      BY <3>1 DEF ToSet
    <3> QED
      BY <2>1, <3>1, <3>2, <3>3 DEF Appended
  <2>3. ASSUME ~ overlapped', ~ expired' PROVE AppendedInOrder'
    <3>1. AppendedInOrder
      BY <2>1, <2>3
    <3>2. taken[p] = sequence /\ \A q \in Publishers : taken'[q] = 0
      BY <2>1, <3>1 DEF AppendedInOrder
    <3>3. \A n : Old(n) => Old(n)'
      BY <2>1, <3>2 DEF Old
    <3>4. \A n \in {taken[p]} : Old(n)'
      BY <2>1, <3>2 DEF Old
    <3>5. \A f \in Followers : Heard(f)' = Heard(f)
      BY <2>1 DEF Heard, OnPageOf
    <3>6. \A f \in Followers : \A m \in Heard(f) : m \in Nat /\ m < taken[p]
      <4>1. \A f \in Followers : \A n \in Heard(f) : n \in Nat
        BY DEF Heard, OnPageOf, ToSet, OpenStates, Away
      <4> QED
        BY <4>1, <3>1, <2>1 DEF AppendedInOrder, Old
    <3>7. ASSUME NEW f \in Followers, NEW n \in ToSet(stream'), NEW m \in Heard(f), n <= m
          PROVE  n \in Heard(f)
      <4>1. n # taken[p]
        BY <3>6, <3>7
      <4>2. n \in ToSet(stream)
        BY <2>2, <4>1
      <4> QED
        BY <3>1, <3>7, <4>2 DEF AppendedInOrder
    <3>8. \A n \in ToSet(stream') : Old(n)'
      BY <2>2, <3>1, <3>3, <3>4 DEF AppendedInOrder
    <3>9. \A f \in Followers : \A n \in Heard(f) : Old(n)'
      BY <3>1, <3>3 DEF AppendedInOrder
    <3>10. ToSet(stream)' = ToSet(stream')
      OBVIOUS
    <3> QED
      BY <3>2, <3>5, <3>7, <3>8, <3>9, <3>10 DEF AppendedInOrder
  <2> QED
    BY <2>1, <2>2, <2>3, WorkerStep
<1>3. CASE PublishFails(p)
  <2>1. taken' = [taken EXCEPT ![p] = 0]
        /\ UNCHANGED <<stream, sequence, follower, got, overlapped, expired>>
    BY <1>3 DEF PublishFails
  <2>2. ASSUME ~ overlapped', ~ expired' PROVE AppendedInOrder'
    <3>1. AppendedInOrder
      BY <2>1, <2>2
    <3>2. \A n : Old(n) => Old(n)'
      BY <2>1 DEF Old
    <3>3. \A f \in Followers : Heard(f)' = Heard(f)
      BY <2>1 DEF Heard, OnPageOf
    <3> QED
      BY <2>1, <3>1, <3>2, <3>3 DEF AppendedInOrder
  <2> QED
    BY <2>1, <2>2, WorkerStep
<1> QED
  BY <1>1, <1>2, <1>3

\* An expiry of the keys ends the promise of an ordered stream.
LEMMA ExpiryStep ==
    ASSUME EventsInv, RateExpires \/ KeysExpire \/ UNCHANGED eventVars
    PROVE  EventsInv'
<1> USE DEF EventsInv, EventsType
<1>1. CASE RateExpires \/ UNCHANGED eventVars
  <2>1. UNCHANGED <<stream, sequence, taken, follower, got, overlapped, expired>>
    BY <1>1 DEF RateExpires, eventVars
  <2>2. AppendedInOrder => AppendedInOrder'
    BY <2>1 DEF AppendedInOrder, Old, Heard, OnPageOf
  <2> QED
    BY <2>1, <2>2, WorkerStep
<1>2. CASE KeysExpire
  BY <1>2, WorkerStep DEF KeysExpire
<1> QED
  BY <1>1, <1>2

\* The values of a sequence by its places.
LEMMA Values ==
    ASSUME NEW s \in Seq(Nat \ {0})
    PROVE  /\ DOMAIN s = 1..Len(s) /\ Len(s) \in Nat
           /\ \A i \in 1..Len(s) : s[i] \in Nat \ {0}
           /\ \A n : n \in ToSet(s) <=> \E i \in 1..Len(s) : s[i] = n
  BY DEF ToSet

\* The places of two sequences, one after the other.
LEMMA Places ==
    ASSUME NEW a \in Nat, NEW b \in Nat, NEW i \in 1..(a + b)
    PROVE  /\ i <= a => i \in 1..a
           /\ ~ (i <= a) => i - a \in 1..b
           /\ \A j \in 1..(a + b) : i < j =>
                  i - a < j - a /\ (j <= a => i <= a)
  OBVIOUS

\* Sequences that rise, one above the other.
LEMMA RisingConcat ==
    ASSUME NEW s \in Seq(Nat \ {0}), NEW t \in Seq(Nat \ {0}), Rising(s), Rising(t),
           \A m \in ToSet(s), n \in ToSet(t) : m < n
    PROVE  /\ s \o t \in Seq(Nat \ {0})
           /\ Rising(s \o t)
           /\ ToSet(s \o t) = ToSet(s) \cup ToSet(t)
<1> DEFINE u == s \o t
<1>1. u \in Seq(Nat \ {0}) /\ Len(u) = Len(s) + Len(t)
      /\ \A i \in 1..Len(u) : u[i] = IF i <= Len(s) THEN s[i] ELSE t[i - Len(s)]
  OBVIOUS
<1> HIDE DEF u
<1>0. /\ DOMAIN s = 1..Len(s) /\ Len(s) \in Nat /\ DOMAIN t = 1..Len(t) /\ Len(t) \in Nat
      /\ DOMAIN u = 1..Len(u) /\ Len(u) \in Nat
      /\ \A n : n \in ToSet(s) <=> \E i \in 1..Len(s) : s[i] = n
      /\ \A n : n \in ToSet(t) <=> \E i \in 1..Len(t) : t[i] = n
      /\ \A n : n \in ToSet(u) <=> \E i \in 1..Len(u) : u[i] = n
  BY <1>1, Values
<1>2. ASSUME NEW i \in DOMAIN u, NEW j \in DOMAIN u, i < j PROVE u[i] < u[j]
  <2> DEFINE a == Len(s)
             b == Len(t)
  <2>0. /\ a \in Nat /\ b \in Nat /\ i \in 1..(a + b) /\ j \in 1..(a + b)
        /\ DOMAIN s = 1..a /\ DOMAIN t = 1..b
        /\ u[i] = IF i <= a THEN s[i] ELSE t[i - a]
        /\ u[j] = IF j <= a THEN s[j] ELSE t[j - a]
    BY <1>0, <1>1
  <2> HIDE DEF a, b
  <2>1. CASE j <= a
    <3>1. i <= a /\ i \in DOMAIN s /\ j \in DOMAIN s
      BY <1>2, <2>0, <2>1, Places
    <3> QED
      BY <1>2, <2>0, <2>1, <3>1 DEF Rising
  <2>2. CASE ~ (j <= a) /\ i <= a
    <3>1. i \in DOMAIN s /\ j - a \in DOMAIN t
      BY <2>0, <2>2, Places
    <3>2. s[i] \in ToSet(s) /\ t[j - a] \in ToSet(t)
      BY <3>1 DEF ToSet
    <3> QED
      BY <2>0, <2>2, <3>2
  <2>3. CASE ~ (j <= a) /\ ~ (i <= a)
    <3>1. i - a \in DOMAIN t /\ j - a \in DOMAIN t /\ i - a < j - a
      BY <1>2, <2>0, <2>3, Places
    <3> QED
      BY <2>0, <2>3, <3>1 DEF Rising
  <2> QED
    BY <2>1, <2>2, <2>3
<1>3. ASSUME NEW i \in 1..Len(u) PROVE u[i] \in ToSet(s) \cup ToSet(t)
  <2>1. CASE i <= Len(s)
    <3>1. i \in 1..Len(s) /\ u[i] = s[i]
      BY <1>0, <1>1, <2>1
    <3> QED
      BY <1>0, <3>1
  <2>2. CASE ~ (i <= Len(s))
    <3>1. i - Len(s) \in 1..Len(t) /\ u[i] = t[i - Len(s)]
      BY <1>0, <1>1, <2>2
    <3> QED
      BY <1>0, <3>1
  <2> QED
    BY <2>1, <2>2
<1>4. ASSUME NEW i \in 1..Len(s) PROVE s[i] \in ToSet(u)
  <2>1. i \in 1..Len(u) /\ u[i] = s[i]
    BY <1>0, <1>1
  <2> QED
    BY <1>0, <2>1
<1>5. ASSUME NEW i \in 1..Len(t) PROVE t[i] \in ToSet(u)
  <2>1. i + Len(s) \in 1..Len(u) /\ ~ (i + Len(s) <= Len(s)) /\ (i + Len(s)) - Len(s) = i
    BY <1>0, <1>1
  <2>2. u[i + Len(s)] = t[i]
    BY <1>1, <2>1
  <2> QED
    BY <1>0, <2>1, <2>2
<1>6. ToSet(u) = ToSet(s) \cup ToSet(t)
  BY <1>0, <1>3, <1>4, <1>5
<1> QED
  BY <1>1, <1>2, <1>6 DEF Rising, u

\* The first of a rising sequence is its smallest.
LEMMA RisingTail ==
    ASSUME NEW t \in Seq(Nat \ {0}), t # << >>, Rising(t)
    PROVE  /\ Head(t) \in Nat \ {0}
           /\ Tail(t) \in Seq(Nat \ {0})
           /\ Rising(Tail(t))
           /\ ToSet(t) = {Head(t)} \cup ToSet(Tail(t))
           /\ \A n \in ToSet(Tail(t)) : n > Head(t)
<1> DEFINE u == Tail(t)
<1>1. /\ u \in Seq(Nat \ {0}) /\ Len(t) \in Nat \ {0} /\ Len(u) = Len(t) - 1
      /\ \A i \in 1..Len(u) : u[i] = t[i + 1] /\ i + 1 \in 1..Len(t)
      /\ Head(t) = t[1] /\ 1 \in DOMAIN t
  OBVIOUS
<1> HIDE DEF u
<1>0. /\ DOMAIN u = 1..Len(u) /\ Len(u) \in Nat /\ DOMAIN t = 1..Len(t)
      /\ \A i \in 1..Len(t) : t[i] \in Nat \ {0}
      /\ \A n : n \in ToSet(t) <=> \E i \in 1..Len(t) : t[i] = n
      /\ \A n : n \in ToSet(u) <=> \E i \in 1..Len(u) : u[i] = n
  BY <1>1, Values
<1>2. ASSUME NEW i \in DOMAIN u, NEW j \in DOMAIN u, i < j PROVE u[i] < u[j]
  <2>1. i \in 1..Len(u) /\ j \in 1..Len(u) /\ i + 1 < j + 1
    BY <1>0, <1>2
  <2>2. i + 1 \in DOMAIN t /\ j + 1 \in DOMAIN t /\ u[i] = t[i + 1] /\ u[j] = t[j + 1]
    BY <1>0, <1>1, <2>1
  <2> QED
    BY <2>1, <2>2 DEF Rising
<1>3. ASSUME NEW i \in 1..Len(u) PROVE u[i] > t[1] /\ u[i] \in ToSet(t)
  <2>1. i + 1 \in 1..Len(t) /\ 1 < i + 1 /\ u[i] = t[i + 1]
    BY <1>0, <1>1
  <2>2. t[1] < t[i + 1] /\ t[1] \in Nat /\ t[i + 1] \in Nat
    BY <1>0, <1>1, <2>1 DEF Rising
  <2> QED
    BY <1>0, <2>1, <2>2
<1>4. ASSUME NEW i \in 1..Len(t) PROVE t[i] \in {t[1]} \cup ToSet(u)
  <2>1. CASE i = 1
    BY <2>1
  <2>2. CASE i # 1
    <3>1. i - 1 \in 1..Len(u) /\ (i - 1) + 1 = i
      BY <1>0, <1>1, <2>2
    <3>2. u[i - 1] = t[i]
      BY <1>1, <3>1
    <3> QED
      BY <1>0, <3>1, <3>2
  <2> QED
    BY <2>1, <2>2
<1>5. ToSet(t) = {t[1]} \cup ToSet(u)
  BY <1>0, <1>1, <1>3, <1>4
<1>6. \A n \in ToSet(u) : n > t[1]
  BY <1>0, <1>3
<1>7. t[1] \in Nat \ {0}
  BY <1>0, <1>1
<1> QED
  BY <1>1, <1>2, <1>5, <1>6, <1>7 DEF u, Rising

\* What one follower does leaves the worker and the other followers alone.
LEMMA OneFollower ==
    ASSUME EventsInv, NEW f \in Followers,
           UNCHANGED <<stream, sequence, taken, overlapped, expired>>,
           NEW s \in Seq(Nat \ {0}), NEW x \in {Away} \cup OpenStates,
           got' = [got EXCEPT ![f] = s], follower' = [follower EXCEPT ![f] = x],
           Rising(s),
           x # Away => /\ x.last = Received(f)'
                       /\ Rising(x.page)
                       /\ \A n \in ToSet(x.page) : n > x.last,
           AppendedInOrder =>
               /\ \A n \in Heard(f)' : Old(n)
               /\ \A n \in ToSet(stream) : \A m \in Heard(f)' : n <= m => n \in Heard(f)'
    PROVE  EventsInv'
<1>1. got'[f] = s /\ follower'[f] = x
  BY DEF EventsInv, EventsType
<1>2. EventsType'
  BY DEF EventsInv, EventsType
<1>3. ASSUME NEW g \in Followers, g # f
      PROVE  got'[g] = got[g] /\ follower'[g] = follower[g] /\ Heard(g)' = Heard(g)
             /\ Received(g)' = Received(g)
  BY <1>3 DEF EventsInv, EventsType, Heard, OnPageOf, Received
<1>4. FollowInv'
  <2>1. ASSUME NEW g \in Followers
        PROVE  /\ Rising(got'[g])
               /\ follower'[g] # Away =>
                      /\ follower'[g].last = Received(g)'
                      /\ Rising(follower'[g].page)
                      /\ \A n \in ToSet(follower'[g].page) : n > follower'[g].last
    <3>1. CASE g = f
      BY <1>1, <3>1
    <3>2. CASE g # f
      BY <1>3, <3>2 DEF EventsInv, FollowInv
    <3> QED
      BY <3>1, <3>2
  <2> QED
    BY <2>1 DEF FollowInv, Away, Rising, ToSet
<1>5. ASSUME AppendedInOrder PROVE AppendedInOrder'
  <2>1. \A n : Old(n)' <=> Old(n)
    BY DEF Old
  <2>2. ASSUME NEW g \in Followers
        PROVE  /\ \A n \in Heard(g)' : Old(n)
               /\ \A n \in ToSet(stream) : \A m \in Heard(g)' : n <= m => n \in Heard(g)'
    <3>1. CASE g = f
      BY <1>5, <3>1
    <3>2. CASE g # f
      BY <1>3, <1>5, <3>2 DEF AppendedInOrder
    <3> QED
      BY <3>1, <3>2
  <2>3. ToSet(stream)' = ToSet(stream)
    BY DEF ToSet
  <2> QED
    BY <1>5, <2>1, <2>2, <2>3 DEF AppendedInOrder
<1> QED
  BY <1>2, <1>4, <1>5 DEF EventsInv

\* Listing, streaming and losing the stream.
LEMMA FollowStep ==
    ASSUME EventsInv, NEW f \in Followers,
           List(f) \/ Follow(f) \/ ReadPage(f) \/ Send(f) \/ Disconnect(f)
    PROVE  EventsInv'
<1> DEFINE s == got[f]
           x == follower[f]
<1>0. /\ s \in Seq(Nat \ {0}) /\ x \in {Away} \cup OpenStates /\ Rising(s)
      /\ stream \in Seq(Nat \ {0})
      /\ ToSet(stream) \in SUBSET (Nat \ {0}) /\ ToSet(s) \in SUBSET (Nat \ {0})
      /\ got \in [Followers -> Seq(Nat \ {0})]
      /\ follower \in [Followers -> {Away} \cup OpenStates]
  BY DEF EventsInv, EventsType, FollowInv, ToSet
<1>1. /\ Received(f) \in Nat
      /\ \A n \in ToSet(s) : n <= Received(f)
      /\ s # << >> => Received(f) \in ToSet(s)
  BY <1>0, ReceivedIsLargest
<1>2. s = << >> => Received(f) = 0
  BY DEF Received
<1>3. x # Away => /\ x \in OpenStates /\ x.last = Received(f) /\ Rising(x.page)
                  /\ \A n \in ToSet(x.page) : n > x.last
  BY <1>0 DEF EventsInv, FollowInv
<1>4. Heard(f) = ToSet(s) \cup OnPageOf(f) /\ (x = Away => OnPageOf(f) = {})
      /\ (x # Away => OnPageOf(f) = ToSet(x.page))
  BY DEF Heard, OnPageOf
<1>5. AppendedInOrder => /\ \A n \in ToSet(stream) : Old(n)
                         /\ \A n \in Heard(f) : Old(n)
                         /\ \A n \in ToSet(stream) : \A m \in Heard(f) : n <= m => n \in Heard(f)
  BY DEF AppendedInOrder
\* What is retained and not above the last number received was received.
<1>6. ASSUME AppendedInOrder, NEW n \in ToSet(stream), n <= Received(f) PROVE n \in ToSet(s)
  <2>1. s # << >> /\ Received(f) \in ToSet(s)
    BY <1>0, <1>1, <1>2, <1>6
  <2>2. n \in Heard(f)
    BY <1>4, <1>5, <1>6, <2>1
  <2>3. n \notin OnPageOf(f)
    BY <1>0, <1>1, <1>3, <1>4, <1>6
  <2> QED
    BY <1>4, <2>2, <2>3
<1> HIDE DEF s, x
\* The numbers received and a page read after them.
<1>7. ASSUME NEW limit \in Nat \ {0}
      PROVE  LET P == Page(Received(f), limit)
             IN  /\ P \in Seq(Nat \ {0}) /\ Rising(P)
                 /\ \A n \in ToSet(P) : n \in Nat /\ n > Received(f) /\ n \in ToSet(stream)
                 /\ AppendedInOrder =>
                        /\ \A n \in ToSet(s) \cup ToSet(P) : Old(n)
                        /\ \A n \in ToSet(stream) : \A m \in ToSet(s) \cup ToSet(P) :
                               n <= m => n \in ToSet(s) \cup ToSet(P)
  <2> DEFINE P == Page(Received(f), limit)
  <2>1. /\ P \in Seq(Nat \ {0}) /\ Rising(P)
        /\ \A i \in DOMAIN P : P[i] > Received(f) /\ P[i] \in ToSet(stream)
        /\ \A m \in ToSet(stream), i \in DOMAIN P :
               Received(f) < m /\ m <= P[i] => m \in ToSet(P)
    BY <1>0, <1>1, <1>7, PageFacts
  <2> HIDE DEF P
  <2>2. \A n \in ToSet(P) : n \in Nat /\ n > Received(f) /\ n \in ToSet(stream)
    BY <1>0, <2>1 DEF ToSet
  <2>3. ASSUME AppendedInOrder, NEW n \in ToSet(stream), NEW m \in ToSet(s) \cup ToSet(P), n <= m
        PROVE  n \in ToSet(s) \cup ToSet(P)
    <3>1. CASE n <= Received(f)
      BY <1>6, <2>3, <3>1
    <3>2. CASE ~ (n <= Received(f))
      <4>1. n \in Nat /\ Received(f) < n
        BY <1>0, <1>1, <3>2
      <4>2. m \in ToSet(P)
        BY <1>0, <1>1, <2>3, <4>1
      <4>3. PICK i \in DOMAIN P : m = P[i]
        BY <4>2 DEF ToSet
      <4> QED
        BY <2>1, <2>3, <4>1, <4>3
    <3> QED
      BY <3>1, <3>2
  <2> QED
    BY <1>4, <1>5, <2>1, <2>2, <2>3 DEF P
<1>8. CASE List(f)
  <2>1. PICK limit \in 1..Retained :
           /\ x = Away
           /\ got' = [got EXCEPT ![f] = s \o Page(Received(f), limit)]
           /\ UNCHANGED <<stream, sequence, taken, follower, overlapped, expired>>
    BY <1>8 DEF List, s, x
  <2> DEFINE P == Page(Received(f), limit)
  <2>2. limit \in Nat \ {0}
    BY RunEventsAssumption
  <2>3. /\ s \o P \in Seq(Nat \ {0}) /\ Rising(s \o P)
        /\ ToSet(s \o P) = ToSet(s) \cup ToSet(P)
    <3>1. \A m \in ToSet(s), n \in ToSet(P) : m < n
      BY <1>0, <1>1, <1>7, <2>2
    <3> QED
      BY <1>0, <1>7, <2>2, <3>1, RisingConcat
  <2>4. follower' = [follower EXCEPT ![f] = Away]
    BY <1>0, <2>1 DEF x
  <2>5. Heard(f)' = ToSet(s) \cup ToSet(P)
    <3>1. got'[f] = s \o P /\ follower'[f] = Away
      BY <1>0, <2>1, <2>4
    <3> QED
      BY <2>3, <3>1 DEF Heard, OnPageOf
  <2> QED
    BY <1>7, <2>1, <2>2, <2>3, <2>4, <2>5, OneFollower
<1>9. CASE Follow(f)
  <2> DEFINE y == [at |-> "open", last |-> Received(f), page |-> << >>]
  <2>1. /\ x = Away /\ follower' = [follower EXCEPT ![f] = y] /\ got' = got
        /\ UNCHANGED <<stream, sequence, taken, overlapped, expired>>
    BY <1>9 DEF Follow, x
  <2>2. y \in OpenStates
    BY <1>1 DEF OpenStates
  <2>3. got' = [got EXCEPT ![f] = s] /\ Received(f)' = Received(f)
    BY <1>0, <2>1 DEF s, Received
  <2>4. Heard(f)' = Heard(f)
    <3>1. follower'[f] = y /\ got'[f] = s
      BY <1>0, <2>1 DEF s
    <3>2. ToSet(y.page) = {} /\ y # Away
      BY DEF ToSet, Away
    <3> HIDE DEF y
    <3>3. Heard(f)' = ToSet(s) \cup ToSet(y.page)
      BY <3>1, <3>2 DEF Heard, OnPageOf
    <3> QED
      BY <1>4, <2>1, <3>2, <3>3
  <2>5. Rising(y.page) /\ \A n \in ToSet(y.page) : n > y.last
    BY DEF Rising, ToSet
  <2>6. y.last = Received(f)
    OBVIOUS
  <2>7. AppendedInOrder =>
               /\ \A n \in Heard(f)' : Old(n)
               /\ \A n \in ToSet(stream) : \A m \in Heard(f)' : n <= m => n \in Heard(f)'
    BY <1>5, <2>4
  <2>8. y.last = Received(f)'
    BY <2>3, <2>6
  <2> HIDE DEF y
  <2> QED
    BY <1>0, <2>1, <2>2, <2>3, <2>5, <2>7, <2>8, OneFollower
<1>10. CASE ReadPage(f)
  <2> DEFINE P == Page(Received(f), Retained)
             y == [x EXCEPT !.page = P]
  <2>1. x # Away
    BY <1>10 DEF ReadPage, Away, x
  <2>2. x \in OpenStates /\ x.last = Received(f) /\ x.page = << >>
    BY <1>3, <1>10, <2>1 DEF ReadPage, x
  <2>3. /\ follower' = [follower EXCEPT ![f] = y] /\ got' = got
        /\ UNCHANGED <<stream, sequence, taken, overlapped, expired>>
    BY <1>0, <1>10, <2>2 DEF ReadPage, x
  <2>4. Retained \in Nat \ {0}
    BY RunEventsAssumption
  <2>5. y \in OpenStates /\ y.page = P /\ y.last = Received(f) /\ y # Away
    BY <1>7, <2>2, <2>4 DEF OpenStates, Away
  <2>6. got' = [got EXCEPT ![f] = s] /\ Received(f)' = Received(f)
    BY <1>0, <2>3 DEF s, Received
  <2>7. Heard(f)' = ToSet(s) \cup ToSet(P)
    <3>1. follower'[f] = y /\ got'[f] = s
      BY <1>0, <2>3 DEF s
    <3> QED
      BY <2>5, <3>1 DEF Heard, OnPageOf
  <2>8. Rising(y.page) /\ \A n \in ToSet(y.page) : n > y.last
    BY <1>7, <2>4, <2>5
  <2>9. AppendedInOrder =>
               /\ \A n \in Heard(f)' : Old(n)
               /\ \A n \in ToSet(stream) : \A m \in Heard(f)' : n <= m => n \in Heard(f)'
    BY <1>7, <2>4, <2>7
  <2> HIDE DEF y, P
  <2> QED
    BY <1>0, <2>3, <2>5, <2>6, <2>8, <2>9, OneFollower
<1>11. CASE Send(f)
  <2> DEFINE n == Head(x.page)
             y == [x EXCEPT !.last = n, !.page = Tail(x.page)]
  <2>1. x # Away
    BY <1>11 DEF Send, Away, x
  <2>2. x \in OpenStates /\ x.last = Received(f) /\ x.page # << >> /\ Rising(x.page)
        /\ x.page \in Seq(Nat \ {0})
    BY <1>3, <1>11, <2>1 DEF Send, x, OpenStates
  <2>3. /\ follower' = [follower EXCEPT ![f] = y] /\ got' = [got EXCEPT ![f] = Append(s, n)]
        /\ UNCHANGED <<stream, sequence, taken, overlapped, expired>>
    BY <1>0, <1>11, <2>2 DEF Send, x, s
  <2>4. /\ n \in Nat \ {0} /\ Tail(x.page) \in Seq(Nat \ {0}) /\ Rising(Tail(x.page))
        /\ ToSet(x.page) = {n} \cup ToSet(Tail(x.page))
        /\ \A m \in ToSet(Tail(x.page)) : m > n
    BY <2>2, RisingTail
  <2>5. y \in OpenStates /\ y.page = Tail(x.page) /\ y.last = n /\ y # Away
    BY <2>2, <2>4 DEF OpenStates, Away
  <2>6. n > Received(f)
    BY <1>3, <2>1, <2>2, <2>4
  <2> HIDE DEF n, y
  <2>7. Append(s, n) \in Seq(Nat \ {0}) /\ Rising(Append(s, n))
        /\ ToSet(Append(s, n)) = ToSet(s) \cup {n}
    <3>1. Append(s, n) = s \o <<n>> /\ <<n>> \in Seq(Nat \ {0})
      BY <1>0, <2>4
    <3>2. Rising(<<n>>) /\ ToSet(<<n>>) = {n}
      BY <2>4 DEF Rising, ToSet
    <3>3. \A m \in ToSet(s) : m \in Nat /\ m < n
      BY <1>0, <1>1, <2>4, <2>6
    <3>4. \A m \in ToSet(s), k \in ToSet(<<n>>) : m < k
      BY <3>2, <3>3
    <3> DEFINE t == <<n>>
    <3>5. t \in Seq(Nat \ {0}) /\ Rising(t) /\ \A m \in ToSet(s), k \in ToSet(t) : m < k
      BY <3>1, <3>2, <3>4
    <3> HIDE DEF t
    <3>6. s \o t \in Seq(Nat \ {0}) /\ Rising(s \o t) /\ ToSet(s \o t) = ToSet(s) \cup ToSet(t)
      BY <1>0, <3>5, RisingConcat
    <3> QED
      BY <3>1, <3>2, <3>6 DEF t
  <2>8. follower'[f] = y /\ got'[f] = Append(s, n)
    BY <1>0, <2>3
  <2>9. Received(f)' = n
    <3>1. Len(Append(s, n)) = Len(s) + 1 /\ Len(s) \in Nat /\ Append(s, n)[Len(s) + 1] = n
      BY <1>0, <2>4
    <3>2. Last(Append(s, n)) = n
      BY <3>1 DEF Last
    <3>3. Append(s, n) # << >>
      BY <3>1, EmptySeq
    <3> QED
      BY <2>8, <3>2, <3>3 DEF Received
  <2>10. Heard(f)' = Heard(f)
    <3>1. Heard(f)' = ToSet(Append(s, n)) \cup ToSet(Tail(x.page))
      BY <2>5, <2>8 DEF Heard, OnPageOf
    <3> QED
      BY <1>4, <2>1, <2>4, <2>7, <3>1
  <2> QED
    BY <1>5, <2>3, <2>4, <2>5, <2>7, <2>9, <2>10, OneFollower
<1>12. CASE Disconnect(f)
  <2>1. x # Away
    BY <1>12 DEF Disconnect, Away, x
  <2>2. /\ follower' = [follower EXCEPT ![f] = Away] /\ got' = [got EXCEPT ![f] = s]
        /\ UNCHANGED <<stream, sequence, taken, overlapped, expired>>
    BY <1>0, <1>12 DEF Disconnect, s
  <2>3. Heard(f)' = ToSet(s)
    <3>1. follower'[f] = Away /\ got'[f] = s
      BY <1>0, <2>2
    <3> QED
      BY <3>1 DEF Heard, OnPageOf
  <2>4. ASSUME AppendedInOrder, NEW n \in ToSet(stream), NEW m \in ToSet(s), n <= m
        PROVE  n \in ToSet(s)
    <3>1. n <= Received(f)
      BY <1>0, <1>1, <2>4
    <3> QED
      BY <1>6, <2>4, <3>1
  <2>5. AppendedInOrder => \A n \in ToSet(s) : Old(n)
    BY <1>4, <1>5
  <2> QED
    BY <1>0, <2>2, <2>3, <2>4, <2>5, OneFollower
<1> QED
  BY <1>8, <1>9, <1>10, <1>11, <1>12

\* What the worker, Redis and the followers keep.
THEOREM EventsInvariance == EventsSpec => []EventsInv
<1>1. EventsInit => EventsInv
  <2> SUFFICES ASSUME EventsInit PROVE EventsInv
    OBVIOUS
  <2>1. EventsType
    BY DEF EventsInit, EventsType
  <2>2. FollowInv
    BY DEF EventsInit, FollowInv, Rising, Away
  <2>3. AppendedInOrder
    BY DEF EventsInit, AppendedInOrder, Heard, OnPageOf, ToSet, Old
  <2> QED
    BY <2>1, <2>2, <2>3 DEF EventsInv
<1>2. EventsInv /\ [EventsNext]_eventVars => EventsInv'
  BY EmitStep, ExpiryStep, FollowStep DEF EventsNext
<1> QED
  BY <1>1, <1>2, PTL DEF EventsSpec

\* A client that follows a run, by listing or by websocket, gets every retained
\* event up to the last number it received, ascending and once each, while emits
\* do not overlap and the stream does not expire: RunEventPublisher.emit,
\* list_run_events and stream_run_events.
THEOREM NothingMissed == EventsSpec => []FollowersMissNothing
<1>1. ASSUME EventsInv PROVE FollowersMissNothing
  <2>1. ASSUME NEW f \in Followers
        PROVE  /\ \A i, j \in DOMAIN got[f] : i < j => got[f][i] < got[f][j]
               /\ (~ overlapped /\ ~ expired) =>
                      \A n \in ToSet(stream) : n <= Received(f) => n \in ToSet(got[f])
    <3>1. got[f] \in Seq(Nat \ {0}) /\ Rising(got[f])
      BY <1>1 DEF EventsInv, EventsType, FollowInv
    <3>2. /\ Received(f) \in Nat
          /\ got[f] # << >> => Received(f) \in ToSet(got[f])
          /\ got[f] = << >> => Received(f) = 0
      BY <3>1, ReceivedIsLargest DEF Received
    <3>3. ASSUME ~ overlapped, ~ expired, NEW n \in ToSet(stream), n <= Received(f)
          PROVE  n \in ToSet(got[f])
      <4>1. n \in Nat \ {0}
        BY <1>1 DEF EventsInv, EventsType, ToSet
      <4>2. Received(f) \in ToSet(got[f])
        BY <3>2, <3>3, <4>1
      <4>3. n \in Heard(f)
        BY <1>1, <3>3, <4>2 DEF EventsInv, AppendedInOrder, Heard
      <4>4. n \notin OnPageOf(f)
        BY <1>1, <3>2, <3>3, <4>1 DEF EventsInv, FollowInv, OnPageOf
      <4> QED
        BY <4>3, <4>4 DEF Heard
    <3> QED
      BY <3>1, <3>3 DEF Rising
  <2> QED
    BY <2>1 DEF FollowersMissNothing
<1> QED
  BY <1>1, EventsInvariance, PTL

=============================================================================
