------------------------- MODULE ControlPlaneProofs -------------------------
(***************************************************************************)
(* Proofs about the API process, for any number of connections, any        *)
(* deployment, any lifetime of the Hub cache and any number of service     *)
(* rows.  The front door's invariant has two parts: how old the knowledge  *)
(* is that a request or the cache holds of the Hub's user (Recency), and   *)
(* what the limiter's row says of the requests it let through (Limiting).  *)
(* The service host's has two as well: a runtime's name fixes the source   *)
(* it runs as far as the name holds its hash (UpFits, Naming), and, while   *)
(* requests follow one another, what each step of a handler leaves for the  *)
(* next (Orderly).                                                         *)
(***************************************************************************)
EXTENDS ControlPlane, SequenceTheorems, TLAPS

-----------------------------------------------------------------------------
(* The front door's invariant                                              *)

Roles == {"admin", "member", "viewer"}

Requests ==
    [at : {"idle"}]
    \cup [at : {"hub"}, token : Tokens, route : Routes, asked : Nat]
    \cup [at : {"returned"}, token : Tokens, route : Routes, asked : Nat, model : HubModels]
    \cup [at : {"count"}, token : Tokens, route : Routes, role : Roles,
          model : HubModels \cup {None}, minted : Nat]
    \cup [at : {"write", "reset"}, token : Tokens, route : Routes, role : Roles, t : 0..MaxTime,
          seen : Counters \cup {None}]
    \cup [at : {"admitted"}, token : Tokens, route : Routes, role : Roles]

DoorType ==
    /\ conf \in Deployments
    /\ now \in Nat /\ now <= conf.ticks
    /\ hub \in HubModels \cup {None}
    /\ held \in [HubModels -> Nat \cup {None}]
    /\ cache \in HubAnswers \cup {None}
    /\ counters \in [Keys -> Counters \cup {None}]
    /\ req \in [Callers -> Requests]
    /\ passes \in [Keys -> [0..MaxTime -> Nat]]
    /\ lapped \subseteq Keys

\* The model was the user's no longer than d before time t.
HeldWithin(m, d, t) == held[m] \in Nat /\ held[m] + d >= t

\* How long the cache answers after the minute of its stamp.
Slack == IF Ttl > 0 THEN Ttl - 1 ELSE 0

\* A request waits for the Hub no longer than the timeout, and an answer is
\* about the user as it was once the Hub had been asked.
RecentRequest(r) ==
    /\ r.at \in {"hub", "returned"} => r.asked <= now /\ now <= r.asked + HubTimeout
    /\ r.at = "returned" => HeldWithin(r.model, 0, r.asked)
    /\ r.at = "count" /\ r.token = "hub" =>
          r.model \in HubModels /\ HeldWithin(r.model, HubTimeout + Slack, r.minted)

\* The stamp of the cache is at most a timeout later than its answer.
RecentCache ==
    cache # None => cache.at <= now /\ HeldWithin(cache.model, HubTimeout, cache.at)

Recency ==
    /\ hub # None => held[hub] = now
    /\ \A m \in HubModels : held[m] # None => held[m] <= now
    /\ RecentCache
    /\ \A c \in Callers : RecentRequest(req[c])

\* A row, once there, stays; the request that is alone in the limiter with its
\* key has seen the row as it is.
Alone(c) == \A d \in Callers : Counting(d) /\ Key(req[d]) = Key(req[c]) => d = c

Fresh(c) ==
    LET r == req[c]
        row == counters[Key(r)]
    IN  /\ Alone(c)
        /\ r.t <= now
        /\ r.at = "write" => r.seen = row /\ (row # None => row.start <= r.t)
        /\ r.at = "reset" => row # None /\ row.start < r.t

\* What the row of a key says of the requests that were let through.
Counted(k) ==
    /\ \A t \in 0..MaxTime : passes[k][t] <= conf.limit
    /\ counters[k] = None => \A t \in 0..MaxTime : passes[k][t] = 0
    /\ counters[k] # None =>
          /\ counters[k].start <= now
          /\ \A t \in 0..MaxTime : t > counters[k].start => passes[k][t] = 0
          /\ \A t \in 0..MaxTime : t = counters[k].start => passes[k][t] <= counters[k].count

Limiting ==
    /\ \A c \in Callers : Counting(c) =>
          /\ conf.limit > 0
          /\ req[c].seen # None \/ req[c].at = "reset" => counters[Key(req[c])] # None
          /\ Key(req[c]) \notin lapped => Fresh(c)
    /\ conf.limit > 0 => \A k \in Keys \ lapped : Counted(k)

DoorInv == DoorType /\ Recency /\ Limiting

-----------------------------------------------------------------------------
(* The service host's invariant                                            *)

StartSteps ==
    {"oldrow", "oldruntime", "oldrecord", "remove", "create", "await", "failed", "register", "point",
     "probe", "proof", "undo", "undone"}
ValidateSteps == {"remove", "create", "await", "failed", "unload", "verdict"}
StopSteps == {"end", "endrow", "endrecord"}

\* A handler that works on the record as it read it.
RecordWork(op, steps) ==
    [op : {op}, rec : Records, row : Nat \cup {Nothing}, ok : BOOLEAN, name : Names, at : steps]

Works ==
    [at : {"idle"}]
    \cup [at : {"save"}, source : Sources]
    \cup RecordWork("start", StartSteps)
    \cup RecordWork("validate", ValidateSteps)
    \cup RecordWork("stop", StopSteps)
    \cup [op : {"probe"}, row : Nat, ok : BOOLEAN, at : {"probe", "proof"}]
    \cup [op : {"proxy"}, row : Nat, ok : BOOLEAN, at : {"proxy"}]

\* A name that holds a hash fixes what runs under it.
UpFits ==
    /\ up \in [Names -> Sources \cup {Nothing}]
    /\ \A n \in Names : n.source = Nothing \/ up[n] \in {n.source, Nothing}
    /\ strays \subseteq {n \in Names : up[n] # Nothing}

HostType ==
    /\ kind \in Kinds
    /\ record \in Records \cup {Nothing}
    /\ rows \in Seq(ServiceRows)
    /\ UpFits
    /\ work \in [Hosts -> Works]
    /\ disturbed \in BOOLEAN

OnRecord(w) == w.at \notin {"idle", "save"} /\ w.op \in {"start", "validate", "stop"}

\* The rows that a record or a handler names are there.
Referring ==
    /\ record # Nothing /\ record.active # Nothing => record.active \in DOMAIN rows
    /\ \A c \in Hosts :
          /\ OnRecord(work[c]) => record # Nothing
          /\ OnRecord(work[c]) /\ work[c].rec.active # Nothing =>
                work[c].rec.active \in DOMAIN rows
          /\ work[c].at \in {"point", "probe", "proof", "undo", "undone", "proxy"} =>
                work[c].row \in DOMAIN rows

\* A row's source fixes its name, as the source a handler read does.
Routed(r) == r.url = Elsewhere \/ (r.source \in Sources /\ r.url = RuntimeName(r.source, ""))

Naming ==
    /\ \A i \in DOMAIN rows : Routed(rows[i])
    /\ \A c \in Hosts : OnRecord(work[c]) =>
          work[c].name = RuntimeName(work[c].rec.source,
                                     IF work[c].op = "validate" THEN "validate" ELSE "")

\* The runtimes that are up and were not left behind by an exception, and the
\* rows of started services that a request may still reach or revive.
Up == {n \in Names : up[n] # Nothing} \ strays
Listed == {i \in DOMAIN rows : rows[i].url # Elsewhere /\ rows[i].status \notin {"stopped", "deleted"}}

\* Between requests: what is up is named by the record, what is listed is the
\* record's active row, a listed row that says running has its runtime, and
\* nothing else runs under a listed row's name, cut or not.
NamedOnly  == Up = {} \/ (record # Nothing /\ Up \subseteq {record.name})
ActiveOnly == Listed = {} \/ (record # Nothing /\ Listed \subseteq {record.active})
Backed     == \A i \in Listed : rows[i].status = "running" => rows[i].url \in Up
Serving    == \A i \in Listed : up[rows[i].url] \in {rows[i].source, Nothing}
Settled    == NamedOnly /\ ActiveOnly /\ Backed /\ Serving

\* Name and row of the record belong together, and the name is no stray's.
Paired ==
    record # Nothing =>
        /\ record.active = Nothing <=> record.name = Nothing
        /\ record.name # Nothing =>
              record.name = RuntimeName(record.source, "") /\ record.name \notin strays
        /\ record.active # Nothing => rows[record.active].url = record.name

\* What a start has done so far.
StartMidway(w) ==
    /\ record # Nothing /\ record.source = w.rec.source
    /\ w.at \in {"oldrow", "oldruntime"} => record = w.rec
    /\ w.at = "oldrow" => Settled
    /\ w.at = "oldruntime" => NamedOnly /\ record.name # Nothing
    /\ w.at \in {"oldruntime", "oldrecord", "remove", "create", "await", "failed", "register"} =>
          Listed = {}
    /\ w.at \in {"oldrecord", "remove", "create", "failed", "undone"} => Up = {}
    /\ w.at \in {"remove", "create", "await", "failed", "register", "point"} =>
          record.name = Nothing
    /\ w.at \in {"await", "register", "point", "probe", "proof", "undo"} => Up \subseteq {w.name}
    /\ w.at \in {"register", "point", "probe", "proof"} => w.name \in Up
    /\ w.at \in {"await", "register"} => up[w.name] \in {w.rec.source, Nothing}
    /\ w.at = "await" => w.name \notin strays
    /\ w.at \in {"point", "probe", "proof", "undo", "undone"} => Serving
    /\ w.at \in {"point", "probe", "proof", "undo", "undone"} =>
          /\ Listed = {w.row}
          /\ rows[w.row].url = w.name
          /\ rows[w.row].status # "running"
    /\ w.at \in {"probe", "proof", "undo", "undone"} =>
          record.active = w.row /\ record.name = w.name

\* What a validation, and what a stop, has done so far.
ValidateMidway(w) ==
    /\ record = w.rec /\ ActiveOnly /\ Backed /\ Serving
    /\ Up \subseteq {record.name} \cup (IF w.at \in {"await", "unload"} THEN {w.name} ELSE {})

StopMidway(w) ==
    /\ record = w.rec
    /\ w.at = "end" => Settled
    /\ w.at = "endrow" => Up = {} /\ ActiveOnly
    /\ w.at = "endrecord" => Up = {} /\ Listed = {}

\* What a probe or a proxied request has seen.
RowMidway(w) ==
    /\ Settled
    /\ w.row \in Listed \/ rows[w.row].url = Elsewhere
    /\ w.at = "proof" /\ w.ok /\ rows[w.row].url # Elsewhere => rows[w.row].url \in Up

Midway(w) ==
    /\ w.at = "save" => Settled
    /\ w.at # "save" /\ w.op = "start" => StartMidway(w)
    /\ w.at # "save" /\ w.op = "validate" => ValidateMidway(w)
    /\ w.at # "save" /\ w.op = "stop" => StopMidway(w)
    /\ w.at # "save" /\ w.op \in {"probe", "proxy"} => RowMidway(w)

\* While nothing has disturbed the requests, one handler at a time is at work.
Orderly ==
    ~disturbed =>
        /\ Paired
        /\ (\A c \in Hosts : work[c] = Free) => Settled
        /\ \A c \in Hosts : \A w \in {work[c]} : w # Free =>
              (\A d \in Hosts \ {c} : work[d] = Free) /\ Midway(w)

HostShape == HostType /\ Referring /\ Naming
HostInv == HostShape /\ Orderly

-----------------------------------------------------------------------------
(* The front door                                                          *)

\* The fields a request carries, by the step it is at.
LEMMA RequestShapes ==
    ASSUME NEW r \in Requests
    PROVE  /\ r.at = "hub" => r.token \in Tokens /\ r.route \in Routes /\ r.asked \in Nat
           /\ r.at = "returned" =>
                 r.token \in Tokens /\ r.route \in Routes /\ r.asked \in Nat /\ r.model \in HubModels
           /\ r.at = "count" =>
                 /\ r.token \in Tokens /\ r.route \in Routes /\ r.role \in Roles
                 /\ r.model \in HubModels \cup {None} /\ r.minted \in Nat
           /\ r.at \in {"write", "reset"} =>
                 /\ r \in [at : {"write", "reset"}, token : Tokens, route : Routes, role : Roles,
                           t : 0..MaxTime, seen : Counters \cup {None}]
                 /\ Key(r) \in Keys
           /\ r.at = "idle" => r = Idle
  BY DEF Requests, Idle, Key, Keys

\* A caller without a request owes the counters nothing.
LEMMA IdleRequest ==
    Idle \in Requests /\ RecentRequest(Idle) /\ Idle.at \notin {"write", "reset"}
  BY DEF Idle, Requests, RecentRequest

\* A principal is a request.
LEMMA PrincipalType ==
    ASSUME DoorType, NEW token \in Tokens, NEW route \in Routes, NEW role \in Roles,
           NEW m \in HubModels \cup {None}
    PROVE  /\ Principal(token, route, role, m) \in Requests
           /\ Principal(token, route, role, m).at = "count"
           /\ Principal(token, route, role, m).token = token
           /\ Principal(token, route, role, m).model = m
           /\ Principal(token, route, role, m).minted = now
  BY DEF DoorType, Principal, Requests

\* A step that writes one request, and at most the cache, keeps the types and
\* the ages.
LEMMA RequestStep ==
    ASSUME DoorType, Recency, NEW c \in Callers, NEW r \in Requests, req' = [req EXCEPT ![c] = r],
           UNCHANGED <<conf, now, hub, held, counters, passes, lapped>>,
           cache' \in HubAnswers \cup {None}, RecentCache', RecentRequest(r)
    PROVE  DoorType' /\ Recency'
<1>1. DoorType'
  BY DEF DoorType
<1>2. \A d \in Callers : req'[d] = IF d = c THEN r ELSE req[d]
  BY DEF DoorType
<1>3. ASSUME NEW d \in Callers PROVE RecentRequest(req[d])'
  <2>1. RecentRequest(req'[d])
    BY <1>2 DEF Recency
  <2> QED BY <2>1 DEF RecentRequest, HeldWithin
<1> QED BY <1>1, <1>3 DEF Recency

\* ... and what the limiter knows, when it ends or never begins to count.
LEMMA UncountedStep ==
    ASSUME DoorType, Limiting, NEW c \in Callers, NEW r, r.at \notin {"write", "reset"},
           req' = [req EXCEPT ![c] = r], UNCHANGED <<conf, now, counters, passes, lapped>>
    PROVE  Limiting'
<1>1. \A d \in Callers : req'[d] = IF d = c THEN r ELSE req[d]
  BY DEF DoorType
<1>2. \A d \in Callers : Counting(d)' => d # c /\ Counting(d) /\ req'[d] = req[d]
  BY <1>1 DEF Counting
<1>3. \A k \in Keys \ lapped : Counted(k) => Counted(k)'
  BY DEF Counted
<1>4. \A d \in Callers : Counting(d)' /\ Fresh(d) => Fresh(d)'
  BY <1>2 DEF Fresh, Alone
<1> QED BY <1>2, <1>3, <1>4 DEF Limiting

\* Both together.
LEMMA PlainStep ==
    ASSUME DoorInv, NEW c \in Callers, NEW r \in Requests, r.at \notin {"write", "reset"},
           RecentRequest(r), req' = [req EXCEPT ![c] = r],
           UNCHANGED <<conf, now, hub, held, cache, counters, passes, lapped>>
    PROVE  DoorInv'
<1>1. RecentCache' /\ cache' \in HubAnswers \cup {None}
  BY DEF DoorInv, Recency, RecentCache, HeldWithin, DoorType
<1> QED BY <1>1, RequestStep, UncountedStep DEF DoorInv

\* Steps of the hosts leave the front door alone.
LEMMA DoorUnchanged ==
    ASSUME DoorInv, UNCHANGED <<conf, now, hub, held, cache, counters, passes, lapped, req>>
    PROVE  DoorInv'
<1>1. DoorType'
  BY DEF DoorInv, DoorType
<1>2. Recency'
  BY DEF DoorInv, Recency, RecentCache, RecentRequest, HeldWithin
<1>3. Limiting'
  BY DEF DoorInv, Limiting, Counting, Counted, Fresh, Alone
<1> QED BY <1>1, <1>2, <1>3 DEF DoorInv

\* Time: nobody waits longer than the timeout, and the user's model is still
\* the user's.
LEMMA TickStep ==
    ASSUME DoorInv, Tick
    PROVE  DoorInv'
<1> USE TimesAssumption, DeploymentsAssumption, NoneAssumption
<1>1. DoorType'
  BY DEF DoorInv, DoorType, Tick
<1>2. now \in Nat /\ now' = now + 1 /\ req' = req /\ cache' = cache
  BY DEF DoorInv, DoorType, Tick
<1>3. ASSUME NEW m \in HubModels, held[m] # None
      PROVE  held'[m] \in Nat /\ held'[m] >= held[m] /\ held'[m] <= now'
  BY <1>2, <1>3 DEF DoorInv, DoorType, Recency, Tick
<1>4. ASSUME NEW m \in HubModels, NEW d \in Nat, NEW t \in Nat, HeldWithin(m, d, t)
      PROVE  held'[m] \in Nat /\ held'[m] + d >= t
  <2>1. held[m] \in Nat /\ held[m] # None
    BY <1>4 DEF HeldWithin
  <2> QED BY <1>3, <1>4, <2>1 DEF HeldWithin
<1>5. RecentCache'
  <2>1. cache # None => cache.model \in HubModels /\ cache.at \in Nat
    BY DEF DoorInv, DoorType, HubAnswers
  <2> QED BY <1>2, <1>4, <2>1 DEF RecentCache, DoorInv, DoorType, Recency, HeldWithin
<1>6. ASSUME NEW c \in Callers PROVE RecentRequest(req[c])'
  <2>1. req[c] \in Requests /\ RecentRequest(req[c])
    BY DEF DoorInv, DoorType, Recency
  <2>2. req[c].at \in {"hub", "returned"} =>
            req[c].asked <= now' /\ now' <= req[c].asked + HubTimeout
    BY <1>2, <2>1, RequestShapes DEF RecentRequest, Tick, Waiting
  <2>3. req[c].at = "returned" =>
            held'[req[c].model] \in Nat /\ held'[req[c].model] + 0 >= req[c].asked
    BY <1>2, <1>4, <2>1, RequestShapes DEF RecentRequest
  <2>4. req[c].at = "count" /\ req[c].token = "hub" =>
            /\ held'[req[c].model] \in Nat
            /\ held'[req[c].model] + (HubTimeout + Slack) >= req[c].minted
    BY <1>2, <1>4, <2>1, RequestShapes DEF RecentRequest, Slack
  <2> QED BY <1>2, <2>1, <2>2, <2>3, <2>4 DEF RecentRequest, HeldWithin, Slack
<1>7. Recency'
  <2>1. hub' # None => held'[hub'] = now'
    BY DEF DoorInv, DoorType, Tick
  <2>2. \A m \in HubModels : held'[m] # None => held'[m] <= now'
    BY <1>2 DEF DoorInv, DoorType, Recency, Tick
  <2> QED BY <1>5, <1>6, <2>1, <2>2 DEF Recency
<1>8. Limiting'
  <2>1. UNCHANGED <<conf, counters, req, passes, lapped>> /\ now <= now'
    BY <1>2 DEF Tick
  <2>2. ASSUME NEW k \in Keys \ lapped, Counted(k) PROVE Counted(k)'
    <3>1. counters[k] # None => counters[k].start \in Nat
      BY DEF DoorInv, DoorType, Counters
    <3> QED BY <1>2, <2>1, <2>2, <3>1 DEF Counted
  <2>3. ASSUME NEW d \in Callers, Counting(d), Fresh(d) PROVE Fresh(d)'
    <3>1. req[d].t \in Nat
      BY <2>3, RequestShapes DEF Counting, DoorInv, DoorType
    <3> QED BY <1>2, <2>1, <2>3, <3>1 DEF Fresh, Alone, Counting
  <2> QED BY <2>1, <2>2, <2>3 DEF Limiting, DoorInv, Counting
<1> QED BY <1>1, <1>7, <1>8 DEF DoorInv

\* The Hub's user changes: what was known of it is as old as it was.
LEMMA ChangeStep ==
    ASSUME DoorInv, NEW model \in HubModels \cup {None}, ChangeHubUser(model)
    PROVE  DoorInv'
<1> USE TimesAssumption, NoneAssumption
<1>1. DoorType'
  BY DEF DoorInv, DoorType, ChangeHubUser
<1>2. /\ now \in Nat
      /\ UNCHANGED <<conf, now, cache, counters, req, passes, lapped>>
  BY DEF DoorInv, DoorType, ChangeHubUser
<1>3. ASSUME NEW m \in HubModels, held[m] # None
      PROVE  held'[m] \in Nat /\ held'[m] >= held[m]
  BY <1>2, <1>3 DEF DoorInv, DoorType, Recency, ChangeHubUser
<1>4. ASSUME NEW m \in HubModels, NEW d \in Nat, NEW t \in Nat, HeldWithin(m, d, t)
      PROVE  held'[m] \in Nat /\ held'[m] + d >= t
  <2>1. held[m] \in Nat /\ held[m] # None
    BY <1>4 DEF HeldWithin
  <2> QED BY <1>3, <1>4, <2>1 DEF HeldWithin
<1>5. RecentCache'
  <2>1. cache # None => cache.model \in HubModels /\ cache.at \in Nat
    BY DEF DoorInv, DoorType, HubAnswers
  <2> QED BY <1>2, <1>4, <2>1 DEF RecentCache, DoorInv, DoorType, Recency, HeldWithin
<1>6. ASSUME NEW c \in Callers PROVE RecentRequest(req[c])'
  <2>1. req[c] \in Requests /\ RecentRequest(req[c])
    BY DEF DoorInv, DoorType, Recency
  <2>2. req[c].at = "returned" =>
            held'[req[c].model] \in Nat /\ held'[req[c].model] + 0 >= req[c].asked
    BY <1>2, <1>4, <2>1, RequestShapes DEF RecentRequest
  <2>3. req[c].at = "count" /\ req[c].token = "hub" =>
            /\ held'[req[c].model] \in Nat
            /\ held'[req[c].model] + (HubTimeout + Slack) >= req[c].minted
    BY <1>2, <1>4, <2>1, RequestShapes DEF RecentRequest, Slack
  <2> QED BY <1>2, <2>1, <2>2, <2>3 DEF RecentRequest, HeldWithin, Slack
<1>7. Recency'
  <2>1. hub' # None => held'[hub'] = now'
    BY <1>2 DEF DoorInv, DoorType, ChangeHubUser
  <2>2. \A m \in HubModels : held'[m] # None => held'[m] <= now'
    BY <1>2 DEF DoorInv, DoorType, Recency, ChangeHubUser
  <2> QED BY <1>5, <1>6, <2>1, <2>2 DEF Recency
<1>8. Limiting'
  BY <1>2 DEF DoorInv, Limiting, Counting, Counted, Fresh, Alone
<1> QED BY <1>1, <1>7, <1>8 DEF DoorInv

\* What the cache or the Hub says makes a principal that is recent enough.
LEMMA HubPrincipal ==
    ASSUME DoorType, NEW route \in Routes, NEW m \in HubModels,
           HeldWithin(m, HubTimeout + Slack, now)
    PROVE  /\ Principal("hub", route, HubRole(m), m) \in Requests
           /\ Principal("hub", route, HubRole(m), m).at = "count"
           /\ RecentRequest(Principal("hub", route, HubRole(m), m))
<1>1. HubRole(m) \in Roles /\ "hub" \in Tokens
  BY DEF HubRole, Roles, Tokens
<1>2. /\ Principal("hub", route, HubRole(m), m) \in Requests
      /\ Principal("hub", route, HubRole(m), m).at = "count"
      /\ Principal("hub", route, HubRole(m), m).model = m
      /\ Principal("hub", route, HubRole(m), m).minted = now
  BY <1>1, PrincipalType
<1> QED BY <1>2 DEF RecentRequest

\* A request finds a cached role, a fixed token or asks the Hub.
LEMMA AuthenticateStep ==
    ASSUME DoorInv, NEW c \in Callers, NEW token \in Tokens, NEW route \in Routes,
           Authenticate(c, token, route)
    PROVE  DoorInv'
<1> USE TimesAssumption, NoneAssumption
<1>0. UNCHANGED <<conf, now, hub, held, cache, counters, passes, lapped>> /\ now \in Nat
  BY DEF Authenticate, DoorInv, DoorType
<1>1. ASSUME NEW r \in Requests, r.at \in {"idle", "hub", "count"}, RecentRequest(r), Go(c, r)
      PROVE  DoorInv'
  BY <1>0, <1>1, PlainStep DEF Go
<1>2. Idle \in Requests /\ Idle.at = "idle" /\ RecentRequest(Idle)
  BY IdleRequest DEF Idle
<1>3. ASSUME NEW role \in Roles, token # "hub"
      PROVE  /\ Principal(token, route, role, None) \in Requests
             /\ Principal(token, route, role, None).at = "count"
             /\ RecentRequest(Principal(token, route, role, None))
  <2>1. /\ Principal(token, route, role, None) \in Requests
        /\ Principal(token, route, role, None).at = "count"
        /\ Principal(token, route, role, None).token = token
    BY PrincipalType DEF DoorInv
  <2> QED BY <1>3, <2>1 DEF RecentRequest
<1>4. CASE token = "bootstrap"
  <2>1. Go(c, Principal(token, route, "admin", None))
    BY <1>4 DEF Authenticate
  <2>2. "admin" \in Roles
    BY DEF Roles
  <2> QED BY <1>1, <1>3, <1>4, <2>1, <2>2
<1>5. CASE token = "local"
  <2>1. Go(c, Idle) \/ Go(c, Principal(token, route, "member", None))
    BY <1>5 DEF Authenticate, LocalRole
  <2>2. "member" \in Roles
    BY DEF Roles
  <2> QED BY <1>1, <1>2, <1>3, <1>5, <2>1, <2>2
<1>6. CASE token = "oidc"
  <2>1. Go(c, Idle) \/ Go(c, Principal(token, route, "member", None))
    BY <1>6 DEF Authenticate, OidcRole
  <2>2. "member" \in Roles
    BY DEF Roles
  <2> QED BY <1>1, <1>2, <1>3, <1>6, <2>1, <2>2
<1>7. CASE token = "hub" /\ Cached
  <2>1. cache \in HubAnswers /\ RecentCache /\ cache # None
    BY <1>7 DEF Cached, DoorInv, DoorType, Recency
  <2>2. cache.model \in HubModels /\ cache.at \in Nat
    BY <2>1 DEF HubAnswers
  <2>3. HeldWithin(cache.model, HubTimeout + Slack, now)
    BY <1>0, <1>7, <2>1, <2>2 DEF RecentCache, HeldWithin, Slack, Cached
  <2>4. Go(c, Idle) \/ Go(c, Principal("hub", route, HubRole(cache.model), cache.model))
    BY <1>7 DEF Authenticate, FromHub
  <2> QED BY <1>1, <1>2, <2>2, <2>3, <2>4, HubPrincipal DEF DoorInv
<1>8. CASE token = "hub" /\ ~Cached
  <2> DEFINE r == [at |-> "hub", token |-> token, route |-> route, asked |-> now]
  <2>1. Go(c, r) /\ r \in Requests /\ r.at = "hub" /\ RecentRequest(r)
    BY <1>0, <1>8 DEF Authenticate, Requests, RecentRequest
  <2> QED BY <1>1, <2>1
<1> QED BY <1>4, <1>5, <1>6, <1>7, <1>8 DEF Tokens

\* The Hub is read, its answer arrives, or it refuses.
LEMMA HubStep ==
    ASSUME DoorInv, NEW c \in Callers, HubReads(c) \/ HubReturns(c) \/ HubRefuses(c)
    PROVE  DoorInv'
<1> USE TimesAssumption, NoneAssumption
<1>0. req[c] \in Requests /\ RecentRequest(req[c]) /\ now \in Nat
  BY DEF DoorInv, DoorType, Recency
<1>1. CASE HubReads(c)
  <2> DEFINE r == [at |-> "returned", token |-> req[c].token, route |-> req[c].route,
                   asked |-> req[c].asked, model |-> hub]
  <2>1. req[c].at = "hub" /\ hub \in HubModels /\ held[hub] = now
    BY <1>1 DEF HubReads, DoorInv, DoorType, Recency
  <2>2. r \in Requests
    BY <1>0, <2>1, RequestShapes DEF Requests
  <2>3. RecentRequest(r)
    BY <1>0, <2>1, RequestShapes DEF RecentRequest, HeldWithin
  <2> QED BY <1>1, <2>2, <2>3, PlainStep DEF HubReads, Go
<1>2. CASE HubReturns(c)
  <2>1. /\ req[c].at = "returned" /\ req[c].model \in HubModels /\ req[c].route \in Routes
        /\ req[c].asked \in Nat
    BY <1>0, <1>2, RequestShapes DEF HubReturns
  <2>2. HeldWithin(req[c].model, HubTimeout + Slack, now) /\ HeldWithin(req[c].model, HubTimeout, now)
    BY <1>0, <2>1 DEF RecentRequest, HeldWithin, Slack
  <2>3. RecentCache' /\ cache' \in HubAnswers \cup {None}
    <3>1. CASE cache' = cache
      BY <1>2, <3>1 DEF HubReturns, RecentCache, HeldWithin, DoorInv, DoorType, Recency
    <3>2. CASE cache' = [at |-> now, model |-> req[c].model]
      BY <1>0, <1>2, <2>1, <2>2, <3>2 DEF HubReturns, RecentCache, HeldWithin, HubAnswers
    <3> QED BY <1>2, <3>1, <3>2 DEF HubReturns
  <2>4. PICK r \in Requests : /\ req' = [req EXCEPT ![c] = r] /\ RecentRequest(r)
                              /\ r.at \notin {"write", "reset"}
    <3>1. CASE ~Allowed(req[c].model)
      BY <1>2, <3>1, IdleRequest DEF HubReturns, FromHub, Go
    <3>2. CASE Allowed(req[c].model)
      <4> DEFINE r == Principal(req[c].token, req[c].route, HubRole(req[c].model), req[c].model)
      <4>1. req' = [req EXCEPT ![c] = r]
        BY <1>2, <3>2 DEF HubReturns, FromHub, Go
      <4>2. HubRole(req[c].model) \in Roles /\ req[c].token \in Tokens
        BY <1>0, <2>1, RequestShapes DEF HubRole, Roles
      <4>3. /\ r \in Requests /\ r.at = "count" /\ r.model = req[c].model /\ r.minted = now
        BY <2>1, <4>2, PrincipalType DEF DoorInv
      <4>4. RecentRequest(r)
        BY <2>1, <2>2, <4>3 DEF RecentRequest
      <4> QED BY <4>1, <4>3, <4>4
    <3> QED BY <3>1, <3>2
  <2>5. UNCHANGED <<conf, now, hub, held, counters, passes, lapped>>
    BY <1>2 DEF HubReturns
  <2>6. DoorType' /\ Recency'
    BY <2>3, <2>4, <2>5, RequestStep DEF DoorInv
  <2>7. Limiting'
    BY <2>4, <2>5, UncountedStep DEF DoorInv
  <2> QED BY <2>6, <2>7 DEF DoorInv
<1>3. CASE HubRefuses(c)
  BY <1>3, IdleRequest, PlainStep DEF HubRefuses, Go
<1> QED BY <1>1, <1>2, <1>3

\* A request that begins to count has seen the row, or its key has lapped.
LEMMA ReadCounterStep ==
    ASSUME DoorInv, NEW c \in Callers, ReadCounter(c)
    PROVE  DoorInv'
<1> USE TimesAssumption, NoneAssumption, DeploymentsAssumption
<1> DEFINE k == Key(req[c])
           r == [at |-> "write", token |-> req[c].token, route |-> req[c].route,
                 role |-> req[c].role, t |-> now, seen |-> counters[k]]
<1>0. /\ req[c].at = "count" /\ req[c] \in Requests /\ conf.limit > 0
      /\ UNCHANGED <<conf, now, hub, held, cache, counters, passes>>
      /\ req' = [req EXCEPT ![c] = r]
  BY DEF ReadCounter, Go, DoorInv, DoorType
<1>1. req[c].token \in Tokens /\ req[c].route \in Routes /\ req[c].role \in Roles
  BY <1>0, RequestShapes
<1>2. k \in Keys /\ Key(r) = k /\ now \in 0..MaxTime /\ counters[k] \in Counters \cup {None}
  BY <1>1 DEF Key, Keys, DoorInv, DoorType
<1>3. r \in Requests
  BY <1>1, <1>2 DEF Requests
<1>4. lapped \subseteq lapped' /\ lapped' \subseteq Keys
  BY <1>2 DEF ReadCounter, DoorInv, DoorType
<1>5. DoorType'
  BY <1>0, <1>3, <1>4 DEF DoorInv, DoorType
<1>6. \A d \in Callers : req'[d] = IF d = c THEN r ELSE req[d]
  BY <1>0 DEF DoorInv, DoorType
<1>7. Recency'
  <2>1. ASSUME NEW d \in Callers PROVE RecentRequest(req[d])'
    <3>1. RecentRequest(req'[d])
      BY <1>6 DEF DoorInv, Recency, RecentRequest
    <3> QED BY <1>0, <3>1 DEF RecentRequest, HeldWithin
  <2>2. RecentCache'
    BY <1>0 DEF DoorInv, Recency, RecentCache, HeldWithin
  <2> QED BY <1>0, <2>1, <2>2 DEF DoorInv, Recency
<1>8. \A d \in Callers : Counting(d)' => d = c \/ Counting(d)
  BY <1>6 DEF Counting
<1>9. ASSUME NEW d \in Callers, d # c, Counting(d), Key(req[d]) = k PROVE k \in lapped'
  BY <1>9 DEF ReadCounter
<1>10. ASSUME NEW d \in Callers, Counting(d)', Key(req'[d]) \notin lapped' PROVE Fresh(d)'
  <2>1. CASE d = c
    <3>1. \A e \in Callers : Counting(e)' /\ Key(req'[e]) = k => e = c
      BY <1>2, <1>6, <1>8, <1>9, <1>10, <2>1
    <3>2. k \in Keys \ lapped
      BY <1>2, <1>4, <1>6, <1>10, <2>1
    <3>3. Counted(k)
      BY <1>0, <3>2 DEF DoorInv, Limiting
    <3>4. counters[k] # None => counters[k].start <= now
      BY <3>3 DEF Counted
    <3>5. Alone(c)'
      BY <1>2, <1>6, <3>1 DEF Alone
    <3>6. req'[c] = r /\ counters'[Key(req'[c])] = counters[k]
      BY <1>0, <1>2, <1>6
    <3>7. now <= now
      BY DEF DoorInv, DoorType
    <3> QED BY <1>0, <2>1, <3>4, <3>5, <3>6, <3>7 DEF Fresh
  <2>2. CASE d # c
    <3>1. Counting(d) /\ req'[d] = req[d] /\ Key(req[d]) \notin lapped
      BY <1>4, <1>6, <1>8, <1>10, <2>2
    <3>2. Fresh(d)
      BY <3>1 DEF DoorInv, Limiting
    <3>3. Key(req[d]) # k
      BY <1>9, <1>10, <2>2, <3>1
    <3>4. Alone(d)'
      BY <1>2, <1>6, <1>8, <3>1, <3>2, <3>3 DEF Alone, Fresh
    <3> QED BY <1>0, <3>1, <3>2, <3>4 DEF Fresh
  <2> QED BY <2>1, <2>2
<1>11. ASSUME NEW d \in Callers, Counting(d)'
       PROVE  req'[d].seen # None \/ req'[d].at = "reset" => counters'[Key(req'[d])] # None
  BY <1>0, <1>2, <1>6, <1>8, <1>11 DEF DoorInv, Limiting
<1>12. \A j \in Keys \ lapped' : Counted(j)'
  BY <1>0, <1>4 DEF DoorInv, Limiting, Counted
<1>13. Limiting'
  BY <1>0, <1>10, <1>11, <1>12 DEF Limiting
<1> QED BY <1>5, <1>7, <1>13 DEF DoorInv

\* A step that writes the row of its key leaves the other keys alone, and so
\* it does the requests that count on them.
LEMMA WriteStep ==
    ASSUME DoorInv, NEW c \in Callers, Counting(c), NEW k, k = Key(req[c]),
           NEW row \in Counters, NEW r \in Requests,
           counters' = [counters EXCEPT ![k] = row], req' = [req EXCEPT ![c] = r],
           RecentRequest(r), passes' \in [Keys -> [0..MaxTime -> Nat]],
           \A j \in Keys \ {k} : passes'[j] = passes[j],
           UNCHANGED <<conf, now, hub, held, cache, lapped>>,
           r.at \in {"write", "reset"} =>
               /\ r.at = "reset" /\ Key(r) = k
               /\ k \notin lapped => r.t <= now /\ row.start < r.t,
           k \notin lapped => Counted(k)'
    PROVE  DoorInv'
<1> USE NoneAssumption
<1>0. k \in Keys /\ row # None
  BY RequestShapes DEF Counting, DoorInv, DoorType
<1>1. DoorType'
  BY DEF DoorInv, DoorType
<1>2. \A d \in Callers : req'[d] = IF d = c THEN r ELSE req[d]
  BY DEF DoorInv, DoorType
<1>3. Recency'
  <2>1. ASSUME NEW d \in Callers PROVE RecentRequest(req[d])'
    <3>1. RecentRequest(req'[d])
      BY <1>2 DEF DoorInv, Recency, RecentRequest
    <3> QED BY <3>1 DEF RecentRequest, HeldWithin
  <2>2. RecentCache'
    BY DEF DoorInv, Recency, RecentCache, HeldWithin
  <2> QED BY <2>1, <2>2 DEF DoorInv, Recency
<1>4. \A j \in Keys : counters'[j] = IF j = k THEN row ELSE counters[j]
  BY DEF DoorInv, DoorType
<1>5. \A d \in Callers : Counting(d)' => Counting(d)
  BY <1>2 DEF Counting
<1>6. \A d \in Callers : Counting(d)' => Key(req'[d]) = Key(req[d]) /\ Key(req[d]) \in Keys
  BY <1>0, <1>2, <1>5, RequestShapes DEF Counting, DoorInv, DoorType
<1>7. ASSUME NEW d \in Callers, Counting(d)', Key(req'[d]) \notin lapped PROVE Fresh(d)'
  <2>1. Counting(d) /\ Key(req'[d]) = Key(req[d]) /\ Fresh(d) /\ Key(req[d]) \in Keys
    BY <1>5, <1>6, <1>7 DEF DoorInv, Limiting
  <2>2. Alone(d)'
    BY <1>5, <1>6, <2>1 DEF Fresh, Alone
  <2>3. CASE d = c
    <3>1. req'[d] = r /\ counters'[Key(req'[d])] = row /\ r.at = "reset"
      BY <1>0, <1>2, <1>4, <1>7, <2>1, <2>3 DEF Counting
    <3>2. r.t <= now /\ row.start < r.t
      BY <1>7, <2>1, <2>3, <3>1
    <3> QED BY <1>0, <2>2, <3>1, <3>2 DEF Fresh
  <2>4. CASE d # c
    <3>1. Key(req[d]) # k
      BY <2>1, <2>4 DEF Fresh, Alone
    <3>2. req'[d] = req[d] /\ counters'[Key(req'[d])] = counters[Key(req[d])]
      BY <1>2, <1>4, <2>1, <2>4, <3>1
    <3> QED BY <2>1, <2>2, <3>2 DEF Fresh
  <2> QED BY <2>3, <2>4
<1>8. ASSUME NEW d \in Callers, Counting(d)'
      PROVE  /\ conf.limit > 0
             /\ req'[d].seen # None \/ req'[d].at = "reset" => counters'[Key(req'[d])] # None
  <2>1. Counting(d) /\ Key(req'[d]) = Key(req[d]) /\ Key(req[d]) \in Keys
    BY <1>5, <1>6, <1>8
  <2>2. d = c => counters'[Key(req'[d])] = row
    BY <1>4, <2>1
  <2>3. d # c => req'[d] = req[d]
    BY <1>2
  <2> QED BY <1>0, <1>4, <2>1, <2>2, <2>3 DEF DoorInv, Limiting
<1>9. ASSUME conf.limit > 0, NEW j \in Keys \ lapped PROVE Counted(j)'
  <2>1. CASE j = k
    BY <1>9, <2>1
  <2>2. CASE j # k
    BY <1>4, <1>9, <2>2 DEF DoorInv, Limiting, Counted
  <2> QED BY <2>1, <2>2
<1>10. Limiting'
  BY <1>7, <1>8, <1>9 DEF Limiting
<1> QED BY <1>1, <1>3, <1>10 DEF DoorInv

\* The end of a count: the request is refused, or it is let through and
\* counted in the minute it read.
LEMMA LetThroughStep ==
    ASSUME DoorType, NEW c \in Callers, Counting(c), NEW count \in Nat, LetThrough(c, count)
    PROVE  /\ \E r \in Requests :
                 /\ req' = [req EXCEPT ![c] = r]
                 /\ RecentRequest(r)
                 /\ r.at \notin {"write", "reset"}
           /\ \/ passes' = passes
              \/ /\ count <= conf.limit
                 /\ passes' = [passes EXCEPT ![Key(req[c])] =
                                 [passes[Key(req[c])] EXCEPT ![req[c].t] = @ + 1]]
<1> DEFINE a == [at |-> "admitted", token |-> req[c].token, route |-> req[c].route, role |-> req[c].role]
<1>1. req[c] \in Requests /\ req[c].at \in {"write", "reset"} /\ conf.limit \in Nat
  BY DeploymentsAssumption DEF DoorType, Counting
<1>2. a \in Requests /\ RecentRequest(a) /\ a.at \notin {"write", "reset"}
  BY <1>1, RequestShapes DEF Requests, RecentRequest
<1>3. CASE count > conf.limit
  BY <1>3, IdleRequest DEF LetThrough, Go
<1>4. CASE ~(count > conf.limit)
  <2>1. req' = [req EXCEPT ![c] = a] /\ count <= conf.limit
    BY <1>1, <1>4 DEF LetThrough, Go
  <2>2. passes' = [passes EXCEPT ![Key(req[c])] = [passes[Key(req[c])] EXCEPT ![req[c].t] = @ + 1]]
    BY <1>4 DEF LetThrough
  <2> QED BY <1>2, <2>1, <2>2
<1> QED BY <1>3, <1>4

\* The row that the step writes covers the request that it lets through.
LEMMA CountedStep ==
    ASSUME DoorInv, conf' = conf, now' = now, NEW k \in Keys, NEW t \in 0..MaxTime, t <= now,
           NEW row \in Counters, counters' = [counters EXCEPT ![k] = row],
           Counted(k), row.start <= t, row.start <= now,
           \A s \in 0..MaxTime : s > row.start => passes[k][s] = 0,
           \A s \in 0..MaxTime : s = row.start => passes[k][s] < row.count,
           \/ passes' = passes
           \/ /\ t = row.start
              /\ row.count <= conf.limit
              /\ passes' = [passes EXCEPT ![k] = [passes[k] EXCEPT ![t] = @ + 1]]
    PROVE  Counted(k)'
<1> USE NoneAssumption, DeploymentsAssumption
<1>1. counters'[k] = row /\ row # None /\ passes[k] \in [0..MaxTime -> Nat] /\ conf.limit \in Nat
  BY DEF DoorInv, DoorType
<1>2. row.start \in Nat /\ row.count \in Nat /\ \A s \in 0..MaxTime : passes[k][s] \in Nat
  BY <1>1 DEF Counters
<1>3. CASE passes' = passes
  <2>1. ASSUME NEW s \in 0..MaxTime, s = row.start PROVE passes[k][s] <= row.count
    <3>1. passes[k][s] \in Nat /\ passes[k][s] < row.count
      BY <1>2, <2>1
    <3> QED BY <1>2, <3>1
  <2> QED BY <1>1, <1>3, <2>1 DEF Counted
<1>4. CASE /\ t = row.start /\ row.count <= conf.limit
           /\ passes' = [passes EXCEPT ![k] = [passes[k] EXCEPT ![t] = @ + 1]]
  <2>1. \A s \in 0..MaxTime : passes'[k][s] = IF s = t THEN passes[k][s] + 1 ELSE passes[k][s]
    BY <1>1, <1>4 DEF DoorInv, DoorType
  <2>2. passes[k][t] + 1 <= row.count
    <3>1. passes[k][t] \in Nat /\ passes[k][t] < row.count
      BY <1>2, <1>4
    <3> QED BY <1>2, <3>1
  <2>3. \A s \in 0..MaxTime : passes'[k][s] <= conf'.limit
    BY <1>1, <1>2, <1>4, <2>1, <2>2 DEF Counted
  <2>4. \A s \in 0..MaxTime : s > row.start => passes'[k][s] = 0
    BY <1>2, <1>4, <2>1
  <2>5. \A s \in 0..MaxTime : s = row.start => passes'[k][s] <= row.count
    BY <1>4, <2>1, <2>2
  <2> QED BY <1>1, <2>3, <2>4, <2>5 DEF Counted
<1> QED BY <1>3, <1>4

\* A write that ends the count, of the first request of its minute or of one
\* more in the row's minute.
LEMMA CountStep ==
    ASSUME DoorInv, NEW c \in Callers, Counting(c), NEW k, k = Key(req[c]), NEW row \in Counters,
           counters' = [counters EXCEPT ![k] = row], LetThrough(c, row.count),
           UNCHANGED <<conf, now, hub, held, cache, lapped>>,
           k \notin lapped =>
               /\ row.start = req[c].t
               /\ \A s \in 0..MaxTime : s > row.start => passes[k][s] = 0
               /\ \A s \in 0..MaxTime : s = row.start => passes[k][s] < row.count
    PROVE  DoorInv'
<1>1. /\ k \in Keys /\ req[c].t \in 0..MaxTime /\ row.count \in Nat
      /\ DoorType /\ conf.limit > 0 /\ (k \notin lapped => Fresh(c) /\ Counted(k))
  BY RequestShapes DEF Counting, DoorInv, DoorType, Counters, Limiting
<1>2. /\ \E r \in Requests :
            /\ req' = [req EXCEPT ![c] = r]
            /\ RecentRequest(r)
            /\ r.at \notin {"write", "reset"}
      /\ \/ passes' = passes
         \/ /\ row.count <= conf.limit
            /\ passes' = [passes EXCEPT ![k] = [passes[k] EXCEPT ![req[c].t] = @ + 1]]
  BY <1>1, LetThroughStep
<1>3. PICK r \in Requests : req' = [req EXCEPT ![c] = r] /\ RecentRequest(r) /\ r.at \notin {"write", "reset"}
  BY <1>2
<1>4. passes' \in [Keys -> [0..MaxTime -> Nat]] /\ \A j \in Keys \ {k} : passes'[j] = passes[j]
  <2>1. CASE passes' = passes
    BY <2>1 DEF DoorInv, DoorType
  <2>2. CASE passes' = [passes EXCEPT ![k] = [passes[k] EXCEPT ![req[c].t] = @ + 1]]
    <3>0. passes[k] \in [0..MaxTime -> Nat]
      BY <1>1 DEF DoorType
    <3>1. req[c].t \in 0..MaxTime
      BY <1>1
    <3>2. ASSUME NEW f \in [0..MaxTime -> Nat], NEW t \in 0..MaxTime
          PROVE  [f EXCEPT ![t] = @ + 1] \in [0..MaxTime -> Nat]
      OBVIOUS
    <3>3. [passes[k] EXCEPT ![req[c].t] = @ + 1] \in [0..MaxTime -> Nat]
      BY <3>0, <3>1, <3>2
    <3> QED BY <1>1, <2>2, <3>3 DEF DoorType
  <2> QED BY <1>2, <2>1, <2>2
<1>5. ASSUME k \notin lapped PROVE Counted(k)'
  <2>1. req[c].t <= now /\ Counted(k) /\ row.start = req[c].t
    BY <1>1, <1>5 DEF Fresh
  <2>2. row.start <= req[c].t
    BY <1>1, <2>1
  <2> QED BY <1>1, <1>2, <1>5, <2>1, <2>2, CountedStep
<1> QED BY <1>3, <1>4, <1>5, WriteStep

\* A request is counted.
LEMMA IncrementStep ==
    ASSUME DoorInv, NEW c \in Callers, Increment(c)
    PROVE  DoorInv'
<1> USE NoneAssumption
<1>k. PICK k : k = Key(req[c])
  OBVIOUS
<1> DEFINE seen == req[c].seen
           n == seen.count + 1
<1>0. /\ req[c].at = "write" /\ Counting(c) /\ req[c] \in Requests /\ k \in Keys
      /\ req[c].t \in 0..MaxTime /\ seen \in Counters \cup {None} /\ req[c].t \in Nat
      /\ counters[k] \in Counters \cup {None} /\ conf.limit > 0
      /\ UNCHANGED <<conf, now, hub, held, cache, lapped>>
  BY <1>k, RequestShapes DEF Increment, Counting, DoorInv, DoorType, Limiting
<1>1. k \notin lapped =>
          /\ Counted(k) /\ seen = counters[k] /\ req[c].t <= now
          /\ counters[k] # None => counters[k].start <= req[c].t
  BY <1>k, <1>0 DEF DoorInv, Limiting, Fresh
<1>2. CASE seen = None /\ counters[k] # None
  <2>1. req' = [req EXCEPT ![c] = Idle] /\ UNCHANGED <<counters, passes>>
    BY <1>k, <1>2 DEF Increment, Go
  <2> QED BY <1>k, <1>0, <2>1, IdleRequest, PlainStep
<1>3. CASE seen = None /\ counters[k] = None
  <2> DEFINE row == [start |-> req[c].t, count |-> 1]
  <2>1. counters' = [counters EXCEPT ![k] = row] /\ LetThrough(c, row.count)
    BY <1>k, <1>3 DEF Increment, Write
  <2>2. row \in Counters /\ row.start = req[c].t /\ row.count = 1
    BY <1>0 DEF Counters
  <2>3. k \notin lapped => \A s \in 0..MaxTime : passes[k][s] = 0
    BY <1>k, <1>1, <1>3 DEF Counted
  <2>4. k \notin lapped =>
            /\ row.start = req[c].t
            /\ \A s \in 0..MaxTime : s > row.start => passes[k][s] = 0
            /\ \A s \in 0..MaxTime : s = row.start => passes[k][s] < row.count
    BY <2>2, <2>3
  <2> HIDE DEF row
  <2> QED BY <1>k, <1>0, <2>1, <2>2, <2>4, CountStep
<1>4. CASE seen # None
  <2> DEFINE row == [start |-> counters[k].start, count |-> n]
  <2>0. counters[k] # None /\ seen \in Counters /\ counters[k] \in Counters
    BY <1>k, <1>0, <1>4 DEF DoorInv, Limiting
  <2>1. counters' = [counters EXCEPT ![k] = row]
    BY <1>k, <1>4 DEF Increment, Write
  <2>2. row \in Counters /\ row.start = counters[k].start /\ row.count = n /\ n \in Nat
        /\ seen.start \in Nat /\ counters[k].start \in Nat /\ counters[k].count \in Nat
    BY <2>0 DEF Counters
  <2>3. k \notin lapped =>
            /\ counters[k].start <= now /\ n = counters[k].count + 1
            /\ \A s \in 0..MaxTime : s > row.start => passes[k][s] = 0
            /\ \A s \in 0..MaxTime : s = row.start => passes[k][s] <= counters[k].count
    BY <1>k, <1>1, <2>0, <2>2 DEF Counted
  <2>4. \A s \in 0..MaxTime : passes[k][s] \in Nat
    BY <1>0 DEF DoorInv, DoorType
  <2>5. k \notin lapped => \A s \in 0..MaxTime : s = row.start => passes[k][s] < row.count
    <3>1. \A a, b \in Nat : a <= b => a < b + 1
      OBVIOUS
    <3> QED BY <2>2, <2>3, <2>4, <3>1
  <2>6. CASE req[c].t - seen.start >= 1
    <3> DEFINE r == [req[c] EXCEPT !.at = "reset"]
    <3>1. req' = [req EXCEPT ![c] = r] /\ passes' = passes
      BY <1>k, <1>4, <2>6 DEF Increment, Go
    <3>2. req[c] \in [at : {"write", "reset"}, token : Tokens, route : Routes, role : Roles,
                      t : 0..MaxTime, seen : Counters \cup {None}]
      BY <1>k, <1>0, RequestShapes
    <3>3. r \in Requests /\ r.at = "reset" /\ Key(r) = k /\ r.t = req[c].t
      BY <1>k, <3>2 DEF Requests, Key
    <3>4. RecentRequest(r)
      BY <3>3 DEF RecentRequest
    <3>5. k \notin lapped => r.t <= now /\ row.start < r.t
      BY <1>k, <1>0, <1>1, <2>2, <2>6, <3>3
    <3>6. k \notin lapped => Counted(k)'
      <4>1. k \notin lapped => row.start <= req[c].t /\ row.start <= now /\ req[c].t <= now /\ Counted(k)
        BY <1>0, <1>1, <2>0, <2>2, <2>3
      <4> HIDE DEF row
      <4> QED BY <1>k, <1>0, <2>1, <2>2, <2>3, <2>5, <3>1, <4>1, CountedStep
    <3>7. passes' \in [Keys -> [0..MaxTime -> Nat]] /\ \A j \in Keys \ {k} : passes'[j] = passes[j]
      BY <3>1 DEF DoorInv, DoorType
    <3> HIDE DEF r, row
    <3> QED BY <1>k, <1>0, <2>1, <2>2, <3>1, <3>3, <3>4, <3>5, <3>6, <3>7, WriteStep
  <2>7. CASE ~(req[c].t - seen.start >= 1)
    <3>1. LetThrough(c, row.count)
      BY <1>k, <1>4, <2>7 DEF Increment
    <3>2. k \notin lapped => row.start = req[c].t
      <4>1. \A a, b \in Nat : b <= a /\ ~(a - b >= 1) => b = a
        OBVIOUS
      <4> QED BY <1>0, <1>1, <2>0, <2>2, <2>7, <4>1
    <3> HIDE DEF row
    <3> QED BY <1>k, <1>0, <2>1, <2>2, <2>3, <2>5, <3>1, <3>2, CountStep
  <2> QED BY <2>6, <2>7
<1> QED BY <1>2, <1>3, <1>4

\* A window starts anew.
LEMMA ResetStep ==
    ASSUME DoorInv, NEW c \in Callers, Reset(c)
    PROVE  DoorInv'
<1>k. PICK k : k = Key(req[c])
  OBVIOUS
<1> DEFINE row == [start |-> req[c].t, count |-> 1]
<1>0. /\ req[c].at = "reset" /\ Counting(c) /\ req[c] \in Requests /\ k \in Keys
      /\ req[c].t \in 0..MaxTime /\ req[c].t \in Nat /\ counters[k] \in Counters /\ conf.limit > 0
      /\ UNCHANGED <<conf, now, hub, held, cache, lapped>>
  BY <1>k, RequestShapes DEF Reset, Counting, DoorInv, DoorType, Limiting
<1>1. counters' = [counters EXCEPT ![k] = row] /\ LetThrough(c, row.count)
  BY <1>k DEF Reset, Write
<1>2. row \in Counters /\ row.start = req[c].t /\ row.count = 1 /\ counters[k].start \in Nat
  BY <1>0 DEF Counters
<1>3. k \notin lapped => Counted(k) /\ counters[k].start < req[c].t
  BY <1>k, <1>0 DEF DoorInv, Limiting, Fresh
<1>4. k \notin lapped => \A s \in 0..MaxTime : s >= req[c].t => passes[k][s] = 0
  BY <1>k, <1>0, <1>2, <1>3, NoneAssumption DEF Counted
<1>5. k \notin lapped =>
          /\ row.start = req[c].t
          /\ \A s \in 0..MaxTime : s > row.start => passes[k][s] = 0
          /\ \A s \in 0..MaxTime : s = row.start => passes[k][s] < row.count
  BY <1>0, <1>2, <1>4
<1> HIDE DEF row
<1> QED BY <1>k, <1>0, <1>1, <1>2, <1>5, CountStep

\* An answered request leaves the door.
LEMMA AnsweredStep ==
    ASSUME DoorInv, NEW c \in Callers, Answered(c)
    PROVE  DoorInv'
<1>1. CASE UNCHANGED req
  <2>1. UNCHANGED <<conf, now, hub, held, cache, counters, passes, lapped, req>>
    BY <1>1 DEF Answered
  <2> QED BY <2>1, DoorUnchanged
<1>2. CASE req' = [req EXCEPT ![c] = Idle]
  BY <1>2, IdleRequest, PlainStep DEF Answered
<1> QED BY <1>1, <1>2 DEF Answered, Go

\* Every step of the API process keeps the front door's invariant.
LEMMA DoorNextStep ==
    ASSUME DoorInv, [Next]_vars
    PROVE  DoorInv'
<1>1. CASE UNCHANGED doorVars
  <2>1. UNCHANGED <<conf, now, hub, held, cache, counters, passes, lapped, req>>
    BY <1>1 DEF doorVars
  <2> QED BY <2>1, DoorUnchanged
<1>2. CASE Tick
  BY <1>2, TickStep
<1>3. CASE \E model \in HubModels \cup {None} : ChangeHubUser(model)
  BY <1>3, ChangeStep
<1>4. ASSUME NEW c \in Callers, NEW r \in conf.requests, Authenticate(c, r[1], r[2]) PROVE DoorInv'
  <2>1. r[1] \in Tokens /\ r[2] \in Routes
    BY DeploymentsAssumption DEF DoorInv, DoorType, Keys
  <2> QED BY <1>4, <2>1, AuthenticateStep
<1>5. ASSUME NEW c \in Callers, HubReads(c) \/ HubReturns(c) \/ HubRefuses(c) PROVE DoorInv'
  BY <1>5, HubStep
<1>6. ASSUME NEW c \in Callers, Unlimited(c) PROVE DoorInv'
  <2> DEFINE a == [at |-> "admitted", token |-> req[c].token, route |-> req[c].route, role |-> req[c].role]
  <2>1. req[c] \in Requests /\ req[c].at = "count"
    BY <1>6 DEF Unlimited, DoorInv, DoorType
  <2>2. a \in Requests /\ a.at \notin {"write", "reset"} /\ RecentRequest(a)
    BY <2>1, RequestShapes DEF Requests, RecentRequest
  <2> QED BY <1>6, <2>2, PlainStep DEF Unlimited, Go
<1>7. ASSUME NEW c \in Callers, ReadCounter(c) PROVE DoorInv'
  BY <1>7, ReadCounterStep
<1>8. ASSUME NEW c \in Callers, Increment(c) PROVE DoorInv'
  BY <1>8, IncrementStep
<1>9. ASSUME NEW c \in Callers, Reset(c) PROVE DoorInv'
  BY <1>9, ResetStep
<1>10. ASSUME NEW c \in Callers, ServeRead(c) \/ (\E row \in {"user", "token"} : ServeAccount(c, row)) \/ Refuse(c)
       PROVE  DoorInv'
  BY <1>10, IdleRequest, PlainStep DEF ServeRead, ServeAccount, Refuse, Go
<1>11. ASSUME NEW c \in Callers, Serve(c) \/ Handle(c) PROVE DoorInv'
  BY <1>11, AnsweredStep DEF Serve, Handle
<1> QED
  BY <1>1, <1>2, <1>3, <1>4, <1>5, <1>6, <1>7, <1>8, <1>9, <1>10, <1>11 DEF Next, DoorNext, vars

\* No request, cached role or counter at first.
LEMMA DoorInitially ==
    ASSUME DoorInit
    PROVE  DoorInv
<1> USE TimesAssumption, DeploymentsAssumption, NoneAssumption
<1>1. DoorType
  BY IdleRequest DEF DoorInit, DoorType
<1>2. \A c \in Callers : req[c] = Idle
  BY DEF DoorInit
<1>3. Recency
  BY <1>2, IdleRequest DEF DoorInit, Recency, RecentCache
<1>4. Limiting
  BY <1>2, IdleRequest DEF DoorInit, Limiting, Counting, Counted
<1> QED BY <1>1, <1>3, <1>4 DEF DoorInv

\* The front door's invariant holds for ever.
THEOREM DoorInvariant == Spec => []DoorInv
<1>1. Init => DoorInv
  BY DoorInitially DEF Init
<1>2. DoorInv /\ [Next]_vars => DoorInv'
  BY DoorNextStep
<1> QED BY <1>1, <1>2, PTL DEF Spec

\* The role a Hub token is admitted on was the user's within the cache's
\* lifetime and one Hub call, for any lifetime, timeout, number of requests
\* under way and order of their answers (identify_jupyterhub_token).
THEOREM RolesAreRecent == Spec => []RoleIsRecent
<1>1. DoorInv => RoleIsRecent
  <2> SUFFICES ASSUME DoorInv, NEW c \in Callers, req[c].at = "count", req[c].token = "hub"
               PROVE  held[req[c].model] + HubTimeout + Slack >= req[c].minted
    BY DEF RoleIsRecent, Slack
  <2>1. HeldWithin(req[c].model, HubTimeout + Slack, req[c].minted) /\ req[c].minted \in Nat
    BY RequestShapes DEF DoorInv, DoorType, Recency, RecentRequest
  <2> QED BY <2>1, TimesAssumption DEF HeldWithin, Slack
<1> QED BY <1>1, DoorInvariant, PTL

\* A caller whose requests to a route do not meet in the limiter passes at most
\* limit times in a minute, for any limit and number of minutes (check_rate_limit).
THEOREM LimitHolds == Spec => []WithinLimit
<1>1. DoorInv => WithinLimit
  BY DEF DoorInv, Limiting, Counted, WithinLimit
<1> QED BY <1>1, DoorInvariant, PTL

-----------------------------------------------------------------------------
(* The service host: what names and rows stand for                         *)

\* Writing a handler's step.
LEMMA WorkShapes ==
    ASSUME NEW w \in Works
    PROVE  /\ w.at = "idle" => w = Free
           /\ w.at = "save" => w.source \in Sources
           /\ w.at \notin {"idle", "save"} => w.op \in {"start", "validate", "stop", "probe", "proxy"}
           /\ w.at \notin {"idle", "save"} /\ w.op = "start" => w \in RecordWork("start", StartSteps)
           /\ w.at \notin {"idle", "save"} /\ w.op = "validate" =>
                 w \in RecordWork("validate", ValidateSteps)
           /\ w.at \notin {"idle", "save"} /\ w.op = "stop" => w \in RecordWork("stop", StopSteps)
           /\ w.at \notin {"idle", "save"} /\ w.op = "probe" =>
                 w \in [op : {"probe"}, row : Nat, ok : BOOLEAN, at : {"probe", "proof"}]
           /\ w.at \notin {"idle", "save"} /\ w.op = "proxy" =>
                 w \in [op : {"proxy"}, row : Nat, ok : BOOLEAN, at : {"proxy"}]
<1>1. CASE w \in [at : {"idle"}]
  BY <1>1 DEF Free
<1>2. CASE w \in [at : {"save"}, source : Sources]
  BY <1>2
<1>3. CASE w \in RecordWork("start", StartSteps)
  BY <1>3 DEF RecordWork, StartSteps
<1>4. CASE w \in RecordWork("validate", ValidateSteps)
  BY <1>4 DEF RecordWork, ValidateSteps
<1>5. CASE w \in RecordWork("stop", StopSteps)
  BY <1>5 DEF RecordWork, StopSteps
<1>6. CASE w \in [op : {"probe"}, row : Nat, ok : BOOLEAN, at : {"probe", "proof"}]
  BY <1>6
<1>7. CASE w \in [op : {"proxy"}, row : Nat, ok : BOOLEAN, at : {"proxy"}]
  BY <1>7
<1> QED BY <1>1, <1>2, <1>3, <1>4, <1>5, <1>6, <1>7 DEF Works

\* The step a handler is at says which handlers it may be.
LEMMA StepFixesHandler ==
    ASSUME NEW w \in Works
    PROVE  /\ w.at \in {"oldrow", "oldruntime", "oldrecord", "register", "point", "undo", "undone"} =>
                 w \in RecordWork("start", StartSteps)
           /\ w.at \in {"remove", "create", "await", "failed"} =>
                 w \in RecordWork("start", StartSteps) \cup RecordWork("validate", ValidateSteps)
           /\ w.at \in {"unload", "verdict"} => w \in RecordWork("validate", ValidateSteps)
           /\ w.at \in {"end", "endrow", "endrecord"} => w \in RecordWork("stop", StopSteps)
           /\ w.at \in {"probe", "proof"} =>
                 w \in RecordWork("start", StartSteps)
                       \cup [op : {"probe"}, row : Nat, ok : BOOLEAN, at : {"probe", "proof"}]
           /\ w.at = "proxy" => w \in [op : {"proxy"}, row : Nat, ok : BOOLEAN, at : {"proxy"}]
<1>1. CASE w \in [at : {"idle"}]
  BY <1>1
<1>2. CASE w \in [at : {"save"}, source : Sources]
  BY <1>2
<1>3. CASE w \in RecordWork("start", StartSteps)
  BY <1>3 DEF RecordWork, StartSteps
<1>4. CASE w \in RecordWork("validate", ValidateSteps)
  BY <1>4 DEF RecordWork, ValidateSteps
<1>5. CASE w \in RecordWork("stop", StopSteps)
  BY <1>5 DEF RecordWork, StopSteps
<1>6. CASE w \in [op : {"probe"}, row : Nat, ok : BOOLEAN, at : {"probe", "proof"}]
  BY <1>6
<1>7. CASE w \in [op : {"proxy"}, row : Nat, ok : BOOLEAN, at : {"proxy"}]
  BY <1>7
<1> QED BY <1>1, <1>2, <1>3, <1>4, <1>5, <1>6, <1>7 DEF Works

\* What a handler at work relies on: the record and its rows are there, and its name is the
\* one of the source it read.
WorkFits(w) ==
    /\ OnRecord(w) => record # Nothing
    /\ OnRecord(w) /\ w.rec.active # Nothing => w.rec.active \in DOMAIN rows
    /\ w.at \in {"point", "probe", "proof", "undo", "undone", "proxy"} => w.row \in DOMAIN rows
    /\ OnRecord(w) =>
          w.name = RuntimeName(w.rec.source, IF w.op = "validate" THEN "validate" ELSE "")

\* No row loses its URL or its source.
RowsKept ==
    /\ rows' \in Seq(ServiceRows)
    /\ DOMAIN rows \subseteq DOMAIN rows'
    /\ \A i \in DOMAIN rows : rows'[i].url = rows[i].url /\ rows'[i].source = rows[i].source
    /\ \A i \in DOMAIN rows' \ DOMAIN rows : Routed(rows'[i])

\* A step of one connection that respects all of that.
LEMMA ShapeStep ==
    ASSUME HostShape, NEW c \in Hosts, NEW w \in Works, work' = [work EXCEPT ![c] = w],
           record' \in Records \cup {Nothing},
           record # Nothing => record' # Nothing,
           record' # Nothing /\ record'.active # Nothing => record'.active \in DOMAIN rows',
           RowsKept, UpFits', kind' = kind, disturbed' \in BOOLEAN,
           WorkFits(w)'
    PROVE  HostShape'
<1>1. HostType'
  BY DEF HostShape, HostType, RowsKept
<1>2. \A d \in Hosts : work'[d] = IF d = c THEN w ELSE work[d]
  BY DEF HostShape, HostType
<1>3. DOMAIN rows \subseteq DOMAIN rows'
  BY DEF RowsKept
<1>4. ASSUME NEW d \in Hosts PROVE \A v \in {work'[d]} : WorkFits(v)'
  <2>1. CASE d = c
    BY <1>2, <2>1
  <2>2. CASE d # c
    <3>1. work'[d] = work[d]
      BY <1>2, <2>2
    <3>2. \A v \in {work[d]} : WorkFits(v)
      BY DEF HostShape, Referring, Naming, WorkFits
    <3> QED BY <1>3, <3>1, <3>2 DEF WorkFits, RuntimeName, HashIsCut
  <2> QED BY <2>1, <2>2
<1>5. Referring'
  BY <1>4 DEF Referring, WorkFits, OnRecord
<1>6. \A i \in DOMAIN rows' : Routed(rows'[i])
  BY DEF HostShape, Naming, RowsKept, Routed
<1>7. Naming'
  BY <1>4, <1>6 DEF Naming, Routed, WorkFits, OnRecord, Elsewhere, RuntimeName, HashIsCut
<1> QED BY <1>1, <1>5, <1>7 DEF HostShape

\* A sequence with one more element.
LEMMA Appended ==
    ASSUME NEW s \in Seq(ServiceRows), NEW x \in ServiceRows
    PROVE  /\ Append(s, x) \in Seq(ServiceRows)
           /\ Len(s) + 1 \in Nat /\ Len(s) + 1 \notin DOMAIN s
           /\ DOMAIN Append(s, x) = DOMAIN s \cup {Len(s) + 1}
           /\ Append(s, x)[Len(s) + 1] = x /\ \A i \in DOMAIN s : Append(s, x)[i] = s[i]
<1> DEFINE u == Append(s, x)
<1>1. /\ Len(s) \in Nat /\ DOMAIN s = 1..Len(s)
      /\ u \in Seq(ServiceRows) /\ Len(u) = Len(s) + 1
      /\ \A i \in 1..Len(s) : u[i] = s[i]
      /\ u[Len(s) + 1] = x
  BY AppendProperties, LenProperties
<1> HIDE DEF u
<1>2. DOMAIN u = 1..(Len(s) + 1)
  BY <1>1, LenProperties
<1>3. ASSUME NEW n \in Nat PROVE 1..(n + 1) = 1..n \cup {n + 1} /\ n + 1 \in Nat /\ n + 1 \notin 1..n
  OBVIOUS
<1> QED BY <1>1, <1>2, <1>3 DEF u

\* update_long_service_status and the insertion of a row.
LEMMA StatusKeepsRows ==
    ASSUME HostType, NEW i \in DOMAIN rows \cup {Nothing},
           NEW status \in {"registered", "running", "failed", "stopped", "deleted"},
           SetStatus(i, status)
    PROVE  /\ RowsKept /\ DOMAIN rows' = DOMAIN rows
           /\ \A j \in DOMAIN rows : j # i => rows'[j] = rows[j]
           /\ i \in DOMAIN rows => rows'[i].status = IF rows[i].status = "deleted" THEN "deleted" ELSE status
<1>0. Nothing \notin DOMAIN rows
  BY NothingAssumption DEF HostType
<1>1. CASE i = Nothing \/ rows[i].status = "deleted"
  <2>1. rows' = rows
    BY <1>1 DEF SetStatus
  <2>2. RowsKept
    BY <2>1 DEF RowsKept, HostType
  <2> QED BY <1>0, <1>1, <2>1, <2>2
<1>2. CASE ~(i = Nothing \/ rows[i].status = "deleted")
  <2>1. i \in DOMAIN rows /\ rows' = [rows EXCEPT ![i] = [rows[i] EXCEPT !.status = status]]
        /\ rows[i].status # "deleted"
    BY <1>2 DEF SetStatus
  <2>2. rows[i] \in ServiceRows
    BY <2>1 DEF HostType
  <2>3. [rows[i] EXCEPT !.status = status] \in ServiceRows
    BY <2>2 DEF ServiceRows
  <2>4. rows' \in Seq(ServiceRows) /\ DOMAIN rows' = DOMAIN rows
    BY <2>1, <2>3 DEF HostType
  <2>5. \A j \in DOMAIN rows : rows'[j] = IF j = i THEN [rows[i] EXCEPT !.status = status] ELSE rows[j]
    BY <2>1 DEF HostType
  <2> QED BY <2>1, <2>2, <2>4, <2>5 DEF RowsKept, ServiceRows
<1> QED BY <1>1, <1>2

\* A new service row leaves the others as they are.
LEMMA AppendKeepsRows ==
    ASSUME HostType, NEW r \in ServiceRows, rows' = Append(rows, r),
           Routed(r)
    PROVE  /\ RowsKept /\ Len(rows) + 1 \in Nat /\ DOMAIN rows' = DOMAIN rows \cup {Len(rows) + 1}
           /\ Len(rows) + 1 \notin DOMAIN rows /\ rows'[Len(rows) + 1] = r
           /\ \A i \in DOMAIN rows : rows'[i] = rows[i]
<1>1. rows \in Seq(ServiceRows)
  BY DEF HostType
<1>2. /\ Append(rows, r) \in Seq(ServiceRows)
      /\ Len(rows) + 1 \in Nat /\ Len(rows) + 1 \notin DOMAIN rows
      /\ DOMAIN Append(rows, r) = DOMAIN rows \cup {Len(rows) + 1}
      /\ Append(rows, r)[Len(rows) + 1] = r /\ \A i \in DOMAIN rows : Append(rows, r)[i] = rows[i]
  BY <1>1, Appended
<1>3. PICK n : n = Len(rows) + 1
  OBVIOUS
<1>4. PICK s : s = rows'
  OBVIOUS
<1>5. /\ s \in Seq(ServiceRows) /\ DOMAIN s = DOMAIN rows \cup {n} /\ s[n] = r
      /\ \A i \in DOMAIN rows : s[i] = rows[i]
  BY <1>2, <1>3, <1>4
<1>6. RowsKept
  BY ONLY <1>4, <1>5, Routed(r) DEF RowsKept
<1> QED BY <1>2, <1>6

\* Removing what runs under a name, and launching a source under its own.
LEMMA RemoveKeepsNames ==
    ASSUME HostShape, NEW n, Remove(n)
    PROVE  /\ UpFits' /\ strays' \subseteq strays
           /\ \A m \in Names : up'[m] \in {up[m], Nothing}
           /\ n \in Names => Up' = Up \ {n}
  BY NothingAssumption DEF HostShape, HostType, UpFits, Remove, Up

\* A runtime that is left behind stays up.
LEMMA StrayKeepsNames ==
    ASSUME HostShape, NEW n \in Names, UNCHANGED up,
           strays' = strays \cup {m \in {n} : up[m] # Nothing}
    PROVE  UpFits' /\ Up' = Up \ {n}
  BY DEF HostShape, HostType, UpFits, Up

\* A name is its suffix and at most the source.
LEMMA NameParts ==
    ASSUME NEW source, NEW suffix
    PROVE  /\ RuntimeName(source, suffix).suffix = suffix
           /\ RuntimeName(source, suffix).source \in {source, Nothing}
           /\ ~HashIsCut(suffix) => RuntimeName(source, suffix).source = source
  BY DEF RuntimeName

\* A created runtime serves the source its name says.
LEMMA CreateKeepsNames ==
    ASSUME HostShape, NEW n \in Names, NEW source \in Sources, n.source \in {source, Nothing},
           up[n] = Nothing, up' = [up EXCEPT ![n] = source], UNCHANGED strays
    PROVE  UpFits' /\ Up' = Up \cup {n}
  BY NothingAssumption DEF HostShape, HostType, UpFits, Up

\* update_notebook_service_runtime.
LEMMA SetRuntimeType ==
    ASSUME HostShape, record # Nothing, NEW status \in {"declared", "validated", "running", "stopped", "failed"},
           NEW name \in Names \cup {Nothing}, NEW active \in Nat \cup {Nothing},
           SetRuntime(status, name, active)
    PROVE  /\ record' \in Records /\ record' # Nothing
           /\ record'.active = active /\ record'.name = name /\ record'.source = record.source
  BY NothingAssumption DEF HostShape, HostType, SetRuntime, Records

\* A handler on the record at its next step.
LEMMA MoveOn ==
    ASSUME NEW op, NEW steps, NEW w \in RecordWork(op, steps), NEW at \in steps
    PROVE  LET v == [w EXCEPT !.at = at] IN
           /\ v \in RecordWork(op, steps)
           /\ v.at = at /\ v.op = w.op /\ v.rec = w.rec /\ v.row = w.row /\ v.name = w.name /\ v.ok = w.ok
  BY DEF RecordWork

\* A step of a handler on the record: it moves on, and its rows and names are
\* as ShapeStep wants them.
LEMMA MovedShape ==
    ASSUME HostShape, NEW c \in Hosts, NEW op, NEW steps,
           \/ op = "start" /\ steps = StartSteps
           \/ op = "validate" /\ steps = ValidateSteps
           \/ op = "stop" /\ steps = StopSteps,
           work[c] \in RecordWork(op, steps), NEW at \in steps, Goto(c, at),
           at \in {"point", "probe", "proof", "undo", "undone"} => work[c].row \in DOMAIN rows,
           record' \in Records \cup {Nothing}, record # Nothing => record' # Nothing,
           record' # Nothing /\ record'.active # Nothing => record'.active \in DOMAIN rows',
           RowsKept, UpFits', kind' = kind, disturbed' \in BOOLEAN
    PROVE  HostShape'
<1> DEFINE v == [work[c] EXCEPT !.at = at]
<1>1. work' = [work EXCEPT ![c] = v]
  BY DEF Goto, HostShape, HostType
<1>2. /\ v \in RecordWork(op, steps) /\ v.at = at /\ v.op = op
      /\ v.rec = work[c].rec /\ v.row = work[c].row /\ v.name = work[c].name
  BY MoveOn DEF RecordWork
<1>3. v \in Works
  BY <1>2 DEF Works
<1>4. work[c].op = op /\ OnRecord(work[c])
  BY DEF OnRecord, RecordWork, StartSteps, ValidateSteps, StopSteps
<1>5. \A w \in {work[c]} : WorkFits(w)
  BY DEF HostShape, Referring, Naming, WorkFits
<1>6. at # "proxy" /\ DOMAIN rows \subseteq DOMAIN rows'
  BY DEF StartSteps, ValidateSteps, StopSteps, RowsKept
<1> HIDE DEF v
<1>7. ASSUME NEW w, w = v PROVE WorkFits(w)'
  BY <1>2, <1>4, <1>5, <1>6, <1>7 DEF WorkFits, RuntimeName, HashIsCut
<1> QED BY <1>1, <1>3, <1>7, ShapeStep

\* A handler that ends.
LEMMA DoneShape ==
    ASSUME HostShape, NEW c \in Hosts, Done(c),
           record' \in Records \cup {Nothing}, record # Nothing => record' # Nothing,
           record' # Nothing /\ record'.active # Nothing => record'.active \in DOMAIN rows',
           RowsKept, UpFits', kind' = kind, disturbed' \in BOOLEAN
    PROVE  HostShape'
<1>1. Free \in Works /\ work' = [work EXCEPT ![c] = Free]
  BY DEF Free, Works, Done
<1>2. ASSUME NEW w, w = Free PROVE WorkFits(w)'
  BY <1>2 DEF WorkFits, OnRecord, Free
<1> QED BY <1>1, <1>2, ShapeStep

\* What a step leaves alone is as it was.
LEMMA SameParts ==
    ASSUME HostShape
    PROVE  /\ UNCHANGED record =>
                 /\ record' \in Records \cup {Nothing} /\ (record # Nothing => record' # Nothing)
                 /\ RowsKept /\ record' # Nothing /\ record'.active # Nothing =>
                       record'.active \in DOMAIN rows'
           /\ UNCHANGED rows => RowsKept
           /\ UNCHANGED <<up, strays>> => UpFits'
           /\ UNCHANGED disturbed => disturbed' \in BOOLEAN
<1>1. ASSUME UNCHANGED record, RowsKept, record' # Nothing, record'.active # Nothing
      PROVE  record'.active \in DOMAIN rows'
  BY <1>1 DEF HostShape, Referring, RowsKept
<1>2. UNCHANGED rows => RowsKept
  BY DEF HostShape, HostType, RowsKept
<1>3. UNCHANGED <<up, strays>> => UpFits'
  BY DEF HostShape, HostType, UpFits
<1> QED BY <1>1, <1>2, <1>3 DEF HostShape, HostType

\* The two steps that write more of a handler's state than where it is.
LEMMA RegisterShape ==
    ASSUME HostShape, NEW c \in Hosts, RegisterStarted(c)
    PROVE  /\ HostShape'
           /\ Len(rows) + 1 \in Nat /\ DOMAIN rows' = DOMAIN rows \cup {Len(rows) + 1}
           /\ Len(rows) + 1 \notin DOMAIN rows
           /\ rows'[Len(rows) + 1] =
                 [source |-> work[c].rec.source, url |-> work[c].name, status |-> "registered"]
           /\ \A i \in DOMAIN rows : rows'[i] = rows[i]
           /\ work' = [work EXCEPT ![c] = [work[c] EXCEPT !.at = "point", !.row = Len(rows) + 1]]
<1> DEFINE w == work[c]
           n == Len(rows) + 1
           r == [source |-> w.rec.source, url |-> w.name, status |-> "registered"]
           v == [w EXCEPT !.at = "point", !.row = n]
<1>1. /\ w \in Works /\ HostType /\ w.at = "register"
      /\ \A x \in {w} : WorkFits(x)
  BY DEF HostShape, HostType, Referring, Naming, WorkFits, RegisterStarted
<1>2. w \in RecordWork("start", StartSteps)
  BY <1>1, StepFixesHandler
<1>3. w.name \in Names /\ w.rec \in Records /\ w.op = "start" /\ w.rec.source \in Sources
  BY <1>2 DEF RecordWork, Records
<1>4. w.name = RuntimeName(w.rec.source, "")
  BY <1>1, <1>3 DEF WorkFits, OnRecord
<1>5. r \in ServiceRows /\ Routed(r) /\ rows' = Append(rows, r)
  BY <1>3, <1>4 DEF ServiceRows, Routed, RegisterStarted
<1>6. /\ RowsKept /\ n \in Nat /\ DOMAIN rows' = DOMAIN rows \cup {n}
      /\ n \notin DOMAIN rows /\ rows'[n] = r
      /\ \A i \in DOMAIN rows : rows'[i] = rows[i]
  <2> HIDE DEF r
  <2> QED BY <1>1, <1>5, AppendKeepsRows
<1>7. work' = [work EXCEPT ![c] = v]
  BY <1>1 DEF RegisterStarted, HostType
<1>8. /\ v \in RecordWork("start", StartSteps) /\ v.at = "point" /\ v.row = n
      /\ v.rec = w.rec /\ v.name = w.name /\ v.op = "start"
  BY <1>2, <1>3, <1>6 DEF RecordWork, StartSteps
<1>9. v \in Works
  BY <1>8 DEF Works
<1>10. UNCHANGED <<record, up, strays, kind, disturbed>>
  BY DEF RegisterStarted
<1>11. HostShape'
  <2> HIDE DEF v, n, r
  <2>1. DOMAIN rows \subseteq DOMAIN rows' /\ n \in DOMAIN rows'
    BY <1>6
  <2>2. ASSUME NEW x, x = v PROVE WorkFits(x)'
    BY <1>1, <1>3, <1>4, <1>8, <1>10, <2>1, <2>2 DEF WorkFits, OnRecord, RuntimeName, HashIsCut
  <2> QED BY <1>6, <1>7, <1>9, <1>10, <2>2, SameParts, ShapeStep
<1> QED BY <1>6, <1>7, <1>11

\* A probe keeps the shape of the host.
LEMMA ProbeShape ==
    ASSUME HostShape, NEW c \in Hosts, Probe(c)
    PROVE  HostShape'
<1> DEFINE w == work[c]
<1>1. PICK ok \in BOOLEAN : work' = [work EXCEPT ![c].at = "proof", ![c].ok = ok]
  BY DEF Probe
<1> DEFINE v == [w EXCEPT !.at = "proof", !.ok = ok]
<1>2. /\ w \in Works /\ HostType /\ w.at = "probe" /\ w.row \in DOMAIN rows
      /\ \A x \in {w} : WorkFits(x)
  BY DEF HostShape, HostType, Referring, Naming, WorkFits, Probe
<1>3. work' = [work EXCEPT ![c] = v]
  BY <1>1, <1>2 DEF HostType
<1>4. /\ v \in Works /\ v.at = "proof" /\ v.op = w.op /\ v.row = w.row
      /\ w.op \in {"start", "probe"} /\ (w.op = "start" => v.rec = w.rec /\ v.name = w.name)
  <2>1. CASE w \in RecordWork("start", StartSteps)
    BY <2>1 DEF RecordWork, StartSteps, Works
  <2>2. CASE w \in [op : {"probe"}, row : Nat, ok : BOOLEAN, at : {"probe", "proof"}]
    BY <2>2 DEF Works
  <2> QED BY <1>2, <2>1, <2>2, StepFixesHandler
<1>5. UNCHANGED <<record, rows, up, strays, kind, disturbed>>
  BY DEF Probe
<1> HIDE DEF v
<1>6. ASSUME NEW x, x = v PROVE WorkFits(x)'
  BY <1>2, <1>4, <1>5, <1>6 DEF WorkFits, OnRecord, RuntimeName, HashIsCut
<1> QED BY <1>3, <1>4, <1>5, <1>6, SameParts, ShapeStep

\* What is launched under a name is what the name says.
LEMMA LaunchName ==
    ASSUME NEW w \in RecordWork("start", StartSteps) \cup RecordWork("validate", ValidateSteps),
           w.at \in {"create", "await"}, WorkFits(w)
    PROVE  /\ w.name \in Names /\ w.rec.source \in Sources
           /\ w.name.source \in {w.rec.source, Nothing}
<1>1. w.name \in Names /\ w.rec \in Records /\ w.op \in {"start", "validate"}
  BY DEF RecordWork
<1>2. w.name = RuntimeName(w.rec.source, IF w.op = "validate" THEN "validate" ELSE "")
  BY <1>1 DEF WorkFits, OnRecord
<1>3. w.rec.source \in Sources
  BY <1>1 DEF Records
<1> QED BY <1>1, <1>2, <1>3, NameParts

\* A handler's step keeps the shape.
LEMMA StepShape ==
    ASSUME HostShape, NEW c \in Hosts, Step(c)
    PROVE  HostShape'
<1> DEFINE w == work[c]
<1>0. /\ w \in Works /\ HostType /\ record \in Records \cup {Nothing}
      /\ \A v \in {w} : WorkFits(v)
  BY DEF HostShape, HostType, Referring, Naming, WorkFits
<1>1. CASE SaveDeclaration(c)
  <2>1. record' \in Records /\ record' # Nothing /\ record'.active = Nothing
    BY <1>0, <1>1, WorkShapes, NothingAssumption DEF SaveDeclaration, Records
  <2>2. disturbed' \in BOOLEAN
    BY <1>1 DEF SaveDeclaration, HostShape, HostType
  <2> QED BY <1>1, <2>1, <2>2, SameParts, DoneShape DEF SaveDeclaration
<1>2. CASE StopOldRow(c)
  <2>1. w \in RecordWork("start", StartSteps) /\ w.at = "oldrow"
    BY <1>0, <1>2, StepFixesHandler DEF StopOldRow
  <2>2. w.rec.active \in DOMAIN rows \cup {Nothing}
    BY <1>0, <2>1 DEF WorkFits, OnRecord, RecordWork
  <2>3. RowsKept
    BY <1>0, <1>2, <2>2, StatusKeepsRows DEF StopOldRow
  <2>4. PICK at \in {"remove", "oldruntime"} : Goto(c, at)
    BY <1>2 DEF StopOldRow
  <2>5. at \in StartSteps
    BY DEF StartSteps
  <2> QED BY <1>2, <2>1, <2>3, <2>4, <2>5, SameParts, MovedShape DEF StopOldRow
<1>3. CASE StopOldRuntime(c)
  <2>1. w \in RecordWork("start", StartSteps) /\ "oldrecord" \in StartSteps
    BY <1>0, <1>3, StepFixesHandler DEF StopOldRuntime, StartSteps
  <2> QED BY <1>3, <2>1, RemoveKeepsNames, SameParts, MovedShape DEF StopOldRuntime
<1>4. CASE ClearOldRecord(c)
  <2>1. w \in RecordWork("start", StartSteps) /\ "remove" \in StartSteps
    BY <1>0, <1>4, StepFixesHandler DEF ClearOldRecord, StartSteps
  <2>2. record # Nothing
    BY <1>0, <1>4, <2>1 DEF WorkFits, OnRecord, ClearOldRecord, RecordWork
  <2>3. record' \in Records /\ record' # Nothing /\ record'.active = Nothing
    BY <1>4, <2>2, SetRuntimeType DEF ClearOldRecord
  <2> QED BY <1>4, <2>1, <2>3, SameParts, MovedShape DEF ClearOldRecord
<1>5. CASE RemoveName(c) \/ UnloadValidated(c) \/ UndoStart(c)
  <2>1. PICK at \in {"create", "verdict", "undone"} : Goto(c, at) /\ Remove(w.name)
    BY <1>5 DEF RemoveName, UnloadValidated, UndoStart
  <2>2. CASE w.at = "remove"
    <3>1. /\ w \in RecordWork("start", StartSteps) \cup RecordWork("validate", ValidateSteps)
          /\ "create" \in StartSteps /\ "create" \in ValidateSteps /\ Goto(c, "create")
      BY <1>0, <1>5, <2>2, StepFixesHandler
      DEF RemoveName, UnloadValidated, UndoStart, StartSteps, ValidateSteps
    <3> QED BY <1>5, <2>1, <3>1, RemoveKeepsNames, SameParts, MovedShape
            DEF RemoveName, UnloadValidated, UndoStart
  <2>3. CASE w.at = "unload"
    <3>1. w \in RecordWork("validate", ValidateSteps) /\ "verdict" \in ValidateSteps /\ Goto(c, "verdict")
      BY <1>0, <1>5, <2>3, StepFixesHandler DEF RemoveName, UnloadValidated, UndoStart, ValidateSteps
    <3> QED BY <1>5, <2>1, <3>1, RemoveKeepsNames, SameParts, MovedShape
            DEF RemoveName, UnloadValidated, UndoStart
  <2>4. CASE w.at = "undo"
    <3>1. /\ w \in RecordWork("start", StartSteps) /\ "undone" \in StartSteps /\ Goto(c, "undone")
          /\ w.row \in DOMAIN rows
      BY <1>0, <1>5, <2>4, StepFixesHandler DEF RemoveName, UnloadValidated, UndoStart, StartSteps, WorkFits
    <3> QED BY <1>5, <2>1, <3>1, RemoveKeepsNames, SameParts, MovedShape
            DEF RemoveName, UnloadValidated, UndoStart
  <2> QED BY <1>5, <2>2, <2>3, <2>4 DEF RemoveName, UnloadValidated, UndoStart
<1>6. CASE Create(c) \/ CreateFails(c) \/ NeverAnswers(c) \/ PortUnknown(c)
  <2>1. /\ w \in RecordWork("start", StartSteps) \cup RecordWork("validate", ValidateSteps)
        /\ {"await", "failed"} \subseteq StartSteps /\ {"await", "failed"} \subseteq ValidateSteps
    BY <1>0, <1>6, StepFixesHandler
    DEF Create, CreateFails, NeverAnswers, PortUnknown, StartSteps, ValidateSteps
  <2>2. PICK at \in {"await", "failed"} : Goto(c, at)
    BY <1>6 DEF Create, CreateFails, NeverAnswers, PortUnknown
  <2>3. w.at \in {"create", "await"}
    BY <1>6 DEF Create, CreateFails, NeverAnswers, PortUnknown
  <2>4. w.name \in Names /\ w.rec.source \in Sources /\ w.name.source \in {w.rec.source, Nothing}
    BY <1>0, <2>1, <2>3, LaunchName
  <2>5. \/ UNCHANGED <<up, strays>> \/ Remove(w.name)
        \/ up[w.name] = Nothing /\ up' = [up EXCEPT ![w.name] = w.rec.source] /\ UNCHANGED strays
        \/ UNCHANGED up /\ strays' = strays \cup {m \in {w.name} : up[m] # Nothing}
    BY <1>6 DEF Create, CreateFails, NeverAnswers, PortUnknown
  <2>6. UpFits'
    BY <2>4, <2>5, RemoveKeepsNames, CreateKeepsNames, StrayKeepsNames, SameParts
  <2>7. UNCHANGED <<kind, record, rows, disturbed>>
    BY <1>6 DEF Create, CreateFails, NeverAnswers, PortUnknown
  <2> QED BY <2>1, <2>2, <2>6, <2>7, SameParts, MovedShape
<1>7. CASE Answers(c)
  <2>1. w \in RecordWork("start", StartSteps) \cup RecordWork("validate", ValidateSteps)
    BY <1>0, <1>7, StepFixesHandler DEF Answers
  <2>2. CASE w \in RecordWork("start", StartSteps)
    <3>1. Goto(c, "register") /\ "register" \in StartSteps
      BY <1>7, <2>2 DEF Answers, RecordWork, StartSteps
    <3> QED BY <1>7, <2>2, <3>1, SameParts, MovedShape DEF Answers
  <2>3. CASE w \in RecordWork("validate", ValidateSteps)
    <3>1. Goto(c, "unload") /\ "unload" \in ValidateSteps
      BY <1>7, <2>3 DEF Answers, RecordWork, ValidateSteps
    <3> QED BY <1>7, <2>3, <3>1, SameParts, MovedShape DEF Answers
  <2> QED BY <2>1, <2>2, <2>3
<1>8. CASE RecordFailure(c) \/ RecordValidated(c) \/ RecordStopped(c)
  <2>1. record # Nothing
    BY <1>0, <1>8, StepFixesHandler
    DEF WorkFits, OnRecord, RecordFailure, RecordValidated, RecordStopped, RecordWork
  <2>2. \E status \in {"validated", "stopped", "failed"} : SetRuntime(status, Nothing, Nothing)
    BY <1>8 DEF RecordFailure, RecordValidated, RecordStopped
  <2>3. record' \in Records /\ record' # Nothing /\ record'.active = Nothing
    BY <2>1, <2>2, SetRuntimeType
  <2>4. disturbed' \in BOOLEAN
    BY <1>8 DEF RecordFailure, RecordValidated, RecordStopped, HostShape, HostType
  <2> QED BY <1>8, <2>3, <2>4, SameParts, DoneShape DEF RecordFailure, RecordValidated, RecordStopped
<1>9. CASE RegisterStarted(c)
  BY <1>0, <1>9, RegisterShape
<1>10. CASE PointRecord(c) \/ RecordUndone(c)
  <2>1. /\ w \in RecordWork("start", StartSteps) /\ "probe" \in StartSteps
        /\ w.row \in DOMAIN rows /\ record # Nothing
    BY <1>0, <1>10, StepFixesHandler DEF PointRecord, RecordUndone, StartSteps, WorkFits, OnRecord, RecordWork
  <2>2. PICK status \in {"running", "failed"} : SetRuntime(status, w.name, w.row)
    BY <1>10 DEF PointRecord, RecordUndone
  <2>3. w.name \in Names /\ w.row \in Nat \cup {Nothing}
    BY <2>1 DEF RecordWork
  <2>4. record' \in Records /\ record' # Nothing /\ record'.active = w.row
    BY <2>1, <2>2, <2>3, SetRuntimeType
  <2>5. rows' = rows /\ UNCHANGED <<up, disturbed>>
    BY <1>10 DEF PointRecord, RecordUndone
  <2>6. CASE PointRecord(c)
    BY <2>1, <2>4, <2>5, <2>6, SameParts, MovedShape DEF PointRecord
  <2>7. CASE RecordUndone(c)
    BY <2>1, <2>4, <2>5, <2>7, SameParts, DoneShape DEF RecordUndone
  <2> QED BY <1>10, <2>6, <2>7
<1>11. CASE Probe(c)
  BY <1>11, ProbeShape
<1>12. CASE SaveProbe(c)
  <2>1. w.at = "proof" /\ w.row \in DOMAIN rows
    BY <1>0, <1>12 DEF SaveProbe, WorkFits
  <2>2. RowsKept
    BY <1>0, <1>12, <2>1, StatusKeepsRows DEF SaveProbe
  <2>3. CASE Done(c)
    BY <1>12, <2>2, <2>3, SameParts, DoneShape DEF SaveProbe
  <2>4. CASE w.op = "start" /\ Goto(c, "undo")
    <3>1. w \in RecordWork("start", StartSteps) /\ "undo" \in StartSteps
      BY <1>0, <2>1, <2>4, WorkShapes DEF StartSteps
    <3> QED BY <1>12, <2>1, <2>2, <2>4, <3>1, SameParts, MovedShape DEF SaveProbe
  <2> QED BY <1>12, <2>3, <2>4 DEF SaveProbe
<1>13. CASE StopRuntime(c)
  <2>1. w \in RecordWork("stop", StopSteps) /\ "endrow" \in StopSteps
    BY <1>0, <1>13, StepFixesHandler DEF StopRuntime, StopSteps
  <2>2. UNCHANGED up \/ Remove(w.rec.name)
    BY <1>13 DEF StopRuntime
  <2> QED BY <1>13, <2>1, <2>2, RemoveKeepsNames, SameParts, MovedShape DEF StopRuntime
<1>14. CASE StopRow(c)
  <2>1. w \in RecordWork("stop", StopSteps) /\ "endrecord" \in StopSteps
    BY <1>0, <1>14, StepFixesHandler DEF StopRow, StopSteps
  <2>2. w.rec.active \in DOMAIN rows \cup {Nothing}
    BY <1>0, <1>14, <2>1 DEF WorkFits, OnRecord, RecordWork, StopRow
  <2>3. RowsKept
    BY <1>0, <1>14, <2>2, StatusKeepsRows DEF StopRow
  <2> QED BY <1>14, <2>1, <2>3, SameParts, MovedShape DEF StopRow
<1>15. CASE Proxy(c)
  <2>1. w.row \in DOMAIN rows
    BY <1>0, <1>15 DEF Proxy, WorkFits
  <2>2. UNCHANGED rows \/ SetStatus(w.row, "failed")
    BY <1>15 DEF Proxy
  <2>3. RowsKept
    BY <1>0, <2>1, <2>2, StatusKeepsRows, SameParts
  <2> QED BY <1>15, <2>3, SameParts, DoneShape DEF Proxy
<1>16. CASE AnswerBroken(c)
  <2>1. /\ w \in RecordWork("start", StartSteps) \cup RecordWork("validate", ValidateSteps)
        /\ w.at = "await" /\ up[w.name] # Nothing
    BY <1>0, <1>16, StepFixesHandler DEF AnswerBroken
  <2>2. w.name \in Names
    BY <1>0, <2>1, LaunchName
  <2>3. strays' = strays \cup {m \in {w.name} : up[m] # Nothing}
    BY <1>16, <2>1 DEF AnswerBroken
  <2>4. UpFits'
    BY <1>16, <2>2, <2>3, StrayKeepsNames DEF AnswerBroken
  <2> QED BY <1>16, <2>4, SameParts, DoneShape DEF AnswerBroken
<1>17. CASE ProbeBroken(c)
  BY <1>17, SameParts, DoneShape DEF ProbeBroken
<1> HIDE DEF w
<1> QED BY <1>1, <1>2, <1>3, <1>4, <1>5, <1>6, <1>7, <1>8, <1>9, <1>10, <1>11, <1>12, <1>13, <1>14, <1>15,
           <1>16, <1>17
        DEF Step

\* A request that begins, keeping what the record names.
LEMMA BeginShape ==
    ASSUME HostShape, NEW c \in Hosts, NEW w \in Works, Begin(c, w), RowsKept, WorkFits(w),
           UNCHANGED <<record, up, strays, kind>>
    PROVE  HostShape'
<1>1. work' = [work EXCEPT ![c] = w] /\ disturbed' \in BOOLEAN
  BY DEF Begin, HostShape, HostType
<1>2. WorkFits(w)'
  BY DEF WorkFits, RowsKept, RuntimeName, HashIsCut
<1> QED BY <1>1, <1>2, SameParts, ShapeStep

\* A host without work owes nothing.
LEMMA FreeWork == Free \in Works /\ Free.at = "idle" /\ WorkFits(Free)
  BY DEF Free, Works, WorkFits, OnRecord

\* The work a request on the record begins with.
RecordWorkFor(op) ==
    [op |-> op, rec |-> record, row |-> Nothing, ok |-> FALSE,
     name |-> RuntimeName(record.source, IF op = "validate" THEN "validate" ELSE ""),
     at |-> CASE op = "start" -> "oldrow" [] op = "validate" -> "remove" [] op = "stop" -> "end"]

\* Work on the declared record fits that record.
LEMMA RecordWorkType ==
    ASSUME HostShape, record # Nothing, NEW op \in {"start", "validate", "stop"}
    PROVE  RecordWorkFor(op) \in Works /\ WorkFits(RecordWorkFor(op))
<1>1. /\ record \in Records /\ record.source \in Sources /\ BOOLEAN = {TRUE, FALSE}
      /\ record.active # Nothing => record.active \in DOMAIN rows
  BY DEF HostShape, HostType, Records, Referring
<1>2. ASSUME NEW suffix \in {"", "validate"} PROVE RuntimeName(record.source, suffix) \in Names
  BY <1>1 DEF RuntimeName, Names
<1>3. RecordWorkFor(op) \in Works
  <2>1. CASE op = "start"
    BY <1>1, <1>2, <2>1 DEF RecordWorkFor, Works, RecordWork, StartSteps
  <2>2. CASE op = "validate"
    BY <1>1, <1>2, <2>2 DEF RecordWorkFor, Works, RecordWork, ValidateSteps
  <2>3. CASE op = "stop"
    BY <1>1, <1>2, <2>3 DEF RecordWorkFor, Works, RecordWork, StopSteps
  <2> QED BY <2>1, <2>2, <2>3
<1>4. WorkFits(RecordWorkFor(op))
  BY <1>1 DEF RecordWorkFor, WorkFits, OnRecord
<1> QED BY <1>3, <1>4

\* Retiring rows keeps what they stand for.
LEMMA CleanKeepsRows ==
    ASSUME HostType, NEW c \in Hosts, NEW unprobed \in BOOLEAN, CleanRows(c, unprobed)
    PROVE  /\ RowsKept /\ DOMAIN rows' = DOMAIN rows
           /\ \A i \in DOMAIN rows : rows'[i] = rows[i] \/ rows'[i].status = "deleted"
<1> DEFINE gone == {"failed", "stopped"} \cup (IF unprobed THEN {"registered"} ELSE {})
           f(i) == IF rows[i].status \in gone THEN [rows[i] EXCEPT !.status = "deleted"] ELSE rows[i]
<1>1. rows' = [i \in DOMAIN rows |-> f(i)]
  BY DEF CleanRows
<1>2. rows \in Seq(ServiceRows) /\ \A i \in DOMAIN rows : rows[i] \in ServiceRows
  BY DEF HostType
<1>3. \A i \in DOMAIN rows :
          /\ f(i) \in ServiceRows /\ f(i).url = rows[i].url /\ f(i).source = rows[i].source
          /\ f(i) = rows[i] \/ f(i).status = "deleted"
  BY <1>2 DEF ServiceRows
<1> HIDE DEF f
<1>4. DOMAIN rows' = DOMAIN rows /\ \A i \in DOMAIN rows : rows'[i] = f(i)
  BY <1>1
<1>5. Len(rows) \in Nat /\ DOMAIN rows = 1..Len(rows)
  BY <1>2
<1>6. rows' \in [1..Len(rows) -> ServiceRows]
  BY <1>1, <1>3, <1>5
<1>7. rows' \in Seq(ServiceRows)
  BY <1>5, <1>6, SeqDef
<1> QED BY <1>3, <1>4, <1>7 DEF RowsKept

\* A request that reaches its handler keeps the shape.
LEMMA RouteShape ==
    ASSUME HostShape, NEW c \in Hosts, WriterRoute(c) \/ OpenRoute(c) \/ AdminRoute(c)
    PROVE  HostShape'
<1>0. HostType
  BY DEF HostShape
<1>1. ASSUME NEW s \in Sources, Declare(c, s) PROVE HostShape'
  <2> DEFINE w == [at |-> "save", source |-> s]
  <2>1. Begin(c, Free) \/ Begin(c, w)
    BY <1>1 DEF Declare
  <2>2. w \in Works /\ WorkFits(w)
    BY DEF Works, WorkFits, OnRecord
  <2> HIDE DEF w
  <2> QED BY <1>1, <2>1, <2>2, FreeWork, SameParts, BeginShape DEF Declare
<1>2. ASSUME NEW op \in {"start", "validate", "stop"}, ReadRecord(c, op) PROVE HostShape'
  <2>1. Begin(c, Free) \/ (record # Nothing /\ Begin(c, RecordWorkFor(op)))
    BY <1>2 DEF ReadRecord, RecordWorkFor
  <2> QED BY <1>2, <2>1, FreeWork, RecordWorkType, SameParts, BeginShape DEF ReadRecord
<1>3. CASE RegisterElsewhere(c)
  <2> DEFINE r == [source |-> Nothing, url |-> Elsewhere, status |-> "registered"]
  <2>1. r \in ServiceRows /\ Routed(r) /\ rows' = Append(rows, r)
    BY <1>3 DEF RegisterElsewhere, ServiceRows, Routed, Elsewhere, Names
  <2> HIDE DEF r
  <2>2. RowsKept
    BY <1>0, <2>1, AppendKeepsRows
  <2> QED BY <1>3, <2>2, FreeWork, BeginShape DEF RegisterElsewhere
<1>4. ASSUME NEW i \in Present, NEW op \in {"probe", "proxy"}, ReadRow(c, op, i) PROVE HostShape'
  <2> DEFINE w == [op |-> op, row |-> i, ok |-> FALSE, at |-> op]
  <2>1. Begin(c, Free) \/ Begin(c, w)
    BY <1>4 DEF ReadRow
  <2>2. i \in DOMAIN rows /\ i \in Nat /\ FALSE \in BOOLEAN
    BY <1>0 DEF Present, HostType
  <2>3. w \in Works /\ WorkFits(w)
    BY <2>2 DEF Works, WorkFits, OnRecord
  <2> HIDE DEF w
  <2> QED BY <1>4, <2>1, <2>3, FreeWork, SameParts, BeginShape DEF ReadRow
<1>5. ASSUME NEW i \in Present, Halt(c, i) \/ Kill(c, i) PROVE HostShape'
  <2>1. RowsKept
    BY <1>0, <1>5, StatusKeepsRows DEF Halt, Kill, Present
  <2> QED BY <1>5, <2>1, FreeWork, BeginShape DEF Halt, Kill
<1>6. ASSUME NEW unprobed \in BOOLEAN, CleanRows(c, unprobed) PROVE HostShape'
  BY <1>0, <1>6, CleanKeepsRows, FreeWork, BeginShape DEF CleanRows
<1> QED BY <1>1, <1>2, <1>3, <1>4, <1>5, <1>6 DEF WriterRoute, OpenRoute, AdminRoute

\* Every step of the API process keeps the host's shape.
LEMMA HostShapeStep ==
    ASSUME HostShape, [Next]_vars
    PROVE  HostShape'
<1>1. CASE UNCHANGED hostVars
  BY <1>1 DEF hostVars, HostShape, HostType, UpFits, Referring, Naming, Routed, OnRecord,
              RuntimeName, HashIsCut
<1>2. ASSUME NEW c \in Callers, Serve(c) PROVE HostShape'
  BY <1>2, HostsAssumption, RouteShape DEF Serve
<1>3. ASSUME NEW c \in Callers, Handle(c) PROVE HostShape'
  BY <1>3, HostsAssumption, StepShape DEF Handle
<1>4. ASSUME NEW n \in Names, RuntimeDies(n) PROVE HostShape'
  <2>1. UpFits' /\ UNCHANGED <<kind, record, rows, work>> /\ disturbed' = TRUE
    BY <1>4, RemoveKeepsNames DEF RuntimeDies
  <2> QED BY <2>1 DEF HostShape, HostType, Referring, Naming, Routed, OnRecord, RuntimeName, HashIsCut
<1> QED BY <1>1, <1>2, <1>3, <1>4 DEF Next, Refuse, vars, hostVars

\* No row, no record and no runtime at first.
LEMMA HostInitially ==
    ASSUME HostInit
    PROVE  HostShape
<1>1. Free \in Works /\ Free.at = "idle"
  BY FreeWork
<1>2. rows \in Seq(ServiceRows) /\ DOMAIN rows = {}
  BY DEF HostInit
<1>3. HostType
  BY <1>1, <1>2 DEF HostInit, HostType, UpFits
<1>4. \A c \in Hosts : work[c].at = "idle"
  BY <1>1 DEF HostInit
<1>5. Referring
  BY <1>4 DEF HostInit, Referring, OnRecord
<1>6. Naming
  BY <1>2, <1>4 DEF HostInit, Naming, OnRecord
<1> QED BY <1>3, <1>5, <1>6 DEF HostShape

-----------------------------------------------------------------------------
(* The service host while requests follow one another                      *)

\* What is up has a name, what is listed is a row, and a listed row's name is
\* not one of a validation.
LEMMA UpAndListed ==
    ASSUME HostShape
    PROVE  /\ Up \subseteq Names /\ Nothing \notin Up
           /\ \A n \in Names : n \in Up <=> up[n] # Nothing /\ n \notin strays
           /\ Listed \subseteq DOMAIN rows /\ Nothing \notin Listed /\ DOMAIN rows \subseteq Nat
           /\ \A i \in Listed : rows[i].url = RuntimeName(rows[i].source, "") /\ rows[i].source \in Sources
           /\ \A i \in DOMAIN rows : rows[i].url \in Names
<1>1. rows \in Seq(ServiceRows) /\ Nothing \notin Names /\ Nothing \notin Nat
  BY NothingAssumption DEF HostShape, HostType
<1>2. DOMAIN rows = 1..Len(rows) /\ rows \in [1..Len(rows) -> ServiceRows]
  BY <1>1, LenProperties
<1>3. \A i \in DOMAIN rows : rows[i].url \in Names
  BY <1>2 DEF ServiceRows
<1>4. DOMAIN rows \subseteq Nat
  BY <1>2
<1>5. \A i \in Listed : rows[i].url = RuntimeName(rows[i].source, "") /\ rows[i].source \in Sources
  BY DEF Listed, HostShape, Naming, Routed
<1> QED BY <1>1, <1>3, <1>4, <1>5 DEF Up, Listed

\* Runtime names of starts, validations and other urls never collide.
LEMMA NameSuffix ==
    ASSUME NEW a, NEW b
    PROVE  RuntimeName(a, "") # RuntimeName(b, "validate") /\ RuntimeName(a, "") # Elsewhere
<1>1. /\ RuntimeName(a, "").suffix = "" /\ RuntimeName(b, "validate").suffix = "validate"
      /\ Elsewhere.suffix = "elsewhere"
  BY DEF RuntimeName, Elsewhere
<1> QED BY <1>1

\* What a change of one row's status does to the listed rows.
LEMMA StopsListing ==
    ASSUME HostShape, NEW i \in DOMAIN rows \cup {Nothing}, SetStatus(i, "stopped")
    PROVE  Listed' = Listed \ {i} /\ \A j \in Listed' : rows'[j] = rows[j]
<1>1. /\ RowsKept /\ DOMAIN rows' = DOMAIN rows
      /\ \A j \in DOMAIN rows : j # i => rows'[j] = rows[j]
      /\ i \in DOMAIN rows => rows'[i].status = IF rows[i].status = "deleted" THEN "deleted" ELSE "stopped"
  BY StatusKeepsRows DEF HostShape
<1> QED BY <1>1 DEF Listed

\* Changing the status of a row keeps the listing.
LEMMA KeepsListing ==
    ASSUME HostShape, NEW i \in DOMAIN rows, NEW status \in {"running", "failed"}, SetStatus(i, status),
           i \in Listed \/ rows[i].url = Elsewhere
    PROVE  /\ Listed' = Listed /\ \A j \in Listed : j # i => rows'[j] = rows[j]
           /\ i \in Listed => rows'[i].status = status /\ rows'[i].url = rows[i].url
<1>1. /\ RowsKept /\ DOMAIN rows' = DOMAIN rows
      /\ \A j \in DOMAIN rows : j # i => rows'[j] = rows[j]
      /\ rows'[i].status = IF rows[i].status = "deleted" THEN "deleted" ELSE status
  BY StatusKeepsRows DEF HostShape
<1>2. rows'[i].url = rows[i].url
  BY <1>1 DEF RowsKept
<1> QED BY <1>1, <1>2 DEF Listed

\* Fewer rows and fewer runtimes serve what they served.
LEMMA ServingKept ==
    ASSUME HostShape, Serving, RowsKept, Listed' \subseteq Listed,
           \A n \in Names : up'[n] \in {up[n], Nothing}
    PROVE  Serving'
  BY UpAndListed DEF Serving, RowsKept

\* Fewer listed rows are still settled.
LEMMA SettledShrinks ==
    ASSUME HostShape, Settled, UNCHANGED <<record, up, strays>>, RowsKept, Listed' \subseteq Listed,
           \A j \in Listed' : rows'[j].status = rows[j].status
    PROVE  Settled'
<1>1. Up' = Up
  BY DEF Up
<1>2. Serving'
  BY ServingKept DEF Settled
<1>3. Backed'
  BY <1>1, UpAndListed DEF Settled, Backed, RowsKept
<1> QED BY <1>1, <1>2, <1>3 DEF Settled, NamedOnly, ActiveOnly

\* A record that names nothing is settled when nothing is up and no row is
\* listed.
LEMMA SettledEmpty ==
    ASSUME Up = {}, Listed = {}
    PROVE  Settled
  BY DEF Settled, NamedOnly, ActiveOnly, Backed, Serving

\* The record's name and row still belong together.
LEMMA PairedKept ==
    ASSUME HostShape, Paired, UNCHANGED <<record, kind>>, RowsKept, strays' \subseteq strays
    PROVE  Paired'
  BY DEF Paired, RowsKept, HostShape, Referring, RuntimeName, HashIsCut

\* ... even when a runtime of another name is left behind.
LEMMA PairedBeside ==
    ASSUME HostShape, Paired, UNCHANGED <<record, kind>>, RowsKept,
           NEW n, strays' \subseteq strays \cup {n}, record # Nothing => record.name # n
    PROVE  Paired'
  BY DEF Paired, RowsKept, HostShape, Referring, RuntimeName, HashIsCut

\* A record without a runtime is paired with none.
LEMMA PairedCleared ==
    ASSUME record'.name = Nothing, record'.active = Nothing
    PROVE  Paired'
  BY DEF Paired

\* A step of the one connection that is at work.
LEMMA OrderlyStep ==
    ASSUME HostShape, NEW c \in Hosts, NEW w, work' = [work EXCEPT ![c] = w],
           ~disturbed' => /\ \A d \in Hosts \ {c} : work[d] = Free
                          /\ Paired'
                          /\ w = Free => Settled'
                          /\ w # Free => Midway(w)'
    PROVE  Orderly'
<1>1. \A d \in Hosts : work'[d] = IF d = c THEN w ELSE work[d]
  BY DEF HostShape, HostType
<1> SUFFICES ASSUME ~disturbed' PROVE Orderly'
  BY DEF Orderly
<1>2. (\A d \in Hosts : work'[d] = Free) => Settled'
  BY <1>1
<1>3. ASSUME NEW d \in Hosts, NEW v \in {work'[d]}, v # Free
      PROVE  (\A e \in Hosts \ {d} : work'[e] = Free) /\ Midway(v)'
  <2>1. d = c /\ v = w
    BY <1>1, <1>3
  <2> QED BY <1>1, <1>3, <2>1
<1> QED BY <1>2, <1>3 DEF Orderly

\* ... when it is alone.
LEMMA AtWork ==
    ASSUME HostShape, Orderly, NEW c \in Hosts, work[c] # Free, ~disturbed
    PROVE  /\ \A d \in Hosts \ {c} : work[d] = Free
           /\ Paired
           /\ \A w \in {work[c]} : w # Free /\ Midway(w)
  BY DEF Orderly

\* A handler on the record that moves on.
LEMMA OrderlyMove ==
    ASSUME HostShape, Orderly, NEW c \in Hosts, NEW op, NEW steps,
           \/ op = "start" /\ steps = StartSteps
           \/ op = "validate" /\ steps = ValidateSteps
           \/ op = "stop" /\ steps = StopSteps,
           work[c] \in RecordWork(op, steps), NEW at \in steps, Goto(c, at), UNCHANGED disturbed,
           ~disturbed =>
               /\ Paired'
               /\ \A v : /\ v.at = at /\ v.op = op /\ v.rec = work[c].rec /\ v.row = work[c].row
                         /\ v.name = work[c].name
                         => Midway(v)'
    PROVE  Orderly'
<1> DEFINE v == [work[c] EXCEPT !.at = at]
<1>1. work' = [work EXCEPT ![c] = v]
  BY DEF Goto, HostShape, HostType
<1>2. /\ v.at = at /\ v.op = op /\ v.rec = work[c].rec /\ v.row = work[c].row /\ v.name = work[c].name
  BY MoveOn DEF RecordWork
<1>3. at # "idle" /\ work[c].at # "idle"
  BY DEF StartSteps, ValidateSteps, StopSteps, RecordWork
<1>4. work[c] # Free
  BY <1>3 DEF Free
<1> HIDE DEF v
<1>5. v # Free
  BY <1>2, <1>3 DEF Free
<1>6. ~disturbed => \A d \in Hosts \ {c} : work[d] = Free
  BY <1>4, AtWork
<1>7. ~disturbed => \A x \in {v} : Midway(x)'
  BY <1>2
<1>8. PICK x : x = v
  OBVIOUS
<1>9. ~disturbed => Midway(x)'
  BY <1>7, <1>8
<1> QED BY <1>1, <1>5, <1>6, <1>8, <1>9, OrderlyStep

\* ... and one that ends.
LEMMA OrderlyDone ==
    ASSUME HostShape, Orderly, NEW c \in Hosts, work[c] # Free, Done(c), ~disturbed' => ~disturbed,
           ~disturbed' => Paired' /\ Settled'
    PROVE  Orderly'
<1>1. work' = [work EXCEPT ![c] = Free]
  BY DEF Done
<1>2. ~disturbed' => \A d \in Hosts \ {c} : work[d] = Free
  BY AtWork
<1> QED BY <1>1, <1>2, OrderlyStep

\* The start of a service: what is up goes first, then what is listed is the
\* new row and what is up its runtime.
LEMMA StartBefore ==
    ASSUME HostShape, Orderly, NEW c \in Hosts, NEW w, w = work[c], w \in RecordWork("start", StartSteps)
    PROVE  /\ w.op = "start" /\ w.at \notin {"idle", "save"} /\ w # Free
           /\ w.name \in Names /\ w.rec \in Records /\ w.row \in Nat \cup {Nothing}
           /\ w.name = RuntimeName(w.rec.source, "")
           /\ record \in Records /\ record # Nothing
           /\ w.rec.active \in DOMAIN rows \cup {Nothing}
           /\ ~disturbed => Paired /\ StartMidway(w)
<1>1. /\ w.op = "start" /\ w.at \notin {"idle", "save"}
      /\ w.name \in Names /\ w.rec \in Records /\ w.row \in Nat \cup {Nothing}
  BY DEF RecordWork, StartSteps
<1>2. w # Free
  BY <1>1 DEF Free
<1>3. WorkFits(w) /\ OnRecord(w)
  BY <1>1 DEF HostShape, Referring, Naming, WorkFits, OnRecord
<1>4. ~disturbed => Paired /\ StartMidway(w)
  BY <1>1, <1>2, AtWork DEF Midway
<1> QED BY <1>1, <1>2, <1>3, <1>4 DEF WorkFits, HostShape, HostType

\* The steps that clear what an earlier start left.
LEMMA ClearingOrderly ==
    ASSUME HostShape, Orderly, NEW c \in Hosts, StopOldRow(c) \/ StopOldRuntime(c) \/ ClearOldRecord(c)
    PROVE  Orderly'
<1>1. PICK w : w = work[c]
  OBVIOUS
<1>2. w \in RecordWork("start", StartSteps)
  BY <1>1, StepFixesHandler DEF HostShape, HostType, StopOldRow, StopOldRuntime, ClearOldRecord
<1>3. /\ w.op = "start" /\ w.name \in Names /\ w.rec \in Records /\ record \in Records /\ record # Nothing
      /\ w.rec.active \in DOMAIN rows \cup {Nothing}
      /\ ~disturbed => Paired /\ StartMidway(w)
  BY <1>1, <1>2, StartBefore
<1>4. UNCHANGED disturbed /\ {"remove", "oldruntime", "oldrecord"} \subseteq StartSteps
  BY DEF StopOldRow, StopOldRuntime, ClearOldRecord, StartSteps
<1>5. ASSUME NEW v, v.op = "start", v.at # "save", StartMidway(v)' PROVE Midway(v)'
  BY <1>5 DEF Midway
<1>6. CASE StopOldRow(c)
  <2>1. /\ w.at = "oldrow" /\ SetStatus(w.rec.active, "stopped") /\ UNCHANGED <<kind, record, up, strays>>
        /\ Goto(c, IF w.rec.name = Nothing THEN "remove" ELSE "oldruntime")
    BY <1>1, <1>6 DEF StopOldRow
  <2>2. ~disturbed => Settled /\ record = w.rec /\ record.source = w.rec.source
    BY <1>3, <2>1 DEF StartMidway
  <2>3. Listed' = Listed \ {w.rec.active} /\ RowsKept
    BY <1>3, <2>1, StopsListing, StatusKeepsRows DEF HostShape
  <2>4. Up' = Up /\ NamedOnly = NamedOnly'
    BY <2>1 DEF Up, NamedOnly
  <2>5. ~disturbed => Listed' = {} /\ Paired' /\ NamedOnly
    BY <1>3, <2>1, <2>2, <2>3, PairedKept, UpAndListed DEF Settled, ActiveOnly
  <2>6. CASE w.rec.name = Nothing
    <3>1. ~disturbed => Up' = {} /\ record'.name = Nothing
      BY <2>1, <2>2, <2>4, <2>5, <2>6, UpAndListed DEF NamedOnly
    <3>2. ASSUME ~disturbed, NEW v, v.at = "remove", v.op = "start", v.rec = w.rec PROVE Midway(v)'
      <4>1. StartMidway(v)'
        BY <1>3, <2>1, <2>2, <2>5, <3>1, <3>2 DEF StartMidway
      <4> QED BY <1>5, <3>2, <4>1
    <3> QED BY <1>1, <1>2, <1>4, <2>1, <2>5, <2>6, <3>2, OrderlyMove
  <2>7. CASE w.rec.name # Nothing
    <3>1. ASSUME ~disturbed, NEW v, v.at = "oldruntime", v.op = "start", v.rec = w.rec PROVE Midway(v)'
      <4>1. StartMidway(v)'
        BY <1>3, <2>1, <2>2, <2>4, <2>5, <2>7, <3>1 DEF StartMidway
      <4> QED BY <1>5, <3>1, <4>1
    <3> QED BY <1>1, <1>2, <1>4, <2>1, <2>5, <2>7, <3>1, OrderlyMove
  <2> QED BY <2>6, <2>7
<1>7. CASE StopOldRuntime(c)
  <2>1. /\ w.at = "oldruntime" /\ Remove(w.rec.name) /\ Goto(c, "oldrecord")
        /\ UNCHANGED <<kind, record, rows>>
    BY <1>1, <1>7 DEF StopOldRuntime
  <2>2. ~disturbed => /\ record = w.rec /\ NamedOnly /\ record.name # Nothing /\ Listed = {} /\ Paired
                      /\ record.source = w.rec.source
    BY <1>3, <2>1 DEF StartMidway
  <2>3. strays' \subseteq strays /\ (w.rec.name \in Names => Up' = Up \ {w.rec.name})
    BY <2>1, RemoveKeepsNames
  <2>4. ~disturbed => Up' = {} /\ Listed' = {} /\ Paired'
    BY <1>3, <2>1, <2>2, <2>3, SameParts, PairedKept DEF NamedOnly, Records, Listed
  <2>5. ASSUME ~disturbed, NEW v, v.at = "oldrecord", v.op = "start", v.rec = w.rec PROVE Midway(v)'
    <3>1. StartMidway(v)'
      BY <1>3, <2>1, <2>2, <2>4, <2>5 DEF StartMidway
    <3> QED BY <1>5, <2>5, <3>1
  <2> QED BY <1>1, <1>2, <1>4, <2>1, <2>4, <2>5, OrderlyMove
<1>8. CASE ClearOldRecord(c)
  <2>1. /\ w.at = "oldrecord" /\ SetRuntime("stopped", Nothing, Nothing)
        /\ UNCHANGED <<rows, up, strays>> /\ Goto(c, "remove")
    BY <1>1, <1>8 DEF ClearOldRecord
  <2>2. ~disturbed => Listed = {} /\ Up = {} /\ record.source = w.rec.source
    BY <1>3, <2>1 DEF StartMidway
  <2>3. record' # Nothing /\ record'.name = Nothing /\ record'.active = Nothing /\ record'.source = record.source
    BY <1>3, <2>1, SetRuntimeType
  <2>4. Paired' /\ Up' = Up /\ Listed' = Listed
    BY <2>1, <2>3, PairedCleared DEF Up, Listed
  <2>5. ASSUME ~disturbed, NEW v, v.at = "remove", v.op = "start", v.rec = w.rec PROVE Midway(v)'
    <3>1. StartMidway(v)'
      BY <2>2, <2>3, <2>4, <2>5 DEF StartMidway
    <3> QED BY <1>5, <2>5, <3>1
  <2> QED BY <1>1, <1>2, <1>4, <2>1, <2>4, <2>5, OrderlyMove
<1> QED BY <1>6, <1>7, <1>8

\* The runtime manager's steps change only what is up, and only at the name.
LEMMA LaunchSteps ==
    ASSUME HostShape, NEW c \in Hosts, NEW w, w = work[c], w.name \in Names, w.rec.source \in Sources,
           w.name.source \in {w.rec.source, Nothing},
           \/ RemoveName(c) \/ Create(c) \/ CreateFails(c) \/ Answers(c) \/ NeverAnswers(c)
           \/ PortUnknown(c) \/ UnloadValidated(c)
    PROVE  /\ UNCHANGED <<kind, record, rows, disturbed>> /\ RowsKept /\ Listed' = Listed
           /\ strays' \subseteq strays \cup {w.name}
           /\ \A n \in Names : n # w.name => up'[n] = up[n]
           /\ \/ w.at = "remove" /\ Goto(c, "create") /\ Up' = Up \ {w.name}
              \/ /\ w.at = "create" /\ Goto(c, "await") /\ Up' = Up \cup {w.name}
                 /\ up'[w.name] = w.rec.source
              \/ w.at = "create" /\ Goto(c, "failed") /\ Up' \in {Up, Up \ {w.name}}
              \/ /\ w.at = "await" /\ UNCHANGED <<up, strays>> /\ Up' = Up /\ up[w.name] # Nothing
                 /\ Goto(c, IF w.op = "validate" THEN "unload" ELSE "register")
              \/ w.at = "await" /\ Goto(c, "failed") /\ Up' = Up \ {w.name}
              \/ w.at = "unload" /\ Goto(c, "verdict") /\ Up' = Up \ {w.name}
<1>1. UNCHANGED <<kind, record, rows, disturbed>>
  BY DEF RemoveName, Create, CreateFails, Answers, NeverAnswers, PortUnknown, UnloadValidated
<1>2. RowsKept /\ Listed' = Listed
  BY <1>1, SameParts DEF Listed
<1>3. ASSUME Remove(w.name)
      PROVE  /\ strays' \subseteq strays \cup {w.name} /\ Up' = Up \ {w.name}
             /\ \A n \in Names : n # w.name => up'[n] = up[n]
  BY <1>3, RemoveKeepsNames DEF Remove, HostShape, HostType, UpFits
<1>4. ASSUME up[w.name] = Nothing, up' = [up EXCEPT ![w.name] = w.rec.source], UNCHANGED strays
      PROVE  /\ Up' = Up \cup {w.name} /\ up'[w.name] = w.rec.source
             /\ strays' \subseteq strays \cup {w.name}
             /\ \A n \in Names : n # w.name => up'[n] = up[n]
  BY <1>4, CreateKeepsNames DEF HostShape, HostType, UpFits
<1>5. UNCHANGED <<up, strays>> => Up' = Up
  BY DEF Up
<1>6. CASE RemoveName(c)
  BY <1>1, <1>2, <1>3, <1>6 DEF RemoveName
<1>7. CASE Create(c)
  BY <1>1, <1>2, <1>3, <1>4, <1>5, <1>7 DEF Create
<1>8. CASE CreateFails(c)
  BY <1>1, <1>2, <1>5, <1>8 DEF CreateFails
<1>9. CASE Answers(c)
  BY <1>1, <1>2, <1>5, <1>9 DEF Answers
<1>10. CASE NeverAnswers(c)
  BY <1>1, <1>2, <1>3, <1>10 DEF NeverAnswers
<1>11. CASE UnloadValidated(c)
  BY <1>1, <1>2, <1>3, <1>11 DEF UnloadValidated
<1>12. CASE PortUnknown(c)
  <2>1. UNCHANGED up /\ strays' = strays \cup {m \in {w.name} : up[m] # Nothing}
    BY <1>12 DEF PortUnknown
  <2>2. Up' = Up \ {w.name} /\ strays' \subseteq strays \cup {w.name}
    BY <2>1, StrayKeepsNames
  <2> QED BY <1>1, <1>2, <1>12, <2>1, <2>2 DEF PortUnknown
<1> QED BY <1>6, <1>7, <1>8, <1>9, <1>10, <1>11, <1>12

\* Launching the runtime of a start.
LEMMA StartLaunchOrderly ==
    ASSUME HostShape, Orderly, NEW c \in Hosts, work[c] \in RecordWork("start", StartSteps),
           \/ RemoveName(c) \/ Create(c) \/ CreateFails(c) \/ Answers(c) \/ NeverAnswers(c)
           \/ PortUnknown(c)
    PROVE  Orderly'
<1>1. PICK w : w = work[c]
  OBVIOUS
<1>2. /\ w.op = "start" /\ w.name \in Names /\ w.rec \in Records /\ record \in Records /\ record # Nothing
      /\ w.name = RuntimeName(w.rec.source, "")
      /\ ~disturbed => Paired /\ StartMidway(w)
  BY <1>1, StartBefore
<1>3. w.rec.source \in Sources /\ w.name.source \in {w.rec.source, Nothing}
  BY <1>2, NameParts DEF Records
<1>4. /\ UNCHANGED <<kind, record, rows, disturbed>> /\ RowsKept /\ Listed' = Listed
      /\ strays' \subseteq strays \cup {w.name}
      /\ \/ w.at = "remove" /\ Goto(c, "create") /\ Up' = Up \ {w.name}
         \/ /\ w.at = "create" /\ Goto(c, "await") /\ Up' = Up \cup {w.name}
            /\ up'[w.name] = w.rec.source
         \/ w.at = "create" /\ Goto(c, "failed") /\ Up' \in {Up, Up \ {w.name}}
         \/ /\ w.at = "await" /\ UNCHANGED <<up, strays>> /\ Up' = Up /\ up[w.name] # Nothing
            /\ Goto(c, "register")
         \/ w.at = "await" /\ Goto(c, "failed") /\ Up' = Up \ {w.name}
         \/ w.at = "unload" /\ Goto(c, "verdict") /\ Up' = Up \ {w.name}
  BY <1>1, <1>2, <1>3, LaunchSteps, ZenonT(40)
<1>5. w.at # "unload"
  BY <1>1 DEF RecordWork, StartSteps
<1>6. PICK at \in {"create", "await", "failed", "register"} :
          /\ Goto(c, at)
          /\ at = "create" => w.at = "remove" /\ Up' = Up \ {w.name}
          /\ at = "await" => w.at = "create" /\ Up' = Up \cup {w.name} /\ up'[w.name] = w.rec.source
          /\ at = "failed" => \/ w.at = "create" /\ Up' \subseteq Up
                              \/ w.at = "await" /\ Up' = Up \ {w.name}
          /\ at = "register" =>
                w.at = "await" /\ UNCHANGED <<up, strays>> /\ Up' = Up /\ up[w.name] # Nothing
  BY <1>4, <1>5
<1>7. ~disturbed => Paired'
  <2>1. ~disturbed => record.name = Nothing
    BY <1>2, <1>4, <1>5 DEF StartMidway
  <2> QED BY <1>2, <1>4, <2>1, PairedBeside, NothingAssumption
<1>8. ASSUME ~disturbed, NEW v, v.at = at, v.op = "start", v.rec = w.rec, v.name = w.name
      PROVE  Midway(v)'
  <2>1. /\ Listed = {} /\ record.name = Nothing /\ record.source = w.rec.source
        /\ w.at \in {"remove", "create"} => Up = {}
        /\ w.at = "await" => /\ Up \subseteq {w.name} /\ w.name \notin strays
                             /\ up[w.name] \in {w.rec.source, Nothing}
    BY <1>2, <1>6, <1>8 DEF StartMidway
  <2>2. /\ record' = record /\ Listed' = {}
        /\ at \in {"create", "failed"} => Up' = {}
        /\ at \in {"await", "register"} => Up' \subseteq {w.name}
        /\ at \in {"await", "register"} => up'[w.name] \in {w.rec.source, Nothing}
        /\ at = "await" => w.name \notin strays'
        /\ at = "register" => w.name \in Up'
    BY <1>2, <1>4, <1>6, <2>1 DEF Up
  <2>3. StartMidway(v)'
    BY <1>2, <1>6, <1>8, <2>1, <2>2 DEF StartMidway
  <2> QED BY <1>6, <1>8, <2>3 DEF Midway
<1>9. at \in StartSteps
  BY DEF StartSteps
<1> QED BY <1>1, <1>4, <1>6, <1>7, <1>8, <1>9, OrderlyMove

\* A validation runs beside the started service, under a name of its own.
LEMMA ValidateBefore ==
    ASSUME HostShape, Orderly, NEW c \in Hosts, NEW w, w = work[c],
           w \in RecordWork("validate", ValidateSteps)
    PROVE  /\ w.op = "validate" /\ w.at \notin {"idle", "save"} /\ w # Free
           /\ w.name \in Names /\ w.rec \in Records
           /\ w.name = RuntimeName(w.rec.source, "validate")
           /\ record \in Records /\ record # Nothing
           /\ ~disturbed => Paired /\ ValidateMidway(w) /\ record.name # w.name
<1>1. /\ w.op = "validate" /\ w.at \notin {"idle", "save"} /\ w.name \in Names /\ w.rec \in Records
  BY DEF RecordWork, ValidateSteps
<1>2. w # Free
  BY <1>1 DEF Free
<1>3. WorkFits(w) /\ OnRecord(w)
  BY <1>1 DEF HostShape, Referring, Naming, WorkFits, OnRecord
<1>4. ~disturbed => Paired /\ ValidateMidway(w)
  BY <1>1, <1>2, AtWork DEF Midway
<1>5. w.name = RuntimeName(w.rec.source, "validate") /\ record \in Records /\ record # Nothing
  BY <1>1, <1>3 DEF WorkFits, HostShape, HostType
<1>6. Paired => record.name # w.name
  BY <1>1, <1>5, NameSuffix, NothingAssumption DEF Paired
<1> QED BY <1>1, <1>2, <1>4, <1>5, <1>6

\* Launching and unloading the runtime of a validation.
LEMMA ValidateLaunchOrderly ==
    ASSUME HostShape, Orderly, NEW c \in Hosts, work[c] \in RecordWork("validate", ValidateSteps),
           \/ RemoveName(c) \/ Create(c) \/ CreateFails(c) \/ Answers(c) \/ NeverAnswers(c)
           \/ PortUnknown(c) \/ UnloadValidated(c)
    PROVE  Orderly'
<1>1. PICK w : w = work[c]
  OBVIOUS
<1>2. /\ w.op = "validate" /\ w.name \in Names /\ w.rec \in Records /\ record \in Records /\ record # Nothing
      /\ w.name = RuntimeName(w.rec.source, "validate")
      /\ ~disturbed => Paired /\ ValidateMidway(w) /\ record.name # w.name
  BY <1>1, ValidateBefore
<1>3. w.rec.source \in Sources /\ w.name.source \in {w.rec.source, Nothing}
  BY <1>2, NameParts DEF Records
<1>4. /\ UNCHANGED <<kind, record, rows, disturbed>> /\ RowsKept /\ Listed' = Listed
      /\ strays' \subseteq strays \cup {w.name} /\ \A n \in Names : n # w.name => up'[n] = up[n]
      /\ \/ w.at = "remove" /\ Goto(c, "create") /\ Up' = Up \ {w.name}
         \/ w.at = "create" /\ Goto(c, "await") /\ Up' = Up \cup {w.name}
         \/ w.at = "create" /\ Goto(c, "failed") /\ Up' \in {Up, Up \ {w.name}}
         \/ w.at = "await" /\ Up' = Up /\ Goto(c, "unload")
         \/ w.at = "await" /\ Goto(c, "failed") /\ Up' = Up \ {w.name}
         \/ w.at = "unload" /\ Goto(c, "verdict") /\ Up' = Up \ {w.name}
  BY <1>1, <1>2, <1>3, LaunchSteps
<1>5. PICK at \in {"create", "await", "failed", "unload", "verdict"} :
          /\ Goto(c, at)
          /\ at = "create" => w.at = "remove" /\ Up' = Up \ {w.name}
          /\ at = "await" => w.at = "create" /\ Up' = Up \cup {w.name}
          /\ at = "failed" => \/ w.at = "create" /\ Up' \in {Up, Up \ {w.name}}
                              \/ w.at = "await" /\ Up' = Up \ {w.name}
          /\ at = "unload" => w.at = "await" /\ Up' = Up
          /\ at = "verdict" => w.at = "unload" /\ Up' = Up \ {w.name}
  BY <1>4
<1>6. ~disturbed => Paired'
  BY <1>2, <1>4, PairedBeside
<1>7. ASSUME ~disturbed, NEW v, v.at = at, v.op = "validate", v.rec = w.rec, v.name = w.name
      PROVE  Midway(v)'
  <2>1. /\ record = w.rec /\ ActiveOnly /\ Backed /\ Serving
        /\ Up \subseteq {record.name} \cup {w.name}
        /\ w.at \in {"remove", "create"} => Up \subseteq {record.name}
    BY <1>2, <1>5, <1>7 DEF ValidateMidway
  <2>2. record' = record /\ ActiveOnly'
    BY <1>4, <2>1 DEF ActiveOnly
  <2>3. Backed' /\ Serving'
    <3>1. \A i \in Listed : rows[i].url # w.name /\ rows[i].url \in Names
      BY <1>2, UpAndListed, NameSuffix
    <3>2. \A n \in Up : n # w.name => n \in Up'
      BY <1>4
    <3> QED BY <1>4, <2>1, <3>1, <3>2 DEF Backed, Serving
  <2>4. /\ Up' \subseteq {record.name} \cup {w.name}
        /\ at \notin {"await", "unload"} => Up' \subseteq {record.name}
    BY <1>5, <2>1
  <2>5. ValidateMidway(v)'
    BY <1>4, <1>7, <2>1, <2>2, <2>3, <2>4 DEF ValidateMidway
  <2> QED BY <1>5, <1>7, <2>5 DEF Midway
<1>8. at \in ValidateSteps
  BY DEF ValidateSteps
<1> QED BY <1>1, <1>4, <1>5, <1>6, <1>7, <1>8, OrderlyMove

\* A verdict clears the record: it was clear before, or the step disturbs.
LEMMA VerdictOrderly ==
    ASSUME HostShape, Orderly, NEW c \in Hosts, RecordFailure(c) \/ RecordValidated(c)
    PROVE  Orderly'
<1>1. PICK w : w = work[c]
  OBVIOUS
<1>2. /\ w.at \in {"failed", "verdict"} /\ UNCHANGED <<rows, up, strays>> /\ Done(c)
      /\ \E status \in {"failed", "validated"} : SetRuntime(status, Nothing, Nothing)
      /\ ~disturbed' => ~disturbed /\ (w.op = "validate" => record.name = Nothing)
  <2>1. CASE RecordFailure(c)
    BY <1>1, <2>1 DEF RecordFailure
  <2>2. CASE RecordValidated(c)
    BY <1>1, <2>2 DEF RecordValidated
  <2> QED BY <2>1, <2>2
<1>3. w \in RecordWork("start", StartSteps) \cup RecordWork("validate", ValidateSteps)
  BY <1>1, <1>2, StepFixesHandler DEF HostShape, HostType
<1>4. record \in Records /\ record # Nothing /\ work[c] # Free /\ w.op \in {"start", "validate"}
  BY <1>1, <1>3, StartBefore, ValidateBefore
<1>5. record'.name = Nothing /\ record'.active = Nothing
  BY <1>2, <1>4, SetRuntimeType
<1>6. ~disturbed' => Up = {} /\ Listed = {}
  <2>1. CASE w \in RecordWork("start", StartSteps)
    <3>1. ~disturbed' => StartMidway(w)
      BY <1>1, <1>2, <2>1, StartBefore
    <3>2. w.at = "failed"
      BY <1>2, <2>1 DEF RecordWork, StartSteps
    <3> QED BY <3>1, <3>2 DEF StartMidway
  <2>2. CASE w \in RecordWork("validate", ValidateSteps)
    <3>1. w.op = "validate" /\ (~disturbed' => Paired /\ ValidateMidway(w))
      BY <1>1, <1>2, <2>2, ValidateBefore
    <3>2. ~disturbed' => record.name = Nothing /\ record.active = Nothing
      BY <1>2, <1>4, <3>1 DEF Paired
    <3>3. ~disturbed' => ActiveOnly /\ Up \subseteq {record.name}
      BY <1>2, <3>1 DEF ValidateMidway
    <3> QED BY <3>2, <3>3, UpAndListed DEF ActiveOnly
  <2> QED BY <1>3, <2>1, <2>2
<1>7. ~disturbed' => Up' = {} /\ Listed' = {}
  BY <1>2, <1>6 DEF Up, Listed
<1>8. (Up' = {} /\ Listed' = {}) => Settled'
  BY DEF Settled, NamedOnly, ActiveOnly, Backed, Serving
<1> QED BY <1>2, <1>4, <1>5, <1>7, <1>8, PairedCleared, OrderlyDone

\* The new row, the record that names it, and the probe that ends the start.
LEMMA RegisterOrderly ==
    ASSUME HostShape, Orderly, NEW c \in Hosts, RegisterStarted(c)
    PROVE  Orderly'
<1>1. PICK w : w = work[c]
  OBVIOUS
<1>2. PICK n : n = Len(rows) + 1
  OBVIOUS
<1>3. PICK v : v = [w EXCEPT !.at = "point", !.row = n]
  OBVIOUS
<1>4. /\ w.at = "register" /\ w \in RecordWork("start", StartSteps)
      /\ UNCHANGED <<kind, record, up, strays, disturbed>>
  BY <1>1, StepFixesHandler DEF RegisterStarted, HostShape, HostType
<1>5. /\ w.name \in Names /\ w.name = RuntimeName(w.rec.source, "") /\ w # Free
      /\ record # Nothing /\ (~disturbed => Paired /\ StartMidway(w))
  BY <1>1, <1>4, StartBefore
<1>6. /\ DOMAIN rows' = DOMAIN rows \cup {n} /\ n \notin DOMAIN rows
      /\ rows'[n] = [source |-> w.rec.source, url |-> w.name, status |-> "registered"]
      /\ \A i \in DOMAIN rows : rows'[i] = rows[i]
      /\ work' = [work EXCEPT ![c] = v]
  BY <1>1, <1>2, <1>3, RegisterShape
<1>7. rows'[n].url = w.name /\ rows'[n].status = "registered" /\ w.name # Elsewhere
  <2>1. rows'[n].url = w.name /\ rows'[n].status = "registered"
    BY <1>6
  <2>2. RuntimeName(w.rec.source, "") # Elsewhere
    BY NameSuffix
  <2> QED BY <1>5, <2>1, <2>2
<1>8. v.at = "point" /\ v.row = n /\ v.rec = w.rec /\ v.name = w.name /\ v.op = "start" /\ v # Free
  BY <1>3, <1>4 DEF RecordWork, Free
<1>9. Up' = Up /\ Listed' = Listed \cup {n}
  <2>1. Up' = Up
    BY <1>4 DEF Up
  <2>2. Listed' = Listed \cup {n}
    BY <1>6, <1>7 DEF Listed
  <2> QED BY <2>1, <2>2
<1>10. ASSUME ~disturbed PROVE Paired' /\ Midway(v)'
  <2>1. /\ Listed = {} /\ record.name = Nothing /\ Up \subseteq {w.name} /\ w.name \in Up
        /\ record.source = w.rec.source /\ up[w.name] \in {w.rec.source, Nothing}
    BY <1>4, <1>5, <1>10 DEF StartMidway
  <2>2. Paired'
    BY <1>4, <1>5, <1>10, <2>1 DEF Paired
  <2>3. Serving'
    BY <1>4, <1>6, <1>9, <2>1 DEF Serving
  <2>4. StartMidway(v)'
    BY <1>4, <1>5, <1>7, <1>8, <1>9, <2>1, <2>3 DEF StartMidway
  <2> QED BY <1>8, <2>2, <2>4 DEF Midway
<1>11. ~disturbed => \A d \in Hosts \ {c} : work[d] = Free
  BY <1>1, <1>5, AtWork
<1> QED BY <1>4, <1>6, <1>8, <1>10, <1>11, OrderlyStep

\* Pointing the record to the runtime, or undoing the start.
LEMMA PointOrderly ==
    ASSUME HostShape, Orderly, NEW c \in Hosts, PointRecord(c) \/ UndoStart(c) \/ RecordUndone(c)
    PROVE  Orderly'
<1>1. PICK w : w = work[c]
  OBVIOUS
<1>2. /\ w.at \in {"point", "undo", "undone"} /\ w \in RecordWork("start", StartSteps)
      /\ UNCHANGED <<kind, rows, disturbed>> /\ w.row \in DOMAIN rows /\ {"probe", "undone"} \subseteq StartSteps
  BY <1>1, StepFixesHandler
  DEF PointRecord, UndoStart, RecordUndone, HostShape, HostType, Referring, StartSteps
<1>3. /\ w.name \in Names /\ w.name = RuntimeName(w.rec.source, "") /\ w.row \in Nat \cup {Nothing}
      /\ w # Free /\ record # Nothing /\ record \in Records
      /\ ~disturbed => Paired /\ StartMidway(w)
  BY <1>1, <1>2, StartBefore
<1>4. Listed' = Listed /\ RowsKept /\ (UNCHANGED <<up, strays>> => Up' = Up) /\ w.row # Nothing
  BY <1>2, SameParts, UpAndListed, NothingAssumption, ZenonT(40) DEF Listed, Up
<1>5. ASSUME NEW status \in {"running", "failed"}, SetRuntime(status, w.name, w.row), ~disturbed,
             UNCHANGED <<up, strays>>, w.at # "undo"
      PROVE  record' # Nothing /\ record'.active = w.row /\ record'.name = w.name
             /\ record'.source = record.source /\ Paired'
  <2>1. /\ record' # Nothing /\ record'.active = w.row /\ record'.name = w.name
        /\ record'.source = record.source
    BY <1>3, <1>5, SetRuntimeType
  <2>2. record.source = w.rec.source /\ rows[w.row].url = w.name
    BY <1>2, <1>3, <1>5 DEF StartMidway
  <2>3. w.name # Nothing /\ w.name = RuntimeName(w.rec.source, "")'
    BY <1>2, <1>3, NothingAssumption DEF RuntimeName, HashIsCut
  <2>4. w.name \notin strays
    <3>1. CASE w.at = "point"
      BY <1>3, <1>5, <3>1, UpAndListed DEF StartMidway
    <3>2. CASE w.at = "undone"
      BY <1>3, <1>5, <2>3, <3>2 DEF StartMidway, Paired
    <3> QED BY <1>2, <1>5, <3>1, <3>2
  <2> QED BY <1>2, <1>4, <1>5, <2>1, <2>2, <2>3, <2>4 DEF Paired, RuntimeName, HashIsCut
<1>6. CASE PointRecord(c)
  <2>1. /\ w.at = "point" /\ SetRuntime("running", w.name, w.row)
        /\ UNCHANGED <<up, strays>> /\ Goto(c, "probe")
    BY <1>1, <1>6 DEF PointRecord
  <2>2. ASSUME ~disturbed, NEW v, v.at = "probe", v.op = "start", v.rec = w.rec, v.row = w.row, v.name = w.name
        PROVE  Midway(v)'
    <3>1. Serving'
      BY <1>3, <1>4, <2>1, <2>2, ServingKept DEF StartMidway
    <3>2. StartMidway(v)'
      BY <1>2, <1>3, <1>4, <1>5, <2>1, <2>2, <3>1 DEF StartMidway
    <3> QED BY <2>2, <3>2 DEF Midway
  <2> QED BY <1>1, <1>2, <1>5, <2>1, <2>2, OrderlyMove
<1>7. CASE UndoStart(c)
  <2>1. w.at = "undo" /\ Remove(w.name) /\ UNCHANGED record /\ Goto(c, "undone")
    BY <1>1, <1>7 DEF UndoStart
  <2>2. /\ Up' = Up \ {w.name} /\ strays' \subseteq strays
        /\ \A n \in Names : up'[n] \in {up[n], Nothing}
    BY <1>3, <2>1, RemoveKeepsNames
  <2>3. ~disturbed => Paired'
    BY <1>2, <1>3, <1>4, <2>1, <2>2, PairedKept
  <2>4. ASSUME ~disturbed, NEW v, v.at = "undone", v.op = "start", v.rec = w.rec, v.row = w.row, v.name = w.name
        PROVE  Midway(v)'
    <3>1. Serving'
      BY <1>3, <1>4, <2>1, <2>2, <2>4, ServingKept DEF StartMidway
    <3>2. StartMidway(v)'
      BY <1>2, <1>3, <1>4, <2>1, <2>2, <2>4, <3>1 DEF StartMidway
    <3> QED BY <2>4, <3>2 DEF Midway
  <2> QED BY <1>1, <1>2, <2>1, <2>3, <2>4, OrderlyMove
<1>8. CASE RecordUndone(c)
  <2>1. /\ w.at = "undone" /\ SetRuntime("failed", w.name, w.row)
        /\ UNCHANGED <<up, strays>> /\ Done(c)
    BY <1>1, <1>8 DEF RecordUndone
  <2>2. ASSUME ~disturbed PROVE Settled'
    <3>1. Up = {} /\ Listed = {w.row} /\ rows[w.row].status # "running"
      BY <1>3, <2>1, <2>2 DEF StartMidway
    <3>2. record' # Nothing /\ record'.active = w.row
      BY <1>5, <2>1, <2>2
    <3>3. Serving'
      BY <1>3, <1>4, <2>1, <2>2, ServingKept DEF StartMidway
    <3> QED BY <1>2, <1>4, <2>1, <3>1, <3>2, <3>3 DEF Settled, NamedOnly, ActiveOnly, Backed
  <2> QED BY <1>1, <1>2, <1>3, <1>5, <2>1, <2>2, OrderlyDone
<1> QED BY <1>6, <1>7, <1>8

\* What a probe or a proxied request that is alone has seen.
LEMMA RowBefore ==
    ASSUME HostShape, Orderly, NEW c \in Hosts, NEW w, w = work[c], w.at \in {"probe", "proof", "proxy"},
           w \notin RecordWork("start", StartSteps)
    PROVE  /\ w.op \in {"probe", "proxy"} /\ w # Free /\ w.row \in DOMAIN rows /\ w.row \in Nat
           /\ w.at = "proxy" => w.op = "proxy"
           /\ w.at # "proxy" => w.op = "probe"
           /\ ~disturbed => Paired /\ RowMidway(w)
<1>1. w \in Works
  BY DEF HostShape, HostType
<1>2. /\ w.at # "proxy" => w \in [op : {"probe"}, row : Nat, ok : BOOLEAN, at : {"probe", "proof"}]
      /\ w.at = "proxy" => w \in [op : {"proxy"}, row : Nat, ok : BOOLEAN, at : {"proxy"}]
  BY <1>1, StepFixesHandler
<1>3. /\ w.op \in {"probe", "proxy"} /\ w.row \in Nat
      /\ (w.at = "proxy" => w.op = "proxy") /\ (w.at # "proxy" => w.op = "probe")
  BY <1>2
<1>4. w # Free
  BY DEF Free
<1>5. w.row \in DOMAIN rows
  BY DEF HostShape, Referring
<1>6. ~disturbed => Paired /\ RowMidway(w)
  BY <1>3, <1>4, AtWork DEF Midway
<1> QED BY <1>3, <1>4, <1>5, <1>6

\* What a status that a probe found leaves settled.
LEMMA SettledStatus ==
    ASSUME HostShape, Settled, UNCHANGED <<record, up, strays>>, NEW i \in DOMAIN rows,
           NEW status \in {"running", "failed"}, SetStatus(i, status),
           i \in Listed \/ rows[i].url = Elsewhere,
           status = "running" /\ i \in Listed => rows[i].url \in Up
    PROVE  Settled'
<1>1. /\ Listed' = Listed /\ \A j \in Listed : j # i => rows'[j] = rows[j]
      /\ i \in Listed => rows'[i].status = status /\ rows'[i].url = rows[i].url
  BY KeepsListing
<1>2. Up' = Up
  BY DEF Up
<1>3. Backed'
  BY <1>1, <1>2 DEF Settled, Backed
<1>4. Serving'
  BY <1>1, StatusKeepsRows, ServingKept DEF Settled, HostShape
<1> QED BY <1>1, <1>2, <1>3, <1>4 DEF Settled, NamedOnly, ActiveOnly

\* Probing a row.
LEMMA ProbeOrderly ==
    ASSUME HostShape, Orderly, NEW c \in Hosts, Probe(c)
    PROVE  Orderly'
<1>1. PICK w : w = work[c]
  OBVIOUS
<1>2. PICK url : url = rows[w.row].url
  OBVIOUS
<1>3. PICK ok \in BOOLEAN :
          /\ ok => url = Elsewhere \/ up[url] # Nothing
          /\ work' = [work EXCEPT ![c].at = "proof", ![c].ok = ok]
  BY <1>1, <1>2 DEF Probe
<1>4. PICK v : v = [w EXCEPT !.at = "proof", !.ok = ok]
  OBVIOUS
<1>5. /\ w \in Works /\ w.at = "probe" /\ UNCHANGED <<kind, record, rows, up, strays, disturbed>>
      /\ work' = [work EXCEPT ![c] = v]
  BY <1>1, <1>3, <1>4 DEF HostShape, HostType, Probe
<1>6. Up' = Up /\ Listed' = Listed /\ RowsKept
  BY <1>5, SameParts DEF Up, Listed
<1>7. CASE w \in RecordWork("start", StartSteps)
  <2>1. w # Free /\ (~disturbed => Paired /\ StartMidway(w))
    BY <1>1, <1>7, StartBefore
  <2>2. /\ v.at = "proof" /\ v.row = w.row /\ v.rec = w.rec /\ v.name = w.name /\ v.op = "start"
        /\ v # Free
    BY <1>4, <1>7 DEF RecordWork, Free
  <2>3. ASSUME ~disturbed PROVE Paired' /\ Midway(v)'
    <3>1. Serving'
      BY <1>5, <1>6, <2>1, <2>3, ServingKept DEF StartMidway
    <3>2. StartMidway(v)'
      BY <1>5, <1>6, <2>1, <2>2, <2>3, <3>1 DEF StartMidway
    <3> QED BY <1>5, <1>6, <2>1, <2>2, <2>3, <3>2, PairedKept DEF Midway
  <2>4. ~disturbed => \A d \in Hosts \ {c} : work[d] = Free
    BY <1>1, <2>1, AtWork
  <2> QED BY <1>5, <2>2, <2>3, <2>4, OrderlyStep
<1>8. CASE w \notin RecordWork("start", StartSteps)
  <2>1. /\ w # Free /\ w.op = "probe" /\ w.row \in DOMAIN rows
        /\ ~disturbed => Paired /\ RowMidway(w)
    BY <1>1, <1>5, <1>8, RowBefore
  <2>2. w \in [op : {"probe"}, row : Nat, ok : BOOLEAN, at : {"probe", "proof"}]
    BY <1>5, <1>8, StepFixesHandler
  <2>3. v.at = "proof" /\ v.row = w.row /\ v.op = "probe" /\ v.ok = ok /\ v # Free
    BY <1>4, <2>2 DEF Free
  <2>4. ASSUME ~disturbed, ok, url # Elsewhere PROVE url \in Up
    <3>1. up[url] # Nothing /\ w.row \in Listed /\ ActiveOnly /\ Paired
      BY <1>2, <1>3, <2>1, <2>4 DEF RowMidway, Settled
    <3>2. record # Nothing /\ record.active = w.row /\ record.active # Nothing
      BY <3>1, UpAndListed DEF ActiveOnly
    <3>3. url \notin strays
      BY <1>2, <3>1, <3>2 DEF Paired
    <3> QED BY <1>2, <2>1, <3>1, <3>3, UpAndListed
  <2>5. ASSUME ~disturbed PROVE Paired' /\ Midway(v)'
    <3>1. Settled'
      BY <1>5, <1>6, <2>1, <2>5, SettledShrinks DEF RowMidway
    <3>2. RowMidway(v)'
      BY <1>2, <1>5, <1>6, <2>1, <2>3, <2>4, <2>5, <3>1 DEF RowMidway
    <3> QED BY <1>5, <1>6, <2>1, <2>3, <2>5, <3>2, PairedKept DEF Midway
  <2>6. ~disturbed => \A d \in Hosts \ {c} : work[d] = Free
    BY <1>1, <2>1, AtWork
  <2> QED BY <1>5, <2>3, <2>5, <2>6, OrderlyStep
<1> QED BY <1>7, <1>8

\* Saving what a probe found.
LEMMA SaveProbeOrderly ==
    ASSUME HostShape, Orderly, NEW c \in Hosts, SaveProbe(c)
    PROVE  Orderly'
<1>1. PICK w : w = work[c]
  OBVIOUS
<1>2. /\ w \in Works /\ w.at = "proof" /\ UNCHANGED <<kind, record, up, strays, disturbed>>
      /\ SetStatus(w.row, IF w.ok THEN "running" ELSE "failed") /\ w.row \in DOMAIN rows
  BY <1>1 DEF HostShape, HostType, SaveProbe, Referring
<1>3. PICK status \in {"running", "failed"} :
          /\ SetStatus(w.row, status) /\ (status = "running" => w.ok) /\ (status = "failed" => ~w.ok)
  BY <1>2
<1>4. RowsKept /\ Up' = Up
  BY <1>2, <1>3, StatusKeepsRows DEF HostShape, Up
<1>5. CASE w \in RecordWork("start", StartSteps)
  <2>1. w # Free /\ w.op = "start" /\ w.name \in Names /\ (~disturbed => Paired /\ StartMidway(w))
    BY <1>1, <1>5, StartBefore
  <2>2. ASSUME ~disturbed
        PROVE  /\ Paired' /\ Serving' /\ Listed' = {w.row} /\ rows[w.row].status # "deleted"
               /\ rows'[w.row].url = w.name /\ rows'[w.row].status = status
               /\ w.name \in Up /\ Up \subseteq {w.name} /\ record # Nothing
               /\ record.active = w.row /\ record.name = w.name /\ record.source = w.rec.source
    <3>1. /\ Listed = {w.row} /\ rows[w.row].url = w.name /\ w.name \in Up /\ Up \subseteq {w.name}
          /\ record.active = w.row /\ record.name = w.name /\ record.source = w.rec.source
          /\ record # Nothing
      BY <1>2, <2>1, <2>2 DEF StartMidway
    <3>2. /\ Listed' = Listed /\ rows'[w.row].status = status /\ rows'[w.row].url = rows[w.row].url
      BY <1>2, <1>3, <3>1, KeepsListing
    <3>3. rows[w.row].status # "deleted"
      BY <3>1 DEF Listed
    <3>4. Paired'
      BY <1>2, <1>4, <2>1, <2>2, PairedKept
    <3>5. Serving'
      BY <1>2, <1>4, <2>1, <2>2, <3>2, ServingKept DEF StartMidway
    <3> QED BY <3>1, <3>2, <3>3, <3>4, <3>5
  <2>3. CASE ~w.ok /\ rows[w.row].status # "deleted"
    <3>1. Goto(c, "undo") /\ "undo" \in StartSteps /\ status = "failed"
      BY <1>1, <1>3, <2>1, <2>3 DEF SaveProbe, StartSteps
    <3>2. ASSUME ~disturbed, NEW v, v.at = "undo", v.op = "start", v.rec = w.rec, v.row = w.row, v.name = w.name
          PROVE  Midway(v)'
      <4>1. StartMidway(v)'
        BY <1>2, <1>4, <2>2, <3>1, <3>2 DEF StartMidway
      <4> QED BY <3>2, <4>1 DEF Midway
    <3> QED BY <1>1, <1>2, <1>5, <2>2, <3>1, <3>2, OrderlyMove
  <2>4. CASE ~(~w.ok /\ rows[w.row].status # "deleted")
    <3>1. Done(c)
      BY <1>1, <2>4 DEF SaveProbe
    <3>2. ~disturbed => status = "running"
      BY <1>3, <2>2, <2>4
    <3>3. ~disturbed => Settled'
      BY <1>2, <1>4, <2>2, <3>2 DEF Settled, NamedOnly, ActiveOnly, Backed
    <3> QED BY <1>1, <1>2, <2>1, <2>2, <3>1, <3>3, OrderlyDone
  <2> QED BY <2>3, <2>4
<1>6. CASE w \notin RecordWork("start", StartSteps)
  <2>1. /\ w # Free /\ w.op = "probe" /\ (~disturbed => Paired /\ RowMidway(w))
    BY <1>1, <1>2, <1>6, RowBefore
  <2>2. Done(c)
    BY <1>1, <2>1 DEF SaveProbe
  <2>3. ASSUME ~disturbed PROVE Settled' /\ Paired'
    <3>1. /\ Settled /\ (w.row \in Listed \/ rows[w.row].url = Elsewhere)
          /\ w.ok /\ rows[w.row].url # Elsewhere => rows[w.row].url \in Up
      BY <1>2, <2>1, <2>3 DEF RowMidway
    <3>2. w.row \in Listed => rows[w.row].url # Elsewhere
      BY DEF Listed
    <3> QED BY <1>2, <1>3, <1>4, <2>1, <2>3, <3>1, <3>2, SettledStatus, PairedKept
  <2> QED BY <1>1, <1>2, <2>1, <2>2, <2>3, OrderlyDone
<1> QED BY <1>5, <1>6

\* Proxying to a row.
LEMMA ProxyOrderly ==
    ASSUME HostShape, Orderly, NEW c \in Hosts, Proxy(c)
    PROVE  Orderly'
<1>1. PICK w : w = work[c]
  OBVIOUS
<1>2. /\ w \in Works /\ w.at = "proxy" /\ UNCHANGED <<kind, record, up, strays, disturbed>> /\ Done(c)
      /\ UNCHANGED rows \/ SetStatus(w.row, "failed")
  BY <1>1 DEF HostShape, HostType, Proxy
<1>3. w \notin RecordWork("start", StartSteps)
  BY <1>2 DEF RecordWork, StartSteps
<1>4. w # Free /\ w.row \in DOMAIN rows /\ (~disturbed => Paired /\ RowMidway(w))
  BY <1>1, <1>2, <1>3, RowBefore
<1>5. CASE UNCHANGED rows
  <2>1. RowsKept /\ Listed' = Listed
    BY <1>5, SameParts DEF Listed
  <2>2. ~disturbed => Settled' /\ Paired'
    BY <1>2, <1>4, <1>5, <2>1, SettledShrinks, PairedKept DEF RowMidway
  <2> QED BY <1>1, <1>2, <1>4, <2>2, OrderlyDone
<1>6. CASE SetStatus(w.row, "failed")
  <2>1. RowsKept
    BY <1>4, <1>6, StatusKeepsRows DEF HostShape
  <2>2. ~disturbed => Settled' /\ Paired'
    BY <1>2, <1>4, <1>6, <2>1, SettledStatus, PairedKept DEF RowMidway
  <2> QED BY <1>1, <1>2, <1>4, <2>2, OrderlyDone
<1> QED BY <1>2, <1>5, <1>6

\* A stop takes the runtime, then the row, then the record's names.
LEMMA StopOrderly ==
    ASSUME HostShape, Orderly, NEW c \in Hosts, StopRuntime(c) \/ StopRow(c) \/ RecordStopped(c)
    PROVE  Orderly'
<1>1. PICK w : w = work[c]
  OBVIOUS
<1>2. /\ w \in RecordWork("stop", StopSteps) /\ UNCHANGED disturbed
      /\ {"endrow", "endrecord"} \subseteq StopSteps
  BY <1>1, StepFixesHandler DEF StopRuntime, StopRow, RecordStopped, HostShape, HostType, StopSteps
<1>3. /\ w.op = "stop" /\ w.at \notin {"idle", "save"} /\ w.rec \in Records
  BY <1>2 DEF RecordWork, StopSteps
<1>4. w # Free
  BY <1>3 DEF Free
<1>5. record # Nothing /\ record \in Records /\ w.rec.active \in DOMAIN rows \cup {Nothing}
  BY <1>1, <1>3 DEF HostShape, HostType, Referring, OnRecord
<1>6. ~disturbed => Paired /\ StopMidway(w)
  BY <1>1, <1>3, <1>4, AtWork DEF Midway
<1>7. CASE StopRuntime(c)
  <2>1. /\ w.at = "end" /\ UNCHANGED <<kind, record, rows>> /\ Goto(c, "endrow")
        /\ IF w.rec.name = Nothing THEN UNCHANGED <<up, strays>> ELSE Remove(w.rec.name)
    BY <1>1, <1>7 DEF StopRuntime
  <2>2. Listed' = Listed /\ RowsKept
    BY <2>1, SameParts DEF Listed
  <2>3. ~disturbed => record = w.rec /\ NamedOnly /\ ActiveOnly
    BY <1>6, <2>1 DEF StopMidway, Settled
  <2>4. ~disturbed => Up' = {}
    <3>1. CASE w.rec.name = Nothing
      BY <1>5, <2>1, <2>3, <3>1, UpAndListed, ZenonT(40) DEF NamedOnly, Up
    <3>2. CASE w.rec.name # Nothing
      <4>1. w.rec.name \in Names
        BY <1>3, <3>2 DEF Records
      <4>2. Up' = Up \ {w.rec.name}
        BY <2>1, <3>2, <4>1, RemoveKeepsNames
      <4> QED BY <2>3, <4>2 DEF NamedOnly
    <3> QED BY <3>1, <3>2
  <2>5. ~disturbed => Paired'
    BY <1>6, <2>1, <2>2, RemoveKeepsNames, PairedKept
  <2>6. ASSUME ~disturbed, NEW v, v.at = "endrow", v.op = "stop", v.rec = w.rec PROVE Midway(v)'
    <3>1. StopMidway(v)'
      BY <2>1, <2>2, <2>3, <2>4, <2>6 DEF StopMidway, ActiveOnly
    <3> QED BY <2>6, <3>1 DEF Midway
  <2> QED BY <1>1, <1>2, <2>1, <2>5, <2>6, OrderlyMove
<1>8. CASE StopRow(c)
  <2>1. /\ w.at = "endrow" /\ UNCHANGED <<kind, record, up, strays>> /\ Goto(c, "endrecord")
        /\ SetStatus(w.rec.active, "stopped")
    BY <1>1, <1>8 DEF StopRow
  <2>2. Listed' = Listed \ {w.rec.active} /\ RowsKept /\ Up' = Up
    BY <1>5, <2>1, StopsListing, StatusKeepsRows DEF HostShape, Up
  <2>3. ~disturbed => record = w.rec /\ Up = {} /\ ActiveOnly
    BY <1>6, <2>1 DEF StopMidway
  <2>4. ~disturbed => Listed' = {} /\ Paired'
    BY <1>6, <2>1, <2>2, <2>3, PairedKept DEF ActiveOnly
  <2>5. ASSUME ~disturbed, NEW v, v.at = "endrecord", v.op = "stop", v.rec = w.rec PROVE Midway(v)'
    <3>1. StopMidway(v)'
      BY <2>1, <2>2, <2>3, <2>4, <2>5 DEF StopMidway
    <3> QED BY <2>5, <3>1 DEF Midway
  <2> QED BY <1>1, <1>2, <2>1, <2>4, <2>5, OrderlyMove
<1>9. CASE RecordStopped(c)
  <2>1. /\ w.at = "endrecord" /\ UNCHANGED <<rows, up, strays>> /\ Done(c)
        /\ SetRuntime("stopped", Nothing, Nothing)
    BY <1>1, <1>9 DEF RecordStopped
  <2>2. record'.name = Nothing /\ record'.active = Nothing
    BY <1>5, <2>1, SetRuntimeType
  <2>3. ~disturbed => Up' = {} /\ Listed' = {}
    BY <1>6, <2>1 DEF StopMidway, Up, Listed
  <2>4. ~disturbed => Settled'
    BY <2>3 DEF Settled, NamedOnly, ActiveOnly, Backed, Serving
  <2> QED BY <1>1, <1>2, <1>4, <2>1, <2>2, <2>4, PairedCleared, OrderlyDone
<1> QED BY <1>7, <1>8, <1>9

\* A declaration over a record that names no row finds nothing up.
LEMMA SaveOrderly ==
    ASSUME HostShape, Orderly, NEW c \in Hosts, SaveDeclaration(c)
    PROVE  Orderly'
<1>1. PICK w : w = work[c]
  OBVIOUS
<1>2. /\ w.at = "save" /\ UNCHANGED <<rows, up, strays>> /\ Done(c)
      /\ record'.name = Nothing /\ record'.active = Nothing
      /\ ~disturbed' => ~disturbed /\ (record # Nothing => record.active = Nothing)
  BY <1>1 DEF SaveDeclaration
<1>3. w # Free
  BY <1>2 DEF Free
<1>4. ~disturbed => Paired /\ Settled
  BY <1>1, <1>2, <1>3, AtWork DEF Midway
<1>5. ~disturbed' => Up = {} /\ Listed = {}
  BY <1>2, <1>4, UpAndListed DEF Settled, NamedOnly, ActiveOnly, Paired
<1>6. ~disturbed' => Settled'
  BY <1>2, <1>5 DEF Settled, NamedOnly, ActiveOnly, Backed, Serving, Up, Listed
<1> QED BY <1>1, <1>2, <1>3, <1>6, PairedCleared, OrderlyDone

\* An unexpected exception ends a request: what it leaves up is a stray.
LEMMA ExceptionOrderly ==
    ASSUME HostShape, Orderly, NEW c \in Hosts, AnswerBroken(c) \/ ProbeBroken(c)
    PROVE  Orderly'
<1>1. PICK w : w = work[c]
  OBVIOUS
<1>2. /\ w \in Works /\ w.at \in {"await", "probe"} /\ Done(c)
      /\ UNCHANGED <<kind, record, rows, up, disturbed>>
  BY <1>1 DEF HostShape, HostType, AnswerBroken, ProbeBroken
<1>3. RowsKept /\ Listed' = Listed
  BY <1>2, SameParts DEF Listed
<1>4. CASE AnswerBroken(c)
  <2>1. /\ w.at = "await" /\ up[w.name] # Nothing /\ strays' = strays \cup {w.name}
    BY <1>1, <1>4 DEF AnswerBroken
  <2>2. Up' = Up \ {w.name}
    BY <1>2, <2>1 DEF Up
  <2>3. CASE w \in RecordWork("start", StartSteps)
    <3>1. /\ w # Free /\ w.name \in Names /\ record # Nothing
          /\ ~disturbed => Paired /\ StartMidway(w)
      BY <1>1, <2>3, StartBefore
    <3>2. ~disturbed => Listed = {} /\ Up \subseteq {w.name} /\ record.name = Nothing
      BY <2>1, <3>1 DEF StartMidway
    <3>3. ~disturbed => Paired'
      BY <1>2, <1>3, <2>1, <3>1, <3>2, PairedBeside, NothingAssumption
    <3>4. ~disturbed => Settled'
      BY <1>3, <2>2, <3>2 DEF Settled, NamedOnly, ActiveOnly, Backed, Serving
    <3> QED BY <1>1, <1>2, <3>1, <3>3, <3>4, OrderlyDone
  <2>4. CASE w \in RecordWork("validate", ValidateSteps)
    <3>1. /\ w # Free /\ w.name \in Names /\ record # Nothing
          /\ w.name = RuntimeName(w.rec.source, "validate")
          /\ ~disturbed => Paired /\ ValidateMidway(w) /\ record.name # w.name
      BY <1>1, <2>4, ValidateBefore
    <3>2. ~disturbed => Paired'
      BY <1>2, <1>3, <2>1, <3>1, PairedBeside
    <3>3. \A i \in Listed : rows[i].url # w.name
      BY <3>1, UpAndListed, NameSuffix
    <3>4. ASSUME ~disturbed PROVE Settled'
      <4>1. ActiveOnly /\ Backed /\ Serving /\ Up \subseteq {record.name} \cup {w.name}
        BY <2>1, <3>1, <3>4 DEF ValidateMidway
      <4>2. ActiveOnly' /\ Serving'
        BY <1>2, <1>3, <4>1, ServingKept DEF ActiveOnly, HostShape, HostType, UpFits
      <4>3. Backed'
        BY <1>2, <1>3, <2>2, <3>3, <4>1 DEF Backed
      <4> QED BY <1>2, <2>2, <3>1, <4>1, <4>2, <4>3 DEF Settled, NamedOnly
    <3> QED BY <1>1, <1>2, <3>1, <3>2, <3>4, OrderlyDone
  <2> QED BY <1>2, <2>1, <2>3, <2>4, StepFixesHandler
<1>5. CASE ProbeBroken(c)
  <2>1. w.at = "probe" /\ UNCHANGED strays
    BY <1>1, <1>5 DEF ProbeBroken
  <2>2. CASE w \in RecordWork("start", StartSteps)
    <3>1. w # Free /\ (~disturbed => Paired /\ StartMidway(w))
      BY <1>1, <2>2, StartBefore
    <3>2. ASSUME ~disturbed PROVE Settled
      <4>1. /\ record # Nothing /\ Listed = {w.row} /\ Up \subseteq {w.name} /\ Serving
            /\ rows[w.row].status # "running" /\ record.active = w.row /\ record.name = w.name
        BY <2>1, <3>1, <3>2 DEF StartMidway
      <4> QED BY <4>1 DEF Settled, NamedOnly, ActiveOnly, Backed
    <3> QED BY <1>1, <1>2, <1>3, <2>1, <3>1, <3>2, PairedKept, SettledShrinks, OrderlyDone
  <2>3. CASE w \notin RecordWork("start", StartSteps)
    <3>1. w # Free /\ (~disturbed => Paired /\ Settled)
      BY <1>1, <2>1, <2>3, RowBefore DEF RowMidway
    <3> QED BY <1>1, <1>2, <1>3, <2>1, <3>1, PairedKept, SettledShrinks, OrderlyDone
  <2> QED BY <2>2, <2>3
<1> QED BY <1>4, <1>5

\* A handler's step keeps the order.
LEMMA StepOrderly ==
    ASSUME HostShape, Orderly, NEW c \in Hosts, Step(c)
    PROVE  Orderly'
<1>1. ASSUME \/ RemoveName(c) \/ Create(c) \/ CreateFails(c) \/ Answers(c) \/ NeverAnswers(c)
             \/ PortUnknown(c)
      PROVE  Orderly'
  <2>1. work[c] \in RecordWork("start", StartSteps) \cup RecordWork("validate", ValidateSteps)
    BY <1>1, StepFixesHandler
    DEF RemoveName, Create, CreateFails, Answers, NeverAnswers, PortUnknown, HostShape, HostType
  <2> QED BY <1>1, <2>1, StartLaunchOrderly, ValidateLaunchOrderly
<1>2. ASSUME UnloadValidated(c) PROVE Orderly'
  <2>1. work[c] \in RecordWork("validate", ValidateSteps)
    BY <1>2, StepFixesHandler DEF UnloadValidated, HostShape, HostType
  <2> QED BY <1>2, <2>1, ValidateLaunchOrderly
<1> QED BY <1>1, <1>2, SaveOrderly, ClearingOrderly, VerdictOrderly, RegisterOrderly, PointOrderly,
           ProbeOrderly, SaveProbeOrderly, StopOrderly, ProxyOrderly, ExceptionOrderly DEF Step

\* A request that begins while nothing else is under way finds the host
\* settled.
LEMMA BeginOrderly ==
    ASSUME HostShape, Orderly, NEW c \in Hosts, NEW w, Begin(c, w), RowsKept, UNCHANGED <<kind, record, strays>>,
           Settled /\ Paired => (w = Free => Settled') /\ (w # Free => Midway(w)')
    PROVE  Orderly'
<1>1. work' = [work EXCEPT ![c] = w] /\ work[c] = Free
  BY DEF Begin
<1>2. ~disturbed' => ~disturbed /\ \A d \in Hosts \ {c} : work[d] = Free
  BY DEF Begin
<1>3. ~disturbed' => Settled /\ Paired
  BY <1>1, <1>2 DEF Orderly
<1> QED BY <1>1, <1>2, <1>3, PairedKept, OrderlyStep

\* Every route of the host.
LEMMA RouteOrderly ==
    ASSUME HostShape, Orderly, NEW c \in Hosts, WriterRoute(c) \/ OpenRoute(c) \/ AdminRoute(c)
    PROVE  Orderly'
<1>0. ASSUME UNCHANGED <<record, rows, up, strays>>
      PROVE  RowsKept /\ (Settled => Settled') /\ (Serving => Serving') /\ Up' = Up /\ Listed' = Listed
  BY <1>0, SameParts DEF Settled, NamedOnly, ActiveOnly, Backed, Serving, Up, Listed
<1>1. ASSUME NEW s \in Sources, Declare(c, s) PROVE Orderly'
  <2>1. PICK w : w = [at |-> "save", source |-> s]
    OBVIOUS
  <2>2. UNCHANGED <<kind, record, rows, up, strays>> /\ (Begin(c, Free) \/ Begin(c, w)) /\ w.at = "save"
    BY <1>1, <2>1 DEF Declare
  <2>3. Settled => Midway(w)' /\ Settled'
    BY <1>0, <2>2 DEF Midway
  <2> QED BY <1>0, <2>2, <2>3, BeginOrderly
<1>2. ASSUME NEW op \in {"start", "validate", "stop"}, ReadRecord(c, op) PROVE Orderly'
  <2>1. PICK w : w = RecordWorkFor(op)
    OBVIOUS
  <2>2. /\ UNCHANGED <<kind, record, rows, up, strays>>
        /\ Begin(c, Free) \/ (record # Nothing /\ Begin(c, w))
    BY <1>2, <2>1 DEF ReadRecord, RecordWorkFor
  <2>3. /\ w.op = op /\ w.rec = record
        /\ op = "start" => w.at = "oldrow"
        /\ op = "validate" => w.at = "remove"
        /\ op = "stop" => w.at = "end"
    BY <2>1 DEF RecordWorkFor
  <2>4. ASSUME record # Nothing, Settled, op = "start" PROVE Midway(w)'
    <3>1. StartMidway(w)'
      BY <1>0, <2>2, <2>3, <2>4 DEF StartMidway
    <3> QED BY <2>3, <2>4, <3>1 DEF Midway
  <2>5. ASSUME record # Nothing, Settled, op = "validate" PROVE Midway(w)'
    <3>1. Up \subseteq {record.name}
      BY <2>5 DEF Settled, NamedOnly
    <3>2. ValidateMidway(w)'
      BY <1>0, <2>2, <2>3, <2>5, <3>1 DEF ValidateMidway, Settled
    <3> QED BY <2>3, <2>5, <3>2 DEF Midway
  <2>6. ASSUME record # Nothing, Settled, op = "stop" PROVE Midway(w)'
    <3>1. StopMidway(w)'
      BY <1>0, <2>2, <2>3, <2>6 DEF StopMidway
    <3> QED BY <2>3, <2>6, <3>1 DEF Midway
  <2>7. record # Nothing /\ Settled => Midway(w)' /\ Settled'
    BY <1>0, <2>2, <2>4, <2>5, <2>6
  <2> QED BY <1>0, <2>2, <2>7, BeginOrderly
<1>3. CASE RegisterElsewhere(c)
  <2>1. PICK r : r = [source |-> Nothing, url |-> Elsewhere, status |-> "registered"]
    OBVIOUS
  <2>2. /\ r \in ServiceRows /\ r.url = Elsewhere /\ Routed(r) /\ rows' = Append(rows, r)
        /\ UNCHANGED <<kind, record, up, strays>> /\ Begin(c, Free)
    BY <1>3, <2>1 DEF RegisterElsewhere, ServiceRows, Routed, Elsewhere, Names
  <2>3. /\ RowsKept /\ DOMAIN rows' = DOMAIN rows \cup {Len(rows) + 1}
        /\ rows'[Len(rows) + 1] = r /\ \A i \in DOMAIN rows : rows'[i] = rows[i]
    BY <2>2, AppendKeepsRows DEF HostShape
  <2>4. Listed' = Listed /\ \A j \in Listed' : rows'[j] = rows[j]
    BY <2>2, <2>3 DEF Listed
  <2> QED BY <2>2, <2>3, <2>4, SettledShrinks, BeginOrderly
<1>4. ASSUME NEW i \in Present, NEW op \in {"probe", "proxy"}, ReadRow(c, op, i) PROVE Orderly'
  <2>1. PICK w : w = [op |-> op, row |-> i, ok |-> FALSE, at |-> op]
    OBVIOUS
  <2>2. /\ UNCHANGED <<kind, record, rows, up, strays>>
        /\ Begin(c, Free) \/ (rows[i].status # "stopped" /\ Begin(c, w))
        /\ w.op = op /\ w.at = op /\ w.row = i
    BY <1>4, <2>1 DEF ReadRow
  <2>3. rows[i].status # "stopped" => i \in Listed \/ rows[i].url = Elsewhere
    BY DEF Present, Listed
  <2>4. Settled /\ rows[i].status # "stopped" => Midway(w)'
    <3>1. Settled /\ rows[i].status # "stopped" => RowMidway(w)'
      BY <1>0, <2>2, <2>3 DEF RowMidway
    <3> QED BY <2>2, <3>1 DEF Midway
  <2> QED BY <1>0, <2>2, <2>4, BeginOrderly
<1>5. ASSUME NEW i \in Present, Halt(c, i) \/ Kill(c, i) PROVE Orderly'
  <2>1. /\ i \in DOMAIN rows /\ Begin(c, Free) /\ SetStatus(i, "stopped")
        /\ UNCHANGED <<kind, record, up, strays>>
    BY <1>5 DEF Halt, Kill, Present
  <2>2. RowsKept /\ Listed' \subseteq Listed /\ \A j \in Listed' : rows'[j] = rows[j]
    BY <2>1, StatusKeepsRows, StopsListing DEF HostShape
  <2> QED BY <2>1, <2>2, SettledShrinks, BeginOrderly
<1>6. ASSUME NEW unprobed \in BOOLEAN, CleanRows(c, unprobed) PROVE Orderly'
  <2>1. /\ RowsKept /\ DOMAIN rows' = DOMAIN rows
        /\ \A i \in DOMAIN rows : rows'[i] = rows[i] \/ rows'[i].status = "deleted"
    BY <1>6, CleanKeepsRows DEF HostShape
  <2>2. Begin(c, Free) /\ UNCHANGED <<kind, record, up, strays>>
    BY <1>6 DEF CleanRows
  <2>3. Listed' \subseteq Listed /\ \A j \in Listed' : rows'[j] = rows[j]
    BY <2>1 DEF Listed
  <2> QED BY <2>1, <2>2, <2>3, SettledShrinks, BeginOrderly
<1> QED BY <1>1, <1>2, <1>3, <1>4, <1>5, <1>6 DEF WriterRoute, OpenRoute, AdminRoute

\* Every step of the API process keeps the order.
LEMMA OrderlyNext ==
    ASSUME HostShape, Orderly, [Next]_vars
    PROVE  Orderly'
<1>1. CASE UNCHANGED hostVars
  <2>1. UNCHANGED <<kind, record, rows, up, work, strays, disturbed>> /\ Up' = Up /\ Listed' = Listed
    BY <1>1 DEF hostVars, Up, Listed
  <2>2. /\ NamedOnly' = NamedOnly /\ ActiveOnly' = ActiveOnly /\ Backed' = Backed
        /\ Serving' = Serving /\ Paired' = Paired
    BY <2>1 DEF NamedOnly, ActiveOnly, Backed, Serving, Paired, RuntimeName, HashIsCut
  <2>3. Settled' = Settled
    BY <2>2 DEF Settled
  <2>4. ASSUME NEW w, Midway(w) PROVE Midway(w)'
    <3>1. StartMidway(w) => StartMidway(w)'
      BY <2>1, <2>2, <2>3 DEF StartMidway
    <3>2. ValidateMidway(w) => ValidateMidway(w)'
      BY <2>1, <2>2 DEF ValidateMidway
    <3>3. StopMidway(w) => StopMidway(w)'
      BY <2>1, <2>2, <2>3 DEF StopMidway
    <3>4. RowMidway(w) => RowMidway(w)'
      BY <2>1, <2>3 DEF RowMidway
    <3> QED BY <2>3, <2>4, <3>1, <3>2, <3>3, <3>4 DEF Midway
  <2> QED BY <2>1, <2>2, <2>3, <2>4 DEF Orderly
<1>2. ASSUME NEW c \in Callers, Serve(c) PROVE Orderly'
  BY <1>2, HostsAssumption, RouteOrderly DEF Serve
<1>3. ASSUME NEW c \in Callers, Handle(c) PROVE Orderly'
  BY <1>3, HostsAssumption, StepOrderly DEF Handle
<1>4. ASSUME NEW n \in Names, RuntimeDies(n) PROVE Orderly'
  BY <1>4 DEF RuntimeDies, Orderly
<1> QED BY <1>1, <1>2, <1>3, <1>4 DEF Next, Refuse, vars, hostVars

\* The service host's invariant holds for ever.
THEOREM HostInvariant == Spec => []HostInv
<1>1. Init => HostInv
  <2>1. Init => HostShape
    BY HostInitially DEF Init
  <2>2. Init => Orderly
    <3> SUFFICES ASSUME HostInit PROVE Orderly
      BY DEF Init
    <3>1. Up = {} /\ Listed = {} /\ Paired /\ \A c \in Hosts : work[c] = Free
      BY DEF HostInit, Up, Listed, Paired
    <3> QED BY <3>1, SettledEmpty DEF Orderly
  <2> QED BY <2>1, <2>2 DEF HostInv
<1>2. HostInv /\ [Next]_vars => HostInv'
  BY HostShapeStep, OrderlyNext DEF HostInv
<1> QED BY <1>1, <1>2, PTL DEF Spec

\* Whatever answers under a row's URL runs the row's source: at any moment and
\* however the handlers meet, while the name holds the hash; and while requests
\* follow one another when the name is cut (notebook_service_runtime_name,
\* start_notebook_service).
THEOREM RowsServeTheirSource == Spec => []RowServesItsSource
<1>1. HostShape /\ Orderly => RowServesItsSource
  <2> SUFFICES ASSUME HostShape, Orderly, NEW i \in DOMAIN rows, rows[i].url # Elsewhere,
                      HashIsCut("") => Quiet /\ rows[i].status \notin {"stopped", "deleted"}
               PROVE  up[rows[i].url] \in {rows[i].source, Nothing}
    BY DEF RowServesItsSource
  <2>1. CASE ~HashIsCut("")
    <3>1. rows[i].url \in Names /\ rows[i].source \in Sources
          /\ rows[i].url = RuntimeName(rows[i].source, "")
      BY UpAndListed DEF HostShape, Naming, Routed
    <3>2. PICK n : n = rows[i].url
      OBVIOUS
    <3>3. PICK source : source = rows[i].source
      OBVIOUS
    <3>4. RuntimeName(source, "").source = source
      BY <2>1, NameParts
    <3>5. n = RuntimeName(source, "") /\ source # Nothing
      BY <3>1, <3>2, <3>3, NothingAssumption
    <3>6. n \in Names /\ n.source = source
      BY <3>1, <3>2, <3>4, <3>5
    <3> QED BY <3>2, <3>3, <3>5, <3>6 DEF HostShape, HostType, UpFits
  <2>2. CASE HashIsCut("")
    <3>1. i \in Listed /\ Settled
      BY <2>2 DEF Listed, Quiet, Orderly
    <3> QED BY <3>1 DEF Settled, Serving
  <2> QED BY <2>1, <2>2
<1>2. HostInv => RowServesItsSource
  BY <1>1 DEF HostInv
<1> QED BY <1>2, HostInvariant, PTL

\* While requests follow one another and nothing else interferes, rows and
\* runtimes agree between requests but for what exceptions left behind, for any
\* number of rows and however long the sequence of requests is (start, stop,
\* validate, probe and proxy of notebook services).
THEOREM RuntimesMatch == Spec => []RuntimesMatchRows
<1>1. HostShape /\ Orderly => RuntimesMatchRows
  <2> SUFFICES ASSUME HostShape, Orderly, Quiet
               PROVE  /\ \A i \in DOMAIN rows : rows[i].status = "running" /\ rows[i].url # Elsewhere =>
                             up[rows[i].url] # Nothing
                      /\ \A n \in Names \ strays :
                            up[n] # Nothing => record # Nothing /\ record.name = n
    BY DEF RuntimesMatchRows
  <2>1. Settled
    BY DEF Orderly, Quiet
  <2>2. ASSUME NEW i \in DOMAIN rows, rows[i].status = "running", rows[i].url # Elsewhere
        PROVE  up[rows[i].url] # Nothing
    <3>1. i \in Listed
      BY <2>2 DEF Listed
    <3> QED BY <2>1, <2>2, <3>1, UpAndListed DEF Settled, Backed
  <2>3. ASSUME NEW n \in Names \ strays, up[n] # Nothing PROVE record # Nothing /\ record.name = n
    BY <2>1, <2>3, UpAndListed DEF Settled, NamedOnly
  <2> QED BY <2>2, <2>3
<1>2. HostInv => RuntimesMatchRows
  BY <1>1 DEF HostInv
<1> QED BY <1>2, HostInvariant, PTL

=============================================================================
