----------------------------- MODULE FrontDoor -----------------------------
(***************************************************************************)
(* What every request of the API passes before its handler: the bearer     *)
(* token is resolved to a principal (bootstrap token, local token row, or  *)
(* JupyterHub with a cache of what the Hub said), and the caller's counter *)
(* for the route is incremented, reset and compared with the limit.  Time  *)
(* is in units of the limiter's minute.                                    *)
(***************************************************************************)
EXTENDS Naturals, FiniteSets

CONSTANTS
    Callers,      \* connections, each with one request at a time
    Deployments,  \* settings under check: limit, requests, sends, ticks, oidcExpires
    HubModels,    \* what the Hub may say of its user: admin, groups
    AllowedGroups, \* allowed_groups; empty allows everyone
    Ttl,          \* cache_ttl_seconds
    HubTimeout,   \* how long the two Hub calls may take
    MaxTime,      \* minutes under check
    MaxChanges,   \* changes of the Hub's user
    None

ASSUME TimesAssumption == Ttl \in Nat /\ HubTimeout \in Nat /\ MaxTime \in Nat /\ MaxChanges \in Nat
Tokens == {"bootstrap", "local", "oidc", "hub"}
Routes == {"read", "account", "services"}
Keys == Tokens \X Routes

\* What a row of rate_limits and the cached answer of the Hub hold.
Counters == [start : Nat, count : Nat]
HubAnswers == [at : Nat, model : HubModels]

ASSUME DeploymentsAssumption ==
    \A d \in Deployments : d.limit \in Nat /\ d.ticks \in 0..MaxTime /\ d.requests \subseteq Keys
ASSUME NoneAssumption == None \notin HubModels \cup Nat \cup Counters \cup HubAnswers

VARIABLES
    conf,      \* the deployment chosen
    now,
    hub,       \* the Hub's model of the user, None once the token is withdrawn
    changes,
    held,      \* history: when each model was last the user's
    cache,     \* _JUPYTERHUB_TOKEN_CACHE: stamp and model, or None
    counters,  \* rate_limits rows by token and route
    accounts,  \* rows of users and api_tokens that exist
    req,       \* per caller: the request in progress
    sent,      \* requests sent so far
    passes,    \* history: requests let through per key and minute
    lapped     \* history: keys whose requests overlapped in the limiter

doorVars == <<conf, now, hub, changes, held, cache, counters, accounts, req, sent, passes, lapped>>

Idle == [at |-> "idle"]
Key(r) == <<r.token, r.route>>
Waiting(c) == req[c].at \in {"hub", "returned"}
Counting(c) == req[c].at \in {"write", "reset"}
Go(c, r) == req' = [req EXCEPT ![c] = r]

DoorInit ==
    /\ conf \in Deployments
    /\ now = 0
    /\ hub \in HubModels
    /\ changes = 0
    /\ held = [m \in HubModels |-> IF m = hub THEN 0 ELSE None]
    /\ cache = None
    /\ counters = [k \in Keys |-> None]
    /\ accounts = {}
    /\ req = [c \in Callers |-> Idle]
    /\ sent = 0
    /\ passes = [k \in Keys |-> [t \in 0..MaxTime |-> 0]]
    /\ lapped = {}

-----------------------------------------------------------------------------
(* The world: time, and what the Hub's administrators do.  A Hub call that *)
(* takes longer than its timeout has failed.                               *)

Tick ==
    /\ now < conf.ticks
    /\ \A c \in Callers : Waiting(c) => now + 1 - req[c].asked <= HubTimeout
    /\ now' = now + 1
    /\ held' = IF hub = None THEN held ELSE [held EXCEPT ![hub] = now + 1]
    /\ UNCHANGED <<conf, hub, changes, cache, counters, accounts, req, sent, passes, lapped>>

ChangeHubUser(model) ==
    /\ conf.ticks > 0 /\ changes < MaxChanges
    /\ changes' = changes + 1
    /\ model # hub
    /\ hub # None
    /\ hub' = model
    /\ held' = IF model = None THEN held ELSE [held EXCEPT ![model] = now]
    /\ UNCHANGED <<conf, now, cache, counters, accounts, req, sent, passes, lapped>>

-----------------------------------------------------------------------------
(* Authentication.                                                         *)

\* A principal: what is left of the token once it is resolved.
Principal(token, route, role, model) ==
    [at |-> "count", token |-> token, route |-> route, role |-> role, model |-> model, minted |-> now]

\* The local token's row needs the row of its user, which is created apart.
LocalRole == IF accounts = {"user", "token"} THEN "member" ELSE None

\* A signed token carries its role until it expires.
OidcRole == IF now <= conf.oidcExpires THEN "member" ELSE None

\* _jupyterhub_user_allowed and _jupyterhub_role.
Allowed(model) == AllowedGroups = {} \/ model.groups \cap AllowedGroups # {}
HubRole(model) ==
    IF model.admin \/ "admins" \in model.groups THEN "admin"
    ELSE IF "viewers" \in model.groups THEN "viewer" ELSE "member"

FromHub(c, token, route, model) ==
    Go(c, IF Allowed(model) THEN Principal(token, route, HubRole(model), model) ELSE Idle)

\* Mutant: what the Hub said once is good for ever.
CachedForEver == cache # None

Cached == cache # None /\ Ttl > 0 /\ now - cache.at < Ttl

\* authenticate_token: bootstrap, local row, OIDC, Hub; who is none of them is
\* refused.
Authenticate(c, token, route) ==
    /\ req[c] = Idle
    /\ sent < conf.sends
    /\ sent' = sent + 1
    /\ CASE token = "bootstrap" -> Go(c, Principal(token, route, "admin", None))
         [] token = "local" -> Go(c, IF LocalRole = None THEN Idle
                                     ELSE Principal(token, route, LocalRole, None))
         [] token = "oidc" -> Go(c, IF OidcRole = None THEN Idle
                                    ELSE Principal(token, route, OidcRole, None))
         [] token = "hub" /\ Cached -> FromHub(c, token, route, cache.model)
         [] token = "hub" /\ ~Cached ->
                Go(c, [at |-> "hub", token |-> token, route |-> route, asked |-> now])
    /\ UNCHANGED <<conf, now, hub, changes, held, cache, counters, accounts, passes, lapped>>

\* _identify_jupyterhub_token: the Hub reads the user and its groups, ...
HubReads(c) ==
    /\ req[c].at = "hub"
    /\ hub # None
    /\ Go(c, [at |-> "returned", token |-> req[c].token, route |-> req[c].route,
              asked |-> req[c].asked, model |-> hub])
    /\ UNCHANGED <<conf, now, hub, changes, held, cache, counters, accounts, sent, passes, lapped>>

\* ... and its answer is stamped when it has arrived.
HubReturns(c) ==
    /\ req[c].at = "returned"
    /\ cache' = IF Ttl > 0 THEN [at |-> now, model |-> req[c].model] ELSE cache
    /\ FromHub(c, req[c].token, req[c].route, req[c].model)
    /\ UNCHANGED <<conf, now, hub, changes, held, counters, accounts, sent, passes, lapped>>

\* The token is unknown there, or the Hub cannot be reached.
HubRefuses(c) ==
    /\ req[c].at = "hub"
    /\ Go(c, Idle)
    /\ UNCHANGED <<conf, now, hub, changes, held, cache, counters, accounts, sent, passes, lapped>>

-----------------------------------------------------------------------------
(* check_rate_limit.  increment_rate_limit selects the row before its      *)
(* write transaction begins, so that another request may come in between.  *)

\* What is written to the row, and what becomes of the request.
Write(c, start, count) ==
    counters' = [counters EXCEPT ![Key(req[c])] = [start |-> start, count |-> count]]

LetThrough(c, count) ==
    IF count > conf.limit
    THEN Go(c, Idle) /\ UNCHANGED passes
    ELSE /\ Go(c, [at |-> "admitted", token |-> req[c].token, route |-> req[c].route, role |-> req[c].role])
         /\ passes' = [passes EXCEPT ![Key(req[c])][req[c].t] = @ + 1]

Unlimited(c) ==
    /\ req[c].at = "count"
    /\ conf.limit = 0
    /\ Go(c, [at |-> "admitted", token |-> req[c].token, route |-> req[c].route, role |-> req[c].role])
    /\ UNCHANGED <<conf, now, hub, changes, held, cache, counters, accounts, sent, passes, lapped>>

ReadCounter(c) ==
    /\ req[c].at = "count"
    /\ conf.limit > 0
    /\ Go(c, [at |-> "write", token |-> req[c].token, route |-> req[c].route,
              role |-> req[c].role, t |-> now, seen |-> counters[Key(req[c])]])
    /\ lapped' = IF \E d \in Callers \ {c} : Counting(d) /\ Key(req[d]) = Key(req[c])
                 THEN lapped \cup {Key(req[c])} ELSE lapped
    /\ UNCHANGED <<conf, now, hub, changes, held, cache, counters, accounts, sent, passes>>

\* An insert fails when another request has inserted the row meanwhile.
Increment(c) ==
    LET seen == req[c].seen IN
    /\ req[c].at = "write"
    /\ IF seen = None /\ counters[Key(req[c])] # None
       THEN Go(c, Idle) /\ UNCHANGED <<counters, passes>>
       ELSE IF seen = None
       THEN Write(c, req[c].t, 1) /\ LetThrough(c, 1)
       ELSE /\ Write(c, counters[Key(req[c])].start, seen.count + 1)
            /\ IF req[c].t - seen.start >= 1
               THEN Go(c, [req[c] EXCEPT !.at = "reset"]) /\ UNCHANGED passes
               ELSE LetThrough(c, seen.count + 1)
    /\ UNCHANGED <<conf, now, hub, changes, held, cache, accounts, sent, lapped>>

\* Mutant: the new window starts without this request.
ResetToZero(c) ==
    /\ req[c].at = "reset"
    /\ Write(c, req[c].t, 0)
    /\ LetThrough(c, 0)
    /\ UNCHANGED <<conf, now, hub, changes, held, cache, accounts, sent, lapped>>

Reset(c) ==
    /\ req[c].at = "reset"
    /\ Write(c, req[c].t, 1)
    /\ LetThrough(c, 1)
    /\ UNCHANGED <<conf, now, hub, changes, held, cache, accounts, sent, lapped>>

-----------------------------------------------------------------------------
(* Handlers behind the door that change nothing else.                      *)

Admitted(c, route) == req[c].at = "admitted" /\ req[c].route = route

ServeRead(c) ==
    /\ Admitted(c, "read")
    /\ Go(c, Idle)
    /\ UNCHANGED <<conf, now, hub, changes, held, cache, counters, accounts, sent, passes, lapped>>

\* require_admin_principal, then create_user or create_api_token, which does
\* not look for its user.
ServeAccount(c, row) ==
    /\ Admitted(c, "account")
    /\ Go(c, Idle)
    /\ accounts' = IF req[c].role = "admin" THEN accounts \cup {row} ELSE accounts
    /\ UNCHANGED <<conf, now, hub, changes, held, cache, counters, sent, passes, lapped>>

DoorNext ==
    \/ Tick
    \/ \E model \in HubModels \cup {None} : ChangeHubUser(model)
    \/ \E c \in Callers :
        \/ \E r \in conf.requests : Authenticate(c, r[1], r[2])
        \/ HubReads(c)
        \/ HubReturns(c)
        \/ HubRefuses(c)
        \/ Unlimited(c)
        \/ ReadCounter(c)
        \/ Increment(c)
        \/ Reset(c)
        \/ ServeRead(c)
        \/ \E row \in {"user", "token"} : ServeAccount(c, row)

-----------------------------------------------------------------------------
(* Properties.                                                             *)

\* What a Hub token is admitted on was true of its user at some time within the cache's
\* lifetime and the time a Hub call may take, however the Hub changes it and
\* whichever of several requests filled the cache.
RoleIsRecent ==
    \A c \in Callers : req[c].at = "count" /\ req[c].token = "hub" =>
        held[req[c].model] + HubTimeout + (IF Ttl > 0 THEN Ttl - 1 ELSE 0) >= req[c].minted

\* A caller whose requests to a route never meet in the limiter is let through
\* at most limit times a minute, whatever was refused before.
WithinLimit ==
    \A k \in Keys \ lapped : conf.limit > 0 => \A t \in 0..MaxTime : passes[k][t] <= conf.limit

=============================================================================
