------------------------- MODULE DirectoryLifecycle -------------------------
(***************************************************************************)
(* The Goblin Directory: entries (catalog names), their source versions,   *)
(* the notebook bundles the versions run from, and the review workflow     *)
(* from draft to published.  Several API requests are in flight at once.   *)
(* A store method that selects and then writes does so in two steps, as    *)
(* SQLite opens its write transaction only at the first write: a check may *)
(* be stale when the write it guards commits.                              *)
(*                                                                         *)
(* One project and one name are modelled.  A bundle is keyed by its kind,  *)
(* which is made of project, name and version number but not of the entry, *)
(* so a version number is the kind.                                        *)
(***************************************************************************)
EXTENDS Naturals, FiniteSets

CONSTANTS
    Clients,       \* principals that may write; viewers only read
    Admins,        \* the principals with the admin role
    Sources,       \* source hashes
    MaxEntries,    \* bound on entries ever created under the name
    MaxVersions,   \* bound on the versions of an entry
    MaxClashes,    \* bound on requests that meet and on kinds that are shared
    None           \* NULL of a column, and no row

ASSUME DirectoryAssumption ==
    /\ Admins \subseteq Clients
    /\ MaxEntries \in Nat \ {0}
    /\ MaxVersions \in Nat \ {0}
    /\ MaxClashes \in Nat
    /\ None \notin Sources
    /\ None \notin Clients
    /\ None \notin Nat

Entries  == 1..MaxEntries
Versions == 1..MaxVersions

VARIABLES
    entries,   \* repository_entries
    versions,  \* repository_versions, by entry and number
    bundles,   \* notebook_goblins and notebook_services, by kind
    passed,    \* <<kind, source>> whose latest worker validation passed
    born,      \* entries ever created; an id is never used twice
    req,       \* the request each client has in flight
    job,       \* one queued run of a published function
    clashes,   \* history: how often requests met or a kind was shared
    outrun     \* history: entries whose published version a review step changed
               \* between a submission's look at it and its write

vars == <<entries, versions, bundles, passed, born, req, job, clashes, outrun>>

Types == {"notebook_function", "notebook_service"}

Statuses ==
    {"draft", "validated", "pending_review", "approved", "published", "rejected", "retired"}

EntryRow ==
    [type : Types, owner : Clients, status : Statuses, published : Versions \cup {None}]

VersionRow ==
    [source : Sources, status : Statuses, proof : Sources \cup {None},
     approved_by : Clients \cup {None}]

\* What validation and job execution need of a bundle: its source, and
\* whether active_service_id names a running service.
Bundle == [source : Sources, active : BOOLEAN]

ASSUME RowsAssumption == None \notin EntryRow \cup VersionRow \cup Bundle

Idle   == [at |-> "idle"]
NoJob  == [at |-> "none"]

Init ==
    /\ entries = [e \in Entries |-> None]
    /\ versions = [e \in Entries |-> [v \in Versions |-> None]]
    /\ bundles = [v \in Versions |-> None]
    /\ passed = {}
    /\ born = 0
    /\ req = [c \in Clients |-> Idle]
    /\ job = NoJob
    /\ clashes = 0
    /\ outrun = {}

-----------------------------------------------------------------------------
(* Store methods *)

Live == {e \in Entries : entries[e] # None}

\* get_repository_entry_by_project_name.  The newest of the rows that are not
\* retired is taken; there is more than one only after a retired entry came
\* back, and then either may be the newest.
EntriesByName == {e \in Live : entries[e].status # "retired"}

VersionsOf(e) == {v \in Versions : versions[e][v] # None}

Latest(e) == CHOOSE v \in VersionsOf(e) : \A w \in VersionsOf(e) : w <= v

\* REPOSITORY_STATUS_TRANSITIONS
Allowed ==
    [draft          |-> {"validated", "rejected", "retired"},
     validated      |-> {"pending_review", "rejected", "retired"},
     pending_review |-> {"approved", "rejected", "retired"},
     approved       |-> {"published", "rejected", "retired"},
     published      |-> {"retired"},
     rejected       |-> {"retired"},
     retired        |-> {}]

CanTransition(current, target) == current = target \/ target \in Allowed[current]

\* A new row of repository_entries.
NewEntry(type, owner) ==
    [type |-> type, owner |-> owner, status |-> "draft", published |-> None]

\* A new row of repository_versions.
NewVersion(source) ==
    [source |-> source, status |-> "draft", proof |-> None, approved_by |-> None]

\* create_repository_version refuses a retired entry, a number that is not the
\* next one and the source of its predecessor.
VersionAcceptable(e, v, source) ==
    /\ entries[e] # None
    /\ entries[e].status # "retired"
    /\ IF VersionsOf(e) = {}
       THEN v = 1
       ELSE /\ v = Latest(e) + 1
            /\ source # versions[e][Latest(e)].source

\* The writes of create_repository_version: the version row, unless its number
\* was taken meanwhile (a unique constraint), and the entry back to draft.
InsertVersion(e, v, source) ==
    IF versions[e][v] # None
    THEN UNCHANGED <<entries, versions>>
    ELSE /\ versions' = [versions EXCEPT ![e][v] = NewVersion(source)]
         /\ entries' = IF entries[e] = None THEN entries
                       ELSE [entries EXCEPT ![e].status = "draft"]

\* transition_repository_version_status writes the columns of the target
\* status to the version, and the status to the entry, in one transaction
\* that looks at neither row.
Reviewed(row, r) ==
    CASE r.target = "rejected"  -> [row EXCEPT !.status = "rejected", !.approved_by = None]
      [] r.target = "validated" -> [row EXCEPT !.status = "validated", !.proof = r.proof]
      [] r.target \in {"approved", "published"} ->
             [row EXCEPT !.status = r.target, !.approved_by = r.by]
      [] OTHER -> [row EXCEPT !.status = r.target]

\* Mutant: publication forgets to move published_version.
WriteTransitionKeepsPointer(r) ==
    /\ versions' = IF versions[r.e][r.v] = None THEN versions
                   ELSE [versions EXCEPT ![r.e][r.v] = Reviewed(@, r)]
    /\ entries' = IF entries[r.e] = None THEN entries
                  ELSE [entries EXCEPT ![r.e].status = r.target]

WriteTransition(r) ==
    /\ versions' = IF versions[r.e][r.v] = None THEN versions
                   ELSE [versions EXCEPT ![r.e][r.v] = Reviewed(@, r)]
    /\ entries' = IF entries[r.e] = None THEN entries
                  ELSE [entries EXCEPT ![r.e].status = r.target,
                                       ![r.e].published =
                                           IF r.target = "published" THEN r.v ELSE @]

\* save_notebook_goblin and save_notebook_service insert or replace by kind.
\* A replaced row of a service loses its runtime columns.
SaveBundle(v, source) ==
    bundles' = [bundles EXCEPT ![v] = [source |-> source, active |-> FALSE]]

-----------------------------------------------------------------------------
(* Requests *)

\* A request that starts while another is under way, an entry created under
\* the name of an earlier one, and a bundle written by kind are counted.
Clash(met) ==
    /\ met => clashes < MaxClashes
    /\ clashes' = IF met THEN clashes + 1 ELSE clashes

Calm == clashes = 0

OthersIdle(c) == \A d \in Clients \ {c} : req[d] = Idle

Start(c, r) ==
    /\ req[c] = Idle
    /\ req' = [req EXCEPT ![c] = r]

Go(c, r) == req' = [req EXCEPT ![c] = r]
End(c)   == req' = [req EXCEPT ![c] = Idle]

\* _require_repository_owner_or_admin
MayManage(c, e) == c \in Admins \/ entries[e].owner = c

\* submit_repository_entry, up to the lookup of the name: another type or
\* another's entry is refused.
SubmitExisting(c, type, source) ==
    \E e \in EntriesByName :
        /\ MayManage(c, e)
        /\ entries[e].type = type
        /\ Start(c, [at |-> "recheck", e |-> e, source |-> source, row |-> entries[e]])
        /\ Clash(~OthersIdle(c))
        /\ UNCHANGED <<entries, versions, bundles, passed, born, job, outrun>>

\* update_repository_entry reads the row again before it writes the copy: the
\* copied status must be reachable from the current one, and a copied
\* published_version must still be published.
SubmitRecheck(c) ==
    LET r == req[c] IN
    /\ r.at = "recheck"
    /\ IF /\ entries[r.e] # None
          /\ CanTransition(entries[r.e].status, r.row.status)
          /\ r.row.status = "published" => r.row.published # None
       THEN Go(c, [r EXCEPT !.at = "verify"])
       ELSE End(c)
    /\ UNCHANGED <<entries, versions, bundles, passed, born, job, clashes, outrun>>

\* _require_repository_version_status reads before the write begins.
IsPublished(e, v) == versions[e][v] # None /\ versions[e][v].status = "published"

SubmitVerify(c) ==
    LET r == req[c] IN
    /\ r.at = "verify"
    /\ IF r.row.published # None /\ ~IsPublished(r.e, r.row.published)
       THEN End(c)
       ELSE Go(c, [r EXCEPT !.at = "rewrite"])
    /\ UNCHANGED <<entries, versions, bundles, passed, born, job, clashes, outrun>>

SubmitRewrite(c) ==
    LET r == req[c] IN
    /\ r.at = "rewrite"
    /\ entries' = IF entries[r.e] = None THEN entries ELSE [entries EXCEPT ![r.e] = r.row]
    /\ IF entries[r.e] = None THEN End(c)
       ELSE Go(c, [at |-> "number", e |-> r.e, source |-> r.source])
    /\ UNCHANGED <<versions, bundles, passed, born, job, clashes, outrun>>

\* Mutant: the bundle of the latest version is written again.
SameVersion(e) == Latest(e)

\* The next number is read in a transaction of its own.
NextVersion(e) == Latest(e) + 1

SubmitNumber(c) ==
    LET r == req[c] IN
    /\ r.at = "number"
    /\ IF VersionsOf(r.e) = {} \/ NextVersion(r.e) > MaxVersions
       THEN End(c)
       ELSE Go(c, [at |-> "bundle", e |-> r.e, source |-> r.source, v |-> NextVersion(r.e)])
    /\ UNCHANGED <<entries, versions, bundles, passed, born, job, clashes, outrun>>

\* A new entry: create_repository_entry refuses a name that is in use, then
\* inserts.
SubmitNewName(c, type, source) ==
    /\ EntriesByName = {}
    /\ Start(c, [at |-> "create", type |-> type, source |-> source])
    /\ Clash(~OthersIdle(c) \/ born > 0)
    /\ UNCHANGED <<entries, versions, bundles, passed, born, job, outrun>>

CreateEntry(c) ==
    LET r == req[c]
        e == born + 1
    IN  /\ r.at = "create"
        /\ e \in Entries
        /\ born' = e
        /\ entries' = [entries EXCEPT ![e] = NewEntry(r.type, c)]
        /\ Go(c, [at |-> "bundle", e |-> e, source |-> r.source, v |-> 1])
        /\ UNCHANGED <<versions, bundles, passed, job, clashes, outrun>>

\* The bundle is stored under the version's kind before the version exists.
SubmitBundle(c) ==
    LET r == req[c] IN
    /\ r.at = "bundle"
    /\ SaveBundle(r.v, r.source)
    /\ Go(c, [r EXCEPT !.at = "check"])
    /\ UNCHANGED <<entries, versions, passed, born, job, clashes, outrun>>

SubmitCheck(c) ==
    LET r == req[c] IN
    /\ r.at = "check"
    /\ IF VersionAcceptable(r.e, r.v, r.source)
       THEN Go(c, [r EXCEPT !.at = "insert"])
       ELSE End(c)
    /\ UNCHANGED <<entries, versions, bundles, passed, born, job, clashes, outrun>>

SubmitVersion(c) ==
    LET r == req[c] IN
    /\ r.at = "insert"
    /\ InsertVersion(r.e, r.v, r.source)
    /\ End(c)
    /\ UNCHANGED <<bundles, passed, born, job, clashes, outrun>>

\* validate_repository_entry loads the version and its bundle and validates
\* that source, whatever the version's status is.
BeginValidate(c, e, v) ==
    /\ e \in Live
    /\ MayManage(c, e)
    /\ v \in VersionsOf(e)
    /\ bundles[v] # None
    /\ Start(c, [at |-> "validating", e |-> e, v |-> v, source |-> bundles[v].source,
                 type |-> entries[e].type])
    /\ Clash(~OthersIdle(c))
    /\ UNCHANGED <<entries, versions, bundles, passed, born, job, outrun>>

\* A function leaves a worker validation record, passed or failed; a service
\* is started, probed and stopped, and its runtime columns are cleared.
ValidationRecord(r, ok) ==
    IF r.type = "notebook_function"
    THEN /\ passed' = IF ok THEN passed \cup {<<r.v, r.source>>}
                      ELSE passed \ {<<r.v, r.source>>}
         /\ UNCHANGED bundles
    ELSE /\ bundles' = IF ok /\ bundles[r.v] # None
                       THEN [bundles EXCEPT ![r.v].active = FALSE] ELSE bundles
         /\ UNCHANGED passed

EndValidate(c, ok) ==
    LET r == req[c] IN
    /\ r.at = "validating"
    /\ ValidationRecord(r, ok)
    /\ IF ok THEN Go(c, [r EXCEPT !.at = "validated"]) ELSE End(c)
    /\ UNCHANGED <<entries, versions, born, job, clashes, outrun>>

\* Mutant: a draft may be sent to review.
RequiredLoosely(target) ==
    CASE target = "pending_review" -> {"validated", "draft"}
      [] target = "approved"       -> {"pending_review"}
      [] target = "published"      -> {"approved"}
      [] OTHER                     -> {s \in Statuses : CanTransition(s, target)}

\* The status a version must have for a review step to begin.  A rejection
\* asks for none beyond the transition table.
Required(target) ==
    CASE target = "pending_review" -> {"validated"}
      [] target = "approved"       -> {"pending_review"}
      [] target = "published"      -> {"approved"}
      [] OTHER                     -> {s \in Statuses : CanTransition(s, target)}

\* The handlers of a review step read the version, and
\* transition_repository_version_status reads it again; with nothing written
\* between, the later read decides.
BeginReview(c, e, v, target, by) ==
    /\ e \in Live
    /\ v \in VersionsOf(e)
    /\ versions[e][v].status \in Required(target)
    /\ Start(c, [at |-> "transition", e |-> e, v |-> v, target |-> target, proof |-> None,
                 by |-> by])
    /\ Clash(~OthersIdle(c))
    /\ UNCHANGED <<entries, versions, bundles, passed, born, job, outrun>>

\* request_repository_review is the owner's, the other steps are an admin's.
RequestReview(c, e, v) ==
    /\ e \in Live
    /\ MayManage(c, e)
    /\ BeginReview(c, e, v, "pending_review", c)

Approve(c, e, v) == c \in Admins /\ BeginReview(c, e, v, "approved", c)

Reject(c, e, v) == c \in Admins /\ BeginReview(c, e, v, "rejected", c)

\* A publication keeps the approver it read.
Publish(c, e, v) ==
    /\ c \in Admins
    /\ v \in VersionsOf(e)
    /\ BeginReview(c, e, v, "published", versions[e][v].approved_by)

\* Mutant: the validated status is written whatever the version is by now.
BeginValidatedAlways(c) ==
    LET r == req[c] IN
    /\ r.at = "validated"
    /\ Go(c, [at |-> "transition", e |-> r.e, v |-> r.v, target |-> "validated",
               proof |-> r.source, by |-> None])
    /\ UNCHANGED <<entries, versions, bundles, passed, born, job, clashes, outrun>>

\* After a validation: a published version is immutable and others must be
\* drafts or validated already.
BeginValidated(c) ==
    LET r == req[c] IN
    /\ r.at = "validated"
    /\ IF /\ versions[r.e][r.v] # None
          /\ CanTransition(versions[r.e][r.v].status, "validated")
       THEN Go(c, [at |-> "transition", e |-> r.e, v |-> r.v, target |-> "validated",
                   proof |-> r.source, by |-> None])
       ELSE End(c)
    /\ UNCHANGED <<entries, versions, bundles, passed, born, job, clashes, outrun>>

\* A submission has looked at the version this step is about to change, and
\* has yet to write.
Outruns(r) ==
    /\ IsPublished(r.e, r.v)
    /\ \E d \in Clients :
          req[d].at = "rewrite" /\ req[d].e = r.e /\ req[d].row.published = r.v

CommitTransition(c) ==
    LET r == req[c] IN
    /\ r.at = "transition"
    /\ WriteTransition(r)
    /\ outrun' = IF Outruns(r) THEN outrun \cup {r.e} ELSE outrun
    /\ End(c)
    /\ UNCHANGED <<bundles, passed, born, job, clashes>>

\* transition_repository_entry_status, to retired.
RetireEntry(e) == entries' = [entries EXCEPT ![e].status = "retired"]

\* retire_repository_entry: allowed from every status, so one step.
Retire(c, e) ==
    /\ c \in Admins
    /\ req[c] = Idle
    /\ e \in Live
    /\ RetireEntry(e)
    /\ Clash(~OthersIdle(c))
    /\ UNCHANGED <<versions, bundles, passed, born, req, job, outrun>>

\* delete_repository_entry: the handler and the store both refuse an entry
\* that is not draft, rejected or retired, or whose service is active.
Deletable(e) ==
    /\ entries[e].status \in {"draft", "rejected", "retired"}
    /\ entries[e].type = "notebook_service" =>
          \A v \in VersionsOf(e) : bundles[v] # None => ~bundles[v].active

BeginDelete(c, e) ==
    /\ c \in Admins
    /\ e \in Live
    /\ Deletable(e)
    /\ Start(c, [at |-> "delete", e |-> e, kinds |-> VersionsOf(e)])
    /\ Clash(~OthersIdle(c))
    /\ UNCHANGED <<entries, versions, bundles, passed, born, job, outrun>>

DeleteRows(c) ==
    LET r == req[c] IN
    /\ r.at = "delete"
    /\ bundles' = [v \in Versions |-> IF v \in r.kinds THEN None ELSE bundles[v]]
    /\ versions' = [versions EXCEPT ![r.e] = [v \in Versions |-> None]]
    /\ entries' = [entries EXCEPT ![r.e] = None]
    /\ End(c)
    /\ UNCHANGED <<passed, born, job, clashes, outrun>>

-----------------------------------------------------------------------------
(* Use of what is published *)

Published(e) == {v \in VersionsOf(e) : versions[e][v].status = "published"}

\* _resolve_published_repository_version: the version asked for, else the
\* entry's published_version, else the newest published one; refused unless
\* it is published.
Resolved(e, asked) ==
    IF asked # None THEN asked
    ELSE IF entries[e].published # None THEN entries[e].published
    ELSE CHOOSE v \in Versions : \A w \in Published(e) : w <= v /\ v \in Published(e)

\* run_repository_function resolves the name and queues a job of the
\* version's kind, with the version's source hash in its metadata.
RunFunction(e, asked) ==
    LET v == Resolved(e, asked) IN
    /\ job = NoJob
    /\ e \in EntriesByName
    /\ entries[e].type = "notebook_function"
    /\ v \in Published(e)
    /\ bundles[v] # None
    /\ job' = [at |-> "queued", v |-> v, source |-> versions[e][v].source]
    /\ UNCHANGED <<entries, versions, bundles, passed, born, req, clashes, outrun>>

\* The scheduler loads the bundle by kind when the attempt starts; without a
\* row the attempt raises.
LoadJob ==
    /\ job.at = "queued"
    /\ job' = IF bundles[job.v] = None THEN NoJob
              ELSE [at |-> "loaded", v |-> job.v, source |-> job.source,
                    loaded |-> bundles[job.v].source]
    /\ UNCHANGED <<entries, versions, bundles, passed, born, req, clashes, outrun>>

\* Mutant: any passed validation of the kind will do.
ProvenKind(v, source) == \E s \in Sources : <<v, s>> \in passed

\* _validate_before_container_run looks for a passed validation of exactly
\* the loaded source (notebook_validation_identity).
Proven(v, source) == <<v, source>> \in passed

\* Docker mode validates on the spot what has no proof; Kubernetes mode fails
\* the job.
GateJob(ok) ==
    /\ job.at = "loaded"
    /\ IF Proven(job.v, job.loaded)
       THEN job' = [job EXCEPT !.at = "running"] /\ UNCHANGED passed
       ELSE IF ok
            THEN /\ passed' = passed \cup {<<job.v, job.loaded>>}
                 /\ job' = [job EXCEPT !.at = "running"]
            ELSE job' = NoJob /\ UNCHANGED passed
    /\ UNCHANGED <<entries, versions, bundles, born, req, clashes, outrun>>

EndJob ==
    /\ job.at = "running"
    /\ job' = NoJob
    /\ UNCHANGED <<entries, versions, bundles, passed, born, req, clashes, outrun>>

\* start_repository_service and stop_repository_service as far as the
\* directory sees them: active_service_id is set and cleared.
StartService(e, asked) ==
    LET v == Resolved(e, asked) IN
    /\ e \in EntriesByName
    /\ entries[e].type = "notebook_service"
    /\ v \in Published(e)
    /\ bundles[v] # None
    /\ ~bundles[v].active
    /\ bundles' = [bundles EXCEPT ![v].active = TRUE]
    /\ UNCHANGED <<entries, versions, passed, born, req, job, clashes, outrun>>

StopService(v) ==
    /\ bundles[v] # None
    /\ bundles[v].active
    /\ bundles' = [bundles EXCEPT ![v].active = FALSE]
    /\ UNCHANGED <<entries, versions, passed, born, req, job, clashes, outrun>>

\* create_notebook_goblin takes any kind that is not in the registry, the kind
\* of a directory version included.
CreateNotebook(v, source) ==
    /\ SaveBundle(v, source)
    /\ Clash(TRUE)
    /\ UNCHANGED <<entries, versions, passed, born, req, job, outrun>>

Submit(c) ==
    \/ \E t \in Types, s \in Sources : SubmitExisting(c, t, s) \/ SubmitNewName(c, t, s)
    \/ CreateEntry(c)
    \/ SubmitRecheck(c)
    \/ SubmitVerify(c)
    \/ SubmitRewrite(c)
    \/ SubmitNumber(c)
    \/ SubmitBundle(c)
    \/ SubmitCheck(c)
    \/ SubmitVersion(c)

Review(c) ==
    \/ \E e \in Entries, v \in Versions :
          \/ BeginValidate(c, e, v)
          \/ RequestReview(c, e, v)
          \/ Approve(c, e, v)
          \/ Reject(c, e, v)
          \/ Publish(c, e, v)
    \/ \E ok \in BOOLEAN : EndValidate(c, ok)
    \/ BeginValidated(c)
    \/ CommitTransition(c)
    \/ \E e \in Entries : Retire(c, e) \/ BeginDelete(c, e)
    \/ DeleteRows(c)

Use ==
    \/ \E e \in Entries, v \in Versions \cup {None} : RunFunction(e, v) \/ StartService(e, v)
    \/ \E v \in Versions : StopService(v) \/ \E s \in Sources : CreateNotebook(v, s)
    \/ LoadJob
    \/ \E ok \in BOOLEAN : GateJob(ok)
    \/ EndJob

Next == (\E c \in Clients : Submit(c) \/ Review(c)) \/ Use

Spec == Init /\ [][Next]_vars

-----------------------------------------------------------------------------
(* Properties *)

Requests ==
    [at : {"idle"}]
    \cup [at : {"recheck", "verify", "rewrite"}, e : Entries, source : Sources, row : EntryRow]
    \cup [at : {"number"}, e : Entries, source : Sources]
    \cup [at : {"create"}, type : Types, source : Sources]
    \cup [at : {"bundle", "check", "insert"}, e : Entries, source : Sources, v : Versions]
    \cup [at : {"validating", "validated"}, e : Entries, v : Versions, source : Sources,
          type : Types]
    \cup [at : {"transition"}, e : Entries, v : Versions, target : Statuses,
          proof : Sources \cup {None}, by : Clients \cup {None}]
    \cup [at : {"delete"}, e : Entries, kinds : SUBSET Versions]

JobStates ==
    [at : {"none"}] \cup [at : {"queued"}, v : Versions, source : Sources]
    \cup [at : {"loaded", "running"}, v : Versions, source : Sources, loaded : Sources]

\* Rows, requests and the queued job stay within the columns and steps the
\* handlers and tables define.
TypeOK ==
    /\ entries \in [Entries -> EntryRow \cup {None}]
    /\ versions \in [Entries -> [Versions -> VersionRow \cup {None}]]
    /\ bundles \in [Versions -> Bundle \cup {None}]
    /\ passed \subseteq Versions \X Sources
    /\ born \in 0..MaxEntries
    /\ req \in [Clients -> Requests]
    /\ job \in JobStates
    /\ clashes \in 0..MaxClashes
    /\ outrun \subseteq Entries

\* An entry that shows as published points at a version that is published,
\* although submissions write back an entry they read earlier and review
\* steps write without looking; what breaks it is a review step that commits
\* between a submission's look at the version and its write, and nothing else.
PublishedEntryRoutes ==
    \A e \in Live \ outrun : entries[e].status = "published" =>
        /\ entries[e].published # None
        /\ entries[e].published \in Published(e)

\* Whatever requests race, a published version carries a validation proof and
\* an approver (validation and approval cannot be skipped or lost).
PublishedWasVetted ==
    \A e \in Live : \A v \in Published(e) :
        versions[e][v].proof # None /\ versions[e][v].approved_by \in Admins

\* A container only ever starts on source that passed validation, even when
\* its bundle was replaced after approval, or between load and start; and while
\* requests do not meet it is the source of the version the caller resolved.
ExecutesValidated ==
    [][job.at = "loaded" /\ job'.at = "running" =>
          /\ <<job.v, job.loaded>> \in passed'
          /\ Calm => job.loaded = job.source]_vars

\* While requests do not meet and no kind is shared, what a published version
\* runs is the source it was validated, approved and submitted with.
BundleIsApproved ==
    Calm => \A e \in Live : \A v \in Published(e) :
        /\ versions[e][v].proof = versions[e][v].source
        /\ bundles[v] # None
        /\ bundles[v].source = versions[e][v].source

\* While requests do not meet, a published version never changes; it only
\* goes away with its entry.
PublishedImmutable ==
    [][\A e \in Live : \A v \in Published(e) :
          clashes' = 0 => versions'[e][v] = versions[e][v] \/ entries'[e] = None]_vars

=============================================================================
