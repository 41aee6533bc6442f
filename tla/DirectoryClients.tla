-------------------------- MODULE DirectoryClients --------------------------
(***************************************************************************)
(* The clients of the Goblin Directory: the directory page behind its      *)
(* session service, the JupyterLab picker behind the user server, and the  *)
(* entry handle of the notebook client.  Each keeps snapshots of the       *)
(* directory while other users change it, has requests in flight, and acts *)
(* on what it shows.                                                       *)
(*                                                                         *)
(* A behaviour follows one client.  The API serves a request in one step   *)
(* here; what interleaves inside a request is DirectoryLifecycle's         *)
(* subject.  A name belongs to one entry at a time.                        *)
(***************************************************************************)
EXTENDS Naturals, Sequences, FiniteSets

CONSTANTS
    NumEntries,   \* entry names, numbered in the order of a listing
    ServiceNames, \* the names that belong to services; the others are functions
    Owned,        \* the names of the client's own user
    MaxVersions,  \* bound on the versions of an entry
    MaxInFlight,  \* bound on requests in flight
    PageSize,     \* the limit of GET /runs
    MaxChanges,   \* per client, bound on what others do meanwhile
    MaxActs,      \* per client, bound on its requests
    MaxTrouble,   \* bound on failed requests and lost sessions
    Directories,  \* per client, the directories it may meet
    Null          \* a JSON null

Names == 1..NumEntries
Slots == 1..MaxInFlight

ASSUME ClientsAssumption ==
    /\ NumEntries \in Nat \ {0}
    /\ ServiceNames \subseteq Names /\ Owned \subseteq Names
    /\ MaxVersions \in Nat \ {0} /\ MaxInFlight \in Nat \ {0} /\ PageSize \in Nat \ {0}
    /\ Null \notin Nat

VARIABLES
    client,    \* the client and its user's role; fixed
    dir,       \* the directory: per name its entry, or Null
    born,      \* entry ids given out
    net,       \* requests in flight, by slot
    listed,    \* the client's latest listing: per name a snapshot, or Null
    picked,    \* the name selected in the listing (runtimeEntry, selected)
    chosen,    \* history: the user's own choice, until a listing lacks it
    shown,     \* the page's detail panel (selectedEntry)
    tab,       \* the page: "off", "login", "boot", "ready" or "failed"
    session,   \* the session its cookie names: "none", "live" or "gone"
    isAdmin,   \* me.is_admin, as of the login
    held,      \* the notebook's entry handle
    launched,  \* history: the latest launch the API accepted
    job,       \* the status of the job that launch queued
    runs,      \* runs of its kind, oldest first: [mine, status]
    reported,  \* what the notebook's wait returned
    changes, acts, trouble

dirVars   == <<dir, born, changes>>
pageVars  == <<tab, session, isAdmin, shown>>
listVars  == <<listed, picked, chosen>>
jobVars   == <<launched, job, runs>>
handVars  == <<held, reported>>
clientVars == <<client, dirVars, net, listVars, pageVars, handVars, jobVars, acts, trouble>>

Free == [at |-> "free"]

Published1 ==
    [id |-> 0, status |-> "published", published |-> 1, versions |-> <<"published">>]

Approved2 ==
    [id |-> 0, status |-> "approved", published |-> 1, versions |-> <<"published", "approved">>]

\* An entry others submitted under the name after deleting the one before it.
Recreated1 == [Published1 EXCEPT !.id = 1]

ASSUME DirectoriesAssumption ==
    /\ DOMAIN Directories = {"page", "picker", "handle"}
    /\ \A is \in DOMAIN Directories :
           Directories[is] \subseteq [Names -> {Null, Published1, Approved2, Recreated1}]

\* A handle on a version of an entry.
HandleOn(e, row, n) ==
    [e |-> e, id |-> row.id, n |-> n, submitted |-> n, status |-> row.versions[n],
     entry |-> row.status]

\* Made for a version of the entry, or of the one that had its name before.
EarlierHandles ==
    UNION {{HandleOn(e, dir[e], n) : n \in DOMAIN dir[e].versions} \cup {HandleOn(e, Published1, 1)} :
               e \in {d \in Names : dir[d] # Null}}

Usable(row) == row # Null /\ row.status = "published"

First(rows) ==
    LET P == {e \in Names : Usable(rows[e])}
    IN  IF P = {} THEN Null ELSE CHOOSE e \in P : \A d \in P : e <= d

NoList == [e \in Names |-> Null]

\* A listing from before the second versions were submitted, and before an
\* entry was deleted and its name submitted again.
EarlierList == [e \in Names |-> IF dir[e] = Null THEN Null ELSE Published1]

\* The client meets a directory that has been in use; a picker may have been
\* open for a while, a handle may be left from an earlier cell.
ClientsInit ==
    /\ client \in [is : {"page", "picker", "handle"}, admin : BOOLEAN]
    /\ dir \in Directories[client.is]
    /\ born = 1
    /\ net = [i \in Slots |-> Free]
    /\ listed \in {NoList} \cup (IF client.is = "picker" THEN {EarlierList} ELSE {})
    /\ picked = First(listed) /\ chosen = Null /\ shown = Null
    /\ tab = "off" /\ session = "none" /\ isAdmin = FALSE
    /\ held \in {Null} \cup (IF client.is = "handle" THEN EarlierHandles ELSE {})
    /\ launched = Null /\ job = "none" /\ runs = << >> /\ reported = Null
    /\ changes = 0 /\ acts = 0 /\ trouble = 0

-----------------------------------------------------------------------------
(* The API, one request at a time *)

LastPublished(row) ==
    LET P == {v \in DOMAIN row.versions : row.versions[v] = "published"}
    IN  IF P = {} THEN Null ELSE CHOOSE v \in P : \A w \in P : w <= v

\* The status a version must have for each step of the review.
Before(op) ==
    CASE op = "validate"       -> {"draft", "validated"}
      [] op = "request-review" -> {"validated"}
      [] op = "approve"        -> {"pending_review"}
      [] op = "publish"        -> {"approved"}
      [] op = "reject"         -> {"draft", "validated", "pending_review", "approved", "rejected"}

StatusReached(op) ==
    CASE op = "validate"       -> "validated"
      [] op = "request-review" -> "pending_review"
      [] op = "approve"        -> "approved"
      [] op = "publish"        -> "published"
      [] op = "reject"         -> "rejected"

Reviews == {"validate", "request-review", "approve", "publish", "reject"}

Reviewed(row, v, op) ==
    [row EXCEPT !.versions[v] = StatusReached(op), !.status = StatusReached(op),
                !.published = IF op = "publish" THEN v ELSE @]

NewRow == [id |-> born + 1, status |-> "draft", published |-> Null, versions |-> <<"draft">>]

WithDraft(row) ==
    [row EXCEPT !.versions = Append(@, "draft"), !.status = "draft"]

Deletable(row) == row.status \in {"draft", "rejected", "retired"}

MayManage(e) == client.admin \/ e \in Owned

Visible(e) == dir[e] # Null /\ (dir[e].status = "published" \/ MayManage(e))

\* A version is named, or the newest is meant.
VersionOf(row, v) == IF v = Null THEN Len(row.versions) ELSE v

\* _resolve_published_repository_version: the version a launch of a name
\* runs, or Null when it is refused.
Resolve(e, v) ==
    LET w == IF v # Null THEN v
             ELSE IF dir[e].published # Null THEN dir[e].published ELSE LastPublished(dir[e])
    IN  IF \/ dir[e] = Null
           \/ dir[e].status = "retired"
           \/ w = Null
           \/ w \notin DOMAIN dir[e].versions
           \/ dir[e].versions[w] # "published"
        THEN Null ELSE w

-----------------------------------------------------------------------------
(* Other users of the directory *)

Change(e, row) ==
    /\ changes < MaxChanges[client.is]
    /\ changes' = changes + 1
    /\ dir' = [dir EXCEPT ![e] = row]

OthersAct(e) ==
    /\ \/ /\ dir[e] = Null
          /\ Change(e, NewRow)
          /\ born' = born + 1
       \/ /\ dir[e] # Null
          /\ \/ \E op \in Reviews, v \in DOMAIN dir[e].versions :
                    dir[e].versions[v] \in Before(op) /\ Change(e, Reviewed(dir[e], v, op))
             \/ /\ dir[e].status # "retired" /\ Len(dir[e].versions) < MaxVersions
                /\ Change(e, WithDraft(dir[e]))
             \/ Change(e, [dir[e] EXCEPT !.status = "retired"])
             \/ Deletable(dir[e]) /\ Change(e, Null)
          /\ UNCHANGED born
    /\ UNCHANGED <<client, net, listVars, pageVars, handVars, jobVars, acts, trouble>>

-----------------------------------------------------------------------------
(* Requests *)

Launches == {"run", "start", "probe", "proxy", "stop"}

\* Buttons and methods are there for the type of an entry only.
Fits(op, e) == IF op = "run" THEN e \notin ServiceNames ELSE e \in ServiceNames

Request(op, e) == [at |-> "sent", op |-> op, e |-> e, id |-> Null, v |-> Null, meant |-> Null,
                   goal |-> Null, after |-> Null, kept |-> TRUE, ok |-> FALSE, data |-> Null]

ById(op, e, row) == [Request(op, e) EXCEPT !.id = row.id]

Listing == Request("lists", Null)

\* The slots are alike: the lowest free one is taken.
FreeSlot(i) == net[i] = Free /\ \A k \in 1..(i - 1) : net[k] # Free

Ask(q) ==
    /\ acts < MaxActs[client.is]
    /\ acts' = acts + 1
    /\ \E i \in Slots : FreeSlot(i) /\ net' = [net EXCEPT ![i] = q]

Then(i, q) == net' = [net EXCEPT ![i] = q]
Done(i)    == Then(i, Free)

Trouble == trouble < MaxTrouble /\ trouble' = trouble + 1

\* The session service reads the session before it reads the body and
\* forwards: a 401 without one.  The user server and the notebook send their
\* own token.
Forward(i) ==
    /\ net[i].at = "sent"
    /\ IF client.is = "page" /\ session # "live"
       THEN Then(i, [net[i] EXCEPT !.at = "served"])
       ELSE Then(i, [net[i] EXCEPT !.at = "forwarded"])
    /\ UNCHANGED <<client, dirVars, listVars, pageVars, handVars, jobVars, acts, trouble>>

\* No answer within the timeout, a 5xx or a missing token: nothing was done,
\* as far as the client is told.
FailRequest(i) ==
    /\ net[i].at = "forwarded"
    /\ Trouble
    /\ Then(i, [net[i] EXCEPT !.at = "served"])
    /\ UNCHANGED <<client, dirVars, listVars, pageVars, handVars, jobVars, acts>>

\* The API did it; answered tells whether its reply made it back.
Answer(i, answered, data) ==
    /\ Then(i, [net[i] EXCEPT !.at = "served", !.ok = answered, !.data = data])
    /\ IF answered THEN UNCHANGED trouble ELSE Trouble

Refuse(i) == Then(i, [net[i] EXCEPT !.at = "served"]) /\ UNCHANGED trouble

\* The lists of the page: what it may discover, its user's own entries, and
\* what is under review.
InDirectoryList(e) == dir[e].status = "published" \/ (isAdmin /\ dir[e].status = "approved")

InMineList(e) == e \in Owned /\ dir[e].status # "retired"

InReviewList(e) == dir[e].status \in {"pending_review", "approved", "rejected", "retired"}

\* The picker lists what is published.
Listed(e) ==
    /\ Visible(e)
    /\ IF client.is = "page"
       THEN InDirectoryList(e) \/ InMineList(e) \/ InReviewList(e)
       ELSE dir[e].status = "published"

ServeRead(i) ==
    LET q == net[i] IN
    /\ q.at = "forwarded"
    /\ \/ /\ q.op = "lists"
          /\ Answer(i, TRUE, [e \in Names |-> IF Listed(e) THEN dir[e] ELSE Null])
       \/ /\ q.op = "get"
          /\ IF Visible(q.e) /\ dir[q.e].id = q.id
             THEN Answer(i, TRUE, dir[q.e]) ELSE Refuse(i)
    /\ UNCHANGED <<client, dirVars, listVars, pageVars, handVars, jobVars, acts>>

Write(i, answered, e, row) ==
    /\ dir' = [dir EXCEPT ![e] = row]
    /\ Answer(i, answered, row)
    /\ UNCHANGED <<client, changes, listVars, pageVars, handVars, jobVars, acts>>

ServeReview(i, answered) ==
    LET q == net[i]
        v == VersionOf(dir[q.e], q.v)
        may == /\ dir[q.e] # Null /\ dir[q.e].id = q.id
               /\ IF q.op \in {"validate", "request-review"} THEN MayManage(q.e) ELSE client.admin
               /\ dir[q.e].versions[v] \in Before(q.op)
    IN  /\ q.at = "forwarded" /\ q.op \in Reviews
        /\ \/ may /\ Write(i, answered, q.e, Reviewed(dir[q.e], v, q.op))
           \/ /\ ~ may \/ q.op = "validate"   \* a validation may fail
              /\ Refuse(i)
              /\ UNCHANGED <<client, dir, changes, listVars, pageVars, handVars, jobVars, acts>>
        /\ UNCHANGED born

ServeRemoval(i, answered) ==
    LET q == net[i]
        may == /\ client.admin /\ dir[q.e] # Null /\ dir[q.e].id = q.id
               /\ q.op = "delete" => Deletable(dir[q.e])
        left == IF q.op = "delete" THEN Null ELSE [dir[q.e] EXCEPT !.status = "retired"]
    IN  /\ q.at = "forwarded" /\ q.op \in {"retire", "delete"}
        /\ IF may THEN Write(i, answered, q.e, left)
           ELSE /\ Refuse(i)
                /\ UNCHANGED <<client, dir, changes, listVars, pageVars, handVars, jobVars, acts>>
        /\ UNCHANGED born

ServeSubmit(i, answered) ==
    LET q == net[i] IN
    /\ q.at = "forwarded" /\ q.op = "submit"
    /\ \/ /\ dir[q.e] = Null
          /\ Write(i, answered, q.e, NewRow)
          /\ born' = born + 1
       \/ /\ dir[q.e] # Null /\ MayManage(q.e) /\ dir[q.e].status # "retired"
          /\ Len(dir[q.e].versions) < MaxVersions
          /\ Write(i, answered, q.e, WithDraft(dir[q.e]))
          /\ UNCHANGED born

\* A launch of a name, or a job for a declared kind; a run queues a job.
ServeLaunch(i, answered) ==
    LET q == net[i]
        v == Resolve(q.e, q.v)
        queue == /\ job' = IF q.op \in {"run", "jobs"} THEN "queued" ELSE job
                 /\ runs' = IF q.op \in {"run", "jobs"} THEN << >> ELSE runs
                 /\ Answer(i, answered, Null)
    IN  /\ q.at = "forwarded"
        /\ \/ q.op = "jobs" /\ queue /\ UNCHANGED launched
           \/ /\ q.op \in Launches
              /\ IF v = Null
                 THEN Refuse(i) /\ UNCHANGED jobVars
                 ELSE queue /\ launched' = [id |-> dir[q.e].id, v |-> v, meant |-> q.meant]
        /\ UNCHANGED <<client, dirVars, listVars, pageVars, handVars, acts>>

Serve(i) ==
    \/ Forward(i) \/ FailRequest(i) \/ ServeRead(i)
    \/ \E answered \in BOOLEAN :
           \/ ServeReview(i, answered) \/ ServeRemoval(i, answered)
           \/ ServeSubmit(i, answered) \/ ServeLaunch(i, answered)

-----------------------------------------------------------------------------
(* The directory page *)

OnPage == client.is = "page"

\* The index without a live session redirects to the Hub's login.
OpenPage ==
    /\ OnPage /\ tab \in {"off", "failed"}
    /\ acts < MaxActs[client.is] /\ acts' = acts + 1
    /\ tab' = IF session = "live" THEN "boot" ELSE "login"
    /\ UNCHANGED <<client, dirVars, net, listVars, session, isAdmin, shown, handVars, jobVars, trouble>>

\* The state cookie has expired, the code is not exchanged or the user is not
\* identified: an error page.
LoginFails ==
    /\ tab = "login"
    /\ Trouble
    /\ tab' = "off"
    /\ UNCHANGED <<client, dirVars, net, listVars, session, isAdmin, shown, handVars, jobVars, acts>>

\* The groups decide the role of the session for as long as it lives.  When
\* the Hub does not give the user's details they come from the token's own
\* model, which may lack them.
GroupsRead(admin) ==
    \/ admin = client.admin /\ UNCHANGED trouble
    \/ admin = FALSE /\ Trouble

OAuthCallback ==
    /\ tab = "login"
    /\ tab' = "boot"
    /\ session' = "live"
    /\ \E admin \in BOOLEAN : GroupsRead(admin) /\ isAdmin' = admin
    /\ UNCHANGED <<client, dirVars, net, listVars, shown, handVars, jobVars, acts>>

\* init: without /ui-api/me nothing is loaded and no timer is set.
InitPage ==
    /\ tab = "boot"
    /\ IF session = "live"
       THEN tab' = "ready" /\ \E i \in Slots : FreeSlot(i) /\ Then(i, Listing)
       ELSE tab' = "failed" /\ UNCHANGED net
    /\ UNCHANGED <<client, dirVars, listVars, session, isAdmin, shown, handVars, jobVars, acts, trouble>>

\* The session's TTL passes, or the single replica of the service restarts.
SessionEnds ==
    /\ session = "live"
    /\ Trouble
    /\ session' = "gone"
    /\ UNCHANGED <<client, dirVars, net, listVars, tab, isAdmin, shown, handVars, jobVars, acts>>

\* Logout deletes the session and reloads; requests in flight go on without
\* a page to answer to.
Logout ==
    /\ tab = "ready"
    /\ session' = "none"
    /\ tab' = "off"
    /\ net' = [i \in Slots |-> IF net[i] = Free THEN Free ELSE [net[i] EXCEPT !.kept = FALSE]]
    /\ listed' = NoList
    /\ picked' = Null /\ chosen' = Null /\ shown' = Null
    /\ UNCHANGED <<client, dirVars, isAdmin, handVars, jobVars, acts, trouble>>

\* A snapshot with its buttons: a card of the listing, or the detail panel.
Snapshots(e) ==
    {row \in {listed[e]} \cup (IF shown # Null /\ shown.e = e THEN {shown.row} ELSE {}) :
         row # Null}

\* renderEntryActions
Buttons(e, row) ==
    LET edits == isAdmin \/ e \in Owned
    IN  {op \in Reviews \cup {"retire", "delete"} :
            \/ op = "validate" /\ edits /\ row.status = "draft"
            \/ op = "request-review" /\ edits /\ row.status = "validated"
            \/ op = "approve" /\ isAdmin /\ row.status = "pending_review"
            \/ op = "reject" /\ isAdmin /\ row.status \in {"pending_review", "approved"}
            \/ op = "publish" /\ isAdmin /\ row.status = "approved"
            \/ /\ op = "retire" /\ isAdmin
               /\ \/ row.status = "published"
                  \/ row = listed[e] /\ row.status \in {"pending_review", "approved", "rejected"}
            \/ op = "delete" /\ isAdmin /\ row.status \in {"draft", "rejected", "retired"}}

PageAsks(q) ==
    /\ tab = "ready"
    /\ Ask(q)
    /\ UNCHANGED <<client, dirVars, listVars, pageVars, handVars, jobVars, trouble>>

\* Every 15 seconds, and on the refresh buttons.
PageRefreshes == PageAsks(Listing)

LoadEntry == \E e \in Names : \E row \in Snapshots(e) : PageAsks(ById("get", e, row))

\* validateEntry, transitionEntry and deleteEntry name the entry, not the
\* version.
PageReviews ==
    \E e \in Names : \E row \in Snapshots(e) :
        \E op \in Buttons(e, row) : PageAsks(ById(op, e, row))

SubmitBundle == \E e \in Names : PageAsks(Request("submit", e))

\* The page sends the name alone.
PageLaunches ==
    /\ picked # Null
    /\ \E op \in Launches : Fits(op, picked) /\ PageAsks(Request(op, picked))

\* selectRuntimeEntry, from the select element, a card or the panel: an entry
\* that is not in the listing selects nothing.
PageChooses ==
    /\ tab = "ready"
    /\ \E e \in Names : \E row \in Snapshots(e) :
           /\ Usable(row)
           /\ picked' = IF Usable(listed[e]) /\ listed[e].id = row.id THEN e ELSE Null
           /\ chosen' = IF picked' = e THEN [e |-> e, id |-> row.id] ELSE Null
    /\ UNCHANGED <<client, dirVars, net, listed, pageVars, handVars, jobVars, acts, trouble>>

\* renderRuntimeSelect: the selected entry stays selected while it is listed.
Selection(rows) ==
    IF picked # Null /\ Usable(rows[picked]) /\ rows[picked].id = listed[picked].id
    THEN picked ELSE First(rows)

RenderLists(rows) ==
    /\ listed' = rows
    /\ picked' = Selection(rows)
    /\ chosen' = IF chosen # Null /\ Usable(rows[chosen.e]) /\ rows[chosen.e].id = chosen.id
                 THEN chosen ELSE Null

\* A listing arrives; a review step whose refresh it was then shows the entry
\* as its own answer had it.
PageLists(i) ==
    /\ net[i].at = "served" /\ net[i].op = "lists" /\ net[i].kept
    /\ IF net[i].ok THEN RenderLists(net[i].data) ELSE UNCHANGED listVars
    /\ shown' = IF net[i].after # Null THEN net[i].after ELSE shown
    /\ Done(i)
    /\ UNCHANGED <<client, dirVars, tab, session, isAdmin, handVars, jobVars, acts, trouble>>

PageHears(i, ops) == net[i].at = "served" /\ net[i].op \in ops /\ net[i].kept /\ net[i].ok

Detail(i) == [e |-> net[i].e, row |-> net[i].data]

PageShows(i) ==
    /\ PageHears(i, {"get", "submit"})
    /\ shown' = Detail(i)
    /\ Then(i, IF net[i].op = "get" THEN Free ELSE Listing)
    /\ UNCHANGED <<client, dirVars, listVars, tab, session, isAdmin, handVars, jobVars, acts, trouble>>

\* The lists are refreshed first.
PageReviewed(i) ==
    /\ PageHears(i, Reviews \cup {"retire"})
    /\ Then(i, [Listing EXCEPT !.after = Detail(i)])
    /\ UNCHANGED <<client, dirVars, listVars, pageVars, handVars, jobVars, acts, trouble>>

PageDeleted(i) ==
    /\ PageHears(i, {"delete"})
    /\ shown' = Null
    /\ Then(i, Listing)
    /\ UNCHANGED <<client, dirVars, listVars, tab, session, isAdmin, handVars, jobVars, acts, trouble>>

PageLaunched(i) ==
    /\ PageHears(i, Launches)
    /\ Then(i, IF net[i].op \in {"probe", "proxy"} THEN Free ELSE Listing)
    /\ UNCHANGED <<client, dirVars, listVars, pageVars, handVars, jobVars, acts, trouble>>

\* showError: a toast, and nothing changes.
PageErrs(i) ==
    /\ net[i].at = "served" /\ net[i].op # "lists" /\ net[i].kept /\ ~ net[i].ok
    /\ Done(i)
    /\ UNCHANGED <<client, dirVars, listVars, pageVars, handVars, jobVars, acts, trouble>>

\* The answer to a request of a page that is gone.
Unheard(i) ==
    /\ net[i] # Free /\ net[i].at = "served" /\ ~ net[i].kept
    /\ Done(i)
    /\ UNCHANGED <<client, dirVars, listVars, pageVars, handVars, jobVars, acts, trouble>>

PageNext ==
    \/ OpenPage \/ LoginFails \/ OAuthCallback \/ InitPage \/ SessionEnds \/ Logout
    \/ PageRefreshes \/ LoadEntry \/ PageReviews \/ SubmitBundle \/ PageLaunches \/ PageChooses
    \/ /\ OnPage
       /\ \E i \in Slots :
              /\ net[i] # Free
              /\ \/ PageLists(i) \/ PageShows(i) \/ PageReviewed(i) \/ PageDeleted(i)
                 \/ PageLaunched(i) \/ PageErrs(i) \/ Unheard(i)

-----------------------------------------------------------------------------
(* The JupyterLab picker *)

OnPicker == client.is = "picker"

\* publishedVersion: the version an item displays.
PublishedVersion(row) ==
    IF row.published # Null THEN row.published
    ELSE CHOOSE v \in DOMAIN row.versions :
             /\ row.versions[v] = "published"
             /\ \A w \in DOMAIN row.versions : row.versions[w] = "published" => v <= w

\* Mutant: the launch leaves the choice of the version to the API.
LaunchVersionOpen(row) == Null

\* runFunction, serviceAction and proxyService send the displayed version.
LaunchVersion(row) == PublishedVersion(row)

\* loadEntries, when the widget opens and on Refresh.
PickerLoads ==
    /\ OnPicker
    /\ Ask(Listing)
    /\ UNCHANGED <<client, dirVars, listVars, pageVars, handVars, jobVars, trouble>>

PickerSelects ==
    /\ OnPicker
    /\ \E e \in Names : listed[e] # Null /\ picked' = e
    /\ UNCHANGED <<client, dirVars, net, listed, chosen, pageVars, handVars, jobVars, acts, trouble>>

PickerLaunches(op) ==
    /\ OnPicker /\ picked # Null
    /\ Fits(op, picked)
    /\ LET row == listed[picked]
       IN  Ask([Request(op, picked) EXCEPT !.v = LaunchVersion(row),
                                           !.meant = [id |-> row.id, v |-> PublishedVersion(row)]])
    /\ UNCHANGED <<client, dirVars, listVars, pageVars, handVars, jobVars, trouble>>

PickerRuns == PickerLaunches("run")

PickerUsesService == \E op \in {"start", "probe", "stop"} : PickerLaunches(op)

PickerProxies == PickerLaunches("proxy")

\* renderEntries selects the first entry; other answers are printed.
PickerHears(i) ==
    /\ OnPicker
    /\ net[i].at = "served"
    /\ IF net[i].op = "lists" /\ net[i].ok
       THEN listed' = net[i].data /\ picked' = First(net[i].data)
       ELSE UNCHANGED <<listed, picked>>
    /\ Done(i)
    /\ UNCHANGED <<client, dirVars, chosen, pageVars, handVars, jobVars, acts, trouble>>

PickerNext ==
    \/ PickerLoads \/ PickerSelects \/ PickerRuns \/ PickerUsesService \/ PickerProxies
    \/ \E i \in Slots : net[i] # Free /\ PickerHears(i)

-----------------------------------------------------------------------------
(* The entry handle of a notebook *)

OnHandle == client.is = "handle"

\* The notebook's calls block: one request at a time.
Call(q) ==
    /\ OnHandle
    /\ \A i \in Slots : net[i] = Free
    /\ Ask(q)
    /\ UNCHANGED <<client, dirVars, listVars, pageVars, handVars, jobVars, trouble>>

\* submit_repository_function and submit_repository_service
HandleSubmits == held = Null /\ \E e \in Names : Call(Request("submit", e))

\* A method of the handle names the entry and the version it holds.
Mine(op) == [Request(op, held.e) EXCEPT !.id = held.id, !.v = held.n]

HandleRefreshes == held # Null /\ Call(Mine("get"))

HandleValidates == held # Null /\ Call(Mine("validate"))

HandleReviews == held # Null /\ \E op \in Reviews \ {"validate"} : Call(Mine(op))

\* wait_for_status polls the entry, not the version.
HandleWaits ==
    held # Null /\ \E goal \in {"approved", "published"} : Call([Mine("get") EXCEPT !.goal = goal])

HandleLaunches(op) ==
    /\ held # Null /\ Fits(op, held.e)
    /\ Call([Mine(op) EXCEPT !.meant = [id |-> held.id, v |-> held.submitted]])

HandleRuns == HandleLaunches("run")

HandleUsesService == \E op \in Launches \ {"run"} : HandleLaunches(op)

\* A declared function is run by its kind.
RunDeclared == Call(Request("jobs", Null))

\* _replace_from_response: the handle keeps the version with its number.
ReplaceFrom(row) ==
    [held EXCEPT !.status = IF held.n \in DOMAIN row.versions THEN row.versions[held.n] ELSE @,
                 !.entry = row.status]

\* An error raises and leaves the handle alone.
HandleRaises(i) == ~ net[i].ok /\ Done(i) /\ UNCHANGED held

HandleMade(i) ==
    /\ net[i].ok /\ net[i].op = "submit"
    /\ held' = HandleOn(net[i].e, net[i].data, Len(net[i].data.versions))
    /\ Done(i)

HandleReplaced(i) ==
    /\ net[i].ok /\ net[i].op \in Reviews \cup {"get"}
    /\ net[i].goal # Null => net[i].data.status = net[i].goal
    /\ held' = ReplaceFrom(net[i].data)
    /\ Done(i)

\* A wait that has not reached its status polls again or times out.
WaitsOn(i) ==
    /\ net[i].ok /\ net[i].op = "get" /\ net[i].goal # Null /\ net[i].data.status # net[i].goal
    /\ Done(i) \/ Then(i, [net[i] EXCEPT !.at = "sent", !.ok = FALSE, !.data = Null])
    /\ UNCHANGED held

\* A queued run is waited for unless wait is off.
HandleLaunched(i) ==
    /\ net[i].ok /\ net[i].op \in Launches \cup {"jobs"}
    /\ \/ Done(i)
       \/ net[i].op \in {"run", "jobs"} /\ Then(i, [at |-> "poll"])
    /\ UNCHANGED held

HandleHears(i) ==
    /\ OnHandle /\ net[i].at = "served"
    /\ \/ HandleRaises(i) \/ HandleMade(i) \/ HandleReplaced(i)
       \/ WaitsOn(i) \/ HandleLaunched(i)
    /\ UNCHANGED <<client, dirVars, listVars, pageVars, reported, jobVars, acts, trouble>>

JobEnds == {"completed", "failed", "timed_out", "cancelled"}

\* GET /runs?kind=...&limit=100: newest first, a page of them.
RunsPage == IF Len(runs) <= PageSize THEN runs ELSE SubSeq(runs, Len(runs) - PageSize + 1, Len(runs))

\* Mutant: the oldest run of the job is taken.
RunForJobOldest ==
    LET mine == {r \in DOMAIN RunsPage : RunsPage[r].mine}
    IN  IF mine = {} THEN Null ELSE RunsPage[CHOOSE r \in mine : \A s \in mine : r <= s].status

\* _run_for_job: the first of the page that belongs to the job.
RunForJob ==
    LET mine == {r \in DOMAIN RunsPage : RunsPage[r].mine}
    IN  IF mine = {} THEN Null ELSE RunsPage[CHOOSE r \in mine : \A s \in mine : s <= r].status

\* _wait_for_job reads the job, then the runs of the kind, and decides by the
\* job; the deadline is looked at between polls.
PollJob(i) ==
    /\ net[i].at = "poll"
    /\ Then(i, [at |-> "polled", job |-> job])
    /\ UNCHANGED <<client, dirVars, listVars, pageVars, handVars, jobVars, acts, trouble>>

PollRuns(i) ==
    /\ net[i].at = "polled"
    /\ IF net[i].job \in JobEnds
       THEN /\ reported' = [job |-> net[i].job, run |-> RunForJob]
            /\ Done(i)
       ELSE /\ Done(i) \/ Then(i, [at |-> "poll"])
            /\ UNCHANGED reported
    /\ UNCHANGED <<client, dirVars, listVars, pageVars, held, jobVars, acts, trouble>>

\* The job meanwhile: attempts start and end, one after another or, after a
\* lapsed lease, beside one that is still running; other jobs have runs too.
AttemptStarts ==
    /\ job \in {"queued", "retrying", "running"}
    /\ job = "running" => changes < MaxChanges[client.is]
    /\ Len(runs) <= PageSize
    /\ changes' = IF job = "running" THEN changes + 1 ELSE changes
    /\ job' = "running"
    /\ runs' = Append(runs, [mine |-> TRUE, status |-> "running"])
    /\ UNCHANGED <<client, dir, born, net, listVars, pageVars, handVars, launched, acts, trouble>>

\* finalize_attempt ends Run and job together; the job is left alone by an
\* attempt that no longer owns it.
AttemptEnds(r) ==
    LET owns == job = "running" /\ \A s \in DOMAIN runs : runs[s].mine => s <= r
    IN  /\ runs[r] = [mine |-> TRUE, status |-> "running"]
        /\ \E end \in {"completed", "failed", "timed_out"} :
               /\ runs' = [runs EXCEPT ![r].status = end]
               /\ \/ owns /\ job' = end
                  \/ owns /\ end = "failed" /\ job' = "retrying"
                  \/ ~ owns /\ UNCHANGED job
        /\ UNCHANGED <<client, dirVars, net, listVars, pageVars, handVars, launched, acts, trouble>>

JobCancelled ==
    /\ job \in {"queued", "retrying", "running"}
    /\ job' = "cancelled"
    /\ UNCHANGED <<client, dirVars, net, listVars, pageVars, handVars, launched, runs, acts, trouble>>

OtherRun ==
    /\ job \notin {"none"} \cup JobEnds
    /\ changes < MaxChanges[client.is] /\ Len(runs) <= PageSize
    /\ changes' = changes + 1
    /\ runs' = Append(runs, [mine |-> FALSE, status |-> "running"])
    /\ UNCHANGED <<client, dir, born, net, listVars, pageVars, handVars, launched, job, acts, trouble>>

HandleNext ==
    \/ HandleSubmits \/ HandleRefreshes \/ HandleValidates \/ HandleReviews \/ HandleWaits
    \/ HandleRuns \/ HandleUsesService \/ RunDeclared
    \/ \E i \in Slots : net[i] # Free /\ (HandleHears(i) \/ PollJob(i) \/ PollRuns(i))
    \/ OnHandle /\ (AttemptStarts \/ (\E r \in DOMAIN runs : AttemptEnds(r)) \/ JobCancelled \/ OtherRun)

-----------------------------------------------------------------------------

ClientsNext ==
    \/ \E e \in Names : OthersAct(e)
    \/ \E i \in Slots : net[i] # Free /\ Serve(i)
    \/ PageNext \/ PickerNext \/ HandleNext

ClientsSpec == ClientsInit /\ [][ClientsNext]_clientVars

-----------------------------------------------------------------------------
(* Properties *)

\* What a user chose on the page stays selected, through refreshes that
\* overlap and answers out of order, until a listing lacks it.
ChoiceStays == chosen # Null => picked = chosen.e

\* A launch from the picker or a handle that names a version runs the version
\* that was displayed or submitted, of the entry it was displayed or submitted for, or is
\* refused, whatever others published, retired or submitted in between.  The
\* request carries the name and the number only (index.js, RepositoryEntryHandle): when
\* others deleted the entry and published another under its name, the version
\* of that number of the later entry runs.  The page's launches name no
\* version and are not meant here: they run what is published.
LaunchRunsWhatWasMeant ==
    launched # Null /\ launched.meant # Null /\ launched.meant.v # Null =>
        launched.v = launched.meant.v /\ launched.meant.id <= launched.id

\* What a user chose, to act on now or before it was sent, is kept.
ChoicesAreKept == ChoiceStays /\ LaunchRunsWhatWasMeant

\* When a notebook's wait reports that a job ended by itself, the Run it
\* returns is the one that ended it, although job and Runs are read in two
\* requests while attempts are retried or overtaken.
ReportedRunIsFinal ==
    reported # Null /\ reported.job # "cancelled" /\ reported.run # Null =>
        reported.run = reported.job

=============================================================================
