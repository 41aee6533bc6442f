---------------------- MODULE DirectoryLifecycleProofs ----------------------
(***************************************************************************)
(* Proofs about the Goblin Directory for any number of clients, entries    *)
(* and versions and any number of requests that meet.                      *)
(*                                                                         *)
(* Requests write from what they read earlier, so each invariant says of   *)
(* every request in flight what its write may still rely on: Identity (an  *)
(* id is given out once, so a deleted entry stays deleted), Vetting (the   *)
(* proof and the approver of a row outlive every late write), Routing      *)
(* (what a submission writes back), and Undisturbed (what is true in       *)
(* addition while requests do not meet and no kind is shared).             *)
(***************************************************************************)
EXTENDS DirectoryLifecycle, WellFoundedInduction, TLAPS

-----------------------------------------------------------------------------
(* The inductive invariant                                                 *)

\* The request is about an entry: the others are idle or about to create one.
Names(r) == r.at \notin {"idle", "create"}

\* What has not been created has no rows, and nobody asks for it.
Identity ==
    /\ \A e \in Entries : e > born =>
           entries[e] = None /\ \A v \in Versions : versions[e][v] = None
    /\ \A c \in Clients : Names(req[c]) => req[c].e <= born

\* A row of a status past validation has a proof, one past approval an
\* approver.
RowVetted(row) ==
    /\ row.status \in {"validated", "pending_review", "approved", "published"} => row.proof # None
    /\ row.status \in {"approved", "published"} => row.approved_by \in Admins

\* What the columns of a transition give the row it is written to.
TransitionVetted(r) ==
    r.e \in Live =>
        /\ r.v \in VersionsOf(r.e)
        /\ r.target = "validated" => r.proof # None
        /\ r.target \in {"pending_review", "approved", "published"} =>
              versions[r.e][r.v].proof # None
        /\ r.target \in {"approved", "published"} => r.by \in Admins

Vetting ==
    /\ \A e \in Live : \A v \in VersionsOf(e) : RowVetted(versions[e][v])
    /\ \A c \in Clients : req[c].at = "transition" => TransitionVetted(req[c])

\* What a submission is about to write back routes, or a review step outran it.
RewriteRoutes(r) ==
    /\ r.row.status = "published" => r.row.published # None
    /\ r.at = "rewrite" /\ r.row.published # None /\ r.e \in Live \ outrun =>
          IsPublished(r.e, r.row.published)

Routing ==
    /\ PublishedEntryRoutes
    /\ \A c \in Clients : req[c].at \in {"verify", "rewrite"} => RewriteRoutes(req[c])

\* While requests do not meet: there is one entry at most and one request at
\* a time, ...
Alone ==
    /\ born <= 1
    /\ \A c, d \in Clients : req[c] # Idle /\ req[d] # Idle => c = d
    /\ \A c \in Clients : req[c].at = "create" => born = 0
    /\ \A c \in Clients : Names(req[c]) => req[c].e \in Live

\* ... a version's bundle is there and has its source, and so has the proof, ...
Bundled(e, v) ==
    /\ bundles[v] # None
    /\ bundles[v].source = versions[e][v].source
    /\ versions[e][v].proof \in {None, versions[e][v].source}

\* ... what a request goes on with is still so, ...
RequestCurrent(r) ==
    /\ r.at = "bundle" => r.v \notin VersionsOf(r.e)
    /\ r.at \in {"check", "insert"} => bundles[r.v] # None /\ bundles[r.v].source = r.source
    /\ r.at \in {"validating", "validated"} =>
          r.v \in VersionsOf(r.e) /\ versions[r.e][r.v].source = r.source
    /\ r.at = "transition" =>
          /\ versions[r.e][r.v].status # "published"
          /\ r.target = "validated" => r.proof = versions[r.e][r.v].source

\* ... and the queued job runs what its caller resolved.
JobCurrent ==
    /\ job.at = "queued" =>
          /\ born = 1
          /\ 1 \in Live => job.v \in VersionsOf(1)
          /\ bundles[job.v] # None => bundles[job.v].source = job.source
    /\ job.at \in {"loaded", "running"} => job.loaded = job.source

Undisturbed ==
    Calm => /\ Alone
            /\ \A e \in Entries : \A v \in VersionsOf(e) : Bundled(e, v)
            /\ \A c \in Clients : RequestCurrent(req[c])
            /\ JobCurrent

DirInv == Identity /\ Vetting /\ Routing /\ Undisturbed

-----------------------------------------------------------------------------
(* Types                                                                   *)

\* The columns a request carries, by the step it is at.
LEMMA RequestShapes ==
    ASSUME NEW r \in Requests
    PROVE  /\ r.at \in {"recheck", "verify", "rewrite"} =>
                  r \in [at : {"recheck", "verify", "rewrite"}, e : Entries, source : Sources,
                        row : EntryRow]
           /\ r.at = "number" => r \in [at : {"number"}, e : Entries, source : Sources]
           /\ r.at = "create" => r \in [at : {"create"}, type : Types, source : Sources]
           /\ r.at \in {"bundle", "check", "insert"} =>
                  r \in [at : {"bundle", "check", "insert"}, e : Entries, source : Sources,
                        v : Versions]
           /\ r.at \in {"validating", "validated"} =>
                  r \in [at : {"validating", "validated"}, e : Entries, v : Versions,
                        source : Sources, type : Types]
           /\ r.at = "transition" =>
                  r \in [at : {"transition"}, e : Entries, v : Versions, target : Statuses,
                        proof : Sources \cup {None}, by : Clients \cup {None}]
           /\ r.at = "delete" => r \in [at : {"delete"}, e : Entries, kinds : SUBSET Versions]
           /\ r.at = "idle" => r = Idle
  BY DEF Requests, Idle

\* Writing a request of one of the shapes keeps the table of requests typed.
LEMMA GoType ==
    ASSUME TypeOK, NEW c \in Clients, NEW r \in Requests, Go(c, r)
    PROVE  req' \in [Clients -> Requests]
  BY DEF TypeOK, Go

\* A request that ends frees its client.
LEMMA EndType ==
    ASSUME TypeOK, NEW c \in Clients, End(c)
    PROVE  req' \in [Clients -> Requests]
  BY DEF TypeOK, End, Idle, Requests

\* A set of numbers has a least element.
LEMMA LeastNumber ==
    ASSUME NEW S, S \subseteq Nat, S # {}
    PROVE  \E n \in S : \A m \in S : n <= m
<1>1. PICK n \in S : \A m \in S : ~(<<m, n>> \in OpToRel(<, Nat))
  BY NatLessThanWellFounded, WFMin
<1>2. \A m \in S : ~(m < n)
  BY <1>1 DEF OpToRel
<1> QED BY <1>2

\* The newest version of an entry is one of its versions.
LEMMA LatestIsVersion ==
    ASSUME NEW e \in Entries, VersionsOf(e) # {}
    PROVE  Latest(e) \in VersionsOf(e) /\ \A w \in VersionsOf(e) : w <= Latest(e)
<1> DEFINE left == {MaxVersions - v : v \in VersionsOf(e)}
<1>1. left \subseteq Nat /\ left # {} /\ VersionsOf(e) \subseteq Nat
  BY DirectoryAssumption DEF VersionsOf, Versions
<1>2. PICK n \in left : \A m \in left : n <= m
  BY <1>1, LeastNumber
<1>3. PICK v \in VersionsOf(e) : n = MaxVersions - v
  BY <1>2
<1>4. ASSUME NEW w \in VersionsOf(e) PROVE w <= v
  <2>1. MaxVersions - v <= MaxVersions - w
    BY <1>2, <1>3
  <2>2. v \in Nat /\ w \in Nat /\ MaxVersions \in Nat
    BY <1>1, DirectoryAssumption
  <2> QED BY <2>1, <2>2
<1> QED BY <1>4 DEF Latest

\* Writing one version row, or the status of one entry, keeps the tables typed.
LEMMA VersionWriteType ==
    ASSUME TypeOK, NEW e \in Entries, NEW v \in Versions, NEW row \in VersionRow
    PROVE  [versions EXCEPT ![e][v] = row] \in [Entries -> [Versions -> VersionRow \cup {None}]]
<1>1. versions[e] \in [Versions -> VersionRow \cup {None}]
  BY DEF TypeOK
<1>2. [versions[e] EXCEPT ![v] = row] \in [Versions -> VersionRow \cup {None}]
  BY <1>1
<1> QED BY <1>2 DEF TypeOK

\* Writing the status or the published version of an entry keeps its row.
LEMMA EntryWriteType ==
    ASSUME TypeOK, NEW e \in Entries, entries[e] # None, NEW st \in Statuses,
           NEW p \in Versions \cup {None}
    PROVE  /\ [entries EXCEPT ![e].status = st] \in [Entries -> EntryRow \cup {None}]
           /\ [entries EXCEPT ![e].status = st, ![e].published = p]
                  \in [Entries -> EntryRow \cup {None}]
<1>1. entries[e] \in EntryRow
  BY DEF TypeOK
<1>2. /\ [entries[e] EXCEPT !.status = st] \in EntryRow
      /\ [entries[e] EXCEPT !.status = st, !.published = p] \in EntryRow
  BY <1>1 DEF EntryRow
<1> QED BY <1>2 DEF TypeOK

\* A step of a submission keeps the types.
LEMMA SubmitType ==
    ASSUME TypeOK, NEW c \in Clients, Submit(c)
    PROVE  TypeOK'
<1> USE DirectoryAssumption DEF TypeOK
<1>0. req[c] \in Requests
  OBVIOUS
<1>1. ASSUME NEW t \in Types, NEW s \in Sources, SubmitExisting(c, t, s) PROVE TypeOK'
  <2>1. PICK e \in EntriesByName :
            /\ Start(c, [at |-> "recheck", e |-> e, source |-> s, row |-> entries[e]])
            /\ Clash(~OthersIdle(c))
            /\ UNCHANGED <<entries, versions, bundles, passed, born, job, outrun>>
    BY <1>1 DEF SubmitExisting
  <2>2. e \in Entries /\ entries[e] \in EntryRow
    BY DEF EntriesByName, Live
  <2>3. [at |-> "recheck", e |-> e, source |-> s, row |-> entries[e]] \in Requests
    BY <2>2 DEF Requests
  <2> QED BY <2>1, <2>3 DEF Start, Clash
<1>2. ASSUME NEW t \in Types, NEW s \in Sources, SubmitNewName(c, t, s) PROVE TypeOK'
  <2>1. [at |-> "create", type |-> t, source |-> s] \in Requests
    BY DEF Requests
  <2> QED BY <1>2, <2>1 DEF SubmitNewName, Start, Clash
<1>3. CASE CreateEntry(c)
  <2>1. req[c].type \in Types /\ req[c].source \in Sources
    BY <1>0, <1>3, RequestShapes DEF CreateEntry
  <2>2. [at |-> "bundle", e |-> born + 1, source |-> req[c].source, v |-> 1] \in Requests
    BY <1>3, <2>1 DEF CreateEntry, Requests, Versions
  <2>3. NewEntry(req[c].type, c) \in EntryRow
    BY <2>1 DEF NewEntry, EntryRow, Statuses
  <2> QED BY <1>3, <2>2, <2>3 DEF CreateEntry, Go, Entries
<1>4. CASE SubmitRecheck(c)
  <2>1. [req[c] EXCEPT !.at = "verify"] \in Requests
    BY <1>0, <1>4, RequestShapes DEF SubmitRecheck, Requests
  <2> QED BY <1>4, <2>1, GoType, EndType DEF SubmitRecheck
<1>5. CASE SubmitVerify(c)
  <2>1. [req[c] EXCEPT !.at = "rewrite"] \in Requests
    BY <1>0, <1>5, RequestShapes DEF SubmitVerify, Requests
  <2> QED BY <1>5, <2>1, GoType, EndType DEF SubmitVerify
<1>6. CASE SubmitRewrite(c)
  <2>1. req[c].e \in Entries /\ req[c].row \in EntryRow /\ req[c].source \in Sources
    BY <1>0, <1>6, RequestShapes DEF SubmitRewrite
  <2>2. [at |-> "number", e |-> req[c].e, source |-> req[c].source] \in Requests
    BY <2>1 DEF Requests
  <2> QED BY <1>6, <2>1, <2>2, GoType, EndType DEF SubmitRewrite
<1>7. CASE SubmitNumber(c)
  <2>1. req[c].e \in Entries /\ req[c].source \in Sources
    BY <1>0, <1>7, RequestShapes DEF SubmitNumber
  <2>2. ASSUME VersionsOf(req[c].e) # {}, ~(NextVersion(req[c].e) > MaxVersions)
        PROVE  [at |-> "bundle", e |-> req[c].e, source |-> req[c].source,
                v |-> NextVersion(req[c].e)] \in Requests
    <3>1. Latest(req[c].e) \in Versions
      BY <2>1, <2>2, LatestIsVersion DEF VersionsOf
    <3>2. NextVersion(req[c].e) \in Versions
      BY <2>2, <3>1 DEF NextVersion, Versions
    <3> QED BY <2>1, <3>2 DEF Requests
  <2> QED BY <1>7, <2>2, GoType, EndType DEF SubmitNumber
<1>8. CASE SubmitBundle(c)
  <2>1. req[c].v \in Versions /\ req[c].source \in Sources
    BY <1>0, <1>8, RequestShapes DEF SubmitBundle
  <2>2. [req[c] EXCEPT !.at = "check"] \in Requests
    BY <1>0, <1>8, RequestShapes DEF SubmitBundle, Requests
  <2> QED BY <1>8, <2>1, <2>2, GoType DEF SubmitBundle, SaveBundle, Bundle
<1>9. CASE SubmitCheck(c)
  <2>1. [req[c] EXCEPT !.at = "insert"] \in Requests
    BY <1>0, <1>9, RequestShapes DEF SubmitCheck, Requests
  <2> QED BY <1>9, <2>1, GoType, EndType DEF SubmitCheck
<1>10. CASE SubmitVersion(c)
  <2>1. req[c].e \in Entries /\ req[c].v \in Versions /\ req[c].source \in Sources
    BY <1>0, <1>10, RequestShapes DEF SubmitVersion
  <2>2. NewVersion(req[c].source) \in VersionRow
    BY <2>1 DEF NewVersion, VersionRow, Statuses
  <2>3. versions' \in [Entries -> [Versions -> VersionRow \cup {None}]]
    <3>1. [versions EXCEPT ![req[c].e][req[c].v] = NewVersion(req[c].source)]
              \in [Entries -> [Versions -> VersionRow \cup {None}]]
      BY <2>1, <2>2, VersionWriteType
    <3>2. versions' \in {versions, [versions EXCEPT ![req[c].e][req[c].v] =
                                          NewVersion(req[c].source)]}
      BY <1>10 DEF SubmitVersion, InsertVersion
    <3> QED BY <3>1, <3>2
  <2>4. entries' \in [Entries -> EntryRow \cup {None}]
    <3>1. entries[req[c].e] # None =>
              [entries EXCEPT ![req[c].e].status = "draft"] \in [Entries -> EntryRow \cup {None}]
      BY <2>1, EntryWriteType DEF Statuses
    <3>2. \/ entries' = entries
          \/ entries[req[c].e] # None /\ entries' = [entries EXCEPT ![req[c].e].status = "draft"]
      BY <1>10 DEF SubmitVersion, InsertVersion
    <3> QED BY <3>1, <3>2
  <2> QED BY <1>10, <2>3, <2>4, EndType DEF SubmitVersion
<1> QED
  BY <1>1, <1>2, <1>3, <1>4, <1>5, <1>6, <1>7, <1>8, <1>9, <1>10 DEF Submit

\* What a transition writes to a version is a row.
LEMMA ReviewedType ==
    ASSUME NEW row \in VersionRow, NEW r, r.target \in Statuses, r.proof \in Sources \cup {None},
           r.by \in Clients \cup {None}
    PROVE  Reviewed(row, r) \in VersionRow
<1>1. CASE r.target = "rejected"
  BY <1>1 DEF Reviewed, VersionRow, Statuses
<1>2. CASE r.target = "validated"
  BY <1>2 DEF Reviewed, VersionRow, Statuses
<1>3. CASE r.target \in {"approved", "published"}
  BY <1>3 DEF Reviewed, VersionRow, Statuses
<1>4. CASE r.target \notin {"rejected", "validated", "approved", "published"}
  <2>1. Reviewed(row, r) = [row EXCEPT !.status = r.target]
    BY <1>4 DEF Reviewed
  <2> QED BY <2>1 DEF VersionRow
<1> QED BY <1>1, <1>2, <1>3, <1>4

\* A step of a review, of a validation or of a deletion keeps the types.
LEMMA ReviewType ==
    ASSUME TypeOK, NEW c \in Clients, Review(c)
    PROVE  TypeOK'
<1> USE DirectoryAssumption DEF TypeOK
<1>0. req[c] \in Requests
  OBVIOUS
<1>1. ASSUME NEW e \in Entries, NEW v \in Versions, BeginValidate(c, e, v) PROVE TypeOK'
  <2>1. entries[e] \in EntryRow /\ bundles[v] \in Bundle
    BY <1>1 DEF BeginValidate, Live
  <2>2. [at |-> "validating", e |-> e, v |-> v, source |-> bundles[v].source,
         type |-> entries[e].type] \in Requests
    BY <2>1 DEF Requests, EntryRow, Bundle
  <2> QED BY <1>1, <2>2 DEF BeginValidate, Start, Clash
<1>2. ASSUME NEW e \in Entries, NEW v \in Versions, NEW t \in Statuses,
             NEW by \in Clients \cup {None}, BeginReview(c, e, v, t, by)
      PROVE  TypeOK'
  <2>1. [at |-> "transition", e |-> e, v |-> v, target |-> t, proof |-> None, by |-> by]
            \in Requests
    BY DEF Requests
  <2> QED BY <1>2, <2>1 DEF BeginReview, Start, Clash
<1>3. ASSUME NEW e \in Entries, NEW v \in Versions,
             RequestReview(c, e, v) \/ Approve(c, e, v) \/ Reject(c, e, v)
      PROVE  TypeOK'
  BY <1>2, <1>3 DEF RequestReview, Approve, Reject, Statuses
<1>4. ASSUME NEW e \in Entries, NEW v \in Versions, Publish(c, e, v) PROVE TypeOK'
  <2>1. versions[e][v] \in VersionRow
    BY <1>4 DEF Publish, VersionsOf
  <2>2. versions[e][v].approved_by \in Clients \cup {None}
    BY <2>1 DEF VersionRow
  <2> QED BY <1>2, <1>4, <2>2 DEF Publish, Statuses
<1>5. ASSUME NEW ok \in BOOLEAN, EndValidate(c, ok) PROVE TypeOK'
  <2>1. req[c].v \in Versions /\ req[c].source \in Sources
    BY <1>0, <1>5, RequestShapes DEF EndValidate
  <2>2. [req[c] EXCEPT !.at = "validated"] \in Requests
    BY <1>0, <1>5, RequestShapes DEF EndValidate, Requests
  <2>3. req' \in [Clients -> Requests]
    BY <1>5, <2>2, GoType, EndType DEF EndValidate
  <2>4. passed' \subseteq Versions \X Sources
    BY <1>5, <2>1 DEF EndValidate, ValidationRecord
  <2>5. bundles' \in [Versions -> Bundle \cup {None}]
    <3>1. bundles[req[c].v] # None => [bundles[req[c].v] EXCEPT !.active = FALSE] \in Bundle
      BY <2>1 DEF Bundle
    <3> QED BY <1>5, <2>1, <3>1 DEF EndValidate, ValidationRecord
  <2> QED BY <1>5, <2>3, <2>4, <2>5 DEF EndValidate
<1>6. CASE BeginValidated(c)
  <2>1. [at |-> "transition", e |-> req[c].e, v |-> req[c].v, target |-> "validated",
         proof |-> req[c].source, by |-> None] \in Requests
    BY <1>0, <1>6, RequestShapes DEF BeginValidated, Requests, Statuses
  <2> QED BY <1>6, <2>1, GoType, EndType DEF BeginValidated
<1>7. CASE CommitTransition(c)
  <2> DEFINE r == req[c]
  <2>1. /\ r.e \in Entries /\ r.v \in Versions /\ r.target \in Statuses
        /\ r.proof \in Sources \cup {None} /\ r.by \in Clients \cup {None}
    BY <1>0, <1>7, RequestShapes DEF CommitTransition
  <2>2. versions' \in [Entries -> [Versions -> VersionRow \cup {None}]]
    <3>1. ASSUME versions[r.e][r.v] # None
          PROVE  [versions EXCEPT ![r.e][r.v] = Reviewed(versions[r.e][r.v], r)]
                     \in [Entries -> [Versions -> VersionRow \cup {None}]]
      <4>1. versions[r.e][r.v] \in VersionRow
        BY <2>1, <3>1
      <4>2. Reviewed(versions[r.e][r.v], r) \in VersionRow
        BY <2>1, <4>1, ReviewedType
      <4> QED BY <2>1, <4>2, VersionWriteType
    <3>2. \/ versions' = versions
          \/ /\ versions[r.e][r.v] # None
             /\ versions' = [versions EXCEPT ![r.e][r.v] = Reviewed(versions[r.e][r.v], r)]
      BY <1>7 DEF CommitTransition, WriteTransition
    <3> QED BY <3>1, <3>2
  <2>3. entries' \in [Entries -> EntryRow \cup {None}]
    <3>1. ASSUME entries[r.e] # None, NEW p \in Versions \cup {None}
          PROVE  [entries EXCEPT ![r.e].status = r.target, ![r.e].published = p]
                     \in [Entries -> EntryRow \cup {None}]
      BY <2>1, <3>1, EntryWriteType
    <3>2. entries[r.e] # None => entries[r.e].published \in Versions \cup {None}
      BY <2>1 DEF EntryRow
    <3>3. CASE entries[r.e] = None
      BY <1>7, <3>3 DEF CommitTransition, WriteTransition
    <3>4. CASE entries[r.e] # None
      <4>1. PICK p \in Versions \cup {None} :
                entries' = [entries EXCEPT ![r.e].status = r.target, ![r.e].published = p]
        <5>1. (IF r.target = "published" THEN r.v ELSE entries[r.e].published)
                  \in Versions \cup {None}
          BY <2>1, <3>2, <3>4
        <5> QED BY <1>7, <3>4, <5>1 DEF CommitTransition, WriteTransition
      <4> QED BY <3>1, <3>4, <4>1
    <3> QED BY <3>3, <3>4
  <2>4. outrun' \subseteq Entries
    BY <1>7, <2>1 DEF CommitTransition
  <2> QED BY <1>7, <2>2, <2>3, <2>4, EndType DEF CommitTransition
<1>8. ASSUME NEW e \in Entries, Retire(c, e) PROVE TypeOK'
  <2>1. [entries EXCEPT ![e].status = "retired"] \in [Entries -> EntryRow \cup {None}]
    BY <1>8, EntryWriteType DEF Retire, Live, Statuses
  <2> QED BY <1>8, <2>1 DEF Retire, RetireEntry, Clash
<1>9. ASSUME NEW e \in Entries, BeginDelete(c, e) PROVE TypeOK'
  <2>1. [at |-> "delete", e |-> e, kinds |-> VersionsOf(e)] \in Requests
    BY DEF Requests, VersionsOf
  <2> QED BY <1>9, <2>1 DEF BeginDelete, Start, Clash
<1>10. CASE DeleteRows(c)
  <2>1. req[c].e \in Entries
    BY <1>0, <1>10, RequestShapes DEF DeleteRows
  <2>2. [v \in Versions |-> None] \in [Versions -> VersionRow \cup {None}]
    OBVIOUS
  <2> QED BY <1>10, <2>1, <2>2, EndType DEF DeleteRows
<1> QED
  BY <1>1, <1>3, <1>4, <1>5, <1>6, <1>7, <1>8, <1>9, <1>10 DEF Review

\* A step of what uses the directory keeps the types.
LEMMA UseType ==
    ASSUME TypeOK, Use
    PROVE  TypeOK'
<1> USE DirectoryAssumption DEF TypeOK
<1>1. ASSUME NEW e \in Entries, NEW asked \in Versions \cup {None}, RunFunction(e, asked)
      PROVE  TypeOK'
  <2> DEFINE v == Resolved(e, asked)
  <2>1. v \in Versions /\ versions[e][v] \in VersionRow
    BY <1>1 DEF RunFunction, Published, VersionsOf
  <2>2. versions[e][v].source \in Sources
    BY <2>1 DEF VersionRow
  <2>3. [at |-> "queued", v |-> v, source |-> versions[e][v].source] \in JobStates
    BY <2>1, <2>2 DEF JobStates
  <2> QED BY <1>1, <2>3 DEF RunFunction
<1>2. ASSUME NEW v \in Versions, bundles[v] # None
      PROVE  /\ [bundles EXCEPT ![v].active = TRUE] \in [Versions -> Bundle \cup {None}]
             /\ [bundles EXCEPT ![v].active = FALSE] \in [Versions -> Bundle \cup {None}]
  <2>1. bundles[v] \in Bundle
    BY <1>2
  <2>2. [bundles[v] EXCEPT !.active = TRUE] \in Bundle /\ [bundles[v] EXCEPT !.active = FALSE] \in Bundle
    BY <2>1 DEF Bundle
  <2> QED BY <2>2
<1>3. ASSUME NEW e \in Entries, NEW asked \in Versions \cup {None}, StartService(e, asked)
      PROVE  TypeOK'
  <2>1. Resolved(e, asked) \in Versions
    BY <1>3 DEF StartService, Published, VersionsOf
  <2> QED BY <1>2, <1>3, <2>1 DEF StartService
<1>4. ASSUME NEW v \in Versions, StopService(v) PROVE TypeOK'
  BY <1>2, <1>4 DEF StopService
<1>5. ASSUME NEW v \in Versions, NEW s \in Sources, CreateNotebook(v, s) PROVE TypeOK'
  <2>1. [source |-> s, active |-> FALSE] \in Bundle
    BY DEF Bundle
  <2> QED BY <1>5, <2>1 DEF CreateNotebook, SaveBundle, Clash
<1>6. CASE LoadJob
  <2>1. job.v \in Versions /\ job.source \in Sources
    BY <1>6 DEF LoadJob, JobStates
  <2>2. bundles[job.v] # None =>
            [at |-> "loaded", v |-> job.v, source |-> job.source,
             loaded |-> bundles[job.v].source] \in JobStates
    BY <2>1 DEF JobStates, Bundle
  <2> QED BY <1>6, <2>2 DEF LoadJob, JobStates, NoJob
<1>7. ASSUME NEW ok \in BOOLEAN, GateJob(ok) PROVE TypeOK'
  <2>1. job.v \in Versions /\ job.loaded \in Sources /\ [job EXCEPT !.at = "running"] \in JobStates
    BY <1>7 DEF GateJob, JobStates
  <2>2. NoJob \in JobStates
    BY DEF NoJob, JobStates
  <2> QED BY <1>7, <2>1, <2>2, SMTT(30) DEF GateJob
<1>8. CASE EndJob
  BY <1>8 DEF EndJob, JobStates, NoJob
<1> QED BY <1>1, <1>3, <1>4, <1>5, <1>6, <1>7, <1>8 DEF Use

\* The types are an invariant.
LEMMA TypeInit ==
    Init => TypeOK
<1> SUFFICES ASSUME Init PROVE TypeOK
  OBVIOUS
<1>1. Idle \in Requests /\ NoJob \in JobStates
  BY DEF Idle, NoJob, Requests, JobStates
<1>2. [v \in Versions |-> None] \in [Versions -> VersionRow \cup {None}]
  OBVIOUS
<1> QED BY <1>1, <1>2, DirectoryAssumption DEF Init, TypeOK

\* Every step keeps the directory well typed.
LEMMA TypeStep ==
    TypeOK /\ [Next]_vars => TypeOK'
<1> SUFFICES ASSUME TypeOK, [Next]_vars PROVE TypeOK'
  OBVIOUS
<1>1. CASE Next
  BY <1>1, SubmitType, ReviewType, UseType DEF Next
<1>2. CASE UNCHANGED vars
  BY <1>2 DEF vars, TypeOK
<1> QED BY <1>1, <1>2

-----------------------------------------------------------------------------
(* Identity                                                                *)

\* Nobody's request is about an entry yet to come after a step that leaves the
\* rows alone and writes a request about an entry that was created.
LEMMA IdentityByRequest ==
    ASSUME TypeOK, Identity, NEW c \in Clients, NEW r, req' = [req EXCEPT ![c] = r],
           Names(r) => r.e <= born, UNCHANGED <<entries, versions, born>>
    PROVE  Identity'
<1>1. \A d \in Clients : req'[d] = IF d = c THEN r ELSE req[d]
  BY DEF TypeOK
<1>2. \A d \in Clients : Names(req'[d]) => req'[d].e <= born'
  BY <1>1 DEF Identity
<1> QED BY <1>2 DEF Identity

\* The same for a step that writes rows of created entries only.
LEMMA IdentityByRows ==
    ASSUME TypeOK, Identity, NEW c \in Clients, NEW r, req' = [req EXCEPT ![c] = r],
           Names(r) => r.e <= born, born' = born,
           \A e \in Entries : e > born =>
               entries'[e] = None /\ \A v \in Versions : versions'[e][v] = None
    PROVE  Identity'
<1>1. \A d \in Clients : req'[d] = IF d = c THEN r ELSE req[d]
  BY DEF TypeOK
<1>2. \A d \in Clients : Names(req'[d]) => req'[d].e <= born'
  BY <1>1 DEF Identity
<1> QED BY <1>2 DEF Identity

\* An entry with rows has been created.
LEMMA LiveIsBorn ==
    ASSUME TypeOK, Identity, NEW e \in Live
    PROVE  e \in Entries /\ e \in Nat /\ born \in Nat /\ e <= born
  BY DirectoryAssumption DEF TypeOK, Identity, Live, Entries

\* An id that a request carries is a number.
LEMMA RequestEntry ==
    ASSUME TypeOK, NEW c \in Clients, Names(req[c])
    PROVE  req[c].e \in Entries
<1>1. req[c] \in Requests
  BY DEF TypeOK
<1> QED BY <1>1 DEF Requests, Names

\* Submissions ask for and fill only what was created.
LEMMA IdentitySubmit ==
    ASSUME TypeOK, Identity, NEW c \in Clients, Submit(c)
    PROVE  Identity'
<1> USE DirectoryAssumption
<1>0. ~Names(Idle) /\ (Names(req[c]) => req[c].e \in Entries /\ req[c].e <= born)
  BY RequestEntry DEF Names, Idle, Identity
<1>1. ASSUME NEW t \in Types, NEW s \in Sources, SubmitExisting(c, t, s) PROVE Identity'
  <2>1. PICK e \in EntriesByName :
            /\ req' = [req EXCEPT ![c] =
                          [at |-> "recheck", e |-> e, source |-> s, row |-> entries[e]]]
            /\ UNCHANGED <<entries, versions, born>>
    BY <1>1 DEF SubmitExisting, Start
  <2>2. e <= born
    BY LiveIsBorn DEF EntriesByName
  <2> QED BY <2>1, <2>2, IdentityByRequest
<1>2. ASSUME NEW t \in Types, NEW s \in Sources, SubmitNewName(c, t, s) PROVE Identity'
  <2>1. ~Names([at |-> "create", type |-> t, source |-> s])
    BY DEF Names
  <2> QED BY <1>2, <2>1, IdentityByRequest DEF SubmitNewName, Start
<1>3. CASE CreateEntry(c)
  <2>1. \A d \in Clients : Names(req'[d]) => req'[d].e <= born'
    <3>1. ASSUME NEW d \in Clients, d # c, Names(req[d]) PROVE req[d].e <= born + 1
      <4>1. req[d].e \in Entries /\ req[d].e <= born /\ born \in Nat
        BY <3>1, RequestEntry DEF TypeOK, Identity
      <4> QED BY <4>1 DEF Entries
    <3> QED BY <1>3, <3>1 DEF CreateEntry, Go, TypeOK
  <2>2. \A e \in Entries : e > born' => e > born /\ e # born + 1
    BY <1>3 DEF CreateEntry, TypeOK, Entries
  <2>3. \A e \in Entries : e > born' =>
            entries'[e] = None /\ \A v \in Versions : versions'[e][v] = None
    BY <1>3, <2>2 DEF CreateEntry, Identity, TypeOK
  <2> QED BY <2>1, <2>3 DEF Identity
<1>4. CASE SubmitRecheck(c)
  <2>1. Names(req[c]) /\ [req[c] EXCEPT !.at = "verify"].e = req[c].e
    BY <1>4, RequestShapes DEF SubmitRecheck, Names, TypeOK
  <2> QED BY <1>0, <1>4, <2>1, IdentityByRequest DEF SubmitRecheck, Go, End
<1>5. CASE SubmitVerify(c)
  <2>1. Names(req[c]) /\ [req[c] EXCEPT !.at = "rewrite"].e = req[c].e
    BY <1>5, RequestShapes DEF SubmitVerify, Names, TypeOK
  <2> QED BY <1>0, <1>5, <2>1, IdentityByRequest DEF SubmitVerify, Go, End
<1>6. CASE SubmitRewrite(c)
  <2>1. Names(req[c])
    BY <1>6 DEF SubmitRewrite, Names
  <2>2. \A e \in Entries : e > born =>
            entries'[e] = None /\ \A v \in Versions : versions'[e][v] = None
    BY <1>6, <1>0, <2>1 DEF SubmitRewrite, Identity, TypeOK
  <2> QED BY <1>0, <1>6, <2>1, <2>2, IdentityByRows DEF SubmitRewrite, Go, End
<1>7. CASE SubmitNumber(c)
  <2>1. Names(req[c])
    BY <1>7 DEF SubmitNumber, Names
  <2> QED BY <1>0, <1>7, <2>1, IdentityByRequest DEF SubmitNumber, Go, End
<1>8. CASE SubmitBundle(c)
  <2>1. Names(req[c]) /\ [req[c] EXCEPT !.at = "check"].e = req[c].e
    BY <1>8, RequestShapes DEF SubmitBundle, Names, TypeOK
  <2> QED BY <1>0, <1>8, <2>1, IdentityByRequest DEF SubmitBundle, Go
<1>9. CASE SubmitCheck(c)
  <2>1. Names(req[c]) /\ [req[c] EXCEPT !.at = "insert"].e = req[c].e
    BY <1>9, RequestShapes DEF SubmitCheck, Names, TypeOK
  <2> QED BY <1>0, <1>9, <2>1, IdentityByRequest DEF SubmitCheck, Go, End
<1>10. CASE SubmitVersion(c)
  <2>1. Names(req[c])
    BY <1>10 DEF SubmitVersion, Names
  <2>2. \A e \in Entries : e > born => e # req[c].e
    BY <1>0, <2>1 DEF Entries, TypeOK
  <2>3. \A e \in Entries : e > born => entries'[e] = entries[e] /\ versions'[e] = versions[e]
    BY <1>10, <2>2 DEF SubmitVersion, InsertVersion, TypeOK
  <2>4. \A e \in Entries : e > born =>
            entries'[e] = None /\ \A v \in Versions : versions'[e][v] = None
    BY <2>3 DEF Identity
  <2> QED BY <1>0, <1>10, <2>4, IdentityByRows DEF SubmitVersion, End
<1> QED
  BY <1>1, <1>2, <1>3, <1>4, <1>5, <1>6, <1>7, <1>8, <1>9, <1>10 DEF Submit

\* Reviews ask for and fill only what was created.
LEMMA IdentityReview ==
    ASSUME TypeOK, Identity, NEW c \in Clients, Review(c)
    PROVE  Identity'
<1> USE DirectoryAssumption
<1>0. ~Names(Idle) /\ (Names(req[c]) => req[c].e \in Entries /\ req[c].e <= born)
  BY RequestEntry DEF Names, Idle, Identity
<1>1. ASSUME NEW e \in Entries, NEW v \in Versions, BeginValidate(c, e, v) PROVE Identity'
  BY <1>1, LiveIsBorn, IdentityByRequest DEF BeginValidate, Start
<1>2. ASSUME NEW e \in Entries, NEW v \in Versions, NEW t, NEW by, BeginReview(c, e, v, t, by)
      PROVE  Identity'
  BY <1>2, LiveIsBorn, IdentityByRequest DEF BeginReview, Start
<1>3. ASSUME NEW e \in Entries, NEW v \in Versions,
             RequestReview(c, e, v) \/ Approve(c, e, v) \/ Reject(c, e, v) \/ Publish(c, e, v)
      PROVE  Identity'
  BY <1>2, <1>3 DEF RequestReview, Approve, Reject, Publish
<1>4. ASSUME NEW ok \in BOOLEAN, EndValidate(c, ok) PROVE Identity'
  <2>1. Names(req[c]) /\ [req[c] EXCEPT !.at = "validated"].e = req[c].e
    BY <1>4, RequestShapes DEF EndValidate, Names, TypeOK
  <2> QED BY <1>0, <1>4, <2>1, IdentityByRequest DEF EndValidate, Go, End
<1>5. CASE BeginValidated(c)
  <2>1. Names(req[c])
    BY <1>5 DEF BeginValidated, Names
  <2> QED BY <1>0, <1>5, <2>1, IdentityByRequest DEF BeginValidated, Go, End
<1>6. CASE CommitTransition(c)
  <2>1. Names(req[c])
    BY <1>6 DEF CommitTransition, Names
  <2>2. \A e \in Entries : e > born => e # req[c].e
    BY <1>0, <2>1 DEF Entries, TypeOK
  <2>3. \A e \in Entries : e > born => entries'[e] = entries[e] /\ versions'[e] = versions[e]
    BY <1>6, <2>2 DEF CommitTransition, WriteTransition, TypeOK
  <2>4. \A e \in Entries : e > born =>
            entries'[e] = None /\ \A v \in Versions : versions'[e][v] = None
    BY <2>3 DEF Identity
  <2> QED BY <1>0, <1>6, <2>4, IdentityByRows DEF CommitTransition, End
<1>7. ASSUME NEW e \in Entries, Retire(c, e) PROVE Identity'
  <2>1. e \in Nat /\ born \in Nat /\ e <= born
    BY <1>7, LiveIsBorn DEF Retire
  <2>2. \A d \in Entries : d > born => entries'[d] = entries[d]
    BY <1>7, <2>1 DEF Retire, RetireEntry, TypeOK
  <2> QED BY <1>7, <2>2 DEF Retire, Identity
<1>8. ASSUME NEW e \in Entries, BeginDelete(c, e) PROVE Identity'
  BY <1>8, LiveIsBorn, IdentityByRequest DEF BeginDelete, Start
<1>9. CASE DeleteRows(c)
  <2>1. Names(req[c])
    BY <1>9 DEF DeleteRows, Names
  <2>2. \A e \in Entries : e > born =>
            entries'[e] = None /\ \A v \in Versions : versions'[e][v] = None
    BY <1>0, <1>9, <2>1 DEF DeleteRows, Identity, TypeOK
  <2> QED BY <1>0, <1>9, <2>2, IdentityByRows DEF DeleteRows, End
<1> QED
  BY <1>1, <1>3, <1>4, <1>5, <1>6, <1>7, <1>8, <1>9 DEF Review

\* What uses the directory leaves its rows and the requests alone.
LEMMA UseFrame ==
    ASSUME Use
    PROVE  UNCHANGED <<entries, versions, born, req, outrun>>
  BY DEF Use, RunFunction, StartService, StopService, CreateNotebook, LoadJob, GateJob, EndJob

\* Every step asks for and fills only what was created.
LEMMA IdentityStep ==
    ASSUME TypeOK, Identity, [Next]_vars
    PROVE  Identity'
<1>1. ASSUME UNCHANGED <<entries, versions, born, req>> PROVE Identity'
  BY <1>1 DEF Identity
<1>2. CASE UNCHANGED vars
  BY <1>1, <1>2 DEF vars
<1>3. CASE Next
  BY <1>1, <1>3, IdentitySubmit, IdentityReview, UseFrame DEF Next
<1> QED BY <1>2, <1>3

-----------------------------------------------------------------------------
(* Vetting                                                                 *)

\* A step never brings a deleted entry back, takes a version from a live one,
\* or takes away its proof.
RowsKept ==
    \A e \in Entries : e <= born /\ entries'[e] # None =>
        /\ entries[e] # None
        /\ \A v \in VersionsOf(e) :
              /\ versions'[e][v] # None
              /\ versions[e][v].proof # None => versions'[e][v].proof # None

\* The rows of a step that leaves the tables alone are kept.
LEMMA UntouchedKept ==
    ASSUME UNCHANGED <<entries, versions>>
    PROVE  RowsKept
  BY DEF RowsKept, VersionsOf

\* The columns a transition writes, by its target.
LEMMA ReviewedColumns ==
    ASSUME NEW row \in VersionRow, NEW r, r.target \in Statuses
    PROVE  /\ Reviewed(row, r).status = r.target
           /\ Reviewed(row, r).source = row.source
           /\ Reviewed(row, r).proof = IF r.target = "validated" THEN r.proof ELSE row.proof
           /\ r.target \in {"approved", "published"} => Reviewed(row, r).approved_by = r.by
  BY DEF Reviewed, VersionRow, Statuses

\* The row a request is about, when it is there.
LEMMA TransitionShape ==
    ASSUME TypeOK, NEW c \in Clients, req[c].at = "transition"
    PROVE  /\ req[c].e \in Entries
           /\ req[c].v \in Versions
           /\ req[c].target \in Statuses
           /\ req[c].proof \in Sources \cup {None}
           /\ req[c].by \in Clients \cup {None}
           /\ versions[req[c].e][req[c].v] # None => versions[req[c].e][req[c].v] \in VersionRow
<1>1. req[c] \in Requests
  BY DEF TypeOK
<1>2. req[c].e \in Entries /\ req[c].v \in Versions
  BY <1>1, RequestShapes
<1>3. versions[req[c].e][req[c].v] \in VersionRow \cup {None}
  BY <1>2 DEF TypeOK
<1> QED BY <1>1, <1>2, <1>3, RequestShapes

\* The version that a commit writes, and the ones that it leaves alone.
LEMMA CommitVersions ==
    ASSUME TypeOK, NEW c \in Clients, CommitTransition(c), NEW e \in Entries, NEW v \in Versions
    PROVE  versions'[e][v] = IF e = req[c].e /\ v = req[c].v /\ versions[e][v] # None
                             THEN Reviewed(versions[e][v], req[c]) ELSE versions[e][v]
<1>1. req[c].e \in Entries /\ req[c].v \in Versions
  BY TransitionShape DEF CommitTransition
<1>2. versions[req[c].e] \in [Versions -> VersionRow \cup {None}]
  BY <1>1 DEF TypeOK
<1> QED BY <1>1, <1>2 DEF CommitTransition, WriteTransition, TypeOK

\* The same for the entries.
LEMMA CommitEntries ==
    ASSUME TypeOK, NEW c \in Clients, CommitTransition(c), NEW e \in Entries
    PROVE  /\ (entries'[e] = None) <=> (entries[e] = None)
           /\ e # req[c].e => entries'[e] = entries[e]
           /\ e = req[c].e /\ entries[e] # None =>
                  /\ entries'[e].status = req[c].target
                  /\ entries'[e].published =
                        IF req[c].target = "published" THEN req[c].v ELSE entries[e].published
                  /\ entries'[e].type = entries[e].type
<1>1. req[c].e \in Entries /\ entries[e] \in EntryRow \cup {None}
  BY TransitionShape DEF CommitTransition, TypeOK
<1>2. CASE e # req[c].e
  BY <1>1, <1>2 DEF CommitTransition, WriteTransition, TypeOK
<1>3. CASE e = req[c].e /\ entries[e] = None
  BY <1>1, <1>3 DEF CommitTransition, WriteTransition, TypeOK
<1>4. CASE e = req[c].e /\ entries[e] # None
  <2> DEFINE p == IF req[c].target = "published" THEN req[c].v ELSE entries[e].published
             new == [entries[e] EXCEPT !.status = req[c].target, !.published = p]
  <2>1. entries[e] \in EntryRow
    BY <1>1, <1>4
  <2>2. entries'[e] = new
    BY <1>1, <1>4, <2>1 DEF CommitTransition, WriteTransition, TypeOK, EntryRow
  <2>3. req[c].target \in Statuses /\ p \in Versions \cup {None}
    BY <2>1, TransitionShape DEF EntryRow, CommitTransition
  <2>4. new \in EntryRow
    BY <2>1, <2>3 DEF EntryRow
  <2>5. new # None
    BY <2>4, RowsAssumption
  <2>6. new.status = req[c].target /\ new.published = p /\ new.type = entries[e].type
    BY <2>1 DEF EntryRow
  <2> QED BY <1>4, <2>2, <2>5, <2>6
<1> QED BY <1>2, <1>3, <1>4

\* The row that an insertion writes, and the ones that it leaves alone.
LEMMA InsertedVersions ==
    ASSUME TypeOK, NEW c \in Clients, SubmitVersion(c), NEW e \in Entries, NEW v \in Versions
    PROVE  /\ versions'[e][v] = IF e = req[c].e /\ v = req[c].v /\ versions[e][v] = None
                                THEN NewVersion(req[c].source) ELSE versions[e][v]
           /\ NewVersion(req[c].source) \in VersionRow
           /\ NewVersion(req[c].source) # None
<1>1. req[c].e \in Entries /\ req[c].v \in Versions /\ req[c].source \in Sources
  BY RequestShapes DEF SubmitVersion, TypeOK
<1>2. versions[req[c].e] \in [Versions -> VersionRow \cup {None}]
  BY <1>1 DEF TypeOK
<1>3. NewVersion(req[c].source) \in VersionRow
  BY <1>1 DEF NewVersion, VersionRow, Statuses
<1> QED BY <1>1, <1>2, <1>3, RowsAssumption DEF SubmitVersion, InsertVersion, TypeOK

\* Inserting a version touches the status of its entry only.
LEMMA InsertedEntries ==
    ASSUME TypeOK, NEW c \in Clients, SubmitVersion(c), NEW e \in Entries
    PROVE  /\ (entries'[e] = None) <=> (entries[e] = None)
           /\ entries'[e] = entries[e] \/ entries'[e].status = "draft"
           /\ entries[e] # None => entries'[e].type = entries[e].type
<1>1. entries'[e] = entries[e] \/
          (entries[e] # None /\ entries'[e] = [entries[e] EXCEPT !.status = "draft"])
  BY ZenonT(40) DEF SubmitVersion, InsertVersion, TypeOK
<1>2. ASSUME entries[e] # None
      PROVE  /\ [entries[e] EXCEPT !.status = "draft"] # None
             /\ [entries[e] EXCEPT !.status = "draft"].status = "draft"
             /\ [entries[e] EXCEPT !.status = "draft"].type = entries[e].type
  <2>1. entries[e] \in EntryRow
    BY <1>2 DEF TypeOK
  <2>2. [entries[e] EXCEPT !.status = "draft"] \in EntryRow
    BY <2>1 DEF EntryRow, Statuses
  <2> QED BY <2>1, <2>2, RowsAssumption DEF EntryRow
<1> QED BY <1>1, <1>2

\* Submissions lose no row of a live entry and no proof.
LEMMA KeptSubmit ==
    ASSUME TypeOK, Identity, NEW c \in Clients, Submit(c)
    PROVE  RowsKept
<1> USE DirectoryAssumption
<1>1. CASE CreateEntry(c)
  <2>1. \A e \in Entries : e <= born => e # born + 1
    BY DEF Entries, TypeOK
  <2>2. \A e \in Entries : e <= born => entries'[e] = entries[e] /\ versions'[e] = versions[e]
    BY <1>1, <2>1 DEF CreateEntry, TypeOK
  <2> QED BY <2>2 DEF RowsKept, VersionsOf
<1>2. CASE SubmitRewrite(c)
  <2>1. \A e \in Entries : entries'[e] # None => entries[e] # None
    BY <1>2 DEF SubmitRewrite, TypeOK
  <2> QED BY <1>2, <2>1 DEF SubmitRewrite, RowsKept, VersionsOf
<1>3. CASE SubmitVersion(c)
  <2>1. \A e \in Entries : entries'[e] # None => entries[e] # None
    BY <1>3, InsertedEntries
  <2>2. \A e \in Entries : \A v \in VersionsOf(e) : versions'[e][v] = versions[e][v]
    BY <1>3, InsertedVersions DEF VersionsOf
  <2> QED BY <2>1, <2>2 DEF RowsKept, VersionsOf
<1>4. CASE UNCHANGED <<entries, versions>>
  BY <1>4, UntouchedKept
<1>5. \/ CreateEntry(c) \/ SubmitRewrite(c) \/ SubmitVersion(c)
      \/ UNCHANGED <<entries, versions>>
  BY DEF Submit, SubmitExisting, SubmitNewName, SubmitRecheck, SubmitVerify, SubmitNumber,
         SubmitBundle, SubmitCheck
<1> QED BY <1>1, <1>2, <1>3, <1>4, <1>5

\* Reviews lose no row of a live entry and no proof.
LEMMA KeptReview ==
    ASSUME TypeOK, Identity, Vetting, NEW c \in Clients, Review(c)
    PROVE  RowsKept
<1> USE DirectoryAssumption
<1>1. CASE CommitTransition(c)
  <2>1. \A e \in Entries : entries'[e] # None => entries[e] # None
    BY <1>1, CommitEntries
  <2>2. ASSUME NEW e \in Entries, entries[e] # None, NEW v \in VersionsOf(e)
        PROVE  /\ versions'[e][v] # None
               /\ versions[e][v].proof # None => versions'[e][v].proof # None
    <3>1. v \in Versions /\ versions[e][v] \in VersionRow
      BY <2>2 DEF VersionsOf, TypeOK
    <3>2. CASE e = req[c].e /\ v = req[c].v
      <4>1. versions'[e][v] = Reviewed(versions[e][v], req[c])
        BY <1>1, <2>2, <3>1, <3>2, CommitVersions DEF VersionsOf
      <4>2. req[c].at = "transition" /\ req[c].e \in Live
        BY <1>1, <2>2, <3>2 DEF CommitTransition, Live
      <4>3. Reviewed(versions[e][v], req[c]) \in VersionRow
        BY <3>1, <4>2, TransitionShape, ReviewedType
      <4>4. Reviewed(versions[e][v], req[c]).proof =
                IF req[c].target = "validated" THEN req[c].proof ELSE versions[e][v].proof
        BY <3>1, <4>2, TransitionShape, ReviewedColumns
      <4>5. req[c].target = "validated" => req[c].proof # None
        BY <4>2 DEF Vetting, TransitionVetted
      <4> QED BY <4>1, <4>3, <4>4, <4>5, RowsAssumption
    <3>3. CASE ~(e = req[c].e /\ v = req[c].v)
      <4>1. versions'[e][v] = versions[e][v]
        BY <1>1, <3>1, <3>3, CommitVersions
      <4> QED BY <2>2, <4>1 DEF VersionsOf
    <3> QED BY <3>2, <3>3
  <2> QED BY <2>1, <2>2 DEF RowsKept
<1>2. ASSUME NEW e \in Entries, Retire(c, e) PROVE RowsKept
  <2>1. \A d \in Entries : entries'[d] # None => entries[d] # None
    BY <1>2 DEF Retire, RetireEntry, Live, TypeOK
  <2> QED BY <1>2, <2>1 DEF Retire, RowsKept, VersionsOf
<1>3. CASE DeleteRows(c)
  <2>1. req[c].e \in Entries
    BY <1>3, RequestShapes DEF DeleteRows, TypeOK
  <2>2. \A e \in Entries : entries'[e] # None =>
            e # req[c].e /\ entries[e] # None /\ versions'[e] = versions[e]
    BY <1>3, <2>1 DEF DeleteRows, TypeOK
  <2> QED BY <2>2 DEF RowsKept, VersionsOf
<1>4. CASE UNCHANGED <<entries, versions>>
  BY <1>4, UntouchedKept
<1>5. \/ CommitTransition(c) \/ DeleteRows(c)
      \/ \E e \in Entries : Retire(c, e)
      \/ UNCHANGED <<entries, versions>>
  BY ZenonT(40) DEF Review, BeginValidate, RequestReview, Approve, Reject, Publish, BeginReview, EndValidate,
         BeginValidated, BeginDelete
<1> QED BY <1>1, <1>2, <1>3, <1>4, <1>5

\* The rows that a step keeps are all that a transition under way relies on.
LEMMA TransitionStays ==
    ASSUME TypeOK, Identity, Vetting, RowsKept, NEW c \in Clients, req[c].at = "transition",
           req'[c] = req[c]
    PROVE  TransitionVetted(req[c])'
<1>1. /\ Names(req[c]) /\ req[c].e \in Entries /\ req[c].v \in Versions
      /\ req[c].e <= born /\ TransitionVetted(req[c])
  BY TransitionShape DEF Names, Identity, Vetting
<1>2. ASSUME req[c].e \in Live'
      PROVE  /\ req[c].e \in Live /\ req[c].v \in VersionsOf(req[c].e)
             /\ versions'[req[c].e][req[c].v] # None
             /\ versions[req[c].e][req[c].v].proof # None =>
                    versions'[req[c].e][req[c].v].proof # None
  <2>1. req[c].e \in Live
    BY <1>1, <1>2 DEF RowsKept, Live
  <2>2. req[c].v \in VersionsOf(req[c].e)
    BY <1>1, <2>1 DEF TransitionVetted
  <2> QED BY <1>1, <1>2, <2>1, <2>2 DEF RowsKept, Live
<1> QED BY <1>1, <1>2 DEF TransitionVetted, VersionsOf

\* A step that leaves the tables alone keeps Vetting if its own request does.
LEMMA VettingByRequest ==
    ASSUME TypeOK, Identity, Vetting, NEW c \in Clients, NEW r, req' = [req EXCEPT ![c] = r],
           r.at = "transition" => TransitionVetted(r), UNCHANGED <<entries, versions>>
    PROVE  Vetting'
<1>1. \A d \in Clients : req'[d] = IF d = c THEN r ELSE req[d]
  BY DEF TypeOK
<1>2. ASSUME NEW d \in Clients, req'[d].at = "transition" PROVE TransitionVetted(req[d])'
  <2>1. TransitionVetted(req'[d])
    BY <1>1, <1>2 DEF Vetting
  <2> QED BY <2>1 DEF TransitionVetted, Live, VersionsOf
<1>3. (\A e \in Live : \A v \in VersionsOf(e) : RowVetted(versions[e][v]))'
  BY DEF Vetting, RowVetted, Live, VersionsOf
<1> QED BY <1>2, <1>3 DEF Vetting

\* A step that keeps rows and ends or goes on with a request keeps Vetting if
\* the rows it writes are vetted.
LEMMA VettingByRows ==
    ASSUME TypeOK, Identity, Vetting, RowsKept, NEW c \in Clients, NEW r,
           req' = [req EXCEPT ![c] = r], r.at # "transition",
           \A e \in Live' : \A v \in Versions :
               versions'[e][v] # None => RowVetted(versions'[e][v])
    PROVE  Vetting'
<1>1. \A d \in Clients : req'[d] = IF d = c THEN r ELSE req[d]
  BY DEF TypeOK
<1>2. ASSUME NEW d \in Clients, req'[d].at = "transition" PROVE TransitionVetted(req[d])'
  <2>1. req'[d] = req[d] /\ req[d].at = "transition"
    BY <1>1, <1>2
  <2> QED BY <2>1, TransitionStays
<1>3. (\A e \in Live : \A v \in VersionsOf(e) : RowVetted(versions[e][v]))'
  BY DEF RowVetted, Live, VersionsOf
<1> QED BY <1>2, <1>3 DEF Vetting

\* Submissions keep what vetting has established.
LEMMA VettingSubmit ==
    ASSUME TypeOK, Identity, Vetting, NEW c \in Clients, Submit(c)
    PROVE  Vetting'
<1> USE DirectoryAssumption
<1>0. RowsKept /\ Idle.at # "transition"
  BY KeptSubmit DEF Idle
<1>1. CASE CreateEntry(c)
  <2> DEFINE r == [at |-> "bundle", e |-> born + 1, source |-> req[c].source, v |-> 1]
  <2>1. ASSUME NEW e \in Live', NEW v \in Versions, versions'[e][v] # None
        PROVE  RowVetted(versions'[e][v])
    <3>1. e \in Entries /\ versions' = versions /\ e <= born
      BY <1>1, <2>1 DEF CreateEntry, Live, Identity, TypeOK, Entries
    <3>2. entries'[e] = entries[e]
      BY <1>1, <3>1 DEF CreateEntry, Entries, TypeOK
    <3> QED BY <2>1, <3>1, <3>2 DEF Vetting, Live, VersionsOf
  <2>2. req' = [req EXCEPT ![c] = r] /\ r.at # "transition"
    BY <1>1 DEF CreateEntry, Go
  <2> QED BY <1>0, <2>1, <2>2, VettingByRows
<1>2. CASE SubmitRewrite(c)
  <2>1. Live' = Live /\ versions' = versions
    <3>1. req[c].row # None
      BY <1>2, RequestShapes, RowsAssumption DEF SubmitRewrite, TypeOK
    <3> QED BY <1>2, <3>1 DEF SubmitRewrite, Live, TypeOK
  <2>2. \A e \in Live' : \A v \in Versions :
            versions'[e][v] # None => RowVetted(versions'[e][v])
    BY <2>1 DEF Vetting, VersionsOf
  <2>3. [at |-> "number", e |-> req[c].e, source |-> req[c].source].at # "transition"
    OBVIOUS
  <2> QED BY <1>0, <1>2, <2>2, <2>3, VettingByRows DEF SubmitRewrite, Go, End
<1>3. CASE SubmitVersion(c)
  <2>1. ASSUME NEW e \in Live', NEW v \in Versions, versions'[e][v] # None
        PROVE  RowVetted(versions'[e][v])
    <3>1. e \in Entries /\ e \in Live
      BY <1>3, <2>1, InsertedEntries DEF Live
    <3>2. CASE versions'[e][v] = versions[e][v]
      BY <2>1, <3>1, <3>2 DEF Vetting, VersionsOf
    <3>3. CASE versions'[e][v] = NewVersion(req[c].source)
      BY <3>3 DEF RowVetted, NewVersion
    <3> QED BY <1>3, <3>1, <3>2, <3>3, InsertedVersions
  <2> QED BY <1>0, <1>3, <2>1, VettingByRows DEF SubmitVersion, End
<1>4. CASE /\ UNCHANGED <<entries, versions>>
           /\ \E r : req' = [req EXCEPT ![c] = r] /\ r.at # "transition"
  BY <1>4, VettingByRequest
<1>5. CASE \/ \E t \in Types, s \in Sources : SubmitExisting(c, t, s) \/ SubmitNewName(c, t, s)
           \/ SubmitNumber(c)
  <2>1. \E r : req' = [req EXCEPT ![c] = r] /\ r.at # "transition"
    BY <1>0, <1>5 DEF SubmitExisting, SubmitNewName, SubmitNumber, Start, Go, End
  <2> QED BY <1>4, <1>5, <2>1 DEF SubmitExisting, SubmitNewName, SubmitNumber
<1>6. CASE SubmitRecheck(c) \/ SubmitVerify(c) \/ SubmitBundle(c) \/ SubmitCheck(c)
  <2>1. \A a \in {"verify", "rewrite", "check", "insert"} :
            req[c].at \in {"recheck", "verify", "bundle", "check"} =>
                [req[c] EXCEPT !.at = a].at # "transition"
    BY RequestShapes DEF TypeOK
  <2>2. \E r : req' = [req EXCEPT ![c] = r] /\ r.at # "transition"
    BY <1>0, <1>6, <2>1 DEF SubmitRecheck, SubmitVerify, SubmitBundle, SubmitCheck, Go, End
  <2> QED BY <1>4, <1>6, <2>2 DEF SubmitRecheck, SubmitVerify, SubmitBundle, SubmitCheck
<1> QED
  BY <1>1, <1>2, <1>3, <1>5, <1>6 DEF Submit

\* Reviews establish each step of the vetting from the one before.
LEMMA VettingReview ==
    ASSUME TypeOK, Identity, Vetting, NEW c \in Clients, Review(c)
    PROVE  Vetting'
<1> USE DirectoryAssumption
<1>0. RowsKept /\ Idle.at # "transition"
  BY KeptReview DEF Idle
<1>1. ASSUME NEW e \in Entries, NEW v \in Versions, BeginValidate(c, e, v) PROVE Vetting'
  <2> DEFINE r == [at |-> "validating", e |-> e, v |-> v, source |-> bundles[v].source,
                   type |-> entries[e].type]
  <2>1. req' = [req EXCEPT ![c] = r] /\ r.at # "transition"
    BY <1>1 DEF BeginValidate, Start
  <2> QED BY <1>1, <2>1, VettingByRequest DEF BeginValidate
<1>2. ASSUME NEW e \in Entries, NEW v \in Versions, NEW t, NEW by, BeginReview(c, e, v, t, by),
             t # "validated",
             t \in {"pending_review", "approved", "published"} => versions[e][v].proof # None,
             t \in {"approved", "published"} => by \in Admins
      PROVE  Vetting'
  <2> DEFINE r == [at |-> "transition", e |-> e, v |-> v, target |-> t, proof |-> None, by |-> by]
  <2>1. req' = [req EXCEPT ![c] = r] /\ TransitionVetted(r)
    BY <1>2 DEF BeginReview, Start, TransitionVetted
  <2> QED BY <1>2, <2>1, VettingByRequest DEF BeginReview
<1>3. ASSUME NEW e \in Live, NEW v \in VersionsOf(e)
      PROVE  /\ versions[e][v].status \in Required("pending_review") => versions[e][v].proof # None
             /\ versions[e][v].status \in Required("approved") => versions[e][v].proof # None
             /\ versions[e][v].status \in Required("published") =>
                   versions[e][v].proof # None /\ versions[e][v].approved_by \in Admins
  <2>1. RowVetted(versions[e][v])
    BY DEF Vetting
  <2> QED BY <2>1 DEF Required, RowVetted
<1>4. ASSUME NEW e \in Entries, NEW v \in Versions,
             RequestReview(c, e, v) \/ Approve(c, e, v) \/ Reject(c, e, v)
      PROVE  Vetting'
  BY <1>2, <1>3, <1>4 DEF RequestReview, Approve, Reject, BeginReview
<1>5. ASSUME NEW e \in Entries, NEW v \in Versions, Publish(c, e, v) PROVE Vetting'
  BY <1>2, <1>3, <1>5 DEF Publish, BeginReview
<1>6. ASSUME NEW ok \in BOOLEAN, EndValidate(c, ok) PROVE Vetting'
  <2>1. [req[c] EXCEPT !.at = "validated"].at # "transition"
    BY <1>6, RequestShapes DEF EndValidate, TypeOK
  <2> QED BY <1>0, <1>6, <2>1, VettingByRequest DEF EndValidate, Go, End
<1>7. CASE BeginValidated(c)
  <2> DEFINE r == [at |-> "transition", e |-> req[c].e, v |-> req[c].v, target |-> "validated",
                   proof |-> req[c].source, by |-> None]
  <2>1. req[c].source \in Sources /\ req[c].v \in Versions
    BY <1>7, RequestShapes DEF BeginValidated, TypeOK
  <2>2. versions[req[c].e][req[c].v] # None => TransitionVetted(r)
    BY <2>1 DEF TransitionVetted, VersionsOf
  <2> QED BY <1>0, <1>7, <2>2, VettingByRequest DEF BeginValidated, Go, End
<1>8. CASE CommitTransition(c)
  <2>1. ASSUME NEW e \in Live', NEW v \in Versions, versions'[e][v] # None
        PROVE  RowVetted(versions'[e][v])
    <3>1. e \in Entries /\ e \in Live
      BY <1>8, <2>1, CommitEntries DEF Live
    <3>2. CASE versions'[e][v] = versions[e][v]
      BY <2>1, <3>1, <3>2 DEF Vetting, VersionsOf
    <3>3. CASE /\ e = req[c].e /\ v = req[c].v /\ versions[e][v] # None
               /\ versions'[e][v] = Reviewed(versions[e][v], req[c])
      <4>1. TransitionVetted(req[c]) /\ req[c].e \in Live /\ versions[e][v] \in VersionRow
        BY <1>8, <3>1, <3>3, TransitionShape DEF CommitTransition, Vetting
      <4>2. req[c].target \in Statuses
        BY <1>8, TransitionShape DEF CommitTransition
      <4> QED BY <3>3, <4>1, <4>2, ReviewedColumns DEF RowVetted, TransitionVetted
    <3> QED BY <1>8, <3>1, <3>2, <3>3, CommitVersions
  <2> QED BY <1>0, <1>8, <2>1, VettingByRows DEF CommitTransition, End
<1>9. ASSUME NEW e \in Entries, Retire(c, e) PROVE Vetting'
  <2>1. ASSUME NEW d \in Live', NEW v \in Versions, versions'[d][v] # None
        PROVE  RowVetted(versions'[d][v])
    <3>1. d \in Live /\ versions' = versions
      BY <1>9, <2>1 DEF Retire, RetireEntry, Live, TypeOK
    <3> QED BY <2>1, <3>1 DEF Vetting, VersionsOf
  <2>2. req' = [req EXCEPT ![c] = Idle]
    BY <1>9 DEF Retire, TypeOK
  <2> QED BY <1>0, <2>1, <2>2, VettingByRows
<1>10. ASSUME NEW e \in Entries, BeginDelete(c, e) PROVE Vetting'
  <2>1. [at |-> "delete", e |-> e, kinds |-> VersionsOf(e)].at # "transition"
    OBVIOUS
  <2> QED BY <1>10, <2>1, VettingByRequest DEF BeginDelete, Start
<1>11. CASE DeleteRows(c)
  <2>1. req[c].e \in Entries
    BY <1>11, RequestShapes DEF DeleteRows, TypeOK
  <2>2. ASSUME NEW d \in Live', NEW v \in Versions, versions'[d][v] # None
        PROVE  RowVetted(versions'[d][v])
    <3>1. d \in Live /\ versions'[d] = versions[d]
      BY <1>11, <2>1, <2>2 DEF DeleteRows, Live, TypeOK
    <3> QED BY <2>2, <3>1 DEF Vetting, VersionsOf
  <2> QED BY <1>0, <1>11, <2>2, VettingByRows DEF DeleteRows, End
<1> QED
  BY <1>1, <1>4, <1>5, <1>6, <1>7, <1>8, <1>9, <1>10, <1>11 DEF Review

\* Every step keeps what vetting has established.
LEMMA VettingStep ==
    ASSUME TypeOK, Identity, Vetting, [Next]_vars
    PROVE  Vetting'
<1>1. ASSUME UNCHANGED <<entries, versions, req>> PROVE Vetting'
  BY <1>1 DEF Vetting, TransitionVetted, RowVetted, Live, VersionsOf
<1>2. CASE UNCHANGED vars
  BY <1>1, <1>2 DEF vars
<1>3. CASE Next
  BY <1>1, <1>3, VettingSubmit, VettingReview, UseFrame DEF Next
<1> QED BY <1>2, <1>3

-----------------------------------------------------------------------------
(* Routing                                                                 *)

\* The version is published after the step.
StaysPublished(e, v) == versions'[e][v] # None /\ versions'[e][v].status = "published"

\* A step that leaves the tables alone keeps Routing if its own request does.
LEMMA RoutingByRequest ==
    ASSUME TypeOK, Routing, NEW c \in Clients, NEW r, req' = [req EXCEPT ![c] = r],
           r.at \in {"verify", "rewrite"} => RewriteRoutes(r),
           UNCHANGED <<entries, versions, outrun>>
    PROVE  Routing'
<1>1. \A d \in Clients : req'[d] = IF d = c THEN r ELSE req[d]
  BY DEF TypeOK
<1>2. ASSUME NEW d \in Clients, req'[d].at \in {"verify", "rewrite"} PROVE RewriteRoutes(req[d])'
  <2>1. RewriteRoutes(req'[d])
    BY <1>1, <1>2 DEF Routing
  <2> QED BY <2>1 DEF RewriteRoutes, IsPublished, StaysPublished, Live
<1>3. PublishedEntryRoutes'
  BY DEF Routing, PublishedEntryRoutes, Live, Published, VersionsOf
<1> QED BY <1>2, <1>3 DEF Routing

\* A step that writes rows keeps Routing if its entries route and if no
\* submission is left with a version that is no longer published.
LEMMA RoutingByRows ==
    ASSUME TypeOK, Identity, Routing, NEW c \in Clients, NEW r, req' = [req EXCEPT ![c] = r],
           r.at \notin {"verify", "rewrite"},
           \A e \in Live' \ outrun' : entries'[e].status = "published" =>
               entries'[e].published \in Versions /\ StaysPublished(e, entries'[e].published),
           \A d \in Clients \ {c} : \A v \in Versions :
               req[d].at = "rewrite" /\ req[d].row.published = v /\ req[d].e \in Live' \ outrun' =>
                   /\ req[d].e \in Live \ outrun
                   /\ IsPublished(req[d].e, v) => StaysPublished(req[d].e, v)
    PROVE  Routing'
<1>1. \A d \in Clients : req'[d] = IF d = c THEN r ELSE req[d]
  BY DEF TypeOK
<1>2. ASSUME NEW d \in Clients, req'[d].at \in {"verify", "rewrite"} PROVE RewriteRoutes(req[d])'
  <2>1. d # c /\ req'[d] = req[d] /\ RewriteRoutes(req[d])
    BY <1>1, <1>2 DEF Routing
  <2>2. req[d].row \in EntryRow
    BY <1>2, <2>1, RequestShapes DEF TypeOK
  <2>3. ASSUME req[d].at = "rewrite", req[d].row.published # None, req[d].e \in Live' \ outrun'
        PROVE  StaysPublished(req[d].e, req[d].row.published)
    <3>1. req[d].row.published \in Versions
      BY <2>2, <2>3 DEF EntryRow
    <3>2. /\ req[d].e \in Live \ outrun
          /\ IsPublished(req[d].e, req[d].row.published) =>
                StaysPublished(req[d].e, req[d].row.published)
      BY <2>1, <2>3, <3>1
    <3>3. IsPublished(req[d].e, req[d].row.published)
      BY <2>1, <2>3, <3>2 DEF RewriteRoutes
    <3> QED BY <2>1, <3>2, <3>3 DEF IsPublished, StaysPublished
  <2> QED BY <2>1, <2>3 DEF RewriteRoutes, IsPublished, StaysPublished
<1>3. PublishedEntryRoutes'
  <2>1. ASSUME NEW e \in Live' \ outrun', entries'[e].status = "published"
        PROVE  entries'[e].published # None /\ entries'[e].published \in Published(e)'
    <3>1. entries'[e].published \in Versions /\ StaysPublished(e, entries'[e].published)
      BY <2>1
    <3> QED BY <3>1, DirectoryAssumption DEF Published, VersionsOf, IsPublished, StaysPublished, Versions
  <2> QED BY <2>1 DEF PublishedEntryRoutes
<1> QED BY <1>2, <1>3 DEF Routing

\* Submissions keep published entries routable.
LEMMA RoutingSubmit ==
    ASSUME TypeOK, Identity, Routing, NEW c \in Clients, Submit(c)
    PROVE  Routing'
<1> USE DirectoryAssumption
<1>0. Idle.at \notin {"verify", "rewrite"}
  BY DEF Idle
<1>1. CASE CreateEntry(c)
  <2> DEFINE r == [at |-> "bundle", e |-> born + 1, source |-> req[c].source, v |-> 1]
  <2>1. ASSUME NEW e \in Live' \ outrun', entries'[e].status = "published"
        PROVE  entries'[e].published \in Versions /\ StaysPublished(e, entries'[e].published)
    <3>1. e \in Entries /\ e # born + 1
      BY <1>1, <2>1 DEF CreateEntry, Live, NewEntry, TypeOK
    <3>2. entries'[e] = entries[e] /\ versions' = versions /\ e \in Live \ outrun
      BY <1>1, <2>1, <3>1 DEF CreateEntry, Live, TypeOK
    <3> QED BY <2>1, <3>2 DEF Routing, PublishedEntryRoutes, Published, VersionsOf, IsPublished, StaysPublished
  <2>2. ASSUME NEW d \in Clients, req[d].at = "rewrite", req[d].e \in Live' \ outrun'
        PROVE  req[d].e \in Live \ outrun
    <3>1. req[d].e \in Entries /\ req[d].e # born + 1
      BY <2>2, RequestEntry DEF Identity, Names, TypeOK, Entries
    <3> QED BY <1>1, <2>2, <3>1 DEF CreateEntry, Live, TypeOK
  <2>3. req' = [req EXCEPT ![c] = r] /\ r.at \notin {"verify", "rewrite"} /\ versions' = versions
    BY <1>1 DEF CreateEntry, Go
  <2> QED BY <2>1, <2>2, <2>3, RoutingByRows DEF IsPublished, StaysPublished
<1>2. CASE SubmitRecheck(c)
  <2> DEFINE r == [req[c] EXCEPT !.at = "verify"]
  <2>1. r.at = "verify" /\ r.row = req[c].row
    BY <1>2, RequestShapes DEF SubmitRecheck, TypeOK
  <2>2. CASE req' = [req EXCEPT ![c] = Idle]
    BY <1>0, <1>2, <2>2, RoutingByRequest DEF SubmitRecheck
  <2>3. CASE req' # [req EXCEPT ![c] = Idle]
    <3>1. RewriteRoutes(r) /\ req' = [req EXCEPT ![c] = r]
      BY <1>2, <2>1, <2>3 DEF SubmitRecheck, RewriteRoutes, Go, End
    <3> QED BY <1>2, <3>1, RoutingByRequest DEF SubmitRecheck
  <2> QED BY <2>2, <2>3
<1>3. CASE SubmitVerify(c)
  <2> DEFINE r == [req[c] EXCEPT !.at = "rewrite"]
  <2>1. r.at = "rewrite" /\ r.row = req[c].row /\ r.e = req[c].e
    BY <1>3, RequestShapes DEF SubmitVerify, TypeOK
  <2>2. CASE req' = [req EXCEPT ![c] = Idle]
    BY <1>0, <1>3, <2>2, RoutingByRequest DEF SubmitVerify
  <2>3. CASE req' # [req EXCEPT ![c] = Idle]
    <3>1. RewriteRoutes(r) /\ req' = [req EXCEPT ![c] = r]
      BY <1>3, <2>1, <2>3 DEF SubmitVerify, RewriteRoutes, Go, End, Routing
    <3> QED BY <1>3, <3>1, RoutingByRequest DEF SubmitVerify
  <2> QED BY <2>2, <2>3
<1>4. CASE SubmitRewrite(c)
  <2>0. req[c].row \in EntryRow /\ req[c].e \in Entries
    BY <1>4, RequestShapes DEF SubmitRewrite, TypeOK
  <2>1. Live' = Live /\ versions' = versions /\ outrun' = outrun
    BY <1>4, <2>0, RowsAssumption DEF SubmitRewrite, Live, TypeOK
  <2>2. ASSUME NEW e \in Live' \ outrun', entries'[e].status = "published"
        PROVE  entries'[e].published \in Versions /\ StaysPublished(e, entries'[e].published)
    <3>1. CASE entries'[e] = entries[e]
      BY <2>1, <2>2, <3>1 DEF Routing, PublishedEntryRoutes, Published, VersionsOf, IsPublished, StaysPublished
    <3>2. CASE e = req[c].e /\ entries'[e] = req[c].row
      <4>1. RewriteRoutes(req[c])
        BY <1>4 DEF SubmitRewrite, Routing
      <4>2. req[c].row.published # None /\ IsPublished(e, req[c].row.published)
        BY <1>4, <2>1, <2>2, <3>2, <4>1 DEF RewriteRoutes, SubmitRewrite
      <4>3. req[c].row.published \in Versions
        BY <2>0, <4>2 DEF EntryRow
      <4> QED BY <2>1, <3>2, <4>2, <4>3 DEF IsPublished, StaysPublished
    <3> QED BY <1>4, <2>0, <2>2, <3>1, <3>2 DEF SubmitRewrite, Live, TypeOK
  <2>3. [at |-> "number", e |-> req[c].e, source |-> req[c].source].at \notin {"verify", "rewrite"}
    OBVIOUS
  <2>4. PICK r : req' = [req EXCEPT ![c] = r] /\ r.at \notin {"verify", "rewrite"}
    BY <1>0, <1>4, <2>3 DEF SubmitRewrite, Go, End
  <2> QED BY <2>1, <2>2, <2>4, RoutingByRows DEF IsPublished, StaysPublished
<1>5. CASE SubmitVersion(c)
  <2>1. ASSUME NEW e \in Live', NEW v \in Versions, IsPublished(e, v)
        PROVE  StaysPublished(e, v)
    BY <1>5, <2>1, InsertedVersions DEF Live, IsPublished, StaysPublished
  <2>2. \A e \in Entries : (e \in Live' \ outrun') <=> (e \in Live \ outrun)
    BY <1>5, InsertedEntries DEF Live, SubmitVersion
  <2>3. ASSUME NEW e \in Live' \ outrun', entries'[e].status = "published"
        PROVE  entries'[e].published \in Versions /\ StaysPublished(e, entries'[e].published)
    <3>1. e \in Entries /\ entries'[e] = entries[e]
      BY <1>5, <2>3, InsertedEntries DEF Live
    <3>2. entries[e].published \in Versions /\ IsPublished(e, entries[e].published)
      BY <2>2, <2>3, <3>1 DEF Routing, PublishedEntryRoutes, Published, VersionsOf, IsPublished, StaysPublished
    <3> QED BY <2>1, <2>3, <3>1, <3>2 DEF IsPublished, StaysPublished
  <2>4. req' = [req EXCEPT ![c] = Idle]
    BY <1>5 DEF SubmitVersion, End
  <2>5. \A e : e \in Live' => e \in Entries
    BY DEF Live
  <2> QED BY <1>0, <2>1, <2>2, <2>3, <2>4, <2>5, RoutingByRows DEF IsPublished, StaysPublished
<1>6. CASE /\ UNCHANGED <<entries, versions, outrun>>
           /\ \E r : req' = [req EXCEPT ![c] = r] /\ r.at \notin {"verify", "rewrite"}
  BY <1>6, RoutingByRequest
<1>7. CASE \/ \E t \in Types, s \in Sources : SubmitExisting(c, t, s) \/ SubmitNewName(c, t, s)
           \/ SubmitNumber(c)
  <2>1. \E r : req' = [req EXCEPT ![c] = r] /\ r.at \notin {"verify", "rewrite"}
    BY <1>0, <1>7 DEF SubmitExisting, SubmitNewName, SubmitNumber, Start, Go, End
  <2> QED BY <1>6, <1>7, <2>1 DEF SubmitExisting, SubmitNewName, SubmitNumber
<1>8. CASE SubmitBundle(c) \/ SubmitCheck(c)
  <2>1. \A a \in {"check", "insert"} :
            req[c].at \in {"bundle", "check"} =>
                [req[c] EXCEPT !.at = a].at \notin {"verify", "rewrite"}
    BY RequestShapes DEF TypeOK
  <2>2. \E r : req' = [req EXCEPT ![c] = r] /\ r.at \notin {"verify", "rewrite"}
    BY <1>0, <1>8, <2>1 DEF SubmitBundle, SubmitCheck, Go, End
  <2> QED BY <1>6, <1>8, <2>2 DEF SubmitBundle, SubmitCheck
<1> QED
  BY <1>1, <1>2, <1>3, <1>4, <1>5, <1>7, <1>8 DEF Submit

\* Reviews keep published entries routable.
LEMMA RoutingReview ==
    ASSUME TypeOK, Identity, Vetting, Routing, NEW c \in Clients, Review(c)
    PROVE  Routing'
<1> USE DirectoryAssumption
<1>0. Idle.at \notin {"verify", "rewrite"}
  BY DEF Idle
<1>1. CASE CommitTransition(c)
  <2> DEFINE r == req[c]
  <2>0. /\ r.e \in Entries /\ r.v \in Versions /\ r.target \in Statuses /\ r.at = "transition"
        /\ versions[r.e][r.v] # None => versions[r.e][r.v] \in VersionRow
    BY <1>1, TransitionShape DEF CommitTransition
  <2>1. \A e \in Entries : (e \in Live') <=> (e \in Live)
    BY <1>1, CommitEntries DEF Live
  <2>2. ASSUME NEW e \in Live, NEW v \in Versions, IsPublished(e, v), ~StaysPublished(e, v)
        PROVE  e = r.e /\ v = r.v
    BY <1>1, <2>2, CommitVersions DEF IsPublished, StaysPublished, Live
  <2>3. ASSUME NEW e \in Live' \ outrun', entries'[e].status = "published"
        PROVE  entries'[e].published \in Versions /\ StaysPublished(e, entries'[e].published)
    <3>0. e \in Entries /\ e \in Live
      BY <2>1, <2>3 DEF Live
    <3>1. CASE e = r.e
      <4>1. r.target = "published" /\ entries'[e].published = r.v
        BY <1>1, <2>3, <3>0, <3>1, CommitEntries DEF Live
      <4>2. versions[e][r.v] # None
        BY <2>0, <3>0, <3>1 DEF Vetting, TransitionVetted, VersionsOf
      <4>3. versions'[e][r.v] = Reviewed(versions[e][r.v], r)
        BY <1>1, <2>0, <3>1, <4>2, CommitVersions
      <4>4. Reviewed(versions[e][r.v], r) \in VersionRow
        BY <1>1, <2>0, <3>1, <4>2, ReviewedType, TransitionShape
      <4>5. Reviewed(versions[e][r.v], r).status = "published"
        BY <2>0, <3>1, <4>1, <4>2, ReviewedColumns
      <4> QED BY <2>0, <4>1, <4>3, <4>4, <4>5, RowsAssumption DEF IsPublished, StaysPublished
    <3>2. CASE e # r.e
      <4>1. entries'[e] = entries[e]
        BY <1>1, <3>0, <3>2, CommitEntries
      <4>2. e \in Live \ outrun
        BY <1>1, <2>3, <3>0 DEF CommitTransition
      <4>3. entries[e].published \in Versions /\ IsPublished(e, entries[e].published)
        BY <2>3, <4>1, <4>2 DEF Routing, PublishedEntryRoutes, Published, VersionsOf, IsPublished, StaysPublished
      <4>4. StaysPublished(e, entries[e].published)
                \/ e = r.e
        BY <2>2, <3>0, <4>1, <4>3, <3>2, <1>1, CommitVersions DEF IsPublished, StaysPublished
      <4> QED BY <3>2, <4>1, <4>3, <4>4 DEF IsPublished, StaysPublished
    <3> QED BY <3>1, <3>2
  <2>4. ASSUME NEW d \in Clients \ {c}, NEW v \in Versions, req[d].at = "rewrite",
               req[d].row.published = v, req[d].e \in Live' \ outrun'
        PROVE  req[d].e \in Live \ outrun /\ (IsPublished(req[d].e, v) => StaysPublished(req[d].e, v))
    <3>1. req[d].e \in Entries
      BY <2>4, RequestEntry DEF Names
    <3>2. req[d].e \in Live \ outrun
      BY <1>1, <2>1, <2>4, <3>1 DEF CommitTransition
    <3>3. ASSUME req[d].e = r.e, v = r.v, IsPublished(r.e, r.v) PROVE FALSE
      BY <1>1, <2>4, <3>3 DEF CommitTransition, Outruns
    <3> QED BY <2>2, <3>2, <3>3, <2>4, <3>1, <1>1, CommitVersions DEF IsPublished, StaysPublished
  <2>5. req' = [req EXCEPT ![c] = Idle]
    BY <1>1 DEF CommitTransition, End
  <2> QED BY <1>0, <2>3, <2>4, <2>5, RoutingByRows
<1>2. ASSUME NEW e \in Entries, Retire(c, e) PROVE Routing'
  <2>1. Live' = Live /\ versions' = versions /\ outrun' = outrun
    <3>1. entries[e] \in EntryRow
      BY <1>2 DEF Retire, Live, TypeOK
    <3>2. [entries[e] EXCEPT !.status = "retired"] \in EntryRow
      BY <3>1 DEF EntryRow, Statuses
    <3>3. [entries[e] EXCEPT !.status = "retired"] # None
      BY <3>2, RowsAssumption
    <3> QED BY <1>2, <3>3 DEF Retire, RetireEntry, Live, TypeOK
  <2>2. ASSUME NEW d \in Live' \ outrun', entries'[d].status = "published"
        PROVE  entries'[d].published \in Versions /\ StaysPublished(d, entries'[d].published)
    <3>1. d # e
      <4>1. entries[e] \in EntryRow
        BY <1>2 DEF Retire, Live, TypeOK
      <4>2. entries'[e].status = "retired"
        BY <1>2, <4>1 DEF Retire, RetireEntry, TypeOK, EntryRow
      <4> QED BY <2>2, <4>2
    <3>2. entries'[d] = entries[d]
      BY <1>2, <3>1, <2>1 DEF Retire, RetireEntry, Live, TypeOK
    <3> QED BY <2>1, <2>2, <3>2
         DEF Routing, PublishedEntryRoutes, Published, VersionsOf, IsPublished, StaysPublished
  <2>3. req' = [req EXCEPT ![c] = Idle]
    BY <1>2 DEF Retire, TypeOK
  <2> QED BY <1>0, <2>1, <2>2, <2>3, RoutingByRows DEF IsPublished, StaysPublished
<1>3. CASE DeleteRows(c)
  <2>1. req[c].e \in Entries
    BY <1>3, RequestShapes DEF DeleteRows, TypeOK
  <2>2. \A e \in Live' \ outrun' : e \in Live \ outrun /\ entries'[e] = entries[e]
                                   /\ versions'[e] = versions[e]
    BY <1>3, <2>1 DEF DeleteRows, Live, TypeOK
  <2>3. ASSUME NEW d \in Live' \ outrun', entries'[d].status = "published"
        PROVE  entries'[d].published \in Versions /\ StaysPublished(d, entries'[d].published)
    BY <2>2, <2>3 DEF Routing, PublishedEntryRoutes, Published, VersionsOf, IsPublished, StaysPublished
  <2> QED BY <1>0, <1>3, <2>2, <2>3, RoutingByRows, ZenonT(40) DEF IsPublished, StaysPublished, DeleteRows, End
<1>4. CASE /\ UNCHANGED <<entries, versions, outrun>>
           /\ \E r : req' = [req EXCEPT ![c] = r] /\ r.at \notin {"verify", "rewrite"}
  BY <1>4, RoutingByRequest
<1>5. ASSUME NEW e \in Entries, NEW v \in Versions, NEW t, NEW by, BeginReview(c, e, v, t, by)
      PROVE  Routing'
  <2>1. [at |-> "transition", e |-> e, v |-> v, target |-> t, proof |-> None, by |-> by].at
            \notin {"verify", "rewrite"}
    OBVIOUS
  <2> QED BY <1>5, <2>1, RoutingByRequest DEF BeginReview, Start
<1>6. ASSUME NEW ok \in BOOLEAN, EndValidate(c, ok) PROVE Routing'
  <2>1. [req[c] EXCEPT !.at = "validated"].at \notin {"verify", "rewrite"}
    BY <1>6, RequestShapes DEF EndValidate, TypeOK
  <2> QED BY <1>0, <1>6, <2>1, RoutingByRequest DEF EndValidate, Go, End
<1>7. CASE BeginValidated(c)
  <2>1. \E r : req' = [req EXCEPT ![c] = r] /\ r.at \notin {"verify", "rewrite"}
    BY <1>0, <1>7 DEF BeginValidated, Go, End
  <2> QED BY <1>4, <1>7, <2>1 DEF BeginValidated
<1>8. ASSUME NEW e \in Entries, NEW v \in Versions,
             RequestReview(c, e, v) \/ Approve(c, e, v) \/ Reject(c, e, v) \/ Publish(c, e, v)
      PROVE  Routing'
  <2>1. PICK t, by : BeginReview(c, e, v, t, by)
    BY <1>8 DEF RequestReview, Approve, Reject, Publish
  <2> QED BY <1>5, <2>1
<1>9. ASSUME NEW e \in Entries, BeginDelete(c, e)
      PROVE  Routing'
  <2>1. [at |-> "delete", e |-> e, kinds |-> VersionsOf(e)].at
            \notin {"verify", "rewrite"}
    OBVIOUS
  <2> QED BY <1>9, <2>1, RoutingByRequest DEF BeginDelete, Start
<1>10. ASSUME NEW e \in Entries, NEW v \in Versions, BeginValidate(c, e, v)
      PROVE  Routing'
  <2>1. [at |-> "validating", e |-> e, v |-> v, source |-> bundles[v].source,
         type |-> entries[e].type].at
            \notin {"verify", "rewrite"}
    OBVIOUS
  <2> QED BY <1>10, <2>1, RoutingByRequest DEF BeginValidate, Start
<1> QED
  BY <1>1, <1>2, <1>3, <1>6, <1>7, <1>8, <1>9, <1>10 DEF Review

\* Every step keeps published entries routable.
LEMMA RoutingStep ==
    ASSUME TypeOK, Identity, Vetting, Routing, [Next]_vars
    PROVE  Routing'
<1>1. ASSUME UNCHANGED <<entries, versions, req, outrun>> PROVE Routing'
  BY <1>1 DEF Routing, RewriteRoutes, IsPublished, StaysPublished, PublishedEntryRoutes, Live, Published, VersionsOf
<1>2. CASE UNCHANGED vars
  BY <1>1, <1>2 DEF vars
<1>3. CASE Next
  BY <1>1, <1>3, RoutingSubmit, RoutingReview, UseFrame DEF Next
<1> QED BY <1>2, <1>3

-----------------------------------------------------------------------------
(* While requests do not meet                                              *)

\* With one entry at most, whatever has rows is that entry.
LEMMA SoleEntry ==
    ASSUME TypeOK, Identity, born <= 1, NEW e \in Entries, e \in Live \/ VersionsOf(e) # {}
    PROVE  e = 1 /\ born = 1
<1>1. e <= born /\ e \in Nat /\ born \in Nat /\ e >= 1
  BY DirectoryAssumption DEF Identity, Live, VersionsOf, Entries, TypeOK
<1> QED BY <1>1

\* A step after which requests have not met was taken before they had, by the
\* only client with a request.
LEMMA Solo ==
    ASSUME TypeOK, Undisturbed, NEW c \in Clients, Submit(c) \/ Review(c), clashes' = 0
    PROVE  /\ Calm
           /\ OthersIdle(c)
           /\ \A t \in Types, s \in Sources : SubmitNewName(c, t, s) => born = 0
<1>1. Calm
  <2>1. clashes' = clashes \/ \E met : Clash(met)
    BY DEF Submit, Review, SubmitExisting, SubmitNewName, CreateEntry, SubmitRecheck, SubmitVerify,
           SubmitRewrite, SubmitNumber, SubmitBundle, SubmitCheck, SubmitVersion, BeginValidate,
           RequestReview, Approve, Reject, Publish, BeginReview, EndValidate, BeginValidated,
           CommitTransition, Retire, BeginDelete, DeleteRows
  <2> QED BY <2>1, DirectoryAssumption DEF Clash, Calm, TypeOK
<1>2. ASSUME NEW met, Clash(met) PROVE ~met
  BY <1>1, <1>2, DirectoryAssumption DEF Clash, Calm
<1>3. req[c] # Idle => OthersIdle(c)
  BY <1>1 DEF Undisturbed, Alone, OthersIdle
<1>4. req[c] # Idle \/ Clash(~OthersIdle(c)) \/ Clash(~OthersIdle(c) \/ born > 0)
  <2>1. req[c].at # "idle" => req[c] # Idle
    BY DEF Idle
  <2>2. CASE Submit(c)
    <3>1. \/ req[c].at # "idle"
          \/ \E t \in Types, s \in Sources : SubmitExisting(c, t, s) \/ SubmitNewName(c, t, s)
      BY <2>2 DEF Submit, CreateEntry, SubmitRecheck, SubmitVerify, SubmitRewrite, SubmitNumber,
                  SubmitBundle, SubmitCheck, SubmitVersion
    <3> QED BY <2>1, <3>1 DEF SubmitExisting, SubmitNewName
  <2>3. CASE Review(c)
    <3>1. \/ req[c].at # "idle"
          \/ \E e \in Entries : Retire(c, e) \/ BeginDelete(c, e)
          \/ \E e \in Entries, v \in Versions :
                BeginValidate(c, e, v) \/ \E t, by : BeginReview(c, e, v, t, by)
      BY <2>3 DEF Review, RequestReview, Approve, Reject, Publish, EndValidate, BeginValidated,
                  CommitTransition, DeleteRows
    <3> QED BY <2>1, <3>1 DEF Retire, BeginDelete, BeginValidate, BeginReview
  <2> QED BY <2>2, <2>3
<1>5. OthersIdle(c)
  BY <1>2, <1>3, <1>4
<1>6. ASSUME NEW t \in Types, NEW s \in Sources, SubmitNewName(c, t, s) PROVE born = 0
  <2>1. ~(~OthersIdle(c) \/ born > 0)
    BY <1>2, <1>6 DEF SubmitNewName
  <2> QED BY <2>1, DirectoryAssumption DEF TypeOK
<1> QED BY <1>1, <1>5, <1>6

\* What is left to show of a step of the only client with a request.
LEMMA UndisturbedBySolo ==
    ASSUME TypeOK, NEW c \in Clients, OthersIdle(c), NEW r, req' = [req EXCEPT ![c] = r],
           born' <= 1, r.at = "create" => born' = 0, Names(r) => r.e \in Live',
           RequestCurrent(req[c])', JobCurrent',
           \A e \in Entries : \A v \in Versions : versions'[e][v] # None => Bundled(e, v)'
    PROVE  Undisturbed'
<1>1. \A d \in Clients : req'[d] = IF d = c THEN r ELSE Idle
  BY DEF TypeOK, OthersIdle
<1>2. Alone'
  BY <1>1 DEF Alone, Names, Idle
<1>3. ASSUME NEW d \in Clients PROVE RequestCurrent(req[d])'
  BY <1>1 DEF RequestCurrent, Idle
<1>4. (\A e \in Entries : \A v \in VersionsOf(e) : Bundled(e, v))'
  BY DEF VersionsOf
<1> QED BY <1>2, <1>3, <1>4 DEF Undisturbed

\* The same for a step that leaves the tables alone.
LEMMA UndisturbedByRequest ==
    ASSUME TypeOK, Undisturbed, Calm, NEW c \in Clients, OthersIdle(c), NEW r,
           req' = [req EXCEPT ![c] = r], UNCHANGED <<entries, versions, bundles, born, job>>,
           r.at = "create" => born = 0, Names(r) => r.e \in Live, RequestCurrent(r)
    PROVE  Undisturbed'
<1>1. req'[c] = r /\ born' <= 1 /\ (r.at = "create" => born' = 0)
  BY DEF TypeOK, Undisturbed, Alone
<1>2. Names(r) => r.e \in Live'
  BY DEF Live
<1>3. RequestCurrent(req[c])'
  BY <1>1 DEF RequestCurrent, VersionsOf
<1>4. JobCurrent'
  BY DEF Undisturbed, JobCurrent, Live, VersionsOf
<1>5. \A e \in Entries : \A v \in Versions : versions'[e][v] # None => Bundled(e, v)'
  BY DEF Undisturbed, Bundled, VersionsOf
<1> QED BY <1>1, <1>2, <1>3, <1>4, <1>5, UndisturbedBySolo

\* Nothing is asked of a request before its bundle is written, or after its end.
LEMMA CurrentEarly ==
    ASSUME NEW r, r.at \in {"idle", "create", "recheck", "verify", "rewrite", "number", "delete"}
    PROVE  RequestCurrent(r)
  BY DEF RequestCurrent

\* Submissions keep what holds while requests do not meet.
LEMMA UndisturbedSubmit ==
    ASSUME TypeOK, Identity, Undisturbed, NEW c \in Clients, Submit(c)
    PROVE  Undisturbed'
<1> SUFFICES ASSUME clashes' = 0 PROVE Undisturbed'
  BY DEF Undisturbed, Calm
<1> USE DirectoryAssumption
<1>0. /\ Calm /\ OthersIdle(c) /\ Alone /\ JobCurrent /\ RequestCurrent(req[c]) /\ born <= 1
      /\ \A e \in Entries : \A v \in VersionsOf(e) : Bundled(e, v)
      /\ Names(req[c]) => req[c].e \in Live /\ req[c].e \in Entries
  BY Solo DEF Undisturbed, Alone, Live
<1>a. Idle.at = "idle" /\ ~Names(Idle)
  BY DEF Idle, Names
<1>b. ASSUME End(c), UNCHANGED <<entries, versions, bundles, born, job>> PROVE Undisturbed'
  <2>1. RequestCurrent(Idle) /\ Idle.at # "create"
    BY <1>a, CurrentEarly
  <2> QED BY <1>0, <1>a, <1>b, <2>1, UndisturbedByRequest DEF End
<1>1. ASSUME NEW t \in Types, NEW s \in Sources, SubmitExisting(c, t, s) PROVE Undisturbed'
  <2>1. PICK e \in EntriesByName :
            /\ req' = [req EXCEPT ![c] =
                          [at |-> "recheck", e |-> e, source |-> s, row |-> entries[e]]]
            /\ UNCHANGED <<entries, versions, bundles, born, job>>
    BY <1>1 DEF SubmitExisting, Start
  <2> DEFINE r == [at |-> "recheck", e |-> e, source |-> s, row |-> entries[e]]
  <2>2. r.at # "create" /\ r.e \in Live
    BY DEF EntriesByName
  <2>3. RequestCurrent(r)
    BY CurrentEarly
  <2> QED BY <1>0, <2>1, <2>2, <2>3, UndisturbedByRequest
<1>2. ASSUME NEW t \in Types, NEW s \in Sources, SubmitNewName(c, t, s) PROVE Undisturbed'
  <2> DEFINE r == [at |-> "create", type |-> t, source |-> s]
  <2>1. ~Names(r) /\ born = 0
    BY <1>2, Solo DEF Names
  <2>2. RequestCurrent(r)
    BY CurrentEarly
  <2> QED BY <1>0, <1>2, <2>1, <2>2, UndisturbedByRequest DEF SubmitNewName, Start
<1>3. CASE CreateEntry(c)
  <2> DEFINE r == [at |-> "bundle", e |-> born + 1, source |-> req[c].source, v |-> 1]
  <2>1. born = 0 /\ born' = 1 /\ 1 \in Entries /\ 1 \in Versions
    BY <1>0, <1>3 DEF CreateEntry, Alone, Versions
  <2>2. req' = [req EXCEPT ![c] = r] /\ req'[c] = r /\ UNCHANGED <<versions, bundles, job>>
    BY <1>3 DEF CreateEntry, Go, TypeOK
  <2>3. r.e \in Live'
    <3>1. NewEntry(req[c].type, c) \in EntryRow
      BY <1>3, RequestShapes DEF CreateEntry, NewEntry, EntryRow, Statuses, TypeOK
    <3> QED BY <1>3, <2>1, <3>1, RowsAssumption DEF CreateEntry, Live, TypeOK
  <2>4. RequestCurrent(req[c])'
    <3>1. versions[1][1] = None
      BY <2>1 DEF Identity
    <3> QED BY <2>1, <2>2, <3>1 DEF RequestCurrent, VersionsOf
  <2>5. JobCurrent'
    BY <1>0, <2>1, <2>2 DEF JobCurrent
  <2>6. \A e \in Entries : \A v \in Versions : versions'[e][v] # None => Bundled(e, v)'
    BY <1>0, <2>2 DEF Bundled, VersionsOf
  <2>7. r.at # "create" /\ born' <= 1
    BY <2>1
  <2> QED BY <1>0, <2>2, <2>3, <2>4, <2>5, <2>6, <2>7, UndisturbedBySolo
<1>4. ASSUME NEW a, a \in {"verify", "rewrite"}, Go(c, [req[c] EXCEPT !.at = a]),
             req[c].at \in {"recheck", "verify"},
             UNCHANGED <<entries, versions, bundles, born, job>>
      PROVE  Undisturbed'
  <2> DEFINE r == [req[c] EXCEPT !.at = a]
  <2>1. r.at = a /\ r.e = req[c].e /\ Names(req[c])
    BY <1>4, RequestShapes DEF TypeOK, Names
  <2>2. RequestCurrent(r) /\ r.at # "create" /\ r.e \in Live
    <3>1. r.at \in {"verify", "rewrite"} /\ r.e \in Live
      BY <1>0, <1>4, <2>1
    <3> HIDE DEF r
    <3> QED BY <3>1, CurrentEarly
  <2> QED BY <1>0, <1>4, <2>2, UndisturbedByRequest DEF Go
<1>5. CASE SubmitRecheck(c)
  BY <1>b, <1>4, <1>5 DEF SubmitRecheck
<1>6. CASE SubmitVerify(c)
  BY <1>b, <1>4, <1>6 DEF SubmitVerify
<1>7. CASE SubmitRewrite(c)
  <2> DEFINE r == [at |-> "number", e |-> req[c].e, source |-> req[c].source]
  <2>0. req[c].row \in EntryRow /\ Names(req[c])
    BY <1>7, RequestShapes DEF SubmitRewrite, TypeOK, Names
  <2>1. Live' = Live /\ UNCHANGED <<versions, bundles, born, job>>
    BY <1>7, <2>0, RowsAssumption DEF SubmitRewrite, Live, TypeOK
  <2>2. req' = [req EXCEPT ![c] = r] /\ req'[c] = r /\ r.e \in Live'
    BY <1>0, <1>7, <2>0, <2>1 DEF SubmitRewrite, Go, Live, TypeOK
  <2>3. RequestCurrent(req[c])'
    BY <2>2 DEF RequestCurrent
  <2>4. JobCurrent'
    BY <1>0, <2>1 DEF JobCurrent, VersionsOf
  <2>5. \A e \in Entries : \A v \in Versions : versions'[e][v] # None => Bundled(e, v)'
    BY <1>0, <2>1 DEF Bundled, VersionsOf
  <2> QED BY <1>0, <2>1, <2>2, <2>3, <2>4, <2>5, UndisturbedBySolo
<1>8. CASE SubmitNumber(c)
  <2> DEFINE r == [at |-> "bundle", e |-> req[c].e, source |-> req[c].source,
                   v |-> NextVersion(req[c].e)]
  <2>1. CASE End(c)
    BY <1>b, <1>8, <2>1 DEF SubmitNumber
  <2>2. CASE ~End(c)
    <3>1. VersionsOf(req[c].e) # {} /\ req' = [req EXCEPT ![c] = r]
      BY <1>8, <2>2 DEF SubmitNumber, Go
    <3>2. req[c].e \in Live /\ req[c].e \in Entries
      BY <1>0, <1>8 DEF SubmitNumber, Names
    <3>3. Latest(req[c].e) \in Versions /\ \A w \in VersionsOf(req[c].e) : w <= Latest(req[c].e)
      BY <3>1, <3>2, LatestIsVersion DEF VersionsOf
    <3>4. NextVersion(req[c].e) \notin VersionsOf(req[c].e)
      BY <3>3 DEF NextVersion, Versions
    <3>5. RequestCurrent(r) /\ r.at # "create" /\ r.e \in Live
      BY <3>2, <3>4 DEF RequestCurrent
    <3> QED BY <1>0, <1>8, <3>1, <3>5, UndisturbedByRequest DEF SubmitNumber
  <2> QED BY <2>1, <2>2
<1>9. CASE SubmitBundle(c)
  <2> DEFINE r == [req[c] EXCEPT !.at = "check"]
  <2>1. /\ r.at = "check" /\ r.e = req[c].e /\ r.v = req[c].v /\ r.source = req[c].source
        /\ req[c].v \in Versions /\ Names(req[c])
    BY <1>9, RequestShapes DEF SubmitBundle, TypeOK, Names
  <2>2. /\ req' = [req EXCEPT ![c] = r] /\ req'[c] = r /\ r.e \in Live'
        /\ UNCHANGED <<entries, versions, born, job>>
    BY <1>0, <1>9, <2>1 DEF SubmitBundle, Go, TypeOK, Live
  <2>3. \A v \in Versions : bundles'[v] = IF v = r.v THEN [source |-> r.source, active |-> FALSE]
                                          ELSE bundles[v]
    BY <1>9, <2>1 DEF SubmitBundle, SaveBundle, TypeOK
  <2>4. /\ [source |-> r.source, active |-> FALSE] # None
        /\ [source |-> r.source, active |-> FALSE].source = r.source
    <3>1. req[c].source \in Sources
      BY <1>9, RequestShapes DEF SubmitBundle, TypeOK
    <3>2. [source |-> r.source, active |-> FALSE] \in Bundle
      BY <2>1, <3>1 DEF Bundle
    <3> QED BY <3>2, RowsAssumption
  <2>5. RequestCurrent(req[c])'
    BY <2>1, <2>2, <2>3, <2>4 DEF RequestCurrent
  <2>6. r.e = 1 /\ r.v \notin VersionsOf(1)
    BY <1>0, <1>9, <2>1, SoleEntry DEF SubmitBundle, RequestCurrent
  <2>7. JobCurrent'
    <3>1. ASSUME job.at = "queued" PROVE job.v \in Versions /\ job.v # r.v
      BY <1>0, <2>1, <2>6, <3>1 DEF JobCurrent, TypeOK, JobStates
    <3>2. job.at = "queued" => bundles'[job.v] = bundles[job.v]
      BY <2>3, <3>1
    <3> QED BY <1>0, <2>2, <3>2 DEF JobCurrent, Live, VersionsOf
  <2>8. ASSUME NEW e \in Entries, NEW v \in Versions, versions'[e][v] # None
        PROVE  Bundled(e, v)'
    <3>1. v \in VersionsOf(e)
      BY <2>2, <2>8 DEF VersionsOf
    <3>2. e = 1
      BY <1>0, <3>1, SoleEntry
    <3>3. bundles'[v] = bundles[v]
      BY <2>3, <2>6, <3>1, <3>2
    <3> QED BY <1>0, <2>2, <3>1, <3>3 DEF Bundled
  <2> QED BY <1>0, <2>1, <2>2, <2>5, <2>7, <2>8, UndisturbedBySolo
<1>10. CASE SubmitCheck(c)
  <2> DEFINE r == [req[c] EXCEPT !.at = "insert"]
  <2>1. /\ r.at = "insert" /\ r.e = req[c].e /\ r.v = req[c].v /\ r.source = req[c].source
        /\ Names(req[c])
    BY <1>10, RequestShapes DEF SubmitCheck, TypeOK, Names
  <2>2. RequestCurrent(r) /\ r.at # "create" /\ r.e \in Live
    BY <1>0, <1>10, <2>1 DEF RequestCurrent, SubmitCheck
  <2>3. CASE End(c)
    BY <1>b, <1>10, <2>3 DEF SubmitCheck
  <2>4. CASE req' = [req EXCEPT ![c] = r]
    BY <1>0, <1>10, <2>2, <2>4, UndisturbedByRequest DEF SubmitCheck
  <2> QED BY <1>10, <2>3, <2>4 DEF SubmitCheck, Go
<1>11. CASE SubmitVersion(c)
  <2>1. /\ req' = [req EXCEPT ![c] = Idle] /\ req'[c] = Idle
        /\ UNCHANGED <<bundles, born, job>>
    BY <1>11 DEF SubmitVersion, End, TypeOK
  <2>2. RequestCurrent(req[c])'
    BY <2>1 DEF RequestCurrent, Idle
  <2>3. \A e \in Entries : \A v \in VersionsOf(e) : versions'[e][v] = versions[e][v]
    BY <1>11, InsertedVersions DEF VersionsOf
  <2>4. \A e \in Entries : (e \in Live') <=> (e \in Live)
    BY <1>11, InsertedEntries DEF Live
  <2>5. JobCurrent'
    <3>1. 1 \in Entries
      BY DEF Entries
    <3> QED BY <1>0, <2>1, <2>3, <2>4, <3>1 DEF JobCurrent, VersionsOf
  <2>6. ASSUME NEW e \in Entries, NEW v \in Versions, versions'[e][v] # None
        PROVE  Bundled(e, v)'
    <3>1. CASE versions[e][v] # None
      BY <1>0, <2>1, <2>3, <3>1 DEF Bundled, VersionsOf
    <3>2. CASE versions[e][v] = None
      <4>1. v = req[c].v /\ versions'[e][v] = NewVersion(req[c].source)
        BY <1>11, <2>6, <3>2, InsertedVersions
      <4>2. bundles[v] # None /\ bundles[v].source = req[c].source
        BY <1>0, <1>11, <4>1 DEF RequestCurrent, SubmitVersion
      <4> QED BY <2>1, <4>1, <4>2 DEF Bundled, NewVersion
    <3> QED BY <3>1, <3>2
  <2> QED BY <1>0, <1>a, <2>1, <2>2, <2>5, <2>6, UndisturbedBySolo
<1> QED
  BY <1>1, <1>2, <1>3, <1>5, <1>6, <1>7, <1>8, <1>9, <1>10, <1>11 DEF Submit

\* A published version is sent to no review step.
LEMMA PublishedIsFinal ==
    ASSUME NEW t \in {"pending_review", "approved", "rejected", "published", "validated"}
    PROVE  /\ t # "validated" => "published" \notin Required(t)
           /\ ~CanTransition("published", "validated")
  BY DEF Required, CanTransition, Allowed, Statuses

\* Reviews keep what holds while requests do not meet.
LEMMA UndisturbedReview ==
    ASSUME TypeOK, Identity, Undisturbed, NEW c \in Clients, Review(c)
    PROVE  Undisturbed'
<1> SUFFICES ASSUME clashes' = 0 PROVE Undisturbed'
  BY DEF Undisturbed, Calm
<1> USE DirectoryAssumption
<1>0. /\ Calm /\ OthersIdle(c) /\ Alone /\ JobCurrent /\ RequestCurrent(req[c]) /\ born <= 1
      /\ \A e \in Entries : \A v \in VersionsOf(e) : Bundled(e, v)
      /\ Names(req[c]) => req[c].e \in Live /\ req[c].e \in Entries
  BY Solo DEF Undisturbed, Alone, Live
<1>a. Idle.at = "idle" /\ ~Names(Idle)
  BY DEF Idle, Names
<1>b. ASSUME End(c), UNCHANGED <<entries, versions, bundles, born, job>> PROVE Undisturbed'
  <2>1. RequestCurrent(Idle) /\ Idle.at # "create"
    BY <1>a, CurrentEarly
  <2> QED BY <1>0, <1>a, <1>b, <2>1, UndisturbedByRequest DEF End
<1>1. ASSUME NEW e \in Entries, NEW v \in Versions, BeginValidate(c, e, v) PROVE Undisturbed'
  <2> DEFINE r == [at |-> "validating", e |-> e, v |-> v, source |-> bundles[v].source,
                   type |-> entries[e].type]
  <2>1. Bundled(e, v) /\ e \in Live /\ v \in VersionsOf(e)
    BY <1>0, <1>1 DEF BeginValidate
  <2>2. RequestCurrent(r) /\ r.at # "create" /\ r.e \in Live
    BY <2>1 DEF RequestCurrent, Bundled
  <2> QED BY <1>0, <1>1, <2>2, UndisturbedByRequest DEF BeginValidate, Start
<1>2. ASSUME NEW e \in Entries, NEW v \in Versions, NEW by,
             NEW t \in {"pending_review", "approved", "rejected", "published"},
             BeginReview(c, e, v, t, by)
      PROVE  Undisturbed'
  <2> DEFINE r == [at |-> "transition", e |-> e, v |-> v, target |-> t, proof |-> None, by |-> by]
  <2>1. versions[e][v].status # "published" /\ e \in Live
    BY <1>2, PublishedIsFinal DEF BeginReview
  <2>2. RequestCurrent(r) /\ r.at # "create" /\ r.e \in Live
    BY <2>1 DEF RequestCurrent
  <2> QED BY <1>0, <1>2, <2>2, UndisturbedByRequest DEF BeginReview, Start
<1>3. ASSUME NEW e \in Entries, NEW v \in Versions,
             RequestReview(c, e, v) \/ Approve(c, e, v) \/ Reject(c, e, v) \/ Publish(c, e, v)
      PROVE  Undisturbed'
  BY <1>2, <1>3 DEF RequestReview, Approve, Reject, Publish
<1>4. ASSUME NEW ok \in BOOLEAN, EndValidate(c, ok) PROVE Undisturbed'
  <2> DEFINE r == [req[c] EXCEPT !.at = "validated"]
  <2>1. /\ r.at = "validated" /\ r.e = req[c].e /\ r.v = req[c].v /\ r.source = req[c].source
        /\ Names(req[c]) /\ req[c].v \in Versions
    BY <1>4, RequestShapes DEF EndValidate, TypeOK, Names
  <2>2. UNCHANGED <<entries, versions, born, job>>
    BY <1>4 DEF EndValidate
  <2>3. ASSUME NEW v \in Versions
        PROVE  /\ (bundles'[v] = None) <=> (bundles[v] = None)
               /\ bundles[v] # None => bundles'[v].source = bundles[v].source
    <3>1. bundles'[v] = bundles[v] \/
              (bundles[v] # None /\ bundles'[v] = [bundles[v] EXCEPT !.active = FALSE])
      BY <1>4, <2>1, ZenonT(40) DEF EndValidate, ValidationRecord, TypeOK
    <3>2. bundles[v] # None =>
              [bundles[v] EXCEPT !.active = FALSE] \in Bundle
              /\ [bundles[v] EXCEPT !.active = FALSE].source = bundles[v].source
      BY DEF TypeOK, Bundle
    <3> QED BY <3>1, <3>2, RowsAssumption
  <2>4. JobCurrent'
    <3>1. job.at = "queued" => job.v \in Versions
      BY DEF TypeOK, JobStates
    <3> QED BY <1>0, <2>2, <2>3, <3>1 DEF JobCurrent, Live, VersionsOf
  <2>5. \A e \in Entries : \A v \in Versions : versions'[e][v] # None => Bundled(e, v)'
    BY <1>0, <2>2, <2>3 DEF Bundled, VersionsOf
  <2>6. CASE End(c)
    <3>1. req' = [req EXCEPT ![c] = Idle] /\ req'[c] = Idle
      BY <2>6 DEF End, TypeOK
    <3>2. RequestCurrent(req[c])' /\ born' <= 1
      BY <1>0, <2>2, <3>1 DEF RequestCurrent, Idle
    <3> QED BY <1>0, <1>a, <2>4, <2>5, <3>1, <3>2, UndisturbedBySolo
  <2>7. CASE Go(c, r)
    <3>1. req' = [req EXCEPT ![c] = r] /\ req'[c] = r /\ r.e \in Live' /\ born' <= 1
      BY <1>0, <2>1, <2>2, <2>7 DEF Go, TypeOK, Live
    <3>2. RequestCurrent(req[c])'
      BY <1>0, <1>4, <2>1, <2>2, <3>1 DEF RequestCurrent, EndValidate, VersionsOf
    <3>3. r.at # "create"
      BY <2>1
    <3> QED BY <1>0, <2>4, <2>5, <3>1, <3>2, <3>3, UndisturbedBySolo
  <2> QED BY <1>4, <2>6, <2>7 DEF EndValidate
<1>5. CASE BeginValidated(c)
  <2> DEFINE r == [at |-> "transition", e |-> req[c].e, v |-> req[c].v, target |-> "validated",
                   proof |-> req[c].source, by |-> None]
  <2>1. CASE End(c)
    BY <1>b, <1>5, <2>1 DEF BeginValidated
  <2>2. CASE ~End(c)
    <3>1. /\ req' = [req EXCEPT ![c] = r] /\ Names(req[c])
          /\ versions[req[c].e][req[c].v].status # "published"
      BY <1>5, <2>2, PublishedIsFinal DEF BeginValidated, Go, Names
    <3>2. RequestCurrent(r) /\ r.at # "create" /\ r.e \in Live
      BY <1>0, <1>5, <3>1 DEF RequestCurrent, BeginValidated
    <3> QED BY <1>0, <1>5, <3>1, <3>2, UndisturbedByRequest DEF BeginValidated
  <2> QED BY <2>1, <2>2
<1>6. CASE CommitTransition(c)
  <2>1. /\ req' = [req EXCEPT ![c] = Idle] /\ req'[c] = Idle
        /\ UNCHANGED <<bundles, born, job>>
    BY <1>6 DEF CommitTransition, End, TypeOK
  <2>2. RequestCurrent(req[c])' /\ born' <= 1
    BY <1>0, <2>1 DEF RequestCurrent, Idle
  <2>3. ASSUME NEW e \in Entries, NEW v \in Versions
        PROVE  /\ (versions'[e][v] = None) <=> (versions[e][v] = None)
               /\ versions[e][v] # None => versions'[e][v].source = versions[e][v].source
               /\ versions[e][v] # None =>
                      versions'[e][v].proof \in {versions[e][v].proof, versions[e][v].source}
    <3>1. CASE versions'[e][v] = versions[e][v]
      BY <3>1
    <3>2. CASE versions'[e][v] # versions[e][v]
      <4>1. /\ e = req[c].e /\ v = req[c].v /\ versions[e][v] # None
            /\ versions'[e][v] = Reviewed(versions[e][v], req[c])
        BY <1>6, <3>2, CommitVersions
      <4>2. versions[e][v] \in VersionRow /\ req[c].target \in Statuses
        BY <1>6, <4>1, TransitionShape DEF CommitTransition
      <4>3. Reviewed(versions[e][v], req[c]) # None
        BY <1>6, <4>2, ReviewedType, TransitionShape, RowsAssumption DEF CommitTransition
      <4>4. req[c].target = "validated" => req[c].proof = versions[e][v].source
        BY <1>0, <1>6, <4>1 DEF RequestCurrent, CommitTransition
      <4> QED BY <4>1, <4>2, <4>3, <4>4, ReviewedColumns
    <3> QED BY <3>1, <3>2
  <2>4. \A e \in Entries : (e \in Live') <=> (e \in Live)
    BY <1>6, CommitEntries DEF Live
  <2>5. JobCurrent'
    <3>1. 1 \in Entries
      BY DEF Entries
    <3> QED BY <1>0, <2>1, <2>3, <2>4, <3>1 DEF JobCurrent, VersionsOf
  <2>6. \A e \in Entries : \A v \in Versions : versions'[e][v] # None => Bundled(e, v)'
    BY <1>0, <2>1, <2>3 DEF Bundled, VersionsOf
  <2> QED BY <1>0, <1>a, <2>1, <2>2, <2>5, <2>6, UndisturbedBySolo
<1>7. ASSUME NEW e \in Entries, Retire(c, e) PROVE Undisturbed'
  <2>1. /\ req' = [req EXCEPT ![c] = Idle] /\ req'[c] = Idle
        /\ UNCHANGED <<versions, bundles, born, job>>
    BY <1>7 DEF Retire, TypeOK
  <2>2. RequestCurrent(req[c])' /\ born' <= 1
    BY <1>0, <2>1 DEF RequestCurrent, Idle
  <2>3. \A d \in Entries : d \in Live' => d \in Live
    BY <1>7 DEF Retire, RetireEntry, Live, TypeOK
  <2>4. JobCurrent'
    <3>1. 1 \in Entries
      BY DEF Entries
    <3> QED BY <1>0, <2>1, <2>3, <3>1 DEF JobCurrent, VersionsOf
  <2>5. \A d \in Entries : \A v \in Versions : versions'[d][v] # None => Bundled(d, v)'
    BY <1>0, <2>1 DEF Bundled, VersionsOf
  <2> QED BY <1>0, <1>a, <2>1, <2>2, <2>4, <2>5, UndisturbedBySolo
<1>8. ASSUME NEW e \in Entries, BeginDelete(c, e) PROVE Undisturbed'
  <2> DEFINE r == [at |-> "delete", e |-> e, kinds |-> VersionsOf(e)]
  <2>1. r.at # "create" /\ r.e \in Live
    BY <1>8 DEF BeginDelete
  <2>2. RequestCurrent(r)
    BY CurrentEarly
  <2> QED BY <1>0, <1>8, <2>1, <2>2, UndisturbedByRequest DEF BeginDelete, Start
<1>9. CASE DeleteRows(c)
  <2>1. /\ req' = [req EXCEPT ![c] = Idle] /\ req'[c] = Idle /\ UNCHANGED <<born, job>>
        /\ Names(req[c])
    BY <1>9 DEF DeleteRows, End, TypeOK, Names
  <2>2. RequestCurrent(req[c])' /\ born' <= 1
    BY <1>0, <2>1 DEF RequestCurrent, Idle
  <2>3. req[c].e = 1 /\ 1 \in Entries
    BY <1>0, <2>1, SoleEntry
  <2>4. 1 \notin Live'
    BY <1>9, <2>3 DEF DeleteRows, Live, TypeOK
  <2>5. JobCurrent'
    <3>1. job.at = "queued" =>
              job.v \in Versions /\ (bundles'[job.v] # None => bundles'[job.v] = bundles[job.v])
      BY <1>9 DEF TypeOK, JobStates, DeleteRows
    <3> QED BY <1>0, <2>1, <2>4, <3>1 DEF JobCurrent
  <2>6. ASSUME NEW e \in Entries, NEW v \in Versions, versions'[e][v] # None PROVE FALSE
    <3>1. e # 1 /\ versions[e][v] # None
      BY <1>9, <2>3, <2>6 DEF DeleteRows, TypeOK
    <3> QED BY <1>0, <3>1, SoleEntry DEF VersionsOf
  <2> QED BY <1>0, <1>a, <2>1, <2>2, <2>5, <2>6, UndisturbedBySolo
<1> QED
  BY <1>1, <1>3, <1>4, <1>5, <1>6, <1>7, <1>8, <1>9 DEF Review

\* A step of what uses the directory, that leaves the bundles' sources alone.
LEMMA UndisturbedByUse ==
    ASSUME TypeOK, Undisturbed, UNCHANGED <<entries, versions, born, req>>, clashes' = clashes,
           \A v \in Versions : /\ (bundles'[v] = None) <=> (bundles[v] = None)
                               /\ bundles[v] # None => bundles'[v].source = bundles[v].source,
           Calm => JobCurrent'
    PROVE  Undisturbed'
<1> SUFFICES ASSUME Calm PROVE Undisturbed'
  BY DEF Undisturbed, Calm
<1>1. Alone'
  BY DEF Undisturbed, Alone, Names, Live
<1>2. (\A e \in Entries : \A v \in VersionsOf(e) : Bundled(e, v))'
  BY DEF Undisturbed, Bundled, VersionsOf
<1>3. ASSUME NEW c \in Clients PROVE RequestCurrent(req[c])'
  <2>1. RequestCurrent(req[c])
    BY DEF Undisturbed
  <2>2. req[c].at \in {"check", "insert"} => req[c].v \in Versions
    BY RequestShapes DEF TypeOK
  <2> QED BY <2>1, <2>2 DEF RequestCurrent, VersionsOf
<1> QED BY <1>1, <1>2, <1>3 DEF Undisturbed

\* Launches keep what holds while requests do not meet.
LEMMA UndisturbedUse ==
    ASSUME TypeOK, Identity, Undisturbed, Use
    PROVE  Undisturbed'
<1> USE DirectoryAssumption
<1>0. UNCHANGED <<entries, versions, born, req>>
  BY UseFrame
<1>1. ASSUME NEW e \in Entries, NEW asked \in Versions \cup {None}, RunFunction(e, asked)
      PROVE  Undisturbed'
  <2> DEFINE v == Resolved(e, asked)
  <2>1. ASSUME Calm PROVE JobCurrent'
    <3>1. e \in Live /\ v \in VersionsOf(e)
      BY <1>1 DEF RunFunction, EntriesByName, Published
    <3>2. born <= 1 /\ Bundled(e, v)
      BY <2>1, <3>1 DEF Undisturbed, Alone
    <3>3. e = 1 /\ born = 1
      BY <3>1, <3>2, SoleEntry
    <3>4. job' = [at |-> "queued", v |-> v, source |-> versions[e][v].source] /\ bundles' = bundles
      BY <1>1 DEF RunFunction
    <3> QED BY <1>0, <3>1, <3>2, <3>3, <3>4 DEF JobCurrent, Bundled, VersionsOf
  <2> QED BY <1>0, <1>1, <2>1, UndisturbedByUse DEF RunFunction
<1>2. ASSUME NEW v \in Versions, bundles[v] # None, NEW b \in BOOLEAN,
             bundles' = [bundles EXCEPT ![v].active = b], clashes' = clashes, job' = job
      PROVE  Undisturbed'
  <2>1. bundles[v] \in Bundle
    BY <1>2 DEF TypeOK
  <2>2. /\ [bundles[v] EXCEPT !.active = b] \in Bundle
        /\ [bundles[v] EXCEPT !.active = b].source = bundles[v].source
    BY <2>1 DEF Bundle
  <2>3. ASSUME NEW w \in Versions
        PROVE  /\ (bundles'[w] = None) <=> (bundles[w] = None)
               /\ bundles[w] # None => bundles'[w].source = bundles[w].source
    <3>1. bundles'[w] = IF w = v THEN [bundles[v] EXCEPT !.active = b] ELSE bundles[w]
      BY <1>2 DEF TypeOK
    <3> QED BY <1>2, <2>2, <3>1, RowsAssumption
  <2>4. ASSUME Calm PROVE JobCurrent'
    <3>1. job.at = "queued" => job.v \in Versions
      BY DEF TypeOK, JobStates
    <3>2. JobCurrent
      BY <2>4 DEF Undisturbed
    <3> QED BY <1>0, <1>2, <2>3, <3>1, <3>2 DEF JobCurrent, Live, VersionsOf
  <2> QED BY <1>0, <1>2, <2>3, <2>4, UndisturbedByUse
<1>3. ASSUME NEW e \in Entries, NEW asked \in Versions \cup {None}, StartService(e, asked)
      PROVE  Undisturbed'
  <2>1. Resolved(e, asked) \in Versions
    BY <1>3 DEF StartService, Published, VersionsOf
  <2> QED BY <1>2, <1>3, <2>1 DEF StartService
<1>4. ASSUME NEW v \in Versions, StopService(v) PROVE Undisturbed'
  BY <1>2, <1>4 DEF StopService
<1>5. ASSUME NEW v \in Versions, NEW s \in Sources, CreateNotebook(v, s) PROVE Undisturbed'
  <2>1. clashes' # 0
    BY <1>5 DEF CreateNotebook, Clash, TypeOK
  <2> QED BY <2>1 DEF Undisturbed, Calm
<1>6. CASE LoadJob
  <2>1. ASSUME Calm PROVE JobCurrent'
    <3>1. JobCurrent
      BY <2>1 DEF Undisturbed
    <3>2. CASE bundles[job.v] = None
      BY <1>6, <3>2 DEF LoadJob, JobCurrent, NoJob
    <3>3. CASE bundles[job.v] # None
      BY <1>6, <3>1, <3>3 DEF LoadJob, JobCurrent
    <3> QED BY <3>2, <3>3
  <2> QED BY <1>0, <1>6, <2>1, UndisturbedByUse DEF LoadJob
<1>7. ASSUME NEW ok \in BOOLEAN, GateJob(ok) PROVE Undisturbed'
  <2>1. ASSUME Calm PROVE JobCurrent'
    <3>1. JobCurrent /\ job.at = "loaded"
      BY <1>7, <2>1 DEF Undisturbed, GateJob
    <3>2. [job EXCEPT !.at = "running"].at = "running"
          /\ [job EXCEPT !.at = "running"].loaded = job.loaded
          /\ [job EXCEPT !.at = "running"].source = job.source
      BY <3>1 DEF TypeOK, JobStates
    <3>3. job' = NoJob \/ job' = [job EXCEPT !.at = "running"]
      BY <1>7 DEF GateJob
    <3>4. CASE job' = NoJob
      BY <3>4 DEF JobCurrent, NoJob
    <3>5. CASE job' = [job EXCEPT !.at = "running"]
      <4>1. job'.at = "running" /\ job'.loaded = job'.source
        BY <3>1, <3>2, <3>5 DEF JobCurrent
      <4> QED BY <4>1 DEF JobCurrent
    <3> QED BY <3>3, <3>4, <3>5
  <2>2. bundles' = bundles /\ clashes' = clashes
    BY <1>7 DEF GateJob
  <2> QED BY <1>0, <2>1, <2>2, UndisturbedByUse
<1>8. CASE EndJob
  <2>1. JobCurrent'
    BY <1>8 DEF EndJob, JobCurrent, NoJob
  <2> QED BY <1>0, <1>8, <2>1, UndisturbedByUse DEF EndJob
<1> QED BY <1>1, <1>3, <1>4, <1>5, <1>6, <1>7, <1>8 DEF Use

\* Every step keeps what holds while requests do not meet.
LEMMA UndisturbedStep ==
    ASSUME TypeOK, Identity, Undisturbed, [Next]_vars
    PROVE  Undisturbed'
<1>1. CASE UNCHANGED vars
  BY <1>1 DEF vars, Undisturbed, Calm, Alone, Names, Live, Bundled, VersionsOf, RequestCurrent,
              JobCurrent
<1>2. CASE Next
  BY <1>2, UndisturbedSubmit, UndisturbedReview, UndisturbedUse DEF Next
<1> QED BY <1>1, <1>2

-----------------------------------------------------------------------------
(* Theorems                                                                *)

\* The empty directory satisfies the invariant.
LEMMA InvInit ==
    Init => DirInv
<1> SUFFICES ASSUME Init PROVE DirInv
  OBVIOUS
<1>1. Live = {} /\ \A e \in Entries : VersionsOf(e) = {}
  BY DEF Init, Live, VersionsOf
<1>2. \A c \in Clients : req[c] = Idle /\ req[c].at = "idle"
  BY DEF Init, Idle
<1>3. Identity
  BY <1>2 DEF Init, Identity, Names
<1>4. Vetting
  BY <1>1, <1>2 DEF Vetting
<1>5. Routing
  BY <1>1, <1>2 DEF Routing, PublishedEntryRoutes
<1>6. Undisturbed
  <2>1. Alone
    BY <1>2 DEF Init, Alone, Names
  <2>2. \A c \in Clients : RequestCurrent(req[c])
    BY <1>2 DEF RequestCurrent
  <2>3. JobCurrent
    BY DEF Init, JobCurrent, NoJob
  <2> QED BY <1>1, <2>1, <2>2, <2>3 DEF Undisturbed
<1> QED BY <1>3, <1>4, <1>5, <1>6 DEF DirInv

\* Every step keeps the invariant of the directory.
LEMMA InvStep ==
    ASSUME TypeOK, DirInv, [Next]_vars
    PROVE  DirInv'
  BY IdentityStep, VettingStep, RoutingStep, UndisturbedStep DEF DirInv

\* The rows, the requests and the queued job always have the columns and the
\* steps that the tables and the handlers define.
THEOREM DirectoryTyped ==
    Spec => []TypeOK
  BY TypeInit, TypeStep, PTL DEF Spec

\* The four parts of the invariant hold of every state: ids are given out
\* once, the vetting of a row outlives every late write, what a submission
\* writes back routes, and nothing is disturbed while requests do not meet.
THEOREM DirectoryInvariant ==
    Spec => []DirInv
  BY DirectoryTyped, InvInit, InvStep, PTL DEF Spec

\* However requests race, a published version has a validation proof and an
\* administrator approved it: no interleaving of submit, validate, review,
\* approve, publish, retire and delete handlers skips or loses either.
THEOREM PublishedIsVetted ==
    Spec => []PublishedWasVetted
<1>1. DirInv => PublishedWasVetted
  BY DEF DirInv, Vetting, RowVetted, PublishedWasVetted, Published
<1> QED BY <1>1, DirectoryInvariant, PTL

\* An entry shown as published points at a published version, unless a review
\* step committed between a submission's look at the version and its write of
\* the entry.
THEOREM PublishedRoutes ==
    Spec => []PublishedEntryRoutes
<1>1. DirInv => PublishedEntryRoutes
  BY DEF DirInv, Routing
<1> QED BY <1>1, DirectoryInvariant, PTL

\* While requests do not meet and no kind is shared, the bundle of a published
\* version is there and has the source that was submitted and validated.
THEOREM ApprovedIsBundled ==
    Spec => []BundleIsApproved
<1>1. ASSUME DirInv PROVE BundleIsApproved
  <2>1. ASSUME Calm, NEW e \in Live, NEW v \in Published(e)
        PROVE  /\ versions[e][v].proof = versions[e][v].source
               /\ bundles[v] # None
               /\ bundles[v].source = versions[e][v].source
    <3>1. e \in Entries /\ v \in VersionsOf(e) /\ versions[e][v].status = "published"
      BY <2>1 DEF Live, Published
    <3>2. Bundled(e, v)
      BY <1>1, <2>1, <3>1 DEF DirInv, Undisturbed
    <3>3. versions[e][v].proof # None
      BY <1>1, <2>1, <3>1 DEF DirInv, Vetting, RowVetted
    <3> QED BY <3>2, <3>3 DEF Bundled
  <2> QED BY <2>1 DEF BundleIsApproved
<1> QED BY <1>1, DirectoryInvariant, PTL

\* A container starts only on source with a passed validation of its kind, and
\* while requests do not meet on the source its caller resolved.
THEOREM StartsValidated ==
    Spec => ExecutesValidated
<1>1. ASSUME TypeOK, DirInv, [Next]_vars, job.at = "loaded", job'.at = "running"
      PROVE  /\ <<job.v, job.loaded>> \in passed'
             /\ Calm => job.loaded = job.source
  <2>1. job' # job
    BY <1>1
  <2>2. ASSUME NEW c \in Clients, Submit(c) \/ Review(c) PROVE job' = job
    BY <2>2 DEF Submit, Review, SubmitExisting, SubmitNewName, CreateEntry, SubmitRecheck,
                SubmitVerify, SubmitRewrite, SubmitNumber, SubmitBundle, SubmitCheck, SubmitVersion,
                BeginValidate, RequestReview, Approve, Reject, Publish, BeginReview, EndValidate,
                BeginValidated, CommitTransition, Retire, BeginDelete, DeleteRows
  <2>3. PICK ok \in BOOLEAN : GateJob(ok)
    <3>1. Use
      BY <1>1, <2>1, <2>2 DEF Next, vars
    <3>2. ASSUME NEW e \in Entries, NEW v \in Versions \cup {None}, RunFunction(e, v) PROVE FALSE
      BY <1>1, <3>2 DEF RunFunction, NoJob
    <3>3. ~LoadJob /\ ~EndJob
      BY <1>1 DEF LoadJob, EndJob
    <3>4. /\ \A e \in Entries, v \in Versions \cup {None} : ~StartService(e, v)
          /\ \A v \in Versions : ~StopService(v) /\ \A s \in Sources : ~CreateNotebook(v, s)
      BY <2>1 DEF StartService, StopService, CreateNotebook
    <3> QED BY <3>1, <3>2, <3>3, <3>4 DEF Use
  <2>4. <<job.v, job.loaded>> \in passed'
    BY <1>1, <2>3 DEF GateJob, Proven, NoJob
  <2>5. Calm => job.loaded = job.source
    BY <1>1 DEF DirInv, Undisturbed, JobCurrent
  <2> QED BY <2>4, <2>5
<1> QED BY <1>1, DirectoryTyped, DirectoryInvariant, PTL DEF Spec, ExecutesValidated

\* While requests do not meet, no handler changes the row of a published
\* version: it stays as it is until its entry is deleted.
THEOREM PublishedStays ==
    Spec => PublishedImmutable
<1>1. ASSUME TypeOK, DirInv, [Next]_vars, NEW e \in Live, NEW v \in Published(e), clashes' = 0
      PROVE  versions'[e][v] = versions[e][v] \/ entries'[e] = None
  <2>0. e \in Entries /\ v \in Versions /\ versions[e][v] # None
        /\ versions[e][v].status = "published"
    BY DEF Live, Published, VersionsOf
  <2>1. CASE versions' = versions
    BY <2>1
  <2>2. ASSUME NEW c \in Clients, SubmitVersion(c) PROVE versions'[e][v] = versions[e][v]
    BY <1>1, <2>0, <2>2, InsertedVersions
  <2>3. ASSUME NEW c \in Clients, CommitTransition(c) PROVE versions'[e][v] = versions[e][v]
    <3>1. Review(c)
      BY <2>3 DEF Review
    <3>2. Calm
      BY <1>1, <3>1, Solo DEF DirInv
    <3>3. RequestCurrent(req[c]) /\ req[c].at = "transition"
      BY <1>1, <2>3, <3>2 DEF DirInv, Undisturbed, CommitTransition
    <3>4. ~(e = req[c].e /\ v = req[c].v)
      BY <2>0, <3>3 DEF RequestCurrent
    <3> QED BY <1>1, <2>0, <2>3, <3>4, CommitVersions
  <2>4. ASSUME NEW c \in Clients, DeleteRows(c)
        PROVE  versions'[e][v] = versions[e][v] \/ entries'[e] = None
    BY <1>1, <2>0, <2>4 DEF DeleteRows, TypeOK
  <2>5. \/ versions' = versions
        \/ \E c \in Clients : SubmitVersion(c) \/ CommitTransition(c) \/ DeleteRows(c)
    <3>1. ASSUME NEW c \in Clients, Submit(c) PROVE SubmitVersion(c) \/ versions' = versions
      BY <3>1 DEF Submit, SubmitExisting, SubmitNewName, CreateEntry, SubmitRecheck, SubmitVerify,
                  SubmitRewrite, SubmitNumber, SubmitBundle, SubmitCheck
    <3>2. ASSUME NEW c \in Clients, Review(c)
          PROVE  CommitTransition(c) \/ DeleteRows(c) \/ versions' = versions
      BY <3>2 DEF Review, BeginValidate, RequestReview, Approve, Reject, Publish, BeginReview,
                  EndValidate, BeginValidated, Retire, BeginDelete
    <3>3. Use => versions' = versions
      BY UseFrame
    <3> QED BY <1>1, <3>1, <3>2, <3>3 DEF Next, vars
  <2> QED BY <2>1, <2>2, <2>3, <2>4, <2>5
<1>2. ASSUME TypeOK, DirInv, [Next]_vars
      PROVE  \A e \in Live : \A v \in Published(e) :
                 clashes' = 0 => versions'[e][v] = versions[e][v] \/ entries'[e] = None
  BY <1>1, <1>2
<1> QED BY <1>2, DirectoryTyped, DirectoryInvariant, PTL DEF Spec, PublishedImmutable

=============================================================================
