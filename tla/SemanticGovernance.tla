-------------------------- MODULE SemanticGovernance --------------------------
(***************************************************************************)
(* The semantic catalog of one organization and the HTTP handlers that     *)
(* change it (src/worker.js, POST /v1/semantic/...).                       *)
(*                                                                         *)
(* A handler is not atomic.  It reads the role of its user, loads a        *)
(* snapshot of the catalog with its revision, works on the snapshot (for   *)
(* /validate it also waits for the warehouse), and saves the whole catalog *)
(* back under the revision it read.  Any number of handlers do this at     *)
(* once; only the comparison of revisions in the store keeps them apart.   *)
(* The memberships, with the roles they give, change beside them: nothing  *)
(* in the code tells a handler in flight of it.                            *)
(*                                                                         *)
(* A handler that refuses its request (no permission, unknown version,     *)
(* wrong status) answers an error and writes nothing: that is Abandon,     *)
(* and only the accepted cases are actions of their own.                   *)
(***************************************************************************)
EXTENDS Naturals, SequencesExt

CONSTANTS
    Metrics,      \* ids of the metrics of the catalog
    Entities,     \* ids of its entities
    Drafts,       \* the <<metric, definition>> pairs clients may post
    Asked,        \* the versions clients may ask to submit, validate, verify, activate
    Actors,       \* user ids
    Memberships,  \* the roles each actor may be given, as [Actors -> SUBSET Standings]
    Requests,     \* handlers that may be in flight together
    MaxVersion,   \* bound: versions of one metric
    MaxRevision,  \* bound: revision of the catalog
    MaxClock,     \* bound: readings of the clock
    MaxReform,    \* bound: the last revision at which memberships change
    MaxSkew       \* how far the clock of an isolate may lag behind

ASSUME MaxVersionAssumption == MaxVersion \in Nat \ {0}

VARIABLES
    catalog,      \* the stored catalog
    revision,     \* its revision
    request,      \* what each handler holds between two of its awaits
    clock,        \* the time, advanced whenever a validation reads it
    role,         \* organization_memberships: the role of each actor, or none
    overtaken     \* history: the requests in flight whose actor's role changed

vars == <<catalog, revision, request, clock, role, overtaken>>

-----------------------------------------------------------------------------
(***************************************************************************)
(* Definitions, versions, catalogs.                                        *)
(*                                                                         *)
(* Of a definition we keep what decides whether it compiles: the entity it *)
(* counts, whether its source is the configured table, and, for a ratio,   *)
(* the two metrics it divides (<<>> for a count).                          *)
(***************************************************************************)
Definition ==
    [entity: Entities, allowlisted: BOOLEAN, ratio: {<<>>} \cup (Metrics \X Metrics)]

IsRatio(d) == d.ratio # <<>>

\* What validateMetricDefinition accepts.
ValidDefinition(d) ==
    /\ d \in Definition
    /\ IsRatio(d) => d.ratio[1] # d.ratio[2]

Roles == {"viewer", "analyst", "metric_editor", "metric_approver", "organization_admin"}

Editors == {"metric_editor", "organization_admin"}
Approvers == {"metric_approver", "organization_admin"}

\* The roles that hold the permission each operation asks for.
Permitted(action) ==
    IF action \in {"verified", "activated"} THEN Approvers ELSE Editors

\* What organization_memberships says of an actor: an active role, or none.
Standings == Roles \cup {"none"}

ASSUME MembershipsAssumption ==
    \A actor \in Actors : Memberships[actor] \subseteq Standings

VersionIds == Metrics \X (1..MaxVersion)

ASSUME AskedAssumption == Asked \subseteq VersionIds

Statuses == {"absent", "draft", "in_review", "verified", "active", "superseded"}

AuditActions == {"draft_created", "submitted", "validated", "verified", "activated"}

Run == [passed: BOOLEAN, createdAt: Nat]

Event == [actor: Actors, action: AuditActions, version: VersionIds]

Catalog ==
    [status: [VersionIds -> Statuses],
     definition: [VersionIds -> Definition],
     runs: [VersionIds -> Seq(Run)],
     audit: Seq(Event)]

Idle == [pc |-> "idle"]

Request ==
    {Idle}
    \cup [pc: {"loading"}, actor: Actors, role: Roles]
    \cup [pc: {"validating"}, actor: Actors, expected: Nat, catalog: Catalog,
          version: VersionIds, now: Nat]
    \cup [pc: {"saving"}, actor: Actors, expected: Nat, catalog: Catalog]

-----------------------------------------------------------------------------
(***************************************************************************)
(* Reading a catalog.                                                      *)
(***************************************************************************)
Exists(c, v) == c.status[v] # "absent"

IsActive(c, v) == c.status[v] = "active"

\* getActiveMetricVersion: the one active version of a metric.
ActiveVersion(c, m) == CHOOSE v \in VersionIds : v[1] = m /\ IsActive(c, v)

\* The number createMetricDraft gives the next draft of a metric.
NextNumber(c, m) == Max({0} \cup {n \in 1..MaxVersion : Exists(c, <<m, n>>)}) + 1

\* validateSemanticCatalog: valid definitions, one active version per metric.
ValidCatalog(c) ==
    /\ \A v \in VersionIds : Exists(c, v) => ValidDefinition(c.definition[v])
    /\ \A m \in Metrics : \E v \in VersionIds :
           /\ v[1] = m /\ IsActive(c, v)
           /\ \A w \in VersionIds : (w[1] = m /\ IsActive(c, w)) => w = v

\* The definition a ratio would find for one of its components while version
\* v is previewed: previewMetricVersion makes v the active one of its metric.
Component(c, v, m) ==
    IF m = v[1] THEN c.definition[v] ELSE c.definition[ActiveVersion(c, m)]

\* buildQueryPlan and compileQuery accept version v.
Compiles(c, v) ==
    LET d == c.definition[v] IN
    IF IsRatio(d)
    THEN \A m \in {d.ratio[1], d.ratio[2]} :
            /\ ~IsRatio(Component(c, v, m))
            /\ Component(c, v, m).entity = d.entity
            /\ Component(c, v, m).allowlisted
    ELSE d.allowlisted

\* latestValidation: newest createdAt first; the sort is stable, so of two
\* equal times the run attached first is taken.
IsLatest(runs, i) ==
    /\ i \in DOMAIN runs
    /\ \A j \in DOMAIN runs :
           \/ runs[j].createdAt < runs[i].createdAt
           \/ runs[j].createdAt = runs[i].createdAt /\ i <= j

\* Mutant: any passed run will do.
AnyPassed(c, v) == \E i \in DOMAIN c.runs[v] : c.runs[v][i].passed

LatestPassed(c, v) ==
    \E i \in DOMAIN c.runs[v] : IsLatest(c.runs[v], i) /\ c.runs[v][i].passed

-----------------------------------------------------------------------------
(***************************************************************************)
(* The catalog each operation computes from the snapshot it loaded.        *)
(***************************************************************************)
Audited(c, actor, action, v) ==
    Append(c.audit, [actor |-> actor, action |-> action, version |-> v])

Drafted(c, actor, v, d) ==
    [c EXCEPT !.status[v] = "draft",
              !.definition[v] = d,
              !.audit = Audited(c, actor, "draft_created", v)]

Submitted(c, actor, v) ==
    [c EXCEPT !.status[v] = "in_review",
              !.audit = Audited(c, actor, "submitted", v)]

Validated(c, actor, v, passed, time) ==
    [c EXCEPT !.runs[v] = Append(@, [passed |-> passed, createdAt |-> time]),
              !.audit = Audited(c, actor, "validated", v)]

\* Mutant: verifying leaves no audit event.
VerifiedUnaudited(c, actor, v) == [c EXCEPT !.status[v] = "verified"]

Verified(c, actor, v) ==
    [c EXCEPT !.status[v] = "verified",
              !.audit = Audited(c, actor, "verified", v)]

\* Mutant: activating forgets to supersede the active version.
ActivatedBeside(c, actor, v) ==
    [c EXCEPT !.status[v] = "active", !.audit = Audited(c, actor, "activated", v)]

\* Mutant: activating marks the replaced version with a status nothing reads.
ActivatedDeprecating(c, actor, v) ==
    [c EXCEPT !.status = [w \in VersionIds |->
                             IF w = v THEN "active"
                             ELSE IF w[1] = v[1] /\ IsActive(c, w) THEN "deprecated"
                             ELSE c.status[w]],
              !.audit = Audited(c, actor, "activated", v)]

Activated(c, actor, v) ==
    [c EXCEPT !.status = [w \in VersionIds |->
                             IF w = v THEN "active"
                             ELSE IF w[1] = v[1] /\ IsActive(c, w) THEN "superseded"
                             ELSE c.status[w]],
              !.audit = Audited(c, actor, "activated", v)]

-----------------------------------------------------------------------------
(***************************************************************************)
(* The handlers.                                                           *)
(***************************************************************************)

\* The seed catalog every store starts from: version 1 of each metric is
\* active and counts the first entity.
Seed(entity) ==
    [status |-> [v \in VersionIds |-> IF v[2] = 1 THEN "active" ELSE "absent"],
     definition |-> [v \in VersionIds |->
                        [entity |-> entity, allowlisted |-> TRUE, ratio |-> <<>>]],
     runs |-> [v \in VersionIds |-> <<>>],
     audit |-> <<>>]

Init ==
    /\ \E entity \in Entities : catalog = Seed(entity)
    /\ revision = 1
    /\ request = [r \in Requests |-> Idle]
    /\ clock = 0
    /\ role \in [Actors -> Standings]
    /\ \A actor \in Actors : role[actor] \in Memberships[actor]
    /\ overtaken = {}

\* An administrator gives an actor another role, or ends its membership.
ChangeMembership(actor) ==
    /\ revision <= MaxReform
    /\ \E standing \in Memberships[actor] \ {role[actor]} :
           role' = [role EXCEPT ![actor] = standing]
    /\ overtaken' = overtaken \cup
           {r \in Requests : request[r] # Idle /\ request[r].actor = actor}
    /\ UNCHANGED <<catalog, revision, request, clock>>

\* Mutant: the membership is taken from a cache that no change invalidates.
AuthenticateCached(r, actor) ==
    /\ request[r] = Idle
    /\ revision < MaxRevision
    /\ \E standing \in Memberships[actor] \ {"none"} :
           request' = [request EXCEPT ![r] =
               [pc |-> "loading", actor |-> actor, role |-> standing]]
    /\ UNCHANGED <<catalog, revision, clock, role, overtaken>>

\* authenticateRequest: the role of the actor is read once, before the catalog
\* is loaded, and kept for the rest of the request.
Authenticate(r, actor) ==
    /\ request[r] = Idle
    /\ revision < MaxRevision
    /\ role[actor] # "none"
    /\ request' = [request EXCEPT ![r] =
           [pc |-> "loading", actor |-> actor, role |-> role[actor]]]
    /\ UNCHANGED <<catalog, revision, clock, role, overtaken>>

\* authorize: the catalog is being loaded, and the role read permits the action.
Authorized(r, action) ==
    /\ request[r].pc = "loading"
    /\ request[r].role \in Permitted(action)

\* A handler has loaded the catalog and computed candidate from it; the await
\* of save is what others may overtake.
Hold(r, candidate) ==
    /\ request' = [request EXCEPT ![r] =
           [pc |-> "saving", actor |-> request[r].actor,
            expected |-> revision, catalog |-> candidate]]
    /\ UNCHANGED <<catalog, revision, clock, role, overtaken>>

CreateDraft(r, m, d) ==
    LET v == <<m, NextNumber(catalog, m)>> IN
    /\ Authorized(r, "draft_created")
    /\ v \in VersionIds
    /\ ~Exists(catalog, v)          \* assertUniqueIds
    /\ ValidDefinition(d)
    /\ Hold(r, Drafted(catalog, request[r].actor, v, d))

\* Mutant: a verified version may be submitted again.
SubmitAgain(r, v) ==
    /\ Authorized(r, "submitted")
    /\ catalog.status[v] \in {"draft", "verified"}
    /\ Hold(r, Submitted(catalog, request[r].actor, v))

Submit(r, v) ==
    /\ Authorized(r, "submitted")
    /\ catalog.status[v] = "draft"
    /\ Hold(r, Submitted(catalog, request[r].actor, v))

Verify(r, v) ==
    /\ Authorized(r, "verified")
    /\ catalog.status[v] = "in_review"
    /\ LatestPassed(catalog, v)
    /\ Hold(r, Verified(catalog, request[r].actor, v))

Activate(r, v) ==
    /\ Authorized(r, "activated")
    /\ catalog.status[v] = "verified"
    /\ Hold(r, Activated(catalog, request[r].actor, v))

\* /validate: the preview of v compiles; the handler reads the clock of its
\* isolate, which may lag, and sends the query to the warehouse.  Two handlers
\* never read the same instant: a load over the network lies between them.
StartValidation(r, v) ==
    /\ Authorized(r, "validated")
    /\ Exists(catalog, v)
    /\ Compiles(catalog, v)
    /\ clock < MaxClock
    /\ \E now \in 0..clock :
           /\ now + MaxSkew >= clock
           /\ request' = [request EXCEPT ![r] =
                  [pc |-> "validating", actor |-> request[r].actor, expected |-> revision,
                   catalog |-> catalog, version |-> v, now |-> now]]
    /\ clock' = clock + 1
    /\ UNCHANGED <<catalog, revision, role, overtaken>>

\* Mutant: the run is attached to a fresh catalog instead of the snapshot.
FinishValidationReloading(r) ==
    /\ request[r].pc = "validating"
    /\ \E passed \in BOOLEAN :
           request' = [request EXCEPT ![r] =
               [pc |-> "saving", actor |-> request[r].actor,
                expected |-> revision,
                catalog |-> Validated(catalog, request[r].actor,
                                      request[r].version, passed, request[r].now)]]
    /\ UNCHANGED <<catalog, revision, clock, role, overtaken>>

\* Mutant: the snapshot is saved under a fresh revision.
FinishValidationRebasing(r) ==
    /\ request[r].pc = "validating"
    /\ \E passed \in BOOLEAN :
           request' = [request EXCEPT ![r] =
               [pc |-> "saving", actor |-> request[r].actor,
                expected |-> revision,
                catalog |-> Validated(request[r].catalog, request[r].actor,
                                      request[r].version, passed, request[r].now)]]
    /\ UNCHANGED <<catalog, revision, clock, role, overtaken>>

\* The warehouse answers; the run passes unless it misses an expected value.
FinishValidation(r) ==
    /\ request[r].pc = "validating"
    /\ \E passed \in BOOLEAN :
           request' = [request EXCEPT ![r] =
               [pc |-> "saving", actor |-> request[r].actor,
                expected |-> request[r].expected,
                catalog |-> Validated(request[r].catalog, request[r].actor,
                                      request[r].version, passed, request[r].now)]]
    /\ UNCHANGED <<catalog, revision, clock, role, overtaken>>

\* Mutant: UPDATE without the comparison of revisions.
SaveBlindly(r) ==
    /\ request[r].pc = "saving"
    /\ ValidCatalog(request[r].catalog)
    /\ catalog' = request[r].catalog
    /\ revision' = revision + 1
    /\ request' = [request EXCEPT ![r] = Idle]
    /\ overtaken' = overtaken \ {r}
    /\ UNCHANGED <<clock, role>>

\* save: UPDATE ... SET revision = revision + 1 WHERE revision = expected.
Save(r) ==
    /\ request[r].pc = "saving"
    /\ ValidCatalog(request[r].catalog)
    /\ request[r].expected = revision
    /\ catalog' = request[r].catalog
    /\ revision' = revision + 1
    /\ request' = [request EXCEPT ![r] = Idle]
    /\ overtaken' = overtaken \ {r}
    /\ UNCHANGED <<clock, role>>

\* The request ends without a write: a refusal, 409 SEMANTIC_REVISION_CONFLICT,
\* a warehouse error, a rejected candidate, or an isolate that is evicted.
Abandon(r) ==
    /\ request[r] # Idle
    /\ request' = [request EXCEPT ![r] = Idle]
    /\ overtaken' = overtaken \ {r}
    /\ UNCHANGED <<catalog, revision, clock, role>>

Next ==
    \/ \E actor \in Actors : ChangeMembership(actor)
    \/ \E r \in Requests :
          \/ \E actor \in Actors : Authenticate(r, actor)
          \/ \E draft \in Drafts : CreateDraft(r, draft[1], draft[2])
          \/ \E v \in Asked :
                \/ Submit(r, v)
                \/ Verify(r, v)
                \/ Activate(r, v)
                \/ StartValidation(r, v)
          \/ FinishValidation(r)
          \/ Save(r)
          \/ Abandon(r)

Spec == Init /\ [][Next]_vars

-----------------------------------------------------------------------------
(***************************************************************************)
(* Properties.                                                             *)
(***************************************************************************)
TypeOK ==
    /\ catalog \in Catalog
    /\ revision \in Nat
    /\ request \in [Requests -> Request]
    /\ clock \in Nat
    /\ role \in [Actors -> Standings]
    /\ overtaken \subseteq Requests

\* The catalogs that some handler may still write to the store.
Held == {request[r].catalog : r \in {s \in Requests : request[s].pc \in {"validating", "saving"}}}

\* No operation ever computes a catalog the validator would reject: whatever
\* the interleaving, the stored catalog and every candidate on its way to the
\* store have valid definitions and exactly one active version per metric.
OneActiveVersion == \A c \in {catalog} \cup Held : ValidCatalog(c)

\* Store revisions prevent lost updates: each commit adds one audit event and
\* one revision, so a commit that overwrote another would leave the log short.
NoLostUpdate == Len(catalog.audit) = revision - 1

\* Nothing that was recorded is forgotten or rewritten: no step removes or
\* changes an audit event or a validation run, nor the definition of an
\* existing version ("verified versions are never edited in place").
HistoryKept ==
    [][/\ IsPrefix(catalog.audit, catalog'.audit)
       /\ \A v \in VersionIds :
             /\ IsPrefix(catalog.runs[v], catalog'.runs[v])
             /\ Exists(catalog, v) => /\ Exists(catalog', v)
                                     /\ catalog'.definition[v] = catalog.definition[v]]_vars

\* The last event of the log that moved version v (0 when there is none).
LastMove(c, v) ==
    Max({0} \cup {i \in DOMAIN c.audit :
                     c.audit[i].version = v /\ c.audit[i].action # "validated"})

\* The status the audit log gives version v: what its last move led to, unless
\* a later activation of another version of the metric superseded it.
AuditedStatus(c, v) ==
    LET last == LastMove(c, v)
        superseded == \E i \in last+1..Len(c.audit) :
                         c.audit[i].action = "activated" /\ c.audit[i].version[1] = v[1]
    IN CASE last = 0 -> IF v[2] # 1 THEN "absent"
                        ELSE IF superseded THEN "superseded" ELSE "active"
         [] last # 0 /\ c.audit[last].action = "draft_created" -> "draft"
         [] last # 0 /\ c.audit[last].action = "submitted" -> "in_review"
         [] last # 0 /\ c.audit[last].action = "verified" -> "verified"
         [] last # 0 /\ c.audit[last].action = "activated" ->
                IF superseded THEN "superseded" ELSE "active"

\* Semantic mutations are auditable: the status of every version can be
\* reconstructed from the audit log alone.
AuditExplainsStatus ==
    \A v \in VersionIds : catalog.status[v] = AuditedStatus(catalog, v)

\* A change of role takes effect: what is committed is permitted to its actor by
\* the role it has at that moment, or was asked for before the change, by a
\* request that was past authentication already.  A request carries the role
\* it read over the load of the catalog, the query and the save.
RoleChangesBind ==
    [][catalog'.audit # catalog.audit =>
          LET event == Last(catalog'.audit) IN
          \/ role[event.actor] \in Permitted(event.action)
          \/ \E r \in overtaken : request[r].actor = event.actor /\ request'[r] = Idle]_vars

\* Of the runs of a version, each was made before the next.
RunsChronological ==
    \A v \in VersionIds : \A i, j \in DOMAIN catalog.runs[v] :
        i < j => catalog.runs[v][i].createdAt < catalog.runs[v][j].createdAt

\* The run attached last to version v passed.
LastRunPassed(c, v) ==
    c.runs[v] # <<>> /\ c.runs[v][Len(c.runs[v])].passed

\* Verification is blocked unless the latest validation run passed: a version
\* becomes verified only while the run attached to it last is a passed one,
\* even when runs of several handlers raced to be attached.
VerifiedOnLatestRun ==
    [][\A v \in VersionIds :
          catalog.status[v] # "verified" /\ catalog'.status[v] = "verified"
              => LastRunPassed(catalog, v)]_vars

\* A run is never recorded against a catalog it was not made for: whenever a
\* run is attached, the version compiles in the catalog that is stored then,
\* although other handlers may have activated versions during the query.
RunsFitCatalog ==
    [][\A v \in VersionIds :
          catalog'.runs[v] # catalog.runs[v] => Compiles(catalog, v)]_vars

\* The active version of every metric compiles, so that questions about it
\* can be answered.
ActiveVersionsCompile ==
    \A m \in Metrics : Compiles(catalog, ActiveVersion(catalog, m))

-----------------------------------------------------------------------------
\* The registry the handlers promise to be: each operation one atomic step,
\* each version with the verdict of the run made last.
Verdict(v) ==
    IF catalog.runs[v] = <<>> THEN "none"
    ELSE IF LastRunPassed(catalog, v) THEN "passed" ELSE "failed"

Registry == INSTANCE MetricRegistry WITH
    status <- catalog.status,
    definition <- catalog.definition,
    verdict <- [v \in VersionIds |-> Verdict(v)]

RegistrySpec == Registry!Spec
=============================================================================
