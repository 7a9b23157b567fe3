----------------------- MODULE SemanticGovernanceProofs -----------------------
(***************************************************************************)
(* Proofs about SemanticGovernance, for any number of metrics, versions,   *)
(* actors and handlers in flight.                                          *)
(***************************************************************************)
EXTENDS SemanticGovernance, Induction, TLAPS

(***************************************************************************)
(* What one operation does to the catalog it was given, by whichever       *)
(* handler: the five results a handler can compute.                        *)
(***************************************************************************)
DraftStep(c, d) ==
    \E actor \in Actors, v \in VersionIds, def \in Definition :
        /\ ~Exists(c, v)
        /\ ValidDefinition(def)
        /\ d = Drafted(c, actor, v, def)

SubmitStep(c, d) ==
    \E actor \in Actors, v \in VersionIds :
        /\ c.status[v] = "draft"
        /\ d = Submitted(c, actor, v)

VerifyStep(c, d) ==
    \E actor \in Actors, v \in VersionIds :
        /\ c.status[v] = "in_review" /\ LatestPassed(c, v)
        /\ d = Verified(c, actor, v)

ActivateStep(c, d) ==
    \E actor \in Actors, v \in VersionIds :
        /\ c.status[v] = "verified"
        /\ d = Activated(c, actor, v)

ValidateStep(c, d) ==
    \E actor \in Actors, v \in VersionIds, passed \in BOOLEAN, now \in Nat :
        /\ Exists(c, v) /\ Compiles(c, v)
        /\ d = Validated(c, actor, v, passed, now)

Step(c, d) ==
    DraftStep(c, d) \/ SubmitStep(c, d) \/ VerifyStep(c, d) \/ ActivateStep(c, d) \/ ValidateStep(c, d)

-----------------------------------------------------------------------------
(***************************************************************************)
(* Lemmas about single operations.                                         *)
(***************************************************************************)

\* Each result is a catalog.
LEMMA DraftedType ==
    ASSUME NEW c \in Catalog, NEW actor \in Actors, NEW v \in VersionIds,
           NEW def \in Definition
    PROVE  Drafted(c, actor, v, def) \in Catalog
<1>1. Audited(c, actor, "draft_created", v) \in Seq(Event)
  BY DEF Audited, Catalog, Event, AuditActions
<1>2. QED
  BY <1>1 DEF Drafted, Catalog, Statuses

LEMMA SubmittedType ==
    ASSUME NEW c \in Catalog, NEW actor \in Actors, NEW v \in VersionIds
    PROVE  Submitted(c, actor, v) \in Catalog
<1>1. Audited(c, actor, "submitted", v) \in Seq(Event)
  BY DEF Audited, Catalog, Event, AuditActions
<1>2. QED
  BY <1>1 DEF Submitted, Catalog, Statuses

LEMMA VerifiedType ==
    ASSUME NEW c \in Catalog, NEW actor \in Actors, NEW v \in VersionIds
    PROVE  Verified(c, actor, v) \in Catalog
<1>1. Audited(c, actor, "verified", v) \in Seq(Event)
  BY DEF Audited, Catalog, Event, AuditActions
<1>2. QED
  BY <1>1 DEF Verified, Catalog, Statuses

LEMMA ActivatedType ==
    ASSUME NEW c \in Catalog, NEW actor \in Actors, NEW v \in VersionIds
    PROVE  Activated(c, actor, v) \in Catalog
<1>1. Audited(c, actor, "activated", v) \in Seq(Event)
  BY DEF Audited, Catalog, Event, AuditActions
<1>2. QED
  BY <1>1 DEF Activated, Catalog, Statuses

LEMMA ValidatedType ==
    ASSUME NEW c \in Catalog, NEW actor \in Actors, NEW v \in VersionIds,
           NEW passed \in BOOLEAN, NEW now \in Nat
    PROVE  Validated(c, actor, v, passed, now) \in Catalog
<1>1. Audited(c, actor, "validated", v) \in Seq(Event)
  BY DEF Audited, Catalog, Event, AuditActions
<1>2. Append(c.runs[v], [passed |-> passed, createdAt |-> now]) \in Seq(Run)
  BY DEF Catalog, Run
<1>3. QED
  BY <1>1, <1>2 DEF Validated, Catalog

-----------------------------------------------------------------------------
(***************************************************************************)
(* Lemmas about any operation.                                             *)
(***************************************************************************)

\* An operation turns a catalog into a catalog.
LEMMA StepType ==
    ASSUME NEW c \in Catalog, NEW d, Step(c, d)
    PROVE  d \in Catalog
<1>1. CASE DraftStep(c, d)
  BY <1>1, DraftedType DEF DraftStep
<1>2. CASE SubmitStep(c, d)
  BY <1>2, SubmittedType DEF SubmitStep
<1>3. CASE VerifyStep(c, d)
  BY <1>3, VerifiedType DEF VerifyStep
<1>4. CASE ActivateStep(c, d)
  BY <1>4, ActivatedType DEF ActivateStep
<1>5. CASE ValidateStep(c, d)
  BY <1>5, ValidatedType DEF ValidateStep
<1>6. QED
  BY <1>1, <1>2, <1>3, <1>4, <1>5 DEF Step

\* When the statuses of no active version change and no version becomes
\* active, and definitions stay valid, the catalog stays valid.
LEMMA ValidKept ==
    ASSUME NEW c \in Catalog, NEW d \in Catalog, ValidCatalog(c),
           \A v \in VersionIds : IsActive(d, v) <=> IsActive(c, v),
           \A v \in VersionIds : Exists(d, v) => ValidDefinition(d.definition[v])
    PROVE  ValidCatalog(d)
BY DEF ValidCatalog

\* An operation keeps the catalog valid: no validator at the end of a handler
\* ever rejects what the handler computed.
LEMMA StepValid ==
    ASSUME NEW c \in Catalog, NEW d, Step(c, d), ValidCatalog(c)
    PROVE  ValidCatalog(d)
<1>0. d \in Catalog
  BY StepType
<1>1. CASE DraftStep(c, d)
  <2>1. PICK actor \in Actors, v \in VersionIds, def \in Definition :
            ~Exists(c, v) /\ ValidDefinition(def) /\ d = Drafted(c, actor, v, def)
    BY <1>1 DEF DraftStep
  <2>2. /\ d.status = [c.status EXCEPT ![v] = "draft"]
        /\ d.definition = [c.definition EXCEPT ![v] = def]
    BY <2>1 DEF Drafted, Catalog
  <2>3. /\ c.status \in [VersionIds -> Statuses]
        /\ c.definition = [w \in VersionIds |-> c.definition[w]]
    BY DEF Catalog
  <2>4. \A w \in VersionIds : IsActive(d, w) <=> IsActive(c, w)
    BY <2>1, <2>2, <2>3 DEF IsActive, Exists
  <2>5. \A w \in VersionIds : Exists(d, w) => w = v \/ Exists(c, w)
    BY <2>2, <2>3 DEF Exists
  <2>6. \A w \in VersionIds :
           d.definition[w] = IF w = v THEN def ELSE c.definition[w]
    BY <2>2, <2>3
  <2>7. \A w \in VersionIds : Exists(d, w) => ValidDefinition(d.definition[w])
    BY <2>1, <2>5, <2>6 DEF ValidCatalog
  <2>8. QED
    BY <1>0, <2>4, <2>7, ValidKept
<1>2. CASE SubmitStep(c, d)
  <2>1. PICK actor \in Actors, v \in VersionIds :
            c.status[v] = "draft" /\ d = Submitted(c, actor, v)
    BY <1>2 DEF SubmitStep
  <2>2. d.status = [c.status EXCEPT ![v] = "in_review"] /\ d.definition = c.definition
    BY <2>1 DEF Submitted, Catalog
  <2>3. c.status \in [VersionIds -> Statuses]
    BY DEF Catalog
  <2>4. \A w \in VersionIds : IsActive(d, w) <=> IsActive(c, w)
    BY <2>1, <2>2, <2>3 DEF IsActive
  <2>5. \A w \in VersionIds : Exists(d, w) => Exists(c, w)
    BY <2>1, <2>2, <2>3 DEF Exists
  <2>6. \A w \in VersionIds : Exists(d, w) => ValidDefinition(d.definition[w])
    BY <2>2, <2>5 DEF ValidCatalog
  <2>7. QED
    BY <1>0, <2>4, <2>6, ValidKept
<1>3. CASE VerifyStep(c, d)
  <2>1. PICK actor \in Actors, v \in VersionIds :
            c.status[v] = "in_review" /\ d = Verified(c, actor, v)
    BY <1>3 DEF VerifyStep
  <2>2. d.status = [c.status EXCEPT ![v] = "verified"] /\ d.definition = c.definition
    BY <2>1 DEF Verified, Catalog
  <2>3. c.status \in [VersionIds -> Statuses]
    BY DEF Catalog
  <2>4. \A w \in VersionIds : IsActive(d, w) <=> IsActive(c, w)
    BY <2>1, <2>2, <2>3 DEF IsActive
  <2>5. \A w \in VersionIds : Exists(d, w) => Exists(c, w)
    BY <2>1, <2>2, <2>3 DEF Exists
  <2>6. \A w \in VersionIds : Exists(d, w) => ValidDefinition(d.definition[w])
    BY <2>2, <2>5 DEF ValidCatalog
  <2>7. QED
    BY <1>0, <2>4, <2>6, ValidKept
<1>4. CASE ActivateStep(c, d)
  <2>1. PICK actor \in Actors, v \in VersionIds :
            c.status[v] = "verified" /\ d = Activated(c, actor, v)
    BY <1>4 DEF ActivateStep
  <2>2. /\ d.status = [w \in VersionIds |->
                          IF w = v THEN "active"
                          ELSE IF w[1] = v[1] /\ IsActive(c, w) THEN "superseded"
                          ELSE c.status[w]]
        /\ d.definition = c.definition
    BY <2>1 DEF Activated, Catalog
  <2>3. \A w \in VersionIds : IsActive(d, w) <=>
            (w = v \/ (w[1] # v[1] /\ IsActive(c, w)))
    BY <2>1, <2>2 DEF IsActive
  <2>4. \A w \in VersionIds : Exists(d, w) => Exists(c, w)
    BY <2>1, <2>2 DEF IsActive, Exists
  <2>5. ASSUME NEW m \in Metrics
        PROVE  \E w \in VersionIds :
                  /\ w[1] = m /\ IsActive(d, w)
                  /\ \A x \in VersionIds : (x[1] = m /\ IsActive(d, x)) => x = w
    BY <2>3 DEF ValidCatalog
  <2>6. QED
    BY <2>2, <2>4, <2>5 DEF ValidCatalog
<1>5. CASE ValidateStep(c, d)
  <2>1. d.status = c.status /\ d.definition = c.definition
    <3>1. PICK actor \in Actors, v \in VersionIds, passed \in BOOLEAN, now \in Nat :
              d = Validated(c, actor, v, passed, now)
      BY <1>5 DEF ValidateStep
    <3>2. QED
      BY <3>1 DEF Validated, Catalog
  <2>2. QED
    BY <1>0, <2>1, ValidKept DEF ValidCatalog, Exists, IsActive
<1>6. QED
  BY <1>1, <1>2, <1>3, <1>4, <1>5 DEF Step

\* An operation adds one event to the audit log.
LEMMA StepEvent ==
    ASSUME NEW c \in Catalog, NEW d, Step(c, d)
    PROVE  \E e \in Event : d.audit = Append(c.audit, e)
<1>1. \A actor \in Actors, v \in VersionIds, a \in AuditActions :
          [actor |-> actor, action |-> a, version |-> v] \in Event
  BY DEF Event
<1>2. CASE DraftStep(c, d)
  <2>1. PICK actor \in Actors, v \in VersionIds, def \in Definition :
            d = Drafted(c, actor, v, def)
    BY <1>2 DEF DraftStep
  <2>2. d.audit = Audited(c, actor, "draft_created", v)
    BY <2>1 DEF Drafted, Catalog
  <2>3. QED
    BY <1>1, <2>1, <2>2 DEF Audited, AuditActions
<1>3. CASE SubmitStep(c, d)
  <2>1. PICK actor \in Actors, v \in VersionIds :
            d = Submitted(c, actor, v)
    BY <1>3 DEF SubmitStep
  <2>2. d.audit = Audited(c, actor, "submitted", v)
    BY <2>1 DEF Submitted, Catalog
  <2>3. QED
    BY <1>1, <2>1, <2>2 DEF Audited, AuditActions
<1>4. CASE VerifyStep(c, d)
  <2>1. PICK actor \in Actors, v \in VersionIds :
            d = Verified(c, actor, v)
    BY <1>4 DEF VerifyStep
  <2>2. d.audit = Audited(c, actor, "verified", v)
    BY <2>1 DEF Verified, Catalog
  <2>3. QED
    BY <1>1, <2>1, <2>2 DEF Audited, AuditActions
<1>5. CASE ActivateStep(c, d)
  <2>1. PICK actor \in Actors, v \in VersionIds :
            d = Activated(c, actor, v)
    BY <1>5 DEF ActivateStep
  <2>2. d.audit = Audited(c, actor, "activated", v)
    BY <2>1 DEF Activated, Catalog
  <2>3. QED
    BY <1>1, <2>1, <2>2 DEF Audited, AuditActions
<1>6. CASE ValidateStep(c, d)
  <2>1. PICK actor \in Actors, v \in VersionIds, passed \in BOOLEAN, now \in Nat :
            d = Validated(c, actor, v, passed, now)
    BY <1>6 DEF ValidateStep
  <2>2. d.audit = Audited(c, actor, "validated", v)
    BY <2>1 DEF Validated, Catalog
  <2>3. QED
    BY <1>1, <2>1, <2>2 DEF Audited, AuditActions
<1>7. QED
  BY <1>2, <1>3, <1>4, <1>5, <1>6 DEF Step

\* Hence the log grows by one and no earlier event is touched.
LEMMA StepAudit ==
    ASSUME NEW c \in Catalog, NEW d, Step(c, d)
    PROVE  Len(d.audit) = Len(c.audit) + 1 /\ IsPrefix(c.audit, d.audit)
<1>1. c.audit \in Seq(Event)
  BY DEF Catalog
<1>2. PICK e \in Event : d.audit = Append(c.audit, e)
  BY StepEvent
<1>3. QED
  BY <1>1, <1>2 DEF IsPrefix

\* Only a validation attaches runs, and the version it validates compiles.
LEMMA StepRuns ==
    ASSUME NEW c \in Catalog, NEW d, Step(c, d), NEW v \in VersionIds,
           d.runs[v] # c.runs[v]
    PROVE  Compiles(c, v)
<1>1. CASE DraftStep(c, d)
  BY <1>1 DEF DraftStep, Drafted, Catalog
<1>2. CASE SubmitStep(c, d)
  BY <1>2 DEF SubmitStep, Submitted, Catalog
<1>3. CASE VerifyStep(c, d)
  BY <1>3 DEF VerifyStep, Verified, Catalog
<1>4. CASE ActivateStep(c, d)
  BY <1>4 DEF ActivateStep, Activated, Catalog
<1>5. CASE ValidateStep(c, d)
  <2>1. PICK actor \in Actors, w \in VersionIds, passed \in BOOLEAN, now \in Nat :
            Compiles(c, w) /\ d = Validated(c, actor, w, passed, now)
    BY <1>5 DEF ValidateStep
  <2>2. d.runs = [c.runs EXCEPT ![w] =
                     Append(@, [passed |-> passed, createdAt |-> now])]
    BY <2>1 DEF Validated, Catalog
  <2>3. v = w
    BY <2>2 DEF Catalog
  <2>4. QED
    BY <2>1, <2>3
<1>6. QED
  BY <1>1, <1>2, <1>3, <1>4, <1>5 DEF Step

\* An operation other than a validation leaves the runs alone.
LEMMA MutationRuns ==
    ASSUME NEW c \in Catalog, NEW d,
           DraftStep(c, d) \/ SubmitStep(c, d) \/ VerifyStep(c, d) \/ ActivateStep(c, d)
    PROVE  d.runs = c.runs
<1>1. CASE DraftStep(c, d)
  BY <1>1 DEF DraftStep, Drafted, Catalog
<1>2. CASE SubmitStep(c, d)
  BY <1>2 DEF SubmitStep, Submitted, Catalog
<1>3. CASE VerifyStep(c, d)
  BY <1>3 DEF VerifyStep, Verified, Catalog
<1>4. CASE ActivateStep(c, d)
  BY <1>4 DEF ActivateStep, Activated, Catalog
<1>5. QED
  BY <1>1, <1>2, <1>3, <1>4

\* An operation keeps every run and the definition of every existing version.
LEMMA StepHistory ==
    ASSUME NEW c \in Catalog, NEW d, Step(c, d), NEW v \in VersionIds
    PROVE  /\ IsPrefix(c.runs[v], d.runs[v])
           /\ Exists(c, v) => Exists(d, v) /\ d.definition[v] = c.definition[v]
<1>1. c.runs[v] \in Seq(Run)
  BY DEF Catalog
<1>2. IsPrefix(c.runs[v], c.runs[v])
  BY <1>1 DEF IsPrefix
<1>3. \A run \in Run : IsPrefix(c.runs[v], Append(c.runs[v], run))
  BY <1>1 DEF IsPrefix
<1>4. CASE DraftStep(c, d)
  <2>1. PICK actor \in Actors, w \in VersionIds, def \in Definition :
            ~Exists(c, w) /\ d = Drafted(c, actor, w, def)
    BY <1>4 DEF DraftStep
  <2>2. /\ d.status = [c.status EXCEPT ![w] = "draft"]
        /\ d.definition = [c.definition EXCEPT ![w] = def]
        /\ d.runs = c.runs
    BY <2>1 DEF Drafted, Catalog
  <2>3. QED
    BY <1>2, <2>1, <2>2 DEF Exists, Catalog
<1>5. CASE SubmitStep(c, d)
  <2>1. PICK actor \in Actors, w \in VersionIds : d = Submitted(c, actor, w)
    BY <1>5 DEF SubmitStep
  <2>2. /\ d.status = [c.status EXCEPT ![w] = "in_review"]
        /\ d.definition = c.definition /\ d.runs = c.runs
    BY <2>1 DEF Submitted, Catalog
  <2>3. QED
    BY <1>2, <2>2 DEF Exists, Catalog
<1>6. CASE VerifyStep(c, d)
  <2>1. PICK actor \in Actors, w \in VersionIds : d = Verified(c, actor, w)
    BY <1>6 DEF VerifyStep
  <2>2. /\ d.status = [c.status EXCEPT ![w] = "verified"]
        /\ d.definition = c.definition /\ d.runs = c.runs
    BY <2>1 DEF Verified, Catalog
  <2>3. QED
    BY <1>2, <2>2 DEF Exists, Catalog
<1>7. CASE ActivateStep(c, d)
  <2>1. PICK actor \in Actors, w \in VersionIds : d = Activated(c, actor, w)
    BY <1>7 DEF ActivateStep
  <2>2. /\ d.status = [x \in VersionIds |->
                          IF x = w THEN "active"
                          ELSE IF x[1] = w[1] /\ IsActive(c, x) THEN "superseded"
                          ELSE c.status[x]]
        /\ d.definition = c.definition /\ d.runs = c.runs
    BY <2>1 DEF Activated, Catalog
  <2>3. QED
    BY <1>2, <2>2 DEF Exists
<1>8. CASE ValidateStep(c, d)
  <2>1. PICK actor \in Actors, w \in VersionIds, passed \in BOOLEAN, now \in Nat :
            d = Validated(c, actor, w, passed, now)
    BY <1>8 DEF ValidateStep
  <2>2. /\ d.status = c.status /\ d.definition = c.definition
        /\ d.runs = [c.runs EXCEPT ![w] =
                        Append(@, [passed |-> passed, createdAt |-> now])]
    BY <2>1 DEF Validated, Catalog
  <2>3. [passed |-> passed, createdAt |-> now] \in Run
    BY DEF Run
  <2>4. QED
    BY <1>2, <1>3, <2>2, <2>3 DEF Exists, Catalog
<1>9. QED
  BY <1>4, <1>5, <1>6, <1>7, <1>8 DEF Step

-----------------------------------------------------------------------------
(***************************************************************************)
(* The inductive invariant.                                                *)
(*                                                                         *)
(* What a handler holds was computed from the catalog of the revision it   *)
(* expects.  While that revision is current, a candidate is one operation  *)
(* away from the stored catalog and a snapshot equals it; once it is not,  *)
(* nothing is known of the relation, and save refuses the candidate.       *)
(***************************************************************************)
HandlerInv(h, c, rev) ==
    /\ h.pc \in {"validating", "saving"} => h.expected <= rev /\ ValidCatalog(h.catalog)
    /\ h.pc = "validating" =>
           /\ Exists(h.catalog, h.version)
           /\ Compiles(h.catalog, h.version)
           /\ h.expected = rev => h.catalog = c
    /\ h.pc = "saving" => (h.expected = rev => Step(c, h.catalog))

IInv ==
    /\ TypeOK
    /\ ValidCatalog(catalog)
    /\ NoLostUpdate
    /\ \A r \in Requests : HandlerInv(request[r], catalog, revision)

\* The seed catalog is a catalog, and valid.
LEMMA SeedValid ==
    ASSUME NEW entity \in Entities
    PROVE  Seed(entity) \in Catalog /\ ValidCatalog(Seed(entity))
<1>1. Seed(entity) \in Catalog
  BY DEF Seed, Catalog, Statuses, Definition
<1>2. \A v \in VersionIds : ValidDefinition(Seed(entity).definition[v])
  BY DEF Seed, ValidDefinition, Definition, IsRatio
<1>3. \A v \in VersionIds : IsActive(Seed(entity), v) <=> v[2] = 1
  BY DEF Seed, IsActive
<1>4. ASSUME NEW m \in Metrics
      PROVE  \E v \in VersionIds :
                /\ v[1] = m /\ IsActive(Seed(entity), v)
                /\ \A w \in VersionIds : (w[1] = m /\ IsActive(Seed(entity), w)) => w = v
  <2>1. <<m, 1>> \in VersionIds
    BY MaxVersionAssumption DEF VersionIds
  <2>2. \A w \in VersionIds : w[1] = m /\ w[2] = 1 => w = <<m, 1>>
    BY DEF VersionIds
  <2>3. QED
    BY <1>3, <2>1, <2>2
<1>5. QED
  BY <1>1, <1>2, <1>4 DEF ValidCatalog

\* Init establishes the invariant.
LEMMA InitInv == Init => IInv
<1> SUFFICES ASSUME Init PROVE IInv
  OBVIOUS
<1>1. PICK entity \in Entities : catalog = Seed(entity)
  BY DEF Init
<1>2. TypeOK
  BY <1>1, SeedValid DEF Init, TypeOK, Request
<1>3. NoLostUpdate
  <2>1. catalog.audit = <<>>
    BY <1>1 DEF Seed
  <2>2. QED
    BY <2>1 DEF Init, NoLostUpdate
<1>4. \A r \in Requests : HandlerInv(request[r], catalog, revision)
  BY DEF Init, HandlerInv, Idle
<1>5. QED
  BY <1>1, <1>2, <1>3, <1>4, SeedValid DEF IInv

\* What a handler knows while it loads the catalog, while it waits for the
\* warehouse, and while it saves.
LEMMA RequestIs ==
    ASSUME TypeOK, NEW r \in Requests
    PROVE  /\ request[r].pc = "idle" => request[r] = Idle
           /\ request[r].pc \in {"idle", "loading", "validating", "saving"}
           /\ request[r] # Idle => request[r].pc # "idle" /\ request[r].actor \in Actors
           /\ request[r].pc = "loading" => request[r].role \in Roles
           /\ request[r].pc = "validating" =>
                  request[r].version \in VersionIds /\ request[r].now \in Nat
           /\ request[r].pc \in {"validating", "saving"} =>
                  request[r].expected \in Nat /\ request[r].catalog \in Catalog
BY DEF TypeOK, Request, Idle

\* Holding a result of an operation on the stored catalog keeps the invariant.
LEMMA HoldInv ==
    ASSUME IInv, NEW r \in Requests, NEW candidate,
           request[r].pc = "loading", Step(catalog, candidate), Hold(r, candidate)
    PROVE  IInv'
<1>0. request[r].actor \in Actors
  BY RequestIs DEF IInv, Idle
<1>1. candidate \in Catalog /\ ValidCatalog(candidate)
  BY StepType, StepValid DEF IInv, TypeOK
<1>2. TypeOK'
  BY <1>0, <1>1 DEF IInv, TypeOK, Hold, Request
<1>3. HandlerInv(request'[r], catalog', revision')
  BY <1>1 DEF IInv, TypeOK, Hold, HandlerInv
<1>4. \A s \in Requests : s # r => HandlerInv(request'[s], catalog', revision')
  BY DEF IInv, TypeOK, Hold
<1>5. QED
  BY <1>2, <1>3, <1>4 DEF IInv, Hold, NoLostUpdate

\* Event e is of the actor of request r, and permitted by the role it read.
Signed(r, e) == e.actor = request[r].actor /\ Authorized(r, e.action)

\* Request r holds candidate d: one operation away from the stored catalog, with
\* its runs, and with an event signed by the request at the end of its log.
Mutation(r, d) ==
    /\ request[r].pc = "loading"
    /\ Step(catalog, d)
    /\ Hold(r, d)
    /\ d.runs = catalog.runs
    /\ \E e \in Event : d.audit = Append(catalog.audit, e) /\ Signed(r, e)

\* Each accepted mutation holds such a candidate.
LEMMA DraftMutation ==
    ASSUME TypeOK, NEW r \in Requests, NEW m, NEW def, CreateDraft(r, m, def)
    PROVE  \E d : Mutation(r, d)
<1> DEFINE actor == request[r].actor
           v == <<m, NextNumber(catalog, m)>>
           d == Drafted(catalog, actor, v, def)
           e == [actor |-> actor, action |-> "draft_created", version |-> v]
<1>1. /\ Authorized(r, "draft_created") /\ v \in VersionIds /\ ~Exists(catalog, v)
      /\ def \in Definition /\ ValidDefinition(def) /\ Hold(r, d)
  BY DEF CreateDraft, ValidDefinition
<1>2. actor \in Actors /\ request[r].pc = "loading"
  BY <1>1, RequestIs DEF Authorized, Idle
<1> HIDE DEF v
<1>3. DraftStep(catalog, d)
  BY <1>1, <1>2 DEF DraftStep
<1>4. e \in Event /\ d.audit = Append(catalog.audit, e) /\ Signed(r, e)
  BY <1>1, <1>2 DEF Event, AuditActions, Drafted, Audited, Catalog, TypeOK, Signed
<1> HIDE DEF actor, d, e
<1>5. QED
  BY <1>1, <1>2, <1>3, <1>4, MutationRuns DEF Mutation, Step, TypeOK

LEMMA SubmitMutation ==
    ASSUME TypeOK, NEW r \in Requests, NEW v \in VersionIds, Submit(r, v)
    PROVE  \E d : Mutation(r, d)
<1> DEFINE actor == request[r].actor
           d == Submitted(catalog, actor, v)
           e == [actor |-> actor, action |-> "submitted", version |-> v]
<1>1. Authorized(r, "submitted") /\ catalog.status[v] = "draft" /\ Hold(r, d)
  BY DEF Submit
<1>2. actor \in Actors /\ request[r].pc = "loading"
  BY <1>1, RequestIs DEF Authorized, Idle
<1>3. SubmitStep(catalog, d)
  BY <1>1, <1>2 DEF SubmitStep
<1>4. e \in Event /\ d.audit = Append(catalog.audit, e) /\ Signed(r, e)
  BY <1>1, <1>2 DEF Event, AuditActions, Submitted, Audited, Catalog, TypeOK, Signed
<1> HIDE DEF actor, d, e
<1>5. QED
  BY <1>1, <1>2, <1>3, <1>4, MutationRuns DEF Mutation, Step, TypeOK

LEMMA VerifyMutation ==
    ASSUME TypeOK, NEW r \in Requests, NEW v \in VersionIds, Verify(r, v)
    PROVE  \E d : Mutation(r, d)
<1> DEFINE actor == request[r].actor
           d == Verified(catalog, actor, v)
           e == [actor |-> actor, action |-> "verified", version |-> v]
<1>1. /\ Authorized(r, "verified") /\ catalog.status[v] = "in_review"
      /\ LatestPassed(catalog, v) /\ Hold(r, d)
  BY DEF Verify
<1>2. actor \in Actors /\ request[r].pc = "loading"
  BY <1>1, RequestIs DEF Authorized, Idle
<1>3. VerifyStep(catalog, d)
  BY <1>1, <1>2 DEF VerifyStep
<1>4. e \in Event /\ d.audit = Append(catalog.audit, e) /\ Signed(r, e)
  BY <1>1, <1>2 DEF Event, AuditActions, Verified, Audited, Catalog, TypeOK, Signed
<1> HIDE DEF actor, d, e
<1>5. QED
  BY <1>1, <1>2, <1>3, <1>4, MutationRuns DEF Mutation, Step, TypeOK

LEMMA ActivateMutation ==
    ASSUME TypeOK, NEW r \in Requests, NEW v \in VersionIds, Activate(r, v)
    PROVE  \E d : Mutation(r, d)
<1> DEFINE actor == request[r].actor
           d == Activated(catalog, actor, v)
           e == [actor |-> actor, action |-> "activated", version |-> v]
<1>1. Authorized(r, "activated") /\ catalog.status[v] = "verified" /\ Hold(r, d)
  BY DEF Activate
<1>2. actor \in Actors /\ request[r].pc = "loading"
  BY <1>1, RequestIs DEF Authorized, Idle
<1>3. ActivateStep(catalog, d)
  BY <1>1, <1>2 DEF ActivateStep
<1>4. e \in Event /\ d.audit = Append(catalog.audit, e) /\ Signed(r, e)
  BY <1>1, <1>2 DEF Event, AuditActions, Activated, Audited, Catalog, TypeOK, Signed
<1> HIDE DEF actor, d, e
<1>5. QED
  BY <1>1, <1>2, <1>3, <1>4, MutationRuns DEF Mutation, Step, TypeOK

LEMMA MutationInv ==
    ASSUME IInv, NEW r \in Requests, \E d : Mutation(r, d)
    PROVE  IInv'
BY HoldInv DEF Mutation

\* Reading the role, and changing it, touch nothing the invariant speaks of.
LEMMA AuthenticateInv ==
    ASSUME IInv, NEW r \in Requests, NEW actor \in Actors, Authenticate(r, actor)
    PROVE  IInv'
<1> DEFINE h == [pc |-> "loading", actor |-> actor, role |-> role[actor]]
<1>1. role[actor] \in Roles
  BY DEF Authenticate, IInv, TypeOK, Standings
<1>2. h \in Request
  BY <1>1 DEF Request
<1>3. HandlerInv(h, catalog, revision)
  BY DEF HandlerInv
<1>4. request' = [request EXCEPT ![r] = h]
  BY DEF Authenticate
<1> HIDE DEF h
<1>5. TypeOK'
  BY <1>2, <1>4 DEF Authenticate, IInv, TypeOK
<1>6. \A s \in Requests : HandlerInv(request'[s], catalog', revision')
  BY <1>3, <1>4 DEF Authenticate, IInv, TypeOK
<1>7. QED
  BY <1>5, <1>6 DEF Authenticate, IInv, NoLostUpdate

LEMMA ChangeMembershipInv ==
    ASSUME IInv, NEW actor \in Actors, ChangeMembership(actor)
    PROVE  IInv'
<1>1. PICK standing \in Memberships[actor] \ {role[actor]} :
          role' = [role EXCEPT ![actor] = standing]
  BY DEF ChangeMembership
<1>2. standing \in Standings
  BY MembershipsAssumption, <1>1
<1>3. TypeOK'
  BY <1>1, <1>2 DEF ChangeMembership, IInv, TypeOK
<1>4. QED
  BY <1>3 DEF ChangeMembership, IInv, NoLostUpdate

\* A handler that validates holds the stored catalog itself.
LEMMA StartValidationInv ==
    ASSUME IInv, NEW r \in Requests, NEW v \in VersionIds, StartValidation(r, v)
    PROVE  IInv'
<1>0. request[r].actor \in Actors
  BY RequestIs DEF StartValidation, Authorized, IInv, Idle
<1>1. PICK now \in 0..clock :
          request' = [request EXCEPT ![r] =
              [pc |-> "validating", actor |-> request[r].actor, expected |-> revision,
               catalog |-> catalog, version |-> v, now |-> now]]
  BY DEF StartValidation
<1>2. TypeOK'
  <2>1. now \in Nat /\ clock' \in Nat
    BY DEF IInv, TypeOK, StartValidation
  <2>2. QED
    BY <1>0, <1>1, <2>1 DEF IInv, TypeOK, StartValidation, Request
<1>3. HandlerInv(request'[r], catalog', revision')
  BY <1>1 DEF IInv, TypeOK, StartValidation, HandlerInv
<1>4. \A s \in Requests : s # r => HandlerInv(request'[s], catalog', revision')
  BY <1>1 DEF IInv, TypeOK, StartValidation
<1>5. QED
  BY <1>2, <1>3, <1>4 DEF IInv, StartValidation, NoLostUpdate

\* The answer of the warehouse turns the snapshot into a candidate, and the
\* candidate is one operation away from the snapshot.
LEMMA FinishValidationInv ==
    ASSUME IInv, NEW r \in Requests, FinishValidation(r)
    PROVE  IInv'
<1> DEFINE h == request[r]
<1>1. PICK passed \in BOOLEAN :
          request' = [request EXCEPT ![r] =
              [pc |-> "saving", actor |-> h.actor, expected |-> h.expected,
               catalog |-> Validated(h.catalog, h.actor, h.version, passed, h.now)]]
  BY DEF FinishValidation
<1>2. /\ h \in Request /\ h # Idle /\ h.pc = "validating"
      /\ HandlerInv(h, catalog, revision)
  BY DEF FinishValidation, IInv, TypeOK, Idle
<1>3. /\ h.expected \in Nat /\ h.catalog \in Catalog /\ h.actor \in Actors
      /\ h.version \in VersionIds /\ h.now \in Nat
  BY <1>2 DEF Request, Idle
<1> DEFINE d == Validated(h.catalog, h.actor, h.version, passed, h.now)
<1>4. /\ ValidCatalog(h.catalog) /\ h.expected <= revision
      /\ Exists(h.catalog, h.version) /\ Compiles(h.catalog, h.version)
      /\ h.expected = revision => h.catalog = catalog
  BY <1>2 DEF HandlerInv
<1> HIDE DEF h
<1>5. Step(h.catalog, d)
  <2>1. ValidateStep(h.catalog, d)
    BY <1>3, <1>4 DEF ValidateStep
  <2>2. QED
    BY <2>1 DEF Step
<1> HIDE DEF d
<1>6. d \in Catalog /\ ValidCatalog(d)
  BY <1>3, <1>4, <1>5, StepType, StepValid
<1>7. request' = [request EXCEPT ![r] =
          [pc |-> "saving", actor |-> h.actor, expected |-> h.expected, catalog |-> d]]
  BY <1>1 DEF d
<1>8. TypeOK'
  BY <1>3, <1>6, <1>7 DEF IInv, TypeOK, FinishValidation, Request
<1>9. HandlerInv(request'[r], catalog', revision')
  <2>1. request'[r] = [pc |-> "saving", actor |-> h.actor,
                     expected |-> h.expected, catalog |-> d]
    BY <1>7 DEF IInv, TypeOK
  <2>2. QED
    BY <2>1, <1>4, <1>5, <1>6 DEF FinishValidation, HandlerInv
<1>10. \A s \in Requests : s # r => HandlerInv(request'[s], catalog', revision')
  BY <1>7 DEF IInv, TypeOK, FinishValidation
<1>11. QED
  BY <1>8, <1>9, <1>10 DEF IInv, FinishValidation, NoLostUpdate

\* A save is one operation on the stored catalog.
LEMMA SaveStep ==
    ASSUME IInv, NEW r \in Requests, Save(r)
    PROVE  Step(catalog, catalog') /\ revision' = revision + 1
BY DEF IInv, HandlerInv, Save

\* After a save no other handler expects the current revision.
LEMMA SaveInv ==
    ASSUME IInv, NEW r \in Requests, Save(r)
    PROVE  IInv'
<1>1. Step(catalog, catalog') /\ revision' = revision + 1
  BY SaveStep
<1>2. catalog' \in Catalog /\ ValidCatalog(catalog')
  BY <1>1, StepType, StepValid DEF IInv, TypeOK
<1>3. TypeOK'
  BY <1>1, <1>2 DEF IInv, TypeOK, Save, Request
<1>4. NoLostUpdate'
  <2>1. Len(catalog'.audit) = Len(catalog.audit) + 1
    BY <1>1, StepAudit DEF IInv, TypeOK
  <2>2. Len(catalog.audit) = revision - 1 /\ revision \in Nat
    BY DEF IInv, NoLostUpdate, TypeOK
  <2>3. QED
    BY <1>1, <2>1, <2>2 DEF NoLostUpdate
<1>5. HandlerInv(request'[r], catalog', revision')
  BY DEF Save, IInv, TypeOK, HandlerInv, Idle
<1>6. ASSUME NEW s \in Requests, s # r
      PROVE  HandlerInv(request'[s], catalog', revision')
  <2>1. request'[s] = request[s] /\ HandlerInv(request[s], catalog, revision)
    BY <1>6 DEF Save, IInv, TypeOK
  <2>2. request[s].pc \in {"validating", "saving"} => request[s].expected \in Nat
    BY RequestIs DEF IInv
  <2>3. QED
    BY <1>1, <2>1, <2>2 DEF HandlerInv, IInv, TypeOK
<1>7. QED
  BY <1>2, <1>3, <1>4, <1>5, <1>6 DEF IInv

\* A request that ends without a write leaves nothing behind.
LEMMA AbandonInv ==
    ASSUME IInv, NEW r \in Requests, Abandon(r)
    PROVE  IInv'
<1>1. TypeOK'
  BY DEF IInv, TypeOK, Abandon, Request
<1>2. \A s \in Requests : HandlerInv(request'[s], catalog', revision')
  BY DEF IInv, TypeOK, Abandon, HandlerInv, Idle
<1>3. QED
  BY <1>1, <1>2 DEF IInv, Abandon, NoLostUpdate

\* Every step keeps the invariant.
LEMMA NextInv == IInv /\ [Next]_vars => IInv'
<1> SUFFICES ASSUME IInv, [Next]_vars PROVE IInv'
  OBVIOUS
<1>1. ASSUME NEW actor \in Actors, ChangeMembership(actor)
      PROVE  IInv'
  BY <1>1, ChangeMembershipInv
<1>2. ASSUME NEW r \in Requests, NEW actor \in Actors, Authenticate(r, actor)
      PROVE  IInv'
  BY <1>2, AuthenticateInv
<1>3. ASSUME NEW r \in Requests, NEW draft \in Drafts, CreateDraft(r, draft[1], draft[2])
      PROVE  IInv'
  BY <1>3, DraftMutation, MutationInv DEF IInv
<1>4. ASSUME NEW r \in Requests, NEW v \in VersionIds,
             Submit(r, v) \/ Verify(r, v) \/ Activate(r, v)
      PROVE  IInv'
  BY <1>4, SubmitMutation, VerifyMutation, ActivateMutation, MutationInv DEF IInv
<1>5. ASSUME NEW r \in Requests, NEW v \in VersionIds, StartValidation(r, v)
      PROVE  IInv'
  BY <1>5, StartValidationInv
<1>6. ASSUME NEW r \in Requests, FinishValidation(r) \/ Save(r) \/ Abandon(r)
      PROVE  IInv'
  BY <1>6, FinishValidationInv, SaveInv, AbandonInv
<1>7. CASE UNCHANGED vars
  BY <1>7 DEF vars, IInv, TypeOK, NoLostUpdate
<1>8. QED
  BY <1>1, <1>2, <1>3, <1>4, <1>5, <1>6, <1>7, AskedAssumption DEF Next

\* The invariant holds in every reachable state.
THEOREM Invariant == Spec => []IInv
BY InitInv, NextInv, PTL DEF Spec

-----------------------------------------------------------------------------
(***************************************************************************)
(* What follows for the properties that the runs check.                    *)
(***************************************************************************)

\* Only a save changes the stored catalog, and by one operation.
LEMMA CommitStep ==
    ASSUME IInv, [Next]_vars
    PROVE  catalog' = catalog \/ Step(catalog, catalog')
<1>1. ASSUME NEW r \in Requests, Save(r)
      PROVE  Step(catalog, catalog')
  BY <1>1, SaveStep
<1>2. QED
  BY <1>1 DEF Next, vars, ChangeMembership, Authenticate, CreateDraft, Submit, Verify,
              Activate, Hold, StartValidation, FinishValidation, Abandon

\* Type correctness of worker.js's semantic handlers and of their store: every
\* candidate, however late it arrives, is a catalog.
THEOREM TypeCorrect == Spec => []TypeOK
BY Invariant, PTL DEF IInv

\* Every stored catalog and every candidate on its way to the store passes
\* validateSemanticCatalog: exactly one active version per metric.
THEOREM OneActive == Spec => []OneActiveVersion
<1>1. IInv => OneActiveVersion
  BY DEF IInv, HandlerInv, OneActiveVersion, Held
<1>2. QED
  BY <1>1, Invariant, PTL

\* No commit of save overwrites another: the audit log has one event for each
\* revision after the first.
THEOREM NoLost == Spec => []NoLostUpdate
BY Invariant, PTL DEF IInv

\* No interleaving of the handlers removes or rewrites an audit event, a
\* validation run or the definition of an existing version.
THEOREM History == Spec => HistoryKept
<1>1. ASSUME IInv, [Next]_vars
      PROVE  /\ IsPrefix(catalog.audit, catalog'.audit)
             /\ \A v \in VersionIds :
                   /\ IsPrefix(catalog.runs[v], catalog'.runs[v])
                   /\ Exists(catalog, v) => /\ Exists(catalog', v)
                                           /\ catalog'.definition[v] = catalog.definition[v]
  <2>1. CASE catalog' = catalog
    BY <1>1, <2>1 DEF IInv, TypeOK, Catalog, IsPrefix
  <2>2. CASE Step(catalog, catalog')
    BY <1>1, <2>2, StepAudit, StepHistory DEF IInv, TypeOK
  <2>3. QED
    BY <1>1, <2>1, <2>2, CommitStep
<1>2. QED
  BY <1>1, Invariant, PTL DEF Spec, HistoryKept

\* A validation run is attached only to a version that compiles in the catalog
\* stored at that moment, whatever was activated during the query.
THEOREM RunsFit == Spec => RunsFitCatalog
<1>1. ASSUME IInv, [Next]_vars
      PROVE  \A v \in VersionIds :
                 catalog'.runs[v] # catalog.runs[v] => Compiles(catalog, v)
  BY <1>1, CommitStep, StepRuns DEF IInv, TypeOK
<1>2. QED
  BY <1>1, Invariant, PTL DEF Spec, RunsFitCatalog

\* What a request that no change of role overtook has read is still true: of
\* the role itself, of the permission to validate, of the permission to do what
\* the candidate says was done.
Current(h, standing) ==
    /\ h.pc = "loading" => h.role = standing[h.actor]
    /\ h.pc = "validating" => standing[h.actor] \in Permitted("validated")
    /\ h.pc = "saving" =>
           standing[h.actor] \in Permitted(Last(h.catalog.audit).action)

\* Every candidate ends with an event of the actor that asked for it.
SignedBy(h) == h.pc = "saving" => Last(h.catalog.audit).actor = h.actor

RoleInv ==
    /\ \A r \in Requests : SignedBy(request[r])
    /\ \A r \in Requests \ overtaken : Current(request[r], role)

LEMMA LastOfAppend ==
    ASSUME NEW c \in Catalog, NEW e \in Event
    PROVE  Last(Append(c.audit, e)) = e
<1>1. c.audit \in Seq(Event)
  BY DEF Catalog
<1>2. QED
  BY <1>1 DEF Last

\* A candidate is signed with the role its handler read.
LEMMA MutationRoles ==
    ASSUME IInv, RoleInv, NEW r \in Requests, NEW d, Mutation(r, d)
    PROVE  RoleInv'
<1>1. PICK e \in Event : d.audit = Append(catalog.audit, e) /\ Signed(r, e)
  BY DEF Mutation
<1>2. Last(d.audit) = e
  BY <1>1, LastOfAppend DEF IInv, TypeOK
<1> DEFINE h == [pc |-> "saving", actor |-> request[r].actor,
                 expected |-> revision, catalog |-> d]
<1>3. /\ request' = [request EXCEPT ![r] = h]
      /\ role' = role /\ overtaken' = overtaken
  BY DEF Mutation, Hold
<1>4. SignedBy(h)
  BY <1>1, <1>2 DEF SignedBy, Signed
<1>5. r \notin overtaken => Current(h, role)
  BY <1>1, <1>2 DEF Signed, Authorized, RoleInv, Current
<1> HIDE DEF h
<1>6. QED
  BY <1>3, <1>4, <1>5 DEF RoleInv, IInv, TypeOK

\* The query of a validation leaves its signature as it was.
LEMMA ValidationRoles ==
    ASSUME IInv, RoleInv, NEW r \in Requests,
           FinishValidation(r) \/ \E v \in VersionIds : StartValidation(r, v)
    PROVE  RoleInv'
<1>1. CASE \E v \in VersionIds : StartValidation(r, v)
  <2>1. PICK v \in VersionIds : StartValidation(r, v)
    BY <1>1
  <2>2. PICK now \in 0..clock :
            request' = [request EXCEPT ![r] =
                [pc |-> "validating", actor |-> request[r].actor, expected |-> revision,
                 catalog |-> catalog, version |-> v, now |-> now]]
    BY <2>1 DEF StartValidation
  <2>3. Authorized(r, "validated") /\ role' = role /\ overtaken' = overtaken
    BY <2>1 DEF StartValidation
  <2>4. SignedBy(request'[r])
    BY <2>2 DEF SignedBy, IInv, TypeOK
  <2>5. r \notin overtaken => Current(request'[r], role)
    BY <2>2, <2>3 DEF Authorized, RoleInv, Current, IInv, TypeOK
  <2>6. QED
    BY <2>2, <2>3, <2>4, <2>5 DEF RoleInv, IInv, TypeOK
<1>2. CASE FinishValidation(r)
  <2> DEFINE h == request[r]
  <2>1. PICK passed \in BOOLEAN :
            request' = [request EXCEPT ![r] =
                [pc |-> "saving", actor |-> h.actor, expected |-> h.expected,
                 catalog |-> Validated(h.catalog, h.actor, h.version, passed, h.now)]]
    BY <1>2 DEF FinishValidation
  <2>2. h.pc = "validating" /\ role' = role /\ overtaken' = overtaken
    BY <1>2 DEF FinishValidation
  <2>3. h.catalog \in Catalog /\ h.actor \in Actors /\ h.version \in VersionIds
    BY <2>2, RequestIs DEF IInv, Idle
  <2>4. r \notin overtaken => role[h.actor] \in Permitted("validated")
    BY <2>2 DEF RoleInv, Current
  <2> DEFINE d == Validated(h.catalog, h.actor, h.version, passed, h.now)
             e == [actor |-> h.actor, action |-> "validated", version |-> h.version]
  <2>5. /\ request'[r].pc = "saving" /\ request'[r].actor = h.actor
        /\ request'[r].catalog = d
    BY <2>1 DEF IInv, TypeOK
  <2>6. \A s \in Requests : s # r => request'[s] = request[s]
    BY <2>1 DEF IInv, TypeOK
  <2> HIDE DEF h
  <2>7. e \in Event /\ d.audit = Append(h.catalog.audit, e)
    BY <2>3 DEF Event, AuditActions, Validated, Audited, Catalog
  <2>8. Last(d.audit) = e
    BY <2>3, <2>7, LastOfAppend
  <2>9. Last(d.audit).actor = h.actor /\ Last(d.audit).action = "validated"
    BY <2>8
  <2> HIDE DEF d, e
  <2>10. SignedBy(request'[r])
    BY <2>5, <2>9 DEF SignedBy
  <2>11. r \notin overtaken => Current(request'[r], role)
    BY <2>4, <2>5, <2>9 DEF Current
  <2>12. QED
    BY <2>2, <2>6, <2>10, <2>11 DEF RoleInv
<1>3. QED
  BY <1>1, <1>2

LEMMA AuthenticateRoles ==
    ASSUME IInv, RoleInv, NEW r \in Requests, NEW actor \in Actors, Authenticate(r, actor)
    PROVE  RoleInv'
<1>1. /\ request' = [request EXCEPT ![r] =
             [pc |-> "loading", actor |-> actor, role |-> role[actor]]]
      /\ role' = role /\ overtaken' = overtaken
  BY DEF Authenticate
<1>2. request'[r] = [pc |-> "loading", actor |-> actor, role |-> role[actor]]
  BY <1>1 DEF IInv, TypeOK
<1>3. SignedBy(request'[r]) /\ Current(request'[r], role)
  BY <1>2 DEF SignedBy, Current
<1>4. QED
  BY <1>1, <1>3 DEF RoleInv, IInv, TypeOK

\* A change of role overtakes all requests in flight of the actor it concerns.
LEMMA ChangeMembershipRoles ==
    ASSUME IInv, RoleInv, NEW actor \in Actors, ChangeMembership(actor)
    PROVE  RoleInv'
<1>1. \A a \in Actors : a # actor => role'[a] = role[a]
  BY DEF ChangeMembership, IInv, TypeOK
<1>2. /\ request' = request
      /\ overtaken' = overtaken \cup
             {r \in Requests : request[r] # Idle /\ request[r].actor = actor}
  BY DEF ChangeMembership
<1>3. ASSUME NEW r \in Requests \ overtaken'
      PROVE  Current(request[r], role')
  <2>1. r \notin overtaken /\ (request[r] = Idle \/ request[r].actor # actor)
    BY <1>2
  <2>2. CASE request[r] = Idle
    BY <2>2 DEF Current, Idle
  <2>3. CASE request[r] # Idle
    <3>1. request[r].actor \in Actors
      BY <2>3, RequestIs DEF IInv
    <3>2. role'[request[r].actor] = role[request[r].actor]
      BY <1>1, <2>1, <2>3, <3>1
    <3>3. QED
      BY <2>1, <3>2 DEF Current, RoleInv
  <2>4. QED
    BY <2>2, <2>3
<1>4. QED
  BY <1>2, <1>3 DEF RoleInv

LEMMA EndRoles ==
    ASSUME IInv, RoleInv, NEW r \in Requests, Save(r) \/ Abandon(r)
    PROVE  RoleInv'
<1>1. /\ request' = [request EXCEPT ![r] = Idle]
      /\ role' = role /\ overtaken' = overtaken \ {r}
  BY DEF Save, Abandon
<1>2. request'[r] = Idle
  BY <1>1 DEF IInv, TypeOK
<1>3. SignedBy(request'[r]) /\ Current(request'[r], role)
  BY <1>2 DEF SignedBy, Current, Idle
<1>4. QED
  BY <1>1, <1>3 DEF RoleInv, IInv, TypeOK

LEMMA AlwaysRoles == Spec => []RoleInv
<1>1. Init => RoleInv
  BY DEF Init, RoleInv, SignedBy, Current, Idle
<1>2. ASSUME IInv, RoleInv, [Next]_vars
      PROVE  RoleInv'
  <2>1. ASSUME NEW actor \in Actors, ChangeMembership(actor)
        PROVE  RoleInv'
    BY <1>2, <2>1, ChangeMembershipRoles
  <2>2. ASSUME NEW r \in Requests, NEW actor \in Actors, Authenticate(r, actor)
        PROVE  RoleInv'
    BY <1>2, <2>2, AuthenticateRoles
  <2>3. ASSUME NEW r \in Requests, NEW draft \in Drafts, CreateDraft(r, draft[1], draft[2])
        PROVE  RoleInv'
    BY <1>2, <2>3, DraftMutation, MutationRoles DEF IInv
  <2>4. ASSUME NEW r \in Requests, NEW v \in VersionIds,
               Submit(r, v) \/ Verify(r, v) \/ Activate(r, v)
        PROVE  RoleInv'
    BY <1>2, <2>4, SubmitMutation, VerifyMutation, ActivateMutation, MutationRoles DEF IInv
  <2>5. ASSUME NEW r \in Requests,
               FinishValidation(r) \/ \E v \in VersionIds : StartValidation(r, v)
        PROVE  RoleInv'
    BY <1>2, <2>5, ValidationRoles
  <2>6. ASSUME NEW r \in Requests, Save(r) \/ Abandon(r)
        PROVE  RoleInv'
    BY <1>2, <2>6, EndRoles
  <2>7. CASE UNCHANGED vars
    BY <1>2, <2>7 DEF vars, RoleInv
  <2>8. QED
    BY <1>2, <2>1, <2>2, <2>3, <2>4, <2>5, <2>6, <2>7, AskedAssumption DEF Next
<1>3. QED
  BY <1>1, <1>2, Invariant, PTL DEF Spec

\* The roles of organization_memberships bind every commit, although a handler
\* reads the role once (auth.js) and uses it after the load, the query and the
\* save: what is committed is permitted to its actor at that moment, or by a
\* request that was in flight when the role changed.
THEOREM RolesBind == Spec => RoleChangesBind
<1>1. ASSUME IInv, RoleInv, [Next]_vars, catalog'.audit # catalog.audit
      PROVE  LET event == Last(catalog'.audit) IN
             \/ role[event.actor] \in Permitted(event.action)
             \/ \E r \in overtaken : request[r].actor = event.actor /\ request'[r] = Idle
  <2>1. PICK r \in Requests : Save(r)
    BY <1>1 DEF Next, vars, ChangeMembership, Authenticate, CreateDraft, Submit, Verify,
                Activate, Hold, StartValidation, FinishValidation, Abandon
  <2>2. request[r].pc = "saving" /\ catalog' = request[r].catalog /\ request'[r] = Idle
    BY <1>1, <2>1 DEF Save, IInv, TypeOK
  <2>3. Last(catalog'.audit).actor = request[r].actor
    BY <1>1, <2>2 DEF RoleInv, SignedBy
  <2>4. r \notin overtaken =>
            role[request[r].actor] \in Permitted(Last(catalog'.audit).action)
    BY <1>1, <2>2 DEF RoleInv, Current
  <2>5. QED
    BY <2>2, <2>3, <2>4
<1>2. QED
  BY <1>1, Invariant, AlwaysRoles, PTL DEF Spec, RoleChangesBind

-----------------------------------------------------------------------------
(***************************************************************************)
(* The audit log explains the statuses.                                    *)
(***************************************************************************)

\* Event i of catalog c moved version v.
Moves(c, v, i) == c.audit[i].version = v /\ c.audit[i].action # "validated"

\* LastMove is the last event that moved v, and the only such.
LEMMA LastMoveIs ==
    ASSUME NEW c \in Catalog, NEW v \in VersionIds
    PROVE  /\ LastMove(c, v) \in 0..Len(c.audit)
           /\ LastMove(c, v) # 0 => Moves(c, v, LastMove(c, v))
           /\ \A i \in 1..Len(c.audit) : Moves(c, v, i) => i <= LastMove(c, v)
<1> DEFINE T == {0} \cup {i \in DOMAIN c.audit : Moves(c, v, i)}
<1>1. Len(c.audit) \in Nat /\ DOMAIN c.audit = 1..Len(c.audit)
  BY DEF Catalog
<1>2. T \in SUBSET Nat /\ T # {} /\ \A i \in T : i <= Len(c.audit)
  BY <1>1
<1>3. Max(T) \in T /\ \A i \in T : i <= Max(T)
  <2>1. T \in SUBSET Int /\ Len(c.audit) \in Int
    BY <1>1, <1>2
  <2> HIDE DEF T
  <2>2. QED
    BY <1>2, <2>1, MaxOfIntegers
<1>4. LastMove(c, v) = Max(T)
  BY DEF LastMove, Moves
<1>5. QED
  BY <1>1, <1>3, <1>4

LEMMA LastMoveUnique ==
    ASSUME NEW c \in Catalog, NEW v \in VersionIds, NEW n \in 0..Len(c.audit),
           n # 0 => Moves(c, v, n),
           \A i \in 1..Len(c.audit) : Moves(c, v, i) => i <= n
    PROVE  LastMove(c, v) = n
<1>1. Len(c.audit) \in Nat
  BY DEF Catalog
<1>2. QED
  BY <1>1, LastMoveIs

\* An activation of some version of v's metric follows event i of the log.
ActivatedAfter(c, v, i) ==
    \E j \in i+1..Len(c.audit) :
        c.audit[j].action = "activated" /\ c.audit[j].version[1] = v[1]

\* The status of v that follows when event last was the last to move it.
StatusAfter(c, v, last) ==
    CASE last = 0 -> IF v[2] # 1 THEN "absent"
                     ELSE IF ActivatedAfter(c, v, last) THEN "superseded" ELSE "active"
      [] last # 0 /\ c.audit[last].action = "draft_created" -> "draft"
      [] last # 0 /\ c.audit[last].action = "submitted" -> "in_review"
      [] last # 0 /\ c.audit[last].action = "verified" -> "verified"
      [] last # 0 /\ c.audit[last].action = "activated" ->
             IF ActivatedAfter(c, v, last) THEN "superseded" ELSE "active"

\* An event that does not move v changes what the log says of v only when it
\* activates another version of its metric.
LEMMA EventOfOther ==
    ASSUME NEW c \in Catalog, NEW d \in Catalog, NEW e \in Event,
           d.audit = Append(c.audit, e), NEW v \in VersionIds,
           e.version # v \/ e.action = "validated"
    PROVE  AuditedStatus(d, v) =
               IF AuditedStatus(c, v) = "active"
                  /\ e.action = "activated" /\ e.version[1] = v[1]
               THEN "superseded" ELSE AuditedStatus(c, v)
<1> DEFINE n == Len(c.audit)
           L == LastMove(c, v)
<1>1. c.audit \in Seq(Event) /\ n \in Nat
  BY DEF Catalog
<1>2. /\ Len(d.audit) = n + 1
      /\ \A i \in 1..n : d.audit[i] = c.audit[i]
      /\ d.audit[n + 1] = e
  BY <1>1
<1>3. /\ L \in 0..n
      /\ L # 0 => Moves(c, v, L)
      /\ \A i \in 1..n : Moves(c, v, i) => i <= L
  BY LastMoveIs
<1> HIDE DEF L, n
<1>4. LastMove(d, v) = L
  <2>1. L # 0 => Moves(d, v, L)
    BY <1>1, <1>2, <1>3 DEF Moves
  <2>2. \A i \in 1..n+1 : Moves(d, v, i) => i <= L
    BY <1>1, <1>2, <1>3 DEF Moves
  <2>3. QED
    BY <1>1, <1>2, <1>3, <2>1, <2>2, LastMoveUnique
<1>5. ActivatedAfter(d, v, L) <=>
          \/ ActivatedAfter(c, v, L)
          \/ e.action = "activated" /\ e.version[1] = v[1]
  <2>1. L+1..n+1 = (L+1..n) \cup {n+1}
    BY <1>1, <1>3
  <2>2. \A i \in L+1..n : d.audit[i] = c.audit[i]
    BY <1>1, <1>2, <1>3
  <2>3. Len(c.audit) = n
    BY DEF n
  <2>4. QED
    BY <1>2, <2>1, <2>2, <2>3 DEF ActivatedAfter
<1>6. L # 0 => d.audit[L] = c.audit[L]
  BY <1>1, <1>2, <1>3
<1>7. L # 0 => c.audit[L].action \in AuditActions /\ c.audit[L].action # "validated"
  <2>1. L # 0 => c.audit[L] \in Event
    BY <1>1, <1>3 DEF n
  <2>2. QED
    BY <1>3, <2>1 DEF Event, Moves
<1>8. /\ AuditedStatus(c, v) = StatusAfter(c, v, L)
      /\ AuditedStatus(d, v) = StatusAfter(d, v, L)
  BY <1>4 DEF L, AuditedStatus, ActivatedAfter, StatusAfter
<1>9. QED
  BY <1>5, <1>6, <1>7, <1>8 DEF StatusAfter, AuditActions

\* An event that moves v alone decides what the log says of it.
LEMMA EventOfSelf ==
    ASSUME NEW c \in Catalog, NEW d \in Catalog, NEW e \in Event,
           d.audit = Append(c.audit, e), e.action # "validated"
    PROVE  AuditedStatus(d, e.version) =
               CASE e.action = "draft_created" -> "draft"
                 [] e.action = "submitted" -> "in_review"
                 [] e.action = "verified" -> "verified"
                 [] e.action = "activated" -> "active"
<1> DEFINE n == Len(c.audit)
<1>1. c.audit \in Seq(Event) /\ n \in Nat
  BY DEF Catalog
<1>2. Len(d.audit) = n + 1 /\ d.audit[n + 1] = e /\ e.version \in VersionIds
  BY <1>1 DEF Event
<1> HIDE DEF n
<1>3. LastMove(d, e.version) = n + 1
  <2>1. Moves(d, e.version, n + 1)
    BY <1>2 DEF Moves
  <2>2. QED
    BY <1>1, <1>2, <2>1, LastMoveUnique
<1>4. ~ActivatedAfter(d, e.version, n + 1)
  BY <1>1, <1>2 DEF ActivatedAfter
<1>5. AuditedStatus(d, e.version) = StatusAfter(d, e.version, n + 1)
  BY <1>3 DEF AuditedStatus, ActivatedAfter, StatusAfter
<1>6. e.action \in AuditActions
  BY DEF Event
<1>7. QED
  BY <1>1, <1>2, <1>4, <1>5, <1>6 DEF StatusAfter, AuditActions

\* The audit log of c accounts for the status of every version.
Explained(c) == \A v \in VersionIds : c.status[v] = AuditedStatus(c, v)

\* When an event sets the status of its own version to what it says, and
\* supersedes on activation, the log still explains every status.
LEMMA ExplainedKept ==
    ASSUME NEW c \in Catalog, NEW d \in Catalog, NEW e \in Event, Explained(c),
           d.audit = Append(c.audit, e), e.action # "validated",
           d.status[e.version] =
               CASE e.action = "draft_created" -> "draft"
                 [] e.action = "submitted" -> "in_review"
                 [] e.action = "verified" -> "verified"
                 [] e.action = "activated" -> "active",
           \A w \in VersionIds : w # e.version =>
               d.status[w] = IF IsActive(c, w) /\ e.action = "activated"
                                /\ e.version[1] = w[1]
                             THEN "superseded" ELSE c.status[w]
    PROVE  Explained(d)
<1> SUFFICES ASSUME NEW w \in VersionIds
             PROVE  d.status[w] = AuditedStatus(d, w)
  BY DEF Explained
<1>1. CASE w = e.version
  BY <1>1, EventOfSelf
<1>2. CASE w # e.version
  <2>1. c.status[w] = AuditedStatus(c, w)
    BY DEF Explained
  <2>2. QED
    BY <1>2, <2>1, EventOfOther DEF IsActive
<1>3. QED
  BY <1>1, <1>2

\* Every operation keeps the log an explanation of the statuses.
LEMMA StepExplained ==
    ASSUME NEW c \in Catalog, NEW d, Step(c, d), Explained(c)
    PROVE  Explained(d)
<1>0. d \in Catalog
  BY StepType
<1>1. CASE DraftStep(c, d)
  <2>1. PICK actor \in Actors, v \in VersionIds, def \in Definition :
            d = Drafted(c, actor, v, def)
    BY <1>1 DEF DraftStep
  <2> DEFINE e == [actor |-> actor, action |-> "draft_created", version |-> v]
  <2>2. e \in Event /\ e.version = v /\ e.action = "draft_created"
    BY DEF Event, AuditActions
  <2>3. d.audit = Append(c.audit, e) /\ d.status = [c.status EXCEPT ![v] = "draft"]
    BY <2>1 DEF Drafted, Audited, Catalog
  <2>4. c.status \in [VersionIds -> Statuses]
    BY DEF Catalog
  <2> HIDE DEF e
  <2>5. QED
    BY <1>0, <2>2, <2>3, <2>4, ExplainedKept
<1>2. CASE SubmitStep(c, d)
  <2>1. PICK actor \in Actors, v \in VersionIds : d = Submitted(c, actor, v)
    BY <1>2 DEF SubmitStep
  <2> DEFINE e == [actor |-> actor, action |-> "submitted", version |-> v]
  <2>2. e \in Event /\ e.version = v /\ e.action = "submitted"
    BY DEF Event, AuditActions
  <2>3. d.audit = Append(c.audit, e) /\ d.status = [c.status EXCEPT ![v] = "in_review"]
    BY <2>1 DEF Submitted, Audited, Catalog
  <2>4. c.status \in [VersionIds -> Statuses]
    BY DEF Catalog
  <2> HIDE DEF e
  <2>5. QED
    BY <1>0, <2>2, <2>3, <2>4, ExplainedKept
<1>3. CASE VerifyStep(c, d)
  <2>1. PICK actor \in Actors, v \in VersionIds : d = Verified(c, actor, v)
    BY <1>3 DEF VerifyStep
  <2> DEFINE e == [actor |-> actor, action |-> "verified", version |-> v]
  <2>2. e \in Event /\ e.version = v /\ e.action = "verified"
    BY DEF Event, AuditActions
  <2>3. d.audit = Append(c.audit, e) /\ d.status = [c.status EXCEPT ![v] = "verified"]
    BY <2>1 DEF Verified, Audited, Catalog
  <2>4. c.status \in [VersionIds -> Statuses]
    BY DEF Catalog
  <2> HIDE DEF e
  <2>5. QED
    BY <1>0, <2>2, <2>3, <2>4, ExplainedKept
<1>4. CASE ActivateStep(c, d)
  <2>1. PICK actor \in Actors, v \in VersionIds : d = Activated(c, actor, v)
    BY <1>4 DEF ActivateStep
  <2> DEFINE e == [actor |-> actor, action |-> "activated", version |-> v]
  <2>2. e \in Event /\ e.version = v /\ e.action = "activated"
    BY DEF Event, AuditActions
  <2>3. /\ d.audit = Append(c.audit, e)
        /\ d.status = [w \in VersionIds |->
                          IF w = v THEN "active"
                          ELSE IF w[1] = v[1] /\ IsActive(c, w) THEN "superseded"
                          ELSE c.status[w]]
    BY <2>1 DEF Activated, Audited, Catalog
  <2> HIDE DEF e
  <2>4. QED
    BY <1>0, <2>2, <2>3, ExplainedKept
<1>5. CASE ValidateStep(c, d)
  <2>1. PICK actor \in Actors, v \in VersionIds, passed \in BOOLEAN, now \in Nat :
            d = Validated(c, actor, v, passed, now)
    BY <1>5 DEF ValidateStep
  <2> DEFINE e == [actor |-> actor, action |-> "validated", version |-> v]
  <2>2. e \in Event /\ e.action = "validated"
    BY DEF Event, AuditActions
  <2>3. d.audit = Append(c.audit, e) /\ d.status = c.status
    BY <2>1 DEF Validated, Audited, Catalog
  <2> HIDE DEF e
  <2>4. QED
    BY <1>0, <2>2, <2>3, EventOfOther DEF Explained
<1>6. QED
  BY <1>1, <1>2, <1>3, <1>4, <1>5 DEF Step

\* The empty log of the seed explains that every first version is active.
LEMMA SeedExplained ==
    ASSUME NEW entity \in Entities
    PROVE  Explained(Seed(entity))
<1> DEFINE s == Seed(entity)
<1>1. s \in Catalog /\ s.audit = <<>> /\ Len(s.audit) = 0
  BY SeedValid DEF Seed
<1>2. \A v \in VersionIds : s.status[v] = IF v[2] = 1 THEN "active" ELSE "absent"
  BY DEF Seed
<1> HIDE DEF s
<1>3. \A v \in VersionIds : LastMove(s, v) = 0
  BY <1>1, LastMoveIs
<1>4. \A v \in VersionIds : ~ActivatedAfter(s, v, 0)
  BY <1>1 DEF ActivatedAfter
<1>5. \A v \in VersionIds : AuditedStatus(s, v) = StatusAfter(s, v, 0)
  BY <1>3 DEF AuditedStatus, ActivatedAfter, StatusAfter
<1>6. \A v \in VersionIds : s.status[v] = AuditedStatus(s, v)
  BY <1>2, <1>4, <1>5 DEF StatusAfter
<1>7. QED
  BY <1>6 DEF Explained, s

\* The log alone tells the status of every version, through drafts, reviews,
\* activations that supersede, and races of handlers: an auditor who replays
\* the events recorded by semantic-store.js arrives at the stored catalog.
THEOREM AuditExplains == Spec => []AuditExplainsStatus
<1>1. Init => Explained(catalog)
  BY SeedExplained DEF Init
<1>2. ASSUME IInv, Explained(catalog), [Next]_vars
      PROVE  Explained(catalog)'
  <2>1. CASE catalog' = catalog
    BY <1>2, <2>1
  <2>2. CASE Step(catalog, catalog')
    <3>1. Explained(catalog')
      BY <1>2, <2>2, StepExplained DEF IInv, TypeOK
    <3>2. QED
      BY <3>1
  <2>3. QED
    BY <1>2, <2>1, <2>2, CommitStep
<1>3. Explained(catalog) <=> AuditExplainsStatus
  BY DEF Explained, AuditExplainsStatus
<1>4. QED
  BY <1>1, <1>2, <1>3, Invariant, PTL DEF Spec

-----------------------------------------------------------------------------
(***************************************************************************)
(* The latest validation run.                                              *)
(***************************************************************************)

\* An operation makes a version verified only by verifying it, and then the
\* newest run of the catalog it is applied to passed.
LEMMA StepVerifies ==
    ASSUME NEW c \in Catalog, NEW d, Step(c, d), NEW v \in VersionIds,
           c.status[v] # "verified", d.status[v] = "verified"
    PROVE  LatestPassed(c, v)
<1>0. c.status \in [VersionIds -> Statuses]
  BY DEF Catalog
<1>1. CASE DraftStep(c, d)
  BY <1>0, <1>1 DEF DraftStep, Drafted, Catalog
<1>2. CASE SubmitStep(c, d)
  BY <1>0, <1>2 DEF SubmitStep, Submitted, Catalog
<1>3. CASE VerifyStep(c, d)
  <2>1. PICK actor \in Actors, w \in VersionIds :
            LatestPassed(c, w) /\ d = Verified(c, actor, w)
    BY <1>3 DEF VerifyStep
  <2>2. d.status = [c.status EXCEPT ![w] = "verified"]
    BY <2>1 DEF Verified, Catalog
  <2>3. v = w
    BY <1>0, <2>2
  <2>4. QED
    BY <2>1, <2>3
<1>4. CASE ActivateStep(c, d)
  BY <1>0, <1>4 DEF ActivateStep, Activated, Catalog
<1>5. CASE ValidateStep(c, d)
  BY <1>0, <1>5 DEF ValidateStep, Validated, Catalog
<1>6. QED
  BY <1>1, <1>2, <1>3, <1>4, <1>5 DEF Step

\* The check of verifyMetric still holds when its result is stored: whatever
\* the skew of the clocks, a version becomes verified only while the run of
\* the greatest createdAt in the stored catalog passed, although the check
\* read a snapshot that others may have overtaken.
THEOREM VerifiedOnNewest ==
    Spec => [][\A v \in VersionIds :
                  catalog.status[v] # "verified" /\ catalog'.status[v] = "verified"
                      => LatestPassed(catalog, v)]_vars
<1>1. ASSUME IInv, [Next]_vars
      PROVE  \A v \in VersionIds :
                 catalog.status[v] # "verified" /\ catalog'.status[v] = "verified"
                     => LatestPassed(catalog, v)
  BY <1>1, CommitStep, StepVerifies DEF IInv, TypeOK
<1>2. QED
  BY <1>1, Invariant, PTL DEF Spec

\* Every run of the catalog was made before time t.
Before(c, t) ==
    \A v \in VersionIds : \A i \in DOMAIN c.runs[v] : c.runs[v][i].createdAt < t

Chronological(c) ==
    \A v \in VersionIds : \A i, j \in DOMAIN c.runs[v] :
        i < j => c.runs[v][i].createdAt < c.runs[v][j].createdAt

\* The runs of every catalog, stored or held, are in order and in the past; a
\* handler that validates loaded its snapshot before it read its clock.
TimesIn(h, t) ==
    /\ h.pc \in {"validating", "saving"} => Before(h.catalog, t) /\ Chronological(h.catalog)
    /\ h.pc = "validating" => h.now < t /\ Before(h.catalog, h.now)

TimesInv ==
    /\ Before(catalog, clock) /\ Chronological(catalog)
    /\ \A r \in Requests : TimesIn(request[r], clock)

\* A run made after all others keeps the order.
LEMMA ValidatedTimes ==
    ASSUME NEW c \in Catalog, NEW actor \in Actors, NEW v \in VersionIds,
           NEW passed \in BOOLEAN, NEW now \in Nat, NEW t \in Nat, now < t,
           Before(c, now), Chronological(c)
    PROVE  /\ Before(Validated(c, actor, v, passed, now), t)
           /\ Chronological(Validated(c, actor, v, passed, now))
<1> DEFINE d == Validated(c, actor, v, passed, now)
           run == [passed |-> passed, createdAt |-> now]
<1>1. d.runs = [c.runs EXCEPT ![v] = Append(@, run)]
  BY DEF Validated, Catalog
<1>2. run \in Run /\ run.createdAt = now
  BY DEF Run
<1> HIDE DEF d, run
<1>3. c.runs \in [VersionIds -> Seq(Run)]
  BY DEF Catalog
<1>4. \A w \in VersionIds : w # v => d.runs[w] = c.runs[w]
  BY <1>1, <1>3
<1>5. d.runs[v] = Append(c.runs[v], run)
  BY <1>1, <1>3
<1>6. \A w \in VersionIds : \A i \in DOMAIN c.runs[w] : c.runs[w][i].createdAt \in Nat
  <2>1. \A w \in VersionIds : \A i \in DOMAIN c.runs[w] : c.runs[w][i] \in Run
    BY <1>3
  <2>2. QED
    BY <2>1 DEF Run
<1>7. Before(d, t)
  <2>1. ASSUME NEW w \in VersionIds, NEW i \in DOMAIN d.runs[w]
        PROVE  d.runs[w][i].createdAt < t
    <3>1. CASE w # v
      BY <1>4, <1>6, <2>1, <3>1 DEF Before
    <3>2. CASE w = v
      <4>1. CASE i \in DOMAIN c.runs[v]
        <5>1. d.runs[w][i] = c.runs[v][i]
          BY <1>2, <1>3, <1>5, <3>2, <4>1
        <5>2. QED
          BY <1>6, <4>1, <5>1 DEF Before
      <4>2. CASE i \notin DOMAIN c.runs[v]
        <5>1. d.runs[w][i] = run
          BY <1>2, <1>3, <1>5, <2>1, <3>2, <4>2
        <5>2. QED
          BY <1>2, <5>1
      <4>3. QED
        BY <4>1, <4>2
    <3>3. QED
      BY <3>1, <3>2
  <2>2. QED
    BY <2>1 DEF Before
<1>8. Chronological(d)
  <2>1. ASSUME NEW w \in VersionIds, NEW i \in DOMAIN d.runs[w],
               NEW j \in DOMAIN d.runs[w], i < j
        PROVE  d.runs[w][i].createdAt < d.runs[w][j].createdAt
    <3>1. CASE w # v
      BY <1>4, <2>1, <3>1 DEF Chronological
    <3>2. CASE w = v
      <4>1. /\ i \in DOMAIN c.runs[v]
            /\ d.runs[w][i] = c.runs[v][i]
        BY <1>2, <1>3, <1>5, <2>1, <3>2
      <4>2. CASE j \in DOMAIN c.runs[v]
        <5>1. d.runs[w][j] = c.runs[v][j]
          BY <1>2, <1>3, <1>5, <3>2, <4>2
        <5>2. QED
          BY <2>1, <4>1, <4>2, <5>1 DEF Chronological
      <4>3. CASE j \notin DOMAIN c.runs[v]
        <5>1. d.runs[w][j] = run
          BY <1>2, <1>3, <1>5, <2>1, <3>2, <4>3
        <5>2. QED
          BY <1>2, <4>1, <5>1 DEF Before
      <4>4. QED
        BY <4>2, <4>3
    <3>3. QED
      BY <3>1, <3>2
  <2>2. QED
    BY <2>1 DEF Chronological
<1>9. QED
  BY <1>7, <1>8 DEF d

\* Times stay in the past.
LEMMA BeforeLater ==
    ASSUME NEW c \in Catalog, NEW t \in Nat, NEW u \in Nat, t <= u, Before(c, t)
    PROVE  Before(c, u)
<1>1. ASSUME NEW v \in VersionIds, NEW i \in DOMAIN c.runs[v]
      PROVE  c.runs[v][i].createdAt < u
  <2>1. c.runs[v][i] \in Run
    BY DEF Catalog
  <2>2. c.runs[v][i].createdAt \in Nat
    BY <2>1 DEF Run
  <2>3. QED
    BY <2>2 DEF Before
<1>2. QED
  BY <1>1 DEF Before

\* What a mutation holds has the runs of the stored catalog.
LEMMA HoldTimes ==
    ASSUME IInv, TimesInv, NEW r \in Requests, NEW candidate,
           Hold(r, candidate), candidate.runs = catalog.runs
    PROVE  TimesInv'
<1>1. Before(candidate, clock) /\ Chronological(candidate)
  BY DEF TimesInv, Before, Chronological
<1>2. request'[r] = [pc |-> "saving", actor |-> request[r].actor,
                     expected |-> revision, catalog |-> candidate]
  BY DEF Hold, IInv, TypeOK
<1>3. \A s \in Requests : s # r => request'[s] = request[s]
  BY DEF Hold, IInv, TypeOK
<1>4. catalog' = catalog /\ clock' = clock
  BY DEF Hold
<1>5. /\ request'[r].catalog = candidate /\ request'[r].pc = "saving"
  BY <1>2
<1>6. TimesIn(request'[r], clock)
  BY <1>1, <1>5 DEF TimesIn
<1>7. \A s \in Requests : s # r => TimesIn(request'[s], clock)
  BY <1>3 DEF TimesInv
<1>8. QED
  BY <1>4, <1>6, <1>7 DEF TimesInv

\* A handler that validates has loaded the stored catalog by now.
LEMMA StartValidationTimes ==
    ASSUME MaxSkew = 0, IInv, TimesInv, NEW r \in Requests, NEW v \in VersionIds,
           StartValidation(r, v)
    PROVE  TimesInv'
<1>1. PICK now \in 0..clock :
          /\ now + MaxSkew >= clock
          /\ request' = [request EXCEPT ![r] =
                 [pc |-> "validating", actor |-> request[r].actor, expected |-> revision,
                  catalog |-> catalog, version |-> v, now |-> now]]
  BY DEF StartValidation
<1>2. clock \in Nat /\ clock' = clock + 1 /\ catalog' = catalog /\ now = clock
  BY <1>1 DEF StartValidation, IInv, TypeOK
<1>3. /\ request'[r].catalog = catalog /\ request'[r].now = clock
  BY <1>1, <1>2 DEF IInv, TypeOK
<1>4. \A s \in Requests : s # r => request'[s] = request[s]
  BY <1>1 DEF IInv, TypeOK
<1>5. \A c \in Catalog : Before(c, clock) => Before(c, clock')
  BY <1>2, BeforeLater
<1>6. TimesIn(request'[r], clock')
  BY <1>1, <1>2, <1>3, <1>5 DEF TimesInv, TimesIn, IInv, TypeOK
<1>7. ASSUME NEW s \in Requests, s # r
      PROVE  TimesIn(request'[s], clock')
  <2>1. request[s].pc \in {"validating", "saving"} => request[s].catalog \in Catalog
    BY RequestIs DEF IInv
  <2>2. request[s].pc = "validating" => request[s].now \in Nat
    BY RequestIs DEF IInv
  <2>3. QED
    BY <1>2, <1>4, <1>5, <1>7, <2>1, <2>2 DEF TimesInv, TimesIn
<1>8. QED
  BY <1>2, <1>5, <1>6, <1>7 DEF TimesInv, TimesIn, IInv, TypeOK

\* The answer of the warehouse attaches a run made after those of the snapshot.
LEMMA FinishValidationTimes ==
    ASSUME IInv, TimesInv, NEW r \in Requests, FinishValidation(r)
    PROVE  TimesInv'
<1> DEFINE h == request[r]
<1>1. PICK passed \in BOOLEAN :
          request' = [request EXCEPT ![r] =
              [pc |-> "saving", actor |-> h.actor, expected |-> h.expected,
               catalog |-> Validated(h.catalog, h.actor, h.version, passed, h.now)]]
  BY DEF FinishValidation
<1>2. h \in Request /\ h # Idle /\ h.pc = "validating" /\ TimesIn(h, clock)
  BY DEF FinishValidation, IInv, TypeOK, Idle, TimesInv, TimesIn
<1>3. /\ h.catalog \in Catalog /\ h.actor \in Actors
      /\ h.version \in VersionIds /\ h.now \in Nat
  BY <1>2 DEF Request, Idle
<1> DEFINE d == Validated(h.catalog, h.actor, h.version, passed, h.now)
<1>4. request'[r].catalog = d /\ request'[r].pc = "saving"
  BY <1>1 DEF IInv, TypeOK
<1>5. \A s \in Requests : s # r => request'[s] = request[s]
  BY <1>1 DEF IInv, TypeOK
<1> HIDE DEF h
<1>6. Before(d, clock) /\ Chronological(d)
  BY <1>2, <1>3, ValidatedTimes DEF TimesIn, IInv, TypeOK
<1>7. catalog' = catalog /\ clock' = clock
  BY DEF FinishValidation
<1> HIDE DEF d
<1>8. TimesIn(request'[r], clock)
  BY <1>4, <1>6 DEF TimesIn
<1>9. \A s \in Requests : s # r => TimesIn(request'[s], clock)
  BY <1>5 DEF TimesInv
<1>10. QED
  BY <1>7, <1>8, <1>9 DEF TimesInv

LEMMA SaveTimes ==
    ASSUME IInv, TimesInv, NEW r \in Requests, Save(r) \/ Abandon(r)
    PROVE  TimesInv'
<1>1. request'[r] = Idle /\ clock' = clock
  BY DEF Save, Abandon, IInv, TypeOK
<1>2. \A s \in Requests : s # r => request'[s] = request[s]
  BY DEF Save, Abandon, IInv, TypeOK
<1>3. Before(catalog', clock) /\ Chronological(catalog')
  BY DEF Save, Abandon, Idle, TimesInv, TimesIn
<1>4. TimesIn(request'[r], clock)
  BY <1>1 DEF TimesIn, Idle
<1>5. QED
  BY <1>1, <1>2, <1>3, <1>4 DEF TimesInv

\* While the clocks of the isolates agree, the times stay in order.
LEMMA NextTimes ==
    ASSUME MaxSkew = 0, IInv, TimesInv, [Next]_vars
    PROVE  TimesInv'
<1>1. ASSUME NEW actor \in Actors, ChangeMembership(actor)
      PROVE  TimesInv'
  BY <1>1 DEF ChangeMembership, TimesInv
<1>2. ASSUME NEW r \in Requests, NEW actor \in Actors, Authenticate(r, actor)
      PROVE  TimesInv'
  BY <1>2 DEF Authenticate, TimesInv, TimesIn, IInv, TypeOK
<1>3. ASSUME NEW r \in Requests, NEW draft \in Drafts, CreateDraft(r, draft[1], draft[2])
      PROVE  TimesInv'
  BY <1>3, DraftMutation, HoldTimes DEF IInv, Mutation
<1>4. ASSUME NEW r \in Requests, NEW v \in VersionIds,
             Submit(r, v) \/ Verify(r, v) \/ Activate(r, v)
      PROVE  TimesInv'
  BY <1>4, SubmitMutation, VerifyMutation, ActivateMutation, HoldTimes DEF IInv, Mutation
<1>5. ASSUME NEW r \in Requests, NEW v \in VersionIds, StartValidation(r, v)
      PROVE  TimesInv'
  BY <1>5, StartValidationTimes
<1>6. ASSUME NEW r \in Requests, FinishValidation(r) \/ Save(r) \/ Abandon(r)
      PROVE  TimesInv'
  BY <1>6, FinishValidationTimes, SaveTimes
<1>7. CASE UNCHANGED vars
  BY <1>7 DEF vars, TimesInv
<1>8. QED
  BY <1>1, <1>2, <1>3, <1>4, <1>5, <1>6, <1>7, AskedAssumption DEF Next

LEMMA AlwaysTimes == ASSUME MaxSkew = 0 PROVE Spec => []TimesInv
<1>1. Init => TimesInv
  BY DEF Init, Seed, TimesInv, TimesIn, Before, Chronological, Idle
<1>2. QED
  BY <1>1, NextTimes, Invariant, PTL DEF Spec

\* The runs of a version are attached in the order in which they were made:
\* a validation that started earlier but answered later is refused by save.
\* Two isolates whose clocks differ could attach them otherwise.
THEOREM RunsInOrder == ASSUME MaxSkew = 0 PROVE Spec => []RunsChronological
<1>1. TimesInv => RunsChronological
  BY DEF TimesInv, Chronological, RunsChronological
<1>2. QED
  BY <1>1, AlwaysTimes, PTL

\* Of runs in order the newest is the last.
LEMMA LatestIsLast ==
    ASSUME NEW c \in Catalog, Chronological(c), NEW v \in VersionIds
    PROVE  LatestPassed(c, v) <=> LastRunPassed(c, v)
<1> DEFINE runs == c.runs[v]
           n == Len(runs)
<1>1. runs \in Seq(Run) /\ n \in Nat /\ DOMAIN runs = 1..n
  BY DEF Catalog
<1>2. \A i, j \in 1..n : i < j => runs[i].createdAt < runs[j].createdAt
  BY <1>1 DEF Chronological
<1>3. \A i \in 1..n : runs[i].createdAt \in Nat
  <2>1. \A i \in 1..n : runs[i] \in Run
    BY <1>1
  <2>2. QED
    BY <2>1 DEF Run
<1>4. runs = <<>> <=> n = 0
  BY <1>1
<1> HIDE DEF n, runs
<1>5. \A i \in 1..n : IsLatest(runs, i) <=> i = n
  BY <1>1, <1>2, <1>3 DEF IsLatest
<1>6. LatestPassed(c, v) <=> \E i \in 1..n : i = n /\ runs[i].passed
  BY <1>1, <1>5 DEF LatestPassed, IsLatest, runs
<1>7. LastRunPassed(c, v) <=> runs # <<>> /\ runs[n].passed
  BY DEF LastRunPassed, runs, n
<1>8. QED
  BY <1>1, <1>4, <1>6, <1>7

\* Verification is blocked unless the run attached last passed, whichever
\* handlers raced to attach theirs (docs/PHASE2.md).
THEOREM VerifiedOnLatest == ASSUME MaxSkew = 0 PROVE Spec => VerifiedOnLatestRun
<1>1. ASSUME IInv, TimesInv, [Next]_vars
      PROVE  \A v \in VersionIds :
                 catalog.status[v] # "verified" /\ catalog'.status[v] = "verified"
                     => LastRunPassed(catalog, v)
  BY <1>1, CommitStep, StepVerifies, LatestIsLast DEF IInv, TypeOK, TimesInv
<1>2. QED
  BY <1>1, Invariant, AlwaysTimes, PTL DEF Spec, VerifiedOnLatestRun

-----------------------------------------------------------------------------
(***************************************************************************)
(* The handlers keep the promise of MetricRegistry.                        *)
(***************************************************************************)

\* The verdicts of catalog c, as the registry sees them.
VerdictsOf(c) ==
    [v \in VersionIds |->
        IF c.runs[v] = <<>> THEN "none"
        ELSE IF LastRunPassed(c, v) THEN "passed" ELSE "failed"]

LEMMA VerdictsAre ==
    /\ [v \in VersionIds |-> Verdict(v)] = VerdictsOf(catalog)
    /\ [v \in VersionIds |-> Verdict(v)]' = VerdictsOf(catalog')
<1>1. [v \in VersionIds |-> Verdict(v)] = VerdictsOf(catalog)
  BY DEF Verdict, VerdictsOf
<1>2. [v \in VersionIds |-> Verdict(v)]' = VerdictsOf(catalog')
  BY DEF Verdict, VerdictsOf, LastRunPassed
<1>3. QED
  BY <1>1, <1>2

\* Runs that stay leave the verdicts.
LEMMA SameVerdicts ==
    ASSUME NEW c \in Catalog, NEW d \in Catalog, d.runs = c.runs
    PROVE  VerdictsOf(d) = VerdictsOf(c)
BY DEF VerdictsOf, LastRunPassed

LEMMA DraftRefines ==
    ASSUME catalog \in Catalog, DraftStep(catalog, catalog')
    PROVE  Registry!Next
<1>1. PICK actor \in Actors, v \in VersionIds, def \in Definition :
          ~Exists(catalog, v) /\ catalog' = Drafted(catalog, actor, v, def)
  BY DEF DraftStep
<1>2. catalog' \in Catalog /\ catalog'.runs = catalog.runs
  BY <1>1, DraftedType, MutationRuns
<1>3. /\ catalog'.status = [catalog.status EXCEPT ![v] = "draft"]
      /\ catalog'.definition = [catalog.definition EXCEPT ![v] = def]
  BY <1>1 DEF Drafted, Catalog
<1>4. v \in Registry!Versions /\ def \in Registry!Definitions
  BY DEF Registry!Versions, VersionIds, Registry!Definitions, Definition
<1>5. Registry!Draft(v)
  BY <1>1, <1>2, <1>3, <1>4, VerdictsAre, SameVerdicts DEF Registry!Draft, Exists
<1>6. QED
  BY <1>4, <1>5 DEF Registry!Next

LEMMA SubmitRefines ==
    ASSUME catalog \in Catalog, SubmitStep(catalog, catalog')
    PROVE  Registry!Next
<1>1. PICK actor \in Actors, v \in VersionIds :
          catalog.status[v] = "draft" /\ catalog' = Submitted(catalog, actor, v)
  BY DEF SubmitStep
<1>2. catalog' \in Catalog /\ catalog'.runs = catalog.runs
  BY <1>1, SubmittedType, MutationRuns
<1>3. /\ catalog'.status = [catalog.status EXCEPT ![v] = "in_review"]
      /\ catalog'.definition = catalog.definition
  BY <1>1 DEF Submitted, Catalog
<1>4. Registry!Submit(v)
  BY <1>1, <1>2, <1>3, VerdictsAre, SameVerdicts DEF Registry!Submit
<1>5. v \in Registry!Versions
  BY DEF Registry!Versions, VersionIds
<1>6. QED
  BY <1>4, <1>5 DEF Registry!Next

\* The registry verifies on the verdict of the last run; the handler checked
\* the newest one.
LEMMA VerifyRefines ==
    ASSUME catalog \in Catalog, Chronological(catalog), VerifyStep(catalog, catalog')
    PROVE  Registry!Next
<1>1. PICK actor \in Actors, v \in VersionIds :
          /\ catalog.status[v] = "in_review" /\ LatestPassed(catalog, v)
          /\ catalog' = Verified(catalog, actor, v)
  BY DEF VerifyStep
<1>2. catalog' \in Catalog /\ catalog'.runs = catalog.runs
  BY <1>1, VerifiedType, MutationRuns
<1>3. /\ catalog'.status = [catalog.status EXCEPT ![v] = "verified"]
      /\ catalog'.definition = catalog.definition
  BY <1>1 DEF Verified, Catalog
<1>4. VerdictsOf(catalog)[v] = "passed"
  <2>1. LastRunPassed(catalog, v)
    BY <1>1, LatestIsLast
  <2>2. QED
    BY <2>1 DEF VerdictsOf, LastRunPassed
<1>5. Registry!Verify(v)
  BY <1>1, <1>2, <1>3, <1>4, VerdictsAre, SameVerdicts DEF Registry!Verify
<1>6. v \in Registry!Versions
  BY DEF Registry!Versions, VersionIds
<1>7. QED
  BY <1>5, <1>6 DEF Registry!Next

LEMMA ActivateRefines ==
    ASSUME catalog \in Catalog, ActivateStep(catalog, catalog')
    PROVE  Registry!Next
<1>1. PICK actor \in Actors, v \in VersionIds :
          catalog.status[v] = "verified" /\ catalog' = Activated(catalog, actor, v)
  BY DEF ActivateStep
<1>2. catalog' \in Catalog /\ catalog'.runs = catalog.runs
  BY <1>1, ActivatedType, MutationRuns
<1>3. /\ catalog'.status = [w \in VersionIds |->
                               IF w = v THEN "active"
                               ELSE IF w[1] = v[1] /\ IsActive(catalog, w) THEN "superseded"
                               ELSE catalog.status[w]]
      /\ catalog'.definition = catalog.definition
  BY <1>1 DEF Activated, Catalog
<1>4. VersionIds = Registry!Versions
  BY DEF Registry!Versions, VersionIds
<1>5. Registry!Activate(v)
  BY <1>1, <1>2, <1>3, <1>4, VerdictsAre, SameVerdicts DEF Registry!Activate, IsActive
<1>6. QED
  BY <1>4, <1>5 DEF Registry!Next

\* A validation that is attached gives the version the verdict of its run.
LEMMA ValidateRefines ==
    ASSUME catalog \in Catalog, ValidateStep(catalog, catalog')
    PROVE  Registry!Next
<1>1. PICK actor \in Actors, v \in VersionIds, passed \in BOOLEAN, now \in Nat :
          Exists(catalog, v) /\ catalog' = Validated(catalog, actor, v, passed, now)
  BY DEF ValidateStep
<1> DEFINE run == [passed |-> passed, createdAt |-> now]
           outcome == IF passed THEN "passed" ELSE "failed"
<1>2. /\ catalog'.status = catalog.status
      /\ catalog'.definition = catalog.definition
      /\ catalog'.runs = [catalog.runs EXCEPT ![v] = Append(@, run)]
  BY <1>1 DEF Validated, Catalog
<1>3. run \in Run /\ run.passed = passed
  BY DEF Run
<1>4. catalog.runs \in [VersionIds -> Seq(Run)]
  BY DEF Catalog
<1> HIDE DEF run
<1>5. catalog'.runs[v] = Append(catalog.runs[v], run)
  BY <1>2, <1>4
<1>6. /\ catalog'.runs[v] # <<>>
      /\ catalog'.runs[v][Len(catalog'.runs[v])] = run
  BY <1>3, <1>4, <1>5
<1>7. VerdictsOf(catalog')[v] = outcome
  BY <1>3, <1>6 DEF VerdictsOf, LastRunPassed
<1>8. \A w \in VersionIds : w # v => VerdictsOf(catalog')[w] = VerdictsOf(catalog)[w]
  BY <1>2, <1>4 DEF VerdictsOf, LastRunPassed
<1> HIDE DEF outcome
<1>9. VerdictsOf(catalog') = [VerdictsOf(catalog) EXCEPT ![v] = outcome]
  BY <1>7, <1>8 DEF VerdictsOf
<1>10. v \in Registry!Versions /\ outcome \in {"passed", "failed"}
  BY DEF Registry!Versions, VersionIds, outcome
<1>11. Registry!Validate(v)
  BY <1>1, <1>2, <1>9, <1>10, VerdictsAre DEF Registry!Validate, Exists
<1>12. QED
  BY <1>10, <1>11 DEF Registry!Next

\* The handlers, with their snapshots, waits and conflicts, implement the
\* registry of atomic operations that docs/PHASE2.md promises: each step of a
\* handler is one operation of the registry or leaves it as it is.
THEOREM ImplementsRegistry == ASSUME MaxSkew = 0 PROVE Spec => RegistrySpec
<1>1. Init => Registry!Init
  <2> SUFFICES ASSUME Init PROVE Registry!Init
    OBVIOUS
  <2>1. PICK entity \in Entities : catalog = Seed(entity)
    BY DEF Init
  <2>2. VersionIds = Registry!Versions /\ Definition = Registry!Definitions
    BY DEF Registry!Versions, VersionIds, Registry!Definitions, Definition
  <2>3. catalog.definition \in [VersionIds -> Definition]
    BY <2>1, SeedValid DEF Catalog
  <2>4. VerdictsOf(catalog) = [v \in VersionIds |-> "none"]
    BY <2>1 DEF Seed, VerdictsOf
  <2>5. QED
    BY <2>1, <2>2, <2>3, <2>4, VerdictsAre DEF Registry!Init, Seed
<1>2. ASSUME IInv, TimesInv, [Next]_vars
      PROVE  [Registry!Next]_(Registry!registry)
  <2>1. CASE catalog' = catalog
    BY <2>1, VerdictsAre DEF Registry!registry
  <2>2. CASE Step(catalog, catalog')
    BY <1>2, <2>2, DraftRefines, SubmitRefines, VerifyRefines, ActivateRefines,
       ValidateRefines DEF Step, IInv, TypeOK, TimesInv
  <2>3. QED
    BY <1>2, <2>1, <2>2, CommitStep
<1>3. QED
  BY <1>1, <1>2, Invariant, AlwaysTimes, PTL DEF Spec, RegistrySpec, Registry!Spec

=============================================================================
