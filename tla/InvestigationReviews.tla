------------------------- MODULE InvestigationReviews -------------------------
(***************************************************************************)
(* The investigation records of one organization and the handlers that     *)
(* change them: POST /v1/investigations and POST                           *)
(* /v1/investigations/{id}/conclusion of src/worker.js, with               *)
(* investigation-review.js and the investigation store.                    *)
(*                                                                         *)
(* An investigation gets its id from the metric and the millisecond in     *)
(* which it began, and is inserted when its queries are answered.  A       *)
(* review loads the record, appends to the copy, and writes the whole copy *)
(* back; the record has no revision.                                       *)
(***************************************************************************)
EXTENDS Naturals, SequencesExt

CONSTANTS
    Metrics,     \* ids of metrics
    Actors,      \* user ids
    RoleOf,      \* [Actors -> roles], the membership of each actor
    Decisions,   \* what a review may decide
    Requests,    \* handlers that may be in flight together
    MaxTime,     \* bound: the clock, in milliseconds
    MaxReviews   \* bound: reviews of one investigation

ASSUME BoundAssumption == MaxTime \in Nat

VARIABLES
    records,     \* investigation_records: the record of each id in use
    request,     \* what each handler holds between two of its awaits
    clock        \* the time, in milliseconds

vars == <<records, request, clock>>

Times == 0..MaxTime

Ids == Metrics \X Times

Review == [decision: Decisions, actor: Actors, createdAt: Times]

\* The roles with investigation:create and investigation:review.
Investigators == {"analyst", "metric_editor", "metric_approver", "organization_admin"}

MayInvestigate(actor) == RoleOf[actor] \in Investigators

\* Of a record we keep who asked for it, its reviews, and its resolution, the
\* review that counts (<<>> while there is none).
Record ==
    [requestedBy: Actors, reviewHistory: Seq(Review), resolution: {<<>>} \cup Review]

Idle == [pc |-> "idle"]

Request ==
    {Idle}
    \cup [pc: {"investigating"}, id: Ids, actor: Actors]
    \cup [pc: {"reviewing"}, id: Ids, record: Record]

Stored == DOMAIN records

TypeOK ==
    /\ Stored \subseteq Ids
    /\ records \in [Stored -> Record]
    /\ request \in [Requests -> Request]
    /\ clock \in Times

-----------------------------------------------------------------------------
Init ==
    /\ records = <<>>
    /\ request = [r \in Requests |-> Idle]
    /\ clock = 0

Tick ==
    /\ clock < MaxTime
    /\ clock' = clock + 1
    /\ UNCHANGED <<records, request>>

\* The handler reads the clock once and then queries the warehouse.
StartInvestigation(r, actor, metric) ==
    /\ MayInvestigate(actor)
    /\ request[r] = Idle
    /\ request' = [request EXCEPT ![r] =
           [pc |-> "investigating", id |-> <<metric, clock>>, actor |-> actor]]
    /\ UNCHANGED <<records, clock>>

NewRecord(actor) == [requestedBy |-> actor, reviewHistory |-> <<>>, resolution |-> <<>>]

\* The records with one more, under its id.
Inserted(id, record) ==
    [i \in Stored \cup {id} |-> IF i = id THEN record ELSE records[i]]

\* Mutant: the insert replaces the record that has the id.
Upsert(r) ==
    /\ request[r].pc = "investigating"
    /\ records' = Inserted(request[r].id, NewRecord(request[r].actor))
    /\ request' = [request EXCEPT ![r] = Idle]
    /\ UNCHANGED clock

\* save: INSERT, refused with 409 INVESTIGATION_ALREADY_EXISTS (see Abandon)
\* when the id is in use.
SaveInvestigation(r) ==
    /\ request[r].pc = "investigating"
    /\ request[r].id \notin Stored
    /\ records' = Inserted(request[r].id, NewRecord(request[r].actor))
    /\ request' = [request EXCEPT ![r] = Idle]
    /\ UNCHANGED clock

\* Mutant: the resolution loses its author.
ReviewedAnonymously(record, review) ==
    [requestedBy |-> record.requestedBy,
     reviewHistory |-> Append(record.reviewHistory, review),
     resolution |-> [review EXCEPT !.actor = "unknown"]]

\* reviewInvestigation: the review is appended and becomes the resolution.
Reviewed(record, review) ==
    [requestedBy |-> record.requestedBy,
     reviewHistory |-> Append(record.reviewHistory, review),
     resolution |-> review]

\* get, then reviewInvestigation on the copy.
ReviewInvestigation(r, actor, id, decision) ==
    /\ MayInvestigate(actor)
    /\ request[r] = Idle
    /\ id \in Stored
    /\ Len(records[id].reviewHistory) < MaxReviews
    /\ LET review == [decision |-> decision, actor |-> actor, createdAt |-> clock] IN
       request' = [request EXCEPT ![r] =
           [pc |-> "reviewing", id |-> id, record |-> Reviewed(records[id], review)]]
    /\ UNCHANGED <<records, clock>>

\* update: UPDATE ... SET record, whatever the record has become.
UpdateInvestigation(r) ==
    /\ request[r].pc = "reviewing"
    /\ records' = [records EXCEPT ![request[r].id] = request[r].record]
    /\ request' = [request EXCEPT ![r] = Idle]
    /\ UNCHANGED clock

\* The handler ends without a write.
Abandon(r) ==
    /\ request[r] # Idle
    /\ request' = [request EXCEPT ![r] = Idle]
    /\ UNCHANGED <<records, clock>>

Next ==
    \/ Tick
    \/ \E r \in Requests :
          \/ \E actor \in Actors :
                \/ \E metric \in Metrics : StartInvestigation(r, actor, metric)
                \/ \E id \in Stored, decision \in Decisions :
                      ReviewInvestigation(r, actor, id, decision)
          \/ SaveInvestigation(r)
          \/ UpdateInvestigation(r)
          \/ Abandon(r)

Spec == Init /\ [][Next]_vars

-----------------------------------------------------------------------------
\* An investigation is never replaced by another one, although two that begin
\* in the same millisecond get the same id: what is stored stays with whoever
\* asked for it.
InvestigationsKept ==
    [][\A id \in Stored : id \in DOMAIN records' /\ records'[id].requestedBy = records[id].requestedBy]_vars

\* Reviews are append-only: no step removes or rewrites a review.
ReviewsAppendOnly ==
    [][\A id \in Stored : IsPrefix(records[id].reviewHistory, records'[id].reviewHistory)]_vars
=============================================================================
