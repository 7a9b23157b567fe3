----------------------- MODULE InvestigationReviewsProofs -----------------------
(***************************************************************************)
(* Theorems of InvestigationReviews, for any metrics, actors, handlers and *)
(* bounds.                                                                 *)
(*                                                                         *)
(* A review is written back as a whole record, whatever the record has     *)
(* become.  That it cannot hand an investigation over to somebody else     *)
(* rests on what is said here of a handler between its read and its write: *)
(* the copy it holds was asked for by whoever the stored record says, and  *)
(* the id is in use, so that no insert can come in between.                *)
(***************************************************************************)
EXTENDS InvestigationReviews, TLAPS

\* What a handler that reviews holds is a copy of a record that is still there.
CopyKept(r) ==
    request[r].pc = "reviewing" =>
        /\ request[r].id \in Stored
        /\ request[r].record.requestedBy = records[request[r].id].requestedBy

ReviewsInv ==
    /\ TypeOK
    /\ \A r \in Requests : CopyKept(r)

\* What a step leaves of the records that are stored: all of them, each with
\* whoever asked for it.
Kept ==
    \A id \in Stored :
        id \in DOMAIN records' /\ records'[id].requestedBy = records[id].requestedBy

-----------------------------------------------------------------------------
\* A handler is idle, or has all that goes with its stage.
LEMMA RequestCases ==
    ASSUME TypeOK, NEW r \in Requests
    PROVE  /\ request[r] = Idle \/ request[r].pc \in {"investigating", "reviewing"}
           /\ request[r].pc = "investigating"
                  => request[r].id \in Ids /\ request[r].actor \in Actors
           /\ request[r].pc = "reviewing"
                  => request[r].id \in Ids /\ request[r].record \in Record
  <1>1. request[r] \in Request
    BY DEF TypeOK
  <1>2. CASE request[r] = Idle
    BY <1>2 DEF Idle
  <1>3. CASE request[r] \in [pc: {"investigating"}, id: Ids, actor: Actors]
    BY <1>3
  <1>4. CASE request[r] \in [pc: {"reviewing"}, id: Ids, record: Record]
    BY <1>4
  <1> QED BY <1>1, <1>2, <1>3, <1>4 DEF Request

LEMMA ReviewedType ==
    ASSUME NEW record \in Record, NEW review \in Review
    PROVE  /\ Reviewed(record, review) \in Record
           /\ Reviewed(record, review).requestedBy = record.requestedBy
  <1> DEFINE history == Append(record.reviewHistory, review)
  <1>1. record.requestedBy \in Actors /\ record.reviewHistory \in Seq(Review)
    BY DEF Record
  <1>2. history \in Seq(Review)
    BY <1>1
  <1>3. Reviewed(record, review) =
            [requestedBy |-> record.requestedBy, reviewHistory |-> history, resolution |-> review]
    BY DEF Reviewed
  <1> HIDE DEF history
  <1> QED BY <1>1, <1>2, <1>3 DEF Record

\* A step that gives one handler q and leaves the records as they are.
LEMMA RequestStep ==
    ASSUME ReviewsInv, NEW r \in Requests, NEW q \in Request,
           request' = [request EXCEPT ![r] = q], records' = records, clock' = clock,
           q.pc = "reviewing" =>
               q.id \in Stored /\ q.record.requestedBy = records[q.id].requestedBy
    PROVE  ReviewsInv' /\ Kept
  <1>1. TypeOK' /\ Kept
    BY DEF ReviewsInv, TypeOK, Kept, Stored
  <1>2. ASSUME NEW s \in Requests PROVE CopyKept(s)'
    <2>1. request'[s] = IF s = r THEN q ELSE request[s]
      BY DEF ReviewsInv, TypeOK
    <2> QED BY <2>1 DEF ReviewsInv, CopyKept, Stored
  <1> QED BY <1>1, <1>2 DEF ReviewsInv

\* A step that stores a record under an id, keeping with whom it is.
LEMMA StoreStep ==
    ASSUME ReviewsInv, NEW r \in Requests, NEW id \in Ids, NEW record \in Record,
           id \in Stored => record.requestedBy = records[id].requestedBy,
           records' = [i \in Stored \cup {id} |-> IF i = id THEN record ELSE records[i]],
           request' = [request EXCEPT ![r] = Idle], clock' = clock
    PROVE  ReviewsInv' /\ Kept
  <1>1. /\ Stored' = Stored \cup {id}
        /\ \A i \in Stored' : records'[i] = IF i = id THEN record ELSE records[i]
    BY DEF Stored
  <1>2. Kept
    BY <1>1 DEF Kept, Stored
  <1>3. TypeOK'
    <2>1. Idle \in Request
      BY DEF Request
    <2>2. request' \in [Requests -> Request] /\ clock' \in Times
      BY <2>1 DEF ReviewsInv, TypeOK
    <2>3. records' \in [Stored' -> Record] /\ Stored' \subseteq Ids
      BY <1>1 DEF ReviewsInv, TypeOK
    <2> QED BY <2>2, <2>3 DEF TypeOK, Times
  <1>4. ASSUME NEW s \in Requests PROVE CopyKept(s)'
    <2>1. request'[s] = IF s = r THEN Idle ELSE request[s]
      BY DEF ReviewsInv, TypeOK
    <2>2. CASE s = r
      BY <2>1, <2>2 DEF CopyKept, Idle
    <2>3. CASE s # r /\ request[s].pc = "reviewing"
      <3>1. request[s].id \in Stored /\ request[s].record.requestedBy = records[request[s].id].requestedBy
        BY <2>3 DEF ReviewsInv, CopyKept
      <3> QED BY <1>1, <2>1, <2>3, <3>1 DEF CopyKept
    <2> QED BY <2>1, <2>2, <2>3 DEF CopyKept
  <1> QED BY <1>2, <1>3, <1>4 DEF ReviewsInv

-----------------------------------------------------------------------------
LEMMA StartStep ==
    ASSUME ReviewsInv, NEW r \in Requests, NEW actor \in Actors, NEW metric \in Metrics,
           StartInvestigation(r, actor, metric)
    PROVE  ReviewsInv' /\ Kept
  <1> DEFINE q == [pc |-> "investigating", id |-> <<metric, clock>>, actor |-> actor]
  <1>1. q \in Request /\ q.pc # "reviewing"
    BY DEF ReviewsInv, TypeOK, Request, Ids
  <1>2. request' = [request EXCEPT ![r] = q] /\ records' = records /\ clock' = clock
    BY DEF StartInvestigation
  <1> HIDE DEF q
  <1> QED BY <1>1, <1>2, RequestStep

LEMMA SaveStep ==
    ASSUME ReviewsInv, NEW r \in Requests, SaveInvestigation(r)
    PROVE  ReviewsInv' /\ Kept
  <1> DEFINE id == request[r].id
             record == NewRecord(request[r].actor)
  <1>1. id \in Ids /\ request[r].actor \in Actors
    BY RequestCases DEF SaveInvestigation, ReviewsInv
  <1>2. record \in Record
    BY <1>1 DEF NewRecord, Record
  <1>3. /\ id \notin Stored /\ request' = [request EXCEPT ![r] = Idle] /\ clock' = clock
        /\ records' = [i \in Stored \cup {id} |-> IF i = id THEN record ELSE records[i]]
    BY DEF SaveInvestigation, Inserted
  <1> HIDE DEF id, record
  <1> QED BY <1>1, <1>2, <1>3, StoreStep

LEMMA ReviewStep ==
    ASSUME ReviewsInv, NEW r \in Requests, NEW actor \in Actors, NEW id \in Stored,
           NEW decision \in Decisions, ReviewInvestigation(r, actor, id, decision)
    PROVE  ReviewsInv' /\ Kept
  <1> DEFINE review == [decision |-> decision, actor |-> actor, createdAt |-> clock]
             record == Reviewed(records[id], review)
             q == [pc |-> "reviewing", id |-> id, record |-> record]
  <1>1. id \in Ids /\ records[id] \in Record /\ review \in Review
    BY DEF ReviewsInv, TypeOK, Review
  <1>2. record \in Record /\ record.requestedBy = records[id].requestedBy
    BY <1>1, ReviewedType
  <1>3. request' = [request EXCEPT ![r] = q] /\ records' = records /\ clock' = clock
    BY DEF ReviewInvestigation
  <1> HIDE DEF record
  <1>4. q \in Request /\ q.id = id /\ q.record = record
    BY <1>1, <1>2 DEF Request
  <1> HIDE DEF q
  <1> QED BY <1>2, <1>3, <1>4, RequestStep

LEMMA UpdateStep ==
    ASSUME ReviewsInv, NEW r \in Requests, UpdateInvestigation(r)
    PROVE  ReviewsInv' /\ Kept
  <1> DEFINE id == request[r].id
             record == request[r].record
  <1>1. /\ id \in Ids /\ record \in Record
        /\ id \in Stored /\ record.requestedBy = records[id].requestedBy
    BY RequestCases DEF UpdateInvestigation, ReviewsInv, CopyKept
  <1>2. records' = [i \in Stored \cup {id} |-> IF i = id THEN record ELSE records[i]]
    <2>1. records = [i \in Stored |-> records[i]] /\ Stored \cup {id} = Stored
      BY <1>1 DEF ReviewsInv, TypeOK
    <2>2. records' = [records EXCEPT ![id] = record]
      BY DEF UpdateInvestigation
    <2> HIDE DEF id, record
    <2> QED BY <2>1, <2>2
  <1>3. request' = [request EXCEPT ![r] = Idle] /\ clock' = clock
    BY DEF UpdateInvestigation
  <1> HIDE DEF id, record
  <1> QED BY <1>1, <1>2, <1>3, StoreStep

LEMMA AbandonStep ==
    ASSUME ReviewsInv, NEW r \in Requests, Abandon(r)
    PROVE  ReviewsInv' /\ Kept
  <1>1. Idle \in Request /\ Idle.pc # "reviewing"
    BY DEF Request, Idle
  <1> QED BY <1>1, RequestStep DEF Abandon

LEMMA ReviewsStep ==
    ASSUME ReviewsInv, [Next]_vars
    PROVE  ReviewsInv' /\ Kept
  <1>1. CASE Tick
    <2>1. clock' \in Times
      BY <1>1, BoundAssumption DEF Tick, ReviewsInv, TypeOK, Times
    <2> QED BY <1>1, <2>1 DEF Tick, ReviewsInv, TypeOK, CopyKept, Stored, Kept
  <1>2. CASE UNCHANGED vars
    BY <1>2 DEF vars, ReviewsInv, TypeOK, CopyKept, Stored, Kept
  <1> QED BY <1>1, <1>2, StartStep, SaveStep, ReviewStep, UpdateStep, AbandonStep DEF Next

LEMMA ReviewsInit == Init => ReviewsInv
  <1> SUFFICES ASSUME Init PROVE ReviewsInv
    OBVIOUS
  <1>1. Stored = {} /\ records \in [Stored -> Record]
    BY DEF Init, Stored
  <1>2. Idle \in Request /\ Idle.pc # "reviewing"
    BY DEF Request, Idle
  <1> QED BY <1>1, <1>2, BoundAssumption DEF Init, ReviewsInv, TypeOK, CopyKept, Times

LEMMA ReviewsInvariant == Spec => []ReviewsInv
  BY ReviewsInit, ReviewsStep, PTL DEF Spec

-----------------------------------------------------------------------------
\* Every reachable state is well typed: no record loses a field, and no review
\* its author, on its way through a handler.
THEOREM ReviewsTypeCorrect == Spec => []TypeOK
  BY ReviewsInvariant, PTL DEF ReviewsInv

\* No investigation is ever replaced by another, however many begin in the same
\* millisecond and however many reviews are written back over one another.
THEOREM InvestigationsAreKept == Spec => InvestigationsKept
  <1>1. ReviewsInv /\ [Next]_vars
            => [\A id \in Stored :
                   id \in DOMAIN records' /\ records'[id].requestedBy = records[id].requestedBy]_vars
    BY ReviewsStep DEF Kept
  <1> QED BY <1>1, ReviewsInvariant, PTL DEF Spec, InvestigationsKept
=============================================================================
