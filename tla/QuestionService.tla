---------------------------- MODULE QuestionService ----------------------------
(***************************************************************************)
(* POST /v1/questions, from the arrival of a request in the Worker to its  *)
(* answer: app-worker.js and worker.js over the gate of RequestGate, the   *)
(* catalog snapshot, and two queries of the warehouse, one for the         *)
(* freshness of the data (data-source.js, freshness.js) and one for the    *)
(* data (pipeline.js).  Of a query only what WarehouseQuery promises is    *)
(* used: it fails, or answers with what the warehouse held at one time     *)
(* between its call and its answer.                                        *)
(*                                                                         *)
(* The evidence of an answer is gathered at four times: the membership,    *)
(* the catalog, the freshness and the data are each read once, and any of  *)
(* them may change before the answer is sent.                              *)
(***************************************************************************)
EXTENDS RequestGate

CONSTANTS
    Handlers,     \* handlers that may run at once in the isolate
    Threshold,    \* freshnessThresholdMinutes, in units of the clock
    MaxVersion    \* bound: the last version of the metric

ASSUME ServiceAssumption ==
    Threshold \in Nat /\ MaxVersion \in Nat \ {0}

VARIABLES
    inserted,  \* the warehouse: the latest inserted_at (0 while it is empty)
    active,    \* the number of the active version of the metric asked for
    handler    \* what each handler holds between two of its awaits

vars == <<clock, buckets, admitted, mode, member, lapsed, tokens,
          inserted, active, handler>>

None == "none"

Ended == {"idle", "failed", "answered"}

NoToken == [user |-> None, expires |-> 0, member |-> FALSE]

\* since: history, the version that was active when the request arrived; now:
\* worker.js's new Date(); data: the latest ingestion its last query saw.
Handler ==
    [pc: {"verifying", "resolving", "loading", "reading", "measuring", "asking"} \cup Ended,
     token: Token \cup {NoToken}, since: 0..MaxVersion, version: 0..MaxVersion,
     now: 0..MaxClock, label: {None, "unknown", "fresh", "stale"}, data: 0..MaxClock]

Handling(pc, t) ==
    [pc |-> pc, token |-> t, since |-> 0, version |-> 0, now |-> 0, label |-> None,
     data |-> 0]

TypeOK ==
    /\ GateTypeOK
    /\ inserted \in 0..MaxClock
    /\ active \in 1..MaxVersion
    /\ handler \in [Handlers -> Handler]

Init ==
    /\ GateInit
    /\ inserted \in 0..1
    /\ active = 1
    /\ handler = [h \in Handlers |-> Handling("idle", NoToken)]

-----------------------------------------------------------------------------
Is(h, pc) == handler[h].pc = pc

Fails(h) == handler' = [handler EXCEPT ![h] = Handling("failed", NoToken)]

\* A request arrives, with any token that was ever issued, and the isolate
\* counts it.
Arrive(h) ==
    /\ handler[h].pc \in Ended
    /\ \E t \in tokens :
           \/ /\ Admit(t)
              /\ handler' = [handler EXCEPT ![h] = [Handling("verifying", t) EXCEPT !.since = active]]
           \/ /\ RefuseRate(t)
              /\ Fails(h)
    /\ UNCHANGED <<inserted, active>>

\* From here on the request holds a principal, and its token is not looked at.
Authenticated(h) == handler' = [handler EXCEPT ![h].pc = "loading", ![h].token = NoToken]

\* authenticateRequest, as far as it goes without a table: the bootstrap token
\* or a deployment without authentication (any role may ask); a token that has
\* expired (401); the membership it carries (403 for none).
Verify(h) ==
    /\ Is(h, "verifying")
    /\ CASE mode = "open" -> Authenticated(h)
         [] mode = "embedded" ->
                IF Accepted(handler[h].token) /\ ActiveMember(handler[h].token)
                THEN Authenticated(h) ELSE Fails(h)
         [] mode = "store" ->
                IF Accepted(handler[h].token)
                THEN handler' = [handler EXCEPT ![h].pc = "resolving"] ELSE Fails(h)
    /\ UNCHANGED <<gateVars, inserted, active>>

\* The membership is read from its table, which may throw: 403 for none.
Resolve(h) ==
    /\ Is(h, "resolving")
    /\ \/ ActiveMember(handler[h].token) /\ Authenticated(h)
       \/ Fails(h)
    /\ UNCHANGED <<gateVars, inserted, active>>

\* Mutant: the isolate keeps the first snapshot it loads.
LoadOnce(h) ==
    /\ Is(h, "loading")
    /\ handler' = [handler EXCEPT ![h].pc = "reading", ![h].version = 1]
    /\ UNCHANGED <<gateVars, inserted, active>>

\* semanticStore.load, which may throw.
Load(h) ==
    /\ Is(h, "loading")
    /\ \/ handler' = [handler EXCEPT ![h].pc = "reading", ![h].version = active]
       \/ Fails(h)
    /\ UNCHANGED <<gateVars, inserted, active>>

\* The body is in (or is no JSON: 400); the clock is read and the freshness of
\* the data asked for.
Measure(h) ==
    /\ Is(h, "reading")
    /\ \/ handler' = [handler EXCEPT ![h].pc = "measuring", ![h].now = clock]
       \/ Fails(h)
    /\ UNCHANGED <<gateVars, inserted, active>>

\* evaluateFreshness, of the latest ingestion the query saw.
Freshness(latest, now) ==
    IF latest = 0 THEN "unknown" ELSE IF now - latest > Threshold THEN "stale" ELSE "fresh"

\* The freshness is in; the question is interpreted, planned and compiled,
\* and the data asked for.  The query or the question may fail.
Ask(h) ==
    /\ Is(h, "measuring")
    /\ \/ handler' = [handler EXCEPT
              ![h].pc = "asking",
              ![h].label = Freshness(inserted, handler[h].now),
              ![h].data = inserted]
       \/ Fails(h)
    /\ UNCHANGED <<gateVars, inserted, active>>

\* Mutant: the freshness is measured after the data.
AnswerMeasuredLast(h) ==
    /\ Is(h, "asking")
    /\ \/ handler' = [handler EXCEPT
              ![h].pc = "answered", ![h].label = Freshness(inserted, handler[h].now)]
       \/ Fails(h)
    /\ UNCHANGED <<gateVars, inserted, active>>

\* The data is in; it is verified and the answer composed, or not.
Answer(h) ==
    /\ Is(h, "asking")
    /\ \/ handler' = [handler EXCEPT ![h].pc = "answered", ![h].data = inserted]
       \/ Fails(h)
    /\ UNCHANGED <<gateVars, inserted, active>>

Serve(h) == Verify(h) \/ Resolve(h) \/ Load(h) \/ Measure(h) \/ Ask(h) \/ Answer(h)

\* External: the metric gets a new active version (SemanticGovernance).
Activate ==
    /\ active < MaxVersion
    /\ active' = active + 1
    /\ UNCHANGED <<gateVars, inserted, handler>>

\* External: events arrive at the warehouse.
Ingest ==
    /\ inserted' = clock
    /\ UNCHANGED <<gateVars, active, handler>>

Next ==
    \/ \E h \in Handlers : Arrive(h) \/ Serve(h)
    \/ /\ Tick \/ \E u \in Users : Issue(u) \/ SetMembership(u)
       /\ UNCHANGED <<inserted, active, handler>>
    \/ Activate
    \/ Ingest

Spec == Init /\ [][Next]_vars

-----------------------------------------------------------------------------
(***************************************************************************)
(* Properties.                                                             *)
(***************************************************************************)

\* A member who was removed is kept out at once where memberships are stored,
\* and where the token carries them at the latest when the token has expired:
\* who is let in and is no member any more was one until the life of a token
\* and the skew before.
RemovedMembersKeptOut ==
    [][\A h \in Handlers :
          LET user == handler[h].token.user IN
          mode # "open" /\ handler[h].pc # "loading" /\ handler'[h].pc = "loading" =>
              \/ member[user]
              \/ mode = "embedded" /\ clock <= lapsed[user] + TokenLife + Skew]_vars

\* An answer is governed: the version it names was active at some time between
\* the arrival of its request and the answer, however often the metric changed.
AnswersGoverned ==
    \A h \in Handlers : Is(h, "answered") => handler[h].version \in handler[h].since..active

\* An answer that is called fresh is fresh: whatever was ingested between the
\* two queries, its data is within the threshold of the time of the question.
FreshAnswersAreFresh ==
    \A h \in Handlers :
        Is(h, "answered") /\ handler[h].label = "fresh"
            => handler[h].data # 0 /\ handler[h].now - handler[h].data <= Threshold
=============================================================================
