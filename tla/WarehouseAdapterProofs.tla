------------------------- MODULE WarehouseAdapterProofs -------------------------
(***************************************************************************)
(* Theorems of WarehouseAdapter, for any handlers, codes and events.       *)
(*                                                                         *)
(* The invariant ties the server's side of a query to the await it is at:  *)
(* between two awaits that succeeded the session is exactly as guarded as  *)
(* they made it, and there is a client to end as soon as there may be a    *)
(* session.  After a failure neither is known, which is why the promise    *)
(* rests on Close and not on Undo.                                         *)
(***************************************************************************)
EXTENDS WarehouseAdapter, TLAPS

\* The session a query has at each await that is reached without an error.
SessionAt(pc) ==
    CASE pc = "beginning" -> "connected"
      [] pc = "timing" -> "begun"
      [] pc = "idling" -> "timed"
      [] pc \in {"querying", "ending"} -> "guarded"
      [] OTHER -> "none"

InStep(c) ==
    /\ call[c].pc \in Awaits =>
          /\ session[c] = SessionAt(call[c].pc)
          /\ call[c].error = None
    /\ call[c].pc \in Awaits \ {"creating"} => call[c].client = TRUE
    /\ call[c].pc = "undoing" => call[c].error # None
    /\ call[c].pc \in {"idle", "done"} => session[c] = "none"
    /\ call[c].thrown = call[c].error

AdapterInv ==
    /\ AdapterTypeOK
    /\ \A c \in Callers : InStep(c)

-----------------------------------------------------------------------------
\* Every error of the driver is told as one of the seven of the adapter.
LEMMA ClassifiedType ==
    ASSUME NEW code
    PROVE  Classified(code) \in ClassifiedErrors
  BY DEF Classified, ClassifiedErrors

\* A query that fails goes on to undo or to close, or has nothing to release.
LEMMA CaughtType ==
    ASSUME NEW c \in Callers, NEW error \in Errors, call[c] \in Call
    PROVE  /\ Caught(c, error) \in Call
           /\ Caught(c, error).pc \in {"undoing", "closing", "done"}
           /\ Caught(c, error).error = error
           /\ Caught(c, error).thrown = error
           /\ call[c].client = TRUE => Caught(c, error).pc # "done"
           /\ call[c].client = FALSE /\ call[c].open = FALSE => Caught(c, error).pc = "done"
  BY DEF Caught, Call

LEMMA FreshType ==
    ASSUME NEW error \in Errors \cup {None}, NEW pc \in {"idle", "done", "closing"} \cup Awaits
    PROVE  /\ Fresh(pc, error) \in Call
           /\ Fresh(pc, error).pc = pc
           /\ Fresh(pc, error).error = error
           /\ Fresh(pc, error).thrown = error
           /\ Fresh(pc, error).client = FALSE
           /\ Fresh(pc, error).open = FALSE
  BY DEF Fresh, Call

LEMMA ErrorsAreErrors ==
    /\ None \notin Errors
    /\ Refusals \subseteq Errors
    /\ BadResults \subseteq Errors
    /\ ClassifiedErrors \subseteq Errors
    /\ "INVALID_POSTGRES_CLIENT" \in Errors
  BY DEF None, Errors, Refusals, BadResults, ClassifiedErrors

\* What a step does to the caller that takes it, and to no other.
LEMMA OnlyHere ==
    ASSUME NEW c \in Callers, AdapterInv, warehouse' \subseteq Events,
           \E s \in Sessions : session' = [session EXCEPT ![c] = s],
           \E k \in Call : call' = [call EXCEPT ![c] = k],
           InStep(c)'
    PROVE  AdapterInv'
  <1>1. session' \in [Callers -> Sessions] /\ call' \in [Callers -> Call]
    BY DEF AdapterInv, AdapterTypeOK
  <1>2. ASSUME NEW d \in Callers, d # c PROVE InStep(d)'
    <2>1. session'[d] = session[d] /\ call'[d] = call[d]
      BY <1>2 DEF AdapterInv, AdapterTypeOK
    <2> QED BY <1>2, <2>1 DEF AdapterInv, InStep
  <1> QED BY <1>1, <1>2 DEF AdapterInv, AdapterTypeOK

-----------------------------------------------------------------------------
\* Each step of a query keeps the invariant.
LEMMA StartQueryKeeps ==
    ASSUME NEW c \in Callers, AdapterInv, StartQuery(c)
    PROVE  AdapterInv'
  <1>1. session[c] = "none" /\ session \in [Callers -> Sessions] /\ call \in [Callers -> Call]
    BY DEF AdapterInv, AdapterTypeOK, InStep, StartQuery, Ready
  <1>2. warehouse' \subseteq Events /\ session' = session
    BY DEF AdapterInv, AdapterTypeOK, StartQuery
  <1>3. PICK pc \in {"creating", "done"}, error \in Refusals \cup {None} :
           /\ call' = [call EXCEPT ![c] = Fresh(pc, error)]
           /\ pc = "creating" => error = None
    BY DEF StartQuery
  <1>4. /\ Fresh(pc, error) \in Call
        /\ Fresh(pc, error).pc = pc
        /\ Fresh(pc, error).error = error
        /\ Fresh(pc, error).thrown = error
    <2>1. error \in Errors \cup {None} /\ pc \in {"idle", "done", "closing"} \cup Awaits
      BY ErrorsAreErrors DEF Awaits
    <2> QED BY <2>1, FreshType
  <1>5. call'[c] = Fresh(pc, error) /\ session'[c] = "none"
    BY <1>1, <1>2, <1>3
  <1>6. InStep(c)'
    BY <1>3, <1>4, <1>5 DEF InStep, SessionAt, Awaits
  <1>7. session' = [session EXCEPT ![c] = "none"] /\ "none" \in Sessions
    BY <1>1, <1>2 DEF Sessions
  <1> QED BY <1>2, <1>3, <1>4, <1>6, <1>7, OnlyHere

LEMMA ProceedKeeps ==
    ASSUME NEW c \in Callers, AdapterInv, Proceed(c)
    PROVE  AdapterInv'
  <1> DEFINE k == call'[c]
  <1>1. session \in [Callers -> Sessions] /\ call \in [Callers -> Call] /\ call[c] \in Call
    BY DEF AdapterInv, AdapterTypeOK
  <1>2. warehouse' \subseteq Events
    BY DEF AdapterInv, AdapterTypeOK, Proceed
  <1>3. InStep(c) /\ call[c].pc \in Awaits \ {"querying"}
    BY DEF AdapterInv, Proceed
  <1>4. session' = [session EXCEPT ![c] = Carried(c)] /\ Carried(c) \in Sessions
    BY <1>1 DEF Proceed, Carried, Sessions
  <1>5. /\ k \in Call
        /\ call' = [call EXCEPT ![c] = k]
    BY <1>1, <1>3 DEF Proceed, Call, Awaits
  <1>6. /\ k.pc = CASE call[c].pc = "creating" -> "connecting"
                    [] call[c].pc = "connecting" -> "beginning"
                    [] call[c].pc = "beginning" -> "timing"
                    [] call[c].pc = "timing" -> "idling"
                    [] call[c].pc = "idling" -> "querying"
                    [] call[c].pc = "ending" -> "closing"
        /\ k.client = TRUE /\ k.error = call[c].error /\ k.thrown = call[c].thrown
    BY <1>1, <1>3 DEF Proceed, Call
  <1>7. session'[c] = Carried(c)
    BY <1>1, <1>4
  <1>8. InStep(c)'
    BY <1>3, <1>6, <1>7 DEF InStep, SessionAt, Awaits, Carried
  <1> QED BY <1>2, <1>4, <1>5, <1>8, OnlyHere

LEMMA ReadKeeps ==
    ASSUME NEW c \in Callers, AdapterInv, Read(c)
    PROVE  AdapterInv'
  <1>1. session \in [Callers -> Sessions] /\ call \in [Callers -> Call] /\ call[c] \in Call
    BY DEF AdapterInv, AdapterTypeOK
  <1>2. warehouse' \subseteq Events /\ session' = session /\ call[c].pc = "querying" /\ InStep(c)
    BY DEF AdapterInv, AdapterTypeOK, Read, At
  <1>3. session' = [session EXCEPT ![c] = session[c]] /\ session[c] \in Sessions
    BY <1>1, <1>2
  <1>4. CASE call' = [call EXCEPT ![c].pc = "ending", ![c].read = warehouse]
    <2>1. /\ call' = [call EXCEPT ![c] = call'[c]] /\ call'[c] \in Call
          /\ call'[c].pc = "ending" /\ call'[c].client = call[c].client
          /\ call'[c].error = call[c].error /\ call'[c].thrown = call[c].thrown
      BY <1>1, <1>4 DEF Call, Awaits, AdapterInv, AdapterTypeOK
    <2>2. InStep(c)'
      BY <1>2, <2>1 DEF InStep, SessionAt, Awaits
    <2> QED BY <1>2, <1>3, <2>1, <2>2, OnlyHere
  <1>5. ASSUME NEW bad \in BadResults, call' = [call EXCEPT ![c] = Caught(c, bad)]
        PROVE  AdapterInv'
    <2>1. bad \in Errors /\ bad # None
      BY ErrorsAreErrors
    <2>2. call[c].client = TRUE
      BY <1>2 DEF InStep, Awaits
    <2>3. /\ Caught(c, bad) \in Call
          /\ Caught(c, bad).pc \in {"undoing", "closing"}
          /\ Caught(c, bad).error = bad /\ Caught(c, bad).thrown = bad
      BY <1>1, <2>1, <2>2, CaughtType
    <2>4. call'[c] = Caught(c, bad)
      BY <1>1, <1>5
    <2>5. InStep(c)'
      BY <2>1, <2>3, <2>4 DEF InStep, Awaits
    <2> QED BY <1>2, <1>3, <1>5, <2>3, <2>5, OnlyHere
  <1> QED BY <1>4, <1>5 DEF Read

LEMMA NoClientKeeps ==
    ASSUME NEW c \in Callers, AdapterInv, NoClient(c)
    PROVE  AdapterInv'
  <1> DEFINE error == "INVALID_POSTGRES_CLIENT"
  <1>1. session \in [Callers -> Sessions] /\ call \in [Callers -> Call]
    BY DEF AdapterInv, AdapterTypeOK
  <1>2. warehouse' \subseteq Events /\ session' = session /\ session[c] = "none"
    BY DEF AdapterInv, AdapterTypeOK, NoClient, At, InStep, SessionAt, Awaits
  <1>3. PICK something \in BOOLEAN :
           call' = [call EXCEPT
               ![c] = [Fresh(IF something THEN "closing" ELSE "done", error)
                           EXCEPT !.client = something]]
    BY DEF NoClient
  <1> DEFINE pc == IF something THEN "closing" ELSE "done"
             k == [Fresh(pc, error) EXCEPT !.client = something]
  <1>4. k \in Call /\ k.pc = pc /\ k.error = error /\ k.thrown = error
    <2>1. pc \in {"idle", "done", "closing"} \cup Awaits /\ error \in Errors \cup {None}
      BY ErrorsAreErrors
    <2> QED BY <2>1 DEF Fresh, Call
  <1>5. call'[c] = k /\ call' = [call EXCEPT ![c] = k]
    BY <1>1, <1>3
  <1>6. InStep(c)'
    BY <1>2, <1>4, <1>5 DEF InStep, Awaits
  <1>7. session' = [session EXCEPT ![c] = "none"] /\ "none" \in Sessions
    BY <1>1, <1>2 DEF Sessions
  <1> QED BY <1>2, <1>4, <1>5, <1>6, <1>7, OnlyHere

LEMMA AwaitFailsKeeps ==
    ASSUME NEW c \in Callers, AdapterInv, AwaitFails(c)
    PROVE  AdapterInv'
  <1>1. session \in [Callers -> Sessions] /\ call \in [Callers -> Call] /\ call[c] \in Call
    BY DEF AdapterInv, AdapterTypeOK
  <1>2. warehouse' \subseteq Events /\ call[c].pc \in Awaits /\ InStep(c)
    BY DEF AdapterInv, AdapterTypeOK, AwaitFails
  <1>3. PICK s \in Sessions :
           /\ session' = [session EXCEPT ![c] = s]
           /\ call[c].pc = "creating" => s = session[c]
    <2>1. CASE session' = session
      BY <1>1, <2>1
    <2>2. CASE session' = [session EXCEPT ![c] = Carried(c)]
      BY <1>1, <2>2 DEF Carried, Sessions
    <2> QED BY <2>1, <2>2 DEF AwaitFails
  <1>4. PICK error \in ClassifiedErrors : call' = [call EXCEPT ![c] = Caught(c, error)]
    BY ClassifiedType DEF AwaitFails
  <1>5. error \in Errors /\ error # None
    BY ErrorsAreErrors
  <1>6. /\ Caught(c, error) \in Call
        /\ Caught(c, error).pc \in {"undoing", "closing", "done"}
        /\ Caught(c, error).error = error /\ Caught(c, error).thrown = error
        /\ call[c].client = TRUE => Caught(c, error).pc # "done"
    BY <1>1, <1>5, CaughtType
  <1>7. call'[c] = Caught(c, error) /\ session'[c] = s
    BY <1>1, <1>3, <1>4
  <1>8. Caught(c, error).pc = "done" => session'[c] = "none"
    BY <1>2, <1>3, <1>6, <1>7 DEF InStep, SessionAt, Awaits
  <1>9. InStep(c)'
    BY <1>5, <1>6, <1>7, <1>8 DEF InStep, Awaits
  <1> QED BY <1>2, <1>3, <1>4, <1>6, <1>9, OnlyHere

LEMMA UndoKeeps ==
    ASSUME NEW c \in Callers, AdapterInv, Undo(c)
    PROVE  AdapterInv'
  <1>1. session \in [Callers -> Sessions] /\ call \in [Callers -> Call] /\ call[c] \in Call
    BY DEF AdapterInv, AdapterTypeOK
  <1>2. warehouse' \subseteq Events /\ InStep(c)
    BY DEF AdapterInv, AdapterTypeOK, Undo
  <1>3. PICK s \in Sessions : session' = [session EXCEPT ![c] = s]
    BY <1>1 DEF Undo, Sessions
  <1>4. /\ call' = [call EXCEPT ![c] = call'[c]] /\ call'[c] \in Call
        /\ call'[c].pc = "closing"
        /\ call'[c].error = call[c].error /\ call'[c].thrown = call[c].thrown
    BY <1>1 DEF Undo, Call
  <1>5. InStep(c)'
    BY <1>2, <1>4 DEF InStep, Awaits
  <1> QED BY <1>2, <1>3, <1>4, <1>5, OnlyHere

LEMMA CloseKeeps ==
    ASSUME NEW c \in Callers, AdapterInv, Close(c)
    PROVE  AdapterInv'
  <1>1. session \in [Callers -> Sessions] /\ call \in [Callers -> Call] /\ call[c] \in Call
    BY DEF AdapterInv, AdapterTypeOK
  <1>2. warehouse' \subseteq Events /\ InStep(c)
    BY DEF AdapterInv, AdapterTypeOK, Close
  <1>3. session' = [session EXCEPT ![c] = "none"] /\ "none" \in Sessions /\ session'[c] = "none"
    BY <1>1 DEF Close, Sessions
  <1>4. /\ call' = [call EXCEPT ![c] = call'[c]] /\ call'[c] \in Call
        /\ call'[c].pc = "done"
        /\ call'[c].error = call[c].error /\ call'[c].thrown = call[c].thrown
    BY <1>1 DEF Close, Call
  <1>5. InStep(c)'
    BY <1>2, <1>3, <1>4 DEF InStep, Awaits
  <1> QED BY <1>2, <1>3, <1>4, <1>5, OnlyHere

LEMMA IngestKeeps ==
    ASSUME NEW event \in Events, AdapterInv, Ingest(event)
    PROVE  AdapterInv'
  BY DEF AdapterInv, AdapterTypeOK, Ingest, InStep

LEMMA AdapterInitially == AdapterInit => AdapterInv
  <1> SUFFICES ASSUME AdapterInit PROVE AdapterInv
    OBVIOUS
  <1>1. Fresh("idle", None) \in Call /\ Fresh("idle", None).pc = "idle"
        /\ Fresh("idle", None).error = None /\ Fresh("idle", None).thrown = None
    BY DEF Fresh, Call
  <1>2. AdapterTypeOK
    BY <1>1 DEF AdapterInit, AdapterTypeOK, Sessions
  <1>3. ASSUME NEW c \in Callers PROVE InStep(c)
    BY <1>1 DEF AdapterInit, InStep, Awaits
  <1> QED BY <1>2, <1>3 DEF AdapterInv

LEMMA AdapterStep == AdapterInv /\ [AdapterNext]_adapterVars => AdapterInv'
  <1> SUFFICES ASSUME AdapterInv, [AdapterNext]_adapterVars PROVE AdapterInv'
    OBVIOUS
  <1>1. ASSUME NEW c \in Callers, StartQuery(c) PROVE AdapterInv'
    BY <1>1, StartQueryKeeps
  <1>2. ASSUME NEW c \in Callers, Await(c) PROVE AdapterInv'
    BY <1>2, ProceedKeeps, ReadKeeps, NoClientKeeps, AwaitFailsKeeps, UndoKeeps, CloseKeeps
       DEF Await
  <1>3. ASSUME NEW event \in Events, Ingest(event) PROVE AdapterInv'
    BY <1>3, IngestKeeps
  <1>4. CASE UNCHANGED adapterVars
    BY <1>4 DEF adapterVars, AdapterInv, AdapterTypeOK, InStep
  <1> QED BY <1>1, <1>2, <1>3, <1>4 DEF AdapterNext

THEOREM AdapterInvariant == AdapterSpec => []AdapterInv
  <1> QED BY AdapterInitially, AdapterStep, PTL DEF AdapterSpec

\* Type correctness: whatever the driver throws, a caller is told an error of
\* the adapter's own (AdapterTypeOK bounds what is thrown).
THEOREM AdapterTypeCorrect == AdapterSpec => []AdapterTypeOK
  <1>1. AdapterInv => AdapterTypeOK
    BY DEF AdapterInv
  <1> QED BY <1>1, AdapterInvariant, PTL

\* A caller with an answer or an error holds no session of the server, for any
\* number of handlers and whichever awaits fail (closeQuietly, finally).
THEOREM ClientsAreReleased == AdapterSpec => []ClientsReleased
  <1>1. AdapterInv => ClientsReleased
    BY DEF AdapterInv, InStep, ClientsReleased, Ready
  <1> QED BY <1>1, AdapterInvariant, PTL

\* What is thrown is what went wrong first (rollbackQuietly drops its error).
THEOREM FirstErrorIsThrown == AdapterSpec => []FirstErrorThrown
  <1>1. AdapterInv => FirstErrorThrown
    BY DEF AdapterInv, InStep, FirstErrorThrown
  <1> QED BY <1>1, AdapterInvariant, PTL

-----------------------------------------------------------------------------
(***************************************************************************)
(* The adapter implements the promised query.                              *)
(***************************************************************************)

\* A step of one caller moves the query of that caller only.
LEMMA MovesHere ==
    ASSUME NEW c \in Callers, NEW s, NEW k,
           session \in [Callers -> Sessions], call \in [Callers -> Call],
           session' = [session EXCEPT ![c] = s], call' = [call EXCEPT ![c] = k]
    PROVE  [d \in Callers |-> QueryState(d)]'
               = [[d \in Callers |-> QueryState(d)] EXCEPT ![c] = QueryState(c)']
  <1>1. ASSUME NEW d \in Callers, d # c PROVE QueryState(d)' = QueryState(d)
    BY <1>1 DEF QueryState
  <1> QED BY <1>1

\* A change of the query of one caller that is a move of the promise.
LEMMA MoveIsPromised ==
    ASSUME NEW c \in Callers, NEW s, NEW k,
           session \in [Callers -> Sessions], call \in [Callers -> Call],
           session' = [session EXCEPT ![c] = s], call' = [call EXCEPT ![c] = k],
           \/ QueryState(c)' = QueryState(c)
           \/ QueryState(c) \in Promise!Ended /\ QueryState(c)' \in {"begun", "failed"}
           \/ QueryState(c) = "begun" /\ QueryState(c)' \in {"guarded", "lost", "failed"}
           \/ QueryState(c) = "guarded" /\ QueryState(c)' \in {"read", "lost"}
           \/ QueryState(c) = "read" /\ QueryState(c)' \in {"answered", "lost"}
           \/ QueryState(c) = "lost" /\ QueryState(c)' = "failed"
    PROVE  [Promise!Next]_([d \in Callers |-> QueryState(d)])
  <1> DEFINE query == [d \in Callers |-> QueryState(d)]
  <1>1. query' = [query EXCEPT ![c] = QueryState(c)'] /\ query[c] = QueryState(c)
    BY MovesHere
  <1>2. CASE QueryState(c)' = QueryState(c)
    BY <1>1, <1>2
  <1>3. CASE QueryState(c) \in Promise!Ended /\ QueryState(c)' \in {"begun", "failed"}
    <2>1. Promise!Begin(c) \/ Promise!Fail(c)
      BY <1>1, <1>3 DEF Promise!Begin, Promise!Fail, Promise!Move
    <2> QED BY <2>1 DEF Promise!Next
  <1>4. CASE QueryState(c) = "begun" /\ QueryState(c)' \in {"guarded", "lost", "failed"}
    <2>1. Promise!Guard(c) \/ Promise!Lose(c) \/ Promise!Fail(c)
      BY <1>1, <1>4 DEF Promise!Guard, Promise!Lose, Promise!Fail, Promise!Move
    <2> QED BY <2>1 DEF Promise!Next
  <1>5. CASE QueryState(c) = "guarded" /\ QueryState(c)' \in {"read", "lost"}
    <2>1. Promise!Read(c) \/ Promise!Lose(c)
      BY <1>1, <1>5 DEF Promise!Read, Promise!Lose, Promise!Move
    <2> QED BY <2>1 DEF Promise!Next
  <1>6. CASE QueryState(c) = "read" /\ QueryState(c)' \in {"answered", "lost"}
    <2>1. Promise!Answer(c) \/ Promise!Lose(c)
      BY <1>1, <1>6 DEF Promise!Answer, Promise!Lose, Promise!Move
    <2> QED BY <2>1 DEF Promise!Next
  <1>7. CASE QueryState(c) = "lost" /\ QueryState(c)' = "failed"
    <2>1. Promise!Fail(c)
      BY <1>1, <1>7 DEF Promise!Fail, Promise!Move
    <2> QED BY <2>1 DEF Promise!Next
  <1> QED BY <1>2, <1>3, <1>4, <1>5, <1>6, <1>7

LEMMA StartQueryPromised ==
    ASSUME NEW c \in Callers, AdapterInv, AdapterInv', StartQuery(c)
    PROVE  [Promise!Next]_([d \in Callers |-> QueryState(d)])
  <1>1. session \in [Callers -> Sessions] /\ call \in [Callers -> Call]
    BY DEF AdapterInv, AdapterTypeOK
  <1>2. session' = [session EXCEPT ![c] = "none"] /\ session[c] = "none" /\ Ready(c)
    BY <1>1 DEF AdapterInv, InStep, StartQuery, Ready
  <1>3. PICK pc \in {"creating", "done"}, error \in Refusals \cup {None} :
           /\ call' = [call EXCEPT ![c] = Fresh(pc, error)]
           /\ pc = "creating" => error = None
           /\ pc = "done" => error # None
    BY ErrorsAreErrors DEF StartQuery
  <1>4. QueryState(c) \in Promise!Ended
    BY <1>2 DEF Ready, QueryState, Promise!Ended
  <1>5. call'[c] = Fresh(pc, error) /\ session'[c] = "none"
    BY <1>1, <1>2, <1>3
  <1>6. QueryState(c)' \in {"begun", "failed"}
    BY <1>3, <1>5 DEF QueryState, Fresh
  <1> QED BY <1>1, <1>2, <1>3, <1>4, <1>6, MoveIsPromised

LEMMA AwaitPromised ==
    ASSUME NEW c \in Callers, AdapterInv, AdapterInv', Await(c)
    PROVE  [Promise!Next]_([d \in Callers |-> QueryState(d)])
  <1>1. /\ session \in [Callers -> Sessions] /\ call \in [Callers -> Call]
        /\ session' \in [Callers -> Sessions] /\ call' \in [Callers -> Call]
        /\ call[c] \in Call /\ InStep(c) /\ InStep(c)'
    BY DEF AdapterInv, AdapterTypeOK
  <1>2. /\ session' = [session EXCEPT ![c] = session'[c]]
        /\ call' = [call EXCEPT ![c] = call'[c]]
    BY <1>1 DEF Await, Proceed, Read, NoClient, AwaitFails, Undo, Close
  <1>3. CASE Proceed(c)
    <2>1. /\ call'[c].pc = CASE call[c].pc = "creating" -> "connecting"
                             [] call[c].pc = "connecting" -> "beginning"
                             [] call[c].pc = "beginning" -> "timing"
                             [] call[c].pc = "timing" -> "idling"
                             [] call[c].pc = "idling" -> "querying"
                             [] call[c].pc = "ending" -> "closing"
          /\ call'[c].error = call[c].error
          /\ call[c].pc \in Awaits \ {"querying"}
      BY <1>1, <1>3 DEF Proceed, Call
    <2>2. \/ QueryState(c)' = QueryState(c)
          \/ QueryState(c) = "begun" /\ QueryState(c)' = "guarded"
      BY <1>1, <2>1 DEF QueryState, InStep, SessionAt, Awaits
    <2> QED BY <1>1, <1>2, <2>2, MoveIsPromised
  <1>4. ASSUME NEW error \in Errors, call' = [call EXCEPT ![c] = Caught(c, error)],
               call[c].pc \in Awaits, session'[c] = session[c] \/ ~Read(c)
        PROVE  [Promise!Next]_([d \in Callers |-> QueryState(d)])
    <2>1. call'[c] = Caught(c, error) /\ error # None
      BY <1>1, <1>4, ErrorsAreErrors
    <2>2. /\ call'[c].pc \in {"undoing", "closing", "done"}
          /\ call'[c].error = error /\ call'[c].thrown = error
          /\ call[c].client = TRUE => call'[c].pc # "done"
      BY <1>1, <2>1, CaughtType
    <2>3. QueryState(c)' \in {"lost", "failed"}
      BY <1>1, <2>1, <2>2 DEF QueryState, InStep
    <2>4. CASE call[c].pc = "creating"
      <3>1. QueryState(c) = "begun"
        BY <1>1, <2>4 DEF QueryState, InStep, Awaits
      <3> QED BY <1>1, <1>2, <2>3, <3>1, MoveIsPromised
    <2>5. CASE call[c].pc # "creating"
      <3>1. QueryState(c)' = "lost"
        BY <1>1, <1>4, <2>1, <2>2, <2>5 DEF QueryState, InStep
      <3>2. QueryState(c) \in {"begun", "guarded", "read"}
        BY <1>1, <1>4 DEF QueryState, InStep, SessionAt, Awaits
      <3> QED BY <1>1, <1>2, <3>1, <3>2, MoveIsPromised
    <2> QED BY <2>4, <2>5
  <1>5. CASE Read(c)
    <2>1. CASE call' = [call EXCEPT ![c].pc = "ending", ![c].read = warehouse]
      <3>1. call'[c].pc = "ending" /\ call'[c].error = call[c].error
        BY <1>1, <2>1 DEF Call
      <3>2. QueryState(c) = "guarded" /\ QueryState(c)' = "read"
        BY <1>1, <1>5, <3>1 DEF QueryState, InStep, SessionAt, Awaits, Read, At
      <3> QED BY <1>1, <1>2, <3>2, MoveIsPromised
    <2>2. ASSUME NEW bad \in BadResults, call' = [call EXCEPT ![c] = Caught(c, bad)]
          PROVE  [Promise!Next]_([d \in Callers |-> QueryState(d)])
      BY <1>1, <1>4, <1>5, <2>2, ErrorsAreErrors DEF Read, At, Awaits
    <2> QED BY <1>5, <2>1, <2>2 DEF Read
  <1>6. CASE NoClient(c)
    <2>1. PICK something \in BOOLEAN :
             call' = [call EXCEPT
                 ![c] = [Fresh(IF something THEN "closing" ELSE "done", "INVALID_POSTGRES_CLIENT")
                             EXCEPT !.client = something]]
      BY <1>6 DEF NoClient
    <2>2. /\ call'[c].pc \in {"closing", "done"}
          /\ call'[c].error = "INVALID_POSTGRES_CLIENT"
          /\ call'[c].thrown = "INVALID_POSTGRES_CLIENT"
      BY <1>1, <2>1 DEF Fresh
    <2>3. QueryState(c)' \in {"lost", "failed"}
      BY <1>1, <2>2 DEF QueryState, InStep, None
    <2>4. QueryState(c) = "begun"
      BY <1>1, <1>6 DEF QueryState, InStep, Awaits, NoClient, At
    <2> QED BY <1>1, <1>2, <2>3, <2>4, MoveIsPromised
  <1>7. CASE AwaitFails(c)
    <2>1. PICK error \in ClassifiedErrors : call' = [call EXCEPT ![c] = Caught(c, error)]
      BY <1>7, ClassifiedType DEF AwaitFails
    <2>2. call[c].pc \in Awaits /\ (session'[c] = session[c] \/ ~Read(c))
      <3>1. Read(c) => session'[c] = session[c]
        BY DEF Read
      <3> QED BY <1>7, <3>1 DEF AwaitFails
    <2> QED BY <1>4, <2>1, <2>2, ErrorsAreErrors
  <1>8. CASE Undo(c)
    <2>1. /\ call[c].pc = "undoing" /\ call'[c].pc = "closing"
          /\ call'[c].error = call[c].error /\ call[c].error # None
      BY <1>1, <1>8 DEF Undo, At, InStep, Call
    <2>2. QueryState(c)' = QueryState(c)
      BY <2>1 DEF QueryState
    <2> QED BY <1>1, <1>2, <2>2, MoveIsPromised
  <1>9. CASE Close(c)
    <2>1. /\ call[c].pc = "closing" /\ call'[c].pc = "done" /\ session'[c] = "none"
          /\ call'[c].thrown = call[c].error
      BY <1>1, <1>9 DEF Close, At, InStep, Call
    <2>2. \/ QueryState(c) = "lost" /\ QueryState(c)' = "failed"
          \/ QueryState(c) = "read" /\ QueryState(c)' = "answered"
      BY <2>1 DEF QueryState
    <2> QED BY <1>1, <1>2, <2>2, MoveIsPromised
  <1> QED BY <1>3, <1>5, <1>6, <1>7, <1>8, <1>9 DEF Await

\* The adapter implements WarehouseQuery: for any number of handlers and any
\* interleaving of their awaits and failures, a query reads at most once and only
\* inside a guarded read-only transaction, and it answers or fails only when
\* nothing of it is left at the server.
THEOREM AdapterKeepsPromise == AdapterSpec => PromiseSpec
  <1>1. AdapterInit => Promise!Init
    BY DEF AdapterInit, Promise!Init, QueryState, Fresh
  <1>2. AdapterInv /\ AdapterInv' /\ [AdapterNext]_adapterVars => [Promise!Next]_([c \in Callers |-> QueryState(c)])
    <2> SUFFICES ASSUME AdapterInv, AdapterInv', [AdapterNext]_adapterVars
                 PROVE  [Promise!Next]_([c \in Callers |-> QueryState(c)])
      OBVIOUS
    <2>1. ASSUME NEW event \in Events, Ingest(event) PROVE [Promise!Next]_([c \in Callers |-> QueryState(c)])
      BY <2>1 DEF Ingest, QueryState
    <2>2. CASE UNCHANGED adapterVars
      BY <2>2 DEF adapterVars, QueryState
    <2> QED BY <2>1, <2>2, StartQueryPromised, AwaitPromised DEF AdapterNext
  <1> QED BY <1>1, <1>2, AdapterInvariant, PTL DEF AdapterSpec, PromiseSpec, Promise!Spec
=============================================================================
