---------------------------- MODULE WarehouseAdapter ----------------------------
(***************************************************************************)
(* One query of the warehouse by a handler: BindingQueryExecutor.query of  *)
(* src/executor.js over PostgresQueryAdapter.query of                      *)
(* src/postgres-adapter.js.                                                *)
(*                                                                         *)
(* A query makes a client of its own, opens a read-only transaction, sets  *)
(* two deadlines in it, reads, rolls back and ends the client: six awaits, *)
(* each of which may fail, and may fail although the server did what it    *)
(* was asked.  A failed query rolls back, when it knows of a transaction,  *)
(* and ends its client, and the errors of these two are dropped.           *)
(*                                                                         *)
(* An injected ANALYTICS_DB replaces the adapter and keeps its promise.    *)
(***************************************************************************)
EXTENDS Naturals, FiniteSets

CONSTANTS
    Callers,   \* handlers, each of which awaits one query at a time
    Codes,     \* codes the driver's errors may carry
    Events     \* rows the events table may hold

VARIABLES
    warehouse,  \* the rows of the events table
    session,    \* what the server holds for the client of each caller
    call        \* what the adapter holds for each caller

adapterVars == <<warehouse, session, call>>

ClassifiedErrors ==
    {"WAREHOUSE_AUTH_FAILED", "WAREHOUSE_PERMISSION_DENIED", "WAREHOUSE_READ_ONLY_VIOLATION",
     "WAREHOUSE_TIMEOUT", "WAREHOUSE_SCHEMA_MISMATCH", "WAREHOUSE_UNREACHABLE",
     "WAREHOUSE_QUERY_FAILED"}

\* Mutant: the caller is told of the driver's own error.
Unclassified(code) == code

\* The codes of Postgres that start with 08.
ConnectionExceptions == {"08000", "08001", "08003", "08004", "08006", "08007", "08P01"}

\* classifyPostgresError: what the caller is told of an error of the driver.
Classified(code) ==
    CASE code \in {"28P01", "28000"} -> "WAREHOUSE_AUTH_FAILED"
      [] code = "42501" -> "WAREHOUSE_PERMISSION_DENIED"
      [] code = "25006" -> "WAREHOUSE_READ_ONLY_VIOLATION"
      [] code = "57014" -> "WAREHOUSE_TIMEOUT"
      [] code \in {"42P01", "42703", "3F000"} -> "WAREHOUSE_SCHEMA_MISMATCH"
      [] code \in ConnectionExceptions
                     \cup {"ECONNREFUSED", "ENOTFOUND", "ETIMEDOUT", "EHOSTUNREACH"} ->
             "WAREHOUSE_UNREACHABLE"
      [] OTHER -> "WAREHOUSE_QUERY_FAILED"

\* Refused before a client is made: no connection string, no read-only
\* contract, a limit of rows or time out of range (boundedInteger).
Refusals == {"WAREHOUSE_NOT_CONFIGURED", "WAREHOUSE_READ_ONLY_REQUIRED", "INVALID_EXECUTION_LIMIT"}

\* A result that is not an array, or has more rows than the request permits.
BadResults == {"INVALID_WAREHOUSE_RESPONSE", "RESULT_TOO_LARGE"}

Errors == ClassifiedErrors \cup Refusals \cup BadResults \cup {"INVALID_POSTGRES_CLIENT"}

None == "none"

\* The awaits of a query, and after each what it awaits next.
Awaits == {"creating", "connecting", "beginning", "timing", "idling", "querying", "ending"}

\* The server's side of a client: "none", connected, in a read-only transaction
\* with no deadline, with one, or with both.
Sessions == {"none", "connected", "begun", "timed", "guarded"}

\* client: there is a client to end; open: transactionOpen; read: the
\* rows of the table the result is computed from; error: the first error;
\* thrown: the error the caller gets.
Call ==
    [pc: {"idle", "undoing", "closing", "done"} \cup Awaits,
     client: BOOLEAN, open: BOOLEAN, read: SUBSET Events,
     error: Errors \cup {None}, thrown: Errors \cup {None}]

Fresh(pc, error) ==
    [pc |-> pc, client |-> FALSE, open |-> FALSE, read |-> {}, error |-> error, thrown |-> error]

AdapterTypeOK ==
    /\ warehouse \subseteq Events
    /\ session \in [Callers -> Sessions]
    /\ call \in [Callers -> Call]

AdapterInit ==
    /\ warehouse \in SUBSET Events
    /\ session = [c \in Callers |-> "none"]
    /\ call = [c \in Callers |-> Fresh("idle", None)]

-----------------------------------------------------------------------------
At(c, pc) == call[c].pc = pc

Ready(c) == call[c].pc \in {"idle", "done"}

Answered(c) == At(c, "done") /\ call[c].thrown = None

Failed(c) == At(c, "done") /\ call[c].thrown # None

\* The checks before the try, then the client factory.
StartQuery(c) ==
    /\ Ready(c)
    /\ \/ call' = [call EXCEPT ![c] = Fresh("creating", None)]
       \/ \E refusal \in Refusals : call' = [call EXCEPT ![c] = Fresh("done", refusal)]
    /\ UNCHANGED <<warehouse, session>>

\* What the server does when it carries out what a query awaits.
Carried(c) ==
    CASE call[c].pc = "connecting" -> "connected"
      [] call[c].pc = "beginning" -> "begun"
      [] call[c].pc = "timing" -> "timed"
      [] call[c].pc = "idling" -> "guarded"
      [] call[c].pc = "ending" -> "connected"
      [] OTHER -> session[c]

\* Mutant: the deadlines are skipped.
ProceedUnguarded(c) ==
    /\ call[c].pc \in Awaits \ {"querying"}
    /\ session' = [session EXCEPT ![c] = Carried(c)]
    /\ call' = [call EXCEPT
           ![c].pc = CASE @ = "creating" -> "connecting"
                       [] @ = "connecting" -> "beginning"
                       [] @ = "beginning" -> "querying"
                       [] @ = "timing" -> "idling"
                       [] @ = "idling" -> "querying"
                       [] @ = "ending" -> "closing",
           ![c].client = TRUE,
           ![c].open = CASE call[c].pc = "beginning" -> TRUE
                         [] call[c].pc = "ending" -> FALSE
                         [] OTHER -> @]
    /\ UNCHANGED warehouse

\* An await that succeeds, except for the read itself.
Proceed(c) ==
    /\ call[c].pc \in Awaits \ {"querying"}
    /\ session' = [session EXCEPT ![c] = Carried(c)]
    /\ call' = [call EXCEPT
           ![c].pc = CASE @ = "creating" -> "connecting"
                       [] @ = "connecting" -> "beginning"
                       [] @ = "beginning" -> "timing"
                       [] @ = "timing" -> "idling"
                       [] @ = "idling" -> "querying"
                       [] @ = "ending" -> "closing",
           ![c].client = TRUE,
           ![c].open = CASE call[c].pc = "beginning" -> TRUE
                         [] call[c].pc = "ending" -> FALSE
                         [] OTHER -> @]
    /\ UNCHANGED warehouse

\* catch: with a transaction known to be open, roll it back quietly first.
Caught(c, error) ==
    [call[c] EXCEPT
        !.pc = IF call[c].open THEN "undoing" ELSE IF call[c].client THEN "closing" ELSE "done",
        !.error = error,
        !.thrown = error]

\* The rows are in: they are what the warehouse holds now, or no result.
Read(c) ==
    /\ At(c, "querying")
    /\ \/ call' = [call EXCEPT ![c].pc = "ending", ![c].read = warehouse]
       \/ \E bad \in BadResults : call' = [call EXCEPT ![c] = Caught(c, bad)]
    /\ UNCHANGED <<warehouse, session>>

\* The factory returns something that is no client, or nothing at all.
NoClient(c) ==
    /\ At(c, "creating")
    /\ \E something \in BOOLEAN :
           call' = [call EXCEPT
               ![c] = [Fresh(IF something THEN "closing" ELSE "done", "INVALID_POSTGRES_CLIENT")
                           EXCEPT !.client = something]]
    /\ UNCHANGED <<warehouse, session>>

\* An await that throws, whether or not the server carried it out.
AwaitFails(c) ==
    /\ call[c].pc \in Awaits
    /\ session' \in {session, [session EXCEPT ![c] = Carried(c)]}
    /\ \E code \in Codes : call' = [call EXCEPT ![c] = Caught(c, Classified(code))]
    /\ UNCHANGED warehouse

\* Mutant: the error of the second ROLLBACK is thrown instead.
UndoLoudly(c) ==
    /\ At(c, "undoing")
    /\ session' \in {session, [session EXCEPT ![c] = "connected"]}
    /\ \E code \in Codes :
          call' = [call EXCEPT ![c].pc = "closing", ![c].thrown = Classified(code)]
    /\ UNCHANGED warehouse

\* Mutant: after a quiet rollback the client is left.
UndoAndLeave(c) ==
    /\ At(c, "undoing")
    /\ session' \in {session, [session EXCEPT ![c] = "connected"]}
    /\ call' = [call EXCEPT ![c].pc = "done"]
    /\ UNCHANGED warehouse

\* rollbackQuietly: it may fail, and the error is dropped.
Undo(c) ==
    /\ At(c, "undoing")
    /\ session' \in {session, [session EXCEPT ![c] = "connected"]}
    /\ call' = [call EXCEPT ![c].pc = "closing"]
    /\ UNCHANGED warehouse

\* finally, closeQuietly: end() closes the socket, or finds it closed.  The
\* server drops the transaction of a closed socket.
Close(c) ==
    /\ At(c, "closing")
    /\ session' = [session EXCEPT ![c] = "none"]
    /\ call' = [call EXCEPT ![c].pc = "done", ![c].client = FALSE, ![c].open = FALSE]
    /\ UNCHANGED warehouse

Await(c) ==
    Proceed(c) \/ Read(c) \/ NoClient(c) \/ AwaitFails(c) \/ Undo(c) \/ Close(c)

\* External: an event arrives at the warehouse, of its own time or late.
Ingest(event) ==
    /\ warehouse' = warehouse \cup {event}
    /\ UNCHANGED <<session, call>>

AdapterNext ==
    \/ \E c \in Callers : StartQuery(c) \/ Await(c)
    \/ \E event \in Events : Ingest(event)

AdapterSpec == AdapterInit /\ [][AdapterNext]_adapterVars

-----------------------------------------------------------------------------
(***************************************************************************)
(* Properties.                                                             *)
(***************************************************************************)

\* The adapter always closes the logical client: once the handler has its
\* answer or its error, on whichever path, the server holds no session of it.
ClientsReleased ==
    \A c \in Callers : Ready(c) => session[c] = "none"

\* The primary error is preserved: what is thrown is the first thing that went
\* wrong, whatever fails while the transaction is undone and the client ended;
\* and nothing is answered after something went wrong.
FirstErrorThrown ==
    \A c \in Callers : At(c, "done") => call[c].thrown = call[c].error

\* How far the promised query of a caller is.
QueryState(c) ==
    IF call[c].pc = "idle" THEN "none"
    ELSE IF call[c].pc = "done"
    THEN IF session[c] # "none" THEN "leaked"
         ELSE IF call[c].thrown = None THEN "answered" ELSE "failed"
    ELSE IF call[c].error # None THEN "lost"
    ELSE IF call[c].pc \in {"ending", "closing"} THEN "read"
    ELSE IF call[c].pc = "querying" /\ session[c] = "guarded" THEN "guarded"
    ELSE "begun"

Promise == INSTANCE WarehouseQuery WITH query <- [c \in Callers |-> QueryState(c)]

\* The adapter implements the promised query: reads happen only inside a
\* read-only transaction with both deadlines, every failure ends as an error,
\* and an answer or an error comes only when nothing is left behind.
PromiseSpec == Promise!Spec
=============================================================================
