---------------------------- MODULE RequestPath ----------------------------
(***************************************************************************)
(* The layers every request of the application passes, the request         *)
(* identifier and the log records written on its behalf:                   *)
(*                                                                         *)
(*   server -> ServerError -> NoIndex -> RequestId -> CatchAll -> router   *)
(*                                                                         *)
(* A task of the server runs one request.  Its identifier rides a          *)
(* contextvar, so each task has a value of its own, and the context a task *)
(* is started in may be a copy of the one an earlier request of the same   *)
(* connection was served in.  The router may answer, fail before or after  *)
(* its response has begun, or be cancelled; the layers then unwind one at  *)
(* a time, each a step, and any layer may write a record.                  *)
(***************************************************************************)
EXTENDS Naturals

CONSTANTS
  Task,   \* the requests, each served by a task of its own
  Name,   \* the values of an incoming X-Request-ID
  Cut,    \* what is left of a value after its first 64 characters
  None    \* no header, no value, no answer

ASSUME CutAssumption == Cut \in [Name -> Name]
ASSUME NamesAssumption == Name \cap Task = {} /\ None \notin Name \cup Task

VARIABLES
  environment,  \* what APP_ENV names
  logFile,      \* whether LOG_FILE names a file
  scope,        \* task -> "http" or "lifespan"
  incoming,     \* task -> the X-Request-ID of the request, or None
  at,           \* task -> where the call stands
  requestId,    \* task -> the value of the contextvar in its context
  token,        \* task -> the value before this request set it
  fault,        \* task -> what the router ended with
  flagged,      \* task -> _LOGGED on its scope
  answer,       \* task -> the start of the response that went out, or None
  written,      \* task -> emitter -> number of records
  printed       \* the lines that reached a sink

vars == <<environment, logFile, scope, incoming, at, requestId, token, fault,
          flagged, answer, written, printed>>
fixed == <<environment, logFile, scope, incoming>>

-----------------------------------------------------------------------------
(* Records and sinks.                                                      *)

Emitter == {"app", "server", "library"}

\* A record: where the text of an exception sits in it.  "text" is what str(exc), a
\* rendered traceback or a rendered stack would print.
Record == [exc_info : BOOLEAN, exc_text : {"none", "summary"}, stack_info : BOOLEAN,
           msg : {"plain", "text", "summary"}, args : {"plain", "text", "type"}]

\* logger.exception(_UNHANDLED, exc_info=exc), and the server's own record of it.
Unhandled == [exc_info |-> TRUE, exc_text |-> "none", stack_info |-> FALSE,
              msg |-> "plain", args |-> "plain"]

\* What a library may hand to logging: an exception in any of the four places.
Foreign == [exc_info : BOOLEAN, exc_text : {"none"}, stack_info : BOOLEAN,
            msg : {"plain", "text"}, args : {"plain", "text"}]

FILTERS == {"request_id", "exception_summary"}

\* The sinks of the dictConfig document and the filters each carries, in their order.
Sinks == IF logFile THEN <<"console", "file">> ELSE <<"console">>
Filters(sink) == FILTERS

\* Mutant: the arguments of a record are taken for plain values.
SummarisedButArgs(record) ==
  [exc_info   |-> FALSE,
   exc_text   |-> IF record.exc_info THEN "summary" ELSE record.exc_text,
   stack_info |-> FALSE,
   msg        |-> IF record.msg = "text" THEN "summary" ELSE record.msg,
   args       |-> record.args]

\* ExceptionSummaryFilter.filter: the record is changed in place, so a later sink gets it.
Summarised(record) ==
  [exc_info   |-> FALSE,
   exc_text   |-> IF record.exc_info THEN "summary" ELSE record.exc_text,
   stack_info |-> FALSE,
   msg        |-> IF record.msg = "text" THEN "summary" ELSE record.msg,
   args       |-> IF record.args = "text" THEN "type" ELSE record.args]

Through(sink, record) ==
  IF "exception_summary" \in Filters(sink) THEN Summarised(record) ELSE record

\* The record the n-th sink formats: every sink before it has filtered it too.
Reaching(n, record) ==
  IF n = 1 THEN Through(Sinks[1], record)
           ELSE Through(Sinks[2], Through(Sinks[1], record))

\* logging.Formatter: exc_text when there is one, else the rendered exc_info.
Format(record) ==
       {record.msg, record.args}
  \cup (IF record.exc_text # "none" THEN {record.exc_text}
        ELSE IF record.exc_info THEN {"text"} ELSE {})
  \cup (IF record.stack_info THEN {"text"} ELSE {})

\* RequestIdFilter reads the contextvar of the task that writes.
Lines(t, record) ==
  {[sink |-> Sinks[n], task |-> t,
    id |-> IF "request_id" \in Filters(Sinks[n]) THEN requestId[t] ELSE None,
    pieces |-> Format(Reaching(n, record))] : n \in DOMAIN Sinks}

Emit(t, by, record) ==
  /\ written' = [written EXCEPT ![t][by] = @ + 1]
  /\ printed' = printed \cup Lines(t, record)

-----------------------------------------------------------------------------
(* What a response carries.                                                *)

UNLISTED_ENVIRONMENTS == {"preview"}

\* The identifier this request goes by: the caller's, cut, or one minted for it (the task
\* itself stands for the value minted for it: no two are the same).
OwnId(t) == IF incoming[t] = None THEN t ELSE Cut[incoming[t]]

Raw(status) == [status |-> status, id |-> None, noindex |-> FALSE]
WithId(t, start) == [start EXCEPT !.id = OwnId(t)]
WithNoIndex(start) ==
  IF environment \in UNLISTED_ENVIRONMENTS THEN [start EXCEPT !.noindex = TRUE] ELSE start

\* A start sent from inside the wrappers passes both on its way out.
Stamped(t, status) == WithNoIndex(WithId(t, Raw(status)))

Start == [status : {"answered", "500"}, id : Name \cup Task \cup {None}, noindex : BOOLEAN]
ASSUME StartAssumption == None \notin Start  \* no answer is no response

Init ==
  /\ environment \in {"preview", "prod"}
  /\ logFile \in BOOLEAN
  /\ scope \in [Task -> {"http", "lifespan"}]
  /\ incoming \in [Task -> Name \cup {None}]
  /\ at = [t \in Task |-> "waiting"]
  /\ requestId = [t \in Task |-> None]
  /\ token = [t \in Task |-> None]
  /\ fault = [t \in Task |-> "none"]
  /\ flagged = [t \in Task |-> FALSE]
  /\ answer = [t \in Task |-> None]
  /\ written = [t \in Task |-> [by \in Emitter |-> 0]]
  /\ printed = {}

GoTo(t, from, to) == at[t] = from /\ at' = [at EXCEPT ![t] = to]

\* The server starts a task.  A request waiting behind another on one connection is started
\* from within that one's task and inherits a copy of its context.
Accept(t) ==
  /\ scope[t] = "http"
  /\ GoTo(t, "waiting", "outer")
  /\ \E inherited \in {None} \cup {requestId[u] : u \in {v \in Task : at[v] # "waiting"}} :
       requestId' = [requestId EXCEPT ![t] = inherited]
  /\ UNCHANGED <<fixed, token, fault, flagged, answer, written, printed>>

\* A scope that is not a request goes through every layer untouched.
PassThrough(t) ==
  /\ scope[t] = "lifespan"
  /\ GoTo(t, "waiting", "done")
  /\ UNCHANGED <<fixed, requestId, token, fault, flagged, answer, written, printed>>

\* RequestIdMiddleware.__call__, up to the call of what it wraps.
SetRequestId(t) ==
  /\ GoTo(t, "outer", "routing")
  /\ token' = [token EXCEPT ![t] = requestId[t]]
  /\ requestId' = [requestId EXCEPT ![t] = OwnId(t)]
  /\ UNCHANGED <<fixed, fault, flagged, answer, written, printed>>

\* While a request is served somebody's logger is given a record, whatever is in it.
LibraryLogs(t) ==
  /\ at[t] = "routing"
  /\ written[t]["library"] = 0
  /\ \E record \in Foreign : Emit(t, "library", record)
  /\ UNCHANGED <<fixed, at, requestId, token, fault, flagged, answer>>

-----------------------------------------------------------------------------
(* How the router may end.                                                 *)

\* A response, or a refusal the registered handlers turn into one (404, 409, 422).
Respond(t) ==
  /\ GoTo(t, "routing", "returned")
  /\ answer[t] = None
  /\ answer' = [answer EXCEPT ![t] = Stamped(t, "answered")]
  /\ UNCHANGED <<fixed, requestId, token, fault, flagged, written, printed>>

\* A response whose body breaks off: its start has gone out, then the router raises.
Begin(t) ==
  /\ at[t] = "routing"
  /\ answer[t] = None
  /\ answer' = [answer EXCEPT ![t] = Stamped(t, "answered")]
  /\ UNCHANGED <<fixed, at, requestId, token, fault, flagged, written, printed>>

Raise(t) ==
  /\ GoTo(t, "routing", "raised")
  /\ fault' = [fault EXCEPT ![t] = "exception"]
  /\ UNCHANGED <<fixed, requestId, token, flagged, answer, written, printed>>

\* A BaseException that is no Exception: no layer but RequestId's sees it.
Cancel(t) ==
  /\ GoTo(t, "routing", "leaving")
  /\ fault' = [fault EXCEPT ![t] = "cancelled"]
  /\ UNCHANGED <<fixed, requestId, token, flagged, answer, written, printed>>

\* The else branch of RequestIdMiddleware: only a call that returned puts the value back.
ResetRequestId(t) ==
  /\ GoTo(t, "returned", "done")
  /\ requestId' = [requestId EXCEPT ![t] = token[t]]
  /\ UNCHANGED <<fixed, token, fault, flagged, answer, written, printed>>

-----------------------------------------------------------------------------
(* CatchAllMiddleware.                                                     *)

\* The scope is marked before the record is written.
CatchAndLog(t) ==
  /\ GoTo(t, "raised", "caught")
  /\ flagged' = [flagged EXCEPT ![t] = TRUE]
  /\ Emit(t, "app", Unhandled)
  /\ UNCHANGED <<fixed, requestId, token, fault, answer>>

\* The logging call itself raises: nothing is written and nothing is sent from here.
CatchAndFail(t) ==
  /\ GoTo(t, "raised", "leaving")
  /\ flagged' = [flagged EXCEPT ![t] = TRUE]
  /\ fault' = [fault EXCEPT ![t] = "log failed"]
  /\ UNCHANGED <<fixed, requestId, token, answer, written, printed>>

\* Mutant: the catch-all is mounted outside the wrappers.
SendOutside(t) ==
  /\ GoTo(t, "caught", "leaving")
  /\ answer' = IF answer[t] = None THEN [answer EXCEPT ![t] = Raw("500")] ELSE answer
  /\ UNCHANGED <<fixed, requestId, token, fault, flagged, written, printed>>

\* The fixed body is sent through the wrappers; a response that has begun refuses a second
\* start, which only replaces the exception that is raised on.
SendSanitized(t) ==
  /\ GoTo(t, "caught", "leaving")
  /\ answer' = IF answer[t] = None THEN [answer EXCEPT ![t] = Stamped(t, "500")] ELSE answer
  /\ UNCHANGED <<fixed, requestId, token, fault, flagged, written, printed>>

-----------------------------------------------------------------------------
(* Outwards: RequestId, ServerError, the server.                           *)

\* Mutant: the value is put back on every way out.
LeaveAndReset(t) ==
  /\ GoTo(t, "leaving", IF fault[t] = "cancelled" THEN "escaped" ELSE "unhandled")
  /\ requestId' = [requestId EXCEPT ![t] = token[t]]
  /\ UNCHANGED <<fixed, token, fault, flagged, answer, written, printed>>

\* except BaseException: raise -- and nothing is reset.
LeaveRequestId(t) ==
  /\ GoTo(t, "leaving", IF fault[t] = "cancelled" THEN "escaped" ELSE "unhandled")
  /\ UNCHANGED <<fixed, requestId, token, fault, flagged, answer, written, printed>>

\* Mutant: the mark on the scope is not asked for.
HandleAndLog(t) ==
  /\ GoTo(t, "unhandled", "handled")
  /\ Emit(t, "app", Unhandled)
  /\ UNCHANGED <<fixed, requestId, token, fault, flagged, answer>>

\* ServerErrorMiddleware calls the registered handler, whether or not a response has begun.
HandleGeneric(t) ==
  /\ GoTo(t, "unhandled", "handled")
  /\ IF flagged[t] THEN UNCHANGED <<written, printed>> ELSE Emit(t, "app", Unhandled)
  /\ UNCHANGED <<fixed, requestId, token, fault, flagged, answer>>

\* Mutant: whether a response has begun is not asked.
SendAgain(t) ==
  /\ GoTo(t, "handled", "escaped")
  /\ answer' = [answer EXCEPT ![t] = Raw("500")]
  /\ UNCHANGED <<fixed, requestId, token, fault, flagged, written, printed>>

\* It answers through the raw send only when nothing has been sent, and raises on.
SendRaw(t) ==
  /\ GoTo(t, "handled", "escaped")
  /\ answer' = IF answer[t] = None THEN [answer EXCEPT ![t] = Raw("500")] ELSE answer
  /\ UNCHANGED <<fixed, requestId, token, fault, flagged, written, printed>>

\* Mutant: the server leaves the answer to the application.
ServerOnlyLogs(t) ==
  /\ GoTo(t, "escaped", "done")
  /\ Emit(t, "server", Unhandled)
  /\ UNCHANGED <<fixed, requestId, token, fault, flagged, answer>>

\* The server logs what reached it and answers for an application that did not.
ServerLogs(t) ==
  /\ GoTo(t, "escaped", "done")
  /\ Emit(t, "server", Unhandled)
  /\ answer' = IF answer[t] = None THEN [answer EXCEPT ![t] = Raw("500")] ELSE answer
  /\ UNCHANGED <<fixed, requestId, token, fault, flagged>>

Next == \E t \in Task :
  \/ Accept(t) \/ PassThrough(t) \/ SetRequestId(t) \/ LibraryLogs(t)
  \/ Respond(t) \/ Begin(t) \/ Raise(t) \/ Cancel(t) \/ ResetRequestId(t)
  \/ CatchAndLog(t) \/ CatchAndFail(t) \/ SendSanitized(t)
  \/ LeaveRequestId(t) \/ HandleGeneric(t) \/ SendRaw(t) \/ ServerLogs(t)

Spec == Init /\ [][Next]_vars

-----------------------------------------------------------------------------
(* Properties.                                                             *)

Line == [sink : {"console", "file"}, task : Task, id : Name \cup Task \cup {None},
         pieces : SUBSET {"plain", "text", "summary", "none", "type"}]

Place == {"waiting", "outer", "routing", "returned", "raised", "caught", "leaving",
          "unhandled", "handled", "escaped", "done"}

\* The shape of the state.
TypeOK ==
  /\ environment \in {"preview", "prod"}
  /\ logFile \in BOOLEAN
  /\ scope \in [Task -> {"http", "lifespan"}]
  /\ incoming \in [Task -> Name \cup {None}]
  /\ at \in [Task -> Place]
  /\ requestId \in [Task -> Name \cup Task \cup {None}]
  /\ token \in [Task -> Name \cup Task \cup {None}]
  /\ fault \in [Task -> {"none", "exception", "cancelled", "log failed"}]
  /\ flagged \in [Task -> BOOLEAN]
  /\ answer \in [Task -> Start \cup {None}]
  /\ written \in [Task -> [Emitter -> 0..1]]
  /\ printed \subseteq Line

\* Every line in the log, whichever logger wrote it and however late on the way out, is
\* printed with the identifier of the request it is about: never with the one an earlier
\* request left in the context the task was started in, never with none (request_id.py).
RecordsNameTheirRequest == \A line \in printed : line.id = OwnId(line.task)

\* A failure is written down by the application exactly once, although two layers have a
\* record to write and the request goes on failing past both; a request that did not fail,
\* or was cancelled, is not written down at all (errors.py, _LOGGED).
OneRecordPerFailure ==
  \A t \in Task :
    /\ written[t]["app"] <= 1
    /\ at[t] = "done" => (written[t]["app"] = 1 <=> fault[t] = "exception")

\* Whatever layer answers, the answer carries the identifier the log has for the request
\* and, on a preview and nowhere else, the demand not to be indexed; only a cancelled
\* request and one whose logging call failed are answered outside the wrappers (main.py).
EveryAnswerIsStamped ==
  \A t \in Task :
    answer[t] # None /\ fault[t] \in {"none", "exception"} =>
      /\ answer[t].id = OwnId(t)
      /\ answer[t].noindex <=> environment = "preview"

\* Whichever of the four places of a record holds the text of an exception, none of it is
\* printed by any sink, the second one included, which is handed what the first has changed
\* (logging_config.py, article XI).
NoTextReachesASink == \A line \in printed : "text" \notin line.pieces

\* Three layers can answer a failing request.  Whatever they do, a request that is over has
\* been answered,
NobodyIsLeftWithoutAnAnswer ==
  \A t \in Task : scope[t] = "http" /\ at[t] = "done" => answer[t] # None

\* ... and what has been sent of an answer is never sent again.
OneStart == [][\A t \in Task : answer[t] # None => answer'[t] = answer[t]]_vars
=============================================================================
