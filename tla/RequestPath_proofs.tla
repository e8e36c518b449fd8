-------------------------- MODULE RequestPath_proofs --------------------------
(***************************************************************************)
(* Proofs about RequestPath, for any number of requests and any values of  *)
(* their header.  The invariant says, for each place a call may stand at,  *)
(* what has happened to it by then: how it failed and whether that has     *)
(* been written down (PhaseOf), what was answered (AnswerOf) and under     *)
(* which identifier its task runs (IdOf).                                  *)
(***************************************************************************)
EXTENDS RequestPath, TLAPS

Quiet(t) == fault[t] = "none" /\ ~flagged[t] /\ written[t]["app"] = 0
Raised(t) == fault[t] = "exception" /\ ~flagged[t] /\ written[t]["app"] = 0
Logged(t) == fault[t] = "exception" /\ flagged[t] /\ written[t]["app"] = 1
LogFailed(t) == fault[t] = "log failed" /\ flagged[t] /\ written[t]["app"] = 0
Cancelled(t) == fault[t] = "cancelled" /\ ~flagged[t] /\ written[t]["app"] = 0

\* The failure of a call and its record, place by place.
PhaseOf(t) ==
  /\ at[t] \in {"waiting", "outer", "routing", "returned"} => Quiet(t)
  /\ at[t] = "raised" => Raised(t)
  /\ at[t] = "caught" => Logged(t)
  /\ at[t] \in {"leaving", "escaped"} => Logged(t) \/ LogFailed(t) \/ Cancelled(t)
  /\ at[t] \in {"unhandled", "handled"} => Logged(t) \/ LogFailed(t)
  /\ at[t] = "done" => Quiet(t) \/ Logged(t) \/ LogFailed(t) \/ Cancelled(t)

\* The answer of a call: who failed and was logged has one from inside the wrappers.
AnswerOf(t) ==
  /\ answer[t] # None /\ fault[t] \in {"none", "exception"} =>
       answer[t].id = OwnId(t) /\ (answer[t].noindex <=> environment = "preview")
  /\ at[t] = "returned" => answer[t] # None
  /\ at[t] \in {"leaving", "unhandled", "handled", "escaped"} /\ fault[t] = "exception"
       => answer[t] # None
  /\ at[t] = "done" /\ scope[t] = "http" => answer[t] # None
  /\ scope[t] = "lifespan" => at[t] \in {"waiting", "done"}

\* The identifier a call runs under, and the record only the server writes.
IdOf(t) ==
  /\ at[t] \notin {"waiting", "outer", "done"} => requestId[t] = OwnId(t)
  /\ at[t] # "done" => written[t]["server"] = 0

TaskInv(t) == PhaseOf(t) /\ AnswerOf(t) /\ IdOf(t)

IInv ==
  /\ TypeOK
  /\ \A t \in Task : TaskInv(t)
  /\ RecordsNameTheirRequest
  /\ NoTextReachesASink

-----------------------------------------------------------------------------
(* Records and sinks.                                                      *)

\* What the filter leaves of a record holds no text, and what a sink prints of that neither.
LEMMA NothingIsPrinted ==
  ASSUME NEW record \in Foreign \cup {Unhandled}, NEW n \in DOMAIN Sinks
  PROVE  /\ Format(Reaching(n, record)) \in SUBSET {"plain", "text", "summary", "none", "type"}
         /\ "text" \notin Format(Reaching(n, record))
<1>1. record \in Record
  <2>1. Unhandled \in Record BY DEF Unhandled, Record
  <2>2. ASSUME NEW r \in Foreign PROVE r \in Record
    BY <2>2 DEF Foreign, Record
  <2>. QED BY <2>1, <2>2
<1>2. \A r \in Record : /\ Summarised(r) \in Record
                        /\ ~Summarised(r).exc_info /\ ~Summarised(r).stack_info
                        /\ Summarised(r).msg # "text" /\ Summarised(r).args # "text"
  BY DEF Record, Summarised
<1>3. \A k, r : Through(k, r) = Summarised(r) BY DEF Through, Filters, FILTERS
<1>4. PICK r \in Record : Reaching(n, record) = Summarised(r)
  <2>1. CASE n = 1 BY <1>1, <1>3, <2>1 DEF Reaching
  <2>2. CASE n # 1
    <3>1. Summarised(record) \in Record BY <1>1, <1>2
    <3>2. Reaching(n, record) = Summarised(Summarised(record)) BY <1>3, <2>2 DEF Reaching
    <3>. QED BY <3>1, <3>2
  <2>. QED BY <2>1, <2>2
<1>. DEFINE left == Summarised(r)
<1>5. /\ left.msg \in {"plain", "summary"} /\ left.args \in {"plain", "type"}
      /\ left.exc_text \in {"none", "summary"} /\ ~left.exc_info /\ ~left.stack_info
  BY <1>2 DEF Record
<1>. HIDE DEF left
<1>6. Format(left) \subseteq {"plain", "summary", "type", "none"} BY <1>5 DEF Format
<1>. QED BY <1>4, <1>6 DEF left

\* A record is printed under the identifier its task runs under.
LEMMA LinesOfATask ==
  ASSUME TypeOK, NEW t \in Task, NEW record \in Foreign \cup {Unhandled},
         requestId[t] = OwnId(t)
  PROVE  /\ Lines(t, record) \in SUBSET Line
         /\ \A line \in Lines(t, record) : /\ line.id = OwnId(line.task)
                                           /\ "text" \notin line.pieces
<1>1. SUFFICES ASSUME NEW line \in Lines(t, record)
               PROVE  line \in Line /\ line.id = OwnId(line.task) /\ "text" \notin line.pieces
  OBVIOUS
<1>2. PICK n \in DOMAIN Sinks :
        line = [sink |-> Sinks[n], task |-> t, id |-> requestId[t],
                pieces |-> Format(Reaching(n, record))]
  BY DEF Lines, Filters, FILTERS
<1>3. Sinks[n] \in {"console", "file"} BY DEF Sinks
<1>4. requestId[t] \in Name \cup Task \cup {None} BY DEF TypeOK
<1>. QED BY <1>2, <1>3, <1>4, NothingIsPrinted DEF Line

LEMMA EmitEffect ==
  ASSUME TypeOK, RecordsNameTheirRequest, NoTextReachesASink,
         NEW t \in Task, NEW by \in Emitter, NEW record \in Foreign \cup {Unhandled},
         requestId[t] = OwnId(t), written[t][by] = 0, incoming' = incoming,
         Emit(t, by, record)
  PROVE  /\ written' \in [Task -> [Emitter -> 0..1]]
         /\ written'[t][by] = 1
         /\ \A other \in Emitter : other # by => written'[t][other] = written[t][other]
         /\ \A u \in Task : u # t => written'[u] = written[u]
         /\ printed' \subseteq Line
         /\ RecordsNameTheirRequest' /\ NoTextReachesASink'
<1>1. /\ written' = [written EXCEPT ![t][by] = @ + 1]
      /\ printed' = printed \cup Lines(t, record)
  BY DEF Emit
<1>2. written \in [Task -> [Emitter -> 0..1]] /\ printed \subseteq Line BY DEF TypeOK
<1>3. written' = [written EXCEPT ![t] = [written[t] EXCEPT ![by] = 1]] BY <1>1, <1>2
<1>4. [written[t] EXCEPT ![by] = 1] \in [Emitter -> 0..1] BY <1>2
<1>5. \A u : OwnId(u)' = OwnId(u) BY DEF OwnId
<1>6. RecordsNameTheirRequest' /\ NoTextReachesASink'
  BY <1>1, <1>5, LinesOfATask DEF RecordsNameTheirRequest, NoTextReachesASink
<1>. QED BY <1>1, <1>2, <1>3, <1>4, <1>6, LinesOfATask

-----------------------------------------------------------------------------
(* One call.                                                               *)

LEMMA InitIInv == Init => IInv
<1>. SUFFICES ASSUME Init PROVE IInv
  OBVIOUS
<1>1. TypeOK BY DEF Init, TypeOK, Place, Emitter
<1>2. ASSUME NEW t \in Task PROVE TaskInv(t)
  <2>1. /\ at[t] = "waiting" /\ fault[t] = "none" /\ ~flagged[t] /\ answer[t] = None
        /\ written[t]["app"] = 0 /\ written[t]["server"] = 0
    BY DEF Init, Emitter
  <2>. QED BY <2>1 DEF TaskInv, PhaseOf, AnswerOf, IdOf, Quiet
<1>3. RecordsNameTheirRequest /\ NoTextReachesASink
  BY DEF Init, RecordsNameTheirRequest, NoTextReachesASink
<1>. QED BY <1>1, <1>2, <1>3 DEF IInv

\* A call whose variables a step leaves alone stays as it was.
LEMMA OthersAreLeft ==
  ASSUME NEW u \in Task, TaskInv(u), UNCHANGED fixed,
         at'[u] = at[u], requestId'[u] = requestId[u], fault'[u] = fault[u],
         flagged'[u] = flagged[u], answer'[u] = answer[u], written'[u] = written[u]
  PROVE  TaskInv(u)'
<1>1. /\ environment' = environment /\ scope' = scope /\ incoming' = incoming
  BY DEF fixed
<1>2. OwnId(u)' = OwnId(u) BY <1>1 DEF OwnId
<1>. QED BY <1>1, <1>2
         DEF TaskInv, PhaseOf, AnswerOf, IdOf, Quiet, Raised, Logged, LogFailed, Cancelled

\* What a call's own identifier and its stamped answer are.
LEMMA OwnIdType ==
  ASSUME TypeOK, NEW t \in Task
  PROVE  OwnId(t) \in Name \cup Task
  BY CutAssumption, NamesAssumption DEF TypeOK, OwnId

LEMMA StampedIs ==
  ASSUME TypeOK, NEW t \in Task, NEW status \in {"answered", "500"}
  PROVE  /\ Stamped(t, status) \in Start
         /\ Stamped(t, status) # None
         /\ Stamped(t, status).id = OwnId(t)
         /\ Stamped(t, status).noindex <=> environment = "preview"
<1>. DEFINE noindexed == environment = "preview"
<1>1. Stamped(t, status) = [status |-> status, id |-> OwnId(t), noindex |-> noindexed]
  <2>1. CASE environment = "preview"
    BY <2>1, Zenon DEF Stamped, WithId, Raw, WithNoIndex, UNLISTED_ENVIRONMENTS
  <2>2. CASE environment # "preview"
    BY <2>2, Zenon DEF Stamped, WithId, Raw, WithNoIndex, UNLISTED_ENVIRONMENTS
  <2>. QED BY <2>1, <2>2
<1>2. noindexed \in BOOLEAN OBVIOUS
<1>. HIDE DEF noindexed
<1>3. Stamped(t, status) \in Start BY <1>1, <1>2, OwnIdType DEF Start
<1>4. Stamped(t, status) # None BY <1>3, StartAssumption
<1>5. Stamped(t, status).id = OwnId(t) /\ Stamped(t, status).noindex = noindexed
  BY <1>1
<1>. QED BY <1>3, <1>4, <1>5 DEF noindexed

LEMMA RawIs ==
  Raw("500") \in Start /\ Raw("500") # None
<1>1. Raw("500") \in Start BY DEF Raw, Start
<1>. QED BY <1>1, StartAssumption

\* Who answers where nobody has leaves one answer, the one that was there if there was one.
LEMMA FirstAnswer ==
  ASSUME TypeOK, NEW t \in Task, NEW start \in Start,
         answer' = IF answer[t] = None THEN [answer EXCEPT ![t] = start] ELSE answer
  PROVE  /\ answer' \in [Task -> Start \cup {None}]
         /\ answer'[t] # None
         /\ answer[t] # None => answer' = answer
         /\ answer[t] = None => answer'[t] = start
         /\ \A u \in Task : u # t => answer'[u] = answer[u]
<1>1. answer \in [Task -> Start \cup {None}] BY DEF TypeOK
<1>2. start # None BY StartAssumption
<1>. DEFINE S == Start
<1>. HIDE DEF S
<1>3. CASE answer[t] = None
  <2>1. answer' = [answer EXCEPT ![t] = start] BY <1>3
  <2>. QED BY <1>1, <1>2, <1>3, <2>1
<1>4. CASE answer[t] # None BY <1>1, <1>4
<1>. QED BY <1>3, <1>4

-----------------------------------------------------------------------------
(* One step.                                                               *)

\* A step is one call's.
Alone(t) ==
  /\ UNCHANGED fixed
  /\ \A u \in Task : u # t =>
       /\ at'[u] = at[u] /\ requestId'[u] = requestId[u] /\ fault'[u] = fault[u]
       /\ flagged'[u] = flagged[u] /\ answer'[u] = answer[u] /\ written'[u] = written[u]

\* Where a step writes no record, what has been printed stays as it was.
LEMMA PrintedStays ==
  ASSUME RecordsNameTheirRequest, NoTextReachesASink, UNCHANGED <<incoming, printed>>
  PROVE  RecordsNameTheirRequest' /\ NoTextReachesASink'
<1>1. \A u : OwnId(u)' = OwnId(u) BY DEF OwnId
<1>. QED BY <1>1 DEF RecordsNameTheirRequest, NoTextReachesASink

LEMMA OneMoves ==
  ASSUME IInv, NEW t \in Task, Alone(t), TypeOK', TaskInv(t)',
         RecordsNameTheirRequest', NoTextReachesASink'
  PROVE  IInv'
<1>1. ASSUME NEW u \in Task, u # t PROVE TaskInv(u)'
  BY <1>1, OthersAreLeft DEF IInv, Alone
<1>. QED BY <1>1 DEF IInv

\* What the steps before the router's end do.
LEMMA InwardsIInv ==
  ASSUME IInv, NEW t \in Task, Accept(t) \/ PassThrough(t) \/ SetRequestId(t)
  PROVE  IInv'
<1>. USE DEF IInv
<1>0. TypeOK /\ TaskInv(t) OBVIOUS
<1>1. CASE Accept(t)
  <2>1. PICK inherited \in {None} \cup {requestId[u] : u \in {v \in Task : at[v] # "waiting"}} :
          requestId' = [requestId EXCEPT ![t] = inherited]
    BY <1>1 DEF Accept
  <2>2. inherited \in Name \cup Task \cup {None}
    <3>1. requestId \in [Task -> Name \cup Task \cup {None}] BY <1>0 DEF TypeOK
    <3>2. \A u \in Task : requestId[u] \in Name \cup Task \cup {None} BY <3>1
    <3>3. CASE inherited = None BY <3>3
    <3>4. CASE inherited # None
      <4>1. PICK u \in Task : inherited = requestId[u] BY <3>4
      <4>. QED BY <3>2, <4>1
    <3>. QED BY <3>3, <3>4
  <2>3. /\ at[t] = "waiting" /\ at' = [at EXCEPT ![t] = "outer"] /\ scope[t] = "http"
        /\ UNCHANGED <<fixed, token, fault, flagged, answer, written, printed>>
    BY <1>1 DEF Accept, GoTo
  <2>4. TypeOK' BY <1>0, <2>1, <2>2, <2>3 DEF TypeOK, Place, fixed
  <2>5. Alone(t) BY <1>0, <2>1, <2>3 DEF Alone, TypeOK
  <2>6. TaskInv(t)'
    BY <1>0, <2>3, CutAssumption
       DEF TaskInv, PhaseOf, AnswerOf, IdOf, Quiet, OwnId, TypeOK, fixed
  <2>. QED BY <2>3, <2>4, <2>5, <2>6, OneMoves, PrintedStays DEF fixed
<1>2. CASE PassThrough(t)
  <2>3. /\ at[t] = "waiting" /\ at' = [at EXCEPT ![t] = "done"] /\ scope[t] = "lifespan"
        /\ UNCHANGED <<fixed, requestId, token, fault, flagged, answer, written, printed>>
    BY <1>2 DEF PassThrough, GoTo
  <2>4. TypeOK' BY <1>0, <2>3 DEF TypeOK, Place, fixed
  <2>5. Alone(t) BY <1>0, <2>3 DEF Alone, TypeOK
  <2>6. TaskInv(t)'
    BY <1>0, <2>3 DEF TaskInv, PhaseOf, AnswerOf, IdOf, Quiet, OwnId, TypeOK, fixed
  <2>. QED BY <2>3, <2>4, <2>5, <2>6, OneMoves, PrintedStays DEF fixed
<1>3. CASE SetRequestId(t)
  <2>1. OwnId(t) \in Name \cup Task \cup {None} BY <1>0, OwnIdType
  <2>3. /\ at[t] = "outer" /\ at' = [at EXCEPT ![t] = "routing"]
        /\ token' = [token EXCEPT ![t] = requestId[t]]
        /\ requestId' = [requestId EXCEPT ![t] = OwnId(t)]
        /\ UNCHANGED <<fixed, fault, flagged, answer, written, printed>>
    BY <1>3 DEF SetRequestId, GoTo
  <2>4. TypeOK' BY <1>0, <2>1, <2>3 DEF TypeOK, Place, fixed
  <2>5. Alone(t) BY <1>0, <2>3 DEF Alone, TypeOK
  <2>6. TaskInv(t)'
    <3>1. OwnId(t)' = OwnId(t) BY <2>3 DEF OwnId, fixed
    <3>. QED
      BY <1>0, <2>3, <3>1 DEF TaskInv, PhaseOf, AnswerOf, IdOf, Quiet, TypeOK, fixed
  <2>. QED BY <2>3, <2>4, <2>5, <2>6, OneMoves, PrintedStays DEF fixed
<1>. QED BY <1>1, <1>2, <1>3

\* What the router does, and what a library writes meanwhile.
LEMMA RouterIInv ==
  ASSUME IInv, NEW t \in Task, Respond(t) \/ Begin(t) \/ Raise(t) \/ Cancel(t)
  PROVE  IInv'
<1>. USE DEF IInv
<1>0. TypeOK /\ TaskInv(t) OBVIOUS
<1>a. /\ Stamped(t, "answered") \in Start /\ Stamped(t, "answered") # None
      /\ Stamped(t, "answered").id = OwnId(t)
      /\ Stamped(t, "answered").noindex <=> environment = "preview"
  BY <1>0, StampedIs
<1>1. CASE Respond(t)
  <2>1. /\ at[t] = "routing" /\ at' = [at EXCEPT ![t] = "returned"] /\ answer[t] = None
        /\ answer' = [answer EXCEPT ![t] = Stamped(t, "answered")]
        /\ UNCHANGED <<fixed, requestId, token, fault, flagged, written, printed>>
    BY <1>1 DEF Respond, GoTo
  <2>2. TypeOK' BY <1>0, <1>a, <2>1 DEF TypeOK, Place, fixed
  <2>3. Alone(t) BY <1>0, <2>1 DEF Alone, TypeOK
  <2>4. TaskInv(t)'
    <3>1. OwnId(t)' = OwnId(t) BY <2>1 DEF OwnId, fixed
    <3>2. answer'[t] = Stamped(t, "answered") BY <1>0, <2>1 DEF TypeOK
    <3>. QED
      BY <1>0, <1>a, <2>1, <3>1, <3>2
         DEF TaskInv, PhaseOf, AnswerOf, IdOf, Quiet, TypeOK, fixed
  <2>. QED BY <2>1, <2>2, <2>3, <2>4, OneMoves, PrintedStays DEF fixed
<1>2. CASE Begin(t)
  <2>1. /\ at[t] = "routing" /\ answer[t] = None
        /\ answer' = [answer EXCEPT ![t] = Stamped(t, "answered")]
        /\ UNCHANGED <<fixed, at, requestId, token, fault, flagged, written, printed>>
    BY <1>2 DEF Begin
  <2>2. TypeOK' BY <1>0, <1>a, <2>1 DEF TypeOK, Place, fixed
  <2>3. Alone(t) BY <1>0, <2>1 DEF Alone, TypeOK
  <2>4. TaskInv(t)'
    <3>1. OwnId(t)' = OwnId(t) BY <2>1 DEF OwnId, fixed
    <3>2. answer'[t] = Stamped(t, "answered") BY <1>0, <2>1 DEF TypeOK
    <3>. QED
      BY <1>0, <1>a, <2>1, <3>1, <3>2
         DEF TaskInv, PhaseOf, AnswerOf, IdOf, Quiet, TypeOK, fixed
  <2>. QED BY <2>1, <2>2, <2>3, <2>4, OneMoves, PrintedStays DEF fixed
<1>3. CASE Raise(t)
  <2>1. /\ at[t] = "routing" /\ at' = [at EXCEPT ![t] = "raised"]
        /\ fault' = [fault EXCEPT ![t] = "exception"]
        /\ UNCHANGED <<fixed, requestId, token, flagged, answer, written, printed>>
    BY <1>3 DEF Raise, GoTo
  <2>2. TypeOK' BY <1>0, <2>1 DEF TypeOK, Place, fixed
  <2>3. Alone(t) BY <1>0, <2>1 DEF Alone, TypeOK
  <2>4. TaskInv(t)'
    <3>1. OwnId(t)' = OwnId(t) BY <2>1 DEF OwnId, fixed
    <3>. QED
      BY <1>0, <2>1, <3>1
         DEF TaskInv, PhaseOf, AnswerOf, IdOf, Quiet, Raised, TypeOK, fixed
  <2>. QED BY <2>1, <2>2, <2>3, <2>4, OneMoves, PrintedStays DEF fixed
<1>4. CASE Cancel(t)
  <2>1. /\ at[t] = "routing" /\ at' = [at EXCEPT ![t] = "leaving"]
        /\ fault' = [fault EXCEPT ![t] = "cancelled"]
        /\ UNCHANGED <<fixed, requestId, token, flagged, answer, written, printed>>
    BY <1>4 DEF Cancel, GoTo
  <2>2. TypeOK' BY <1>0, <2>1 DEF TypeOK, Place, fixed
  <2>3. Alone(t) BY <1>0, <2>1 DEF Alone, TypeOK
  <2>4. TaskInv(t)'
    <3>1. OwnId(t)' = OwnId(t) BY <2>1 DEF OwnId, fixed
    <3>. QED
      BY <1>0, <2>1, <3>1
         DEF TaskInv, PhaseOf, AnswerOf, IdOf, Quiet, Cancelled, TypeOK, fixed
  <2>. QED BY <2>1, <2>2, <2>3, <2>4, OneMoves, PrintedStays DEF fixed
<1>. QED BY <1>1, <1>2, <1>3, <1>4

\* The layers that write no record on the way out.
LEMMA OutwardsIInv ==
  ASSUME IInv, NEW t \in Task,
         ResetRequestId(t) \/ CatchAndFail(t) \/ LeaveRequestId(t)
  PROVE  IInv'
<1>. USE DEF IInv
<1>0. TypeOK /\ TaskInv(t) OBVIOUS
<1>1. CASE ResetRequestId(t)
  <2>1. /\ at[t] = "returned" /\ at' = [at EXCEPT ![t] = "done"]
        /\ requestId' = [requestId EXCEPT ![t] = token[t]]
        /\ UNCHANGED <<fixed, token, fault, flagged, answer, written, printed>>
    BY <1>1 DEF ResetRequestId, GoTo
  <2>2. TypeOK' BY <1>0, <2>1 DEF TypeOK, Place, fixed
  <2>3. Alone(t) BY <1>0, <2>1 DEF Alone, TypeOK
  <2>4. TaskInv(t)'
    <3>1. OwnId(t)' = OwnId(t) BY <2>1 DEF OwnId, fixed
    <3>. QED
      BY <1>0, <2>1, <3>1
         DEF TaskInv, PhaseOf, AnswerOf, IdOf, Quiet, Raised, Logged, LogFailed, Cancelled,
             TypeOK, fixed
  <2>. QED BY <2>1, <2>2, <2>3, <2>4, OneMoves, PrintedStays DEF fixed
<1>2. CASE CatchAndFail(t)
  <2>1. /\ at[t] = "raised" /\ at' = [at EXCEPT ![t] = "leaving"]
        /\ flagged' = [flagged EXCEPT ![t] = TRUE]
        /\ fault' = [fault EXCEPT ![t] = "log failed"]
        /\ UNCHANGED <<fixed, requestId, token, answer, written, printed>>
    BY <1>2 DEF CatchAndFail, GoTo
  <2>2. TypeOK' BY <1>0, <2>1 DEF TypeOK, Place, fixed
  <2>3. Alone(t) BY <1>0, <2>1 DEF Alone, TypeOK
  <2>4. TaskInv(t)'
    <3>1. OwnId(t)' = OwnId(t) BY <2>1 DEF OwnId, fixed
    <3>. QED
      BY <1>0, <2>1, <3>1
         DEF TaskInv, PhaseOf, AnswerOf, IdOf, Quiet, Raised, Logged, LogFailed, Cancelled,
             TypeOK, fixed
  <2>. QED BY <2>1, <2>2, <2>3, <2>4, OneMoves, PrintedStays DEF fixed
<1>3. CASE LeaveRequestId(t)
  <2>0. PICK to \in {"escaped", "unhandled"} :
          /\ at' = [at EXCEPT ![t] = to]
          /\ to = "escaped" <=> fault[t] = "cancelled"
    BY <1>3 DEF LeaveRequestId, GoTo
  <2>1. at[t] = "leaving" /\ UNCHANGED <<fixed, requestId, token, fault, flagged, answer,
                                         written, printed>>
    BY <1>3 DEF LeaveRequestId, GoTo
  <2>2. TypeOK' BY <1>0, <2>0, <2>1 DEF TypeOK, Place, fixed
  <2>3. Alone(t) BY <1>0, <2>0, <2>1 DEF Alone, TypeOK
  <2>4. TaskInv(t)'
    <3>1. OwnId(t)' = OwnId(t) BY <2>1 DEF OwnId, fixed
    <3>2. Logged(t) \/ LogFailed(t) \/ Cancelled(t) BY <1>0, <2>1 DEF TaskInv, PhaseOf
    <3>3. at'[t] = to BY <1>0, <2>0 DEF TypeOK
    <3>. QED
      BY <1>0, <2>0, <2>1, <3>1, <3>2, <3>3
         DEF TaskInv, PhaseOf, AnswerOf, IdOf, Logged, LogFailed, Cancelled, fixed
  <2>. QED BY <2>1, <2>2, <2>3, <2>4, OneMoves, PrintedStays DEF fixed
<1>. QED BY <1>1, <1>2, <1>3

\* The layers that answer where nobody has.
LEMMA AnsweringIInv ==
  ASSUME IInv, NEW t \in Task, SendSanitized(t) \/ SendRaw(t)
  PROVE  IInv'
<1>. USE DEF IInv
<1>0. TypeOK /\ TaskInv(t) OBVIOUS
<1>a. /\ Stamped(t, "500") \in Start /\ Stamped(t, "500") # None
      /\ Stamped(t, "500").id = OwnId(t)
      /\ Stamped(t, "500").noindex <=> environment = "preview"
  BY <1>0, StampedIs
<1>1. CASE SendSanitized(t)
  <2>0. /\ answer' \in [Task -> Start \cup {None}]
        /\ answer'[t] # None
        /\ answer[t] # None => answer' = answer
        /\ answer[t] = None => answer'[t] = Stamped(t, "500")
        /\ \A u \in Task : u # t => answer'[u] = answer[u]
    <3>1. answer' = IF answer[t] = None THEN [answer EXCEPT ![t] = Stamped(t, "500")] ELSE answer
      BY <1>1 DEF SendSanitized
    <3>. QED BY <1>0, <1>a, <3>1, FirstAnswer
  <2>1. /\ at[t] = "caught" /\ at' = [at EXCEPT ![t] = "leaving"]
        /\ UNCHANGED <<fixed, requestId, token, fault, flagged, written, printed>>
    BY <1>1 DEF SendSanitized, GoTo
  <2>2. TypeOK' BY <1>0, <2>0, <2>1 DEF TypeOK, Place, fixed
  <2>3. Alone(t) BY <1>0, <2>0, <2>1 DEF Alone, TypeOK
  <2>4. TaskInv(t)'
    <3>1. OwnId(t)' = OwnId(t) BY <2>1 DEF OwnId, fixed
    <3>2. at'[t] = "leaving" BY <1>0, <2>1 DEF TypeOK
    <3>3. Logged(t) /\ scope[t] = "http" /\ requestId[t] = OwnId(t) /\ written[t]["server"] = 0
      BY <1>0, <2>1 DEF TaskInv, PhaseOf, AnswerOf, IdOf, TypeOK
    <3>4. Logged(t)' /\ PhaseOf(t)' BY <2>1, <3>2, <3>3 DEF PhaseOf, Logged
    <3>5. answer'[t].id = OwnId(t) /\ (answer'[t].noindex <=> environment = "preview")
      <4>1. CASE answer[t] = None BY <1>a, <2>0, <4>1
      <4>2. CASE answer[t] # None
        BY <1>0, <2>0, <3>3, <4>2 DEF TaskInv, AnswerOf, Logged
      <4>. QED BY <4>1, <4>2
    <3>6. AnswerOf(t)' BY <2>0, <2>1, <3>1, <3>2, <3>3, <3>5 DEF AnswerOf, fixed
    <3>7. IdOf(t)' BY <2>1, <3>1, <3>2, <3>3 DEF IdOf
    <3>. QED BY <3>4, <3>6, <3>7 DEF TaskInv
  <2>. QED BY <2>1, <2>2, <2>3, <2>4, OneMoves, PrintedStays DEF fixed
<1>2. CASE SendRaw(t)
  <2>0. /\ answer' \in [Task -> Start \cup {None}]
        /\ answer'[t] # None
        /\ answer[t] # None => answer' = answer
        /\ answer[t] = None => answer'[t] = Raw("500")
        /\ \A u \in Task : u # t => answer'[u] = answer[u]
    <3>1. answer' = IF answer[t] = None THEN [answer EXCEPT ![t] = Raw("500")] ELSE answer
      BY <1>2 DEF SendRaw
    <3>. QED BY <1>0, RawIs, <3>1, FirstAnswer
  <2>1. /\ at[t] = "handled" /\ at' = [at EXCEPT ![t] = "escaped"]
        /\ UNCHANGED <<fixed, requestId, token, fault, flagged, written, printed>>
    BY <1>2 DEF SendRaw, GoTo
  <2>2. TypeOK' BY <1>0, <2>0, <2>1 DEF TypeOK, Place, fixed
  <2>3. Alone(t) BY <1>0, <2>0, <2>1 DEF Alone, TypeOK
  <2>4. TaskInv(t)'
    <3>1. OwnId(t)' = OwnId(t) BY <2>1 DEF OwnId, fixed
    <3>2. at'[t] = "escaped" BY <1>0, <2>1 DEF TypeOK
    <3>. QED
      BY <1>0, <2>0, <2>1, <3>1, <3>2
         DEF TaskInv, PhaseOf, AnswerOf, IdOf, Logged, LogFailed, TypeOK, fixed
  <2>. QED BY <2>1, <2>2, <2>3, <2>4, OneMoves, PrintedStays DEF fixed
<1>. QED BY <1>1, <1>2

\* The steps that write a record.
LEMMA LoggingIInv ==
  ASSUME IInv, NEW t \in Task,
         LibraryLogs(t) \/ CatchAndLog(t) \/ HandleGeneric(t) \/ ServerLogs(t)
  PROVE  IInv'
<1>. USE DEF IInv
<1>0. TypeOK /\ TaskInv(t) /\ RecordsNameTheirRequest /\ NoTextReachesASink OBVIOUS
<1>1. CASE LibraryLogs(t)
  <2>1. /\ at[t] = "routing" /\ written[t]["library"] = 0
        /\ UNCHANGED <<fixed, at, requestId, token, fault, flagged, answer>>
    BY <1>1 DEF LibraryLogs
  <2>2. PICK record \in Foreign : Emit(t, "library", record) BY <1>1 DEF LibraryLogs
  <2>3. requestId[t] = OwnId(t) BY <1>0, <2>1 DEF TaskInv, IdOf
  <2>4. incoming' = incoming BY <2>1 DEF fixed
  <2>5. /\ written' \in [Task -> [Emitter -> 0..1]]
        /\ \A other \in Emitter : other # "library" => written'[t][other] = written[t][other]
        /\ \A u \in Task : u # t => written'[u] = written[u]
        /\ printed' \subseteq Line
        /\ RecordsNameTheirRequest' /\ NoTextReachesASink'
    BY <1>0, <2>1, <2>2, <2>3, <2>4, EmitEffect DEF Emitter
  <2>6. TypeOK' BY <1>0, <2>1, <2>5 DEF TypeOK, fixed
  <2>7. Alone(t) BY <2>1, <2>5 DEF Alone
  <2>8. TaskInv(t)'
    <3>1. OwnId(t)' = OwnId(t) BY <2>4 DEF OwnId
    <3>2. written'[t]["app"] = written[t]["app"] /\ written'[t]["server"] = written[t]["server"]
      BY <2>5 DEF Emitter
    <3>. QED
      BY <1>0, <2>1, <3>1, <3>2 DEF TaskInv, PhaseOf, AnswerOf, IdOf, Quiet, fixed
  <2>. QED BY <2>5, <2>6, <2>7, <2>8, OneMoves
<1>2. CASE CatchAndLog(t)
  <2>1. /\ at[t] = "raised" /\ at' = [at EXCEPT ![t] = "caught"]
        /\ flagged' = [flagged EXCEPT ![t] = TRUE]
        /\ UNCHANGED <<fixed, requestId, token, fault, answer>>
    BY <1>2 DEF CatchAndLog, GoTo
  <2>2. Emit(t, "app", Unhandled) BY <1>2 DEF CatchAndLog
  <2>3. requestId[t] = OwnId(t) /\ Raised(t)
    BY <1>0, <2>1 DEF TaskInv, IdOf, PhaseOf
  <2>4. incoming' = incoming BY <2>1 DEF fixed
  <2>5. /\ written' \in [Task -> [Emitter -> 0..1]]
        /\ written'[t]["app"] = 1
        /\ \A other \in Emitter : other # "app" => written'[t][other] = written[t][other]
        /\ \A u \in Task : u # t => written'[u] = written[u]
        /\ printed' \subseteq Line
        /\ RecordsNameTheirRequest' /\ NoTextReachesASink'
    BY <1>0, <2>1, <2>2, <2>3, <2>4, EmitEffect DEF Emitter, Raised
  <2>6. TypeOK' BY <1>0, <2>1, <2>5 DEF TypeOK, Place, fixed
  <2>7. Alone(t) BY <1>0, <2>1, <2>5 DEF Alone, TypeOK
  <2>8. TaskInv(t)'
    <3>1. OwnId(t)' = OwnId(t) BY <2>4 DEF OwnId
    <3>2. written'[t]["server"] = written[t]["server"] BY <2>5 DEF Emitter
    <3>3. at'[t] = "caught" /\ flagged'[t] BY <1>0, <2>1 DEF TypeOK
    <3>. QED
      BY <1>0, <2>1, <2>3, <2>5, <3>1, <3>2, <3>3
         DEF TaskInv, PhaseOf, AnswerOf, IdOf, Raised, Logged, fixed
  <2>. QED BY <2>5, <2>6, <2>7, <2>8, OneMoves
<1>3. CASE HandleGeneric(t)
  <2>1. at[t] = "unhandled" BY <1>3 DEF HandleGeneric, GoTo
  <2>2. flagged[t] BY <1>0, <2>1 DEF TaskInv, PhaseOf, Logged, LogFailed
  <2>3. /\ at' = [at EXCEPT ![t] = "handled"]
        /\ UNCHANGED <<fixed, requestId, token, fault, flagged, answer, written, printed>>
    BY <1>3, <2>2 DEF HandleGeneric, GoTo
  <2>4. TypeOK' BY <1>0, <2>3 DEF TypeOK, Place, fixed
  <2>5. Alone(t) BY <1>0, <2>3 DEF Alone, TypeOK
  <2>6. TaskInv(t)'
    <3>1. OwnId(t)' = OwnId(t) BY <2>3 DEF OwnId, fixed
    <3>. QED
      BY <1>0, <2>1, <2>3, <3>1
         DEF TaskInv, PhaseOf, AnswerOf, IdOf, Logged, LogFailed, TypeOK, fixed
  <2>. QED BY <2>3, <2>4, <2>5, <2>6, OneMoves, PrintedStays DEF fixed
<1>4. CASE ServerLogs(t)
  <2>0. /\ answer' \in [Task -> Start \cup {None}]
        /\ answer'[t] # None
        /\ answer[t] # None => answer' = answer
        /\ answer[t] = None => answer'[t] = Raw("500")
        /\ \A u \in Task : u # t => answer'[u] = answer[u]
    <3>1. answer' = IF answer[t] = None THEN [answer EXCEPT ![t] = Raw("500")] ELSE answer
      BY <1>4 DEF ServerLogs
    <3>. QED BY <1>0, RawIs, <3>1, FirstAnswer
  <2>1. /\ at[t] = "escaped" /\ at' = [at EXCEPT ![t] = "done"]
        /\ UNCHANGED <<fixed, requestId, token, fault, flagged>>
    BY <1>4 DEF ServerLogs, GoTo
  <2>2. Emit(t, "server", Unhandled) BY <1>4 DEF ServerLogs
  <2>3. requestId[t] = OwnId(t) /\ written[t]["server"] = 0
    BY <1>0, <2>1 DEF TaskInv, IdOf
  <2>4. incoming' = incoming BY <2>1 DEF fixed
  <2>5. /\ written' \in [Task -> [Emitter -> 0..1]]
        /\ \A other \in Emitter : other # "server" => written'[t][other] = written[t][other]
        /\ \A u \in Task : u # t => written'[u] = written[u]
        /\ printed' \subseteq Line
        /\ RecordsNameTheirRequest' /\ NoTextReachesASink'
    BY <1>0, <2>1, <2>2, <2>3, <2>4, EmitEffect DEF Emitter
  <2>6. TypeOK' BY <1>0, <2>0, <2>1, <2>5 DEF TypeOK, Place, fixed
  <2>7. Alone(t) BY <1>0, <2>0, <2>1, <2>5 DEF Alone, TypeOK
  <2>8. TaskInv(t)'
    <3>1. OwnId(t)' = OwnId(t) BY <2>4 DEF OwnId
    <3>2. written'[t]["app"] = written[t]["app"] BY <2>5 DEF Emitter
    <3>3. at'[t] = "done" BY <1>0, <2>1 DEF TypeOK
    <3>4. Logged(t) \/ LogFailed(t) \/ Cancelled(t) BY <1>0, <2>1 DEF TaskInv, PhaseOf
    <3>. QED
      BY <1>0, <2>0, <2>1, <3>1, <3>2, <3>3, <3>4
         DEF TaskInv, PhaseOf, AnswerOf, IdOf, Quiet, Logged, LogFailed, Cancelled, fixed
  <2>. QED BY <2>5, <2>6, <2>7, <2>8, OneMoves
<1>. QED BY <1>1, <1>2, <1>3, <1>4

LEMMA StepIInv == IInv /\ [Next]_vars => IInv'
<1>. SUFFICES ASSUME IInv, [Next]_vars PROVE IInv'
  OBVIOUS
<1>1. CASE Next
  <2>1. PICK t \in Task :
          \/ Accept(t) \/ PassThrough(t) \/ SetRequestId(t) \/ LibraryLogs(t)
          \/ Respond(t) \/ Begin(t) \/ Raise(t) \/ Cancel(t) \/ ResetRequestId(t)
          \/ CatchAndLog(t) \/ CatchAndFail(t) \/ SendSanitized(t)
          \/ LeaveRequestId(t) \/ HandleGeneric(t) \/ SendRaw(t) \/ ServerLogs(t)
    BY <1>1 DEF Next
  <2>. QED BY <2>1, InwardsIInv, RouterIInv, OutwardsIInv, AnsweringIInv, LoggingIInv
<1>2. CASE UNCHANGED vars
  <2>1. TypeOK' BY <1>2 DEF IInv, TypeOK, vars
  <2>2. ASSUME NEW t \in Task PROVE TaskInv(t)'
    BY <1>2, <2>2, OthersAreLeft DEF IInv, vars, fixed
  <2>3. RecordsNameTheirRequest' /\ NoTextReachesASink'
    BY <1>2, PrintedStays DEF IInv, vars
  <2>. QED BY <2>1, <2>2, <2>3 DEF IInv
<1>. QED BY <1>1, <1>2

LEMMA Invariance == Spec => []IInv
BY InitIInv, StepIInv, PTL DEF Spec

-----------------------------------------------------------------------------
(* What holds of every behaviour.                                          *)

\* The state keeps its shape, however many requests are served at once.
THEOREM TypeCorrect == Spec => []TypeOK
<1>1. IInv => TypeOK BY DEF IInv
<1>. QED BY Invariance, <1>1, PTL

\* Every line is printed under the identifier of the request it is about, whatever context
\* the request's task was started in (request_id.py).
THEOREM LinesNameTheirRequest == Spec => []RecordsNameTheirRequest
<1>1. IInv => RecordsNameTheirRequest BY DEF IInv
<1>. QED BY Invariance, <1>1, PTL

\* No sink prints the text of an exception, wherever in a record it was (logging_config.py).
THEOREM NoTextIsPrinted == Spec => []NoTextReachesASink
<1>1. IInv => NoTextReachesASink BY DEF IInv
<1>. QED BY Invariance, <1>1, PTL

\* Two layers have a record to write of a failing call; one of them writes it (errors.py).
THEOREM AFailureIsWrittenOnce == Spec => []OneRecordPerFailure
<1>1. IInv => OneRecordPerFailure
  <2>. SUFFICES ASSUME IInv, NEW t \in Task
                PROVE  /\ written[t]["app"] <= 1
                       /\ at[t] = "done" =>
                            (written[t]["app"] = 1 <=> fault[t] = "exception")
    BY DEF OneRecordPerFailure
  <2>1. written[t]["app"] \in 0..1
    <3>1. written \in [Task -> [Emitter -> 0..1]] BY DEF IInv, TypeOK
    <3>. QED BY <3>1 DEF Emitter
  <2>2. at[t] = "done" => Quiet(t) \/ Logged(t) \/ LogFailed(t) \/ Cancelled(t)
    BY DEF IInv, TaskInv, PhaseOf
  <2>3. at[t] = "done" => \/ fault[t] = "exception" /\ written[t]["app"] = 1
                          \/ fault[t] # "exception" /\ written[t]["app"] = 0
    BY <2>2 DEF Quiet, Logged, LogFailed, Cancelled
  <2>. QED BY <2>1, <2>3
<1>. QED BY Invariance, <1>1, PTL

\* An answer carries the request's identifier and the mark of a preview, whichever layer
\* gave it, save where the call was cancelled or its failure could not be logged (main.py).
THEOREM AnswersAreStamped == Spec => []EveryAnswerIsStamped
<1>1. IInv => EveryAnswerIsStamped
  BY DEF IInv, TaskInv, AnswerOf, EveryAnswerIsStamped
<1>. QED BY Invariance, <1>1, PTL

\* A request that is over has been answered by one of the layers (main.py, errors.py).
THEOREM EveryRequestIsAnswered == Spec => []NobodyIsLeftWithoutAnAnswer
<1>1. IInv => NobodyIsLeftWithoutAnAnswer
  BY DEF IInv, TaskInv, AnswerOf, NobodyIsLeftWithoutAnAnswer
<1>. QED BY Invariance, <1>1, PTL

\* Of the layers that answer a failing call, none sends a second start (main.py, errors.py).
THEOREM AnswersGoOutOnce == Spec => OneStart
<1>. DEFINE Kept == \A t \in Task : answer[t] # None => answer'[t] = answer[t]
<1>1. IInv /\ [Next]_vars => [Kept]_vars
  <2>. SUFFICES ASSUME IInv, Next, NEW u \in Task, answer[u] # None
                PROVE  answer'[u] = answer[u]
    BY DEF vars
  <2>0. answer \in [Task -> Start \cup {None}] BY DEF IInv, TypeOK
  <2>1. PICK t \in Task :
          \/ Accept(t) \/ PassThrough(t) \/ SetRequestId(t) \/ LibraryLogs(t)
          \/ Respond(t) \/ Begin(t) \/ Raise(t) \/ Cancel(t) \/ ResetRequestId(t)
          \/ CatchAndLog(t) \/ CatchAndFail(t) \/ SendSanitized(t)
          \/ LeaveRequestId(t) \/ HandleGeneric(t) \/ SendRaw(t) \/ ServerLogs(t)
    BY DEF Next
  <2>2. CASE Respond(t) \/ Begin(t)
    <3>1. answer[t] = None /\ answer' = [answer EXCEPT ![t] = Stamped(t, "answered")]
      BY <2>2 DEF Respond, Begin
    <3>. QED BY <2>0, <3>1
  <2>3. CASE SendSanitized(t) \/ SendRaw(t) \/ ServerLogs(t)
    <3>1. \E start : answer' = IF answer[t] = None THEN [answer EXCEPT ![t] = start]
                                                   ELSE answer
      <4>1. CASE SendSanitized(t)
        <5>1. answer' = IF answer[t] = None
                          THEN [answer EXCEPT ![t] = Stamped(t, "500")] ELSE answer
          BY <4>1 DEF SendSanitized
        <5>. QED BY <5>1
      <4>2. CASE SendRaw(t) \/ ServerLogs(t)
        <5>1. answer' = IF answer[t] = None THEN [answer EXCEPT ![t] = Raw("500")] ELSE answer
          BY <4>2 DEF SendRaw, ServerLogs
        <5>. QED BY <5>1
      <4>. QED BY <2>3, <4>1, <4>2
    <3>. QED BY <2>0, <3>1
  <2>4. CASE \/ Accept(t) \/ PassThrough(t) \/ SetRequestId(t) \/ LibraryLogs(t)
             \/ Raise(t) \/ Cancel(t) \/ ResetRequestId(t) \/ CatchAndLog(t)
             \/ CatchAndFail(t) \/ LeaveRequestId(t) \/ HandleGeneric(t)
    BY <2>4 DEF Accept, PassThrough, SetRequestId, LibraryLogs, Raise, Cancel,
                ResetRequestId, CatchAndLog, CatchAndFail, LeaveRequestId, HandleGeneric
  <2>. QED BY <2>1, <2>2, <2>3, <2>4
<1>. QED BY Invariance, <1>1, PTL DEF Spec, OneStart
==============================================================================
