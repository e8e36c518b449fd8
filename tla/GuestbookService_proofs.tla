----------------------- MODULE GuestbookService_proofs -----------------------
(***************************************************************************)
(* Proofs about GuestbookService, for any number of workers, identifiers   *)
(* and texts and any set of requests.                                      *)
(***************************************************************************)
EXTENDS GuestbookService, TLAPS

CreateRequest == [op : {"create"}, id : {None}, author : Text, message : Text]
PatchRequest  == [op : {"patch"}, id : Id, author : Field, message : Field]

\* Where a handler holds the row it loaded.
Holding == {"stamp", "update", "remove"}

\* The locals a handler has by the time it is somewhere.
LocalsOK ==
  \A w \in Worker :
    /\ pc[w] \in {"create", "insert"} => req[w] \in CreateRequest
    /\ pc[w] \in {"patch", "stamp", "update"} => req[w] \in PatchRequest
    /\ pc[w] \in Handling \ {"create", "insert"} => entry[w] \in Id
    /\ pc[w] \in Holding => loaded[w] \in Row
    /\ pc[w] = "answered" => reply[w] \in Reply

TypeInv == TypeOK /\ LocalsOK

LEMMA StoreType ==
  ASSUME TypeInv, NEW id \in Id, NEW row \in Row \cup {None},
         entry' \in [Worker -> Id \cup {None}], Store(id, row)
  PROVE  /\ rows' \in [Id -> Row \cup {None}]
         /\ seen' \in [Worker -> SUBSET (Row \cup {None})]
BY DEF TypeInv, TypeOK, BookTypeOK, Store

LEMMA AnswerType ==
  ASSUME TypeInv, NEW w \in Worker, NEW status, NEW body,
         [status |-> status, body |-> body] \in Reply,
         Answer(w, status, body), clock' = clock
  PROVE  /\ pc' \in [Worker -> {"idle", "answered"} \cup Handling]
         /\ req' \in [Worker -> Request \cup {None}]
         /\ entry' \in [Worker -> Id \cup {None}]
         /\ loaded' \in [Worker -> Row \cup {None}]
         /\ stamp' \in [Worker -> 0..clock]
         /\ reply' \in [Worker -> Reply \cup {None}]
         /\ LocalsOK'
<1> USE DEF TypeInv, TypeOK, BookTypeOK
<1> DEFINE r == [status |-> status, body |-> body]
<1> HIDE DEF r
<1>1. /\ pc' = [pc EXCEPT ![w] = "answered"]
      /\ reply' = [reply EXCEPT ![w] = r]
      /\ loaded' = [loaded EXCEPT ![w] = None]
      /\ stamp' = [stamp EXCEPT ![w] = 0]
      /\ req' = req /\ entry' = entry
  BY DEF Answer, Goto, r
<1>2. r \in Reply
  BY DEF r
<1>3. 0 \in 0..clock
  BY ClockAssumption
<1>4. LocalsOK'
  BY <1>1, <1>2 DEF LocalsOK, Handling, Holding
<1> QED
  BY <1>1, <1>2, <1>3, <1>4

LEMMA FlushedType ==
  ASSUME TypeInv, NEW w \in Worker, pc[w] = "update", NEW row \in Row
  PROVE  Flushed(w, row) \in Row
<1>1. req[w] \in PatchRequest /\ loaded[w] \in Row /\ stamp[w] \in Nat
  BY ClockAssumption DEF TypeInv, TypeOK, BookTypeOK, LocalsOK, Holding
<1>2. /\ SetsAuthor(w) => req[w].author \in Text
      /\ SetsMessage(w) => req[w].message \in Text
  BY <1>1 DEF PatchRequest, Field, SetsAuthor, SetsMessage
<1> QED
  BY <1>1, <1>2 DEF Flushed, Row

LEMMA TypeInit == Init => TypeInv
<1> SUFFICES ASSUME Init PROVE TypeInv
  OBVIOUS
<1>1. 0 \in 0..clock /\ clock \in 0..MaxClock
  BY ClockAssumption DEF Init, BookInit
<1> QED
  BY <1>1 DEF Init, BookInit, TypeInv, TypeOK, BookTypeOK, LocalsOK, Handling, Holding

LEMMA TypeStep == TypeInv /\ [Next]_vars => TypeInv'
<1> SUFFICES ASSUME TypeInv, [Next]_vars PROVE TypeInv'
  OBVIOUS
<1> USE DEF TypeInv
<1>a. clock \in Nat /\ 0 \in 0..clock
  BY ClockAssumption DEF TypeOK, BookTypeOK
<1>1. ASSUME NEW w \in Worker, NEW r \in Requests, Call(w, r) PROVE TypeInv'
  <2>1. r \in Request /\ r.op \in Handling /\ r.id \in Id \cup {None}
    BY <1>1, RequestsAssumption DEF Request, Handling
  <2>2. /\ r.op = "create" => r \in CreateRequest
        /\ r.op = "patch" => r \in PatchRequest
        /\ r.op # "create" => r.id \in Id
    BY <1>1, RequestsAssumption DEF Request, CreateRequest, PatchRequest
  <2>3. r.op \in {"create", "patch", "get", "delete"}
    BY <1>1, RequestsAssumption DEF Request
  <2>4. TypeOK'
    BY <1>1, <2>1 DEF TypeOK, BookTypeOK, Call, Goto, bookVars
  <2>5. LocalsOK'
    BY <1>1, <2>1, <2>2, <2>3 DEF TypeOK, LocalsOK, Call, Goto, Holding
  <2> QED
    BY <2>4, <2>5
<1>2. ASSUME NEW w \in Worker, Get(w) PROVE TypeInv'
  <2>1. CASE Found(w) /\ Answer(w, 200, rows[entry[w]])
    <3>1. rows[entry[w]] \in Row
      BY <1>2, <2>1 DEF Get, Found, Present, TypeOK, BookTypeOK, LocalsOK, Handling
    <3>2. [status |-> 200, body |-> rows[entry[w]]] \in Reply
      BY <3>1 DEF Reply
    <3> QED
      BY <1>2, <2>1, <3>2, AnswerType DEF Get, bookVars, TypeOK, BookTypeOK
  <2>2. CASE ~Found(w) /\ Answer(w, 404, None)
    <3>1. [status |-> 404, body |-> None] \in Reply
      BY DEF Reply
    <3> QED
      BY <1>2, <2>2, <3>1, AnswerType DEF Get, bookVars, TypeOK, BookTypeOK
  <2> QED
    BY <1>2, <2>1, <2>2 DEF Get
<1>3. ASSUME NEW w \in Worker, Now(w) PROVE TypeInv'
  <2>1. TypeOK'
    BY <1>3, <1>a DEF TypeOK, BookTypeOK, Now, Goto, AfterNow, Handling, bookVars
  <2>2. LocalsOK'
    BY <1>3 DEF TypeOK, LocalsOK, Now, Goto, AfterNow, Handling, Holding
  <2> QED
    BY <2>1, <2>2
<1>4. ASSUME NEW w \in Worker, Insert(w) PROVE TypeInv'
  <2>1. req[w] \in CreateRequest /\ stamp[w] \in Nat
    BY <1>4, <1>a DEF Insert, TypeOK, LocalsOK
  <2> DEFINE row == [author |-> req[w].author, message |-> req[w].message,
                     created |-> stamp[w], updated |-> stamp[w]]
  <2>2. row \in Row
    BY <2>1 DEF CreateRequest, Row
  <2> HIDE DEF row
  <2>3. PICK id \in Id \ spent : /\ entry' = [entry EXCEPT ![w] = id]
                                 /\ spent' = spent \cup {id}
                                 /\ Store(id, row)
    BY <1>4 DEF Insert, row
  <2>4. entry' \in [Worker -> Id \cup {None}]
    BY <2>3 DEF TypeOK
  <2>5. /\ rows' \in [Id -> Row \cup {None}]
        /\ seen' \in [Worker -> SUBSET (Row \cup {None})]
    BY <2>2, <2>3, <2>4, StoreType
  <2>6. TypeOK'
    BY <1>4, <2>3, <2>4, <2>5 DEF TypeOK, BookTypeOK, Insert, Goto, Handling
  <2>7. LocalsOK'
    BY <1>4, <2>3 DEF TypeOK, LocalsOK, Insert, Goto, Handling, Holding
  <2> QED
    BY <2>6, <2>7
<1>5. ASSUME NEW w \in Worker, Refresh(w) PROVE TypeInv'
  <2>1. CASE Found(w) /\ Answer(w, Success(w), rows[entry[w]])
    <3>1. rows[entry[w]] \in Row
      BY <1>5, <2>1 DEF Refresh, Found, Present, TypeOK, BookTypeOK, LocalsOK, Handling
    <3>2. [status |-> Success(w), body |-> rows[entry[w]]] \in Reply
      BY <3>1 DEF Reply, Success
    <3> QED
      BY <1>5, <2>1, <3>2, AnswerType DEF Refresh, bookVars, TypeOK, BookTypeOK
  <2>2. CASE ~Found(w) /\ Answer(w, 500, None)
    <3>1. [status |-> 500, body |-> None] \in Reply
      BY DEF Reply
    <3> QED
      BY <1>5, <2>2, <3>1, AnswerType DEF Refresh, bookVars, TypeOK, BookTypeOK
  <2> QED
    BY <1>5, <2>1, <2>2 DEF Refresh
<1>6. ASSUME NEW w \in Worker, RefuseEmptyPatch(w) PROVE TypeInv'
  <2>1. [status |-> 422, body |-> None] \in Reply
    BY DEF Reply
  <2> QED
    BY <1>6, <2>1, AnswerType DEF RefuseEmptyPatch, bookVars, TypeOK, BookTypeOK
<1>7. ASSUME NEW w \in Worker, Load(w) PROVE TypeInv'
  <2>1. CASE ~Found(w) /\ Answer(w, 404, None)
    <3>1. [status |-> 404, body |-> None] \in Reply
      BY DEF Reply
    <3> QED
      BY <1>7, <2>1, <3>1, AnswerType DEF Load, bookVars, TypeOK, BookTypeOK
  <2>2. CASE /\ Found(w)
             /\ loaded' = [loaded EXCEPT ![w] = rows[entry[w]]]
             /\ Goto(w, AfterLoad(w))
             /\ UNCHANGED <<req, entry, stamp, reply>>
    <3>1. rows[entry[w]] \in Row
      BY <1>7, <2>2 DEF Load, Found, Present, TypeOK, BookTypeOK, LocalsOK, Handling
    <3>2. TypeOK'
      BY <1>7, <2>2, <3>1 DEF Load, TypeOK, BookTypeOK, Goto, AfterLoad, Handling, bookVars
    <3>3. LocalsOK'
      BY <1>7, <2>2, <3>1 DEF Load, TypeOK, LocalsOK, Goto, AfterLoad, Handling, Holding
    <3> QED
      BY <3>2, <3>3
  <2> QED
    BY <1>7, <2>1, <2>2 DEF Load
<1>8. ASSUME NEW w \in Worker, SkipUpdate(w) PROVE TypeInv'
  BY <1>8 DEF SkipUpdate, TypeOK, BookTypeOK, LocalsOK, Goto, Handling, Holding, bookVars
<1>9. ASSUME NEW w \in Worker, Update(w) PROVE TypeInv'
  <2>1. entry[w] \in Id /\ rows[entry[w]] \in Row
    BY <1>9 DEF Update, Found, Present, TypeOK, BookTypeOK, LocalsOK, Handling
  <2>2. Flushed(w, rows[entry[w]]) \in Row
    BY <1>9, <2>1, FlushedType DEF Update
  <2>3. /\ rows' \in [Id -> Row \cup {None}]
        /\ seen' \in [Worker -> SUBSET (Row \cup {None})]
    BY <1>9, <2>1, <2>2, StoreType DEF Update, TypeOK
  <2> QED
    BY <1>9, <2>3 DEF Update, TypeOK, BookTypeOK, LocalsOK, Goto, Handling, Holding
<1>10. ASSUME NEW w \in Worker, UpdateNothing(w) PROVE TypeInv'
  <2>1. [status |-> 500, body |-> None] \in Reply
    BY DEF Reply
  <2> QED
    BY <1>10, <2>1, AnswerType DEF UpdateNothing, bookVars, TypeOK, BookTypeOK
<1>11. ASSUME NEW w \in Worker, Delete(w) PROVE TypeInv'
  <2>1. PICK status \in {204, 500} : Answer(w, status, None)
    BY <1>11 DEF Delete
  <2>2. [status |-> status, body |-> None] \in Reply
    BY DEF Reply
  <2>3. entry[w] \in Id /\ entry' = entry
    BY <1>11, <2>1 DEF Delete, LocalsOK, Handling, Answer
  <2>4. /\ rows' \in [Id -> Row \cup {None}]
        /\ seen' \in [Worker -> SUBSET (Row \cup {None})]
    BY <1>11, <2>3, StoreType DEF Delete, TypeOK
  <2> QED
    BY <1>11, <2>1, <2>2, <2>4, AnswerType DEF Delete, TypeOK, BookTypeOK
<1>12. ASSUME NEW w \in Worker, Fail(w) PROVE TypeInv'
  <2>1. [status |-> 500, body |-> None] \in Reply
    BY DEF Reply
  <2> QED
    BY <1>12, <2>1, AnswerType DEF Fail, bookVars, TypeOK, BookTypeOK
<1>13. ASSUME Advance PROVE TypeInv'
  <2>1. clock' = clock + 1 /\ clock' \in 0..MaxClock /\ 0..clock \subseteq 0..clock'
    BY <1>13, <1>a, ClockAssumption DEF Advance, Tick
  <2> QED
    BY <1>13, <2>1 DEF Advance, Tick, local, TypeOK, BookTypeOK, LocalsOK
<1>14. CASE UNCHANGED vars
  BY <1>14 DEF vars, TypeOK, BookTypeOK, LocalsOK
<1> QED
  BY <1>1, <1>2, <1>3, <1>4, <1>5, <1>6, <1>7, <1>8, <1>9, <1>10, <1>11, <1>12, <1>13, <1>14
     DEF Next, Handle

LEMMA TypeInvariant == Spec => []TypeInv
<1>1. Init => TypeInv
  BY TypeInit
<1>2. TypeInv /\ [Next]_vars => TypeInv'
  BY TypeStep
<1> QED
  BY <1>1, <1>2, PTL DEF Spec

\* Every variable has its type at all times, and with it: a 200 or 201 carries a row and
\* a refusal none, though the row is read after it was committed.
THEOREM TypeCorrect == Spec => []TypeOK
<1>1. TypeInv => TypeOK
  BY DEF TypeInv
<1> QED
  BY <1>1, TypeInvariant, PTL

----------------------------------------------------------------------------
(* When things were written.  RowsAreSound is not inductive: an UPDATE stamps a row    *)
(* with a moment taken earlier, so what ties that moment to the row has to be carried  *)
(* from the load to the flush.                                                         *)

\* The row an amendment loaded is no younger than the clock, nor than its own stamp; and
\* the row in the table, whoever has amended it since, still has the moment of writing
\* that was loaded.
StampOK(w) ==
  pc[w] \in Holding =>
    /\ entry[w] \in spent
    /\ loaded[w].created <= clock
    /\ pc[w] = "update" => loaded[w].created <= stamp[w]
    /\ Present(entry[w]) => rows[entry[w]].created = loaded[w].created

StampsOK == \A w \in Worker : StampOK(w)

ChronologyInv == RowsAreSound /\ StampsOK

\* What the steps that write the table do to it.
LEMMA InsertEffect ==
  ASSUME TypeInv, NEW w \in Worker, Insert(w)
  PROVE  \E id \in Id \ spent :
           /\ entry' = [entry EXCEPT ![w] = id]
           /\ spent' = spent \cup {id}
           /\ clock' = clock
           /\ stamp[w] \in 0..clock
           /\ req[w].author \in Text /\ req[w].message \in Text
           /\ rows' = [rows EXCEPT ![id] =
                         [author |-> req[w].author, message |-> req[w].message,
                          created |-> stamp[w], updated |-> stamp[w]]]
BY DEF TypeInv, TypeOK, LocalsOK, CreateRequest, Insert, Store

LEMMA UpdateEffect ==
  ASSUME TypeInv, NEW w \in Worker, Update(w)
  PROVE  /\ entry[w] \in Id
         /\ rows[entry[w]] \in Row
         /\ rows' = [rows EXCEPT ![entry[w]] = Flushed(w, rows[entry[w]])]
         /\ Flushed(w, rows[entry[w]]) \in Row
         /\ Flushed(w, rows[entry[w]]).created = rows[entry[w]].created
         /\ Flushed(w, rows[entry[w]]).updated \in {stamp[w], rows[entry[w]].updated}
         /\ UNCHANGED <<spent, clock, entry, loaded, stamp>>
<1>1. entry[w] \in Id /\ rows[entry[w]] \in Row /\ pc[w] = "update"
  BY DEF Update, Found, Present, TypeInv, TypeOK, BookTypeOK, LocalsOK, Handling
<1>2. Flushed(w, rows[entry[w]]) \in Row
  BY <1>1, FlushedType
<1>3. /\ Flushed(w, rows[entry[w]]).created = rows[entry[w]].created
      /\ Flushed(w, rows[entry[w]]).updated \in {stamp[w], rows[entry[w]].updated}
  BY <1>1 DEF Flushed, Row
<1> QED
  BY <1>1, <1>2, <1>3 DEF Update, Store

LEMMA DeleteEffect ==
  ASSUME TypeInv, NEW w \in Worker, Delete(w)
  PROVE  /\ entry[w] \in Id
         /\ rows' = [rows EXCEPT ![entry[w]] = None]
         /\ UNCHANGED <<spent, clock, entry>>
         /\ pc[w] = "remove" /\ pc' = [pc EXCEPT ![w] = "answered"]
         /\ loaded' = [loaded EXCEPT ![w] = None]
         /\ stamp' = [stamp EXCEPT ![w] = 0]
BY DEF TypeInv, TypeOK, LocalsOK, Handling, Delete, Answer, Goto, Store

\* The steps that leave the book alone.
Quiet(w) ==
  \/ \E r \in Requests : Call(w, r)
  \/ Get(w) \/ Now(w) \/ Refresh(w) \/ RefuseEmptyPatch(w) \/ Load(w)
  \/ SkipUpdate(w) \/ UpdateNothing(w) \/ Fail(w)

LEMMA QuietLeavesBook ==
  ASSUME NEW w \in Worker, Quiet(w)
  PROVE  UNCHANGED bookVars
BY DEF Quiet, Call, Get, Now, Refresh, RefuseEmptyPatch, Load, SkipUpdate, UpdateNothing,
       Fail, bookVars

LEMMA StepCases ==
  ASSUME [Next]_vars
  PROVE  \/ \E w \in Worker : Quiet(w) \/ Insert(w) \/ Update(w) \/ Delete(w)
         \/ Advance
         \/ UNCHANGED vars
BY DEF Next, Handle, Quiet

\* What a quiet step does to the locals of the workers.
LEMMA QuietLocals ==
  ASSUME TypeInv, NEW w \in Worker, Quiet(w), NEW v \in Worker, pc'[v] \in Holding
  PROVE  /\ entry'[v] = entry[v]
         /\ \/ /\ pc[v] = pc'[v] /\ UNCHANGED <<loaded[v], stamp[v]>>
            \/ /\ pc[v] \in {"patch", "delete"} /\ pc'[v] # "update"
               /\ loaded'[v] = rows[entry[v]] /\ loaded'[v] \in Row
            \/ /\ pc[v] = "stamp" /\ pc'[v] = "update"
               /\ loaded'[v] = loaded[v] /\ stamp'[v] = clock
<1> USE DEF TypeInv, TypeOK, Holding
<1>1. CASE \E r \in Requests : Call(w, r)
  <2>1. PICK r \in Requests : Call(w, r)
    BY <1>1
  <2>2. r.op \notin Holding
    BY RequestsAssumption DEF Request
  <2> QED
    BY <2>1, <2>2 DEF Call, Goto
<1>2. CASE Get(w) \/ Refresh(w) \/ RefuseEmptyPatch(w) \/ UpdateNothing(w) \/ Fail(w)
  BY <1>2 DEF Get, Refresh, RefuseEmptyPatch, UpdateNothing, Fail, Answer, Goto
<1>3. CASE Now(w)
  BY <1>3 DEF Now, Goto, AfterNow
<1>4. CASE Load(w)
  <2>1. CASE ~Found(w) /\ Answer(w, 404, None)
    BY <2>1 DEF Answer, Goto
  <2>2. CASE /\ Found(w)
             /\ loaded' = [loaded EXCEPT ![w] = rows[entry[w]]]
             /\ Goto(w, AfterLoad(w))
             /\ UNCHANGED <<req, entry, stamp, reply>>
    <3>1. rows[entry[w]] \in Row
      BY <1>4, <2>2 DEF Load, Found, Present, BookTypeOK, LocalsOK, Handling
    <3> QED
      BY <1>4, <2>2, <3>1 DEF Load, Goto, AfterLoad
  <2> QED
    BY <1>4, <2>1, <2>2 DEF Load
<1>5. CASE SkipUpdate(w)
  BY <1>5 DEF SkipUpdate, Goto
<1> QED
  BY <1>1, <1>2, <1>3, <1>4, <1>5 DEF Quiet

LEMMA ChronologyInit == Init => ChronologyInv
BY DEF Init, BookInit, ChronologyInv, RowsAreSound, StampsOK, StampOK, Present, Holding

LEMMA ChronologyStep == TypeInv /\ TypeInv' /\ ChronologyInv /\ [Next]_vars => ChronologyInv'
<1> SUFFICES ASSUME TypeInv, TypeInv', ChronologyInv, [Next]_vars
             PROVE  ChronologyInv'
  OBVIOUS
<1> USE DEF ChronologyInv
<1>a. clock \in Nat /\ stamp \in [Worker -> 0..clock] /\ pc \in [Worker -> {"idle", "answered"} \cup Handling]
  BY ClockAssumption DEF TypeInv, TypeOK, BookTypeOK
<1>b. rows \in [Id -> Row \cup {None}] /\ rows' \in [Id -> Row \cup {None}]
  BY DEF TypeInv, TypeOK, BookTypeOK
<1>c. \A w \in Worker : pc[w] \in Holding => loaded[w] \in Row /\ entry[w] \in Id
  BY DEF TypeInv, LocalsOK, Holding, Handling
<1>d. \A id \in Id : Present(id) => rows[id] \in Row
  BY <1>b DEF Present
<1>1. ASSUME NEW w \in Worker, Quiet(w) PROVE ChronologyInv'
  <2>1. UNCHANGED <<rows, spent, clock>>
    BY <1>1, QuietLeavesBook DEF bookVars
  <2>2. RowsAreSound'
    BY <2>1 DEF RowsAreSound, Present
  <2>3. ASSUME NEW v \in Worker, pc'[v] \in Holding
        PROVE  StampOK(v)'
    <3>1. CASE pc[v] = pc'[v] /\ UNCHANGED <<entry[v], loaded[v], stamp[v]>>
      BY <2>1, <2>3, <3>1 DEF StampsOK, StampOK, Present
    <3>2. CASE /\ pc[v] \in {"patch", "delete"} /\ pc'[v] # "update" /\ entry'[v] = entry[v]
               /\ loaded'[v] = rows[entry[v]] /\ loaded'[v] \in Row
      <4>1. entry[v] \in Id /\ rows[entry[v]] \in Row
        BY <3>2 DEF TypeInv, LocalsOK, Handling
      <4>2. Present(entry[v])
        BY <4>1, NoneIsNoRow DEF Present
      <4>3. rows[entry[v]].created \in Nat /\ rows[entry[v]].updated \in Nat
        BY <4>1 DEF Row
      <4>4. /\ entry[v] \in spent
            /\ rows[entry[v]].created <= rows[entry[v]].updated
            /\ rows[entry[v]].updated <= clock
        BY <4>1, <4>2 DEF RowsAreSound
      <4> QED
        BY <2>1, <3>2, <4>3, <4>4, <1>a DEF StampOK, Present
    <3>3. CASE /\ pc[v] = "stamp" /\ entry'[v] = entry[v]
               /\ loaded'[v] = loaded[v] /\ stamp'[v] = clock
      BY <2>1, <3>3 DEF StampsOK, StampOK, Holding, Present
    <3> QED
      BY <1>1, <2>3, <3>1, <3>2, <3>3, QuietLocals
  <2>4. StampsOK'
    BY <2>3 DEF StampsOK, StampOK
  <2> QED
    BY <2>2, <2>4
<1>2. ASSUME NEW w \in Worker, Insert(w) PROVE ChronologyInv'
  <2>1. PICK id \in Id \ spent :
           /\ entry' = [entry EXCEPT ![w] = id]
           /\ spent' = spent \cup {id}
           /\ clock' = clock
           /\ stamp[w] \in 0..clock
           /\ rows' = [rows EXCEPT ![id] =
                         [author |-> req[w].author, message |-> req[w].message,
                          created |-> stamp[w], updated |-> stamp[w]]]
    BY <1>2, InsertEffect
  <2>2. /\ pc' = [pc EXCEPT ![w] = "refresh"]
        /\ UNCHANGED <<loaded, stamp>>
    BY <1>2 DEF Insert, Goto
  <2>3. RowsAreSound'
    BY <2>1, <1>a, <1>b DEF RowsAreSound, Present
  <2>4. ASSUME NEW v \in Worker, pc'[v] \in Holding
        PROVE  /\ v # w /\ pc'[v] = pc[v] /\ entry'[v] = entry[v]
               /\ entry[v] \in spent /\ rows'[entry[v]] = rows[entry[v]]
    <3>1. v # w /\ pc'[v] = pc[v] /\ entry'[v] = entry[v]
      BY <2>1, <2>2, <2>4, <1>a DEF Holding, TypeInv, TypeOK
    <3>2. entry[v] \in spent
      BY <2>4, <3>1 DEF StampsOK, StampOK
    <3> QED
      BY <2>1, <3>1, <3>2, <1>b
  <2> QED
    BY <2>1, <2>2, <2>3, <2>4 DEF StampsOK, StampOK, Present
<1>3. ASSUME NEW w \in Worker, Update(w) PROVE ChronologyInv'
  <2> DEFINE old == rows[entry[w]]
             new == Flushed(w, rows[entry[w]])
  <2>1. /\ entry[w] \in Id /\ old \in Row /\ new \in Row
        /\ rows' = [rows EXCEPT ![entry[w]] = new]
        /\ new.created = old.created
        /\ new.updated \in {stamp[w], old.updated}
        /\ UNCHANGED <<spent, clock, entry, loaded, stamp>>
    BY <1>3, UpdateEffect
  <2>2. pc' = [pc EXCEPT ![w] = "refresh"] /\ pc[w] = "update" /\ Present(entry[w])
    BY <1>3 DEF Update, Goto, Found
  <2> HIDE DEF old, new
  <2>3. new.created <= new.updated /\ new.updated <= clock /\ entry[w] \in spent
    <3>1. /\ old.created \in Nat /\ old.updated \in Nat /\ stamp[w] \in 0..clock
      BY <2>1, <1>a DEF Row
    <3>2. entry[w] \in spent /\ old.created <= old.updated /\ old.updated <= clock
      BY <2>1, <2>2 DEF RowsAreSound, old
    <3>3. old.created <= stamp[w]
      BY <2>2 DEF StampsOK, StampOK, Holding, old
    <3> QED
      BY <2>1, <3>1, <3>2, <3>3, <1>a
  <2>4. RowsAreSound'
    BY <2>1, <2>3, <1>b DEF RowsAreSound, Present
  <2>5. \A v \in Worker : pc'[v] \in Holding => v # w /\ pc'[v] = pc[v]
    BY <2>2, <1>a DEF Holding
  <2>6. \A id \in Id : /\ Present(id)' <=> Present(id)
                       /\ Present(id) => rows'[id].created = rows[id].created
    BY <2>1, <2>2, <1>b, NoneIsNoRow DEF Present, old
  <2>7. ASSUME NEW v \in Worker, pc'[v] \in Holding
        PROVE  StampOK(v)'
    <3>1. pc[v] \in Holding /\ pc'[v] = pc[v] /\ entry[v] \in Id
      BY <2>5, <2>7, <1>c
    <3>2. Present(entry[v])' => Present(entry[v]) /\ rows'[entry'[v]].created = rows[entry[v]].created
      BY <2>1, <2>6, <3>1 DEF Present
    <3> QED
      BY <2>1, <3>1, <3>2 DEF StampsOK, StampOK
  <2>8. StampsOK'
    BY <2>7 DEF StampsOK, StampOK
  <2> QED
    BY <2>4, <2>8
<1>4. ASSUME NEW w \in Worker, Delete(w) PROVE ChronologyInv'
  <2>1. /\ entry[w] \in Id
        /\ rows' = [rows EXCEPT ![entry[w]] = None]
        /\ UNCHANGED <<spent, clock, entry>>
        /\ pc' = [pc EXCEPT ![w] = "answered"]
        /\ loaded' = [loaded EXCEPT ![w] = None]
        /\ stamp' = [stamp EXCEPT ![w] = 0]
    BY <1>4, DeleteEffect
  <2>2. RowsAreSound'
    BY <2>1, <1>b DEF RowsAreSound, Present
  <2>3. \A v \in Worker : pc'[v] \in Holding =>
          /\ v # w /\ pc'[v] = pc[v] /\ loaded'[v] = loaded[v] /\ stamp'[v] = stamp[v]
    BY <2>1, <1>a DEF Holding, TypeInv, TypeOK
  <2>4. \A id \in Id : Present(id)' => Present(id) /\ rows'[id] = rows[id]
    BY <2>1, <1>b DEF Present
  <2>5. ASSUME NEW v \in Worker, pc'[v] \in Holding
        PROVE  StampOK(v)'
    <3>1. pc[v] \in Holding /\ pc'[v] = pc[v] /\ entry[v] \in Id
      BY <2>3, <2>5, <1>c
    <3>2. Present(entry[v])' => Present(entry[v]) /\ rows'[entry'[v]] = rows[entry[v]]
      BY <2>1, <2>4, <3>1 DEF Present
    <3> QED
      BY <2>1, <2>3, <2>5, <3>1, <3>2 DEF StampsOK, StampOK
  <2>6. StampsOK'
    BY <2>5 DEF StampsOK, StampOK
  <2> QED
    BY <2>2, <2>6
<1>5. ASSUME Advance PROVE ChronologyInv'
  <2>1. UNCHANGED <<rows, spent, local>> /\ clock' \in Nat /\ clock <= clock'
    BY <1>5, <1>a DEF Advance, Tick
  <2>2. RowsAreSound'
    BY <2>1, <1>a, <1>d DEF RowsAreSound, Present, Row
  <2>3. \A v \in Worker : pc[v] \in Holding => loaded[v].created \in Nat
    BY <1>c DEF Row
  <2> QED
    BY <2>1, <2>2, <2>3, <1>a DEF StampsOK, StampOK, Present, local
<1>6. CASE UNCHANGED vars
  BY <1>6 DEF vars, RowsAreSound, StampsOK, StampOK, Present
<1> QED
  BY <1>1, <1>2, <1>3, <1>4, <1>5, <1>6, StepCases

LEMMA ChronologyInvariant == Spec => []ChronologyInv
<1>1. Init => ChronologyInv
  BY ChronologyInit
<1>2. TypeInv /\ TypeInv' /\ ChronologyInv /\ [Next]_vars => ChronologyInv'
  BY ChronologyStep
<1> QED
  BY <1>1, <1>2, TypeInvariant, PTL DEF Spec

\* No row is ever amended before it was written or after now, whichever of two amendments
\* stamped first and whichever commits last.
THEOREM Chronology == Spec => []RowsAreSound
<1>1. ChronologyInv => RowsAreSound
  BY DEF ChronologyInv
<1> QED
  BY <1>1, ChronologyInvariant, PTL

----------------------------------------------------------------------------
(* The handlers implement the book. *)

LEMMA BookStep == TypeInv /\ ChronologyInv /\ [Next]_vars => [BookNext]_bookVars
<1> SUFFICES ASSUME TypeInv, ChronologyInv, [Next]_vars
             PROVE  BookNext \/ UNCHANGED bookVars
  OBVIOUS
<1>1. ASSUME NEW w \in Worker, Quiet(w) PROVE UNCHANGED bookVars
  BY <1>1, QuietLeavesBook
<1>2. ASSUME NEW w \in Worker, Insert(w) PROVE BookNext
  <2>1. PICK id \in Id \ spent :
           /\ spent' = spent \cup {id}
           /\ clock' = clock
           /\ stamp[w] \in 0..clock
           /\ req[w].author \in Text /\ req[w].message \in Text
           /\ rows' = [rows EXCEPT ![id] =
                         [author |-> req[w].author, message |-> req[w].message,
                          created |-> stamp[w], updated |-> stamp[w]]]
    BY <1>2, InsertEffect
  <2>2. Write(id, req[w].author, req[w].message, stamp[w])
    BY <2>1 DEF Write
  <2> QED
    BY <2>1, <2>2 DEF BookNext
<1>3. ASSUME NEW w \in Worker, Update(w) PROVE BookNext
  <2> DEFINE old == rows[entry[w]]
             new == Flushed(w, rows[entry[w]])
  <2>1. /\ entry[w] \in Id /\ old \in Row /\ new \in Row
        /\ rows' = [rows EXCEPT ![entry[w]] = new]
        /\ new.created = old.created
        /\ new.updated \in {stamp[w], old.updated}
        /\ UNCHANGED <<spent, clock>>
    BY <1>3, UpdateEffect
  <2>2. Present(entry[w]) /\ pc[w] = "update"
    BY <1>3 DEF Update, Found
  <2> HIDE DEF old, new
  <2>3. new = [old EXCEPT !.author = new.author, !.message = new.message,
                          !.updated = new.updated]
    BY <2>1 DEF Row
  <2>4. rows' = [rows EXCEPT ![entry[w]].author = new.author,
                             ![entry[w]].message = new.message,
                             ![entry[w]].updated = new.updated]
    BY <2>1, <2>3 DEF old, TypeInv, TypeOK, BookTypeOK
  <2>5. new.author \in Text /\ new.message \in Text
    BY <2>1 DEF Row
  <2>6. new.updated \in 0..clock /\ old.created <= new.updated
    <3>1. /\ clock \in Nat /\ stamp[w] \in 0..clock
          /\ old.created \in Nat /\ old.updated \in Nat
      BY <2>1, ClockAssumption DEF TypeInv, TypeOK, BookTypeOK, Row
    <3>2. old.created <= old.updated /\ old.updated <= clock
      BY <2>1, <2>2 DEF ChronologyInv, RowsAreSound, old
    <3>3. old.created <= stamp[w]
      BY <2>2 DEF ChronologyInv, StampsOK, StampOK, Holding, old
    <3> QED
      BY <2>1, <3>1, <3>2, <3>3
  <2>7. Amend(entry[w], new.author, new.message, new.updated)
    BY <2>1, <2>2, <2>4, <2>6 DEF Amend, old
  <2> QED
    BY <2>1, <2>5, <2>6, <2>7 DEF BookNext
<1>4. ASSUME NEW w \in Worker, Delete(w) PROVE BookNext \/ UNCHANGED bookVars
  <2>1. /\ entry[w] \in Id
        /\ rows' = [rows EXCEPT ![entry[w]] = None]
        /\ UNCHANGED <<spent, clock>>
    BY <1>4, DeleteEffect
  <2>2. CASE Present(entry[w])
    BY <2>1, <2>2 DEF Erase, BookNext
  <2>3. CASE ~Present(entry[w])
    BY <2>1, <2>3 DEF Present, bookVars, TypeInv, TypeOK, BookTypeOK
  <2> QED
    BY <2>2, <2>3
<1>5. ASSUME Advance PROVE BookNext
  BY <1>5 DEF Advance, BookNext
<1>6. CASE UNCHANGED vars
  BY <1>6 DEF vars, bookVars
<1> QED
  BY <1>1, <1>2, <1>3, <1>4, <1>5, <1>6, StepCases

\* Whatever the handlers do at the same time, the table changes only as the book allows:
\* an identifier is written once, the moment of writing never moves, and what is gone
\* stays gone.
THEOREM ServiceKeepsTheBook == Spec => BookSpec
<1>1. Init => BookInit
  BY DEF Init
<1>2. TypeInv /\ ChronologyInv /\ [Next]_vars => [BookNext]_bookVars
  BY BookStep
<1> QED
  BY <1>1, <1>2, TypeInvariant, ChronologyInvariant, PTL DEF Spec, BookSpec

----------------------------------------------------------------------------
(* What is deleted is gone. *)

Told204(w) == pc[w] = "answered" /\ reply[w].status = 204

\* The identifier stays spent, so no later INSERT can bring the entry back; an UPDATE
\* needs a row.
GoneInv == \A w \in Worker : Told204(w) => entry[w] \in spent /\ ~Present(entry[w])

LEMMA GoneStep == TypeInv /\ ChronologyInv /\ GoneInv /\ [Next]_vars => GoneInv'
<1> SUFFICES ASSUME TypeInv, ChronologyInv, GoneInv, [Next]_vars,
                    NEW v \in Worker, Told204(v)'
             PROVE  entry'[v] \in spent' /\ ~Present(entry[v])'
  BY DEF GoneInv, Present
<1> USE DEF Told204
<1>a. /\ pc \in [Worker -> {"idle", "answered"} \cup Handling]
      /\ entry \in [Worker -> Id \cup {None}]
      /\ reply \in [Worker -> Reply \cup {None}]
      /\ rows \in [Id -> Row \cup {None}]
      /\ spent \subseteq Id
  BY DEF TypeInv, TypeOK, BookTypeOK
<1>1. ASSUME NEW w \in Worker, Quiet(w) PROVE entry'[v] \in spent' /\ ~Present(entry[v])'
  <2>1. UNCHANGED <<rows, spent>>
    BY <1>1, QuietLeavesBook DEF bookVars
  <2>2. Told204(v) /\ entry'[v] = entry[v]
    <3>1. CASE \E r \in Requests : Call(w, r)
      <4>1. PICK r \in Requests : Call(w, r)
        BY <3>1
      <4>2. r.op # "answered"
        BY RequestsAssumption DEF Request
      <4> QED
        BY <4>1, <4>2, <1>a DEF Call, Goto
    <3>2. CASE Get(w) \/ Refresh(w) \/ RefuseEmptyPatch(w) \/ UpdateNothing(w) \/ Fail(w)
      BY <3>2, <1>a DEF Get, Refresh, Success, RefuseEmptyPatch, UpdateNothing, Fail,
                        Answer, Goto
    <3>3. CASE Now(w) \/ SkipUpdate(w)
      BY <3>3, <1>a DEF Now, AfterNow, SkipUpdate, Goto
    <3>4. CASE Load(w)
      BY <3>4, <1>a DEF Load, AfterLoad, Answer, Goto
    <3> QED
      BY <1>1, <3>1, <3>2, <3>3, <3>4 DEF Quiet
  <2> QED
    BY <2>1, <2>2 DEF GoneInv, Present
<1>2. ASSUME NEW w \in Worker, Insert(w) PROVE entry'[v] \in spent' /\ ~Present(entry[v])'
  <2>1. PICK id \in Id \ spent :
           /\ entry' = [entry EXCEPT ![w] = id]
           /\ spent' = spent \cup {id}
           /\ rows' = [rows EXCEPT ![id] =
                         [author |-> req[w].author, message |-> req[w].message,
                          created |-> stamp[w], updated |-> stamp[w]]]
    BY <1>2, InsertEffect
  <2>2. v # w /\ Told204(v) /\ entry'[v] = entry[v]
    BY <1>2, <2>1, <1>a DEF Insert, Goto
  <2> QED
    BY <2>1, <2>2, <1>a DEF GoneInv, Present
<1>3. ASSUME NEW w \in Worker, Update(w) PROVE entry'[v] \in spent' /\ ~Present(entry[v])'
  <2>1. /\ entry[w] \in Id /\ Present(entry[w])
        /\ rows' = [rows EXCEPT ![entry[w]] = Flushed(w, rows[entry[w]])]
        /\ UNCHANGED <<spent, entry>>
    BY <1>3, UpdateEffect DEF Update, Found
  <2>2. Told204(v)
    BY <1>3, <1>a DEF Update, Goto
  <2> QED
    BY <2>1, <2>2, <1>a DEF GoneInv, Present
<1>4. ASSUME NEW w \in Worker, Delete(w) PROVE entry'[v] \in spent' /\ ~Present(entry[v])'
  <2>1. /\ entry[w] \in Id
        /\ rows' = [rows EXCEPT ![entry[w]] = None]
        /\ UNCHANGED <<spent, entry>>
        /\ pc[w] = "remove"
    BY <1>4, DeleteEffect
  <2>2. CASE v = w
    BY <2>1, <2>2, <1>a DEF ChronologyInv, StampsOK, StampOK, Holding, Present
  <2>3. CASE v # w
    <3>1. Told204(v)
      BY <1>4, <2>3, <1>a DEF Delete, Answer, Goto
    <3> QED
      BY <2>1, <3>1, <1>a DEF GoneInv, Present
  <2> QED
    BY <2>2, <2>3
<1>5. ASSUME Advance PROVE entry'[v] \in spent' /\ ~Present(entry[v])'
  BY <1>5 DEF Advance, Tick, local, GoneInv, Present
<1>6. CASE UNCHANGED vars
  BY <1>6 DEF vars, GoneInv, Present
<1> QED
  BY <1>1, <1>2, <1>3, <1>4, <1>5, <1>6, StepCases

\* An entry that any caller was told is deleted never comes back, for any number of
\* concurrent requests on it.
THEOREM DeletedStaysGone == Spec => []DeletedIsGone
<1>1. Init => GoneInv
  BY DEF Init, GoneInv, Told204
<1>2. TypeInv /\ ChronologyInv /\ GoneInv /\ [Next]_vars => GoneInv'
  BY GoneStep
<1>3. GoneInv => DeletedIsGone
  BY DEF GoneInv, Told204, DeletedIsGone, Status
<1> QED
  BY <1>1, <1>2, <1>3, TypeInvariant, ChronologyInvariant, PTL DEF Spec

----------------------------------------------------------------------------
(* What a PATCH leaves alone. *)

\* A step of a worker moves no other.
LEMMA OneMoves ==
  ASSUME NEW v \in Worker, Quiet(v) \/ Insert(v) \/ Update(v) \/ Delete(v)
  PROVE  \E where : pc' = [pc EXCEPT ![v] = where]
BY DEF Quiet, Call, Get, Now, Insert, Refresh, RefuseEmptyPatch, Load, SkipUpdate, Update,
       UpdateNothing, Delete, Fail, Answer, Goto

LEMMA UnsetStep ==
  ASSUME TypeInv, [Next]_vars, NEW w \in Worker,
         pc[w] = "update", Present(entry[w]), pc'[w] = "refresh"
  PROVE  /\ req[w].author = None => rows'[entry[w]].author = rows[entry[w]].author
         /\ req[w].message = None => rows'[entry[w]].message = rows[entry[w]].message
<1>a. pc \in [Worker -> {"idle", "answered"} \cup Handling]
  BY DEF TypeInv, TypeOK
<1>1. SkipUpdate(w) \/ Update(w)
  <2>1. pc' # pc
    BY <1>a
  <2>2. PICK v \in Worker : Quiet(v) \/ Insert(v) \/ Update(v) \/ Delete(v)
    BY <2>1, StepCases DEF Advance, local, vars
  <2>3. PICK where : pc' = [pc EXCEPT ![v] = where]
    BY <2>2, OneMoves
  <2>4. v = w
    BY <2>3, <1>a
  <2>5. ~(UpdateNothing(w) \/ Fail(w) \/ Delete(w))
    BY <1>a DEF UpdateNothing, Fail, Delete, Answer, Goto
  <2> QED
    BY <2>2, <2>4, <2>5 DEF Quiet, Call, Get, Now, Insert, Refresh, RefuseEmptyPatch, Load
<1>2. CASE SkipUpdate(w)
  BY <1>2 DEF SkipUpdate, bookVars
<1>3. CASE Update(w)
  <2>1. /\ entry[w] \in Id /\ rows[entry[w]] \in Row
        /\ rows' = [rows EXCEPT ![entry[w]] = Flushed(w, rows[entry[w]])]
    BY <1>3, UpdateEffect
  <2>2. rows'[entry[w]] = Flushed(w, rows[entry[w]])
    BY <2>1 DEF TypeInv, TypeOK, BookTypeOK
  <2>3. /\ req[w].author = None => ~SetsAuthor(w)
        /\ req[w].message = None => ~SetsMessage(w)
    BY DEF SetsAuthor, SetsMessage
  <2>4. /\ ~SetsAuthor(w) => Flushed(w, rows[entry[w]]).author = rows[entry[w]].author
        /\ ~SetsMessage(w) => Flushed(w, rows[entry[w]]).message = rows[entry[w]].message
    BY <2>1 DEF Flushed, Row
  <2> QED
    BY <2>2, <2>3, <2>4
<1> QED
  BY <1>1, <1>2, <1>3

\* A PATCH leaves a field it does not set as it stands when the PATCH commits, whatever
\* was loaded before.
THEOREM UnsetFieldsAreKept == Spec => UnsetFieldIsLeftAlone
<1> DEFINE Kept ==
      \A w \in Worker :
        pc[w] = "update" /\ Present(entry[w]) /\ pc'[w] = "refresh" =>
          /\ req[w].author = None => rows'[entry[w]].author = rows[entry[w]].author
          /\ req[w].message = None => rows'[entry[w]].message = rows[entry[w]].message
<1>1. TypeInv /\ [Next]_vars => [Kept]_vars
  BY UnsetStep
<1> QED
  BY <1>1, TypeInvariant, PTL DEF Spec, UnsetFieldIsLeftAlone

----------------------------------------------------------------------------
(* Answers are true of some moment of the request. *)

Witnessed(w) ==
  /\ reply[w].status \in {200, 201} => reply[w].body \in seen[w]
  /\ reply[w].status = 404 => None \in seen[w]
  /\ reply[w].status = 204 => None \in seen[w] /\ seen[w] \cap Row # {}

\* While a request is served, what the table holds and what was loaded from it are among
\* what was seen; so is what an answer says.
WitnessOK(w) ==
  /\ Serving(w) /\ entry[w] \in Id => rows[entry[w]] \in seen[w]
  /\ pc[w] \in Holding => loaded[w] \in seen[w]
  /\ pc[w] = "answered" => Witnessed(w)

WitnessInv == \A w \in Worker : WitnessOK(w)

LEMMA OthersKeepLocals ==
  ASSUME TypeInv, NEW w \in Worker, NEW v \in Worker, v # w,
         Quiet(w) \/ Insert(w) \/ Update(w) \/ Delete(w)
  PROVE  UNCHANGED <<pc[v], entry[v], loaded[v], reply[v]>>
<1> USE DEF TypeInv, TypeOK
<1>1. CASE (\E r \in Requests : Call(w, r)) \/ Now(w) \/ SkipUpdate(w)
  BY <1>1 DEF Call, Now, SkipUpdate, Goto
<1>2. CASE Get(w) \/ Refresh(w) \/ RefuseEmptyPatch(w) \/ UpdateNothing(w) \/ Fail(w)
  BY <1>2 DEF Get, Refresh, RefuseEmptyPatch, UpdateNothing, Fail, Answer, Goto
<1>3. CASE Load(w)
  BY <1>3 DEF Load, Answer, Goto
<1>4. CASE Insert(w) \/ Update(w)
  BY <1>4 DEF Insert, Update, Goto
<1>5. CASE Delete(w)
  BY <1>5 DEF Delete, Answer, Goto
<1> QED
  BY <1>1, <1>2, <1>3, <1>4, <1>5 DEF Quiet

LEMMA OthersKeepSeen ==
  ASSUME TypeInv, NEW w \in Worker, NEW v \in Worker, v # w, Quiet(w)
  PROVE  seen'[v] = seen[v]
BY DEF TypeInv, TypeOK, Quiet, Call, Get, Now, Refresh, RefuseEmptyPatch, Load, SkipUpdate,
       UpdateNothing, Fail

\* A worker that is waiting while another one writes sees what it writes.
LEMMA StoreWitnessed ==
  ASSUME TypeInv, NEW v \in Worker, WitnessOK(v), NEW id \in Id, NEW row,
         Store(id, row), UNCHANGED <<pc[v], entry[v], loaded[v], reply[v]>>
  PROVE  WitnessOK(v)'
<1>1. seen'[v] = IF Serving(v) /\ entry'[v] = id THEN seen[v] \cup {row} ELSE seen[v]
  BY DEF Store, TypeInv, TypeOK
<1>2. /\ rows'[id] = row
      /\ \A other \in Id : other # id => rows'[other] = rows[other]
  BY DEF Store, TypeInv, TypeOK, BookTypeOK
<1>3. pc[v] = "answered" => seen'[v] = seen[v]
  BY <1>1 DEF Serving, Handling
<1> QED
  BY <1>1, <1>2, <1>3 DEF WitnessOK, Witnessed, Serving

LEMMA QuietWitnessed ==
  ASSUME TypeInv, NEW w \in Worker, WitnessOK(w), Quiet(w)
  PROVE  WitnessOK(w)'
<1> USE DEF TypeInv, TypeOK
<1>a. rows' = rows
  BY QuietLeavesBook DEF bookVars
<1>1. ASSUME NEW r \in Requests, Call(w, r) PROVE WitnessOK(w)'
  <2>1. r.op \in {"create", "patch", "get", "delete"}
    BY RequestsAssumption DEF Request
  <2>2. pc'[w] = r.op /\ entry'[w] = r.id
    BY <1>1 DEF Call, Goto
  <2>3. seen'[w] = IF r.id = None THEN {} ELSE {rows[r.id]}
    BY <1>1 DEF Call
  <2> QED
    BY <1>a, <2>1, <2>2, <2>3, NoneAssumption DEF WitnessOK, Holding
<1>2. ASSUME NEW status, NEW body, Answer(w, status, body),
             seen'[w] = seen[w],
             /\ status \in {200, 201} => body \in seen[w]
             /\ status = 404 => None \in seen[w]
             /\ status # 204
      PROVE  WitnessOK(w)'
  <2>1. pc'[w] = "answered" /\ reply'[w] = [status |-> status, body |-> body]
    BY <1>2 DEF Answer, Goto
  <2> QED
    BY <1>2, <2>1 DEF WitnessOK, Witnessed, Serving, Handling, Holding
<1>3. ASSUME Serving(w), entry[w] \in Id
      PROVE  /\ rows[entry[w]] \in seen[w]
             /\ ~Found(w) => None \in seen[w]
  BY <1>3 DEF WitnessOK, Found, Present
<1>4. CASE Get(w)
  <2>1. Serving(w) /\ entry[w] \in Id /\ seen' = seen
    BY <1>4 DEF Get, Serving, Handling, LocalsOK
  <2>2. CASE Answer(w, 200, rows[entry[w]])
    BY <1>2, <1>3, <2>1, <2>2
  <2>3. CASE ~Found(w) /\ Answer(w, 404, None)
    BY <1>2, <1>3, <2>1, <2>3
  <2> QED
    BY <1>4, <2>2, <2>3 DEF Get
<1>5. CASE Refresh(w)
  <2>1. Serving(w) /\ entry[w] \in Id /\ seen' = seen
    BY <1>5 DEF Refresh, Serving, Handling, LocalsOK
  <2>2. CASE Answer(w, Success(w), rows[entry[w]])
    BY <1>2, <1>3, <2>1, <2>2 DEF Success
  <2>3. CASE Answer(w, 500, None)
    BY <1>2, <2>1, <2>3
  <2> QED
    BY <1>5, <2>2, <2>3 DEF Refresh
<1>6. CASE RefuseEmptyPatch(w) \/ UpdateNothing(w) \/ Fail(w)
  <2>1. seen' = seen /\ (Answer(w, 422, None) \/ Answer(w, 500, None))
    BY <1>6 DEF RefuseEmptyPatch, UpdateNothing, Fail
  <2> QED
    BY <1>2, <2>1
<1>7. CASE Load(w)
  <2>1. Serving(w) /\ entry[w] \in Id /\ seen' = seen
    BY <1>7 DEF Load, Serving, Handling, LocalsOK
  <2>2. CASE ~Found(w) /\ Answer(w, 404, None)
    BY <1>2, <1>3, <2>1, <2>2
  <2>3. CASE /\ Found(w)
             /\ loaded' = [loaded EXCEPT ![w] = rows[entry[w]]]
             /\ Goto(w, AfterLoad(w))
             /\ UNCHANGED <<req, entry, stamp, reply>>
    <3>1. pc'[w] \in Holding /\ entry'[w] = entry[w] /\ loaded'[w] = rows[entry[w]]
      BY <2>3 DEF Goto, AfterLoad, Holding
    <3> QED
      BY <1>3, <1>a, <2>1, <3>1 DEF WitnessOK, Holding
  <2> QED
    BY <1>7, <2>2, <2>3 DEF Load
<1>8. CASE Now(w)
  <2>1. Serving(w) /\ UNCHANGED <<entry, loaded, seen>>
    BY <1>8 DEF Now, Serving, Handling
  <2>2. \/ pc[w] = "stamp" /\ pc'[w] = "update"
        \/ pc[w] = "create" /\ pc'[w] = "insert"
    BY <1>8 DEF Now, Goto, AfterNow
  <2> QED
    BY <1>a, <2>1, <2>2 DEF WitnessOK, Holding
<1>9. CASE SkipUpdate(w)
  <2>1. Serving(w) /\ UNCHANGED <<entry, loaded, seen>> /\ pc'[w] = "refresh"
    BY <1>9 DEF SkipUpdate, Goto, Serving, Handling
  <2> QED
    BY <1>a, <2>1 DEF WitnessOK, Holding
<1> QED
  BY <1>1, <1>4, <1>5, <1>6, <1>7, <1>8, <1>9 DEF Quiet

LEMMA WitnessStep == TypeInv /\ WitnessInv /\ [Next]_vars => WitnessInv'
<1> SUFFICES ASSUME TypeInv, WitnessInv, [Next]_vars, NEW v \in Worker
             PROVE  WitnessOK(v)'
  BY DEF WitnessInv
<1>a. WitnessOK(v)
  BY DEF WitnessInv
<1>b. seen \in [Worker -> SUBSET (Row \cup {None})]
  BY DEF TypeInv, TypeOK
<1>1. ASSUME NEW w \in Worker, Quiet(w) PROVE WitnessOK(v)'
  <2>1. CASE v = w
    BY <1>1, <1>a, <2>1, QuietWitnessed
  <2>2. CASE v # w
    <3>1. UNCHANGED <<pc[v], entry[v], loaded[v], reply[v], seen[v], rows>>
      BY <1>1, <2>2, OthersKeepLocals, OthersKeepSeen, QuietLeavesBook DEF bookVars
    <3> QED
      BY <1>a, <3>1 DEF WitnessOK, Witnessed, Serving
  <2> QED
    BY <2>1, <2>2
<1>2. ASSUME NEW w \in Worker, Insert(w) PROVE WitnessOK(v)'
  <2> DEFINE row == [author |-> req[w].author, message |-> req[w].message,
                     created |-> stamp[w], updated |-> stamp[w]]
  <2>1. PICK id \in Id : entry' = [entry EXCEPT ![w] = id] /\ Store(id, row)
    BY <1>2 DEF Insert
  <2> HIDE DEF row
  <2>2. CASE v # w
    BY <1>2, <1>a, <2>1, <2>2, OthersKeepLocals, StoreWitnessed
  <2>3. CASE v = w
    <3>1. pc[w] = "insert" /\ pc'[w] = "refresh" /\ entry'[w] = id
      BY <1>2, <2>1 DEF Insert, Goto, TypeInv, TypeOK
    <3>2. rows'[id] = row /\ seen'[w] = seen[w] \cup {row}
      BY <2>1, <3>1 DEF Store, Serving, Handling, TypeInv, TypeOK, BookTypeOK
    <3> QED
      BY <2>3, <3>1, <3>2 DEF WitnessOK, Holding
  <2> QED
    BY <2>2, <2>3
<1>3. ASSUME NEW w \in Worker, Update(w) PROVE WitnessOK(v)'
  <2> DEFINE row == Flushed(w, rows[entry[w]])
  <2>1. entry[w] \in Id /\ entry' = entry /\ Store(entry[w], row)
    BY <1>3, UpdateEffect DEF Update
  <2> HIDE DEF row
  <2>2. CASE v # w
    BY <1>3, <1>a, <2>1, <2>2, OthersKeepLocals, StoreWitnessed
  <2>3. CASE v = w
    <3>1. pc[w] = "update" /\ pc'[w] = "refresh"
      BY <1>3 DEF Update, Goto, TypeInv, TypeOK
    <3>2. rows'[entry[w]] = row /\ seen'[w] = seen[w] \cup {row}
      BY <2>1, <3>1 DEF Store, Serving, Handling, TypeInv, TypeOK, BookTypeOK
    <3> QED
      BY <2>1, <2>3, <3>1, <3>2 DEF WitnessOK, Holding
  <2> QED
    BY <2>2, <2>3
<1>4. ASSUME NEW w \in Worker, Delete(w) PROVE WitnessOK(v)'
  <2>1. entry[w] \in Id /\ entry' = entry /\ Store(entry[w], None)
    BY <1>4, DeleteEffect DEF Delete
  <2>2. CASE v # w
    BY <1>4, <1>a, <2>1, <2>2, OthersKeepLocals, StoreWitnessed
  <2>3. CASE v = w
    <3>1. pc[w] = "remove" /\ pc'[w] = "answered"
      BY <1>4, DeleteEffect DEF TypeInv, TypeOK
    <3>2. reply'[w].status \in {204, 500}
      BY <1>4 DEF Delete, Answer, TypeInv, TypeOK
    <3>3. seen'[w] = seen[w] \cup {None}
      BY <2>1, <3>1 DEF Store, Serving, Handling, TypeInv, TypeOK
    <3>4. loaded[w] \in seen[w] \cap Row
      BY <2>3, <1>a, <3>1 DEF WitnessOK, Holding, TypeInv, LocalsOK
    <3> QED
      BY <2>3, <3>1, <3>2, <3>3, <3>4 DEF WitnessOK, Witnessed, Serving, Handling, Holding
  <2> QED
    BY <2>2, <2>3
<1>5. ASSUME Advance PROVE WitnessOK(v)'
  BY <1>5, <1>a DEF Advance, Tick, local, WitnessOK, Witnessed, Serving
<1>6. CASE UNCHANGED vars
  BY <1>6, <1>a DEF vars, WitnessOK, Witnessed, Serving
<1> QED
  BY <1>1, <1>2, <1>3, <1>4, <1>5, <1>6, StepCases

\* Every answer was true at some moment of its request, for any number of concurrent
\* requests: the handlers read and commit in several transactions, and no interleaving of
\* them makes one answer with a row that never was or about an entry that never went.
THEOREM AnswersHaveWitnesses == Spec => []AnswersAreWitnessed
<1>1. Init => WitnessInv
  BY DEF Init, WitnessInv, WitnessOK, Serving, Handling, Holding
<1>2. TypeInv /\ WitnessInv /\ [Next]_vars => WitnessInv'
  BY WitnessStep
<1>3. WitnessInv => AnswersAreWitnessed
  BY DEF WitnessInv, WitnessOK, Witnessed, AnswersAreWitnessed, Status
<1> QED
  BY <1>1, <1>2, <1>3, TypeInvariant, PTL DEF Spec

=============================================================================
