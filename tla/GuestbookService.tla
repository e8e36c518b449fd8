-------------------------- MODULE GuestbookService --------------------------
(***************************************************************************)
(* The handlers of POST, GET, PATCH and DELETE on one guestbook entry, as  *)
(* workers that serve requests at the same time against one Postgres at    *)
(* READ COMMITTED (app/contexts/guestbook/routers and services,            *)
(* guestbook_entries.py).  A worker stops between any two statements it    *)
(* sends, because every other worker may commit there; a statement, and    *)
(* the flush and the COMMIT of one session.commit(), are one step.  The    *)
(* body of a request has passed Pydantic: refusals of a field by its       *)
(* length or emptiness never reach a handler.                              *)
(***************************************************************************)
EXTENDS GuestbookBook, FiniteSets

CONSTANTS
  Worker,    \* threads and Lambda environments; each serves one request
  Requests   \* the requests that may arrive

VARIABLES
  pc,        \* where each worker is in its handler
  req,       \* the request it serves
  entry,     \* the identifier the request is about; None until an INSERT draws one
  loaded,    \* the row session.get returned
  stamp,     \* what _now() returned
  reply,     \* the response it sent last
  seen       \* history: what the table held under entry[w] since the request came

local == <<pc, req, entry, loaded, stamp, reply, seen>>
vars  == <<rows, spent, clock, pc, req, entry, loaded, stamp, reply, seen>>

Field == Text \cup {None}

Request ==
       [op : {"create"}, id : {None}, author : Text, message : Text]
  \cup [op : {"patch"}, id : Id, author : Field, message : Field]
  \cup [op : {"get", "delete"}, id : Id, author : {None}, message : {None}]

ASSUME RequestsAssumption == Requests \subseteq Request

Reply ==
       [status : {200, 201}, body : Row]
  \cup [status : {204, 404, 422, 500}, body : {None}]

Handling == {"create", "insert", "refresh", "get", "patch", "stamp", "update",
             "delete", "remove"}

Serving(w) == pc[w] \in Handling

Init ==
  /\ BookInit
  /\ pc     = [w \in Worker |-> "idle"]
  /\ req    = [w \in Worker |-> None]
  /\ entry  = [w \in Worker |-> None]
  /\ loaded = [w \in Worker |-> None]
  /\ stamp  = [w \in Worker |-> 0]
  /\ reply  = [w \in Worker |-> None]
  /\ seen   = [w \in Worker |-> {}]

Goto(w, where) == pc' = [pc EXCEPT ![w] = where]

\* The handler returns or raises, and its locals go with it.
Answer(w, status, body) ==
  /\ Goto(w, "answered")
  /\ reply'  = [reply EXCEPT ![w] = [status |-> status, body |-> body]]
  /\ loaded' = [loaded EXCEPT ![w] = None]
  /\ stamp'  = [stamp EXCEPT ![w] = 0]
  /\ UNCHANGED <<req, entry>>

Found(w) == Present(entry[w])

\* The committed table now holds row under id.
Store(id, row) ==
  /\ rows' = [rows EXCEPT ![id] = row]
  /\ seen' = [v \in Worker |-> IF Serving(v) /\ entry'[v] = id
                                 THEN seen[v] \cup {row} ELSE seen[v]]

----------------------------------------------------------------------------
(* A request arrives. *)

\* Bound: a create is let in only while an identifier is left for it.
IdsLeft ==
  Cardinality(Id \ spent) > Cardinality({w \in Worker : pc[w] \in {"create", "insert"}})

Call(w, r) ==
  /\ pc[w] = "idle"
  /\ r.op = "create" => IdsLeft
  /\ Goto(w, r.op)
  /\ req'   = [req EXCEPT ![w] = r]
  /\ entry' = [entry EXCEPT ![w] = r.id]
  /\ seen'  = [seen EXCEPT ![w] = IF r.id = None THEN {} ELSE {rows[r.id]}]
  /\ UNCHANGED <<bookVars, loaded, stamp, reply>>

----------------------------------------------------------------------------
(* get_entry *)

Get(w) ==
  /\ pc[w] = "get"
  /\ \/ Found(w) /\ Answer(w, 200, rows[entry[w]])
     \/ ~Found(w) /\ Answer(w, 404, None)
  /\ UNCHANGED <<bookVars, seen>>

----------------------------------------------------------------------------
(* create_entry and update_entry: _now() *)

AfterNow(w) == IF pc[w] = "create" THEN "insert" ELSE "update"

Now(w) ==
  /\ pc[w] \in {"create", "stamp"}
  /\ stamp' = [stamp EXCEPT ![w] = clock]
  /\ Goto(w, AfterNow(w))
  /\ UNCHANGED <<bookVars, req, entry, loaded, reply, seen>>

----------------------------------------------------------------------------
(* create_entry *)

\* Mutant of Insert: updated_at read from the clock a second time, and first.
InsertTwoInstants(w) ==
  /\ pc[w] = "insert"
  /\ \E id \in Id \ spent :
       /\ entry' = [entry EXCEPT ![w] = id]
       /\ spent' = spent \cup {id}
       /\ Store(id, [author |-> req[w].author, message |-> req[w].message,
                     created |-> clock, updated |-> stamp[w]])
  /\ Goto(w, "refresh")
  /\ UNCHANGED <<clock, req, loaded, stamp, reply>>

Insert(w) ==
  /\ pc[w] = "insert"
  /\ \E id \in Id \ spent :
       /\ entry' = [entry EXCEPT ![w] = id]
       /\ spent' = spent \cup {id}
       /\ Store(id, [author |-> req[w].author, message |-> req[w].message,
                     created |-> stamp[w], updated |-> stamp[w]])
  /\ Goto(w, "refresh")
  /\ UNCHANGED <<clock, req, loaded, stamp, reply>>

\* session.refresh after a commit is a SELECT in a new transaction: the row may carry
\* what another request committed meanwhile, or be gone, which SQLAlchemy raises.
Success(w) == IF req[w].op = "create" THEN 201 ELSE 200

\* Mutant of Refresh: the row is taken to be there still.
RefreshUnchecked(w) ==
  /\ pc[w] = "refresh"
  /\ Answer(w, Success(w), rows[entry[w]])
  /\ UNCHANGED <<bookVars, seen>>

\* Mutant of Refresh: read again until the row is found.
RefreshUntilFound(w) ==
  /\ pc[w] = "refresh" /\ Found(w)
  /\ Answer(w, Success(w), rows[entry[w]])
  /\ UNCHANGED <<bookVars, seen>>

Refresh(w) ==
  /\ pc[w] = "refresh"
  /\ \/ Found(w) /\ Answer(w, Success(w), rows[entry[w]])
     \/ ~Found(w) /\ Answer(w, 500, None)
  /\ UNCHANGED <<bookVars, seen>>

----------------------------------------------------------------------------
(* update_entry and delete_entry: the router's refusal and session.get *)

EmptyPatch(w) ==
  req[w].op = "patch" /\ req[w].author = None /\ req[w].message = None

RefuseEmptyPatch(w) ==
  /\ pc[w] = "patch" /\ EmptyPatch(w)
  /\ Answer(w, 422, None)
  /\ UNCHANGED <<bookVars, seen>>

AfterLoad(w) == IF pc[w] = "patch" THEN "stamp" ELSE "remove"

\* Mutant of Load: a delete goes ahead whether or not there is a row.
LoadForPatchOnly(w) ==
  /\ pc[w] \in {"patch", "delete"} /\ ~EmptyPatch(w)
  /\ \/ /\ Found(w) \/ pc[w] = "delete"
        /\ loaded' = [loaded EXCEPT ![w] = rows[entry[w]]]
        /\ Goto(w, AfterLoad(w))
        /\ UNCHANGED <<req, entry, stamp, reply>>
     \/ ~Found(w) /\ Answer(w, 404, None)
  /\ UNCHANGED <<bookVars, seen>>

Load(w) ==
  /\ pc[w] \in {"patch", "delete"} /\ ~EmptyPatch(w)
  /\ \/ /\ Found(w)
        /\ loaded' = [loaded EXCEPT ![w] = rows[entry[w]]]
        /\ Goto(w, AfterLoad(w))
        /\ UNCHANGED <<req, entry, stamp, reply>>
     \/ ~Found(w) /\ Answer(w, 404, None)
  /\ UNCHANGED <<bookVars, seen>>

----------------------------------------------------------------------------
(* update_entry: the flush.  SQLAlchemy writes the columns whose value differs from  *)
(* the one it loaded, and only those; a column left as loaded keeps whatever another *)
(* request has put there since.                                                      *)

SetsAuthor(w)  == req[w].author \notin {None, loaded[w].author}
SetsMessage(w) == req[w].message \notin {None, loaded[w].message}
SetsUpdated(w) == stamp[w] # loaded[w].updated

Dirty(w) == SetsAuthor(w) \/ SetsMessage(w) \/ SetsUpdated(w)

\* Mutant of Flushed: every column is written, from the copy that was loaded.
FlushedWhole(w, row) ==
  [loaded[w] EXCEPT !.author  = IF req[w].author # None THEN req[w].author ELSE @,
                    !.message = IF req[w].message # None THEN req[w].message ELSE @,
                    !.updated = stamp[w]]

\* Mutant of Flushed: the moment of writing is stamped again.
FlushedAnew(w, row) ==
  [row EXCEPT !.author  = IF SetsAuthor(w) THEN req[w].author ELSE @,
              !.message = IF SetsMessage(w) THEN req[w].message ELSE @,
              !.created = stamp[w], !.updated = stamp[w]]

Flushed(w, row) ==
  [row EXCEPT !.author  = IF SetsAuthor(w) THEN req[w].author ELSE @,
              !.message = IF SetsMessage(w) THEN req[w].message ELSE @,
              !.updated = IF SetsUpdated(w) THEN stamp[w] ELSE @]

\* Nothing differs, so the commit sends no UPDATE.
SkipUpdate(w) ==
  /\ pc[w] = "update" /\ ~Dirty(w)
  /\ Goto(w, "refresh")
  /\ UNCHANGED <<bookVars, req, entry, loaded, stamp, reply, seen>>

\* Mutant of Update: the row is put back when another request has deleted it.
UpdateOrInsert(w) ==
  /\ pc[w] = "update" /\ Dirty(w)
  /\ Goto(w, "refresh")
  /\ UNCHANGED <<spent, clock, req, entry, loaded, stamp, reply>>
  /\ Store(entry[w], Flushed(w, loaded[w]))

Update(w) ==
  /\ pc[w] = "update" /\ Dirty(w) /\ Found(w)
  /\ Goto(w, "refresh")
  /\ UNCHANGED <<spent, clock, req, entry, loaded, stamp, reply>>
  /\ Store(entry[w], Flushed(w, rows[entry[w]]))

\* The UPDATE matched no row: StaleDataError, which no layer translates.
UpdateNothing(w) ==
  /\ pc[w] = "update" /\ Dirty(w) /\ ~Found(w)
  /\ Answer(w, 500, None)
  /\ UNCHANGED <<bookVars, seen>>

----------------------------------------------------------------------------
(* delete_entry: a DELETE that matches no row is a warning, and the commit succeeds. *)

\* When the acknowledgement of its COMMIT is lost, the caller is told 500.
Delete(w) ==
  /\ pc[w] = "remove"
  /\ \E status \in {204, 500} : Answer(w, status, None)
  /\ Store(entry[w], None)
  /\ UNCHANGED <<spent, clock>>

----------------------------------------------------------------------------
(* A statement fails on a severed connection, or the process serving the request is *)
(* killed: the open transaction is rolled back and what was committed stays.        *)

Fail(w) ==
  /\ Serving(w)
  /\ Answer(w, 500, None)
  /\ UNCHANGED <<bookVars, seen>>

Handle(w) ==
  \/ Get(w)
  \/ Now(w)
  \/ Insert(w)
  \/ Refresh(w)
  \/ RefuseEmptyPatch(w)
  \/ Load(w)
  \/ SkipUpdate(w)
  \/ Update(w)
  \/ UpdateNothing(w)
  \/ Delete(w)

Advance == Tick /\ UNCHANGED local

Next ==
  \/ \E w \in Worker : (\E r \in Requests : Call(w, r)) \/ Handle(w) \/ Fail(w)
  \/ Advance

Spec == Init /\ [][Next]_vars

\* A worker does not stop in the middle of a handler: no statement waits for a lock a
\* second statement could be holding, since each transaction takes one row lock at most.
FairSpec == Spec /\ \A w \in Worker : WF_vars(Handle(w))

----------------------------------------------------------------------------
(* Properties *)

\* Every variable has its type; in particular a 200 or 201 carries a row and every
\* refusal carries none, although Refresh reads a row that others may have deleted.
TypeOK ==
  /\ BookTypeOK
  /\ pc     \in [Worker -> {"idle", "answered"} \cup Handling]
  /\ req    \in [Worker -> Request \cup {None}]
  /\ entry  \in [Worker -> Id \cup {None}]
  /\ loaded \in [Worker -> Row \cup {None}]
  /\ stamp  \in [Worker -> 0..clock]
  /\ reply  \in [Worker -> Reply \cup {None}]
  /\ seen   \in [Worker -> SUBSET (Row \cup {None})]

Status(w) == IF pc[w] = "answered" THEN reply[w].status ELSE 0

\* Whatever the other requests commit between the statements of a handler, its answer
\* was true of the table at some moment between the request and the answer: the row in
\* a 200 or 201 was the row, a 404 was sent about an entry that was not there, and a 204
\* about one that had been there and was gone (get_entry, create_entry, update_entry,
\* delete_entry).
AnswersAreWitnessed ==
  \A w \in Worker :
    /\ Status(w) \in {200, 201} => reply[w].body \in seen[w]
    /\ Status(w) = 404 => None \in seen[w]
    /\ Status(w) = 204 => None \in seen[w] /\ seen[w] \cap Row # {}

\* An entry somebody was told is deleted never comes back, although an amendment of it
\* may have loaded the row before the delete and flush it afterwards (BR-03).
DeletedIsGone ==
  \A w \in Worker : Status(w) = 204 => ~Present(entry[w])

\* A PATCH leaves a field it does not set as the table has it when it commits, and not
\* as its handler read it: an amendment of the other field that committed between the
\* load and the flush survives (update_entry, "a field left unset is left alone").
UnsetFieldIsLeftAlone ==
  [][\A w \in Worker :
       pc[w] = "update" /\ Present(entry[w]) /\ pc'[w] = "refresh" =>
         /\ req[w].author = None => rows'[entry[w]].author = rows[entry[w]].author
         /\ req[w].message = None => rows'[entry[w]].message = rows[entry[w]].message]_vars

\* Every request is answered, whatever the others do to its entry meanwhile: no handler
\* waits for a row to come back or loops over one that keeps changing.
EveryCallIsAnswered == \A w \in Worker : Serving(w) ~> pc[w] = "answered"

\* No two requests are told that they deleted the same entry: the docstring of
\* delete_entry says a second delete refuses rather than report a success for something
\* it did not do.  Two deletes that both load the row before either commits break it.
SecondDeleteRefused ==
  \A v, w \in Worker :
    v # w /\ Status(v) = 204 /\ Status(w) = 204 => entry[v] # entry[w]

\* A PATCH answered 200 has, at some moment, stood in the table with every field it gave
\* (update_entry: "apply the fields the caller gave").  A field equal to the loaded value
\* is not written, so an amendment by another request in between is left in its place.
PatchStoresWhatItWasGiven ==
  \A w \in Worker :
    Status(w) = 200 /\ req[w].op = "patch" =>
      \E row \in seen[w] \cap Row :
        /\ req[w].author \in {None, row.author}
        /\ req[w].message \in {None, row.message}

=============================================================================
