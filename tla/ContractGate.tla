----------------------------- MODULE ContractGate -----------------------------
(***************************************************************************)
(* The hand-written HTTP contract and the three places that read it: the   *)
(* gate before a merge (scripts/contracts.sh: dump_openapi.py, then        *)
(* openapi_contract.py), the smoke after a deployment, and the smoke after *)
(* a rollback (deploy.sh, smoke_contract.py).                              *)
(*                                                                         *)
(* The contract and the dump are two documents of one shape.  A route is a *)
(* path with a method; of an operation the model keeps its successful      *)
(* answer, its request body and one parameter, of a schema its fields and  *)
(* the type it gives itself.                                               *)
(***************************************************************************)
EXTENDS Naturals, FiniteSets

CONSTANTS
  Routes, Reads,     \* the operations, and those of them that are a GET
  PathOf, PrefixOf,  \* route -> path, path -> its first two segments
  Schemas, Fields,
  Kinds,             \* the types a schema may give itself, "object" among them
  Refusals,          \* the stable refusal codes
  Began,             \* the contract and the application at the start
  MaxEdits,          \* bound on the edits of a behaviour
  Unsaid             \* not there, or not said

VARIABLES
  contract, app,     \* the two documents on the branch
  edits,             \* made so far
  trunk,             \* the two documents on main
  live, before       \* what the alias serves and what it served before: the application,
                     \* and the contract it was merged with

gateVars == <<contract, app, edits, trunk, live, before>>

-----------------------------------------------------------------------------
(* Documents.                                                              *)

\* owed: under `required` and not under `properties`.
Presence == {"absent", "optional", "required", "owed"}
\* A schema without a type of its own may be a union, or anything.
Schema == [field : [Fields -> Presence], kind : Kinds \cup {Unsaid}]
Blank == [field |-> [f \in Fields |-> "absent"], kind |-> Unsaid]

\* What an answer or a body may be: a schema by its name, JSON of a schema written in place,
\* or something that is not JSON.
Content == Schemas \cup {"inline", "no JSON"}
\* A parameter of the path is required.
Parameter == {p \in [where : {"path", "query"}, required : BOOLEAN, of : Schemas \cup {Unsaid}] :
                p.where = "path" => p.required}
\* inline: the schema the answer writes in place.
Operation == {op \in [answer : Content \cup {Unsaid}, inline : Schema,
                      body : Content \cup {Unsaid}, param : Parameter \cup {Unsaid}] :
                op.answer # "inline" => op.inline = Blank}

Document == [ops : [Routes -> Operation \cup {Unsaid}], schemas : [Schemas -> Schema \cup {Unsaid}],
             refusals : SUBSET Refusals, readable : BOOLEAN]

Served(doc) == {r \in Routes : doc.ops[r] # Unsaid}
Paths(doc) == {PathOf[r] : r \in Served(doc)}
Defined(doc) == {s \in Schemas : doc.schemas[s] # Unsaid}
Listed(schema) == {f \in Fields : schema.field[f] \in {"optional", "required"}}
Required(schema) == {f \in Fields : schema.field[f] \in {"required", "owed"}}

ASSUME ContractAssumption ==
  /\ Reads \subseteq Routes
  /\ "object" \in Kinds
  /\ Unsaid \notin Schemas \cup Kinds \cup {"inline", "no JSON", "path", "query"}
  /\ {"inline", "no JSON"} \cap Schemas = {}
  /\ Began \in [contract : Document, app : Document]
  /\ MaxEdits \in Nat

-----------------------------------------------------------------------------
(* openapi_contract.py: the findings.                                      *)

When(holds, finding) == IF holds THEN {finding} ELSE {}

CompareParameterSchema(r, said, found) ==
  When(said.of # Unsaid /\ said.of # found.of, <<"points at", r>>)

\* Mutant: what a parameter's schema says is parsed and never read.
CompareParameterByName(r, said, found) ==
  When(said.where # found.where, <<"in", r>>)
    \cup When(said.required # found.required, <<"required", r>>)

CompareParameter(r, said, found) ==
  When(said.where # found.where, <<"in", r>>)
    \cup When(said.required # found.required, <<"required", r>>)
    \cup CompareParameterSchema(r, said, found)

\* Mutant: of a response the status is compared and the schema is not.
CompareStatusAlone(r, said, found) ==
  When(said.answer # Unsaid /\ found.answer = Unsaid, <<"no response", r>>)

\* A response without the name of a schema freezes its status alone, and of a request
\* body nothing is read.
CompareOperation(r, said, found) ==
  (IF said.answer # Unsaid /\ found.answer = Unsaid THEN {<<"no response", r>>}
   ELSE When(said.answer \in Schemas /\ said.answer # found.answer, <<"answers with", r>>))
  \cup
  (IF said.param = Unsaid THEN {}
   ELSE IF found.param = Unsaid THEN {<<"no parameter", r>>}
   ELSE CompareParameter(r, said.param, found.param))

CompareField(s, f, said, found) ==
  IF f \notin Listed(found) THEN {<<"no field", s, f>>}
  ELSE When((f \in Required(said)) # (f \in Required(found)), <<"required", s, f>>)

\* Mutant: a schema without fields is compared with nothing.
CompareFieldsAlone(s, said, found) ==
  UNION {CompareField(s, f, said, found) : f \in Listed(said)}

CompareSchema(s, said, found) ==
  When(said.kind # Unsaid /\ said.kind # found.kind, <<"is", s>>)
    \cup UNION {CompareField(s, f, said, found) : f \in Listed(said)}

ComparePath(r, said, found) ==
  IF PathOf[r] \notin Paths(found) THEN {<<"no path", PathOf[r]>>}
  ELSE IF found.ops[r] = Unsaid THEN {<<"no method", r>>}
  ELSE CompareOperation(r, said.ops[r], found.ops[r])

CompareNamed(s, said, found) ==
  IF found.schemas[s] = Unsaid THEN {<<"no schema", s>>}
  ELSE CompareSchema(s, said.schemas[s], found.schemas[s])

CompareContract(said, found) ==
  (UNION {ComparePath(r, said, found) : r \in Served(said)})
    \cup (UNION {CompareNamed(s, said, found) : s \in Defined(said)})
    \cup {<<"no literal", code>> : code \in said.refusals \ found.refusals}

Claimed(said) == {PrefixOf[path] : path \in Paths(said)}

Compare(said, found) ==
  CompareContract(said, found)
    \cup {<<"unclaimed", path>> : path \in {p \in Paths(found) : PrefixOf[p] \notin Claimed(said)}}

\* The exit code; nothing to compare is a gap of its own.
Gate(said, found) ==
  IF said = Unsaid THEN 4
  ELSE IF ~said.readable \/ Compare(said, found) # {} THEN 1 ELSE 0

\* What main holds at the start went through the gate too.
ASSUME BeganAssumption == Gate(Began.contract, Began.app) = 0

-----------------------------------------------------------------------------
(* smoke_contract.py: the questions, and what a deployment answers.        *)

\* Asked without a value made up.
Questions(said) ==
  {r \in Reads \cap Served(said) :
     LET p == said.ops[r].param IN p = Unsaid \/ (p.where = "query" /\ ~p.required)}

Answer(said, r) == said.ops[r].answer

\* A name the document does not define cannot be followed.
Unreadable(said) ==
  \/ ~said.readable
  \/ \E r \in Questions(said) :
       Answer(said, r) \in Schemas /\ said.schemas[Answer(said, r)] = Unsaid

\* _schema: the schema of an answer, followed by its name or read where it is written.
Shaped(doc, r) == Answer(doc, r) = "inline" \/ Answer(doc, r) \in Defined(doc)
Shape(doc, r) ==
  IF Answer(doc, r) = "inline" THEN doc.ops[r].inline ELSE doc.schemas[Answer(doc, r)]

Owes(said, r) == IF Shaped(said, r) THEN Required(Shape(said, r)) ELSE {}

\* What the application puts into a body: every field of its schema, none it has not.
Body(found, r) ==
  IF Shaped(found, r) THEN {f \in Fields : Shape(found, r).field[f] # "absent"} ELSE {}

\* 404 where it is not served, 422 where something is required that was not given; and of
\* what comes back, JSON, an object, and in it every name owed.  An application that does
\* not say that it answers with an object is taken to answer with something else.
Verdict(said, found, r) ==
  /\ found.ops[r] # Unsaid
  /\ found.ops[r].answer # Unsaid
  /\ found.ops[r].param # Unsaid => ~found.ops[r].param.required
  /\ Shaped(found, r) /\ Shape(found, r).kind = "object"
  /\ Owes(said, r) \subseteq Body(found, r)

Smoke(said, found) ==
  /\ said # Unsaid /\ ~Unreadable(said)
  /\ Questions(said) # {}
  /\ \A r \in Questions(said) : Verdict(said, found, r)

-----------------------------------------------------------------------------
(* Branch, trunk, alias.                                                   *)

GateInit ==
  /\ contract = Began.contract /\ app = Began.app
  /\ trunk = Began /\ live = Began /\ before = Began
  /\ edits = 0

Edits == edits < MaxEdits /\ edits' = edits + 1

EditedSchema(schema) ==
  {Unsaid}
    \cup (IF schema = Unsaid THEN {}
          ELSE {[schema EXCEPT !.kind = k] : k \in Kinds \cup {Unsaid}}
                 \cup UNION {{[schema EXCEPT !.field[f] = p] : p \in Presence} : f \in Fields})

\* A parameter is there before its schema is named.
NewParameter(param) == {p \in Parameter : param = Unsaid => p.of = Unsaid}

\* One edit of a document: an operation or a part of it, a schema or a part of it, a code.
EditedOperation(op) ==
  {Unsaid, [answer |-> "no JSON", inline |-> Blank, body |-> Unsaid, param |-> Unsaid]}
    \cup (IF op = Unsaid THEN {}
          ELSE {[op EXCEPT !.answer = a, !.inline = Blank] : a \in Schemas \cup {"no JSON"}}
                 \cup {[op EXCEPT !.answer = "inline", !.inline = schema] :
                         schema \in EditedSchema(op.inline) \ {Unsaid}}
                 \cup {[op EXCEPT !.body = Unsaid]}
                 \cup {[op EXCEPT !.param = p] : p \in NewParameter(op.param) \cup {Unsaid}})

Edited(doc) ==
  (UNION {{[doc EXCEPT !.ops[r] = op] : op \in EditedOperation(doc.ops[r])} : r \in Routes})
    \cup (UNION {{[doc EXCEPT !.schemas[s] = schema] : schema \in EditedSchema(doc.schemas[s])}
                   : s \in Schemas})
    \cup {[doc EXCEPT !.refusals = codes] : codes \in SUBSET Refusals}

\* The application's document is written by Pydantic: a schema with fields is an object, and
\* its `required` names fields of it.
OfPydantic(doc) ==
  \A schema \in {doc.schemas[s] : s \in Defined(doc)} \cup {doc.ops[r].inline : r \in Served(doc)} :
    /\ Required(schema) \subseteq Listed(schema)
    /\ Listed(schema) # {} => schema.kind = "object"

EditApp ==
  /\ Edits
  /\ app' \in {doc \in Edited(app) : OfPydantic(doc)}
  /\ UNCHANGED <<contract, trunk, live, before>>

EditContract ==
  /\ contract # Unsaid /\ Edits
  /\ contract' \in Edited(contract) \cup {[contract EXCEPT !.readable = ~@], Unsaid}
  /\ UNCHANGED <<app, trunk, live, before>>

\* A green gate is a condition of the merge; the next branch starts from what it left.
Merge ==
  /\ Gate(contract, app) = 0
  /\ trunk' = [contract |-> contract, app |-> app]
  /\ UNCHANGED <<contract, app, edits, live, before>>

\* The alias moves to what main holds, and back to what it served before.
Deploy ==
  /\ live # trunk
  /\ live' = trunk /\ before' = live
  /\ UNCHANGED <<contract, app, edits, trunk>>

Rollback ==
  /\ live # before
  /\ live' = before
  /\ UNCHANGED <<contract, app, edits, trunk, before>>

GateNext == EditApp \/ EditContract \/ Merge \/ Deploy \/ Rollback
GateSpec == GateInit /\ [][GateNext]_gateVars

-----------------------------------------------------------------------------
(* Properties.                                                             *)

\* What a document says, one sentence each.
OfOperation(r, op) ==
  {<<"path", PathOf[r]>>, <<"method", r>>}
    \cup When(op.answer # Unsaid, <<"response", r>>)
    \cup When(op.answer \in Schemas, <<"answers with", r, op.answer>>)
    \cup (IF op.param = Unsaid THEN {}
          ELSE {<<"parameter", r>>, <<"in", r, op.param.where>>,
                <<"required", r, op.param.required>>}
                 \cup When(op.param.of # Unsaid, <<"points at", r, op.param.of>>))
OfSchema(s, schema) ==
  {<<"schema", s>>}
    \cup When(schema.kind # Unsaid, <<"is", s, schema.kind>>)
    \cup {<<"field", s, f, f \in Required(schema)>> : f \in Listed(schema)}
OfOperations(doc) == UNION {OfOperation(r, doc.ops[r]) : r \in Served(doc)}
OfSchemas(doc) == UNION {OfSchema(s, doc.schemas[s]) : s \in Defined(doc)}
OfRefusals(doc) == {<<"refuses", code>> : code \in doc.refusals}
Frozen(doc) == OfOperations(doc) \cup OfSchemas(doc) \cup OfRefusals(doc)

\* The sentences the gate does not look at: what is under a request body, what an answer says
\* of itself without the name of a schema, and that a name is in every object of a schema -
\* which the gate reads for the names under `properties` alone.
OfBodies(doc) ==
  {<<"body", r, doc.ops[r].body>> : r \in {q \in Served(doc) : doc.ops[q].body # Unsaid}}
OfInline(r, op) ==
  When(op.answer = "no JSON", <<"answers without JSON", r>>)
    \cup (IF op.answer # "inline" THEN {}
          ELSE {<<"inline", r>>}
                 \cup When(op.inline.kind # Unsaid, <<"inline is", r, op.inline.kind>>)
                 \cup {<<"inline field", r, f, op.inline.field[f]>> :
                         f \in {g \in Fields : op.inline.field[g] # "absent"}})
OfAnswers(doc) == UNION {OfInline(r, doc.ops[r]) : r \in Served(doc)}
Owed(doc) == UNION {{<<"owes", s, f>> : f \in Required(doc.schemas[s])} : s \in Defined(doc)}
Unread(doc) ==
  OfBodies(doc) \cup OfAnswers(doc)
    \cup UNION {{<<"owes", s, f>> : f \in Required(doc.schemas[s]) \ Listed(doc.schemas[s])} :
                 s \in Defined(doc)}
Sentences(doc) == Frozen(doc) \cup OfBodies(doc) \cup OfAnswers(doc) \cup Owed(doc)

\* Both documents stay ones the tools can read, and main and the alias hold pairs of them.
DocumentsOK ==
  /\ contract \in Document \cup {Unsaid} /\ app \in Document
  /\ edits \in 0..MaxEdits
  /\ {trunk, live, before} \subseteq [contract : Document, app : Document]

\* The gate is green exactly where the application says every sentence of the contract but
\* three kinds, and serves nothing beyond what the contract claims: a nested comparison that
\* skips where a level is missing skips nothing else, and whatever the application adds under
\* a claimed prefix costs nothing.  The three kinds are those of Unread, and each may be
\* false of the application on a green gate: a request body, an answer without the name of a
\* schema, and a name under `required` that is not under `properties` (openapi_contract.py,
\* _compare_operation and _compare_schema).
GateMissesOnlyTheUnread ==
  Gate(contract, app) = 0 <=>
    /\ contract # Unsaid /\ contract.readable
    /\ Sentences(contract) \ Unread(contract) \subseteq Sentences(app)
    /\ {PrefixOf[p] : p \in Paths(app)} \subseteq {PrefixOf[p] : p \in Paths(contract)}

\* A contract the smoke can ask and the gate has read: there is a question, and every answer
\* is an object of a schema by its name that owes no name it does not describe.
Askable(said) ==
  /\ Questions(said) # {}
  /\ \A r \in Questions(said) :
       /\ Answer(said, r) \in Defined(said)
       /\ Shape(said, r).kind = "object"
       /\ Required(Shape(said, r)) \subseteq Listed(Shape(said, r))

\* The application requires a parameter the contract does not know of.
DemandsMore(found, said) ==
  \E r \in Questions(said) \cap Served(found) :
    /\ said.ops[r].param = Unsaid
    /\ found.ops[r].param # Unsaid /\ found.ops[r].param.required

\* A red smoke has a cause one can read off the documents: main's contract cannot be asked,
\* or promises what the gate has not read; the deployment demands a parameter the contract
\* does not know of; or an older version is asked, of which the contract has said more since
\* it was merged.  What main holds, asked by its own contract, is green but for the first
\* two (deploy.sh, post_deploy_smoke after a release and after a rollback).
RedSmokeIsExplained ==
  ~Smoke(trunk.contract, live.app) =>
    \/ ~Askable(trunk.contract)
    \/ DemandsMore(live.app, trunk.contract)
    \/ live # trunk /\ ~(Frozen(trunk.contract) \subseteq Frozen(live.contract))

\* contracts/openapi/README.md: "Every sentence the contract states must be true of the
\* dump"; contracts.sh: "0  every sentence of the contract is true of the application".
EverySentenceHolds == Sentences(trunk.contract) \subseteq Sentences(trunk.app)

\* The same, of the names a schema of the contract requires.
EveryNameOwedIsServed == Owed(trunk.contract) \subseteq Owed(trunk.app)

\* smoke_contract.py:149: the verdict is "`None` when the answer honours the contract": so
\* what main holds is green where it says all its contract says, of answers in JSON whose type
\* the contract states, and demands nothing more.
HonouredIsGreen ==
  LET said == trunk.contract IN
  (/\ \A r \in Questions(said) : Shaped(said, r) /\ Shape(said, r).kind # Unsaid
   /\ Sentences(said) \subseteq Sentences(trunk.app)
   /\ ~DemandsMore(trunk.app, said)) =>
    \A r \in Questions(said) : Verdict(said, trunk.app, r)
=============================================================================
