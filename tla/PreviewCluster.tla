--------------------------- MODULE PreviewCluster ---------------------------
(***************************************************************************)
(* The database cluster all previews share, and what the two functions     *)
(* that may run DDL on it do, statement by statement (lambda_handler.py):  *)
(* migrate, which makes a branch's database, lets the API's role into it   *)
(* and upgrades it, and preview_maintenance, which drops it.               *)
(*                                                                         *)
(* The role is one for the whole cluster, a grant is of one database.  An  *)
(* invocation lives on when nobody waits for it any more.                  *)
(***************************************************************************)
EXTENDS Naturals

CONSTANTS
  Branch,      \* the branches, each with a database of its own name
  Invocation,  \* bound: the invocations of migrate that may run at one time
  None         \* no branch, no invocation

ASSUME ClusterAssumption == None \notin Branch \cup Invocation

VARIABLES
  database,  \* branch -> its database on the cluster
  role,      \* the API's role, as committed
  lock,      \* the invocation that has created the role and not committed
  call,      \* invocation -> the run of migrate it is
  visit      \* branch -> a request its API function is serving

cluster == <<database, role, lock, call, visit>>

\* A database: whether there is one, whether the role may connect to it and use its schema,
\* whether tables made from now on are the role's to read, and its tables.
Database == [exists : BOOLEAN, connect : BOOLEAN, defaults : BOOLEAN,
             tables : {"none", "closed", "open"}]
NoDatabase == [exists |-> FALSE, connect |-> FALSE, defaults |-> FALSE, tables |-> "none"]
Empty == [NoDatabase EXCEPT !.exists = TRUE]

MigrateStep == {"idle", "look", "create", "role", "make role", "grant", "upgrade",
                "ok", "error"}
\* A run of migrate: the branch it is for, and where it stands.
Call == [branch : Branch \cup {None}, step : MigrateStep]
Idle == [branch |-> None, step |-> "idle"]

ClusterInit ==
  /\ database = [b \in Branch |-> NoDatabase]
  /\ role = [exists |-> FALSE, rds_iam |-> FALSE]
  /\ lock = None
  /\ call = [i \in Invocation |-> Idle]
  /\ visit = [b \in Branch |-> "none"]

\* The API function's login with a signed token, and a read of a table (iam_auth.py).
Readable(b) ==
  /\ role.rds_iam
  /\ database[b].connect
  /\ database[b].tables = "open"

At(i, step) == call[i].step = step
Goes(i, step) == call' = [call EXCEPT ![i].step = step]
Holds(b) == database[b].exists

-----------------------------------------------------------------------------
(* migrate.                                                                *)

\* _create_database_if_absent: the SELECT on the cluster's own database.
LookForDatabase(i) ==
  /\ At(i, "look")
  /\ Goes(i, IF Holds(call[i].branch) THEN "role" ELSE "create")
  /\ UNCHANGED <<database, role, lock, visit>>

\* CREATE DATABASE, in AUTOCOMMIT; it fails where another invocation has made it since.
CreateDatabase(i) ==
  /\ At(i, "create")
  /\ IF Holds(call[i].branch)
       THEN Goes(i, "error") /\ UNCHANGED database
       ELSE /\ database' = [database EXCEPT ![call[i].branch] = Empty]
            /\ Goes(i, "role")
  /\ UNCHANGED <<role, lock, visit>>

\* _ensure_iam_login connects to the branch's database, begins, and asks for the role.  What
\* it sees is what is committed.
LookForRole(i) ==
  /\ At(i, "role")
  /\ Goes(i, IF ~Holds(call[i].branch) THEN "error"
             ELSE IF role.exists THEN "grant" ELSE "make role")
  /\ UNCHANGED <<database, role, lock, visit>>

\* CREATE ROLE waits for a transaction that has created it and not ended, and fails when
\* that one has committed.
CreateRole(i) ==
  /\ At(i, "make role")
  /\ lock = None
  /\ IF role.exists
       THEN Goes(i, "error") /\ UNCHANGED lock
       ELSE Goes(i, "grant") /\ lock' = i
  /\ UNCHANGED <<database, role, visit>>

\* Mutant: what is granted is granted on the database the function's own URL names.
GrantedElsewhere(d) == d

\* What the five grants make of a database.
Granted(d) ==
  [d EXCEPT !.connect = TRUE, !.defaults = TRUE,
            !.tables = IF @ = "none" THEN "none" ELSE "open"]

\* The grants, over the engine of the branch's database, and the commit of the transaction.
GrantAndCommit(i) ==
  /\ At(i, "grant")
  /\ database' = [database EXCEPT ![call[i].branch] = Granted(@)]
  /\ role' = [exists |-> TRUE, rds_iam |-> TRUE]
  /\ lock' = IF lock = i THEN None ELSE lock
  /\ Goes(i, "upgrade")
  /\ UNCHANGED visit

\* alembic upgrade head: the tables that are missing, in one transaction, under the default
\* privileges of the database.
Upgraded(d) ==
  [d EXCEPT !.tables = IF @ # "none" THEN @ ELSE IF d.defaults THEN "open" ELSE "closed"]

Upgrade(i) ==
  /\ At(i, "upgrade")
  /\ IF Holds(call[i].branch)
       THEN /\ database' = [database EXCEPT ![call[i].branch] = Upgraded(@)]
            /\ Goes(i, "ok")
       ELSE Goes(i, "error") /\ UNCHANGED database
  /\ UNCHANGED <<role, lock, visit>>

\* Mutant: a transaction that is cut off leaves its lock behind.
StoppedInPlace(runs) ==
  /\ call' = [i \in Invocation |-> IF i \in runs THEN [call[i] EXCEPT !.step = "error"]
                                   ELSE call[i]]
  /\ UNCHANGED lock

\* The runs that stop where they are: their transactions are rolled back.
Stopped(runs) ==
  /\ call' = [i \in Invocation |-> IF i \in runs THEN [call[i] EXCEPT !.step = "error"]
                                   ELSE call[i]]
  /\ lock' = IF lock \in runs THEN None ELSE lock

Running(i) == call[i].step \notin {"idle", "ok", "error"}

\* A statement fails, or the function's 300 seconds are over.
MigrateFails(i) ==
  /\ Running(i)
  /\ Stopped({i})
  /\ UNCHANGED <<database, role, visit>>

-----------------------------------------------------------------------------
(* The API function of a preview: a request that is being served when the   *)
(* function is deleted is served to its end.                                *)

\* A connection is opened with a token signed for it; the pool of the function holds one.
Connect(b) ==
  /\ visit[b] = "in flight"
  /\ visit' = [visit EXCEPT ![b] = IF Readable(b) THEN "connected" ELSE "none"]
  /\ UNCHANGED <<database, role, lock, call>>

Leave(b) ==
  /\ visit[b] # "none"
  /\ visit' = [visit EXCEPT ![b] = "none"]
  /\ UNCHANGED <<database, role, lock, call>>

-----------------------------------------------------------------------------
(* preview_maintenance.                                                    *)

\* The runs of migrate that hold a session in the database of b: their transaction is on it.
SessionsOf(b) ==
  {i \in Invocation : call[i].branch = b /\ call[i].step \in {"make role", "grant"}}

\* pg_terminate_backend for every session of the database.
TerminateSessions(b) ==
  /\ Stopped(SessionsOf(b))
  /\ visit' = IF visit[b] = "connected" THEN [visit EXCEPT ![b] = "none"] ELSE visit
  /\ UNCHANGED <<database, role>>

\* Mutant: the databases are taken for those whose name begins with `preview_`.
DropEveryDatabase(b) ==
  /\ database' = [c \in Branch |-> IF SessionsOf(c) = {} /\ visit[c] # "connected"
                                   THEN NoDatabase ELSE database[c]]
  /\ UNCHANGED <<role, lock, call, visit>>

\* DROP DATABASE IF EXISTS: refused while a session is attached, and then nothing is gone.
CanDrop(b) == SessionsOf(b) = {} /\ visit[b] # "connected"
DropDatabase(b) ==
  /\ database' = IF CanDrop(b) THEN [database EXCEPT ![b] = NoDatabase] ELSE database
  /\ UNCHANGED <<role, lock, call, visit>>

MigrateStepOf(i) ==
  \/ LookForDatabase(i) \/ CreateDatabase(i) \/ LookForRole(i) \/ CreateRole(i)
  \/ GrantAndCommit(i) \/ Upgrade(i)
=============================================================================
