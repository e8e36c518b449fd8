---------------------------- MODULE Previews_proofs ----------------------------
(***************************************************************************)
(* Proofs about Previews, for any number of branches, of runs of migrate   *)
(* at one time, of events and of mishaps.  The invariant has three parts:  *)
(* what the cluster's transactions hold (ClusterInv), where a job stands   *)
(* (JobInv), and what a database is good for by the time each step of a    *)
(* job is reached (ReadInv).                                               *)
(***************************************************************************)
EXTENDS Previews, TLAPS

\* A run is of a branch; one that has a session in a database finds it there; one that
\* grants has the role, committed or its own; and who may connect may log in.
ClusterInv ==
  /\ LockIsHeld
  /\ \A i \in Invocation :
       /\ call[i].step # "idle" => call[i].branch \in Branch
       /\ call[i].step \in {"make role", "grant"} => database[call[i].branch].exists
       /\ call[i].step = "grant" => role.exists \/ lock = i
  /\ \A b \in Branch : database[b].connect => database[b].exists /\ role.rds_iam

\* The steps of a job are those of its run, and the run of migrate it waits for is its own.
JobOf(b) ==
  /\ running[b] = None => step[b] = "idle"
  /\ step[b] \in {"migrating", "smoke"} => running[b] = "up" /\ stack[b]
  /\ step[b] \in {"terminate", "drop"} => running[b] = "down" /\ ~stack[b]
  /\ step[b] = "migrating" => awaits[b] \in Invocation
  /\ awaits[b] # None => step[b] = "migrating" /\ call[awaits[b]].branch = b
JobInv == \A b \in Branch : JobOf(b)

\* The grants of the run a job waits for, then the tables, then the preview.
Let(b) == database[b].connect /\ database[b].defaults /\ database[b].tables # "closed"
ReadOf(b) ==
  /\ step[b] = "migrating" =>
       /\ call[awaits[b]].step \in {"upgrade", "ok"} => Let(b)
       /\ call[awaits[b]].step = "ok" => Readable(b)
  /\ step[b] = "smoke" => Readable(b)
  /\ report[b] = "raised" /\ running[b] # "down" => stack[b] /\ Readable(b)
ReadInv == \A b \in Branch : ReadOf(b)

IInv == TypeOK /\ ClusterInv /\ JobInv /\ ReadInv

-----------------------------------------------------------------------------
(* Types.                                                                  *)

LEMMA DatabaseTypes ==
  /\ NoDatabase \in Database /\ Empty \in Database
  /\ \A d \in Database : Granted(d) \in Database /\ Upgraded(d) \in Database
  BY DEF NoDatabase, Empty, Database, Granted, Upgraded

LEMMA CallTypes ==
  /\ Idle \in Call
  /\ \A b \in Branch : [branch |-> b, step |-> "look"] \in Call
  /\ \A c \in Call, s \in MigrateStep : [c EXCEPT !.step = s] \in Call
  BY DEF Idle, Call, MigrateStep

LEMMA InitTypeOK == Init => TypeOK
  BY DatabaseTypes, CallTypes DEF Init, ClusterInit, TypeOK, Run, Step, Report

LEMMA GoesType ==
  ASSUME TypeOK, NEW i \in Invocation, NEW s \in MigrateStep, Goes(i, s)
  PROVE  call' \in [Invocation -> Call]
  BY CallTypes DEF Goes, TypeOK

LEMMA StoppedType ==
  ASSUME TypeOK, NEW runs \in SUBSET Invocation, Stopped(runs)
  PROVE  call' \in [Invocation -> Call] /\ lock' \in Invocation \cup {None}
<1>1. "error" \in MigrateStep BY DEF MigrateStep
<1>2. \A i \in Invocation : call[i] \in Call /\ [call[i] EXCEPT !.step = "error"] \in Call
  BY <1>1, CallTypes DEF TypeOK
<1>3. call' \in [Invocation -> Call]
  <2>1. \A i \in Invocation : (IF i \in runs THEN [call[i] EXCEPT !.step = "error"] ELSE call[i])
                               \in Call
    BY <1>2
  <2>. QED BY <2>1 DEF Stopped
<1>4. lock' \in Invocation \cup {None} BY DEF Stopped, TypeOK
<1>. QED BY <1>3, <1>4

LEMMA QueuedType ==
  ASSUME TypeOK, NEW b \in Branch, NEW run \in Run, Queued(b, run)
  PROVE  /\ running' \in [Branch -> Run \cup {None}]
         /\ waiting' \in [Branch -> Run \cup {None}]
         /\ step' \in [Branch -> Step]
         /\ stranded' \in [Branch -> BOOLEAN]
<1>0. /\ running \in [Branch -> Run \cup {None}] /\ waiting \in [Branch -> Run \cup {None}]
      /\ step \in [Branch -> Step] /\ stranded \in [Branch -> BOOLEAN]
  BY DEF TypeOK
<1>1. CASE running[b] = None
  <2>1. /\ running' = [running EXCEPT ![b] = run] /\ step' = [step EXCEPT ![b] = "start"]
        /\ waiting' = waiting /\ stranded' = stranded
    BY <1>1 DEF Queued
  <2>. QED BY <1>0, <2>1 DEF Step
<1>2. CASE running[b] # None
  <2>1. /\ running' = running /\ step' = step
        /\ waiting' = [waiting EXCEPT ![b] = run]
    BY <1>2 DEF Queued
  <2>2. PICK lost \in BOOLEAN : stranded' = [stranded EXCEPT ![b] = lost]
    <3>1. (stranded[b] \/ (waiting[b] = "down" /\ run = "skipped")) \in BOOLEAN
      OBVIOUS
    <3>. QED BY <1>2, <3>1, Zenon DEF Queued
  <2>. QED BY <1>0, <2>1, <2>2
<1>. QED BY <1>1, <1>2

LEMMA EndsType ==
  ASSUME TypeOK, NEW b \in Branch, NEW said \in Report, Ends(b, said)
  PROVE  /\ running' \in [Branch -> Run \cup {None}]
         /\ waiting' \in [Branch -> Run \cup {None}]
         /\ step' \in [Branch -> Step]
         /\ awaits' \in [Branch -> Invocation \cup {None}]
         /\ report' \in [Branch -> Report]
  BY DEF Ends, TypeOK, Step

LEMMA MigrateTypeOK ==
  ASSUME TypeOK, NEW i \in Invocation, MigrateStepOf(i), UNCHANGED workflow
  PROVE  TypeOK'
<1>. USE DEF MigrateStep
<1>0. UNCHANGED <<branch, request, running, waiting, step, awaits, stack, report, stranded,
                  events, mishaps>>
  BY DEF workflow
<1>1. CASE LookForDatabase(i)
  <2>1. call' \in [Invocation -> Call] BY <1>1, GoesType DEF LookForDatabase
  <2>. QED BY <1>0, <1>1, <2>1 DEF LookForDatabase, TypeOK
<1>2. CASE CreateDatabase(i)
  <2>1. call' \in [Invocation -> Call] BY <1>2, GoesType DEF CreateDatabase
  <2>2. database' \in [Branch -> Database] BY <1>2, DatabaseTypes DEF CreateDatabase, TypeOK
  <2>. QED BY <1>0, <1>2, <2>1, <2>2 DEF CreateDatabase, TypeOK
<1>3. CASE LookForRole(i)
  <2>1. call' \in [Invocation -> Call]
    <3>1. (IF ~Holds(call[i].branch) THEN "error"
           ELSE IF role.exists THEN "grant" ELSE "make role") \in MigrateStep
      OBVIOUS
    <3>. QED BY <1>3, <3>1, GoesType DEF LookForRole
  <2>. QED BY <1>0, <1>3, <2>1 DEF LookForRole, TypeOK
<1>4. CASE CreateRole(i)
  <2>1. call' \in [Invocation -> Call] BY <1>4, GoesType DEF CreateRole
  <2>. QED BY <1>0, <1>4, <2>1 DEF CreateRole, TypeOK
<1>5. CASE GrantAndCommit(i)
  <2>1. call' \in [Invocation -> Call] BY <1>5, GoesType DEF GrantAndCommit
  <2>2. database' \in [Branch -> Database] BY <1>5, DatabaseTypes DEF GrantAndCommit, TypeOK
  <2>. QED BY <1>0, <1>5, <2>1, <2>2 DEF GrantAndCommit, TypeOK
<1>6. CASE Upgrade(i)
  <2>1. call' \in [Invocation -> Call] BY <1>6, GoesType DEF Upgrade
  <2>2. database' \in [Branch -> Database]
    <3>1. CASE database' = [database EXCEPT ![call[i].branch] = Upgraded(@)]
      BY <3>1, DatabaseTypes DEF TypeOK
    <3>2. CASE database' = database BY <3>2 DEF TypeOK
    <3>. QED BY <1>6, <3>1, <3>2 DEF Upgrade
  <2>. QED BY <1>0, <1>6, <2>1, <2>2 DEF Upgrade, TypeOK
<1>. QED BY <1>1, <1>2, <1>3, <1>4, <1>5, <1>6 DEF MigrateStepOf

LEMMA JobTypeOK ==
  ASSUME TypeOK, NEW b \in Branch, JobStep(b)
  PROVE  TypeOK'
<1>1. CASE Skip(b)
  <2>1. report[b] \in Report BY DEF TypeOK
  <2>. QED BY <1>1, <2>1, EndsType DEF Skip, TypeOK, cluster, counts
<1>2. CASE Apply(b)
  <2>1. PICK i \in Invocation : /\ call' = [call EXCEPT ![i] = [branch |-> b, step |-> "look"]]
                                /\ awaits' = [awaits EXCEPT ![b] = i]
    BY <1>2 DEF Apply
  <2>2. call' \in [Invocation -> Call] /\ awaits' \in [Branch -> Invocation \cup {None}]
    BY <2>1, CallTypes DEF TypeOK
  <2>3. step' \in [Branch -> Step] /\ stack' \in [Branch -> BOOLEAN]
    BY <1>2 DEF Apply, JobGoes, TypeOK, Step
  <2>. QED BY <1>2, <2>2, <2>3 DEF Apply, TypeOK, counts
<1>3. CASE Migrated(b)
  <2>1. call' \in [Invocation -> Call] BY <1>3, CallTypes DEF Migrated, TypeOK
  <2>2. /\ running' \in [Branch -> Run \cup {None}] /\ waiting' \in [Branch -> Run \cup {None}]
        /\ step' \in [Branch -> Step] /\ report' \in [Branch -> Report]
    <3>1. CASE At(awaits[b], "ok")
      BY <1>3, <3>1 DEF Migrated, ReadAnswer, JobGoes, TypeOK, Step
    <3>2. CASE ~At(awaits[b], "ok")
      <4>1. /\ running' = [running EXCEPT ![b] = waiting[b]]
            /\ waiting' = [waiting EXCEPT ![b] = None]
            /\ step' = [step EXCEPT ![b] = IF waiting[b] = None THEN "idle" ELSE "start"]
            /\ report' = [report EXCEPT ![b] = "failed"]
        BY <1>3, <3>2 DEF Migrated, ReadAnswer, JobGoes
      <4>. QED BY <4>1 DEF TypeOK, Step, Report
    <3>. QED BY <3>1, <3>2
  <2>. QED BY <1>3, <2>1, <2>2 DEF Migrated, TypeOK, counts
<1>4. CASE Smoke(b)
  <2>1. "raised" \in Report BY DEF Report
  <2>. QED BY <1>4, <2>1, EndsType DEF Smoke, TypeOK, cluster, counts
<1>5. CASE Destroy(b)
  BY <1>5 DEF Destroy, JobGoes, TypeOK, Step, cluster, counts
<1>6. CASE Terminate(b)
  <2>1. SessionsOf(b) \in SUBSET Invocation BY DEF SessionsOf
  <2>2. call' \in [Invocation -> Call] /\ lock' \in Invocation \cup {None}
    BY <1>6, <2>1, StoppedType DEF Terminate, TerminateSessions
  <2>. QED BY <1>6, <2>2 DEF Terminate, TerminateSessions, JobGoes, TypeOK, Step, counts
<1>7. CASE Drop(b)
  <2>1. DropSays(b) \in Report BY DEF DropSays, Report
  <2>2. database' \in [Branch -> Database]
    BY <1>7, DatabaseTypes DEF Drop, DropDatabase, TypeOK
  <2>. QED BY <1>7, <2>1, <2>2, EndsType DEF Drop, DropDatabase, TypeOK, counts
<1>. QED BY <1>1, <1>2, <1>3, <1>4, <1>5, <1>6, <1>7 DEF JobStep

LEMMA StepTypeOK == TypeOK /\ [Next]_vars => TypeOK'
<1>. SUFFICES ASSUME TypeOK, [Next]_vars PROVE TypeOK'
  OBVIOUS
<1>. DEFINE QueuedTypes == /\ running' \in [Branch -> Run \cup {None}]
                           /\ waiting' \in [Branch -> Run \cup {None}]
                           /\ step' \in [Branch -> Step]
                           /\ stranded' \in [Branch -> BOOLEAN]
<1>a. events \in Nat /\ mishaps \in Nat BY DEF TypeOK
<1>b. events' = events + 1 => events' \in Nat BY <1>a
<1>c. mishaps' = mishaps + 1 => mishaps' \in Nat BY <1>a
<1>0. (events' = events + 1 => events' \in Nat) /\ (mishaps' = mishaps + 1 => mishaps' \in Nat)
  BY <1>b, <1>c
<1>1. ASSUME NEW b \in Branch, Dispatch(b) PROVE TypeOK'
  <2>1. Queued(b, "up") /\ events' \in Nat
    BY <1>1, <1>0 DEF Dispatch, Happens
  <2>2. QueuedTypes BY <2>1, QueuedType DEF Run
  <2>. QED BY <1>1, <2>1, <2>2 DEF Dispatch, TypeOK, cluster
<1>2. ASSUME NEW b \in Branch, CloseRequest(b) PROVE TypeOK'
  <2>1. Queued(b, "down") /\ events' \in Nat
    BY <1>2, <1>0 DEF CloseRequest, Happens
  <2>2. QueuedTypes BY <2>1, QueuedType DEF Run
  <2>. QED BY <1>2, <2>1, <2>2 DEF CloseRequest, TypeOK, cluster
<1>3. ASSUME NEW b \in Branch, DeleteBranch(b) PROVE TypeOK'
  <2>1. Queued(b, "down") /\ events' \in Nat
    BY <1>3, <1>0 DEF DeleteBranch, Happens
  <2>2. QueuedTypes BY <2>1, QueuedType DEF Run
  <2>. QED BY <1>3, <2>1, <2>2 DEF DeleteBranch, TypeOK, cluster
<1>4. ASSUME NEW b \in Branch, Lookalike(b) PROVE TypeOK'
  <2>1. Queued(b, "skipped") /\ events' \in Nat
    BY <1>4, <1>0 DEF Lookalike, Happens
  <2>2. QueuedTypes BY <2>1, QueuedType DEF Run
  <2>. QED BY <1>4, <2>1, <2>2 DEF Lookalike, TypeOK, cluster
<1>5. ASSUME NEW b \in Branch, JobStep(b) PROVE TypeOK'
  BY <1>5, JobTypeOK
<1>6. ASSUME NEW b \in Branch, JobFails(b) PROVE TypeOK'
  <2>1. "failed" \in Report BY DEF Report
  <2>2. stack' \in [Branch -> BOOLEAN] BY <1>6 DEF JobFails, TypeOK
  <2>3. /\ Ends(b, "failed") /\ mishaps' \in Nat
        /\ UNCHANGED <<cluster, branch, request, stranded, events>>
    BY <1>6, <1>0 DEF JobFails
  <2>4. /\ running' \in [Branch -> Run \cup {None}] /\ waiting' \in [Branch -> Run \cup {None}]
        /\ step' \in [Branch -> Step] /\ awaits' \in [Branch -> Invocation \cup {None}]
        /\ report' \in [Branch -> Report]
    BY <2>1, <2>3, EndsType
  <2>. QED BY <2>2, <2>3, <2>4 DEF TypeOK, cluster
<1>7. ASSUME NEW b \in Branch, Visit(b) \/ (Connect(b) /\ UNCHANGED workflow)
                                 \/ (Leave(b) /\ UNCHANGED workflow)
      PROVE  TypeOK'
  BY <1>7 DEF Visit, Connect, Leave, workflow, TypeOK
<1>8. ASSUME NEW i \in Invocation, MigrateStepOf(i), UNCHANGED workflow PROVE TypeOK'
  BY <1>8, MigrateTypeOK
<1>9. ASSUME NEW i \in Invocation, Forget(i) PROVE TypeOK'
  BY <1>9, CallTypes DEF Forget, workflow, TypeOK
<1>10. ASSUME NEW i \in Invocation, CallFails(i) PROVE TypeOK'
  <2>1. call' \in [Invocation -> Call] /\ lock' \in Invocation \cup {None}
    BY <1>10, StoppedType DEF CallFails, MigrateFails
  <2>2. mishaps' \in Nat BY <1>10, <1>0 DEF CallFails
  <2>. QED BY <1>10, <2>1, <2>2 DEF CallFails, MigrateFails, job, TypeOK
<1>11. CASE UNCHANGED vars
  BY <1>11 DEF vars, cluster, workflow, TypeOK
<1>. QED BY <1>1, <1>2, <1>3, <1>4, <1>5, <1>6, <1>7, <1>8, <1>9, <1>10, <1>11
         DEF Next, CallStep

\* The state keeps its shape, whatever is queued, fails or outlives the job that began it.
THEOREM TypeCorrect == Spec => []TypeOK
<1>. QED BY InitTypeOK, StepTypeOK, PTL DEF Spec

-----------------------------------------------------------------------------
(* What a step leaves alone.                                               *)

\* A run that goes on goes on alone, and for the branch it is for.
LEMMA GoesEffect ==
  ASSUME TypeOK, NEW i \in Invocation, NEW s, Goes(i, s)
  PROVE  /\ call'[i].step = s /\ call'[i].branch = call[i].branch
         /\ \A j \in Invocation : j # i => call'[j] = call[j]
<1>1. call \in [Invocation -> Call] BY DEF TypeOK
<1>2. call[i] \in Call BY <1>1
<1>. QED BY <1>1, <1>2 DEF Goes, Call

LEMMA StoppedEffect ==
  ASSUME TypeOK, NEW runs \in SUBSET Invocation, Stopped(runs)
  PROVE  /\ \A i \in runs : call'[i].step = "error" /\ call'[i].branch = call[i].branch
         /\ \A i \in Invocation : i \notin runs => call'[i] = call[i]
         /\ lock' = IF lock \in runs THEN None ELSE lock
<1>1. call \in [Invocation -> Call] BY DEF TypeOK
<1>2. \A i \in runs : call[i] \in Call BY <1>1
<1>. QED BY <1>2 DEF Stopped, Call

\* What a database is good for stays so.
Kept(b) == (Let(b) => Let(b)') /\ (Readable(b) => Readable(b)')

LEMMA ClusterStays == ASSUME ClusterInv, UNCHANGED <<database, role, lock, call>>
                      PROVE  ClusterInv'
  BY DEF ClusterInv, LockIsHeld

LEMMA KeptWhereUnchanged == ASSUME NEW b, UNCHANGED <<database, role>> PROVE Kept(b)
  BY DEF Kept, Let, Readable

LEMMA JobsStay ==
  ASSUME JobInv, UNCHANGED <<running, step, awaits, stack>>,
         \A b \in Branch : awaits[b] # None => call'[awaits[b]].branch = call[awaits[b]].branch
  PROVE  JobInv'
  BY DEF JobInv, JobOf

LEMMA ReadsStay ==
  ASSUME ReadInv, UNCHANGED <<running, step, awaits, stack, report>>,
         \A b \in Branch : Kept(b),
         \A b \in Branch : step[b] = "migrating" =>
            /\ call'[awaits[b]].step \in {"upgrade", "ok"} => Let(b)'
            /\ call'[awaits[b]].step = "ok" => Readable(b)'
  PROVE  ReadInv'
<1>. SUFFICES ASSUME NEW b \in Branch PROVE ReadOf(b)'
  BY DEF ReadInv
<1>1. ReadOf(b) BY DEF ReadInv
<1>. QED BY <1>1 DEF ReadOf, Kept

\* What a step of the group of b leaves to the others.
Alone(b) ==
  \A c \in Branch : c # b =>
    /\ running'[c] = running[c] /\ step'[c] = step[c] /\ awaits'[c] = awaits[c]
    /\ stack'[c] = stack[c] /\ report'[c] = report[c]
    /\ Kept(c)
    /\ awaits[c] # None => call'[awaits[c]] = call[awaits[c]]

LEMMA OthersStay ==
  ASSUME JobInv, ReadInv, ClusterAssumption,
         NEW b \in Branch, Alone(b), JobOf(b)', ReadOf(b)'
  PROVE  JobInv' /\ ReadInv'
<1>1. ASSUME NEW c \in Branch, c # b PROVE JobOf(c)' /\ ReadOf(c)'
  <2>1. JobOf(c) /\ ReadOf(c) BY DEF JobInv, ReadInv
  <2>2. /\ running'[c] = running[c] /\ step'[c] = step[c] /\ awaits'[c] = awaits[c]
        /\ stack'[c] = stack[c] /\ report'[c] = report[c]
        /\ Kept(c)
        /\ awaits[c] # None => call'[awaits[c]] = call[awaits[c]]
    BY <1>1 DEF Alone
  <2>3. JobOf(c)' BY <2>1, <2>2 DEF JobOf
  <2>4. ReadOf(c)'
    <3>1. CASE step[c] = "migrating"
      <4>1. call'[awaits[c]] = call[awaits[c]]
        BY <2>1, <2>2, <3>1 DEF JobOf, ClusterAssumption
      <4>. QED BY <2>1, <2>2, <3>1, <4>1 DEF ReadOf, Kept
    <3>2. CASE step[c] # "migrating"
      BY <2>1, <2>2, <3>2 DEF ReadOf, Kept
    <3>. QED BY <3>1, <3>2
  <2>. QED BY <2>3, <2>4
<1>. QED BY <1>1 DEF JobInv, ReadInv

-----------------------------------------------------------------------------
(* migrate, statement by statement.                                        *)

\* Each statement of migrate moves its own run to the next one, or ends it.
LEMMA MigrateMoves ==
  ASSUME TypeOK, NEW i \in Invocation, MigrateStepOf(i)
  PROVE  /\ call'[i].branch = call[i].branch
         /\ \A j \in Invocation : j # i => call'[j] = call[j]
         /\ LookForDatabase(i) => call'[i].step \in {"role", "create"}
         /\ CreateDatabase(i) => call'[i].step \in {"role", "error"}
         /\ LookForRole(i) => \/ call'[i].step = "error"
                              \/ Holds(call[i].branch) /\ role.exists /\ call'[i].step = "grant"
                              \/ Holds(call[i].branch) /\ call'[i].step = "make role"
         /\ CreateRole(i) => call'[i].step = IF role.exists THEN "error" ELSE "grant"
         /\ GrantAndCommit(i) => call'[i].step = "upgrade"
         /\ Upgrade(i) => call'[i].step = IF Holds(call[i].branch) THEN "ok" ELSE "error"
<1>1. \A s : Goes(i, s) => /\ call'[i].step = s /\ call'[i].branch = call[i].branch
                           /\ \A j \in Invocation : j # i => call'[j] = call[j]
  BY GoesEffect
<1>2. CASE LookForDatabase(i)
  <2>1. LookForDatabase(i) => \E s \in {"role", "create"} : Goes(i, s)
    BY DEF LookForDatabase
  <2>2. At(i, "look") BY <1>2 DEF LookForDatabase
  <2>. QED BY <1>1, <1>2, <2>1, <2>2 DEF At, CreateDatabase, LookForRole, CreateRole,
              GrantAndCommit, Upgrade
<1>3. CASE CreateDatabase(i)
  <2>1. Goes(i, "role") \/ Goes(i, "error") BY <1>3 DEF CreateDatabase
  <2>2. At(i, "create") BY <1>3 DEF CreateDatabase
  <2>. QED BY <1>1, <1>3, <2>1, <2>2 DEF At, LookForDatabase, LookForRole, CreateRole,
              GrantAndCommit, Upgrade
<1>4. CASE LookForRole(i)
  <2>1. \/ Goes(i, "error")
        \/ Holds(call[i].branch) /\ role.exists /\ Goes(i, "grant")
        \/ Holds(call[i].branch) /\ Goes(i, "make role")
    <3>1. CASE ~Holds(call[i].branch) BY <1>4, <3>1 DEF LookForRole
    <3>2. CASE Holds(call[i].branch) /\ role.exists BY <1>4, <3>2 DEF LookForRole
    <3>3. CASE Holds(call[i].branch) /\ ~role.exists BY <1>4, <3>3 DEF LookForRole
    <3>. QED BY <3>1, <3>2, <3>3
  <2>2. At(i, "role") BY <1>4 DEF LookForRole
  <2>. QED BY <1>1, <1>4, <2>1, <2>2 DEF At, LookForDatabase, CreateDatabase, CreateRole,
              GrantAndCommit, Upgrade
<1>5. CASE CreateRole(i)
  <2>1. Goes(i, IF role.exists THEN "error" ELSE "grant") BY <1>5 DEF CreateRole
  <2>2. At(i, "make role") BY <1>5 DEF CreateRole
  <2>. QED BY <1>1, <1>5, <2>1, <2>2 DEF At, LookForDatabase, CreateDatabase, LookForRole,
              GrantAndCommit, Upgrade
<1>6. CASE GrantAndCommit(i)
  <2>1. Goes(i, "upgrade") /\ At(i, "grant") BY <1>6 DEF GrantAndCommit
  <2>. QED BY <1>1, <1>6, <2>1 DEF At, LookForDatabase, CreateDatabase, LookForRole,
              CreateRole, Upgrade
<1>7. CASE Upgrade(i)
  <2>1. Goes(i, IF Holds(call[i].branch) THEN "ok" ELSE "error") BY <1>7 DEF Upgrade
  <2>2. At(i, "upgrade") BY <1>7 DEF Upgrade
  <2>. QED BY <1>1, <1>7, <2>1, <2>2 DEF At, LookForDatabase, CreateDatabase, LookForRole,
              CreateRole, GrantAndCommit
<1>. QED BY <1>2, <1>3, <1>4, <1>5, <1>6, <1>7 DEF MigrateStepOf

LEMMA MigrateKeepsCluster ==
  ASSUME TypeOK, ClusterInv, NEW i \in Invocation, MigrateStepOf(i)
  PROVE  ClusterInv'
<1>. USE ClusterAssumption
<1>0. /\ call \in [Invocation -> Call] /\ database \in [Branch -> Database]
      /\ lock \in Invocation \cup {None} /\ role \in [exists : BOOLEAN, rds_iam : BOOLEAN]
  BY DEF TypeOK
<1>. DEFINE b == call[i].branch
<1>1. CASE LookForDatabase(i)
  <2>1. /\ call[i].step = "look" /\ UNCHANGED <<database, role, lock>>
        /\ call'[i].step \in {"role", "create"} /\ call'[i].branch = b
        /\ \A j \in Invocation : j # i => call'[j] = call[j]
    BY <1>1, MigrateMoves DEF LookForDatabase, At
  <2>. QED BY <1>0, <2>1 DEF ClusterInv, LockIsHeld
<1>2. CASE CreateDatabase(i)
  <2>1. /\ call[i].step = "create" /\ UNCHANGED <<role, lock>>
        /\ call'[i].step \in {"role", "error"} /\ call'[i].branch = b
        /\ \A j \in Invocation : j # i => call'[j] = call[j]
    BY <1>2, MigrateMoves DEF CreateDatabase, At
  <2>2. \/ database' = database
        \/ ~database[b].exists /\ database' = [database EXCEPT ![b] = Empty]
    BY <1>2 DEF CreateDatabase, Holds
  <2>3. b \in Branch BY <2>1 DEF ClusterInv
  <2>4. \A c \in Branch : /\ database[c].exists => database'[c].exists
                          /\ database'[c].connect => database[c].connect
    BY <1>0, <2>2, <2>3 DEF Empty, NoDatabase
  <2>5. \A c \in Branch : database'[c].connect => database'[c].exists /\ role'.rds_iam
    BY <2>1, <2>4 DEF ClusterInv
  <2>6. \A j \in Invocation :
          /\ call'[j].step # "idle" => call'[j].branch \in Branch
          /\ call'[j].step \in {"make role", "grant"} => database'[call'[j].branch].exists
          /\ call'[j].step = "grant" => role'.exists \/ lock' = j
    BY <2>1, <2>3, <2>4 DEF ClusterInv
  <2>7. LockIsHeld' BY <1>0, <2>1 DEF ClusterInv, LockIsHeld
  <2>. QED BY <2>5, <2>6, <2>7 DEF ClusterInv
<1>3. CASE LookForRole(i)
  <2>1. /\ call[i].step = "role" /\ UNCHANGED <<database, role, lock>>
        /\ call'[i].step \in {"error", "grant", "make role"} /\ call'[i].branch = b
        /\ call'[i].step # "error" => database[b].exists
        /\ call'[i].step = "grant" => role.exists
        /\ \A j \in Invocation : j # i => call'[j] = call[j]
    BY <1>3, MigrateMoves DEF LookForRole, At, Holds
  <2>. QED BY <1>0, <2>1 DEF ClusterInv, LockIsHeld
<1>4. CASE CreateRole(i)
  <2>1. /\ call[i].step = "make role" /\ UNCHANGED <<database, role>> /\ lock = None
        /\ call'[i].branch = b
        /\ \/ role.exists /\ call'[i].step = "error" /\ lock' = lock
           \/ ~role.exists /\ call'[i].step = "grant" /\ lock' = i
        /\ \A j \in Invocation : j # i => call'[j] = call[j]
    BY <1>4, MigrateMoves DEF CreateRole, At
  <2>. QED BY <1>0, <2>1 DEF ClusterInv, LockIsHeld
<1>5. CASE GrantAndCommit(i)
  <2>1. /\ call[i].step = "grant" /\ database' = [database EXCEPT ![b] = Granted(@)]
        /\ role' = [exists |-> TRUE, rds_iam |-> TRUE]
        /\ lock' = IF lock = i THEN None ELSE lock
        /\ call'[i].step = "upgrade" /\ call'[i].branch = b
        /\ \A j \in Invocation : j # i => call'[j] = call[j]
    BY <1>5, MigrateMoves DEF GrantAndCommit, At
  <2>2. b \in Branch /\ database[b].exists BY <2>1 DEF ClusterInv
  <2>3. \A c \in Branch : /\ database[c].exists => database'[c].exists
                          /\ c # b => database'[c] = database[c]
    BY <1>0, <2>1, <2>2 DEF Granted, Database
  <2>4. lock' = None
    BY <1>0, <2>1 DEF ClusterInv, LockIsHeld
  <2>5. LockIsHeld' BY <2>4 DEF LockIsHeld
  <2>6. role'.exists /\ role'.rds_iam BY <2>1
  <2>7. database'[b].exists BY <2>2, <2>3
  <2>8. \A c \in Branch : database'[c].connect => database'[c].exists /\ role'.rds_iam
    BY <2>3, <2>6, <2>7 DEF ClusterInv
  <2>9. \A j \in Invocation : call'[j].step # "idle" => call'[j].branch \in Branch
    BY <2>1, <2>2 DEF ClusterInv
  <2>10. \A j \in Invocation :
           call'[j].step \in {"make role", "grant"} => database'[call'[j].branch].exists
    <3>1. SUFFICES ASSUME NEW j \in Invocation, call'[j].step \in {"make role", "grant"}
                   PROVE  database'[call'[j].branch].exists
      OBVIOUS
    <3>2. j # i /\ call'[j] = call[j] BY <2>1, <3>1
    <3>3. call[j].branch \in Branch /\ database[call[j].branch].exists
      BY <3>1, <3>2 DEF ClusterInv
    <3>. QED BY <2>3, <3>2, <3>3
  <2>. QED BY <2>5, <2>6, <2>8, <2>9, <2>10 DEF ClusterInv
<1>6. CASE Upgrade(i)
  <2>1. /\ call[i].step = "upgrade" /\ UNCHANGED <<role, lock>>
        /\ call'[i].step \in {"ok", "error"} /\ call'[i].branch = b
        /\ \A j \in Invocation : j # i => call'[j] = call[j]
    BY <1>6, MigrateMoves DEF Upgrade, At
  <2>2. database' = database \/ database' = [database EXCEPT ![b] = Upgraded(@)]
    BY <1>6 DEF Upgrade
  <2>3. b \in Branch BY <2>1 DEF ClusterInv
  <2>4. \A c \in Branch : /\ database'[c].exists = database[c].exists
                          /\ database'[c].connect = database[c].connect
    BY <1>0, <2>2, <2>3 DEF Upgraded, Database
  <2>5. \A c \in Branch : database'[c].connect => database'[c].exists /\ role'.rds_iam
    BY <2>1, <2>4 DEF ClusterInv
  <2>6. \A j \in Invocation :
          /\ call'[j].step # "idle" => call'[j].branch \in Branch
          /\ call'[j].step \in {"make role", "grant"} => database'[call'[j].branch].exists
          /\ call'[j].step = "grant" => role'.exists \/ lock' = j
    <3>1. SUFFICES ASSUME NEW j \in Invocation, j # i
                   PROVE  /\ call[j].step # "idle" => call[j].branch \in Branch
                          /\ call[j].step \in {"make role", "grant"} =>
                               database'[call[j].branch].exists
                          /\ call[j].step = "grant" => role.exists \/ lock = j
      BY <2>1, <2>3
    <3>. QED BY <2>4 DEF ClusterInv
  <2>7. LockIsHeld' BY <1>0, <2>1 DEF ClusterInv, LockIsHeld
  <2>. QED BY <2>5, <2>6, <2>7 DEF ClusterInv
<1>. QED BY <1>1, <1>2, <1>3, <1>4, <1>5, <1>6 DEF MigrateStepOf

\* No statement of migrate takes from a database, of whatever branch, what it has.
LEMMA MigrateKeeps ==
  ASSUME TypeOK, ClusterInv, NEW i \in Invocation, MigrateStepOf(i)
  PROVE  \A b \in Branch : Kept(b)
<1>. USE ClusterAssumption
<1>0. /\ database \in [Branch -> Database]
      /\ role \in [exists : BOOLEAN, rds_iam : BOOLEAN]
  BY DEF TypeOK
<1>1. CASE LookForDatabase(i) \/ LookForRole(i) \/ CreateRole(i)
  BY <1>1, KeptWhereUnchanged DEF LookForDatabase, LookForRole, CreateRole
<1>2. CASE CreateDatabase(i)
  <2>1. CASE database' = database
    BY <1>2, <2>1, KeptWhereUnchanged DEF CreateDatabase
  <2>2. CASE database' # database
    <3>1. /\ ~database[call[i].branch].exists /\ role' = role
          /\ database' = [database EXCEPT ![call[i].branch] = Empty]
      BY <1>2, <2>2 DEF CreateDatabase, Holds
    <3>. QED BY <1>0, <3>1 DEF Kept, Let, Readable, ClusterInv
  <2>. QED BY <2>1, <2>2
<1>3. CASE GrantAndCommit(i)
  BY <1>0, <1>3 DEF GrantAndCommit, Granted, Database, Kept, Let, Readable
<1>4. CASE Upgrade(i)
  <2>1. CASE database' = database
    BY <1>4, <2>1, KeptWhereUnchanged DEF Upgrade
  <2>2. CASE database' = [database EXCEPT ![call[i].branch] = Upgraded(@)]
    BY <1>0, <1>4, <2>2 DEF Upgrade, Upgraded, Database, Kept, Let, Readable
  <2>. QED BY <1>4, <2>1, <2>2 DEF Upgrade
<1>. QED BY <1>1, <1>2, <1>3, <1>4 DEF MigrateStepOf

\* A run gets to its upgrade over a database the role was let into, and to its end over one
\* that can be read.
LEMMA MigrateReaches ==
  ASSUME IInv, NEW i \in Invocation, MigrateStepOf(i)
  PROVE  \A b \in Branch : step[b] = "migrating" =>
            /\ call'[awaits[b]].step \in {"upgrade", "ok"} => Let(b)'
            /\ call'[awaits[b]].step = "ok" => Readable(b)'
<1>. SUFFICES ASSUME NEW b \in Branch, step[b] = "migrating"
              PROVE  /\ call'[awaits[b]].step \in {"upgrade", "ok"} => Let(b)'
                     /\ call'[awaits[b]].step = "ok" => Readable(b)'
  OBVIOUS
<1>. USE ClusterAssumption
<1>0. /\ database \in [Branch -> Database] /\ awaits[b] \in Invocation
      /\ call[awaits[b]].branch = b
  <2>1. database \in [Branch -> Database] BY DEF IInv, TypeOK
  <2>2. JobOf(b) BY DEF IInv, JobInv
  <2>. QED BY <2>1, <2>2 DEF JobOf
<1>1. Kept(b) BY MigrateKeeps DEF IInv
<1>2. CASE awaits[b] # i \/ call'[i].step \notin {"upgrade", "ok"}
  <2>1. awaits[b] # i => call'[awaits[b]] = call[awaits[b]]
    BY <1>0, MigrateMoves DEF IInv
  <2>. QED BY <1>1, <1>2, <2>1 DEF IInv, ReadInv, ReadOf, Kept
<1>3. CASE awaits[b] = i /\ GrantAndCommit(i)
  <2>1. call'[i].step = "upgrade" BY <1>3, MigrateMoves DEF IInv
  <2>2. Let(b)'
    BY <1>0, <1>3 DEF GrantAndCommit, Granted, Database, Let
  <2>. QED BY <1>3, <2>1, <2>2
<1>4. CASE awaits[b] = i /\ Upgrade(i) /\ call'[i].step \in {"upgrade", "ok"}
  <2>1. /\ call[i].step = "upgrade" /\ role' = role
        /\ database' = [database EXCEPT ![b] = Upgraded(@)]
    BY <1>0, <1>4, MigrateMoves DEF IInv, Upgrade, At, Holds
  <2>2. Let(b) /\ role.rds_iam BY <1>4, <2>1 DEF IInv, ReadInv, ReadOf, ClusterInv, Let
  <2>. QED BY <1>0, <1>4, <2>1, <2>2 DEF Upgraded, Database, Let, Readable
<1>5. ASSUME awaits[b] = i, LookForDatabase(i) \/ CreateDatabase(i) \/ LookForRole(i) \/ CreateRole(i)
      PROVE  call'[i].step \notin {"upgrade", "ok"}
  BY <1>5, MigrateMoves DEF IInv
<1>. QED BY <1>2, <1>3, <1>4, <1>5 DEF MigrateStepOf

LEMMA MigrateIInv ==
  ASSUME IInv, NEW i \in Invocation, MigrateStepOf(i), UNCHANGED workflow
  PROVE  ClusterInv' /\ JobInv' /\ ReadInv'
<1>1. UNCHANGED <<running, step, awaits, stack, report>> BY DEF workflow
<1>2. ClusterInv' BY MigrateKeepsCluster DEF IInv
<1>3. JobInv'
  <2>1. \A b \in Branch : awaits[b] # None => call'[awaits[b]].branch = call[awaits[b]].branch
    <3>1. TypeOK BY DEF IInv
    <3>2. \A b \in Branch : awaits[b] \in Invocation \cup {None} BY <3>1 DEF TypeOK
    <3>3. /\ call'[i].branch = call[i].branch
          /\ \A j \in Invocation : j # i => call'[j] = call[j]
      BY <3>1, MigrateMoves
    <3>. QED BY <3>2, <3>3
  <2>. QED BY <1>1, <2>1, JobsStay DEF IInv
<1>4. ReadInv'
  <2>1. \A b \in Branch : Kept(b) BY MigrateKeeps DEF IInv
  <2>. QED BY <1>1, <2>1, MigrateReaches, ReadsStay DEF IInv
<1>. QED BY <1>2, <1>3, <1>4

-----------------------------------------------------------------------------
(* The group of a branch.                                                  *)

LEMMA QueuedEffect ==
  ASSUME TypeOK, NEW b \in Branch, NEW run \in Run, Queued(b, run)
  PROVE  /\ \A c \in Branch : c # b => running'[c] = running[c] /\ step'[c] = step[c]
         /\ \/ running[b] = None /\ running'[b] = run /\ step'[b] = "start"
            \/ running[b] # None /\ running'[b] = running[b] /\ step'[b] = step[b]
<1>1. running \in [Branch -> Run \cup {None}] /\ step \in [Branch -> Step]
  BY DEF TypeOK
<1>. QED BY <1>1 DEF Queued

LEMMA EndsEffect ==
  ASSUME TypeOK, NEW b \in Branch, NEW said, Ends(b, said)
  PROVE  /\ \A c \in Branch : c # b => /\ running'[c] = running[c] /\ step'[c] = step[c]
                                       /\ awaits'[c] = awaits[c] /\ report'[c] = report[c]
         /\ running'[b] = waiting[b] /\ awaits'[b] = None /\ report'[b] = said
         /\ step'[b] \in {"idle", "start"}
         /\ waiting[b] = None => step'[b] = "idle"
<1>1. /\ running \in [Branch -> Run \cup {None}] /\ step \in [Branch -> Step]
      /\ awaits \in [Branch -> Invocation \cup {None}] /\ report \in [Branch -> Report]
  BY DEF TypeOK
<1>. QED BY <1>1 DEF Ends

\* A run that is queued touches no preview.
LEMMA QueuedKeeps ==
  ASSUME IInv, NEW b \in Branch, NEW run \in Run, Queued(b, run),
         UNCHANGED <<cluster, awaits, stack, report>>
  PROVE  ClusterInv' /\ JobInv' /\ ReadInv'
<1>. USE ClusterAssumption, PreviewAssumption
<1>0. TypeOK /\ ClusterInv /\ JobInv /\ ReadInv BY DEF IInv
<1>1. UNCHANGED <<database, role, lock, call>> BY DEF cluster
<1>2. ClusterInv' BY <1>0, <1>1, ClusterStays
<1>3. \A c \in Branch : Kept(c) BY <1>1, KeptWhereUnchanged
<1>4. /\ \A c \in Branch : c # b => running'[c] = running[c] /\ step'[c] = step[c]
      /\ \/ running[b] = None /\ running'[b] = run /\ step'[b] = "start"
         \/ running[b] # None /\ running'[b] = running[b] /\ step'[b] = step[b]
  BY <1>0, QueuedEffect
<1>5. Alone(b) BY <1>1, <1>3, <1>4 DEF Alone
<1>6. JobOf(b) /\ ReadOf(b) BY <1>0 DEF JobInv, ReadInv
<1>7. run # None BY DEF Run
<1>8. JobOf(b)' BY <1>1, <1>4, <1>6, <1>7 DEF JobOf
<1>9. Kept(b) BY <1>3
<1>10. ReadOf(b)'
  <2>1. CASE running[b] = None
    BY <1>4, <1>6, <1>9, <2>1 DEF ReadOf, Kept
  <2>2. CASE running[b] # None
    BY <1>1, <1>4, <1>6, <1>9, <2>2 DEF ReadOf, Kept
  <2>. QED BY <2>1, <2>2
<1>. QED BY <1>0, <1>2, <1>5, <1>8, <1>10, OthersStay

\* A job that ends as raised ends over a preview that can be read.
LEMMA EndsKeeps ==
  ASSUME TypeOK, JobInv, ReadInv, NEW b \in Branch, NEW said, Ends(b, said),
         said = "raised" => stack'[b] /\ Readable(b)',
         \A c \in Branch : c # b => stack'[c] = stack[c] /\ Kept(c),
         UNCHANGED call
  PROVE  JobInv' /\ ReadInv'
<1>. USE ClusterAssumption
<1>1. /\ \A c \in Branch : c # b => /\ running'[c] = running[c] /\ step'[c] = step[c]
                                    /\ awaits'[c] = awaits[c] /\ report'[c] = report[c]
      /\ running'[b] = waiting[b] /\ awaits'[b] = None /\ report'[b] = said
      /\ step'[b] \in {"idle", "start"}
      /\ waiting[b] = None => step'[b] = "idle"
  BY EndsEffect
<1>2. Alone(b) BY <1>1 DEF Alone
<1>3. JobOf(b)' BY <1>1 DEF JobOf
<1>4. ReadOf(b)' BY <1>1 DEF ReadOf
<1>. QED BY <1>2, <1>3, <1>4, OthersStay

\* Runs of migrate that are stopped give up their lock and leave the databases as they are.
LEMMA StoppedKeepsCluster ==
  ASSUME TypeOK, ClusterInv, NEW runs \in SUBSET Invocation, Stopped(runs),
         \A i \in runs : call[i].step # "idle",
         UNCHANGED <<database, role>>
  PROVE  ClusterInv'
<1>. USE ClusterAssumption
<1>0. lock \in Invocation \cup {None} BY DEF TypeOK
<1>1. /\ \A i \in runs : call'[i].step = "error" /\ call'[i].branch = call[i].branch
      /\ \A i \in Invocation : i \notin runs => call'[i] = call[i]
      /\ lock' = IF lock \in runs THEN None ELSE lock
  BY StoppedEffect
<1>2. LockIsHeld' BY <1>0, <1>1 DEF ClusterInv, LockIsHeld
<1>3. \A i \in Invocation :
        /\ call'[i].step # "idle" => call'[i].branch \in Branch
        /\ call'[i].step \in {"make role", "grant"} => database'[call'[i].branch].exists
        /\ call'[i].step = "grant" => role'.exists \/ lock' = i
  BY <1>1 DEF ClusterInv
<1>. QED BY <1>2, <1>3 DEF ClusterInv

LEMMA ApplyKeeps ==
  ASSUME IInv, NEW b \in Branch, Apply(b)
  PROVE  ClusterInv' /\ JobInv' /\ ReadInv'
<1>. USE ClusterAssumption
<1>0. /\ TypeOK /\ ClusterInv /\ JobInv /\ ReadInv
      /\ JobOf(b) /\ ReadOf(b)
  BY DEF IInv, JobInv, ReadInv
<1>1. PICK i \in Invocation : /\ call[i] = Idle
                              /\ call' = [call EXCEPT ![i] = [branch |-> b, step |-> "look"]]
                              /\ awaits' = [awaits EXCEPT ![b] = i]
  BY DEF Apply
<1>2. /\ call \in [Invocation -> Call] /\ awaits \in [Branch -> Invocation \cup {None}]
      /\ step \in [Branch -> Step] /\ stack \in [Branch -> BOOLEAN]
      /\ lock \in Invocation \cup {None}
  BY <1>0 DEF TypeOK
<1>3. /\ UNCHANGED <<database, role, lock, running, report>>
      /\ running[b] = "up" /\ step' = [step EXCEPT ![b] = "migrating"]
      /\ stack' = [stack EXCEPT ![b] = TRUE]
  BY DEF Apply, JobAt, JobGoes
<1>4. /\ call[i].branch = None /\ call[i].step = "idle"
      /\ call'[i].branch = b /\ call'[i].step = "look"
      /\ \A j \in Invocation : j # i => call'[j] = call[j]
  BY <1>1, <1>2 DEF Idle
<1>5. ClusterInv'
  <2>1. LockIsHeld' BY <1>0, <1>2, <1>3, <1>4 DEF ClusterInv, LockIsHeld
  <2>2. \A j \in Invocation :
          /\ call'[j].step # "idle" => call'[j].branch \in Branch
          /\ call'[j].step \in {"make role", "grant"} => database'[call'[j].branch].exists
          /\ call'[j].step = "grant" => role'.exists \/ lock' = j
    BY <1>0, <1>3, <1>4 DEF ClusterInv
  <2>. QED BY <1>0, <1>3, <2>1, <2>2 DEF ClusterInv
<1>6. \A c \in Branch : Kept(c) BY <1>3, KeptWhereUnchanged
<1>7. Alone(b)
  <2>1. \A c \in Branch : awaits[c] # None => awaits[c] # i
    BY <1>0, <1>4 DEF JobInv, JobOf
  <2>. QED BY <1>1, <1>2, <1>3, <1>4, <1>6, <2>1 DEF Alone
<1>8. /\ running'[b] = "up" /\ step'[b] = "migrating" /\ stack'[b] /\ awaits'[b] = i
      /\ report'[b] = report[b]
  BY <1>1, <1>2, <1>3
<1>9. JobOf(b)' BY <1>4, <1>8, PreviewAssumption DEF JobOf
<1>10. ReadOf(b)'
  <2>1. report[b] = "raised" => Readable(b)' BY <1>0, <1>3, <1>6 DEF ReadOf, Kept
  <2>. QED BY <1>4, <1>8, <2>1 DEF ReadOf
<1>. QED BY <1>0, <1>5, <1>7, <1>9, <1>10, OthersStay

LEMMA MigratedKeeps ==
  ASSUME IInv, NEW b \in Branch, Migrated(b)
  PROVE  ClusterInv' /\ JobInv' /\ ReadInv'
<1>. USE ClusterAssumption
<1>0. /\ TypeOK /\ ClusterInv /\ JobInv /\ ReadInv
      /\ JobOf(b) /\ ReadOf(b)
  BY DEF IInv, JobInv, ReadInv
<1>. DEFINE i == awaits[b]
<1>1. /\ running[b] = "up" /\ step[b] = "migrating" /\ ~Running(i) /\ ReadAnswer(b, i)
      /\ UNCHANGED <<database, role, lock, stack>>
      /\ call' = [call EXCEPT ![i] = Idle] /\ awaits' = [awaits EXCEPT ![b] = None]
  BY DEF Migrated, JobAt
<1>2. i \in Invocation /\ call[i].branch = b /\ stack[b]
  BY <1>0, <1>1 DEF JobOf
<1>3. /\ call \in [Invocation -> Call] /\ awaits \in [Branch -> Invocation \cup {None}]
      /\ step \in [Branch -> Step] /\ running \in [Branch -> Run \cup {None}]
      /\ report \in [Branch -> Report] /\ lock \in Invocation \cup {None}
  BY <1>0 DEF TypeOK
<1>4. /\ call'[i].step = "idle" /\ \A j \in Invocation : j # i => call'[j] = call[j]
  BY <1>1, <1>2, <1>3 DEF Idle
<1>5. ClusterInv'
  <2>1. call[i].step # "grant" BY <1>1 DEF Running
  <2>2. LockIsHeld' BY <1>0, <1>1, <1>3, <1>4, <2>1 DEF ClusterInv, LockIsHeld
  <2>3. \A j \in Invocation :
          /\ call'[j].step # "idle" => call'[j].branch \in Branch
          /\ call'[j].step \in {"make role", "grant"} => database'[call'[j].branch].exists
          /\ call'[j].step = "grant" => role'.exists \/ lock' = j
    BY <1>0, <1>1, <1>4 DEF ClusterInv
  <2>. QED BY <1>0, <1>1, <2>2, <2>3 DEF ClusterInv
<1>6. \A c \in Branch : Kept(c) BY <1>1, KeptWhereUnchanged
<1>7. /\ \A c \in Branch : c # b => /\ running'[c] = running[c] /\ step'[c] = step[c]
                                    /\ awaits'[c] = awaits[c] /\ report'[c] = report[c]
      /\ awaits'[b] = None
      /\ \/ /\ call[i].step = "ok" /\ running'[b] = "up" /\ step'[b] = "smoke"
            /\ report'[b] = report[b]
         \/ /\ running'[b] = waiting[b] /\ report'[b] = "failed"
            /\ step'[b] \in {"idle", "start"} /\ (waiting[b] = None => step'[b] = "idle")
  <2>1. CASE At(i, "ok")
    BY <1>1, <1>3, <2>1 DEF ReadAnswer, JobGoes, At
  <2>2. CASE ~At(i, "ok")
    <3>1. /\ running' = [running EXCEPT ![b] = waiting[b]]
          /\ step' = [step EXCEPT ![b] = IF waiting[b] = None THEN "idle" ELSE "start"]
          /\ report' = [report EXCEPT ![b] = "failed"]
      BY <1>1, <2>2 DEF ReadAnswer, JobGoes
    <3>. QED BY <1>1, <1>3, <3>1
  <2>. QED BY <2>1, <2>2
<1>8. Alone(b)
  <2>1. \A c \in Branch : c # b /\ awaits[c] # None => awaits[c] # i /\ awaits[c] \in Invocation
    BY <1>0, <1>2, <1>3 DEF JobInv, JobOf
  <2>. QED BY <1>1, <1>4, <1>6, <1>7, <2>1 DEF Alone
<1>9. JobOf(b)' BY <1>1, <1>2, <1>7, PreviewAssumption DEF JobOf
<1>10. ReadOf(b)'
  <2>1. Kept(b) BY <1>6
  <2>2. CASE report'[b] = "failed" /\ step'[b] \in {"idle", "start"}
    BY <2>2 DEF ReadOf
  <2>3. CASE call[i].step = "ok" /\ step'[b] = "smoke"
    <3>1. Readable(b)' BY <1>0, <1>1, <2>1, <2>3 DEF ReadOf, Kept
    <3>. QED BY <1>1, <1>2, <2>3, <3>1 DEF ReadOf
  <2>. QED BY <1>7, <2>2, <2>3
<1>. QED BY <1>0, <1>5, <1>8, <1>9, <1>10, OthersStay

LEMMA DestroyKeeps ==
  ASSUME IInv, NEW b \in Branch, Destroy(b)
  PROVE  ClusterInv' /\ JobInv' /\ ReadInv'
<1>. USE ClusterAssumption
<1>0. /\ TypeOK /\ ClusterInv /\ JobInv /\ ReadInv
      /\ JobOf(b) /\ ReadOf(b)
  BY DEF IInv, JobInv, ReadInv
<1>1. /\ step \in [Branch -> Step] /\ stack \in [Branch -> BOOLEAN]
  BY <1>0 DEF TypeOK
<1>2. /\ UNCHANGED <<database, role, lock, call, running, awaits, report>>
      /\ running[b] = "down" /\ step[b] = "start"
      /\ step' = [step EXCEPT ![b] = "terminate"] /\ stack' = [stack EXCEPT ![b] = FALSE]
  BY DEF Destroy, JobAt, JobGoes, cluster
<1>3. ClusterInv' BY <1>0, <1>2, ClusterStays
<1>4. \A c \in Branch : Kept(c) BY <1>2, KeptWhereUnchanged
<1>5. Alone(b) BY <1>1, <1>2, <1>4 DEF Alone
<1>6. running'[b] = "down" /\ step'[b] = "terminate" /\ ~stack'[b] BY <1>1, <1>2
<1>7. JobOf(b)' BY <1>0, <1>2, <1>6, PreviewAssumption DEF JobOf
<1>8. ReadOf(b)' BY <1>6 DEF ReadOf
<1>. QED BY <1>0, <1>3, <1>5, <1>7, <1>8, OthersStay

LEMMA TerminateKeeps ==
  ASSUME IInv, NEW b \in Branch, Terminate(b)
  PROVE  ClusterInv' /\ JobInv' /\ ReadInv'
<1>. USE ClusterAssumption
<1>0. /\ TypeOK /\ ClusterInv /\ JobInv /\ ReadInv
      /\ JobOf(b) /\ ReadOf(b)
  BY DEF IInv, JobInv, ReadInv
<1>1. /\ step \in [Branch -> Step] /\ awaits \in [Branch -> Invocation \cup {None}]
  BY <1>0 DEF TypeOK
<1>2. /\ UNCHANGED <<database, role, running, awaits, stack, report>>
      /\ running[b] = "down" /\ step[b] = "terminate"
      /\ step' = [step EXCEPT ![b] = "drop"]
      /\ Stopped(SessionsOf(b))
  BY DEF Terminate, TerminateSessions, JobAt, JobGoes
<1>3. /\ SessionsOf(b) \in SUBSET Invocation
      /\ \A i \in SessionsOf(b) : call[i].step # "idle" /\ call[i].branch = b
  BY DEF SessionsOf
<1>4. ClusterInv' BY <1>0, <1>2, <1>3, StoppedKeepsCluster
<1>5. \A c \in Branch : Kept(c) BY <1>2, KeptWhereUnchanged
<1>6. \A i \in Invocation : i \notin SessionsOf(b) => call'[i] = call[i]
  BY <1>0, <1>2, <1>3, StoppedEffect
<1>7. Alone(b)
  <2>1. \A c \in Branch : c # b /\ awaits[c] # None =>
          awaits[c] \in Invocation /\ awaits[c] \notin SessionsOf(b)
    BY <1>0, <1>1, <1>3 DEF JobInv, JobOf
  <2>. QED BY <1>1, <1>2, <1>5, <1>6, <2>1 DEF Alone
<1>8. running'[b] = "down" /\ step'[b] = "drop" /\ ~stack'[b] BY <1>0, <1>1, <1>2 DEF JobOf
<1>9. JobOf(b)' BY <1>0, <1>2, <1>8, PreviewAssumption DEF JobOf
<1>10. ReadOf(b)' BY <1>8 DEF ReadOf
<1>. QED BY <1>0, <1>4, <1>7, <1>9, <1>10, OthersStay

LEMMA DropKeeps ==
  ASSUME IInv, NEW b \in Branch, Drop(b)
  PROVE  ClusterInv' /\ JobInv' /\ ReadInv'
<1>. USE ClusterAssumption
<1>0. /\ TypeOK /\ ClusterInv /\ JobInv /\ ReadInv
      /\ database \in [Branch -> Database]
  BY DEF IInv, TypeOK
<1>1. /\ UNCHANGED <<role, lock, call, stack>> /\ Ends(b, DropSays(b))
      /\ database' = IF CanDrop(b) THEN [database EXCEPT ![b] = NoDatabase] ELSE database
  BY DEF Drop, DropDatabase
<1>2. \A c \in Branch : c # b => database'[c] = database[c]
  BY <1>0, <1>1
<1>3. ClusterInv'
  <2>1. CASE database' = database
    BY <1>0, <1>1, <2>1, ClusterStays
  <2>2. CASE CanDrop(b)
    <3>1. ~database'[b].connect BY <1>0, <1>1, <2>2 DEF NoDatabase
    <3>2. \A i \in Invocation : call[i].step \in {"make role", "grant"} => call[i].branch # b
      BY <2>2 DEF CanDrop, SessionsOf
    <3>3. LockIsHeld' BY <1>0, <1>1 DEF ClusterInv, LockIsHeld
    <3>4. \A i \in Invocation :
            /\ call'[i].step # "idle" => call'[i].branch \in Branch
            /\ call'[i].step \in {"make role", "grant"} => database'[call'[i].branch].exists
            /\ call'[i].step = "grant" => role'.exists \/ lock' = i
      BY <1>0, <1>1, <1>2, <3>2 DEF ClusterInv
    <3>5. \A c \in Branch : database'[c].connect => database'[c].exists /\ role'.rds_iam
      BY <1>0, <1>1, <1>2, <3>1 DEF ClusterInv
    <3>. QED BY <3>3, <3>4, <3>5 DEF ClusterInv
  <2>. QED BY <1>1, <2>1, <2>2
<1>4. \A c \in Branch : c # b => Kept(c)
  BY <1>1, <1>2 DEF Kept, Let, Readable
<1>5. DropSays(b) # "raised" BY DEF DropSays
<1>. QED BY <1>0, <1>1, <1>3, <1>4, <1>5, EndsKeeps

LEMMA JobKeeps ==
  ASSUME IInv, NEW b \in Branch, JobStep(b) \/ JobFails(b)
  PROVE  ClusterInv' /\ JobInv' /\ ReadInv'
<1>0. /\ TypeOK /\ ClusterInv /\ JobInv /\ ReadInv
      /\ JobOf(b) /\ ReadOf(b)
      /\ stack \in [Branch -> BOOLEAN]
  BY DEF IInv, JobInv, ReadInv, TypeOK
<1>1. CASE Skip(b)
  <2>1. /\ UNCHANGED <<database, role, lock, call, stack>> /\ Ends(b, report[b])
        /\ running[b] = "skipped"
    BY <1>1 DEF Skip, cluster
  <2>2. \A c \in Branch : Kept(c) BY <2>1, KeptWhereUnchanged
  <2>3. report[b] = "raised" => stack'[b] /\ Readable(b)'
    BY <1>0, <2>1, <2>2 DEF ReadOf, Kept
  <2>. QED BY <1>0, <2>1, <2>2, <2>3, ClusterStays, EndsKeeps
<1>2. CASE Smoke(b)
  <2>1. /\ UNCHANGED <<database, role, lock, call, stack>> /\ Ends(b, "raised")
        /\ step[b] = "smoke"
    BY <1>2 DEF Smoke, JobAt, cluster
  <2>2. \A c \in Branch : Kept(c) BY <2>1, KeptWhereUnchanged
  <2>3. stack'[b] /\ Readable(b)' BY <1>0, <2>1, <2>2 DEF JobOf, ReadOf, Kept
  <2>. QED BY <1>0, <2>1, <2>2, <2>3, ClusterStays, EndsKeeps
<1>3. CASE JobFails(b)
  <2>1. /\ UNCHANGED <<database, role, lock, call>> /\ Ends(b, "failed")
        /\ \A c \in Branch : c # b => stack'[c] = stack[c]
    BY <1>0, <1>3 DEF JobFails, cluster
  <2>2. \A c \in Branch : Kept(c) BY <2>1, KeptWhereUnchanged
  <2>. QED BY <1>0, <2>1, <2>2, ClusterStays, EndsKeeps
<1>. QED BY <1>1, <1>2, <1>3, ApplyKeeps, MigratedKeeps, DestroyKeeps, TerminateKeeps,
            DropKeeps DEF JobStep

LEMMA CallKeeps ==
  ASSUME IInv, NEW i \in Invocation, Forget(i) \/ CallFails(i)
  PROVE  ClusterInv' /\ JobInv' /\ ReadInv'
<1>. USE ClusterAssumption
<1>0. TypeOK /\ ClusterInv /\ JobInv /\ ReadInv BY DEF IInv
<1>1. /\ call \in [Invocation -> Call] /\ awaits \in [Branch -> Invocation \cup {None}]
      /\ lock \in Invocation \cup {None}
  BY <1>0 DEF TypeOK
<1>2. /\ UNCHANGED <<database, role, running, step, awaits, stack, report>>
      /\ \A j \in Invocation : j # i => call'[j] = call[j]
  <2>1. UNCHANGED <<database, role, running, step, awaits, stack, report>>
    BY DEF Forget, CallFails, MigrateFails, workflow, job
  <2>2. CASE Forget(i)
    <3>1. call' = [call EXCEPT ![i] = Idle] BY <2>2 DEF Forget
    <3>. QED BY <1>1, <2>1, <3>1
  <2>3. CASE CallFails(i)
    <3>1. Stopped({i}) BY <2>3 DEF CallFails, MigrateFails
    <3>2. \A j \in Invocation : j \notin {i} => call'[j] = call[j]
      BY <1>0, <3>1, StoppedEffect
    <3>. QED BY <2>1, <3>2
  <2>. QED BY <2>1, <2>2, <2>3
<1>3. \A c \in Branch : Kept(c) BY <1>2, KeptWhereUnchanged
<1>4. CASE Forget(i)
  <2>1. /\ call' = [call EXCEPT ![i] = Idle] /\ lock' = lock /\ ~Running(i)
        /\ \A b \in Branch : awaits[b] # i
    BY <1>4 DEF Forget
  <2>2. call'[i].step = "idle" /\ call[i].step # "grant"
    BY <1>1, <2>1 DEF Idle, Running
  <2>3. ClusterInv'
    <3>1. LockIsHeld' BY <1>0, <1>1, <1>2, <2>1, <2>2 DEF ClusterInv, LockIsHeld
    <3>2. \A j \in Invocation :
            /\ call'[j].step # "idle" => call'[j].branch \in Branch
            /\ call'[j].step \in {"make role", "grant"} => database'[call'[j].branch].exists
            /\ call'[j].step = "grant" => role'.exists \/ lock' = j
      BY <1>0, <1>2, <2>1, <2>2 DEF ClusterInv
    <3>. QED BY <1>0, <1>2, <3>1, <3>2 DEF ClusterInv
  <2>4. \A b \in Branch : awaits[b] # None => call'[awaits[b]] = call[awaits[b]]
    BY <1>1, <1>2, <2>1
  <2>5. JobInv' BY <1>0, <1>2, <2>4, JobsStay
  <2>6. \A b \in Branch : step[b] = "migrating" => awaits[b] # None
    BY <1>0 DEF JobInv, JobOf
  <2>7. \A b \in Branch : step[b] = "migrating" =>
            /\ call'[awaits[b]].step \in {"upgrade", "ok"} => Let(b)'
            /\ call'[awaits[b]].step = "ok" => Readable(b)'
    BY <1>0, <1>3, <2>4, <2>6 DEF ReadInv, ReadOf, Kept
  <2>. QED BY <1>0, <1>2, <1>3, <2>3, <2>5, <2>7, ReadsStay
<1>5. CASE CallFails(i)
  <2>1. Stopped({i}) /\ call[i].step # "idle"
    BY <1>5 DEF CallFails, MigrateFails, Running
  <2>2. call'[i].step = "error" /\ call'[i].branch = call[i].branch
    BY <1>0, <2>1, StoppedEffect
  <2>3. ClusterInv' BY <1>0, <1>2, <2>1, StoppedKeepsCluster
  <2>4. JobInv' BY <1>0, <1>1, <1>2, <2>2, JobsStay
  <2>5. \A b \in Branch : step[b] = "migrating" => awaits[b] \in Invocation
    BY <1>0 DEF JobInv, JobOf
  <2>6. \A b \in Branch : step[b] = "migrating" =>
            /\ call'[awaits[b]].step \in {"upgrade", "ok"} => Let(b)'
            /\ call'[awaits[b]].step = "ok" => Readable(b)'
    BY <1>0, <1>2, <1>3, <2>2, <2>5 DEF ReadInv, ReadOf, Kept
  <2>. QED BY <1>0, <1>2, <1>3, <2>3, <2>4, <2>6, ReadsStay
<1>. QED BY <1>4, <1>5

-----------------------------------------------------------------------------
(* The invariant.                                                          *)

LEMMA NothingMoves ==
  ASSUME ClusterInv, JobInv, ReadInv,
         UNCHANGED <<database, role, lock, call, running, step, awaits, stack, report>>
  PROVE  ClusterInv' /\ JobInv' /\ ReadInv'
<1>1. \A b \in Branch : Kept(b) BY KeptWhereUnchanged
<1>2. \A b \in Branch : step[b] = "migrating" =>
          /\ call'[awaits[b]].step \in {"upgrade", "ok"} => Let(b)'
          /\ call'[awaits[b]].step = "ok" => Readable(b)'
  BY <1>1 DEF ReadInv, ReadOf, Kept
<1>3. ClusterInv' BY ClusterStays
<1>4. JobInv' BY JobsStay
<1>5. ReadInv' BY <1>1, <1>2, ReadsStay
<1>. QED BY <1>3, <1>4, <1>5

LEMMA InitIInv == Init => IInv
<1>. SUFFICES ASSUME Init PROVE IInv
  OBVIOUS
<1>. USE ClusterAssumption
<1>1. /\ \A b \in Branch : /\ ~database[b].exists /\ ~database[b].connect
                           /\ running[b] = None /\ step[b] = "idle" /\ awaits[b] = None
                           /\ report[b] = "none"
      /\ \A i \in Invocation : call[i].step = "idle"
      /\ lock = None
  BY DEF Init, ClusterInit, NoDatabase, Idle
<1>2. ClusterInv BY <1>1 DEF ClusterInv, LockIsHeld
<1>3. JobInv BY <1>1 DEF JobInv, JobOf
<1>4. ReadInv BY <1>1 DEF ReadInv, ReadOf
<1>. QED BY <1>2, <1>3, <1>4, InitTypeOK DEF IInv

LEMMA StepIInv == IInv /\ [Next]_vars => IInv'
<1>. SUFFICES ASSUME IInv, [Next]_vars PROVE ClusterInv' /\ JobInv' /\ ReadInv'
  BY StepTypeOK DEF IInv
<1>0. TypeOK /\ ClusterInv /\ JobInv /\ ReadInv BY DEF IInv
<1>1. ASSUME NEW b \in Branch, Dispatch(b) PROVE ClusterInv' /\ JobInv' /\ ReadInv'
  <2>1. Queued(b, "up") /\ UNCHANGED <<cluster, awaits, stack, report>> BY <1>1 DEF Dispatch
  <2>. QED BY <2>1, QueuedKeeps DEF Run
<1>2. ASSUME NEW b \in Branch, CloseRequest(b) PROVE ClusterInv' /\ JobInv' /\ ReadInv'
  <2>1. Queued(b, "down") /\ UNCHANGED <<cluster, awaits, stack, report>>
    BY <1>2 DEF CloseRequest
  <2>. QED BY <2>1, QueuedKeeps DEF Run
<1>3. ASSUME NEW b \in Branch, DeleteBranch(b) PROVE ClusterInv' /\ JobInv' /\ ReadInv'
  <2>1. Queued(b, "down") /\ UNCHANGED <<cluster, awaits, stack, report>>
    BY <1>3 DEF DeleteBranch
  <2>. QED BY <2>1, QueuedKeeps DEF Run
<1>4. ASSUME NEW b \in Branch, Lookalike(b) PROVE ClusterInv' /\ JobInv' /\ ReadInv'
  <2>1. Queued(b, "skipped") /\ UNCHANGED <<cluster, awaits, stack, report>>
    BY <1>4 DEF Lookalike
  <2>. QED BY <2>1, QueuedKeeps DEF Run
<1>5. ASSUME NEW b \in Branch, JobStep(b) \/ JobFails(b)
      PROVE  ClusterInv' /\ JobInv' /\ ReadInv'
  BY <1>5, JobKeeps
<1>6. ASSUME NEW b \in Branch, Visit(b) \/ (Connect(b) /\ UNCHANGED workflow)
                                 \/ (Leave(b) /\ UNCHANGED workflow)
      PROVE  ClusterInv' /\ JobInv' /\ ReadInv'
  <2>1. UNCHANGED <<database, role, lock, call, running, step, awaits, stack, report>>
    BY <1>6 DEF Visit, Connect, Leave, workflow
  <2>. QED BY <1>0, <2>1, NothingMoves
<1>7. ASSUME NEW i \in Invocation, MigrateStepOf(i), UNCHANGED workflow
      PROVE  ClusterInv' /\ JobInv' /\ ReadInv'
  BY <1>7, MigrateIInv
<1>8. ASSUME NEW i \in Invocation, Forget(i) \/ CallFails(i)
      PROVE  ClusterInv' /\ JobInv' /\ ReadInv'
  BY <1>8, CallKeeps
<1>9. CASE UNCHANGED vars
  <2>1. UNCHANGED <<database, role, lock, call, running, step, awaits, stack, report>>
    BY <1>9 DEF vars, cluster, workflow
  <2>. QED BY <1>0, <2>1, NothingMoves
<1>. QED BY <1>1, <1>2, <1>3, <1>4, <1>5, <1>6, <1>7, <1>8, <1>9
         DEF Next, CallStep

LEMMA Inductive == Spec => []IInv
<1>. QED BY InitIInv, StepIInv, PTL DEF Spec

\* Whatever runs of migrate overlap, fail or are cut off, the role's creation is held by one
\* transaction at most, and that one is at work (lambda_handler.py:282).
THEOREM LockHeld == Spec => []LockIsHeld
<1>1. IInv => LockIsHeld BY DEF IInv, ClusterInv
<1>. QED BY <1>1, Inductive, PTL

\* A preview that was raised can be read by its own function until its removal starts,
\* whatever is raised, removed or left over meanwhile (preview.sh up, lambda_handler.py).
THEOREM RaisedReadable == Spec => []RaisedIsReadable
<1>1. IInv => RaisedIsReadable BY DEF IInv, ReadInv, ReadOf, RaisedIsReadable
<1>. QED BY <1>1, Inductive, PTL

-----------------------------------------------------------------------------
(* A removal that says so has removed the database.                        *)

\* Only its own removal leaves the last step, by the drop or by a failure.
LEMMA LeavesDrop ==
  ASSUME IInv, [Next]_vars, NEW b \in Branch, step[b] = "drop", step'[b] # "drop"
  PROVE  Drop(b) \/ report'[b] = "failed"
<1>. USE PreviewAssumption
<1>0. TypeOK /\ JobOf(b) BY DEF IInv, JobInv
<1>1. running[b] = "down" /\ running[b] # None BY <1>0 DEF JobOf
<1>2. step \in [Branch -> Step] BY <1>0 DEF TypeOK
<1>3. ASSUME NEW c \in Branch, NEW run \in Run, Queued(c, run) PROVE FALSE
  BY <1>0, <1>1, <1>3, QueuedEffect
<1>4. ASSUME NEW c \in Branch, NEW said, Ends(c, said) PROVE c = b /\ report'[b] = said
  BY <1>0, <1>4, EndsEffect
<1>5. ASSUME NEW c \in Branch, NEW to, JobGoes(c, to) PROVE c = b
  BY <1>2, <1>5 DEF JobGoes
<1>6. ASSUME NEW c \in Branch, Dispatch(c) \/ CloseRequest(c) \/ DeleteBranch(c) \/ Lookalike(c)
      PROVE  FALSE
  BY <1>3, <1>6 DEF Dispatch, CloseRequest, DeleteBranch, Lookalike, Run
<1>7. ASSUME NEW c \in Branch, JobStep(c) PROVE Drop(b)
  <2>1. CASE Skip(c) BY <1>1, <1>4, <2>1 DEF Skip
  <2>2. CASE Apply(c) BY <1>1, <1>5, <2>2 DEF Apply, JobAt
  <2>3. CASE Migrated(c)
    <3>1. c = b
      <4>1. CASE At(awaits[c], "ok") BY <1>5, <2>3, <4>1 DEF Migrated, ReadAnswer
      <4>2. CASE ~At(awaits[c], "ok") BY <1>5, <2>3, <4>2 DEF Migrated, ReadAnswer
      <4>. QED BY <4>1, <4>2
    <3>. QED BY <1>1, <2>3, <3>1 DEF Migrated, JobAt
  <2>4. CASE Smoke(c) BY <1>1, <1>4, <2>4 DEF Smoke, JobAt
  <2>5. CASE Destroy(c) BY <1>5, <2>5 DEF Destroy, JobAt
  <2>6. CASE Terminate(c) BY <1>5, <2>6 DEF Terminate, JobAt
  <2>7. CASE Drop(c) BY <1>4, <2>7 DEF Drop
  <2>. QED BY <1>7, <2>1, <2>2, <2>3, <2>4, <2>5, <2>6, <2>7 DEF JobStep
<1>8. ASSUME NEW c \in Branch, JobFails(c) PROVE report'[b] = "failed"
  BY <1>4, <1>8 DEF JobFails
<1>9. ASSUME UNCHANGED step PROVE FALSE
  BY <1>9
<1>10. ASSUME NEW c \in Branch, Visit(c) \/ (Connect(c) /\ UNCHANGED workflow)
                                  \/ (Leave(c) /\ UNCHANGED workflow)
       PROVE  FALSE
  BY <1>9, <1>10 DEF Visit, workflow
<1>11. ASSUME NEW i \in Invocation, CallStep(i) \/ CallFails(i) PROVE FALSE
  BY <1>9, <1>11 DEF CallStep, Forget, CallFails, workflow, job
<1>12. CASE UNCHANGED vars BY <1>9, <1>12 DEF vars, workflow
<1>. QED BY <1>6, <1>7, <1>8, <1>10, <1>11, <1>12 DEF Next

\* A removal that speaks of no database has left none (preview.sh down).
THEOREM RemovedGone == Spec => RemovedIsGone
<1>1. IInv /\ [Next]_vars =>
        [\A b \in Branch : step[b] = "drop" /\ step'[b] # "drop" /\ report'[b] = "removed"
                             => ~database'[b].exists]_vars
  <2>. SUFFICES ASSUME IInv, [Next]_vars, NEW b \in Branch,
                       step[b] = "drop", step'[b] # "drop", report'[b] = "removed"
                PROVE  ~database'[b].exists
    OBVIOUS
  <2>1. Drop(b) BY LeavesDrop
  <2>2. TypeOK /\ database \in [Branch -> Database] BY DEF IInv, TypeOK
  <2>3. report'[b] = DropSays(b) BY <2>1, <2>2, EndsEffect DEF Drop
  <2>4. CanDrop(b) BY <2>3 DEF DropSays
  <2>5. database' = [database EXCEPT ![b] = NoDatabase] BY <2>1, <2>4 DEF Drop, DropDatabase
  <2>. QED BY <2>2, <2>5 DEF NoDatabase
<1>. QED BY <1>1, Inductive, PTL DEF Spec, RemovedIsGone

-----------------------------------------------------------------------------
(* Previews implement PreviewFleet.                                        *)

Usable(b) == stack[b] /\ Readable(b)
Removing(b) == running[b] = "down"

\* A step that touches the preview of one branch, and leaves it usable if it was.
LEMMA Appears ==
  ASSUME NEW b \in Branch,
         \A c \in Branch : c # b => Usable(c)' = Usable(c) /\ Removing(c)' = Removing(c),
         Usable(b)' = Usable(b) \/ Usable(b)' = TRUE
  PROVE  Fleet!Next
<1>. DEFINE u  == [c \in Branch |-> stack[c] /\ Readable(c)]
            un == [c \in Branch |-> stack'[c] /\ Readable(c)']
            r  == [c \in Branch |-> running[c] = "down"]
            rn == [c \in Branch |-> running'[c] = "down"]
<1>1. un \in {u, [u EXCEPT ![b] = TRUE]}
  <2>1. CASE Usable(b)' = Usable(b)
    <3>1. \A c \in Branch : (stack'[c] /\ Readable(c)') = (stack[c] /\ Readable(c))
      BY <2>1, Zenon DEF Usable
    <3>. QED BY <3>1, Zenon
  <2>2. CASE Usable(b)' = TRUE
    <3>1. \A c \in Branch : (stack'[c] /\ Readable(c)') =
                             IF c = b THEN TRUE ELSE (stack[c] /\ Readable(c))
      BY <2>2, Zenon DEF Usable
    <3>. QED BY <3>1, Zenon
  <2>. QED BY <2>1, <2>2
<1>2. \E now \in BOOLEAN : rn = [r EXCEPT ![b] = now]
  <2>1. rn = [r EXCEPT ![b] = (running'[b] = "down")]
    <3>1. \A c \in Branch : c # b => (running'[c] = "down") = (running[c] = "down")
      BY Zenon DEF Removing
    <3>. QED BY <3>1, Zenon
  <2>2. (running'[b] = "down") \in BOOLEAN OBVIOUS
  <2>. QED BY <2>1, <2>2, Zenon
<1>3. Fleet!Appear(b) BY <1>1, <1>2, Zenon DEF Fleet!Appear
<1>. QED BY <1>3 DEF Fleet!Next

LEMMA Disappears ==
  ASSUME NEW b \in Branch, Removing(b), Usable(b)' = FALSE, UNCHANGED running,
         \A c \in Branch : c # b => Usable(c)' = Usable(c)
  PROVE  Fleet!Next
<1>. DEFINE u  == [c \in Branch |-> stack[c] /\ Readable(c)]
            un == [c \in Branch |-> stack'[c] /\ Readable(c)']
            r  == [c \in Branch |-> running[c] = "down"]
            rn == [c \in Branch |-> running'[c] = "down"]
<1>1. un = [u EXCEPT ![b] = FALSE]
  <2>1. \A c \in Branch : (stack'[c] /\ Readable(c)') =
                           IF c = b THEN FALSE ELSE (stack[c] /\ Readable(c))
    BY Zenon DEF Usable
  <2>. QED BY <2>1, Zenon
<1>2. rn = r OBVIOUS
<1>3. r[b] BY DEF Removing
<1>4. Fleet!Disappear(b) BY <1>1, <1>2, <1>3, Zenon DEF Fleet!Disappear
<1>. QED BY <1>4 DEF Fleet!Next

LEMMA FleetStutters ==
  ASSUME \A c \in Branch : Usable(c)' = Usable(c), UNCHANGED running
  PROVE  UNCHANGED <<[c \in Branch |-> stack[c] /\ Readable(c)],
                     [c \in Branch |-> running[c] = "down"]>>
<1>1. \A c \in Branch : (stack'[c] /\ Readable(c)') = (stack[c] /\ Readable(c))
  BY Zenon DEF Usable
<1>2. [c \in Branch |-> stack[c] /\ Readable(c)]' = [c \in Branch |-> stack[c] /\ Readable(c)]
  BY <1>1, Zenon
<1>. QED BY <1>2

\* A statement of migrate is felt in the database of its own branch alone.
LEMMA MigrateAlone ==
  ASSUME IInv, NEW i \in Invocation, MigrateStepOf(i)
  PROVE  /\ call[i].branch \in Branch
         /\ \A c \in Branch : c # call[i].branch => Readable(c)' = Readable(c)
<1>0. /\ TypeOK /\ ClusterInv /\ database \in [Branch -> Database]
      /\ role \in [exists : BOOLEAN, rds_iam : BOOLEAN]
  BY DEF IInv, TypeOK
<1>1. call[i].branch \in Branch
  <2>1. call[i].step # "idle"
    BY DEF MigrateStepOf, LookForDatabase, CreateDatabase, LookForRole, CreateRole,
       GrantAndCommit, Upgrade, At
  <2>. QED BY <1>0, <2>1 DEF ClusterInv
<1>2. CASE UNCHANGED <<database, role>> BY <1>1, <1>2 DEF Readable
<1>3. ASSUME NEW d \in Database, database' = [database EXCEPT ![call[i].branch] = d],
             role' = role
      PROVE  \A c \in Branch : c # call[i].branch => Readable(c)' = Readable(c)
  BY <1>0, <1>1, <1>3 DEF Readable
<1>4. CASE CreateDatabase(i)
  BY <1>1, <1>2, <1>3, <1>4, DatabaseTypes DEF CreateDatabase
<1>5. CASE GrantAndCommit(i)
  <2>1. \A c \in Branch : c # call[i].branch => database'[c] = database[c]
    BY <1>0, <1>1, <1>5 DEF GrantAndCommit
  <2>2. role'.rds_iam = TRUE BY <1>5 DEF GrantAndCommit
  <2>3. \A c \in Branch : database[c].connect => role.rds_iam BY <1>0 DEF ClusterInv
  <2>4. \A c \in Branch : database[c] \in Database BY <1>0
  <2>. QED BY <1>0, <1>1, <2>1, <2>2, <2>3, <2>4 DEF Readable, Database
<1>6. CASE Upgrade(i)
  <2>1. Upgraded(database[call[i].branch]) \in Database BY <1>0, <1>1, DatabaseTypes
  <2>. QED BY <1>1, <1>2, <1>3, <1>6, <2>1 DEF Upgrade
<1>. QED BY <1>1, <1>2, <1>4, <1>5, <1>6
         DEF MigrateStepOf, LookForDatabase, LookForRole, CreateRole

LEMMA QueuedFleet ==
  ASSUME IInv, NEW b \in Branch, NEW run \in Run, Queued(b, run), UNCHANGED <<cluster, stack>>
  PROVE  Fleet!Next
<1>1. \A c \in Branch : Usable(c)' = Usable(c)
  BY DEF cluster, Usable, Readable
<1>2. \A c \in Branch : c # b => running'[c] = running[c]
  BY QueuedEffect DEF IInv
<1>3. \A c \in Branch : c # b => Usable(c)' = Usable(c) /\ Removing(c)' = Removing(c)
  BY <1>1, <1>2 DEF Removing
<1>. QED BY <1>1, <1>3, Appears, Zenon

LEMMA JobFleet ==
  ASSUME IInv, NEW b \in Branch, JobStep(b) \/ JobFails(b)
  PROVE  Fleet!Next
<1>0. /\ TypeOK /\ ReadInv /\ JobOf(b) /\ stack \in [Branch -> BOOLEAN]
      /\ running \in [Branch -> Run \cup {None}] /\ database \in [Branch -> Database]
  BY DEF IInv, TypeOK, JobInv
<1>1. ASSUME NEW said, Ends(b, said), UNCHANGED <<database, role>>,
             \A c \in Branch : c # b => stack'[c] = stack[c],
             stack'[b] = stack[b] \/ stack'[b] = TRUE
      PROVE  Fleet!Next
  <2>1. \A c \in Branch : c # b => running'[c] = running[c] BY <1>0, <1>1, EndsEffect
  <2>2. \A c \in Branch : Readable(c)' = Readable(c) BY <1>1 DEF Readable
  <2>3. \A c \in Branch : c # b => Usable(c)' = Usable(c) /\ Removing(c)' = Removing(c)
    BY <1>1, <2>1, <2>2 DEF Usable, Removing
  <2>4. Usable(b)' = Usable(b) \/ Usable(b)' = TRUE
    <3>1. CASE stack'[b] = stack[b] BY <2>2, <3>1 DEF Usable
    <3>2. CASE stack'[b] = TRUE /\ Readable(b) BY <2>2, <3>2 DEF Usable
    <3>3. CASE stack'[b] = TRUE /\ ~Readable(b) BY <2>2, <3>3 DEF Usable
    <3>. QED BY <1>1, <3>1, <3>2, <3>3
  <2>. QED BY <2>3, <2>4, Appears
<1>2. CASE Skip(b)
  BY <1>1, <1>2 DEF Skip, cluster
<1>3. CASE Smoke(b)
  BY <1>1, <1>3 DEF Smoke, cluster
<1>4. CASE JobFails(b)
  <2>1. stack' = stack \/ stack' = [stack EXCEPT ![b] = TRUE] BY <1>4 DEF JobFails
  <2>. QED BY <1>0, <1>1, <1>4, <2>1 DEF JobFails, cluster
<1>5. CASE Apply(b)
  <2>1. /\ stack' = [stack EXCEPT ![b] = TRUE]
        /\ UNCHANGED <<database, role, running>>
    BY <1>5 DEF Apply
  <2>2. \A c \in Branch : Readable(c)' = Readable(c) BY <2>1 DEF Readable
  <2>3. \A c \in Branch : c # b => Usable(c)' = Usable(c) /\ Removing(c)' = Removing(c)
    BY <1>0, <2>1, <2>2 DEF Usable, Removing
  <2>4. stack'[b] = TRUE BY <1>0, <2>1
  <2>5. Usable(b)' = Usable(b) \/ Usable(b)' = TRUE
    <3>1. CASE Readable(b) BY <2>2, <2>4, <3>1 DEF Usable
    <3>2. CASE ~Readable(b) BY <2>2, <2>4, <3>2 DEF Usable
    <3>. QED BY <3>1, <3>2
  <2>. QED BY <2>3, <2>5, Appears
<1>6. CASE Migrated(b)
  <2>1. /\ UNCHANGED <<database, role, stack>>
        /\ \A c \in Branch : c # b => running'[c] = running[c]
    <3>1. CASE At(awaits[b], "ok") BY <1>6, <3>1 DEF Migrated, ReadAnswer
    <3>2. CASE ~At(awaits[b], "ok") BY <1>0, <1>6, <3>2 DEF Migrated, ReadAnswer
    <3>. QED BY <3>1, <3>2
  <2>2. \A c \in Branch : Usable(c)' = Usable(c) BY <2>1 DEF Usable, Readable
  <2>3. \A c \in Branch : c # b => Usable(c)' = Usable(c) /\ Removing(c)' = Removing(c)
    BY <2>1, <2>2 DEF Removing
  <2>. QED BY <2>2, <2>3, Appears, Zenon
<1>7. CASE Destroy(b)
  <2>1. /\ UNCHANGED <<database, role, running>> /\ running[b] = "down"
        /\ stack' = [stack EXCEPT ![b] = FALSE]
    BY <1>7 DEF Destroy, JobAt, cluster
  <2>2. \A c \in Branch : Readable(c)' = Readable(c) BY <2>1 DEF Readable
  <2>3. \A c \in Branch : c # b => Usable(c)' = Usable(c) BY <1>0, <2>1, <2>2 DEF Usable
  <2>4. stack'[b] = FALSE BY <1>0, <2>1
  <2>5. Usable(b)' = FALSE BY <2>4 DEF Usable
  <2>6. Removing(b) BY <2>1 DEF Removing
  <2>. QED BY <2>1, <2>3, <2>5, <2>6, Disappears
<1>8. CASE Terminate(b)
  <2>1. UNCHANGED <<database, role, running, stack>>
    BY <1>8 DEF Terminate, TerminateSessions
  <2>. QED BY <2>1, Appears DEF Usable, Readable, Removing
<1>9. CASE Drop(b)
  <2>1. /\ UNCHANGED <<role, stack>> /\ ~stack[b]
        /\ \A c \in Branch : c # b => running'[c] = running[c] /\ database'[c] = database[c]
    <3>1. /\ UNCHANGED <<role, stack>> /\ step[b] = "drop" /\ Ends(b, DropSays(b))
          /\ database' = IF CanDrop(b) THEN [database EXCEPT ![b] = NoDatabase] ELSE database
      BY <1>9 DEF Drop, DropDatabase, JobAt
    <3>. QED BY <1>0, <3>1, EndsEffect DEF JobOf
  <2>2. \A c \in Branch : c # b => Usable(c)' = Usable(c) /\ Removing(c)' = Removing(c)
    BY <2>1 DEF Usable, Readable, Removing
  <2>3. Usable(b)' = Usable(b) BY <2>1 DEF Usable
  <2>. QED BY <2>2, <2>3, Appears
<1>. QED BY <1>2, <1>3, <1>4, <1>5, <1>6, <1>7, <1>8, <1>9 DEF JobStep

LEMMA MigrateFleet ==
  ASSUME IInv, NEW i \in Invocation, MigrateStepOf(i), UNCHANGED workflow
  PROVE  Fleet!Next
<1>1. UNCHANGED <<running, stack>> BY DEF workflow
<1>2. PICK b \in Branch : \A c \in Branch : c # b => Readable(c)' = Readable(c)
  BY MigrateAlone
<1>3. Readable(b) => Readable(b)' BY MigrateKeeps DEF IInv, Kept
<1>4. \A c \in Branch : c # b => Usable(c)' = Usable(c) BY <1>1, <1>2 DEF Usable
<1>5. Usable(b)' = Usable(b) \/ Usable(b)' = TRUE
  <2>1. CASE Usable(b)
    <3>1. Usable(b)' BY <1>1, <1>3, <2>1 DEF Usable
    <3>. QED BY <2>1, <3>1 DEF Usable
  <2>2. CASE ~Usable(b) BY <2>2 DEF Usable
  <2>. QED BY <2>1, <2>2
<1>. QED BY <1>1, <1>2, <1>4, <1>5, Appears DEF Removing

LEMMA StepFleet ==
  IInv /\ [Next]_vars =>
    [Fleet!Next]_<<[b \in Branch |-> stack[b] /\ Readable(b)], [b \in Branch |-> running[b] = "down"]>>
<1>. SUFFICES ASSUME IInv, [Next]_vars
              PROVE  [Fleet!Next]_<<[b \in Branch |-> stack[b] /\ Readable(b)],
                                    [b \in Branch |-> running[b] = "down"]>>
  OBVIOUS
<1>1. ASSUME NEW b \in Branch, Dispatch(b) \/ CloseRequest(b) \/ DeleteBranch(b) \/ Lookalike(b)
      PROVE  Fleet!Next
  <2>1. /\ Queued(b, "up") \/ Queued(b, "down") \/ Queued(b, "skipped")
        /\ UNCHANGED <<cluster, stack>>
    BY <1>1 DEF Dispatch, CloseRequest, DeleteBranch, Lookalike
  <2>. QED BY <2>1, QueuedFleet DEF Run
<1>2. ASSUME NEW b \in Branch, JobStep(b) \/ JobFails(b) PROVE Fleet!Next
  BY <1>2, JobFleet
<1>3. ASSUME NEW i \in Invocation, MigrateStepOf(i), UNCHANGED workflow PROVE Fleet!Next
  BY <1>3, MigrateFleet
<1>. DEFINE Still == UNCHANGED <<database, role, running, stack>>
<1>4. ASSUME NEW b \in Branch, Visit(b) \/ (Connect(b) /\ UNCHANGED workflow)
                                 \/ (Leave(b) /\ UNCHANGED workflow)
      PROVE  Still
  BY <1>4 DEF Visit, Connect, Leave, workflow
<1>5. ASSUME NEW i \in Invocation, Forget(i) \/ CallFails(i) PROVE Still
  BY <1>5 DEF Forget, CallFails, MigrateFails, workflow, job
<1>6. UNCHANGED vars => Still BY DEF vars, cluster, workflow
<1>7. ASSUME Still
      PROVE  UNCHANGED <<[b \in Branch |-> stack[b] /\ Readable(b)],
                         [b \in Branch |-> running[b] = "down"]>>
  BY <1>7, FleetStutters DEF Usable, Readable
<1>8. Fleet!Next \/ Still
  BY <1>1, <1>2, <1>3, <1>4, <1>5, <1>6 DEF Next, CallStep
<1>. QED BY <1>7, <1>8

\* Previews keep the promise of PreviewFleet: one becomes unusable by its own removal alone
\* (preview.sh: "The branch NAME is the whole identity chain").
THEOREM PreviewsAreAFleet == Spec => FleetSpec
<1>1. Init => Fleet!Init
  <2>. SUFFICES ASSUME Init PROVE Fleet!Init
    OBVIOUS
  <2>1. \A b \in Branch : (stack[b] /\ Readable(b)) = FALSE /\ (running[b] = "down") = FALSE
    BY PreviewAssumption DEF Init
  <2>. QED BY <2>1, Zenon DEF Fleet!Init
<1>. QED BY <1>1, Inductive, StepFleet, PTL DEF Spec, FleetSpec, Fleet!Spec
=============================================================================
