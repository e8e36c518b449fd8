------------------------------ MODULE Previews ------------------------------
(***************************************************************************)
(* A preview per branch: scripts/preview.sh, run by the two workflows that *)
(* share one concurrency group per branch name, over the cluster of        *)
(* PreviewCluster.  GitHub keeps one run of a group running and one        *)
(* waiting; a newer one takes the place of the one that waits, and does so *)
(* before the `if` of its job is looked at.                                *)
(***************************************************************************)
EXTENDS PreviewCluster

CONSTANTS
  MaxEvents,   \* bound: what happens to branches, pull requests and tags
  MaxMishaps   \* bound: jobs and migrations that fail on the way

ASSUME PreviewAssumption ==
  MaxEvents \in Nat /\ MaxMishaps \in Nat /\ None \notin {"up", "down", "skipped"}

VARIABLES
  branch,    \* branch -> whether it is there
  request,   \* branch -> its pull request
  running,   \* branch -> the run its group has running, or None
  waiting,   \* branch -> the run its group has waiting, or None
  step,      \* branch -> where the running job stands
  awaits,    \* branch -> the invocation of migrate its job waits for, or None
  stack,     \* branch -> whether its functions and its URL exist
  report,    \* branch -> how the last job that ran to its end said it ended
  stranded,  \* history: branch -> a removal was given up for a run that does nothing
  events, mishaps

workflow == <<branch, request, running, waiting, step, awaits, stack, report, stranded,
              events, mishaps>>
vars == <<cluster, workflow>>

\* A run: of which workflow, and what the `if` of its job makes of it.
Run == {"up", "down", "skipped"}
Step == {"idle", "start", "migrating", "smoke", "destroy", "terminate", "drop"}
Report == {"none", "raised", "failed", "removed", "removed but the database"}

Init ==
  /\ ClusterInit
  /\ branch = [b \in Branch |-> "live"]
  /\ request = [b \in Branch |-> "open"]
  /\ running = [b \in Branch |-> None]
  /\ waiting = [b \in Branch |-> None]
  /\ step = [b \in Branch |-> "idle"]
  /\ awaits = [b \in Branch |-> None]
  /\ stack = [b \in Branch |-> FALSE]
  /\ report = [b \in Branch |-> "none"]
  /\ stranded = [b \in Branch |-> FALSE]
  /\ events = 0
  /\ mishaps = 0

-----------------------------------------------------------------------------
(* The concurrency group `preview-<branch name>`.                          *)

\* Mutant: a run that finds another one waiting gives way to it.
QueuedLast(b, run) ==
  /\ IF running[b] = None
       THEN running' = [running EXCEPT ![b] = run] /\ step' = [step EXCEPT ![b] = "start"]
       ELSE UNCHANGED <<running, step>>
  /\ waiting' = IF running[b] # None /\ waiting[b] = None
                  THEN [waiting EXCEPT ![b] = run] ELSE waiting
  /\ UNCHANGED stranded

\* A run is queued: it starts, or waits in the place of the one that was waiting.
Queued(b, run) ==
  IF running[b] = None
    THEN /\ running' = [running EXCEPT ![b] = run]
         /\ step' = [step EXCEPT ![b] = "start"]
         /\ UNCHANGED <<waiting, stranded>>
    ELSE /\ waiting' = [waiting EXCEPT ![b] = run]
         /\ stranded' = [stranded EXCEPT ![b] = @ \/ (waiting[b] = "down" /\ run = "skipped")]
         /\ UNCHANGED <<running, step>>

\* A job ends, and the run that waits starts.
Ends(b, said) ==
  /\ running' = [running EXCEPT ![b] = waiting[b]]
  /\ waiting' = [waiting EXCEPT ![b] = None]
  /\ step' = [step EXCEPT ![b] = IF waiting[b] = None THEN "idle" ELSE "start"]
  /\ awaits' = [awaits EXCEPT ![b] = None]
  /\ report' = [report EXCEPT ![b] = said]

job == <<running, waiting, step, awaits>>
counts == <<events, mishaps>>

\* One more of the bounded events.
Happens == events < MaxEvents /\ events' = events + 1

\* workflow_dispatch, on a branch that is there.
Dispatch(b) ==
  /\ branch[b] = "live"
  /\ Happens
  /\ Queued(b, "up")
  /\ UNCHANGED <<cluster, branch, request, awaits, stack, report, mishaps>>

\* pull_request: closed -- merged or not, and by itself when the branch is deleted.
CloseRequest(b) ==
  /\ request[b] = "open"
  /\ Happens
  /\ request' = [request EXCEPT ![b] = "closed"]
  /\ Queued(b, "down")
  /\ UNCHANGED <<cluster, branch, awaits, stack, report, mishaps>>

DeleteBranch(b) ==
  /\ branch[b] = "live"
  /\ Happens
  /\ branch' = [branch EXCEPT ![b] = "gone"]
  /\ Queued(b, "down")
  /\ UNCHANGED <<cluster, request, awaits, stack, report, mishaps>>

\* The deletion of a tag, or the end of a fork's pull request: the run has the name of the
\* branch for its group, and its job is skipped.
Lookalike(b) ==
  /\ Happens
  /\ Queued(b, "skipped")
  /\ UNCHANGED <<cluster, branch, request, awaits, stack, report, mishaps>>

Skip(b) ==
  /\ running[b] = "skipped"
  /\ Ends(b, report[b])
  /\ UNCHANGED <<cluster, branch, request, stack, stranded, counts>>

-----------------------------------------------------------------------------
(* preview.sh up.                                                          *)

JobAt(b, run, at) == running[b] = run /\ step[b] = at
JobGoes(b, to) == step' = [step EXCEPT ![b] = to]

\* package.sh, terraform apply, and the migrate function invoked for the branch.
Apply(b) ==
  /\ JobAt(b, "up", "start")
  /\ stack' = [stack EXCEPT ![b] = TRUE]
  /\ \E i \in Invocation :
       /\ call[i] = Idle
       /\ call' = [call EXCEPT ![i] = [branch |-> b, step |-> "look"]]
       /\ awaits' = [awaits EXCEPT ![b] = i]
  /\ JobGoes(b, "migrating")
  /\ UNCHANGED <<database, role, lock, visit, branch, request, running, waiting, report,
                 stranded, counts>>

\* Mutant: the corpus is put in before the smoke, in a step nothing runs.
SeedFirst(b, i) == JobGoes(b, "seed") /\ UNCHANGED <<running, waiting, report>>

\* The payload says whether it worked: a raising function answers all the same.
ReadAnswer(b, i) ==
  IF At(i, "ok")
    THEN JobGoes(b, "smoke") /\ UNCHANGED <<running, waiting, report>>
    ELSE /\ running' = [running EXCEPT ![b] = waiting[b]]
         /\ waiting' = [waiting EXCEPT ![b] = None]
         /\ JobGoes(b, IF waiting[b] = None THEN "idle" ELSE "start")
         /\ report' = [report EXCEPT ![b] = "failed"]

Migrated(b) ==
  /\ JobAt(b, "up", "migrating")
  /\ ~Running(awaits[b])
  /\ ReadAnswer(b, awaits[b])
  /\ call' = [call EXCEPT ![awaits[b]] = Idle]
  /\ awaits' = [awaits EXCEPT ![b] = None]
  /\ UNCHANGED <<database, role, lock, visit, branch, request, stack, stranded, counts>>

\* GET /api/health answers, the corpus goes in or does not, and the URL is printed.
Smoke(b) ==
  /\ JobAt(b, "up", "smoke")
  /\ Ends(b, "raised")
  /\ UNCHANGED <<cluster, branch, request, stack, stranded, counts>>

-----------------------------------------------------------------------------
(* preview.sh down.                                                        *)

\* terraform destroy: the functions go.
Destroy(b) ==
  /\ JobAt(b, "down", "start")
  /\ stack' = [stack EXCEPT ![b] = FALSE]
  /\ JobGoes(b, "terminate")
  /\ UNCHANGED <<cluster, branch, request, running, waiting, awaits, report, stranded,
                 counts>>

Terminate(b) ==
  /\ JobAt(b, "down", "terminate")
  /\ TerminateSessions(b)
  /\ JobGoes(b, "drop")
  /\ UNCHANGED <<branch, request, running, waiting, awaits, stack, report, stranded, counts>>

\* Mutant: the answer of the maintenance function is not read.
DropSaysRemoved(b) == "removed"

\* What the job says of the drop: a refusal is a warning and the job is green.
DropSays(b) == IF CanDrop(b) THEN "removed" ELSE "removed but the database"

Drop(b) ==
  /\ JobAt(b, "down", "drop")
  /\ DropDatabase(b)
  /\ Ends(b, DropSays(b))
  /\ UNCHANGED <<branch, request, stack, stranded, counts>>

-----------------------------------------------------------------------------
(* What goes wrong, and everything else that moves.                        *)

\* A step of a job fails, or its runner is lost; the migration it waits for goes on.
JobFails(b) ==
  /\ running[b] \in {"up", "down"}
  /\ mishaps < MaxMishaps
  /\ mishaps' = mishaps + 1
  /\ Ends(b, "failed")
  /\ \/ UNCHANGED stack
     \/ JobAt(b, "up", "start") /\ stack' = [stack EXCEPT ![b] = TRUE]
  /\ UNCHANGED <<cluster, branch, request, stranded, events>>

CallFails(i) ==
  /\ mishaps < MaxMishaps
  /\ mishaps' = mishaps + 1
  /\ MigrateFails(i)
  /\ UNCHANGED <<branch, request, job, stack, report, stranded, events>>

\* An invocation nobody waits for is over when it is over.
Forget(i) ==
  /\ call[i] # Idle
  /\ ~Running(i)
  /\ \A b \in Branch : awaits[b] # i
  /\ call' = [call EXCEPT ![i] = Idle]
  /\ UNCHANGED <<database, role, lock, visit, workflow>>

\* A request reaches the URL of a preview.
Visit(b) ==
  /\ stack[b]
  /\ visit[b] = "none"
  /\ visit' = [visit EXCEPT ![b] = "in flight"]
  /\ UNCHANGED <<database, role, lock, call, workflow>>

JobStep(b) ==
  \/ Skip(b) \/ Apply(b) \/ Migrated(b) \/ Smoke(b)
  \/ Destroy(b) \/ Terminate(b) \/ Drop(b)

CallStep(i) == (MigrateStepOf(i) /\ UNCHANGED workflow) \/ Forget(i)

Next ==
  \/ \E b \in Branch :
       \/ Dispatch(b) \/ CloseRequest(b) \/ DeleteBranch(b) \/ Lookalike(b)
       \/ JobStep(b) \/ JobFails(b) \/ Visit(b)
       \/ (Connect(b) /\ UNCHANGED workflow) \/ (Leave(b) /\ UNCHANGED workflow)
  \/ \E i \in Invocation : CallStep(i) \/ CallFails(i)

Spec == Init /\ [][Next]_vars

\* GitHub runs what is queued and a function that was invoked runs on; nobody has to close a
\* pull request or to look at a preview.
FairSpec ==
  /\ Spec
  /\ \A b \in Branch : WF_vars(JobStep(b))
  /\ \A i \in Invocation : WF_vars(CallStep(i))

-----------------------------------------------------------------------------
(* Properties.                                                             *)

\* The shape of the state.
TypeOK ==
  /\ database \in [Branch -> Database]
  /\ role \in [exists : BOOLEAN, rds_iam : BOOLEAN]
  /\ lock \in Invocation \cup {None}
  /\ call \in [Invocation -> Call]
  /\ visit \in [Branch -> {"none", "in flight", "connected"}]
  /\ branch \in [Branch -> {"live", "gone"}]
  /\ request \in [Branch -> {"open", "closed"}]
  /\ running \in [Branch -> Run \cup {None}]
  /\ waiting \in [Branch -> Run \cup {None}]
  /\ step \in [Branch -> Step]
  /\ awaits \in [Branch -> Invocation \cup {None}]
  /\ stack \in [Branch -> BOOLEAN]
  /\ report \in [Branch -> Report]
  /\ stranded \in [Branch -> BOOLEAN]
  /\ events \in Nat /\ mishaps \in Nat

\* A preview somebody was told is up can be read by its own function, until the job that
\* removes it starts: the grants are in its database and on its tables, and no run of
\* migrate for another branch, no left-over run of its own and no removal of a namesake
\* takes that away (_ensure_iam_login: over the wrong connection "they succeed, grant
\* nothing that matters").
RaisedIsReadable ==
  \A b \in Branch : report[b] = "raised" /\ running[b] # "down" => stack[b] /\ Readable(b)

\* A removal that says nothing of the database has left none: a drop the cluster refused for
\* a session opened at the last moment is owned up to (preview.sh).
RemovedIsGone ==
  [][\A b \in Branch : step[b] = "drop" /\ step'[b] # "drop" /\ report'[b] = "removed"
                         => ~database'[b].exists]_vars

\* At most one transaction has created the role and not committed, and it is one that is
\* still at work: no run of migrate waits for one that is over (lambda_handler.py:282).
LockIsHeld == lock # None => call[lock].step = "grant" /\ ~role.exists

\* Previews keep the promise of PreviewFleet.
Fleet == INSTANCE PreviewFleet WITH
           usable   <- [b \in Branch |-> stack[b] /\ Readable(b)],
           removing <- [b \in Branch |-> running[b] = "down"]
FleetSpec == Fleet!Spec

\* The functions of a branch that is gone go too, unless its removal failed or gave way to a
\* run that did nothing (preview.yml: it "goes away when this pull request closes or the
\* branch is deleted").
NothingIsLeft ==
  \A b \in Branch : branch[b] = "gone" ~> (~stack[b] \/ stranded[b] \/ report[b] = "failed")
=============================================================================
