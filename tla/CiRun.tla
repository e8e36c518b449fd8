-------------------------------- MODULE CiRun --------------------------------
(***************************************************************************)
(* One run of .github/workflows/ci.yml and what scripts/ci_summary.py makes *)
(* of it: the router and the jobs that wait for it, the two suites with    *)
(* their reports, pages and censuses, the audit and its advisory, and the  *)
(* aggregate `CI passed`, the one check a merge needs.                     *)
(*                                                                         *)
(* Jobs run beside each other and share nothing but what they publish, so  *)
(* one action is one job from its first step to its last.                  *)
(***************************************************************************)
EXTENDS Naturals, FiniteSets

CONSTANTS
  Other,     \* the jobs that need nothing and whose result is all they publish
  Diffs,     \* what a run may be about
  Declared,  \* test items the feature files declare
  None       \* no report, no output

ASSUME CiAssumption ==
  /\ Declared \in Nat \ {0}
  /\ None \notin Nat \cup {"true", "false", "success", "failure", "cancelled", "skipped"}
  /\ Other \cap {"changes", "audit", "ci-advisory", "cross-platform", "frontend", "e2e"} = {}

VARIABLES
  diff,      \* what the run is about
  result,    \* job -> needs.<job>.result, or None until it is over
  report,    \* suite -> its junit, or None
  page,      \* suite -> the verdict on its page, or None
  audit,     \* the exit code of audit.sh and the `advisory` output of its job; history:
             \* whether the job broke off, before or after them
  verdict    \* the `ok` output, the refusals and the result of `CI passed`

vars == <<diff, result, report, page, audit, verdict>>

Suite == {"frontend", "e2e"}
Job == {"changes", "audit", "ci-advisory", "cross-platform"} \cup Suite \cup Other
Result == {"success", "failure", "cancelled", "skipped"}

\* matched: the routed jobs whose filter matches; the other four are what the router looks
\* at beside them, and asked: the event or a label asks for the macOS leg.
Diff == [matched : SUBSET Suite, deps : BOOLEAN, workflows : BOOLEAN, resolved : BOOLEAN,
         asked : BOOLEAN]
ASSUME DiffsAssumption == Diffs \subseteq Diff

-----------------------------------------------------------------------------
(* What the router publishes.                                              *)

\* Nothing is cleared when the diff cannot be resolved or touches a workflow.
MaySkip == IF diff.resolved /\ ~diff.workflows THEN Suite \ diff.matched ELSE {}
Deps == ~diff.resolved \/ diff.deps
CiSelf == ~diff.resolved \/ diff.workflows

-----------------------------------------------------------------------------
(* Reports, pages and censuses.                                            *)

\* A junit, read case by case: scenarios of pytest-bdd and cases of anything else.
Report == [bdd : Nat, others : Nat, failed : BOOLEAN]
Total(r) == r.bdd + r.others

\* _verdict: the job's verdict at the time its Summary step runs.
PageOf(r, status) ==
  IF r = None THEN "No report."
  ELSE IF r.failed \/ status # "success" THEN "Failed." ELSE "Passed."

\* Mutant: a report that holds nothing is a report.
CensusOfPresence(suite, r) == IF r = None /\ suite = "frontend" THEN 1 ELSE 0

\* census: the frontend requires a report, both require something in it.
Census(suite, r) ==
  IF r = None THEN (IF suite = "frontend" THEN 1 ELSE 0)
  ELSE IF Total(r) = 0 THEN 1 ELSE 0

\* Mutant: some scenarios are enough.
ScenarioCensusOfSome(r) == IF r = None \/ Total(r) = 0 THEN 1 ELSE 0

\* scenario_census.py, after a run of both trees.  Cases of e2e/ui alone are taken for what
\* `test.sh ui` left.
ScenarioCensus(r) ==
  IF r = None THEN 1
  ELSE IF r.bdd = 0 THEN (IF r.others > 0 THEN 0 ELSE 1)
  ELSE IF r.bdd = Declared THEN 0 ELSE 1

\* The suite's own step: vitest may pass and leave no report or an empty one; test.sh e2e
\* dies before there is one, or runs pytest and then the scenario census.
StepsPass(suite, r) ==
  IF suite = "frontend" THEN r = None \/ ~r.failed
  ELSE r # None /\ ~r.failed /\ ScenarioCensus(r) = 0

-----------------------------------------------------------------------------
(* The jobs.                                                               *)

Over(job) == result[job] # None
EndsAs(job, r) == ~Over(job) /\ result' = [result EXCEPT ![job] = r]

Init ==
  /\ diff \in Diffs
  /\ result = [job \in Job |-> None]
  /\ report = [suite \in Suite |-> None]
  /\ page = [suite \in Suite |-> None]
  /\ audit = [rc |-> None, advisory |-> None, broke |-> FALSE]
  /\ verdict = [ok |-> None, refused |-> {}, result |-> None]

\* The router, and the jobs that need nobody: checked, refused, or cancelled half way.
RunAlone(job) ==
  /\ job \in Other \cup {"changes"}
  /\ \E r \in {"success", "failure", "cancelled"} : EndsAs(job, r)
  /\ UNCHANGED <<diff, report, page, audit, verdict>>

\* A suite's job: its steps, and beside them others that may refuse; the page is written
\* then, and the census runs last, whatever happened before.
RunSuite(suite, r, beside) ==
  LET status == IF beside /\ StepsPass(suite, r) THEN "success" ELSE "failure" IN
  /\ report' = [report EXCEPT ![suite] = r]
  /\ page' = [page EXCEPT ![suite] = PageOf(r, status)]
  /\ EndsAs(suite, IF Census(suite, r) = 0 THEN status ELSE "failure")
  /\ UNCHANGED <<diff, audit, verdict>>

CancelSuite(suite) ==
  /\ EndsAs(suite, "cancelled")
  /\ UNCHANGED <<diff, report, page, audit, verdict>>

\* A job that needs one that did not succeed does not run.
SkipForNeed(job) ==
  /\ job \in {"audit", "cross-platform"}
  /\ Over("changes") /\ result["changes"] # "success"
  /\ EndsAs(job, "skipped")
  /\ UNCHANGED <<diff, report, page, audit, verdict>>

\* What audit.sh may exit with: no advisory, an advisory, nothing audited.
ExitCode == {0, 1, 4}

\* Mutant: an exit code is taken for an answer of two values.
AuditSaysTwoThings(rc) ==
  [advisory |-> "false", result |-> IF rc = 0 THEN "success" ELSE "failure"]

\* Three exit codes, and the diff decides between two of them.
AuditSays(rc) ==
  CASE rc = 0 -> [advisory |-> "false", result |-> "success"]
    [] rc = 4 -> [advisory |-> "true", result |-> "success"]
    [] OTHER  -> IF Deps THEN [advisory |-> "false", result |-> "failure"]
                         ELSE [advisory |-> "true", result |-> "success"]

RunAudit(rc) ==
  /\ Over("changes") /\ result["changes"] = "success"
  /\ EndsAs("audit", AuditSays(rc).result)
  /\ audit' = [rc |-> rc, advisory |-> AuditSays(rc).advisory, broke |-> FALSE]
  /\ UNCHANGED <<diff, report, page, verdict>>

\* The job breaks off before audit.sh has said anything, in the middle of publishing what it
\* said, or in the Summary that follows.
AuditBreaks ==
  /\ Over("changes") /\ result["changes"] = "success"
  /\ \E r \in {"failure", "cancelled"} : EndsAs("audit", r)
  /\ \/ audit' = [audit EXCEPT !.broke = TRUE]
     \/ \E rc \in ExitCode : \E advisory \in {None, AuditSays(rc).advisory} :
          audit' = [rc |-> rc, advisory |-> advisory, broke |-> TRUE]
  /\ UNCHANGED <<diff, report, page, verdict>>

\* `if: always()`, after the audit: a raised signal reddens a check nothing requires.
RunAdvisory ==
  /\ Over("changes") /\ Over("audit")
  /\ EndsAs("ci-advisory", IF audit.advisory = "true" THEN "failure" ELSE "success")
  /\ UNCHANGED <<diff, report, page, audit, verdict>>

Asked == diff.asked \/ CiSelf
RunCrossPlatform ==
  /\ Over("changes") /\ result["changes"] = "success"
  /\ \E r \in IF Asked THEN {"success", "failure", "cancelled"} ELSE {"skipped"} :
       EndsAs("cross-platform", r)
  /\ UNCHANGED <<diff, report, page, audit, verdict>>

-----------------------------------------------------------------------------
(* CI passed.                                                              *)

ADVISORY == {"ci-advisory"}
TRIGGER_ROUTED == {"cross-platform"}
Cleared == MaySkip \cup TRIGGER_ROUTED \cup ADVISORY

\* Mutant: what did not fail is fine.
RefusedOfFailures == {job \in Job \ ADVISORY : result[job] = "failure"}

\* render_verdict: the router must have succeeded; the others too, or have been skipped for a
\* reason published in advance; the advisory is not asked.
Refused ==
  {job \in Job \ ADVISORY :
     /\ result[job] # "success"
     /\ ~(job # "changes" /\ result[job] = "skipped" /\ job \in Cleared)}

\* The reporter writes `ok`, or breaks and writes nothing; the gate wants an explicit true.
RunVerdict ==
  /\ \A job \in Job : Over(job)
  /\ verdict.result = None
  /\ \E ok \in {IF Refused = {} THEN "true" ELSE "false", None} :
       verdict' = [ok |-> ok, refused |-> Refused,
                   result |-> IF ok = "true" THEN "success" ELSE "failure"]
  /\ UNCHANGED <<diff, result, report, page, audit>>

-----------------------------------------------------------------------------
\* What a runner may leave behind for a suite; nothing counts beyond what is declared.
Reports(suite) ==
  {None} \cup [bdd : IF suite = "e2e" THEN 0..Declared ELSE {0}, others : 0..1,
               failed : BOOLEAN]

Next ==
  \/ \E job \in Job : RunAlone(job) \/ SkipForNeed(job)
  \/ \E suite \in Suite :
       \/ CancelSuite(suite)
       \/ \E r \in Reports(suite), beside \in BOOLEAN : RunSuite(suite, r, beside)
  \/ \E rc \in ExitCode : RunAudit(rc)
  \/ AuditBreaks \/ RunAdvisory \/ RunCrossPlatform \/ RunVerdict

Spec == Init /\ [][Next]_vars

-----------------------------------------------------------------------------
(* Properties.                                                             *)

\* Every job is over in one of the four ways, and the pages, the audit and the verdict hold
\* what their writers may write.
TypeOK ==
  /\ diff \in Diffs
  /\ result \in [Job -> Result \cup {None}]
  /\ report \in [Suite -> Report \cup {None}]
  /\ page \in [Suite -> {"No report.", "Failed.", "Passed.", None}]
  /\ audit \in [rc : ExitCode \cup {None}, advisory : {"true", "false", None}, broke : BOOLEAN]
  /\ verdict \in [ok : {"true", "false", None}, refused : SUBSET Job,
                  result : {"success", "failure", None}]

Green == verdict.result = "success"

\* A green run answered every question it was asked: no job that failed, was cancelled, or
\* never ran because one before it died is under it, and the macOS leg is missing only where
\* nothing asked for it.  A dependency with a known advisory does not come in on the change
\* that brings it (ci.yml, `CI passed`; ci_summary.py, _ROUTER).
GreenIsAnswered ==
  Green =>
    /\ \A job \in Job \ {"ci-advisory", "cross-platform"} : result[job] = "success"
    /\ result["cross-platform"] = "success" \/ ~Asked
    /\ ~(audit.rc = 1 /\ Deps)

\* A suite that ran and found nothing turns no check green, nor one that lost some of its
\* scenarios (ci_summary.py, census; scenario_census.py).
GreenRanItsSuites ==
  Green => \A suite \in Suite :
             /\ report[suite] # None /\ Total(report[suite]) > 0
             /\ suite = "e2e" => report[suite].bdd \in {0, Declared}

\* The signals block nothing.  Unless the reporter broke, a run that is refused names jobs,
\* and every job it names failed or was cancelled - the advisory is never among them.  The
\* audit is named for an advisory only where the run touches the dependencies, never for one
\* nobody could ask for; else it never ran, for the router did not succeed, or it broke off
\* (ci.yml, `audit` and `CI passed`).
RefusedForACause ==
  verdict.result = "failure" =>
    /\ verdict.ok = None \/ verdict.refused # {}
    /\ \A job \in verdict.refused \ {"audit"} :
         job # "ci-advisory" /\ result[job] \in {"failure", "cancelled"}
    /\ "audit" \in verdict.refused =>
         result["changes"] # "success" \/ (audit.rc = 1 /\ Deps) \/ audit.broke

\* scenario_census.py:136-137: the Gherkin suite that "stopped being collected ... is the
\* silence this census exists to break".
EveryScenarioRan == Green => report["e2e"].bdd = Declared
=============================================================================
