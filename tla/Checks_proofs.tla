---------------------------- MODULE Checks_proofs ----------------------------
(***************************************************************************)
(* Proofs about the two checks a change has to pass: the run of CI (CiRun) *)
(* and the gate of the contract (ContractGate), which share no state.      *)
(*                                                                         *)
(* CiRun, for every set of jobs, every set of diffs and every number of    *)
(* scenarios: a green verdict speaks of results, reports and an audit      *)
(* written long before it.  The invariant ties each of them to the result  *)
(* of its job when the job ends, and a job ends once.                      *)
(*                                                                         *)
(* ContractGate, for every set of routes, schemas, fields and codes and    *)
(* for any two documents: what the nested comparison finds, level by       *)
(* level, is what a flat reading of the sentences finds; and what was once *)
(* merged stays a pair the gate has passed, wherever the alias goes.       *)
(***************************************************************************)
EXTENDS CiRun, ContractGate, TLAPS

\* The jobs whose skip the model can produce, and what each says.
SkipsAreRead ==
  \A job \in Job : result[job] = "skipped" =>
    \/ job \in {"audit", "cross-platform"} /\ result["changes"] \notin {"success", None}
    \/ job = "cross-platform" /\ ~Asked

\* A suite is green over a report that holds something.
SuitesAreRead ==
  \A suite \in Suite : result[suite] = "success" =>
    /\ report[suite] # None /\ Total(report[suite]) > 0
    /\ suite = "e2e" => report[suite].bdd \in {0, Declared}

\* What audit.sh said decides what its job reports, unless the job broke off.
AuditIsRead ==
  /\ audit.rc = 1 /\ Deps => result["audit"] \in {"failure", "cancelled"}
  /\ result["audit"] \in {"failure", "cancelled"} => (audit.rc = 1 /\ Deps) \/ audit.broke

\* The verdict is given once every job is over, and over their results.
VerdictIsRead ==
  verdict.result # None =>
    /\ \A job \in Job : result[job] # None
    /\ verdict.refused = Refused
    /\ verdict.result = "success" <=> verdict.ok = "true"
    /\ verdict.ok \in {IF Refused = {} THEN "true" ELSE "false", None}

IInv == TypeOK /\ SkipsAreRead /\ SuitesAreRead /\ AuditIsRead /\ VerdictIsRead

-----------------------------------------------------------------------------
(* CI: types.                                                              *)

LEMMA InitTypeOK == Init => TypeOK
  BY CiAssumption DEF Init, TypeOK

LEMMA ReportsType == ASSUME NEW suite \in Suite, NEW r \in Reports(suite)
                     PROVE  r \in Report \cup {None}
<1>1. CASE r = None BY <1>1
<1>2. CASE suite = "e2e" /\ r # None
  <2>1. 0..Declared \subseteq Nat /\ 0..1 \subseteq Nat BY CiAssumption
  <2>. QED BY <1>2, <2>1 DEF Reports, Report
<1>3. CASE suite # "e2e" /\ r # None
  <2>1. {0} \subseteq Nat /\ 0..1 \subseteq Nat OBVIOUS
  <2>. QED BY <1>3, <2>1 DEF Reports, Report
<1>. QED BY <1>1, <1>2, <1>3

\* Whatever ends a job leaves the others alone.
LEMMA EndsAsType ==
  ASSUME TypeOK, NEW job \in Job, NEW r \in Result, EndsAs(job, r)
  PROVE  /\ result[job] = None
         /\ result' \in [Job -> Result \cup {None}]
         /\ result'[job] = r
         /\ \A other \in Job : other # job => result'[other] = result[other]
<1>1. result \in [Job -> Result \cup {None}] BY Zenon DEF TypeOK
<1>2. result[job] = None /\ result' = [result EXCEPT ![job] = r]
  BY Zenon DEF EndsAs, Over
<1>. QED BY <1>1, <1>2

\* A job that publishes nothing but its result.
LEMMA ResultAlone ==
  ASSUME TypeOK, NEW job \in Job, NEW r \in Result, EndsAs(job, r),
         UNCHANGED <<diff, report, page, audit, verdict>>
  PROVE  TypeOK'
<1>1. result' \in [Job -> Result \cup {None}] BY EndsAsType, Zenon
<1>. QED BY <1>1 DEF TypeOK

LEMMA StepTypeOK == TypeOK /\ [Next]_vars => TypeOK'
<1>. SUFFICES ASSUME TypeOK, [Next]_vars PROVE TypeOK'
  OBVIOUS
<1>. USE CiAssumption
<1>1. ASSUME NEW job \in Job, RunAlone(job) PROVE TypeOK'
  <2>1. PICK r \in Result : EndsAs(job, r) BY <1>1 DEF RunAlone, Result
  <2>. QED BY <1>1, <2>1, ResultAlone, Zenon DEF RunAlone
<1>2. ASSUME NEW job \in Job, SkipForNeed(job) PROVE TypeOK'
  BY <1>2, EndsAsType DEF SkipForNeed, Result, TypeOK
<1>3. ASSUME NEW suite \in Suite, CancelSuite(suite) PROVE TypeOK'
  <2>1. suite \in Job BY DEF Job
  <2>. QED BY <1>3, <2>1, EndsAsType DEF CancelSuite, Result, TypeOK
<1>4. ASSUME NEW suite \in Suite, NEW r \in Reports(suite), NEW beside \in BOOLEAN,
             RunSuite(suite, r, beside)
      PROVE  TypeOK'
  <2>1. suite \in Job BY DEF Job
  <2>2. r \in Report \cup {None} BY ReportsType
  <2>3. PICK status \in {"success", "failure"} :
          /\ page' = [page EXCEPT ![suite] = PageOf(r, status)]
          /\ EndsAs(suite, IF Census(suite, r) = 0 THEN status ELSE "failure")
    <3>1. CASE beside /\ StepsPass(suite, r) BY <1>4, <3>1 DEF RunSuite
    <3>2. CASE ~(beside /\ StepsPass(suite, r)) BY <1>4, <3>2 DEF RunSuite
    <3>. QED BY <3>1, <3>2
  <2>4. PageOf(r, status) \in {"No report.", "Failed.", "Passed.", None} BY DEF PageOf
  <2>5. page' \in [Suite -> {"No report.", "Failed.", "Passed.", None}]
    BY <2>3, <2>4 DEF TypeOK
  <2>6. report' \in [Suite -> Report \cup {None}] BY <1>4, <2>2 DEF RunSuite, TypeOK
  <2>7. result' \in [Job -> Result \cup {None}]
    BY <2>1, <2>3, EndsAsType DEF Result
  <2>. QED BY <1>4, <2>5, <2>6, <2>7 DEF RunSuite, TypeOK
<1>5. ASSUME NEW rc \in ExitCode, RunAudit(rc) PROVE TypeOK'
  <2>1. AuditSays(rc).result \in Result /\ AuditSays(rc).advisory \in {"true", "false"}
    BY DEF AuditSays, Result
  <2>2. "audit" \in Job BY DEF Job
  <2>a. EndsAs("audit", AuditSays(rc).result) BY <1>5, Zenon DEF RunAudit
  <2>3. result' \in [Job -> Result \cup {None}] BY <2>1, <2>2, <2>a, EndsAsType, Zenon
  <2>. QED BY <1>5, <2>1, <2>3 DEF RunAudit, TypeOK
<1>6. CASE AuditBreaks
  <2>1. "audit" \in Job BY DEF Job
  <2>2. PICK r \in Result : EndsAs("audit", r) BY <1>6 DEF AuditBreaks, Result
  <2>3. result' \in [Job -> Result \cup {None}] BY <2>1, <2>2, EndsAsType, Zenon
  <2>4. audit' \in [rc : ExitCode \cup {None}, advisory : {"true", "false", None}, broke : BOOLEAN]
    <3>1. CASE audit' = [audit EXCEPT !.broke = TRUE] BY <3>1 DEF TypeOK
    <3>2. ASSUME NEW rc \in ExitCode, NEW advisory \in {None, AuditSays(rc).advisory},
                 audit' = [rc |-> rc, advisory |-> advisory, broke |-> TRUE]
          PROVE  audit' \in [rc : ExitCode \cup {None}, advisory : {"true", "false", None},
                             broke : BOOLEAN]
      <4>1. AuditSays(rc).advisory \in {"true", "false"} BY DEF AuditSays
      <4>. QED BY <3>2, <4>1
    <3>. QED BY <1>6, <3>1, <3>2 DEF AuditBreaks
  <2>. QED BY <1>6, <2>3, <2>4 DEF AuditBreaks, TypeOK
<1>7. CASE RunAdvisory
  <2>1. "ci-advisory" \in Job BY DEF Job
  <2>2. PICK r \in Result : EndsAs("ci-advisory", r) BY <1>7 DEF RunAdvisory, Result
  <2>. QED BY <1>7, <2>1, <2>2, ResultAlone, Zenon DEF RunAdvisory
<1>8. CASE RunCrossPlatform
  <2>1. "cross-platform" \in Job BY DEF Job
  <2>2. result' \in [Job -> Result \cup {None}]
    <3>1. CASE Asked BY <1>8, <2>1, <3>1, EndsAsType DEF RunCrossPlatform, Result
    <3>2. CASE ~Asked BY <1>8, <2>1, <3>2, EndsAsType DEF RunCrossPlatform, Result
    <3>. QED BY <3>1, <3>2
  <2>. QED BY <1>8, <2>2 DEF RunCrossPlatform, TypeOK
<1>9. CASE RunVerdict
  <2>1. Refused \in SUBSET Job BY DEF Refused
  <2>2. PICK ok \in {"true", "false", None} :
          verdict' = [ok |-> ok, refused |-> Refused,
                      result |-> IF ok = "true" THEN "success" ELSE "failure"]
    <3>1. (IF Refused = {} THEN "true" ELSE "false") \in {"true", "false"} OBVIOUS
    <3>. QED BY <1>9, <3>1 DEF RunVerdict
  <2>. QED BY <1>9, <2>1, <2>2 DEF RunVerdict, TypeOK
<1>10. CASE UNCHANGED vars
  BY <1>10 DEF vars, TypeOK
<1>. QED BY <1>1, <1>2, <1>3, <1>4, <1>5, <1>6, <1>7, <1>8, <1>9, <1>10 DEF Next

\* Jobs, pages, the audit and the verdict hold what the workflow may put there.
THEOREM TypeCorrect == Spec => []TypeOK
<1>. QED BY InitTypeOK, StepTypeOK, PTL DEF Spec

-----------------------------------------------------------------------------
(* CI: safety.                                                             *)

LEMMA InitIInv == Init => IInv
<1>. SUFFICES ASSUME Init PROVE IInv OBVIOUS
<1>1. TypeOK BY InitTypeOK
<1>2. SkipsAreRead BY CiAssumption DEF Init, SkipsAreRead
<1>3. SuitesAreRead
  <2>1. Suite \subseteq Job BY DEF Job
  <2>. QED BY <2>1, CiAssumption DEF Init, SuitesAreRead
<1>4. AuditIsRead
  <2>1. "audit" \in Job BY DEF Job
  <2>2. result["audit"] = None /\ audit.rc = None BY <2>1 DEF Init
  <2>3. None # 1 /\ None \notin {"failure", "cancelled"} BY CiAssumption
  <2>. QED BY <2>2, <2>3 DEF AuditIsRead
<1>5. VerdictIsRead BY CiAssumption DEF Init, VerdictIsRead
<1>. QED BY <1>1, <1>2, <1>3, <1>4, <1>5 DEF IInv

\* A job that ends for a reason keeps every conjunct.
LEMMA JobEnds ==
  ASSUME IInv, NEW job \in Job, NEW r \in Result, EndsAs(job, r),
         diff' = diff, verdict' = verdict,
         r = "skipped" => \/ /\ job \in {"audit", "cross-platform"}
                             /\ result["changes"] \notin {"success", None}
                          \/ job = "cross-platform" /\ ~Asked,
         \A suite \in Suite : suite # job => report'[suite] = report[suite],
         job \in Suite /\ r = "success" =>
           /\ report'[job] # None /\ Total(report'[job]) > 0
           /\ job = "e2e" => report'[job].bdd \in {0, Declared},
         job # "audit" => audit' = audit,
         job = "audit" =>
           /\ audit'.rc = 1 /\ Deps => r \in {"failure", "cancelled"}
           /\ r \in {"failure", "cancelled"} => (audit'.rc = 1 /\ Deps) \/ audit'.broke
  PROVE  SkipsAreRead' /\ SuitesAreRead' /\ AuditIsRead' /\ VerdictIsRead'
<1>1. /\ result[job] = None
      /\ result'[job] = r
      /\ \A other \in Job : other # job => result'[other] = result[other]
  BY EndsAsType DEF IInv
<1>2. "changes" \in Job /\ Suite \subseteq Job /\ "audit" \in Job BY DEF Job
<1>3. SkipsAreRead'
  <2>. SUFFICES ASSUME NEW other \in Job, result'[other] = "skipped"
                PROVE  \/ /\ other \in {"audit", "cross-platform"}
                          /\ result'["changes"] \notin {"success", None}
                       \/ other = "cross-platform" /\ ~Asked
    BY DEF SkipsAreRead, Asked, CiSelf
  <2>1. \/ other \in {"audit", "cross-platform"} /\ result["changes"] \notin {"success", None}
        \/ other = "cross-platform" /\ ~Asked
    <3>1. CASE other = job BY <1>1, <3>1
    <3>2. CASE other # job BY <1>1, <3>2 DEF IInv, SkipsAreRead
    <3>. QED BY <3>1, <3>2
  <2>2. result["changes"] \notin {"success", None} => result'["changes"] = result["changes"]
    BY <1>1, <1>2
  <2>. QED BY <2>1, <2>2
<1>4. SuitesAreRead'
  <2>. SUFFICES ASSUME NEW suite \in Suite, result'[suite] = "success"
                PROVE  /\ report'[suite] # None /\ Total(report'[suite]) > 0
                       /\ suite = "e2e" => report'[suite].bdd \in {0, Declared}
    BY DEF SuitesAreRead, Total
  <2>1. CASE suite = job BY <1>1, <2>1
  <2>2. CASE suite # job BY <1>1, <1>2, <2>2 DEF IInv, SuitesAreRead
  <2>. QED BY <2>1, <2>2
<1>5. AuditIsRead'
  <2>1. Deps' = Deps BY DEF Deps
  <2>2. CASE job = "audit" BY <1>1, <2>1, <2>2 DEF AuditIsRead
  <2>3. CASE job # "audit" BY <1>1, <1>2, <2>1, <2>3 DEF IInv, AuditIsRead
  <2>. QED BY <2>2, <2>3
<1>6. VerdictIsRead'
  BY <1>1, CiAssumption DEF IInv, VerdictIsRead
<1>. QED BY <1>3, <1>4, <1>5, <1>6

\* A suite that is green over its census has a report with something in it.
LEMMA GreenSuite ==
  ASSUME NEW suite \in Suite, NEW r \in Reports(suite), StepsPass(suite, r),
         Census(suite, r) = 0
  PROVE  /\ r # None /\ Total(r) > 0
         /\ suite = "e2e" => r.bdd \in {0, Declared}
<1>1. r # None BY DEF Census, StepsPass, Suite
<1>2. r \in Report BY <1>1, ReportsType
<1>3. Total(r) \in Nat BY <1>2 DEF Report, Total
<1>4. Total(r) # 0 BY <1>1 DEF Census
<1>5. ASSUME suite = "e2e" PROVE r.bdd \in {0, Declared}
  BY <1>1, <1>5 DEF StepsPass, ScenarioCensus
<1>. QED BY <1>1, <1>3, <1>4, <1>5

LEMMA StepIInv == IInv /\ [Next]_vars => IInv'
<1>. SUFFICES ASSUME IInv, [Next]_vars PROVE IInv'
  OBVIOUS
<1>. DEFINE Rest == SkipsAreRead' /\ SuitesAreRead' /\ AuditIsRead' /\ VerdictIsRead'
<1>0. TypeOK' BY StepTypeOK DEF IInv
<1>. USE CiAssumption
<1>1. ASSUME NEW job \in Job, RunAlone(job) PROVE Rest
  <2>1. PICK r \in {"success", "failure", "cancelled"} : EndsAs(job, r)
    BY <1>1 DEF RunAlone
  <2>2. r \in Result /\ r # "skipped" BY DEF Result
  <2>3. job \notin Suite BY <1>1 DEF RunAlone, Suite
  <2>. QED BY <1>1, <2>1, <2>2, <2>3, JobEnds DEF RunAlone
<1>2. ASSUME NEW job \in Job, SkipForNeed(job) PROVE Rest
  <2>1. EndsAs(job, "skipped") /\ "skipped" \in Result BY <1>2 DEF SkipForNeed, Result
  <2>2. result["changes"] \notin {"success", None} BY <1>2 DEF SkipForNeed, Over
  <2>3. job \in {"audit", "cross-platform"} /\ job \notin Suite BY <1>2 DEF SkipForNeed, Suite
  <2>4. diff' = diff /\ verdict' = verdict /\ audit' = audit /\ report' = report
    BY <1>2 DEF SkipForNeed
  <2>5. ASSUME job = "audit"
        PROVE  /\ ~(audit'.rc = 1 /\ Deps)
               /\ "skipped" \notin {"failure", "cancelled"}
    <3>1. result["audit"] = None BY <2>1, <2>5, EndsAsType DEF IInv
    <3>2. None \notin {"failure", "cancelled"} OBVIOUS
    <3>3. ~(audit.rc = 1 /\ Deps) BY <3>1, <3>2 DEF IInv, AuditIsRead
    <3>. QED BY <2>4, <3>3
  <2>. QED BY <2>1, <2>2, <2>3, <2>4, <2>5, JobEnds
<1>3. ASSUME NEW suite \in Suite, CancelSuite(suite) PROVE Rest
  <2>1. suite \in Job /\ suite # "audit" BY DEF Job, Suite
  <2>2. EndsAs(suite, "cancelled") /\ "cancelled" \in Result BY <1>3 DEF CancelSuite, Result
  <2>3. diff' = diff /\ verdict' = verdict /\ audit' = audit
        /\ \A other \in Suite : other # suite => report'[other] = report[other]
    BY <1>3 DEF CancelSuite, IInv, TypeOK
  <2>. QED BY <2>1, <2>2, <2>3, JobEnds
<1>4. ASSUME NEW suite \in Suite, NEW r \in Reports(suite), NEW beside \in BOOLEAN,
             RunSuite(suite, r, beside)
      PROVE  Rest
  <2>1. suite \in Job /\ suite # "audit" BY DEF Job, Suite
  <2>2. report' = [report EXCEPT ![suite] = r] BY <1>4 DEF RunSuite
  <2>3. report'[suite] = r /\ \A other \in Suite : other # suite => report'[other] = report[other]
    BY <2>2 DEF IInv, TypeOK
  <2>4. PICK end \in {"success", "failure"} :
          /\ EndsAs(suite, end)
          /\ end = "success" => StepsPass(suite, r) /\ Census(suite, r) = 0
    <3>1. CASE beside /\ StepsPass(suite, r) /\ Census(suite, r) = 0
      BY <1>4, <3>1 DEF RunSuite
    <3>2. CASE ~(beside /\ StepsPass(suite, r)) \/ Census(suite, r) # 0
      BY <1>4, <3>2 DEF RunSuite
    <3>. QED BY <3>1, <3>2
  <2>5. end \in Result /\ end # "skipped" BY DEF Result
  <2>6. end = "success" =>
          /\ report'[suite] # None /\ Total(report'[suite]) > 0
          /\ suite = "e2e" => report'[suite].bdd \in {0, Declared}
    BY <2>3, <2>4, GreenSuite
  <2>7. diff' = diff /\ verdict' = verdict /\ audit' = audit BY <1>4 DEF RunSuite
  <2>. QED BY <2>1, <2>3, <2>4, <2>5, <2>6, <2>7, JobEnds
<1>5. ASSUME NEW rc \in ExitCode, RunAudit(rc) PROVE Rest
  <2>1. "audit" \in Job /\ "audit" \notin Suite BY DEF Job, Suite
  <2>2. AuditSays(rc).result \in Result /\ AuditSays(rc).result # "skipped"
    BY DEF AuditSays, Result
  <2>3. audit'.rc = rc BY <1>5 DEF RunAudit
  <2>4. /\ rc = 1 /\ Deps => AuditSays(rc).result = "failure"
        /\ AuditSays(rc).result \in {"failure", "cancelled"} => rc = 1 /\ Deps
    BY DEF AuditSays, ExitCode
  <2>5. /\ EndsAs("audit", AuditSays(rc).result)
        /\ diff' = diff /\ verdict' = verdict /\ report' = report
    BY <1>5 DEF RunAudit
  <2>. QED BY <2>1, <2>2, <2>3, <2>4, <2>5, JobEnds
<1>6. ASSUME AuditBreaks PROVE Rest
  <2>1. "audit" \in Job /\ "audit" \notin Suite BY DEF Job, Suite
  <2>2. PICK r \in {"failure", "cancelled"} : EndsAs("audit", r) BY <1>6 DEF AuditBreaks
  <2>3. r \in Result /\ r # "skipped" BY DEF Result
  <2>4. audit'.broke = TRUE
    <3>1. CASE audit' = [audit EXCEPT !.broke = TRUE] BY <3>1 DEF IInv, TypeOK
    <3>2. ASSUME NEW rc \in ExitCode, NEW advisory,
                 audit' = [rc |-> rc, advisory |-> advisory, broke |-> TRUE]
          PROVE  audit'.broke = TRUE
      BY <3>2
    <3>. QED BY <1>6, <3>1, <3>2 DEF AuditBreaks
  <2>5. diff' = diff /\ verdict' = verdict /\ report' = report BY <1>6 DEF AuditBreaks
  <2>. QED BY <2>1, <2>2, <2>3, <2>4, <2>5, JobEnds
<1>7. ASSUME RunAdvisory PROVE Rest
  <2>1. "ci-advisory" \in Job /\ "ci-advisory" \notin Suite BY DEF Job, Suite
  <2>2. PICK r \in {"success", "failure"} : EndsAs("ci-advisory", r) BY <1>7 DEF RunAdvisory
  <2>3. r \in Result /\ r # "skipped" BY DEF Result
  <2>. QED BY <1>7, <2>1, <2>2, <2>3, JobEnds DEF RunAdvisory
<1>8. ASSUME RunCrossPlatform PROVE Rest
  <2>1. "cross-platform" \in Job /\ "cross-platform" \notin Suite BY DEF Job, Suite
  <2>2. PICK r \in Result : EndsAs("cross-platform", r) /\ (r = "skipped" => ~Asked)
    <3>1. CASE Asked BY <1>8, <3>1 DEF RunCrossPlatform, Result
    <3>2. CASE ~Asked BY <1>8, <3>2 DEF RunCrossPlatform, Result
    <3>. QED BY <3>1, <3>2
  <2>. QED BY <1>8, <2>1, <2>2, JobEnds DEF RunCrossPlatform
<1>9. ASSUME RunVerdict PROVE Rest
  <2>1. SkipsAreRead' /\ SuitesAreRead' /\ AuditIsRead'
    BY <1>9 DEF RunVerdict, IInv, SkipsAreRead, SuitesAreRead, AuditIsRead, Asked, CiSelf, Deps,
                Total
  <2>2. Refused' = Refused
    BY <1>9 DEF RunVerdict, Refused, Cleared, MaySkip
  <2>3. PICK ok \in {IF Refused = {} THEN "true" ELSE "false", None} :
          verdict' = [ok |-> ok, refused |-> Refused,
                      result |-> IF ok = "true" THEN "success" ELSE "failure"]
    BY <1>9 DEF RunVerdict
  <2>4. (\A job \in Job : result[job] # None) /\ result' = result
    BY <1>9 DEF RunVerdict, Over
  <2>5. VerdictIsRead'
    BY <2>2, <2>3, <2>4 DEF VerdictIsRead
  <2>. QED BY <2>1, <2>5
<1>10. ASSUME UNCHANGED vars PROVE Rest
  BY <1>10 DEF vars, IInv, SkipsAreRead, SuitesAreRead, AuditIsRead, VerdictIsRead, Asked,
               CiSelf, Deps, Total, Refused, Cleared, MaySkip
<1>. QED
  BY <1>0, <1>1, <1>2, <1>3, <1>4, <1>5, <1>6, <1>7, <1>8, <1>9, <1>10 DEF Next, IInv

LEMMA Inductive == Spec => []IInv
<1>. QED BY InitIInv, StepIInv, PTL DEF Spec

\* A verdict that is green refuses nobody.
LEMMA GreenRefusesNobody == ASSUME IInv, Green PROVE Refused = {}
<1>1. verdict.ok = "true" /\ verdict.ok \in {IF Refused = {} THEN "true" ELSE "false", None}
  BY CiAssumption DEF IInv, VerdictIsRead, Green
<1>. QED BY <1>1, CiAssumption

\* A green run had every question it was asked answered.
THEOREM GreenAnswered == Spec => []GreenIsAnswered
<1>1. ASSUME IInv PROVE GreenIsAnswered
  <2>. SUFFICES ASSUME Green PROVE
         /\ \A job \in Job \ {"ci-advisory", "cross-platform"} : result[job] = "success"
         /\ result["cross-platform"] = "success" \/ ~Asked
         /\ ~(audit.rc = 1 /\ Deps)
    BY DEF GreenIsAnswered
  <2>1. Refused = {} BY <1>1, GreenRefusesNobody
  <2>2. {"changes", "audit", "cross-platform"} \subseteq Job BY DEF Job
  <2>3. result["changes"] = "success" BY <2>1, <2>2 DEF Refused, ADVISORY
  <2>4. \A job \in Job : result[job] = "skipped" => job = "cross-platform" /\ ~Asked
    BY <1>1, <2>3 DEF IInv, SkipsAreRead
  <2>5. \A job \in Job \ {"ci-advisory"} : result[job] \in {"success", "skipped"}
    BY <2>1 DEF Refused, ADVISORY
  <2>6. result["audit"] = "success" BY <2>2, <2>4, <2>5
  <2>7. ~(audit.rc = 1 /\ Deps) BY <1>1, <2>6 DEF IInv, AuditIsRead
  <2>. QED BY <2>2, <2>4, <2>5, <2>7
<1>. QED BY <1>1, Inductive, PTL

\* Neither suite is green over nothing, nor the end-to-end one over some of its scenarios.
THEOREM GreenRan == Spec => []GreenRanItsSuites
<1>1. ASSUME IInv PROVE GreenRanItsSuites
  <2>. SUFFICES ASSUME Green PROVE \A suite \in Suite : result[suite] = "success"
    BY <1>1 DEF GreenRanItsSuites, IInv, SuitesAreRead
  <2>1. Refused = {} BY <1>1, GreenRefusesNobody
  <2>2. Suite \subseteq Job /\ "changes" \in Job BY DEF Job
  <2>3. result["changes"] = "success" BY <2>1, <2>2 DEF Refused, ADVISORY
  <2>. TAKE suite \in Suite
  <2>4. suite \in Job /\ suite \notin {"ci-advisory", "cross-platform"} BY <2>2 DEF Suite
  <2>5. result[suite] # "skipped" BY <1>1, <2>3, <2>4 DEF IInv, SkipsAreRead
  <2>. QED BY <2>1, <2>4, <2>5 DEF Refused, ADVISORY
<1>. QED BY <1>1, Inductive, PTL

\* Whatever refuses a run is a job that failed or was cancelled, and the audit only over what
\* the run brings in, or for not having been made: never what only informs.
THEOREM RefusedWithCause == Spec => []RefusedForACause
<1>1. ASSUME IInv PROVE RefusedForACause
  <2>. SUFFICES ASSUME verdict.result = "failure"
                PROVE  /\ verdict.ok = None \/ verdict.refused # {}
                       /\ \A job \in verdict.refused \ {"audit"} :
                            job # "ci-advisory" /\ result[job] \in {"failure", "cancelled"}
                       /\ "audit" \in verdict.refused =>
                            \/ result["changes"] # "success"
                            \/ audit.rc = 1 /\ Deps
                            \/ audit.broke
    BY DEF RefusedForACause
  <2>1. /\ \A job \in Job : result[job] # None
        /\ verdict.refused = Refused
        /\ verdict.ok = None \/ Refused # {}
    BY <1>1, CiAssumption DEF IInv, VerdictIsRead
  <2>2. ASSUME NEW job \in Refused
        PROVE  /\ job \in Job \ {"ci-advisory"}
               /\ result[job] \in {"failure", "cancelled", "skipped"}
               /\ result[job] = "skipped" => job = "audit" /\ result["changes"] # "success"
    <3>1. /\ job \in Job \ {"ci-advisory"} /\ result[job] # "success"
          /\ ~(job # "changes" /\ result[job] = "skipped" /\ job \in Cleared)
      BY DEF Refused, ADVISORY
    <3>2. result[job] \in Result BY <1>1, <2>1, <3>1 DEF IInv, TypeOK
    <3>3. job # "cross-platform" \/ result[job] # "skipped"
      BY <3>1 DEF Cleared, TRIGGER_ROUTED
    <3>4. result[job] = "skipped" => job = "audit" /\ result["changes"] # "success"
      BY <1>1, <3>1, <3>3 DEF IInv, SkipsAreRead
    <3>. QED BY <3>1, <3>2, <3>4 DEF Result
  <2>3. "audit" \in Refused =>
          result["changes"] # "success" \/ (audit.rc = 1 /\ Deps) \/ audit.broke
    BY <1>1, <2>2 DEF IInv, AuditIsRead
  <2>. QED BY <2>1, <2>2, <2>3
<1>. QED BY <1>1, Inductive, PTL

-----------------------------------------------------------------------------
(* The contract: the sentences of a document.                              *)

\* What an operation says, read off a sentence of it.
LEMMA OperationSays ==
  ASSUME NEW r, NEW op, NEW e \in OfOperation(r, op)
  PROVE  \/ e[1] = "path" /\ e[2] = PathOf[r]
         \/ e[1] = "method" /\ e[2] = r
         \/ e[1] = "response" /\ e[2] = r /\ op.answer # Unsaid
         \/ e[1] = "answers with" /\ e[2] = r /\ op.answer \in Schemas /\ e[3] = op.answer
         \/ /\ op.param # Unsaid /\ e[2] = r
            /\ \/ e[1] = "parameter"
               \/ e[1] = "in" /\ e[3] = op.param.where
               \/ e[1] = "required" /\ e[3] = op.param.required
               \/ e[1] = "points at" /\ op.param.of # Unsaid /\ e[3] = op.param.of
<1>1. \/ e = <<"path", PathOf[r]>>
      \/ e = <<"method", r>>
      \/ op.answer # Unsaid /\ e = <<"response", r>>
      \/ op.answer \in Schemas /\ e = <<"answers with", r, op.answer>>
      \/ /\ op.param # Unsaid
         /\ \/ e = <<"parameter", r>>
            \/ e = <<"in", r, op.param.where>>
            \/ e = <<"required", r, op.param.required>>
            \/ op.param.of # Unsaid /\ e = <<"points at", r, op.param.of>>
  BY DEF OfOperation, When
<1>2. CASE e = <<"path", PathOf[r]>> BY <1>2
<1>3. CASE e = <<"method", r>> BY <1>3
<1>4. CASE op.answer # Unsaid /\ e = <<"response", r>> BY <1>4
<1>5. CASE op.answer \in Schemas /\ e = <<"answers with", r, op.answer>> BY <1>5
<1>6. CASE op.param # Unsaid /\ e = <<"parameter", r>> BY <1>6
<1>7. CASE op.param # Unsaid /\ e = <<"in", r, op.param.where>> BY <1>7
<1>8. CASE op.param # Unsaid /\ e = <<"required", r, op.param.required>>
  <2>1. e[1] = "required" /\ e[2] = r /\ e[3] = op.param.required BY <1>8
  <2>. QED BY <1>8, <2>1
<1>9. CASE op.param # Unsaid /\ op.param.of # Unsaid /\ e = <<"points at", r, op.param.of>>
  BY <1>9
<1>. QED BY <1>1, <1>2, <1>3, <1>4, <1>5, <1>6, <1>7, <1>8, <1>9

LEMMA SchemaSays ==
  ASSUME NEW s, NEW schema, NEW e \in OfSchema(s, schema)
  PROVE  /\ e[2] = s
         /\ \/ e[1] = "schema"
            \/ e[1] = "is" /\ schema.kind # Unsaid /\ e[3] = schema.kind
            \/ e[1] = "field" /\ e[3] \in Listed(schema) /\ e[4] = (e[3] \in Required(schema))
<1>1. \/ e = <<"schema", s>>
      \/ schema.kind # Unsaid /\ e = <<"is", s, schema.kind>>
      \/ \E f \in Listed(schema) : e = <<"field", s, f, f \in Required(schema)>>
  BY DEF OfSchema, When
<1>2. ASSUME NEW f \in Listed(schema), e = <<"field", s, f, f \in Required(schema)>>
      PROVE  e[1] = "field" /\ e[2] = s /\ e[3] = f /\ e[4] = (f \in Required(schema))
  BY <1>2
<1>3. CASE \E f \in Listed(schema) : e = <<"field", s, f, f \in Required(schema)>>
  <2>1. PICK f \in Listed(schema) : e = <<"field", s, f, f \in Required(schema)>> BY <1>3
  <2>. QED BY <1>2, <2>1, Zenon
<1>. QED BY <1>1, <1>3

\* A sentence belongs to an operation, to a schema or to a code.
LEMMA SentenceOf ==
  ASSUME NEW doc, NEW e \in Frozen(doc)
  PROVE  \/ \E r \in Served(doc) : e \in OfOperation(r, doc.ops[r])
         \/ \E s \in Defined(doc) : e \in OfSchema(s, doc.schemas[s])
         \/ e[1] = "refuses" /\ e[2] \in doc.refusals
<1>1. e \in OfOperations(doc) \/ e \in OfSchemas(doc) \/ e \in OfRefusals(doc)
  BY DEF Frozen
<1>2. ASSUME NEW code \in doc.refusals, e = <<"refuses", code>>
      PROVE  e[1] = "refuses" /\ e[2] \in doc.refusals
  BY <1>2
<1>3. e \in OfRefusals(doc) => e[1] = "refuses" /\ e[2] \in doc.refusals
  BY <1>2, Zenon DEF OfRefusals
<1>. QED BY <1>1, <1>3, Zenon DEF OfOperations, OfSchemas

\* What a sentence says holds of a document, whatever part of it is meant.
Holds(doc, e) ==
  /\ e[1] = "path" => e[2] \in Paths(doc)
  /\ e[1] = "method" => e[2] \in Served(doc)
  /\ e[1] = "response" => e[2] \in Served(doc) /\ doc.ops[e[2]].answer # Unsaid
  /\ e[1] = "answers with" => e[2] \in Served(doc) /\ doc.ops[e[2]].answer = e[3]
  /\ e[1] = "parameter" => e[2] \in Served(doc) /\ doc.ops[e[2]].param # Unsaid
  /\ e[1] = "in" => doc.ops[e[2]].param.where = e[3]
  /\ e[1] = "required" => doc.ops[e[2]].param.required = e[3]
  /\ e[1] = "points at" => doc.ops[e[2]].param.of = e[3]
  /\ e[1] = "schema" => e[2] \in Defined(doc)
  /\ e[1] = "is" => doc.schemas[e[2]].kind = e[3]
  /\ e[1] = "field" => /\ e[3] \in Listed(doc.schemas[e[2]])
                       /\ e[4] = (e[3] \in Required(doc.schemas[e[2]]))
  /\ e[1] = "refuses" => e[2] \in doc.refusals

LEMMA SentenceHolds ==
  ASSUME NEW doc, NEW e \in Frozen(doc)
  PROVE  Holds(doc, e)
<1>1. CASE \E r \in Served(doc) : e \in OfOperation(r, doc.ops[r])
  <2>1. PICK r \in Served(doc) : e \in OfOperation(r, doc.ops[r]) BY <1>1
  <2>2. PathOf[r] \in Paths(doc) BY DEF Paths
  <2>. DEFINE op == doc.ops[r]
  <2>3. CASE e[1] = "path" /\ e[2] = PathOf[r] BY <2>2, <2>3 DEF Holds
  <2>4. CASE e[1] = "method" /\ e[2] = r BY <2>1, <2>4 DEF Holds
  <2>5. CASE e[1] = "response" /\ e[2] = r /\ op.answer # Unsaid BY <2>1, <2>5 DEF Holds
  <2>6. CASE e[1] = "answers with" /\ e[2] = r /\ op.answer \in Schemas /\ e[3] = op.answer
    BY <2>1, <2>6 DEF Holds
  <2>7. CASE e[1] = "parameter" /\ e[2] = r /\ op.param # Unsaid BY <2>1, <2>7 DEF Holds
  <2>8. CASE e[1] = "in" /\ e[2] = r /\ e[3] = op.param.where BY <2>1, <2>8 DEF Holds
  <2>9. CASE e[1] = "required" /\ e[2] = r /\ e[3] = op.param.required BY <2>1, <2>9 DEF Holds
  <2>10. CASE e[1] = "points at" /\ e[2] = r /\ e[3] = op.param.of BY <2>1, <2>10 DEF Holds
  <2>. HIDE DEF op
  <2>11. e \in OfOperation(r, op) BY <2>1 DEF op
  <2>12. \/ e[1] = "path" /\ e[2] = PathOf[r]
         \/ e[1] = "method" /\ e[2] = r
         \/ e[1] = "response" /\ e[2] = r /\ op.answer # Unsaid
         \/ e[1] = "answers with" /\ e[2] = r /\ op.answer \in Schemas /\ e[3] = op.answer
         \/ /\ op.param # Unsaid /\ e[2] = r
            /\ \/ e[1] = "parameter"
               \/ e[1] = "in" /\ e[3] = op.param.where
               \/ e[1] = "required" /\ e[3] = op.param.required
               \/ e[1] = "points at" /\ op.param.of # Unsaid /\ e[3] = op.param.of
    BY <2>11, OperationSays, Zenon
  <2>. QED BY <2>3, <2>4, <2>5, <2>6, <2>7, <2>8, <2>9, <2>10, <2>12, Zenon
<1>2. CASE \E s \in Defined(doc) : e \in OfSchema(s, doc.schemas[s])
  <2>1. PICK s \in Defined(doc) : e \in OfSchema(s, doc.schemas[s]) BY <1>2
  <2>2. e[2] = s BY <2>1, SchemaSays
  <2>3. CASE e[1] = "schema" BY <2>1, <2>2, <2>3 DEF Holds
  <2>4. CASE e[1] = "is" /\ e[3] = doc.schemas[s].kind BY <2>2, <2>4 DEF Holds
  <2>5. CASE /\ e[1] = "field" /\ e[3] \in Listed(doc.schemas[s])
             /\ e[4] = (e[3] \in Required(doc.schemas[s]))
    BY <2>2, <2>5 DEF Holds
  <2>. QED BY <2>1, <2>3, <2>4, <2>5, SchemaSays
<1>3. CASE e[1] = "refuses" /\ e[2] \in doc.refusals BY <1>3 DEF Holds
<1>. QED BY <1>1, <1>2, <1>3, SentenceOf

\* And what holds is said.
LEMMA Said ==
  ASSUME NEW doc
  PROVE  /\ \A r \in Served(doc) : OfOperation(r, doc.ops[r]) \subseteq Frozen(doc)
         /\ \A s \in Defined(doc) : OfSchema(s, doc.schemas[s]) \subseteq Frozen(doc)
         /\ \A code \in doc.refusals : <<"refuses", code>> \in Frozen(doc)
<1>1. \A code \in doc.refusals : <<"refuses", code>> \in OfRefusals(doc)
  BY Zenon DEF OfRefusals
<1>2. \A r \in Served(doc) : OfOperation(r, doc.ops[r]) \subseteq OfOperations(doc)
  BY Zenon DEF OfOperations
<1>3. \A s \in Defined(doc) : OfSchema(s, doc.schemas[s]) \subseteq OfSchemas(doc)
  BY Zenon DEF OfSchemas
<1>. QED BY <1>1, <1>2, <1>3 DEF Frozen

LEMMA OperationIsSaid ==
  ASSUME NEW r, NEW op
  PROVE  /\ <<"path", PathOf[r]>> \in OfOperation(r, op)
         /\ <<"method", r>> \in OfOperation(r, op)
         /\ op.answer # Unsaid => <<"response", r>> \in OfOperation(r, op)
         /\ op.answer \in Schemas => <<"answers with", r, op.answer>> \in OfOperation(r, op)
         /\ op.param # Unsaid =>
              /\ <<"parameter", r>> \in OfOperation(r, op)
              /\ <<"in", r, op.param.where>> \in OfOperation(r, op)
              /\ <<"required", r, op.param.required>> \in OfOperation(r, op)
              /\ op.param.of # Unsaid => <<"points at", r, op.param.of>> \in OfOperation(r, op)
  BY DEF OfOperation, When

LEMMA SchemaIsSaid ==
  ASSUME NEW s, NEW schema
  PROVE  /\ <<"schema", s>> \in OfSchema(s, schema)
         /\ schema.kind # Unsaid => <<"is", s, schema.kind>> \in OfSchema(s, schema)
         /\ \A f \in Listed(schema) :
              <<"field", s, f, f \in Required(schema)>> \in OfSchema(s, schema)
  BY DEF OfSchema, When

-----------------------------------------------------------------------------
(* The contract: two documents agree, level by level.                      *)

OperationAgrees(said, found) ==
  /\ said.answer # Unsaid => found.answer # Unsaid
  /\ said.answer \in Schemas => found.answer = said.answer
  /\ said.param # Unsaid =>
       /\ found.param # Unsaid
       /\ found.param.where = said.param.where
       /\ found.param.required = said.param.required
       /\ said.param.of # Unsaid => found.param.of = said.param.of

SchemaAgrees(said, found) ==
  /\ said.kind # Unsaid => found.kind = said.kind
  /\ \A f \in Listed(said) :
       f \in Listed(found) /\ ((f \in Required(said)) = (f \in Required(found)))

Agrees(said, found) ==
  /\ \A r \in Served(said) : r \in Served(found) /\ OperationAgrees(said.ops[r], found.ops[r])
  /\ \A s \in Defined(said) :
       s \in Defined(found) /\ SchemaAgrees(said.schemas[s], found.schemas[s])
  /\ said.refusals \subseteq found.refusals

\* Documents that say the same sentences agree.
LEMMA SaidAgrees ==
  ASSUME NEW said, NEW found, Frozen(said) \subseteq Frozen(found)
  PROVE  Agrees(said, found)
<1>1. \A e \in Frozen(said) : Holds(found, e) BY SentenceHolds
<1>2. ASSUME NEW r \in Served(said)
      PROVE  r \in Served(found) /\ OperationAgrees(said.ops[r], found.ops[r])
  <2>. DEFINE op == said.ops[r]
  <2>1. OfOperation(r, op) \subseteq Frozen(said) BY Said
  <2>. HIDE DEF op
  <2>2. /\ Holds(found, <<"method", r>>)
        /\ op.answer # Unsaid => Holds(found, <<"response", r>>)
        /\ op.answer \in Schemas => Holds(found, <<"answers with", r, op.answer>>)
        /\ op.param # Unsaid =>
             /\ Holds(found, <<"parameter", r>>)
             /\ Holds(found, <<"in", r, op.param.where>>)
             /\ Holds(found, <<"required", r, op.param.required>>)
             /\ op.param.of # Unsaid => Holds(found, <<"points at", r, op.param.of>>)
    BY <1>1, <2>1, OperationIsSaid
  <2>3. r \in Served(found) BY <2>2 DEF Holds
  <2>4. op.answer # Unsaid => found.ops[r].answer # Unsaid BY <2>2 DEF Holds
  <2>5. op.answer \in Schemas => found.ops[r].answer = op.answer BY <2>2 DEF Holds
  <2>6. op.param # Unsaid => found.ops[r].param # Unsaid BY <2>2 DEF Holds
  <2>7. op.param # Unsaid => found.ops[r].param.where = op.param.where BY <2>2 DEF Holds
  <2>8. op.param # Unsaid => found.ops[r].param.required = op.param.required
    BY <2>2 DEF Holds
  <2>9. op.param # Unsaid /\ op.param.of # Unsaid => found.ops[r].param.of = op.param.of
    BY <2>2 DEF Holds
  <2>10. OperationAgrees(op, found.ops[r])
    BY <2>4, <2>5, <2>6, <2>7, <2>8, <2>9 DEF OperationAgrees
  <2>. QED BY <2>3, <2>10 DEF op
<1>3. ASSUME NEW s \in Defined(said)
      PROVE  s \in Defined(found) /\ SchemaAgrees(said.schemas[s], found.schemas[s])
  <2>. DEFINE schema == said.schemas[s]
  <2>1. OfSchema(s, schema) \subseteq Frozen(said) BY Said
  <2>. HIDE DEF schema
  <2>2. /\ Holds(found, <<"schema", s>>)
        /\ schema.kind # Unsaid => Holds(found, <<"is", s, schema.kind>>)
        /\ \A f \in Listed(schema) :
             Holds(found, <<"field", s, f, f \in Required(schema)>>)
    BY <1>1, <2>1, SchemaIsSaid
  <2>3. s \in Defined(found) BY <2>2 DEF Holds
  <2>4. schema.kind # Unsaid => found.schemas[s].kind = schema.kind BY <2>2 DEF Holds
  <2>5. ASSUME NEW f \in Listed(schema)
        PROVE  /\ f \in Listed(found.schemas[s])
               /\ (f \in Required(schema)) = (f \in Required(found.schemas[s]))
    <3>1. Holds(found, <<"field", s, f, f \in Required(schema)>>) BY <2>2
    <3>. QED BY <3>1 DEF Holds
  <2>6. SchemaAgrees(schema, found.schemas[s]) BY <2>4, <2>5 DEF SchemaAgrees
  <2>. QED BY <2>3, <2>6 DEF schema
<1>4. ASSUME NEW code \in said.refusals PROVE code \in found.refusals
  <2>1. Holds(found, <<"refuses", code>>) BY <1>1, Said
  <2>. QED BY <2>1 DEF Holds
<1>. QED BY <1>2, <1>3, <1>4 DEF Agrees

\* And documents that agree say the same sentences.
LEMMA AgreesSaid ==
  ASSUME NEW said, NEW found, Agrees(said, found)
  PROVE  Frozen(said) \subseteq Frozen(found)
<1>1. ASSUME NEW r \in Served(said) PROVE OfOperation(r, said.ops[r]) \subseteq Frozen(found)
  <2>1. r \in Served(found) /\ OperationAgrees(said.ops[r], found.ops[r]) BY DEF Agrees
  <2>2. OfOperation(r, found.ops[r]) \subseteq Frozen(found) BY <2>1, Said
  <2>3. ASSUME NEW said_, NEW found_, OperationAgrees(said_, found_)
        PROVE  OfOperation(r, said_) \subseteq OfOperation(r, found_)
    BY <2>3, ContractAssumption DEF OfOperation, OperationAgrees, When
  <2>. QED BY <2>1, <2>2, <2>3
<1>2. ASSUME NEW s \in Defined(said) PROVE OfSchema(s, said.schemas[s]) \subseteq Frozen(found)
  <2>1. s \in Defined(found) /\ SchemaAgrees(said.schemas[s], found.schemas[s]) BY DEF Agrees
  <2>2. OfSchema(s, found.schemas[s]) \subseteq Frozen(found) BY <2>1, Said
  <2>3. ASSUME NEW said_, NEW found_, SchemaAgrees(said_, found_)
        PROVE  OfSchema(s, said_) \subseteq OfSchema(s, found_)
    BY <2>3 DEF OfSchema, SchemaAgrees, When
  <2>. QED BY <2>1, <2>2, <2>3
<1>3. ASSUME NEW code \in said.refusals PROVE <<"refuses", code>> \in Frozen(found)
  BY Said DEF Agrees
<1>4. OfOperations(said) \subseteq Frozen(found) BY <1>1, Zenon DEF OfOperations
<1>5. OfSchemas(said) \subseteq Frozen(found) BY <1>2, Zenon DEF OfSchemas
<1>6. OfRefusals(said) \subseteq Frozen(found) BY <1>3, Zenon DEF OfRefusals
<1>. QED BY <1>4, <1>5, <1>6 DEF Frozen

-----------------------------------------------------------------------------
(* The contract: the gate finds nothing.                                   *)

LEMMA OperationPasses ==
  ASSUME NEW r, NEW said, NEW found
  PROVE  CompareOperation(r, said, found) = {} <=> OperationAgrees(said, found)
<1>. DEFINE answers == IF said.answer # Unsaid /\ found.answer = Unsaid THEN {<<"no response", r>>}
                       ELSE When(said.answer \in Schemas /\ said.answer # found.answer,
                                 <<"answers with", r>>)
            params == IF said.param = Unsaid THEN {}
                      ELSE IF found.param = Unsaid THEN {<<"no parameter", r>>}
                      ELSE CompareParameter(r, said.param, found.param)
<1>1. answers = {} <=> /\ said.answer # Unsaid => found.answer # Unsaid
                       /\ said.answer \in Schemas => found.answer = said.answer
  BY ContractAssumption DEF When
<1>2. CompareParameter(r, said.param, found.param) = {} <=>
        /\ found.param.where = said.param.where
        /\ found.param.required = said.param.required
        /\ said.param.of # Unsaid => found.param.of = said.param.of
  BY DEF CompareParameter, CompareParameterSchema, When
<1>3. params = {} <=> (said.param # Unsaid =>
                         /\ found.param # Unsaid
                         /\ found.param.where = said.param.where
                         /\ found.param.required = said.param.required
                         /\ said.param.of # Unsaid => found.param.of = said.param.of)
  BY <1>2
<1>4. CompareOperation(r, said, found) = answers \cup params BY Zenon DEF CompareOperation
<1>. HIDE DEF answers, params
<1>5. CompareOperation(r, said, found) = {} <=> answers = {} /\ params = {} BY <1>4
<1>. QED BY <1>1, <1>3, <1>5, Zenon DEF OperationAgrees

LEMMA SchemaPasses ==
  ASSUME NEW s, NEW said, NEW found
  PROVE  CompareSchema(s, said, found) = {} <=> SchemaAgrees(said, found)
<1>. DEFINE kinds == When(said.kind # Unsaid /\ said.kind # found.kind, <<"is", s>>)
            fields == UNION {CompareField(s, f, said, found) : f \in Listed(said)}
<1>1. kinds = {} <=> (said.kind # Unsaid => found.kind = said.kind) BY DEF When
<1>2. ASSUME NEW f \in Listed(said)
      PROVE  CompareField(s, f, said, found) = {} <=>
               f \in Listed(found) /\ ((f \in Required(said)) = (f \in Required(found)))
  BY DEF CompareField, When
<1>3. fields = {} <=> \A f \in Listed(said) : CompareField(s, f, said, found) = {} BY Zenon
<1>4. CompareSchema(s, said, found) = kinds \cup fields BY Zenon DEF CompareSchema
<1>. HIDE DEF kinds, fields
<1>5. CompareSchema(s, said, found) = {} <=> kinds = {} /\ fields = {} BY <1>4
<1>. QED BY <1>1, <1>2, <1>3, <1>5 DEF SchemaAgrees

LEMMA ContractPasses ==
  ASSUME NEW said, NEW found
  PROVE  CompareContract(said, found) = {} <=> Agrees(said, found)
<1>. DEFINE codes == {<<"no literal", code>> : code \in said.refusals \ found.refusals}
            allOps == UNION {ComparePath(r, said, found) : r \in Served(said)}
            allSchemas == UNION {CompareNamed(s, said, found) : s \in Defined(said)}
<1>1. ASSUME NEW r \in Served(said)
      PROVE  ComparePath(r, said, found) = {} <=>
               r \in Served(found) /\ OperationAgrees(said.ops[r], found.ops[r])
  <2>1. r \in Routes BY DEF Served
  <2>2. r \in Served(found) <=> found.ops[r] # Unsaid BY <2>1 DEF Served
  <2>3. r \in Served(found) => PathOf[r] \in Paths(found) BY DEF Paths
  <2>. QED BY <2>2, <2>3, OperationPasses DEF ComparePath
<1>2. ASSUME NEW s \in Defined(said)
      PROVE  CompareNamed(s, said, found) = {} <=>
               s \in Defined(found) /\ SchemaAgrees(said.schemas[s], found.schemas[s])
  <2>1. s \in Defined(found) <=> found.schemas[s] # Unsaid BY DEF Defined
  <2>. QED BY <2>1, SchemaPasses DEF CompareNamed
<1>3. codes = {} <=> said.refusals \subseteq found.refusals BY Zenon
<1>4. CompareContract(said, found) = (allOps \cup allSchemas) \cup codes
  BY Zenon DEF CompareContract
<1>5. allOps = {} <=> \A r \in Served(said) : ComparePath(r, said, found) = {} BY Zenon
<1>6. allSchemas = {} <=> \A s \in Defined(said) : CompareNamed(s, said, found) = {} BY Zenon
<1>. HIDE DEF codes, allOps, allSchemas
<1>7. CompareContract(said, found) = {} <=> allOps = {} /\ allSchemas = {} /\ codes = {}
  BY <1>4
<1>8. allOps = {} <=> \A r \in Served(said) :
                        r \in Served(found) /\ OperationAgrees(said.ops[r], found.ops[r])
  BY <1>1, <1>5, Zenon
<1>9. allSchemas = {} <=> \A s \in Defined(said) :
                        s \in Defined(found) /\ SchemaAgrees(said.schemas[s], found.schemas[s])
  BY <1>2, <1>6, Zenon
<1>. QED BY <1>3, <1>7, <1>8, <1>9, Zenon DEF Agrees

\* The gate is green where the contract is read and agrees, and claims what is served.
LEMMA GatePasses ==
  ASSUME NEW said, NEW found
  PROVE  Gate(said, found) = 0 <=>
           /\ said # Unsaid /\ said.readable
           /\ Frozen(said) \subseteq Frozen(found)
           /\ {PrefixOf[p] : p \in Paths(found)} \subseteq {PrefixOf[p] : p \in Paths(said)}
<1>. DEFINE beyond == {<<"unclaimed", path>> :
                         path \in {p \in Paths(found) : PrefixOf[p] \notin Claimed(said)}}
<1>1. beyond = {} <=>
        {PrefixOf[p] : p \in Paths(found)} \subseteq {PrefixOf[p] : p \in Paths(said)}
  <2>1. beyond = {} <=> \A p \in Paths(found) : PrefixOf[p] \in Claimed(said) BY Zenon
  <2>2. Claimed(said) = {PrefixOf[p] : p \in Paths(said)} BY Zenon DEF Claimed
  <2>. QED BY <2>1, <2>2, Zenon
<1>2. CompareContract(said, found) = {} <=> Frozen(said) \subseteq Frozen(found)
  BY ContractPasses, SaidAgrees, AgreesSaid, Zenon
<1>3. Compare(said, found) = CompareContract(said, found) \cup beyond BY Zenon DEF Compare
<1>. HIDE DEF beyond
<1>4. Compare(said, found) = {} <=> CompareContract(said, found) = {} /\ beyond = {} BY <1>3
<1>5. Gate(said, found) = 0 <=> said # Unsaid /\ said.readable /\ Compare(said, found) = {}
  BY DEF Gate
<1>. QED BY <1>1, <1>2, <1>4, <1>5, Zenon

\* A sentence the gate reads is of another kind than one it does not.
ReadKinds == {"path", "method", "response", "answers with", "parameter", "in", "required",
              "points at", "schema", "is", "field", "refuses"}
UnreadKinds == {"body", "answers without JSON", "inline", "inline is", "inline field", "owes"}

LEMMA FrozenIsRead == ASSUME NEW doc, NEW e \in Frozen(doc) PROVE e[1] \in ReadKinds
<1>1. ASSUME NEW r \in Served(doc), e \in OfOperation(r, doc.ops[r]) PROVE e[1] \in ReadKinds
  <2>. DEFINE op == doc.ops[r]
  <2>1. e \in OfOperation(r, op) BY <1>1
  <2>. HIDE DEF op
  <2>2. \/ e[1] = "path" /\ e[2] = PathOf[r]
        \/ e[1] = "method" /\ e[2] = r
        \/ e[1] = "response" /\ e[2] = r /\ op.answer # Unsaid
        \/ e[1] = "answers with" /\ e[2] = r /\ op.answer \in Schemas /\ e[3] = op.answer
        \/ /\ op.param # Unsaid /\ e[2] = r
           /\ \/ e[1] = "parameter"
              \/ e[1] = "in" /\ e[3] = op.param.where
              \/ e[1] = "required" /\ e[3] = op.param.required
              \/ e[1] = "points at" /\ op.param.of # Unsaid /\ e[3] = op.param.of
    BY <2>1, OperationSays, Zenon
  <2>. QED BY <2>2, Zenon DEF ReadKinds
<1>2. ASSUME NEW s \in Defined(doc), e \in OfSchema(s, doc.schemas[s]) PROVE e[1] \in ReadKinds
  <2>. DEFINE schema == doc.schemas[s]
  <2>1. e \in OfSchema(s, schema) BY <1>2
  <2>. HIDE DEF schema
  <2>2. e[1] = "schema" \/ e[1] = "is" \/ e[1] = "field" BY <2>1, SchemaSays
  <2>. QED BY <2>2, Zenon DEF ReadKinds
<1>3. e[1] = "refuses" => e[1] \in ReadKinds BY DEF ReadKinds
<1>. QED BY <1>1, <1>2, <1>3, SentenceOf, Zenon

LEMMA InlineIsUnread ==
  ASSUME NEW r, NEW op, NEW e \in OfInline(r, op) PROVE e[1] \in UnreadKinds
<1>1. \/ e = <<"answers without JSON", r>>
      \/ e = <<"inline", r>>
      \/ e = <<"inline is", r, op.inline.kind>>
      \/ \E f \in Fields : e = <<"inline field", r, f, op.inline.field[f]>>
  BY DEF OfInline, When
<1>2. ASSUME NEW f \in Fields, e = <<"inline field", r, f, op.inline.field[f]>>
      PROVE  e[1] \in UnreadKinds
  BY <1>2 DEF UnreadKinds
<1>3. ASSUME e = <<"answers without JSON", r>> PROVE e[1] \in UnreadKinds
  <2>1. e[1] = "answers without JSON" BY <1>3
  <2>. QED BY <2>1, Zenon DEF UnreadKinds
<1>4. ASSUME e = <<"inline", r>> PROVE e[1] \in UnreadKinds
  <2>1. e[1] = "inline" BY <1>4
  <2>. QED BY <2>1, Zenon DEF UnreadKinds
<1>5. ASSUME e = <<"inline is", r, op.inline.kind>> PROVE e[1] \in UnreadKinds
  <2>1. e[1] = "inline is" BY <1>5
  <2>. QED BY <2>1, Zenon DEF UnreadKinds
<1>. QED BY <1>1, <1>2, <1>3, <1>4, <1>5, Zenon

LEMMA RestIsUnread ==
  ASSUME NEW doc, NEW e \in (OfBodies(doc) \cup OfAnswers(doc)) \cup (Owed(doc) \cup Unread(doc))
  PROVE  e[1] \in UnreadKinds
<1>1. ASSUME e \in OfBodies(doc) PROVE e[1] \in UnreadKinds
  <2>1. PICK r \in Routes : e = <<"body", r, doc.ops[r].body>>
    BY <1>1, Zenon DEF OfBodies, Served
  <2>. QED BY <2>1 DEF UnreadKinds
<1>2. ASSUME e \in OfAnswers(doc) PROVE e[1] \in UnreadKinds
  <2>1. PICK r \in Served(doc) : e \in OfInline(r, doc.ops[r]) BY <1>2, Zenon DEF OfAnswers
  <2>. QED BY <2>1, InlineIsUnread, Zenon
<1>3. ASSUME NEW s, NEW f, e = <<"owes", s, f>> PROVE e[1] \in UnreadKinds
  BY <1>3 DEF UnreadKinds
<1>4. e \in Owed(doc) => \E s, f : e = <<"owes", s, f>> BY Zenon DEF Owed
<1>5. e \in Unread(doc) =>
        e \in OfBodies(doc) \/ e \in OfAnswers(doc) \/ \E s, f : e = <<"owes", s, f>>
  BY Zenon DEF Unread
<1>. QED BY <1>1, <1>2, <1>3, <1>4, <1>5, Zenon

\* What a document owes beside its fields, the gate leaves out; what it owes of its fields
\* follows from the fields.
LEMMA ReadSentences ==
  ASSUME NEW said, NEW found
  PROVE  Sentences(said) \ Unread(said) \subseteq Sentences(found)
           <=> Frozen(said) \subseteq Frozen(found)
<1>1. ReadKinds \cap UnreadKinds = {} BY DEF ReadKinds, UnreadKinds
<1>2. ASSUME Frozen(said) \subseteq Frozen(found), NEW e \in Sentences(said) \ Unread(said)
      PROVE  e \in Sentences(found)
  <2>1. e \in Frozen(said) \/ e \in Owed(said) BY DEF Sentences, Unread
  <2>2. CASE e \in Frozen(said) BY <1>2, <2>2 DEF Sentences
  <2>3. CASE e \in Owed(said)
    <3>1. PICK s \in Defined(said) : \E f \in Required(said.schemas[s]) : e = <<"owes", s, f>>
      BY <2>3, Zenon DEF Owed
    <3>2. PICK f \in Required(said.schemas[s]) : e = <<"owes", s, f>> BY <3>1
    <3>3. f \notin Required(said.schemas[s]) \ Listed(said.schemas[s])
      <4>. DEFINE beside(t) == {<<"owes", t, g>> :
                                 g \in Required(said.schemas[t]) \ Listed(said.schemas[t])}
      <4>1. beside(s) \subseteq Unread(said) BY Zenon DEF Unread
      <4>2. <<"owes", s, f>> \notin beside(s) BY <1>2, <3>2, <4>1
      <4>. QED BY <4>2
    <3>4. f \in Listed(said.schemas[s]) BY <3>3
    <3>5. s \in Defined(found) /\ SchemaAgrees(said.schemas[s], found.schemas[s])
      BY <1>2, SaidAgrees DEF Agrees
    <3>6. f \in Required(found.schemas[s]) BY <3>4, <3>5 DEF SchemaAgrees
    <3>7. e \in Owed(found)
      <4>. DEFINE owes(t) == {<<"owes", t, g>> : g \in Required(found.schemas[t])}
      <4>1. e \in owes(s) BY <3>2, <3>6
      <4>2. owes(s) \subseteq Owed(found) BY <3>5, Zenon DEF Owed
      <4>. HIDE DEF owes
      <4>. QED BY <4>1, <4>2
    <3>. QED BY <3>7 DEF Sentences
  <2>. QED BY <2>1, <2>2, <2>3
<1>3. ASSUME Sentences(said) \ Unread(said) \subseteq Sentences(found), NEW e \in Frozen(said)
      PROVE  e \in Frozen(found)
  <2>1. e[1] \in ReadKinds BY FrozenIsRead
  <2>2. e \notin Unread(said) BY <1>1, <2>1, RestIsUnread
  <2>3. e \in Sentences(found) BY <1>3, <2>2 DEF Sentences
  <2>4. e \notin (OfBodies(found) \cup OfAnswers(found)) \cup (Owed(found) \cup Unread(found))
    BY <1>1, <2>1, RestIsUnread
  <2>. QED BY <2>3, <2>4 DEF Sentences
<1>. QED BY <1>2, <1>3

\* Whatever the two documents are, the gate is green exactly where the application says every
\* sentence of the contract but those about request bodies, answers without the name of a
\* schema and required names without a property, and serves nothing beyond what the contract
\* claims (openapi_contract.py).
THEOREM GateMissesNothingElse == GateSpec => []GateMissesOnlyTheUnread
<1>1. GateMissesOnlyTheUnread BY GatePasses, ReadSentences, Zenon DEF GateMissesOnlyTheUnread
<1>. QED BY <1>1, PTL

-----------------------------------------------------------------------------
(* The contract: types.                                                    *)

LEMMA EditedSchemaType ==
  ASSUME NEW schema \in Schema \cup {Unsaid}, NEW e \in EditedSchema(schema)
  PROVE  e \in Schema \cup {Unsaid}
<1>1. CASE schema = Unsaid BY <1>1 DEF EditedSchema
<1>2. CASE schema # Unsaid
  <2>1. schema \in Schema BY <1>2
  <2>2. \A k \in Kinds \cup {Unsaid} : [schema EXCEPT !.kind = k] \in Schema
    BY <2>1 DEF Schema
  <2>3. \A f \in Fields : \A p \in Presence : [schema EXCEPT !.field[f] = p] \in Schema
    BY <2>1 DEF Schema
  <2>4. \/ e = Unsaid
        \/ \E k \in Kinds \cup {Unsaid} : e = [schema EXCEPT !.kind = k]
        \/ \E f \in Fields : \E p \in Presence : e = [schema EXCEPT !.field[f] = p]
    <3>. DEFINE kinds == {[schema EXCEPT !.kind = k] : k \in Kinds \cup {Unsaid}}
                fields == UNION {{[schema EXCEPT !.field[f] = p] : p \in Presence} : f \in Fields}
    <3>1. EditedSchema(schema) = {Unsaid} \cup (kinds \cup fields)
      BY <1>2, Zenon DEF EditedSchema
    <3>2. e \in kinds => \E k \in Kinds \cup {Unsaid} : e = [schema EXCEPT !.kind = k]
      BY Zenon
    <3>3. e \in fields => \E f \in Fields : \E p \in Presence :
                            e = [schema EXCEPT !.field[f] = p]
      BY Zenon
    <3>. HIDE DEF kinds, fields
    <3>4. e = Unsaid \/ e \in kinds \/ e \in fields BY <3>1
    <3>. QED BY <3>2, <3>3, <3>4, Zenon
  <2>. QED BY <2>2, <2>3, <2>4, Zenon
<1>. QED BY <1>1, <1>2

LEMMA EditedOperationType ==
  ASSUME NEW op \in Operation \cup {Unsaid}, NEW e \in EditedOperation(op)
  PROVE  e \in Operation \cup {Unsaid}
<1>. DEFINE begun == [answer |-> "no JSON", inline |-> Blank, body |-> Unsaid, param |-> Unsaid]
<1>1. Blank \in Schema BY DEF Blank, Schema, Presence
<1>2. begun \in Operation BY <1>1 DEF Operation, Content
<1>3. CASE op = Unsaid BY <1>2, <1>3 DEF EditedOperation
<1>4. CASE op # Unsaid
  <2>1. op \in Operation BY <1>4
  <2>2. \A a \in Schemas \cup {"no JSON"} :
          [op EXCEPT !.answer = a, !.inline = Blank] \in Operation
    BY <1>1, <2>1 DEF Operation, Content
  <2>3. ASSUME NEW schema \in EditedSchema(op.inline) \ {Unsaid}
        PROVE  [op EXCEPT !.answer = "inline", !.inline = schema] \in Operation
    <3>1. op.inline \in Schema BY <2>1 DEF Operation
    <3>2. schema \in Schema BY <3>1, EditedSchemaType
    <3>. QED BY <2>1, <3>2 DEF Operation, Content
  <2>4. [op EXCEPT !.body = Unsaid] \in Operation BY <2>1 DEF Operation, Content
  <2>5. \A p \in Parameter \cup {Unsaid} : [op EXCEPT !.param = p] \in Operation
    BY <2>1 DEF Operation
  <2>. DEFINE New == NewParameter(op.param) \cup {Unsaid}
  <2>7. New \subseteq Parameter \cup {Unsaid} BY DEF NewParameter
  <2>6. \/ e \in {Unsaid, begun}
        \/ \E a \in Schemas \cup {"no JSON"} : e = [op EXCEPT !.answer = a, !.inline = Blank]
        \/ \E schema \in EditedSchema(op.inline) \ {Unsaid} :
             e = [op EXCEPT !.answer = "inline", !.inline = schema]
        \/ e = [op EXCEPT !.body = Unsaid]
        \/ \E p \in New : e = [op EXCEPT !.param = p]
    BY <1>4, Zenon DEF EditedOperation
  <2>. HIDE DEF New
  <2>. QED BY <1>2, <2>2, <2>3, <2>4, <2>5, <2>6, <2>7, Zenon
<1>. QED BY <1>3, <1>4

LEMMA EditedType ==
  ASSUME NEW doc \in Document, NEW e \in Edited(doc)
  PROVE  e \in Document
<1>1. ASSUME NEW r \in Routes, NEW op \in EditedOperation(doc.ops[r]),
             e = [doc EXCEPT !.ops[r] = op]
      PROVE  e \in Document
  <2>1. doc.ops[r] \in Operation \cup {Unsaid} BY DEF Document
  <2>2. op \in Operation \cup {Unsaid} BY <2>1, EditedOperationType, Zenon
  <2>. QED BY <1>1, <2>2 DEF Document
<1>2. ASSUME NEW s \in Schemas, NEW schema \in EditedSchema(doc.schemas[s]),
             e = [doc EXCEPT !.schemas[s] = schema]
      PROVE  e \in Document
  <2>1. doc.schemas[s] \in Schema \cup {Unsaid} BY DEF Document
  <2>2. schema \in Schema \cup {Unsaid} BY <2>1, EditedSchemaType, Zenon
  <2>. QED BY <1>2, <2>2 DEF Document
<1>3. ASSUME NEW codes \in SUBSET Refusals, e = [doc EXCEPT !.refusals = codes]
      PROVE  e \in Document
  BY <1>3 DEF Document
<1>4. \/ \E r \in Routes : \E op \in EditedOperation(doc.ops[r]) :
            e = [doc EXCEPT !.ops[r] = op]
      \/ \E s \in Schemas : \E schema \in EditedSchema(doc.schemas[s]) :
            e = [doc EXCEPT !.schemas[s] = schema]
      \/ \E codes \in SUBSET Refusals : e = [doc EXCEPT !.refusals = codes]
  <2>. DEFINE ops == UNION {{[doc EXCEPT !.ops[r] = op] : op \in EditedOperation(doc.ops[r])}
                              : r \in Routes}
              schemas == UNION {{[doc EXCEPT !.schemas[s] = schema] :
                                   schema \in EditedSchema(doc.schemas[s])} : s \in Schemas}
              refusals == {[doc EXCEPT !.refusals = codes] : codes \in SUBSET Refusals}
  <2>1. Edited(doc) = (ops \cup schemas) \cup refusals BY Zenon DEF Edited
  <2>2. e \in ops => \E r \in Routes : \E op \in EditedOperation(doc.ops[r]) :
                       e = [doc EXCEPT !.ops[r] = op]
    BY Zenon
  <2>3. e \in schemas => \E s \in Schemas : \E schema \in EditedSchema(doc.schemas[s]) :
                           e = [doc EXCEPT !.schemas[s] = schema]
    BY Zenon
  <2>4. e \in refusals => \E codes \in SUBSET Refusals : e = [doc EXCEPT !.refusals = codes]
    BY Zenon
  <2>. HIDE DEF ops, schemas, refusals
  <2>5. e \in ops \/ e \in schemas \/ e \in refusals BY <2>1
  <2>. QED BY <2>2, <2>3, <2>4, <2>5, Zenon
<1>. QED BY <1>1, <1>2, <1>3, <1>4, Zenon

LEMMA BeganIs == Began \in [contract : Document, app : Document] /\ MaxEdits \in Nat
BY ContractAssumption, Zenon

LEMMA InitDocuments == GateInit => DocumentsOK
<1>. SUFFICES ASSUME GateInit PROVE DocumentsOK OBVIOUS
<1>1. Began.contract \in Document /\ Began.app \in Document BY BeganIs
<1>2. contract \in Document \cup {Unsaid} /\ app \in Document BY <1>1 DEF GateInit
<1>3. edits \in 0..MaxEdits BY BeganIs DEF GateInit
<1>4. {trunk, live, before} \subseteq [contract : Document, app : Document]
  BY BeganIs DEF GateInit
<1>. QED BY <1>2, <1>3, <1>4, Zenon DEF DocumentsOK

LEMMA EditsType == ASSUME edits \in 0..MaxEdits, Edits PROVE edits' \in 0..MaxEdits
BY BeganIs DEF Edits

LEMMA NextDocuments == DocumentsOK /\ [GateNext]_gateVars => DocumentsOK'
<1>. SUFFICES ASSUME DocumentsOK, [GateNext]_gateVars PROVE DocumentsOK'
  OBVIOUS
<1>1. CASE UNCHANGED gateVars BY <1>1 DEF gateVars, DocumentsOK
<1>2. CASE EditApp
  <2>1. app' \in Document BY <1>2, EditedType, Zenon DEF EditApp, DocumentsOK
  <2>2. edits' \in 0..MaxEdits BY <1>2, EditsType, Zenon DEF EditApp, DocumentsOK
  <2>. QED BY <1>2, <2>1, <2>2 DEF EditApp, DocumentsOK
<1>3. CASE EditContract
  <2>1. contract \in Document BY <1>3 DEF EditContract, DocumentsOK
  <2>2. \A e \in Edited(contract) : e \in Document BY <2>1, EditedType
  <2>3. [contract EXCEPT !.readable = ~@] \in Document BY <2>1 DEF Document
  <2>4. contract' \in Document \cup {Unsaid} BY <1>3, <2>2, <2>3, Zenon DEF EditContract
  <2>5. edits' \in 0..MaxEdits BY <1>3, EditsType, Zenon DEF EditContract, DocumentsOK
  <2>. QED BY <1>3, <2>4, <2>5 DEF EditContract, DocumentsOK
<1>4. CASE Merge
  <2>1. contract \in Document BY <1>4 DEF Merge, Gate, DocumentsOK
  <2>. QED BY <1>4, <2>1 DEF Merge, DocumentsOK
<1>5. CASE Deploy BY <1>5 DEF Deploy, DocumentsOK
<1>6. CASE Rollback BY <1>6 DEF Rollback, DocumentsOK
<1>. QED BY <1>1, <1>2, <1>3, <1>4, <1>5, <1>6 DEF GateNext

\* The documents stay ones the tools can read, and nothing without a contract is merged
\* (contracts.sh: a contract that cannot be found is a gap).
THEOREM GateTypeCorrect == GateSpec => []DocumentsOK
  BY InitDocuments, NextDocuments, PTL DEF GateSpec

-----------------------------------------------------------------------------
(* The contract: the smoke.                                                *)

\* What main holds, what is served and what was served have been through the gate.
MergedPairs ==
  \A pair \in {trunk, live, before} : Gate(pair.contract, pair.app) = 0

LEMMA InitMerged == GateInit => MergedPairs
  BY BeganAssumption DEF GateInit, MergedPairs

LEMMA NextMerged == MergedPairs /\ [GateNext]_gateVars => MergedPairs'
<1>. SUFFICES ASSUME MergedPairs, [GateNext]_gateVars PROVE MergedPairs'
  OBVIOUS
<1>. DEFINE Passed(pair) == Gate(pair.contract, pair.app) = 0
<1>1. MergedPairs <=> Passed(trunk) /\ Passed(live) /\ Passed(before) BY DEF MergedPairs
<1>2. MergedPairs' <=> Passed(trunk') /\ Passed(live') /\ Passed(before') BY DEF MergedPairs
<1>3. Gate(contract, app) = 0 => Passed([contract |-> contract, app |-> app]) OBVIOUS
<1>. HIDE DEF Passed
<1>4. CASE UNCHANGED gateVars BY <1>1, <1>2, <1>4, Zenon DEF gateVars
<1>5. CASE EditApp BY <1>1, <1>2, <1>5, Zenon DEF EditApp
<1>6. CASE EditContract BY <1>1, <1>2, <1>6, Zenon DEF EditContract
<1>7. CASE Merge BY <1>1, <1>2, <1>3, <1>7, Zenon DEF Merge
<1>8. CASE Deploy BY <1>1, <1>2, <1>8, Zenon DEF Deploy
<1>9. CASE Rollback BY <1>1, <1>2, <1>9, Zenon DEF Rollback
<1>. QED BY <1>4, <1>5, <1>6, <1>7, <1>8, <1>9 DEF GateNext

\* The smoke of a contract that can be asked, and whose every sentence the application says,
\* is green, unless the application demands a parameter the contract does not know of.
LEMMA SaidIsGreen ==
  ASSUME NEW said \in Document, NEW found, said # Unsaid, said.readable,
         Frozen(said) \subseteq Frozen(found), Askable(said), ~DemandsMore(found, said)
  PROVE  Smoke(said, found)
<1>1. Agrees(said, found) BY SaidAgrees
<1>2. ASSUME NEW r \in Questions(said) PROVE Verdict(said, found, r)
  <2>. DEFINE op == said.ops[r]
              answers == found.ops[r]
              a == op.answer
  <2>1. r \in Reads \cap Served(said) BY DEF Questions
  <2>2. r \in Served(found) /\ OperationAgrees(op, answers) BY <1>1, <2>1 DEF Agrees
  <2>3. answers # Unsaid BY <2>2 DEF Served
  <2>4. /\ a \in Defined(said)
        /\ Shape(said, r).kind = "object"
        /\ Required(Shape(said, r)) \subseteq Listed(Shape(said, r))
    BY DEF Askable, Answer
  <2>5. a \in Schemas /\ a # Unsaid /\ a # "inline" BY <2>4, ContractAssumption DEF Defined
  <2>6. answers.answer = a BY <2>2, <2>5 DEF OperationAgrees
  <2>7. answers.param # Unsaid => ~answers.param.required
    <3>1. SUFFICES ASSUME answers.param # Unsaid, answers.param.required PROVE FALSE
      OBVIOUS
    <3>2. op.param # Unsaid BY <2>2, <3>1 DEF DemandsMore
    <3>3. answers.param.required = op.param.required BY <2>2, <3>2 DEF OperationAgrees
    <3>4. ~op.param.required BY <3>2 DEF Questions
    <3>. QED BY <3>1, <3>3, <3>4
  <2>8. a \in Defined(found) /\ SchemaAgrees(said.schemas[a], found.schemas[a])
    BY <1>1, <2>4 DEF Agrees
  <2>9. Shape(said, r) = said.schemas[a] BY <2>5 DEF Shape, Answer
  <2>10. Shape(found, r) = found.schemas[a] BY <2>5, <2>6 DEF Shape, Answer
  <2>11. Shaped(said, r) /\ Shaped(found, r) BY <2>4, <2>6, <2>8 DEF Shaped, Answer
  <2>12. found.schemas[a].kind = "object"
    <3>1. said.schemas[a].kind = "object" BY <2>4, <2>9
    <3>2. "object" # Unsaid BY ContractAssumption
    <3>. QED BY <2>8, <3>1, <3>2 DEF SchemaAgrees
  <2>13. Owes(said, r) \subseteq Body(found, r)
    <3>1. Owes(said, r) = Required(said.schemas[a]) BY <2>9, <2>11, Zenon DEF Owes
    <3>2. Body(found, r) = {f \in Fields : found.schemas[a].field[f] # "absent"}
      BY <2>10, <2>11, Zenon DEF Body
    <3>3. ASSUME NEW f \in Required(said.schemas[a])
          PROVE  f \in Fields /\ found.schemas[a].field[f] # "absent"
      <4>1. f \in Listed(said.schemas[a]) BY <2>4, <2>9
      <4>2. f \in Listed(found.schemas[a]) BY <2>8, <4>1 DEF SchemaAgrees
      <4>. QED BY <4>2 DEF Listed
    <3>. QED BY <3>1, <3>2, <3>3
  <2>. QED BY <2>3, <2>5, <2>6, <2>7, <2>10, <2>11, <2>12, <2>13 DEF Verdict
<1>3. Questions(said) # {} BY DEF Askable
<1>4. ~Unreadable(said) BY DEF Unreadable, Askable, Defined
<1>. QED BY <1>2, <1>3, <1>4 DEF Smoke

LEMMA RedIsExplained == DocumentsOK /\ MergedPairs => RedSmokeIsExplained
<1>. SUFFICES ASSUME DocumentsOK, MergedPairs, ~Smoke(trunk.contract, live.app),
                     Askable(trunk.contract), ~DemandsMore(live.app, trunk.contract)
              PROVE  live # trunk /\ ~(Frozen(trunk.contract) \subseteq Frozen(live.contract))
  BY DEF RedSmokeIsExplained
<1>1. trunk.contract \in Document BY DEF DocumentsOK
<1>2. trunk.contract # Unsaid /\ trunk.contract.readable
  BY GatePasses DEF MergedPairs
<1>3. Frozen(live.contract) \subseteq Frozen(live.app)
  BY GatePasses DEF MergedPairs
<1>4. ~(Frozen(trunk.contract) \subseteq Frozen(live.app))
  BY <1>1, <1>2, SaidIsGreen
<1>. QED BY <1>3, <1>4

\* A red smoke has a cause: whatever the alias names has been through the gate with the
\* contract of its own time, so a promise the gate reads, asked by main's contract and not
\* kept, is one its own contract did not make, as after a rollback (deploy.sh:438-448).
THEOREM RedSmokeHasACause == GateSpec => []RedSmokeIsExplained
<1>1. DocumentsOK /\ MergedPairs /\ [GateNext]_gateVars => (DocumentsOK /\ MergedPairs)'
  BY NextDocuments, NextMerged
<1>. QED BY <1>1, InitDocuments, InitMerged, RedIsExplained, PTL DEF GateSpec

=============================================================================
