---------------------------- MODULE Deploy_proofs ----------------------------
(***************************************************************************)
(* Proofs about Deploy, for any set of trees, any line of revisions and    *)
(* any number of releases and versions.                                    *)
(***************************************************************************)
EXTENDS Deploy, TLAPS

\* What a deployment has found out by the step it is at.
JobOK ==
  /\ pc \in {"apply", "migrate", "roll", "assets", "shell"} => tree \in Tree
  /\ pc \in {"migrate", "roll"} =>
       version \in DOMAIN published /\ published[version] = tree
  /\ pc = "roll" => Revision[tree] <= schema
  /\ pc = "shell" => tree \in assets
  /\ pc \in {"assets", "shell", "smoke", "record"} => version \in DOMAIN published /\ alias = version
  /\ pc = "record" => published[version] \in green

\* A build that passed a smoke found its schema, and the schema only grows.
GreenOK == \A t \in green : Revision[t] <= schema

\* An entry is about a build that passed a smoke: by its digest, and by its
\* number too while the numbers have not started again.
EntryOK(e) ==
  /\ e.digest # NoTree => e.digest \in green
  /\ ~replaced => e.version \in DOMAIN published /\ published[e.version] \in green

RegisterOK == \A i \in DOMAIN register : EntryOK(register[i])

SureOK == sure => alias \in DOMAIN published /\ Revision[published[alias]] <= schema

IInv == TypeOK /\ JobOK /\ OldShellsStillLoad /\ GreenOK /\ RegisterOK /\ SureOK

----------------------------------------------------------------------------
(* The register *)

\* What is in the register after an entry is added was there or is that entry.
LEMMA AppendedEntries ==
  ASSUME NEW reg \in Seq(Entry), NEW e \in Entry
  PROVE  /\ Appended(reg, e) \in Seq(Entry)
         /\ \A i \in DOMAIN Appended(reg, e) :
              \/ Appended(reg, e)[i] = e
              \/ \E j \in DOMAIN reg : Appended(reg, e)[i] = reg[j]
<1>1. CASE Len(reg) < Keep
  BY <1>1 DEF Appended
<1>2. CASE ~(Len(reg) < Keep)
  <2>1. Len(reg) \in Nat /\ reg # <<>>
    BY <1>2, KeepAssumption
  <2>2. Tail(reg) \in Seq(Entry) /\ Len(Tail(reg)) = Len(reg) - 1
    BY <2>1
  <2>3. \A i \in 1 .. Len(Tail(reg)) : Tail(reg)[i] = reg[i + 1] /\ i + 1 \in DOMAIN reg
    BY <2>1, <2>2
  <2> QED
    BY <1>2, <2>2, <2>3 DEF Appended
<1> QED
  BY <1>1, <1>2

\* A rollback goes to a version the register has an entry of.
LEMMA TargetIsRecorded ==
  ASSUME NEW reg, NEW current, NEW v \in Targets(reg, current)
  PROVE  \E i \in DOMAIN reg : reg[i].version = v
BY DEF Targets, Newest, Candidates

\* The digest compared is one some entry of that version carries.
LEMMA DigestIsRecorded ==
  ASSUME NEW reg, NEW v, NEW d \in Digests(reg, v)
  PROVE  \E i \in DOMAIN reg : reg[i].version = v /\ reg[i].digest = d
BY DEF Digests, Newest

----------------------------------------------------------------------------
(* terraform apply *)

\* Publishing keeps every version there was and ends with the tree's own.
LEMMA PublishEffect ==
  ASSUME published \in Seq(Tree), NEW t \in Tree, Publish(t)
  PROVE  /\ published' \in Seq(Tree)
         /\ DOMAIN published \subseteq DOMAIN published'
         /\ \A n \in DOMAIN published : published'[n] = published[n]
         /\ Len(published') \in DOMAIN published'
         /\ Len(published') \in Nat \ {0}
         /\ published'[Len(published')] = t
<1>1. CASE published # <<>> /\ Last(published) = t
  BY <1>1 DEF Publish, Last
<1>2. CASE ~(published # <<>> /\ Last(published) = t)
  BY <1>2 DEF Publish
<1> QED
  BY <1>1, <1>2

\* So does an apply, unless it replaces the function; it never moves an alias
\* that deploy.sh has placed without forgetting that it had.
LEMMA TerraformEffect ==
  ASSUME TypeOK, SureOK, RegisterOK, NEW t \in Tree, Terraform(t),
         schema' = schema, green' = green, register' = register
  PROVE  /\ published' \in Seq(Tree)
         /\ alias' \in DOMAIN published'
         /\ replaced' \in BOOLEAN /\ sure' \in BOOLEAN
         /\ escaped' \subseteq Nat
         /\ Len(published') \in DOMAIN published'
         /\ Len(published') \in Nat
         /\ published'[Len(published')] = t
         /\ SureOK'
         /\ RegisterOK'
<1> USE DEF TypeOK
<1>1. CASE /\ Publish(t)
           /\ alias' = IF alias = 0 THEN Len(published') ELSE alias
           /\ UNCHANGED <<replaced, sure, escaped>>
  <2>1. /\ published' \in Seq(Tree)
        /\ DOMAIN published \subseteq DOMAIN published'
        /\ \A n \in DOMAIN published : published'[n] = published[n]
        /\ Len(published') \in DOMAIN published'
        /\ Len(published') \in Nat \ {0}
        /\ published'[Len(published')] = t
    BY <1>1, PublishEffect
  <2>2. alias' \in DOMAIN published'
    BY <1>1, <2>1
  <2>3. SureOK'
    <3>1. 0 \notin DOMAIN published
      OBVIOUS
    <3> QED
      BY <1>1, <2>1, <3>1 DEF SureOK
  <2>4. RegisterOK'
    BY <1>1, <2>1 DEF RegisterOK, EntryOK
  <2> QED
    BY <1>1, <2>1, <2>2, <2>3, <2>4
<1>2. CASE /\ published # <<>> /\ ~replaced
           /\ published' = <<t>> /\ alias' = 1
           /\ replaced' = TRUE /\ sure' = FALSE /\ escaped' = {}
  <2>1. RegisterOK'
    BY <1>2 DEF RegisterOK, EntryOK
  <2>2. SureOK'
    BY <1>2 DEF SureOK
  <2>3. /\ <<t>> \in Seq(Tree) /\ Len(<<t>>) = 1
        /\ 1 \in DOMAIN <<t>> /\ <<t>>[1] = t
    OBVIOUS
  <2> QED
    BY <1>2, <2>1, <2>2, <2>3
<1> QED
  BY <1>1, <1>2 DEF Terraform

----------------------------------------------------------------------------
(* deploy.sh --rollback *)

\* What the register knows of a version survives into the choice of it.
LEMMA RollbackEffect ==
  ASSUME TypeOK, RegisterOK, Rollback
  PROVE  /\ alias' \in DOMAIN published /\ version' = alias' /\ sure' \in BOOLEAN
         /\ sure' => published[alias'] \in green
<1>1. PICK v \in Targets(register, alias) :
        \E digest \in Digests(register, v) \cup {NoTree} :
          /\ SameBuild(v, digest)
          /\ alias' = v /\ version' = v
          /\ sure'  = (digest # NoTree \/ ~replaced)
  BY DEF Rollback
<1>2. PICK digest \in Digests(register, v) \cup {NoTree} :
          /\ SameBuild(v, digest)
          /\ alias' = v /\ version' = v
          /\ sure'  = (digest # NoTree \/ ~replaced)
  BY <1>1
<1>3. v \in DOMAIN published /\ digest \in {published[v], NoTree}
  BY <1>2 DEF SameBuild
<1>4. CASE digest # NoTree
  <2>1. digest \in Digests(register, v) /\ digest = published[v]
    BY <1>2, <1>3, <1>4
  <2>2. PICK i \in DOMAIN register : register[i].version = v /\ register[i].digest = digest
    BY <2>1, DigestIsRecorded
  <2>3. digest \in green
    BY <2>2, <1>4 DEF RegisterOK, EntryOK
  <2> QED
    BY <1>2, <1>3, <1>4, <2>1, <2>3
<1>5. CASE digest = NoTree
  <2>1. PICK i \in DOMAIN register : register[i].version = v
    BY <1>1, TargetIsRecorded
  <2>2. ~replaced => published[v] \in green
    BY <2>1 DEF RegisterOK, EntryOK
  <2> QED
    BY <1>2, <1>3, <1>5, <2>2 DEF TypeOK
<1> QED
  BY <1>4, <1>5

----------------------------------------------------------------------------
(* The invariant *)

LEMMA InitIInv == Init => IInv
<1> SUFFICES ASSUME Init PROVE IInv
  OBVIOUS
<1> USE DEF Init
<1>1. TypeOK
  <2>1. <<>> \in Seq(Tree) /\ <<>> \in Seq(Entry)
    OBVIOUS
  <2>2. releases \in 0 .. MaxReleases
    BY BoundsAssumption
  <2> QED
    BY <2>1, <2>2 DEF TypeOK, Steps
<1>2. OldShellsStillLoad
  BY DEF OldShellsStillLoad
<1>3. JobOK /\ GreenOK /\ SureOK
  BY DEF JobOK, GreenOK, SureOK
<1>4. RegisterOK
  BY DEF RegisterOK
<1> QED
  BY <1>1, <1>2, <1>3, <1>4 DEF IInv

LEMMA NextIInv == IInv /\ [Next]_vars => IInv'
<1> SUFFICES ASSUME IInv, [Next]_vars PROVE IInv'
  OBVIOUS
<1> USE DEF IInv, TypeOK, function, site, job, Finish
<1>r. \A t \in Tree : Revision[t] \in Nat
  BY RevisionAssumption
<1>1. CASE \E t \in Tree : HandApply(t)
  <2>1. PICK t \in Tree : HandApply(t)
    BY <1>1
  <2>2. pc = "idle" /\ Terraform(t) /\ UNCHANGED <<schema, site, register, pc, job, releases, green>>
    BY <2>1 DEF HandApply
  <2>3. /\ published' \in Seq(Tree) /\ alias' \in DOMAIN published'
        /\ replaced' \in BOOLEAN /\ sure' \in BOOLEAN /\ escaped' \subseteq Nat
        /\ SureOK' /\ RegisterOK'
    BY <2>2, TerraformEffect
  <2>4. JobOK' /\ GreenOK' /\ OldShellsStillLoad'
    BY <2>2 DEF JobOK, GreenOK, OldShellsStillLoad
  <2>5. TypeOK'
    BY <2>2, <2>3
  <2> QED
    BY <2>3, <2>4, <2>5
<1>2. CASE HandAlias
  <2> USE DEF HandAlias
  <2>1. alias' \in DOMAIN published'
    <3>1. Len(register) \in DOMAIN register
      BY <1>2
    <3>2. register[Len(register)] \in Entry
      BY <3>1
    <3>3. Last(register).version \in Nat \ {0}
      BY <3>2 DEF Last, Entry
    <3> QED
      BY <1>2, <3>3
  <2>2. JobOK' /\ GreenOK' /\ OldShellsStillLoad' /\ SureOK'
    BY <1>2 DEF JobOK, GreenOK, OldShellsStillLoad, SureOK
  <2>3. RegisterOK'
    BY <1>2 DEF RegisterOK, EntryOK
  <2> QED
    BY <1>2, <2>1, <2>2, <2>3
<1>3. CASE \E t \in Tree : Begin(t)
  <2>1. PICK t \in Tree : Begin(t)
    BY <1>3
  <2> USE <2>1 DEF Begin
  <2>2. TypeOK'
    BY BoundsAssumption DEF Steps
  <2>3. JobOK' /\ GreenOK' /\ OldShellsStillLoad' /\ SureOK'
    BY DEF JobOK, GreenOK, OldShellsStillLoad, SureOK
  <2>4. RegisterOK'
    BY DEF RegisterOK, EntryOK
  <2> QED
    BY <2>2, <2>3, <2>4
<1>4. CASE Apply
  <2>1. tree \in Tree
    BY <1>4 DEF Apply, JobOK
  <2>2. /\ Terraform(tree)
        /\ version' = Len(published') /\ pc' = "migrate"
        /\ UNCHANGED <<schema, site, register, tree, from, releases, green>>
    BY <1>4 DEF Apply
  <2>3. /\ published' \in Seq(Tree) /\ alias' \in DOMAIN published'
        /\ replaced' \in BOOLEAN /\ sure' \in BOOLEAN /\ escaped' \subseteq Nat
        /\ Len(published') \in DOMAIN published' /\ Len(published') \in Nat
        /\ published'[Len(published')] = tree
        /\ SureOK' /\ RegisterOK'
    BY <2>1, <2>2, TerraformEffect
  <2>4. TypeOK'
    BY <2>2, <2>3 DEF Steps
  <2>5. JobOK' /\ GreenOK' /\ OldShellsStillLoad'
    BY <2>1, <2>2, <2>3 DEF JobOK, GreenOK, OldShellsStillLoad
  <2> QED
    BY <2>3, <2>4, <2>5
<1>5. CASE ApplyFails
  <2>1. tree \in Tree
    BY <1>5 DEF ApplyFails, JobOK
  <2>2. /\ Publish(tree) /\ Finish
        /\ UNCHANGED <<alias, schema, site, register, releases, replaced, sure, green, escaped>>
    BY <1>5 DEF ApplyFails
  <2>3. /\ published' \in Seq(Tree)
        /\ DOMAIN published \subseteq DOMAIN published'
        /\ \A n \in DOMAIN published : published'[n] = published[n]
    BY <2>1, <2>2, PublishEffect
  <2>4. TypeOK'
    BY <2>2, <2>3 DEF Steps
  <2>5. JobOK' /\ GreenOK' /\ OldShellsStillLoad'
    BY <2>2 DEF JobOK, GreenOK, OldShellsStillLoad
  <2>6. SureOK'
    BY <2>2, <2>3 DEF SureOK
  <2>7. RegisterOK'
    BY <2>2, <2>3 DEF RegisterOK, EntryOK
  <2> QED
    BY <2>4, <2>5, <2>6, <2>7
<1>6. CASE Migrate \/ MigrateFails
  <2>1. tree \in Tree /\ pc = "migrate"
    BY <1>6 DEF Migrate, MigrateFails, MigrationRaises, JobOK
  <2>2. /\ schema' \in Nat /\ schema <= schema'
        /\ UNCHANGED <<function, site, register, releases, green>>
    BY <1>6, <2>1, <1>r DEF Migrate, MigrateFails, MigrationRaises, Upgradable
  <2>3. TypeOK' /\ JobOK'
    BY <1>6, <2>1, <2>2, <1>r
    DEF Migrate, MigrateFails, MigrationRaises, JobOK, Steps
  <2>4. GreenOK'
    BY <2>2, <1>r DEF GreenOK
  <2>5. SureOK'
    BY <2>2, <1>r DEF SureOK
  <2>6. OldShellsStillLoad' /\ RegisterOK'
    BY <2>2 DEF OldShellsStillLoad, RegisterOK, EntryOK
  <2> QED
    BY <2>3, <2>4, <2>5, <2>6
<1>7. CASE Roll
  <2> USE <1>7 DEF Roll
  <2>1. /\ version \in DOMAIN published /\ published[version] = tree
        /\ Revision[tree] <= schema /\ tree \in Tree
    BY DEF JobOK
  <2>2. TypeOK' /\ JobOK' /\ SureOK'
    BY <2>1 DEF Steps, JobOK, SureOK
  <2>3. GreenOK' /\ OldShellsStillLoad' /\ RegisterOK'
    BY DEF GreenOK, OldShellsStillLoad, RegisterOK, EntryOK
  <2> QED
    BY <2>2, <2>3
<1>8. CASE SyncAssets \/ SyncShell
  <2> USE DEF SyncAssets, SyncShell
  <2>1. tree \in Tree
    BY <1>8 DEF JobOK
  <2>2. TypeOK'
    BY <1>8, <2>1 DEF Steps
  <2>3. JobOK'
    <3>1. CASE SyncAssets
      BY <2>1, <3>1 DEF JobOK
    <3>2. CASE SyncShell
      <4>1. pc = "shell" /\ pc' = "smoke"
        BY <3>2
      <4> QED
        BY <3>2, <4>1 DEF JobOK
    <3> QED
      BY <1>8, <3>1, <3>2
  <2>4. OldShellsStillLoad'
    BY <1>8, <2>1 DEF OldShellsStillLoad, JobOK
  <2>5. GreenOK' /\ SureOK' /\ RegisterOK'
    BY <1>8 DEF GreenOK, SureOK, RegisterOK, EntryOK
  <2> QED
    BY <2>2, <2>3, <2>4, <2>5
<1>9. CASE SmokePasses
  <2> USE <1>9 DEF SmokePasses
  <2>1. /\ version \in DOMAIN published /\ alias = version
        /\ published[version] \in Tree /\ Revision[published[version]] <= schema
    BY DEF JobOK, Answers, Serving
  <2>2. TypeOK'
    BY <2>1 DEF Steps, Serving
  <2>3. JobOK' /\ GreenOK'
    BY <2>1 DEF JobOK, GreenOK, Serving
  <2>4. OldShellsStillLoad' /\ SureOK' /\ RegisterOK'
    BY DEF OldShellsStillLoad, SureOK, RegisterOK, EntryOK
  <2> QED
    BY <2>2, <2>3, <2>4
<1>10. CASE Record
  <2>1. PICK known \in {register, <<>>}, digest \in {published[version], NoTree} :
          register' = Appended(known, [version |-> version, digest |-> digest, from |-> from])
    BY <1>10 DEF Record
  <2> DEFINE e == [version |-> version, digest |-> digest, from |-> from]
  <2>2. /\ pc = "record" /\ Finish
        /\ UNCHANGED <<function, schema, site, releases, green>>
    BY <1>10 DEF Record
  <2>3. /\ version \in DOMAIN published /\ published[version] \in green
    BY <2>2 DEF JobOK
  <2>4. e \in Entry /\ EntryOK(e)
    BY <2>1, <2>3 DEF Entry, EntryOK
  <2>5. known \in Seq(Entry) /\ \A j \in DOMAIN known : EntryOK(known[j])
    <3>1. <<>> \in Seq(Entry) /\ DOMAIN <<>> = {}
      OBVIOUS
    <3>2. CASE known = register
      BY <3>2 DEF RegisterOK
    <3>3. CASE known = <<>>
      BY <3>1, <3>3
    <3> QED
      BY <2>1, <3>2, <3>3
  <2> HIDE DEF e
  <2>6. /\ register' \in Seq(Entry)
        /\ \A i \in DOMAIN register' :
             register'[i] = e \/ \E j \in DOMAIN known : register'[i] = known[j]
    BY <2>1, <2>4, <2>5, AppendedEntries DEF e
  <2>7. \A i \in DOMAIN register' : EntryOK(register'[i])
    BY <2>4, <2>5, <2>6
  <2>8. RegisterOK'
    BY <2>2, <2>7 DEF RegisterOK, EntryOK
  <2>9. TypeOK'
    BY <2>2, <2>6 DEF Steps
  <2>10. JobOK' /\ OldShellsStillLoad' /\ GreenOK' /\ SureOK'
    BY <2>2 DEF JobOK, OldShellsStillLoad, GreenOK, SureOK
  <2> QED
    BY <2>8, <2>9, <2>10
<1>11. CASE Stop
  <2> USE <1>11 DEF Stop
  <2>1. TypeOK'
    OBVIOUS
  <2>2. JobOK' /\ OldShellsStillLoad' /\ GreenOK' /\ SureOK' /\ RegisterOK'
    BY DEF JobOK, OldShellsStillLoad, GreenOK, SureOK, RegisterOK, EntryOK
  <2> QED
    BY <2>1, <2>2
<1>12. CASE Rollback
  <2>1. /\ alias' \in DOMAIN published /\ version' = alias' /\ sure' \in BOOLEAN
        /\ sure' => published[alias'] \in green
    BY <1>12, RollbackEffect
  <2>2. /\ pc = "idle" /\ pc' = "smoke" /\ releases < MaxReleases
        /\ from' = alias /\ escaped' = escaped \cup {alias} /\ releases' = releases + 1
        /\ UNCHANGED <<published, schema, site, register, tree, replaced, green>>
    BY <1>12 DEF Rollback
  <2>3. TypeOK'
    BY <2>1, <2>2, BoundsAssumption DEF Steps
  <2>4. JobOK' /\ GreenOK' /\ OldShellsStillLoad'
    BY <2>1, <2>2 DEF JobOK, GreenOK, OldShellsStillLoad
  <2>5. SureOK'
    BY <2>1, <2>2 DEF SureOK, GreenOK
  <2>6. RegisterOK'
    BY <2>2 DEF RegisterOK, EntryOK
  <2> QED
    BY <2>3, <2>4, <2>5, <2>6
<1>13. CASE UNCHANGED vars
  <2> USE <1>13 DEF vars
  <2>1. TypeOK' /\ JobOK' /\ OldShellsStillLoad' /\ GreenOK' /\ SureOK'
    BY DEF JobOK, OldShellsStillLoad, GreenOK, SureOK
  <2>2. RegisterOK'
    BY DEF RegisterOK, EntryOK
  <2> QED
    BY <2>1, <2>2
<1> QED
  BY <1>1, <1>2, <1>3, <1>4, <1>5, <1>6, <1>7, <1>8, <1>9, <1>10, <1>11, <1>12, <1>13
  DEF Next

THEOREM Invariant == Spec => []IInv
<1>1. Init => IInv
  BY InitIInv
<1>2. IInv /\ [Next]_vars => IInv'
  BY NextIInv
<1> QED
  BY <1>1, <1>2, PTL DEF Spec

----------------------------------------------------------------------------
(* The properties *)

\* The alias never names a version that does not exist, and the rest of the
\* state keeps its shape.
THEOREM TypeCorrect == Spec => []TypeOK
<1>1. IInv => TypeOK
  BY DEF IInv
<1> QED
  BY <1>1, Invariant, PTL

\* Code that deploy.sh routes to finds the schema it was written for.
THEOREM SchemaFirst == Spec => []SchemaIsAhead
<1>1. IInv => SchemaIsAhead
  BY DEF IInv, SureOK, SchemaIsAhead, Serving
<1> QED
  BY <1>1, Invariant, PTL

\* Publication is additive: no shell a browser holds loses its bundles.
THEOREM BundlesOutliveTheirRelease == Spec => []OldShellsStillLoad
<1>1. IInv => OldShellsStillLoad
  BY DEF IInv
<1> QED
  BY <1>1, Invariant, PTL

\* A rollback goes to a build that passed the smoke of this environment.
THEOREM RollbacksLandOnGreen == Spec => RollbackLandsOnWhatServed
<1> DEFINE A == pc = "idle" /\ pc' = "smoke" /\ sure' => published'[alias'] \in green
<1>1. IInv /\ [Next]_vars => [A]_vars
  <2> SUFFICES ASSUME IInv, Next, pc = "idle", pc' = "smoke", sure'
               PROVE  published'[alias'] \in green
    OBVIOUS
  <2>1. Rollback
    BY DEF Next, HandApply, HandAlias, Begin, Apply, ApplyFails, Migrate, MigrateFails,
           MigrationRaises, Roll, SyncAssets, SyncShell, SmokePasses, Record, Stop, Finish, Steps
  <2>2. published' = published
    BY <2>1 DEF Rollback
  <2> QED
    BY <2>1, <2>2, RollbackEffect DEF IInv
<1>2. IInv /\ [Next]_vars => [pc = "idle" /\ pc' = "smoke" /\ sure' => published'[alias'] \in green]_vars
  BY <1>1
<1> QED
  BY <1>2, Invariant, PTL DEF Spec, RollbackLandsOnWhatServed
=============================================================================
