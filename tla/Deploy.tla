------------------------------- MODULE Deploy -------------------------------
(***************************************************************************)
(* Releases of one environment and their rollback: scripts/deploy.sh with  *)
(* the Terraform of the API function, the migration it invokes and the     *)
(* bucket it publishes the SPA to.  One release runs at a time (the        *)
(* concurrency group of .github/workflows/deploy.yml), it may stop before  *)
(* any of its steps, and only between two releases does somebody run       *)
(* infra.sh or move the alias by hand.                                     *)
(***************************************************************************)
EXTENDS ReleaseManifest, SequencesExt

CONSTANTS
  Revision,      \* the Alembic head of each tree, on one line of revisions
  MaxReleases,   \* bound: deployments and rollbacks
  MaxVersions    \* bound: versions published of one function

ASSUME RevisionAssumption == Revision \in [Tree -> Nat \ {0}]
ASSUME BoundsAssumption   == MaxReleases \in Nat /\ MaxVersions \in Nat

VARIABLES
  published,  \* the API function: version n was built from published[n]
  alias,      \* the version the gateway routes to; 0 before there is one
  schema,     \* the revision of the database; 0 when it is empty
  assets,     \* the trees whose bundles are in the bucket
  shell,      \* the tree index.html names the bundles of
  register,   \* the release manifest
  pc,         \* the step deploy.sh is at
  tree,       \* the checkout it releases
  version,    \* API_VERSION, or the version a rollback went to
  from,       \* the version a rollback left; 0 in a deployment
  releases,   \* how many have started
  replaced,   \* history: the function was replaced, its numbers restarted
  sure,       \* history: deploy.sh placed the alias, knowing the build
  green,      \* history: the builds that passed a smoke
  escaped,    \* history: versions rolled back from and not green since
  loaded      \* history: the shells browsers may hold

function == <<published, alias, replaced, sure, escaped>>
site     == <<assets, shell, loaded>>
job      == <<tree, version, from>>
vars     == <<published, alias, schema, assets, shell, register, pc, tree,
              version, from, releases, replaced, sure, green, escaped, loaded>>

Steps == {"apply", "migrate", "roll", "assets", "shell", "smoke", "record"}

Init ==
  /\ published = <<>> /\ alias = 0 /\ schema = 0
  /\ assets = {} /\ shell = NoTree
  /\ register = <<>>
  /\ pc = "idle" /\ tree = NoTree /\ version = 0 /\ from = 0
  /\ releases = 0 /\ replaced = FALSE /\ sure = FALSE
  /\ green = {} /\ escaped = {} /\ loaded = {}

Finish == pc' = "idle" /\ tree' = NoTree /\ version' = 0 /\ from' = 0

Serving == published[alias]

----------------------------------------------------------------------------
(* terraform apply *)

\* publish = true: a package that has changed becomes a version.
Publish(t) ==
  /\ published' = IF published # <<>> /\ Last(published) = t
                    THEN published ELSE Append(published, t)
  /\ Len(published') <= MaxVersions

\* The alias is created on the version of that moment, and then left alone.
Terraform(t) ==
  \/ /\ Publish(t)
     /\ alias' = IF alias = 0 THEN Len(published') ELSE alias
     /\ UNCHANGED <<replaced, sure, escaped>>
  \/ \* The function is replaced (bound: once), the alias with it.
     /\ published # <<>> /\ ~replaced
     /\ published' = <<t>> /\ alias' = 1
     /\ replaced' = TRUE /\ sure' = FALSE /\ escaped' = {}

\* infra.sh <env> apply on its own.
HandApply(t) ==
  /\ pc = "idle"
  /\ Terraform(t)
  /\ UNCHANGED <<schema, site, register, pc, job, releases, green>>

\* The update-alias a refused rollback prints, to the last release recorded.
HandAlias ==
  /\ pc = "idle" /\ alias # 0 /\ register # <<>>
  /\ Last(register).version <= Len(published)
  /\ alias' = Last(register).version
  /\ alias' # alias
  /\ sure' = FALSE
  /\ UNCHANGED <<published, schema, site, register, pc, job, releases, replaced,
                 green, escaped>>

----------------------------------------------------------------------------
(* deploy.sh <env> *)

Begin(t) ==
  /\ pc = "idle" /\ releases < MaxReleases
  /\ pc' = "apply" /\ tree' = t
  /\ releases' = releases + 1
  /\ UNCHANGED <<function, schema, site, register, version, from, green>>

Apply ==
  /\ pc = "apply"
  /\ Terraform(tree)
  /\ version' = Len(published')
  /\ pc' = "migrate"
  /\ UNCHANGED <<schema, site, register, tree, from, releases, green>>

\* An apply that stops after the function and before the rest of it.
ApplyFails ==
  /\ pc = "apply"
  /\ Publish(tree)
  /\ Finish
  /\ UNCHANGED <<alias, schema, site, register, releases, replaced, sure, green, escaped>>

\* alembic upgrade head knows no revision newer than its own tree's.
Upgradable == schema <= Revision[tree]

Migrate ==
  /\ pc = "migrate" /\ Upgradable
  /\ schema' = Revision[tree]
  /\ pc' = "roll"
  /\ UNCHANGED <<function, site, register, job, releases, green>>

\* The whole upgrade is one transaction: undone by what it raised, or kept
\* when only the answer was lost.
MigrationRaises ==
  /\ pc = "migrate"
  /\ \/ schema' = schema
     \/ Upgradable /\ schema' = Revision[tree]

\* Mutant of MigrateFails: a Lambda that raised answered 200 all the same.
MigrateFailsUnread ==
  /\ MigrationRaises
  /\ pc' = "roll"
  /\ UNCHANGED <<function, site, register, job, releases, green>>

MigrateFails ==
  /\ MigrationRaises
  /\ Finish
  /\ UNCHANGED <<function, site, register, releases, green>>

Roll ==
  /\ pc = "roll"
  /\ alias' = version
  /\ sure' = TRUE
  /\ pc' = "assets"
  /\ UNCHANGED <<published, schema, site, register, job, releases, replaced, green,
                 escaped>>

\* Mutant of SyncAssets: sync --delete.
SyncAssetsDeleting ==
  /\ pc = "assets"
  /\ assets' = {tree}
  /\ pc' = "shell"
  /\ UNCHANGED <<function, schema, shell, loaded, register, job, releases, green>>

SyncAssets ==
  /\ pc = "assets"
  /\ assets' = assets \cup {tree}
  /\ pc' = "shell"
  /\ UNCHANGED <<function, schema, shell, loaded, register, job, releases, green>>

\* The shell, and the invalidation that lets browsers have it.
SyncShell ==
  /\ pc = "shell"
  /\ shell' = tree
  /\ loaded' = loaded \cup {tree}
  /\ pc' = "smoke"
  /\ UNCHANGED <<function, schema, assets, register, job, releases, green>>

----------------------------------------------------------------------------
(* Both modes *)

\* What post_deploy_smoke asks can only be answered by code that finds its
\* schema and by a bucket that has a shell.
Answers == Revision[Serving] <= schema /\ shell # NoTree

SmokePasses ==
  /\ pc = "smoke" /\ Answers
  /\ green'   = green \cup {Serving}
  /\ escaped' = escaped \ {alias}
  /\ pc' = "record"
  /\ UNCHANGED <<published, alias, schema, site, register, job, releases, replaced,
                 sure>>

\* A read of the register or of the digest that fails counts as empty, and
\* the register is written over all the same.
Record ==
  /\ pc = "record"
  /\ \E known \in {register, <<>>}, digest \in {published[version], NoTree} :
       register' = Appended(known, [version |-> version, digest |-> digest, from |-> from])
  /\ Finish
  /\ UNCHANGED <<function, schema, site, releases, green>>

\* The step fails, or the runner dies before it: a smoke that does not pass,
\* a register that could not be written.
Stop ==
  /\ pc \in Steps
  /\ Finish
  /\ UNCHANGED <<function, schema, site, register, releases, green>>

----------------------------------------------------------------------------
(* deploy.sh <env> --rollback *)

\* Mutant of SameBuild: that the version exists is taken to be enough.
Exists(v, digest) == v \in DOMAIN published

\* Mutant of SameBuild: a version the function does not have is not refused.
SameIfFound(v, digest) ==
  v \in DOMAIN published => digest \in {published[v], NoTree}

SameBuild(v, digest) ==
  v \in DOMAIN published /\ digest \in {published[v], NoTree}

\* Up to the alias in one step, for nothing else moves it meanwhile.  The
\* second read of the register may fail, and then there is no digest to
\* compare.  A refusal changes nothing.
Rollback ==
  /\ pc = "idle" /\ releases < MaxReleases /\ alias # 0
  /\ \E v \in Targets(register, alias) :
       \E digest \in Digests(register, v) \cup {NoTree} :
         /\ SameBuild(v, digest)
         /\ alias' = v /\ version' = v
         /\ sure'  = (digest # NoTree \/ ~replaced)
  /\ from' = alias
  /\ escaped' = escaped \cup {alias}
  /\ pc' = "smoke"
  /\ releases' = releases + 1
  /\ UNCHANGED <<published, schema, site, register, tree, replaced, green>>

----------------------------------------------------------------------------

Next ==
  \/ \E t \in Tree : HandApply(t) \/ Begin(t)
  \/ HandAlias \/ Rollback
  \/ Apply \/ ApplyFails \/ Migrate \/ MigrateFails \/ Roll
  \/ SyncAssets \/ SyncShell \/ SmokePasses \/ Record \/ Stop

Spec == Init /\ [][Next]_vars

----------------------------------------------------------------------------
(* Properties *)

\* The state has the shape the scripts give it; in particular the alias never
\* names a version the function does not have.
TypeOK ==
  /\ published \in Seq(Tree)
  /\ alias \in {0} \cup DOMAIN published
  /\ schema \in Nat
  /\ assets \subseteq Tree /\ shell \in Tree \cup {NoTree}
  /\ register \in Seq(Entry)
  /\ pc \in Steps \cup {"idle"}
  /\ tree \in Tree \cup {NoTree} /\ version \in Nat /\ from \in Nat
  /\ releases \in 0 .. MaxReleases
  /\ replaced \in BOOLEAN /\ sure \in BOOLEAN
  /\ green \subseteq Tree /\ escaped \subseteq Nat /\ loaded \subseteq Tree

\* Code that deploy.sh routes to finds the schema it was written for, through
\* migrations that fail or are only half heard of, replaced functions and
\* rollbacks over a schema that is never taken back.
SchemaIsAhead == sure => Revision[Serving] <= schema

\* A rollback lands on a build that has passed the smoke of this environment,
\* though every apply mints versions and a replaced function numbers others
\* the same: unless the digest was never recorded, or could not be read back.
RollbackLandsOnWhatServed ==
  [][pc = "idle" /\ pc' = "smoke" /\ sure' => published'[alias'] \in green]_vars

\* A shell some browser loaded, from this release or an older one, still has
\* in the bucket the bundles it names.
OldShellsStillLoad == loaded \cup ({shell} \ {NoTree}) \subseteq assets

\* What deploy.sh:451-454 and release_manifest.py:115-118 promise: a rollback
\* never goes to a version an earlier one moved away from.
RollbackNeverReturns ==
  [][pc = "idle" /\ pc' = "smoke" => alias' \notin escaped]_vars
=============================================================================
