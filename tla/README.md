# A verification of the guestbook

The repository is a small guestbook: a FastAPI service over Postgres, deployed as AWS Lambda
functions; a React screen; the scripts that deploy it, roll it back, raise a preview for a branch,
build and seed it on a developer's machine; and the gates that judge a change before it is merged. The product is small on purpose, so what can go
wrong in it is mostly between things that are each simple: between two requests on one entry,
between a screen and a book that changes under it, between a layer that logs a failure and the next
that would log it again, between a deployment that stopped half way and the rollback that follows.
That is what these modules are about.

    tlc -workers 2 -config MCDeploy.cfg MCDeploy      # one run; the list is below
    tlapm Deploy_proofs.tla                           # the proofs of one module

`PROJECT.json` lists the runs, the mutants that show each property can fail, the source lines each
definition stands for, the hazards, the findings and the theorems.

## 1. Inventory

### The parts, their state and their operations

| Part | Source | State it keeps | Operations that change it |
|---|---|---|---|
| Guestbook table | `app/contexts/guestbook/models`, `alembic/versions` | rows of `guestbook_entries`: id, author, message, created_at, updated_at | INSERT, UPDATE, DELETE of one row |
| Entry handlers | `app/contexts/guestbook/{routers,services}` | nothing between requests; within one, the row loaded, the moment stamped, the changes not yet flushed | POST, PATCH, DELETE; GET reads |
| List endpoint | `list_entries`, `_match`, `_ordered` | nothing; three statements see three snapshots | none |
| Reader's query | `useGuestbookEntries.ts`, `entryPaging.ts` | the pieces of the answer held, the fetch in flight, its error | first read, next piece, replay of all pieces, retry, invalidation |
| Address and search box | `useEntryQueryParams.ts`, `useDebouncedValue.ts` | the URL, the draft in the box, the timer | typing, the end of the pause, sorting, Load more, links, Back and Forward, the jump after a post |
| Screen | `GuestbookPage.tsx`, `EntryCard`, `EntryComposer`, `DeleteEntryDialog` | which card is edited, which dialog is open, mutations in flight | load more, try again, write, save, delete |
| Dialogs and toasts | `Modal.tsx`, `Toast.tsx` | the stack of open dialogs, focus to give back; toasts and their timers | open, close, announce, dismiss |
| Text rules | `platform/schemas/text.py`, `entryText.ts` | none | none: pure |
| Request path | `main.py`, `core/{errors,request_id,robots,logging_config}.py` | a request identifier in a context variable, a mark on the scope, log records | set and put back the identifier; catch, log, answer, raise on |
| Lambda entry points | `lambda_handler.py`, `db/iam_auth.py` | databases and one role of a cluster | migrate; create, let into and drop a preview's database |
| Deployment and rollback | `scripts/deploy.sh`, `scripts/release_manifest.py`, `.github/workflows/deploy.yml`, `infra/terraform/modules/api` | versions of the function, the alias, the schema, the bundles and the shell in a bucket, the register of releases | the seven steps; `--rollback`; `infra.sh apply` by hand |
| Previews | `scripts/preview.sh`, `preview.yml`, `preview-teardown.yml` | per branch: a stack, a database, a role; the shared cluster | raise, refresh, remove |
| End-to-end reset | `e2e/harness/database.py`, `scripts/e2e_database.py` | a database that may be a developer's own | truncate, behind gates |
| Local run | `scripts/start.sh`, `build.sh`, `spa_build_state.py`, `seed_golden_set.py`, `run.py` | the bundle under `app/static`, modification times, the book of a local database | build, build if stale, seed, run |
| Process status | `scripts/stop.sh`, `_lib.sh`, `app_status.py` | PID files, log files, processes of the machine | stop, status |
| Health, build, robots | `platform/routers/health.py`, `core/build_info.py`, `core/robots.py` | the environment's name | none |
| A CI run | `.github/workflows/ci.yml`, `scripts/ci_summary.py`, `scenario_census.py` | per job a result, per suite a report and a page, the outputs of router, audit and verdict | route, run a suite, count it, audit, advise, give the verdict |
| The contract and its readers | `contracts/openapi`, `scripts/openapi_contract.py`, `smoke_contract.py`, `dump_openapi.py` | two documents: what is promised, what is served | compare, ask, judge |
| Infrastructure | `infra/terraform` | declared, not programmed | none of its own |

### How they interact

- The **handlers** meet only in the **table**: a worker is a thread of the server or a Lambda
  environment with a connection of its own (`app/db/session.py`), so between any two statements of
  a handler another one may commit. There is no lock, version column or retry.
- The **screen** asks the **list endpoint** piece by piece. What it holds is a cache: the address
  says how much should be there (`?shown=`), an effect asks for the next piece until it is, and a
  write of one's own invalidates the lot. A write of somebody else's tells the screen nothing.
- **deploy.sh** talks to five things that fail separately: Terraform, the migration function (whose
  answer may be lost after it did its work), the alias, the bucket and the register in the
  parameter store. A rollback trusts what earlier releases wrote down.
- Each request passes five **layers** on its way in and again on its way out. They share a
  contextvar that its task inherits from whatever started it, one mark on the scope, and log
  records that two handlers filter one after the other, in place.
- **Previews** meet in three places: GitHub's concurrency groups (a run of the same branch name
  displaces one that waits), the migration function (whose invocations outlive the job that waits
  for them) and the cluster (one role for all of them, a database each).
- The **contract** is read by three tools at three moments: the gate on a branch, the smoke of a
  deployment, and the smoke of a rollback, when main holds a newer contract than the code served.

### What is hard here, and what would make each part correct

| Part | Hard because | Correct when | Where |
|---|---|---|---|
| Table and handlers | several statements per request at READ COMMITTED; SQLAlchemy flushes only columns that differ from the ones it loaded; `refresh` reads in a new transaction | each answer was true at some moment of the request; a deleted entry stays gone; a field left unset is left alone; moments of writing and amending keep their order; the whole is a book | `GuestbookService` |
| List and query | three snapshots per answer, offsets into an order that moves, a replay that keeps the options it started with, retries, cancellation | what is on screen at rest is an exact beginning of the answer; filling ends; no request is refused | `GuestbookReading` |
| Deployment | seven steps any of which may be the last; answers lost after the work was done; a register that may be unreadable; version numbers that start again | code that is rolled out finds its schema; a rollback lands on a build that served; shells already in browsers keep their bundles | `Deploy`, `ReleaseManifest` |
| Address and box | a timer racing the buttons and a browser's Back; an effect that writes the address it follows | a late phrase is not written over a navigation; a navigation stands; box and address agree in the end | `GuestbookAddress` |
| Request path | a failing request passes two layers that log and three that may answer; its task may start with another request's identifier; filters change records in place | one record per failure under its own identifier and without its text; exactly one answer, stamped | `RequestPath` |
| Previews | runs that replace each other while waiting; invocations nobody waits for; DDL on a shared cluster that may fail half way | a preview that was raised works until it is removed, whatever others do; what is said to be removed is gone; nothing outlives its branch | `Previews`, `PreviewCluster`, `PreviewFleet` |
| Local run | modification times stand for contents; saves race a build; a seeder breaks off and is run again | what is called current is of these sources; the corpus goes in once and not into production, whatever takes the address meanwhile | `SpaBuild`, `Seeding`, `LocalRun` |
| CI run | jobs that do not run look like jobs that had nothing to do; reporters that may break; suites that collect nothing | green means every question was answered, red means that a job failed or was cancelled, and never for an advisory somebody else brought | `CiRun` |
| Contract | nested documents compared "only where the contract speaks"; three readers, two of them later | which sentences the gate reads and which it does not is known; a red smoke has a cause | `ContractGate` |
| Screen, dialogs, text rules, reset, process status | see the last section | | not modelled |

`PROJECT.json` "hazards" lists these one by one at their lines, with the properties that would
catch each, or with the reason why none does yet.

## 2. The modules

    GuestbookBook            abstract: what the table promises
      ^ EXTENDS        ^ EXTENDS
    GuestbookService   GuestbookReading        ReleaseManifest   (pure: the register's rules)
      ^                  ^                       ^ EXTENDS
    MCGuestbookService MCGuestbookReading      Deploy
    GuestbookService_proofs                    MCDeploy, Deploy_proofs
                       GuestbookReading_proofs

    GuestbookAddress  <-- MCGuestbookAddress, GuestbookAddress_proofs
    RequestPath       <-- MCRequestPath, RequestPath_proofs

    PreviewFleet             abstract: what previews promise
      ^ INSTANCE (refinement)
    Previews  --EXTENDS-->  PreviewCluster         SpaBuild   Seeding
      ^                                                ^        ^ EXTENDS
    MCPreviews, Previews_proofs                        LocalRun  <-- MCLocalRun,
                                                                      LocalRun_proofs

    CiRun         <-- MCCiRun           \__ Checks_proofs  (both: they share no state)
    ContractGate  <-- MCContractGate    /

### GuestbookBook: the promise

The table as a book (BR-02, BR-03 of `spec/contexts/guestbook.md`): `Write` under an identifier
nobody has used, `Amend` without moving the moment of writing, `Erase` for good, `Tick`. One action
is one committed transaction. `spent` is the set of identifiers ever used: uuid4 never draws one
twice. Stamps are taken from one clock that does not go backwards; two workers' clocks are taken to
agree, which is an assumption about the hosts and not something the code ensures.

### GuestbookService: the handlers

One worker serves one request. `pc[w]` says which statement comes next, and a step is one
statement, or the flush and COMMIT that `session.commit()` sends together:

| Action | Code (`services/guestbook_entries.py`, `routers/guestbook_entries.py`) |
|---|---|
| `Call` | a request with a valid body is handed to its handler |
| `Get` | `get_entry`: `session.get`, then 200 or 404 |
| `Now` | `_now()` in `create_entry` and `update_entry` |
| `Insert` | `session.add`, `session.commit()` |
| `Load`, `RefuseEmptyPatch` | the router's refusal of an empty PATCH; `session.get` of `update_entry` and `delete_entry`, 404 if nothing is found |
| `Update`, `SkipUpdate`, `UpdateNothing` | the flush: columns that differ from the loaded ones; nothing when none does; StaleDataError, hence 500, when the row is gone |
| `Refresh` | `session.refresh`: the row as it now is; 500 when it is gone |
| `Delete` | `session.delete`, `session.commit()`. A DELETE that matches no row is only a warning in SQLAlchemy, so a second one commits too. 500 stands for an acknowledgement that was lost |
| `Fail` | a severed connection or a killed process, before or after a commit: the caller is told 500 |

External facts used: SQLAlchemy writes changed columns only and raises StaleDataError for an UPDATE
of no row; Postgres at READ COMMITTED evaluates an UPDATE on the latest committed row. The index and
the widths of columns, which no property tells apart, are left out. `seen[w]` is history: everything
the table held under the entry since the request came.

### GuestbookReading: a reader

One reader with one question while the book changes by `BookNext`.

- `CountAll`, `CountMatching`, `Select` are the statements of `list_entries`, each on its own
  snapshot. `Orderings` is every order `ORDER BY` allows, so a tie that is not broken shows.
- `FirstPage`, `NextPage`, `ShownFrom` are `entryPaging.ts`; `HasNext` its `getNextPageParam`.
- `Whole` and `NextPiece` are the two fetches of the infinite query. `Deliver` goes on with the
  next piece of a replay or puts the result in the cache; `Retry` resumes at the piece that failed;
  `GiveUp` shows the error; `Fill` is the effect that fills up to `?shown=`.
- `OwnWrite`, `OwnSuccess`, `OwnFailure` are a save or a delete and its answer: `OwnSuccess`
  invalidates, which cancels a running fetch and reads all pieces again.

TanStack Query 5 is modelled from how the hook uses it: a fetch keeps the options it started with; a
replay asks for the first piece with the parameters it had and for each further one with
`getNextPageParam`; a retry does not start over. React's development double-mount is ignored. A
change of question (placeholder data), and the create mutation with the navigation after it, are not
in this module (`GuestbookAddress` has the navigation). `stale` is history: why the last complete read may be out of date.

### GuestbookAddress: the address and the search box

A step is an event and all it makes React render, effects included: the router's update and the
effect's own are each flushed before the browser hands out the next event. `Show(h, i, d, s)` is
that render of `useEntryQueryParams` at the address `h[i]`, with the draft `d` in the box and `s` the
debounced value: the box follows an address it was not seeded from (`Followed`), the effect may
write (`WritesBack`, `Asking`), and the box follows that too.

| Action | Code |
|---|---|
| `Type`, `SortBy`, `LoadMore` | `onSearchChange`, `onSortChange`, `onShownChange`; the last two replace the address |
| `Settle` | the timer of `useDebouncedValue`; one runs exactly while the settled value is not the normalized text in the box |
| `Home` | the link of `PageFrame.tsx`; react-router replaces when it leads to where one is |
| `Back`, `Forward`, `Reload` | the browser's own |
| `Post`, `Posted`, `PostFailed` | `handleCreate` of `GuestbookPage.tsx` and its two ends: the jump to the whole book, or nothing |

Texts are members of `Raw`, `normalizeText` any idempotent function on them (`Normal`); in the run
one text is another with a blank after it. `?shown=` is its default or more. An address typed by
hand is a load of the page, as `Init` and `Reload` are, and from the first render on its phrase is in
normal form. `keyed` and `wrote` are history.

### ReleaseManifest and Deploy: releases

`ReleaseManifest` is `release_manifest.py` as operators: `Appended` (bounded by `Keep`), `Rejected`,
`Candidates`, `Targets`, `Digests`. `Deploy` is one environment:

| Action | Code |
|---|---|
| `Begin` ... `SyncShell` | the steps of `scripts/deploy.sh`, in order: plan and apply, migrate, alias, assets, shell |
| `ApplyFails`, `MigrateFails`, `Stop` | a step fails, or the runner dies before it; `MigrationRaises` includes the upgrade that was done and whose answer was lost |
| `SmokePasses`, `Record` | `post_deploy_smoke`, `record_release`; a register or a digest that cannot be read counts as empty |
| `Rollback` | `--rollback` up to and including the alias; then it shares the smoke and the record |
| `HandApply`, `HandAlias` | `infra.sh <env> apply`, and the `update-alias` command that a refused rollback prints |
| `Terraform` | publish a version if the package changed; create the alias, or leave it; or replace the function, when numbers start again and the alias with them |

A digest is identified with the tree it was built from, because `scripts/package.sh` zips
deterministically. `sure`, `green`, `escaped`, `loaded` are history variables; no guard reads them
except to write them. Assumed: releases do not overlap (`deploy.yml`'s concurrency group); applies
by hand happen only between two releases; revisions are on one line; an upgrade is one transaction
(`alembic/env.py:105`); the smoke passes only if the serving code finds its schema and the bucket
has a shell. Left out: CloudFront's cache beyond the invalidation, the seeding of an environment.

### RequestPath: one request through the layers

`at[t]` is where the call of task `t` stands; a step is what one layer does on the way in or out.
`app/main.py` adds the layers in the reverse of the order they run in:

| Action | Code |
|---|---|
| `Accept`, `PassThrough` | a task of the server, in a copy of another one's context or in none; a scope that is not HTTP |
| `SetRequestId`, `ResetRequestId`, `LeaveRequestId` | `RequestIdMiddleware.__call__`: `set`, the `else` that resets, the `except BaseException: raise` that does not |
| `Respond`, `Begin`, `Raise`, `Cancel` | the router: answered (a refusal's handler included), broken off after its start, raising, cancelled |
| `CatchAndLog`, `CatchAndFail`, `SendSanitized` | `CatchAllMiddleware.__call__`: marks the scope, logs, sends the fixed body, raises on; the logging call may raise itself |
| `HandleGeneric`, `SendRaw` | Starlette's ServerErrorMiddleware with `_handle_generic_exception`: logs unless the scope is marked, answers if nothing was sent, raises on |
| `ServerLogs` | the ASGI server's own record, and its answer where there is none |
| `LibraryLogs` | any logger of the process, with an exception in any of the four places of a record |

`Summarised` is `ExceptionSummaryFilter.filter` on such a record, `Reaching` the second sink getting
what the first has changed. Starlette, logging and the server are modelled from how `app/` uses
them and marked external. A minted identifier is the task itself: uuid4 never draws one twice.

### PreviewFleet, PreviewCluster, Previews

`PreviewFleet` is the promise: each preview is usable from the moment it works until its own removal
begins. `PreviewCluster` is the cluster and the two functions that run DDL on it, a step a statement
(`lambda_handler.py`): `LookForDatabase`, `CreateDatabase`, `LookForRole`, `CreateRole`,
`GrantAndCommit`, `Upgrade`; `TerminateSessions` and `DropDatabase`. `CREATE ROLE` waits for the
transaction that has made the role and not committed (`lock`); grants are of one database; tables
made later are readable only under its default privileges. `Previews` adds the two workflows:

| Action | Code |
|---|---|
| `Dispatch`, `CloseRequest`, `DeleteBranch`, `Lookalike` | the triggers of `preview.yml` and `preview-teardown.yml`; a lookalike is a tag or a fork's branch of the same name, whose job is skipped after its run has taken its place in the group (`Queued`) |
| `Apply`, `Migrated`, `Smoke` | `preview.sh up`: the apply and the invocation, the answer that says whether it worked, the health question |
| `Destroy`, `Terminate`, `Drop` | `preview.sh down`; a refused drop is a warning and the job stays green (`DropSays`) |
| `JobFails`, `CallFails`, `Forget`, `Visit` | a step or a runner lost while the invocation goes on; a statement that fails or a function that times out; guests of a preview, also one that is being removed |

Assumed: two branches have two slugs (`preview.sh` appends a hash); a removal's own invocation is
not left over (it is waited for, or its runner is lost before it); concurrent `GRANT`s that fail on
a catalog row are a `CallFails`.

### SpaBuild, Seeding, LocalRun

`SpaBuild` keeps of each source the save its content is of and its modification time, and of the
bundle what it was made of and when it was written. `BuildState` is `build_state` and looks at times
alone; `RunBuild`, `LeaveAsItIs`, `ReadSource`, `Refuse`, `Empty`, `WriteShell`, `WriteAssets`,
`Measure` are a run of `build.sh`, read by read and write by write; `Save`, `Remove`, `SetClockBack`
and `Kill` come at any moment. `excuse` is history: it notes a save, a removal, a clock or a kill
that may leave an older bundle called current, at the moment it does so and only then. A save of a
source the compiler has read (`AlreadyRead`) is noted of the bundle that is coming; one while files
are being written (`BeingWritten`) or in the tick of the last write, of the one that is there; a
removal of either; a clock only when it is set back behind the last write; a kill only between
`index.html` and the assets. Every other save, refused build and kill is left to the property.

`Seeding` is `seed_golden_set.py`, a step a request: the environment, the look at the book, each
entry; `GiveUp` is a request refused or lost, with the row in or not, `Again` a second run.
`environment` is what answers at the seeder's address now; each environment has a book of its own
(`posted`, `guests`). `Takes` is another application taking the address between two requests, as a
server stopped and started with another `APP_ENV` does; `replaced` notes where seeders stood when
the environment changed. `LocalRun` puts a server and its seeders beside the build, as `start.sh`
does; its `StartServer` chooses the environment.

### CiRun

One action is one job from its first step to its last, as jobs share nothing but what they publish.
`RunSuite` is a suite with its report, its page (`PageOf`), its census and, for the end-to-end
suite, the scenario census inside its step (`StepsPass`). `RunAudit` is the three-valued audit
against what the diff touches; `AuditBreaks` is its job failing or being cancelled before `audit.sh`
has spoken, between its two outputs, or in the Summary after them. `RunAdvisory` the check nothing requires, `RunVerdict` is
`render_verdict` and the gate that wants an explicit `true`, so a reporter that breaks is a red run.
`MaySkip`, `Deps`, `CiSelf` are the router's outputs.

### ContractGate

Contract and dump are documents of one shape: operations with their answer, body and one parameter,
schemas with their fields and the type they give themselves, refusal codes. An answer is a schema by
its name, one written in place, or not JSON; a field may be `owed`, that is, under `required` and not
under `properties`. `CompareContract` and the operators
under it are `openapi_contract.py`, `Gate` its exit code, `Questions`, `Owes`, `Verdict` and `Smoke`
are `smoke_contract.py` as `deploy.sh` calls it: `Owes` reads the schema of an answer whether it is
named or written in place (`Shape`), and `Verdict` refuses what is not JSON, what is not an object
and what lacks a name owed. An answer whose schema states no type is taken to be something else than
an object; Pydantic states `object` wherever it lists fields (`OfPydantic`). What main holds at the start has been through the
gate like everything after it (`BeganAssumption`). Branches edit either document (`EditApp`,
`EditContract`), merge where the gate is green, are deployed and rolled back. The contract of the
model writes `in` and `required` of every parameter, as those under `contracts/openapi` do.

## 3. What the runs check

| Run | Question | Instance | Result |
|---|---|---|---|
| `service` | do interleaved handlers keep the book and answer truly? | 3 workers, 2 identifiers, clock to 2, every request | passes, 618,603 states |
| `reading` | is what the screen holds at rest the answer? | 4 identifiers, phrase, newest first, 2 changes, 1 fault | passes, 2.0 M states |
| `settles` | does filling the screen end? | 5 identifiers, oldest first, 2 changes, 1 fault | passes, 127 k states |
| `address` | does the address win over a late phrase, and do box and address settle? | 4 texts, history of 3 | passes, 197 k states |
| `deploy` | do releases and rollbacks keep schema, bundles and targets right? | 3 trees, 3 versions per function, 4 releases, register of 3 | passes, 1.04 M states |
| `rollback_returns` | a rollback never goes back to what one escaped (`release_manifest.py:115`) | 5 releases, register of 4 | violated: the rollback's smoke was red |
| `request` | is each failure written down once, under its own name, without its text, and answered once? | 2 requests, 2 values of the header that are one when cut | passes, 2.29 M states up to symmetry |
| `previews` | do previews leave each other alone, and do they go away? | 2 branches, 2 invocations, 3 events, 1 mishap | passes, 144 k states |
| `local` | is a bundle called current of these sources, and the corpus in once? | 2 sources, 2 seeders, 2 entries, a guest, 2 environments | passes, 344 k states up to symmetry |
| `ci` | do a green and a refused aggregate mean what they say? | 5 diffs, both suites, 2 declared scenarios | passes, 566 k states |
| `scenarios_run` | a Gherkin suite that is not collected is caught (`scenario_census.py:136`) | the same | violated: cases of `e2e/ui` alone |
| `contract` | which sentences does the gate miss, and does a red smoke have a cause? | 3 operations, 2 schemas, 3 edits | passes, 1.08 M states |

Further configurations, kept beside the runs for questions that were settled. Run them by hand; each
checks one property:

| Configuration | Module | Property | Result |
|---|---|---|---|
| `MCGuestbookServiceAnswers.cfg` | `MCGuestbookService` | `EveryCallIsAnswered` | passes, 7,739 states |
| `MCDoubleDelete.cfg` | `MCGuestbookService` | `SecondDeleteRefused` | violated: two 204 (finding 3) |
| `MCPatchMix.cfg` | `MCGuestbookService` | `PatchStoresWhatItWasGiven` | violated (finding 4) |
| `MCShownTwice.cfg` | `MCGuestbookReading` | `NothingShownTwice` | violated by another guest's entry (finding 5) |
| `MCPendingPhrase.cfg` | `MCGuestbookAddress` | `OnlyLaterTypingWrites` | violated (finding 6) |
| `MCBoxTrimmed.cfg` | `MCGuestbookAddress` | `BoxKeepsWhatWasTyped` | violated (finding 7) |
| `MCClockBack.cfg` | `MCLocalRun` | `ClockMakesItStale` | violated (finding 8) |
| `MCSeedsProduction.cfg` | `MCLocalRun` | `ProductionStaysUnseeded` | violated (finding 10) |
| `MCSentencesHold.cfg` | `MCContractGate` | `EverySentenceHolds` | violated (finding 9) |
| `MCOwedNames.cfg` | `MCContractGate` | `EveryNameOwedIsServed` | violated (finding 9) |
| `MCHonouredRed.cfg` | `MCContractGate` | `HonouredIsGreen` | violated (finding 11) |

**Properties, by what would break them.**
`AnswersAreWitnessed` needs another request to commit between two statements of a handler;
`DeletedIsGone` a flush after somebody else's delete; `UnsetFieldIsLeftAlone` a flush of a stale
copy; `RowsAreSound` stamps read twice; `BookSpec` (the refinement) any of them.
`EveryRequestIsWithinTheContract` needs an address longer than one request may be;
`ScreenTellsTheBook` a tie in the order, a gap or an overlap between pieces, or a write of one's own
that is not read back; `ScreenSettles` a piece that lands and does not re-enter the effect.
`LatePhraseIsCancelled` and `AddressWins` need a value that settled before a navigation and is
written after it, which is the defect `useEntryQueryParams.ts` tells of; `AddressCatchesUp` a
write-back that compares texts of which one is normalized and one is not.
`SchemaIsAhead` needs a failed migration that is not noticed; `RollbackLandsOnWhatServed` a register
from before the function was replaced; `OldShellsStillLoad` a sync that deletes.
`RecordsNameTheirRequest` needs a task that starts in another's context and a record written late on
the way out; `OneRecordPerFailure` two layers that both log; `EveryAnswerIsStamped` an answer from
outside the wrappers; `NoTextReachesASink` one of four places overlooked, on either sink;
`NobodyIsLeftWithoutAnAnswer` and `OneStart` a layer that answers too little or too much after
another one broke off.
`RaisedIsReadable` and the refinement `FleetSpec` need another branch's migration, a left-over one
or a removal that reaches beyond its own database; `LockIsHeld` a transaction that is cut off and
keeps what others wait for; `RemovedIsGone` a session opened between two statements of a drop;
`NothingIsLeft` a removal displaced from its queue.
`CurrentIsOfTheseSources` needs a comparison that overlooks a source saved after the last write, or a
build that was refused or killed while it read and still passes for one that ended. It says nothing
of the five cases `excuse` notes, in which the code does call an older bundle current: a save after
the compiler has read the file (while it reads or writes), a save in the tick of the last write, a
removal, a clock set back behind the bundle, a build killed between `index.html` and its assets. It
shows that there is no sixth; without any one of the five the run fails.
`CorpusIsInOnce` needs a seeder that breaks off with the row in, and is run again; it speaks of
seeders that do not overlap and do not post into a book that changed environment under them.
`ProductionIsNotSeeded` needs a seeder that does not ask, or goes on after a refusal, while
production takes the address and gives it up around it; that it is asked only once shows in
`MCSeedsProduction.cfg`. `GreenIsAnswered` and `GreenRanItsSuites` need a job whose result is not
what it looks like; `RefusedForACause` an audit whose exit code is read without the diff, an advisory
that is asked, or a skip taken for a refusal. `GateMissesOnlyTheUnread` needs a level of the documents
at which the comparison skips too much: it is exact, so a fourth kind of sentence left unread breaks
it as much as one read too strictly. The three kinds it names are what is under a request body, what
an answer without the name of a schema says, and that a name under `required` without an entry under
`properties` is there. `RedSmokeIsExplained` needs a gate that lets through what the smoke asks, over
several merges, deployments and rollbacks; a main whose contract has a question answered with
anything but an object of a named schema, or with a name owed, counts as explained (finding 11).
Each has a mutant in `PROJECT.json` under which its run fails.

**Bounds, and why they are enough.** Two requests show every pair of interleavings on one entry; a
third lets something come in between them. A third clock value separates written, amended and now.
The sizes 4, 100, 1000 of `entryPaging.ts` become 1, 2, 4: small enough for an address that needs
two requests, for a piece cut by the cap and for "Load more" at the ceiling. Two changes are needed
for a count and a cut that disagree and a correction of it; one fault for a retry or a give-up.
Four releases are a good one, a bad one, its rollback and a rollback after; three trees give the
function a number it had before with another build. `Keep = 3` makes entries drop out. The bounds
(`MaxClock`, `MaxChanges`, `MaxFaults`, `MaxReleases`, `MaxVersions`, `MaxHistory`, `IdsLeft`,
`MaxEvents`, `MaxMishaps`, `MaxSaves`, `MaxGuests`, `MaxEdits`) are guards and constants; where proofs exist, they hold for every value of them.
Two requests are one and the one whose context it starts in. Two branches and two invocations show
a branch beside another one's migration or beside a left-over one of its own; three events are a
raise, a removal and a third that displaces one; one mishap leaves an invocation behind. Two sources
are one read and one not yet read when a save comes. In the run `local` a constraint keeps the
build and the seeding from moving at once: they share nothing, so their interleavings add none. It
also stops at an entry that is in a book twice (`FewPosts`), since applications that take turns at
the address let a seeder post for ever, and once is what the property is about. Sources and seeders
are symmetric: the module tells them apart by nothing but their names.
One job stands for the seven of CI that need nobody and publish only a result. Three edits are a
contract's, an application's and one more after a merge. An edit changes one part of one document; a
parameter is there before its schema is named (`NewParameter`), and of a request body, which nothing
reads, the only edit is that it is gone. Three entries of history give Back and Forward somewhere to go from the middle; two phrases, the
empty one and one with a blank are what the box and the address can differ by. Deadlock is not
checked where requests, changes or releases are used up in the end and the system rightly rests; in
the runs of the address it is.

**Fairness.** `GuestbookService!FairSpec` is weak fairness of each worker's handler: a thread that
can send its next statement does, since a transaction takes one row lock at most and so cannot wait
for another in a circle. `GuestbookReading!FairSpec` is weak fairness of the query's own steps and of the
answer to a write. `GuestbookAddress!FairSpec` is weak fairness of `Settle`: a timer nobody clears
fires, and `AddressCatchesUp` asks nothing while the reader goes on typing. Nothing is owed by the reader, by other guests, or by failures. `Previews!FairSpec` is
weak fairness of each job's step and of each invocation: GitHub runs what is queued and a function
that was invoked runs on; no event is owed. `Deploy` has none: a release may stop at any step, for
good. The other modules state safety only: a request may be cancelled, a build killed, a CI job
never end, and nothing promises otherwise.

### Findings

The first two are findings of the runs, the others of the configurations above.

1. `rollback_returns`: a rollback whose smoke is red, or whose record cannot be written, rejects
   nothing: the next rollback may go to the version it escaped.
2. `scenarios_run`: a full end-to-end run that collected no scenario but some case of `e2e/ui` is
   green. `scenario_census.py:128` takes its report for that of `test.sh ui`, which never calls it.
3. Two deletes that load the row before either commits are both answered 204;
   `guestbook_entries.py:233` says "a second delete of the same id refuses".
4. A PATCH that sets two fields may be answered 200 although they never stood together: a field
   that equals the loaded value is not written, and an amendment in between stays in its place.
   `guestbook_entries.py:207` says "Apply the fields the caller gave".
5. Another guest's new entry pushes one already on screen into the next piece: it is shown twice.
   `spec/design/ui/guestbook.md:239` says an entry added "cannot duplicate or vanish".
6. A navigation to an address with the phrase the screen is at does not cancel a phrase that is
   waiting out its pause: posting an entry and typing on ends in a search, not in the whole book.
   `spec/design/ui/guestbook.md:163` says it "is cancelled, never written".
7. A blank typed before a pause is lost: the box takes the effect's own write for a navigation.
   `useEntryQueryParams.ts:42` says it "echoes every keystroke".
8. A clock set back makes a build of older sources look current: a save is then older than the
   bundle. `spa_build_state.py:23-25` says such a clock "makes a build look stale".
9. The gate reads nothing of a request body, nothing of an answer without the name of a schema, and
   of the names a schema requires only those that are under its `properties` (`openapi_contract.py:372`
   goes over these): the body a contract states may be another than the application's, and a name it
   owes may be missing from the answer. `contracts/openapi/README.md:27` says "Every sentence the
   contract states must be true of the dump". Nor does it notice a field or
   a query parameter that becomes required, though `guestbook.yaml` calls itself backward compatible.
10. The seeder asks once what answers at its address. When another application takes it between the
   question and a post, production is seeded. `seed_golden_set.py:26-27` says "It will not seed
   production."
11. The smoke refuses an answer that is not JSON or not an object, also where contract and application
   both state it: the gate is green and the smoke of that very tree red, so its deployment ends in
   failure over a promise that was kept. `smoke_contract.py:149` says the verdict is "`None`
   when the answer honours the contract". The contracts in the repository today state objects only.

Met while modelling or reading, without a run: after one's own write the replay asks for one step
more per piece, so the screen holds more than the `?shown=` that `entryPaging.ts:14` says is how many
are on screen; the first apply of an environment routes traffic to code whose migration has not run,
a window `docs/deployment.md:35` says there is none of; the sentence for an empty list is chosen by
the phrase in the address while the list still answers an older one; a link whose phrase is not
normalized loses its `?shown=` to the first render; "Load more" does nothing once `?shown=` is at its ceiling; when a
whole re-read was given up, the effect's next piece succeeds and hides the error over pieces that
are out of date; `docs/runbooks/run-a-migration.md:61` says part-applied revisions are kept, while
`alembic/env.py:105` runs an upgrade in one transaction; `preview.sh:252` calls a database that may
hold rows an empty one, and the page of a teardown says the preview is down also where the drop was
refused; a skipped run that takes the place of a waiting teardown leaves the stack for good
(`stranded`); `iam_auth.py:52` says anything but the empty string and `0` counts as yes, while
`:58` also excludes `false` and `no`; two seeders that overlap put the corpus in twice, and
`start.sh` seeds whatever application answers on its port; a server started before the first build
answers requests for assets with the HTML shell (`main.py:92-123`); the census of a suite runs after
its page is written, so a page may say "Passed." of a job the census refuses, though
`ci_summary.py:463-465` has the page carry the job's verdict; two branches that are green against an
older trunk may merge into a red one, which `deploy.yml` deploys without waiting for CI.

## 4. What is proved

TLAPS proves these for every value of the constants, under the named assumptions only:
`IdAssumption`, `NoneAssumption`, `ClockAssumption`, `NoneIsNoRow`, `RequestsAssumption` for the
service; for the reader the first four and `SizesAssumption` (the order of the three sizes),
`QuestionAssumption`, `BooksAssumption` (a table is finite and of rows), `BoundsAssumption`,
`NoneIsNoFetch`; `NoTreeAssumption`, `KeepAssumption`, `RevisionAssumption`, `BoundsAssumption` for
deployments; `EmptyAssumption`, `NoneAssumption`, `NormalAssumption` (normalizing twice is normalizing
once), `LinksAssumption`, `HistoryAssumption` for the address; `ClusterAssumption`,
`PreviewAssumption` for previews; `SourceAssumption`, `CorpusAssumption` for the local run;
`CiAssumption`, `DiffsAssumption` for a CI run; `ContractAssumption`, `BeganAssumption` for the
contract; `CutAssumption`, `NamesAssumption`, `StartAssumption` for requests. Three of them say more
than what kind of thing a constant is: `NormalAssumption`; `SizesAssumption`, the order of the sizes
in `entryPaging.ts`; and `BeganAssumption`, the rule every merge keeps. None bounds a constant from
above.

Every safety and action property the passing runs check is a theorem.

**GuestbookService_proofs.** `TypeCorrect` needs `TypeInv`: what each program counter implies about
the locals (a worker about to flush has loaded a row). `Chronology` (`RowsAreSound`) needs the same
order of the stamps workers still hold: a stamp is no older than the entry it will be written to.
`ServiceKeepsTheBook` is the refinement, `Spec => BookSpec`: an insert is a `Write`, an update an
`Amend` (its guard is the order of stamps, so it rests on `Chronology`), a delete is an `Erase`, or
a stutter when the row is gone, and everything else stutters. `DeletedStaysGone` holds because a
spent identifier whose row is gone stays without one. `UnsetFieldsAreKept` is an action property
from the typing of loaded rows. `AnswersHaveWitnesses` needs what each control point knows about
`seen`: the table's row now is always in it, a loaded row is in it.

**Deploy_proofs.** `IInv` joins the type, `OldShellsStillLoad` and four facts. `JobOK`: what step
the job is at implies about the version it holds. `GreenOK`: every build that ever passed is within
the schema, since the schema never goes back. `RegisterOK`: an entry with a digest is about a build
that passed, and one without is, while the function has never been replaced. `SureOK` is
`SchemaIsAhead` together with the alias naming a version. None is inductive alone: a rollback keeps
`SureOK` because of `RegisterOK` and `GreenOK`, and `RegisterOK` is kept because of `JobOK`. From
it follow `TypeCorrect`, `SchemaFirst`, `BundlesOutliveTheirRelease` and `RollbacksLandOnGreen`.
`IInv` was model-checked on the instance of `deploy` before it was proved.

**GuestbookAddress_proofs.** `IInv` joins the type with three facts: every phrase in the history and
the settled value are in normal form; what is in the box came from the address or is what was typed
(`BoxOK`); and between two events the effect has nothing left to write (`AtRest`). The last is what
makes the others inductive: `ShowEffect` says what a render does, `SamePhraseIsStill` that from
`AtRest` a render of the same phrase writes nothing, `NavigationEffect` that one of another phrase
does not either, because the box follows it first. Only `Type` and `Settle` can then write, and
`BoxOK` says what. From it `TypeCorrect`, `LatePhrasesAreCancelled` and `NavigationsStand`.

**Previews_proofs.** `IInv` joins the type with three facts. `ClusterInv`: the holder of the role's
lock stands between making it and committing, a run with a session in a database finds it there,
one that grants has the role, and who may connect may log in. `JobInv`: the steps of a job are those
of its run, with its stack and an invocation of its own branch. `ReadInv`: what a database is good
for by the time each step is reached (grants before tables, tables before the preview is raised), and
that what was raised stays so until its removal starts; it is inductive only together with the other
two, because a run nobody waits for must be seen not to take anything away. `LockHeld`,
`RaisedReadable` and `RemovedGone` follow.
`PreviewsAreAFleet` is the refinement: a job that ends as raised is an `Appear`, a step of a removal
a `Disappear` of its own branch, every statement of a migration an `Appear` (its last grant may make
a preview usable before its job says so) or a stutter.

**GuestbookReading_proofs.** Three arguments meet. *There is one answer*: rows of one moment are told
apart by their identifiers, so two sequences that `ORDER BY` allows are the same (`OneOrdering`,
`OneAnswer`: the first place at which they differ, if any, would hold the same entry in both).
*The pieces put together*: `Held` flattens a sequence of pieces, and what is appended to the pieces
is appended to what is held (`HeldAppend`). *A request starts where the entries before it end*:
`RequestInv` says so of every fetch (`Sound`), with its size within the contract and its three
statements made in order; `TypeCorrect` and `RequestsAreWithinTheContract` need nothing else. Then
`CutContinues` shows that a piece cut there continues a prefix of the answer, and `BookInv` is
inductive: while no write is unanswered and nothing has spoilt the last read of all pieces, what a
fetch has read so far is a beginning of the answer (`Tells`), the statements it has made are of the
book as it is (`Current`), and so are the pieces in the cache unless they are all being replaced.
`ScreenIsTheBook` is `BookInv` at rest. A write of another guest or of one's own falsifies the
premise, and only `OwnSuccess`, which throws the fetch away and reads all pieces, restores it.
Flattening is defined by recursion; what is needed of it is proved with a least counterexample
(`Least`, from the well-foundedness of `<` on the naturals) instead of induction.

**LocalRun_proofs.** `TypeCorrect` joins the types of the build and of the seeding; `OneOrTheOther`
splits a step of the composition into one of either. `ProductionHasNoCorpus` needs
`NoSeederInProduction`: while nothing was replaced under a seeder, none of them looks or posts where
production answers, since the refusal comes before the look at the book. `CorpusGoesInOnce` needs
`OneSeederInv`: while no two seeders have overlapped one is at work at most, and what the one that
posts has yet to post is not in the book it posts into. `CurrentMeansTheseSources` needs two. `BuildInv`: what a build
has read is still what is there, or the bundle that is coming has an excuse (`HistoryStays`,
`ExcusedIs`: what a step notes, and that it takes nothing back). `BundleInv`: without an excuse no
file of the bundle is of the future, what is being written is of these sources, and once it is
written a source the bundle was not made of was saved after its last file. Of the five excused cases
the theorem says nothing. The last is what modification times can
carry, and it survives a build that stops half way since `Empty` comes before the first write.

**Checks_proofs.** Two parts. *CI*: a green verdict speaks of results and reports written long
before it. The invariant ties each to the result of its job when the job ends: a skip has its reason
(`SkipsAreRead`), a suite that succeeded left a report with something in it (`SuitesAreRead`), what
`audit.sh` said decides its job's result (`AuditIsRead`), and the verdict was given over results that
no longer change (`VerdictIsRead`). The set of jobs, of diffs and the scenarios declared are any.
*The contract*: `GatePasses` is about any two documents and uses no state. Between the findings of
the comparison and the flat set of sentences stands `Agrees`, which says level by level what it is
for two documents to agree: the findings are empty exactly then (`OperationPasses`, `SchemaPasses`,
`ContractPasses`), and the sentences of one are among those of the other exactly then (`SaidAgrees`,
through what a sentence says of any document that has it, `Holds`; and `AgreesSaid`).
`GateMissesNothingElse` follows: what remains of a contract's sentences without the unread ones is
what `Frozen` collects. `RedSmokeHasACause` needs that main, the alias and what it
served before are pairs the gate has passed (`MergedPairs`), that a parameter of a path is required
(part of `DocumentsOK`), and `SaidIsGreen`: where every sentence of a contract is said, and it is
`Askable` (each question is answered with an object of a named schema that owes no name it does not
describe), the smoke is green, the refusals of what is not JSON or not an object included, because
the gate compares the type a named schema gives itself. If the contract of main says no more than the version's own, it is.

**RequestPath_proofs.** All of the run's properties hold for any number of requests. `IInv` joins the
type, the two properties of printed lines and, for each call, `TaskInv`: `PhaseOf` says how the call
has failed, whether its scope is marked and how many records the application has written of it by
each place it can stand at; `AnswerOf` that a failure that was logged has an answer from inside the
wrappers before it leaves them; `IdOf` that from setting its identifier until it is over a call runs
under it (a value inherited at the start is never printed, and the reset after a call that returned
comes after its last record). `NothingIsPrinted` and `LinesOfATask` are about one record: what the
filter leaves holds no text, filtered once or twice. `OneMoves` reduces each step to the call it is
about. `OneRecordPerFailure` needs `PhaseOf`: the second layer stays silent because the first has
left its mark, which no other step takes away.

**Only model-checked:** the liveness properties `EveryCallIsAnswered`, `ScreenSettles`,
`AddressCatchesUp` and `NothingIsLeft`, which are out of TLAPS's reach (ENABLED, fairness).

## 5. Not modelled, and why

- **The screen beside its query** (`GuestbookPage`, the editor, the delete dialog), **dialogs and
  toasts**: what could go wrong in them is in the DOM (focus, event order, timers of animations) or in
  a change of question with the placeholder data of TanStack Query; a faithful model would be one of
  those libraries. The parts of the screen that drive the query (`LoadMore`, `TryAgain`, a write and
  its answer) are in `GuestbookReading`.
- **Text rules**: pure functions of a string whose detail is Unicode's (categories, NFC, two measures
  of length). A model over a few abstract characters would restate them.
- **Client and problem mapping**, **health and build information**: values computed from one answer
  or read once at start. The environment's name, which other parts read, is in `RequestPath`.
- **The end-to-end reset**: a chain of checks in one process before one TRUNCATE; the order of the
  checks is all there is, and each has its test.
- **Process status** (`stop.sh`, `app_status.py`, `preflight.py`): they read the process table, the
  ports and the installed tools of one machine at one moment and print what they found.
- **The wording of pages** (most of `ci_summary.py`): Markdown. What decides something is in `CiRun`.
- **Terraform**: declarations; the alias and the function they declare are in `Deploy`.

Worth doing next: a run of `Deploy` in which the rejection of a version outlives its entry in the
register (`release_manifest.py:78`); `GuestbookReading` with two questions; as lemmas, the safety
part of the liveness properties (what a fill or a removal may never undo on its way).
