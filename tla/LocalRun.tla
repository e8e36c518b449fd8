------------------------------ MODULE LocalRun ------------------------------
(***************************************************************************)
(* The application on a developer's machine: the bundle of SpaBuild, the   *)
(* server start.sh runs in the foreground, and the seeders of Seeding it   *)
(* starts in the background, which wait for it.                            *)
(***************************************************************************)
EXTENDS SpaBuild, Seeding

VARIABLE server  \* whether the application answers

vars == <<spa, seeding, server>>

Init ==
  /\ SpaInit
  /\ SeedingInit
  /\ server = "down"

\* run.py, in the foreground of start.sh, until somebody presses Ctrl+C; with the APP_ENV and
\* the database of whoever starts it.
StartServer ==
  /\ server = "down" /\ server' = "up"
  /\ \E v \in Environment : Takes(v)
  /\ UNCHANGED spa
StopServer  == server = "up" /\ server' = "down" /\ UNCHANGED <<spa, seeding>>

\* The seeders wait for an application that answers, sixty times a second apart.
Seeds(s) ==
  /\ \/ server = "up" /\ (Begin(s) \/ AskEnvironment(s) \/ Look(s) \/ PostEntry(s))
     \/ server = "up" /\ Again(s)
     \/ GiveUp(s)
  /\ UNCHANGED <<spa, server>>

Posts == server = "up" /\ Guest /\ UNCHANGED <<spa, server>>

Next ==
  \/ SpaNext /\ UNCHANGED <<seeding, server>>
  \/ StartServer \/ StopServer \/ Posts
  \/ \E s \in Seeder : Seeds(s)

Spec == Init /\ [][Next]_vars

-----------------------------------------------------------------------------
(* Properties.                                                             *)

\* The shape of the state.
TypeOK ==
  /\ SpaTypeOK
  /\ SeedingTypeOK
  /\ server \in {"down", "up"}

Differs == bundle.shellOf # content \/ bundle.assetsOf # content

\* What the scripts call current is the build of the sources as they are: whatever is saved
\* before the compiler comes to it or once the last file is written, wherever a build is
\* refused or killed while it reads, and in whichever order vite writes.  It may not be where
\* a source was saved after the compiler had read it or in the tick of the last write, or is
\* gone, where the clock was set back behind the bundle, and where a build was killed between
\* index.html and its assets (spa_build_state.py, build.sh --if-stale).
CurrentIsOfTheseSources ==
  build.step = "idle" /\ BuildState = "current" /\ Differs => excuse # {}

\* However often a seeder is run, and whether it ends or breaks off, no entry of the corpus
\* is in a book twice while no two of them overlap and none is posting when an application
\* of another environment takes its address (seed_golden_set.py: "So it is idempotent").
CorpusIsInOnce ==
  ~overlapped /\ "post" \notin replaced =>
    \A v \in Environment, e \in Corpus : posted[v][e] <= 1

\* Production holds no entry of the corpus, whatever takes the address and gives it up
\* before a seeder has asked what it is and after its last post, and whichever seeders
\* overlap.  One that takes it in between is not asked (ProductionStaysUnseeded).
ProductionIsNotSeeded == replaced = {} => \A e \in Corpus : posted["prod"][e] = 0

\* seed_golden_set.py:26-27: "It will not seed production. It asks /api/health ... and stops
\* there."
ProductionStaysUnseeded == \A e \in Corpus : posted["prod"][e] = 0

\* spa_build_state.py:24-25: mtimes' "failure mode ... a clock moved backwards ... makes a
\* build look stale, which costs a rebuild rather than a false green".
ClockMakesItStale ==
  build.step = "idle" /\ BuildState = "current" /\ Differs => excuse # {"the clock set back"}
=============================================================================
