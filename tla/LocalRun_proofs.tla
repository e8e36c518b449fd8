--------------------------- MODULE LocalRun_proofs ---------------------------
(***************************************************************************)
(* Theorems about LocalRun: the types, that a bundle called current is of  *)
(* these sources, and that the corpus goes in once and never into          *)
(* production, unless another application takes the address of a seeder at *)
(* work.                                                                   *)
(*                                                                         *)
(* Of the bundle: build.sh compares times, never contents.  The link       *)
(* between the two is BundleInv: a source whose content is not the         *)
(* bundle's was saved after the last file of the bundle, which needs that  *)
(* the bundle is not of the future and that the compiler read what is      *)
(* there.  What breaks either is in excuse, and nothing is proved of it.   *)
(*                                                                         *)
(* Of the corpus: as long as one seeder is at work at a time, the one that *)
(* posts found the book empty, so that what it has yet to post is not      *)
(* there (OneSeederInv).                                                   *)
(***************************************************************************)
EXTENDS LocalRun, WellFoundedInduction, TLAPS

-----------------------------------------------------------------------------
(* The newest of some files.                                               *)

\* A set of naturals that is not empty has a least element.
LEMMA Least ==
  ASSUME NEW T \in SUBSET Nat, T # {}
  PROVE  \E x \in T : \A y \in T : x <= y
<1>. DEFINE R == OpToRel(<, Nat)
<1>1. PICK x \in T : \A y \in T : ~ (<<y, x>> \in R)
  <2>1. IsWellFoundedOn(R, Nat) BY NatLessThanWellFounded
  <2>. HIDE DEF R
  <2>. QED BY <2>1, WFMin
<1>2. \A y \in T : (y < x) => <<y, x>> \in R BY DEF OpToRel
<1>. HIDE DEF R
<1>3. \A y \in T : ~ (y < x) BY <1>1, <1>2
<1>4. \A y \in T : y \in Nat /\ x \in Nat OBVIOUS
<1>. QED BY <1>3, <1>4

\* The time Greatest gives is one of those it is given, or 0, and none of them is later.
LEMMA GreatestIs ==
  ASSUME NEW n \in Nat, NEW S \in SUBSET (0..n)
  PROVE  Greatest(S) \in S \cup {0} /\ \A x \in S : x <= Greatest(S)
<1>. DEFINE T == {n - x : x \in S \cup {0}}
            M == S \cup {0}
<1>1. M \subseteq 0..n OBVIOUS
<1>2. PICK d \in T : \A e \in T : d <= e
  <2>1. T \in SUBSET Nat /\ n - 0 \in T BY <1>1
  <2>. HIDE DEF T
  <2>. QED BY <2>1, Least
<1>3. PICK m \in M : d = n - m OBVIOUS
<1>4. \A x \in M : m >= x
  <2>1. \A x \in M : n - x \in T OBVIOUS
  <2>2. \A x \in M : d <= n - x BY <1>2, <2>1
  <2>. HIDE DEF T, M
  <2>. QED BY <1>1, <1>3, <2>2
<1>5. Greatest(S) = CHOOSE x \in M : \A y \in M : x >= y BY DEF Greatest, Max
<1>. HIDE DEF M, T
<1>6. Greatest(S) \in M /\ \A y \in M : Greatest(S) >= y BY <1>3, <1>4, <1>5
<1>7. \A y \in S : y \in M BY DEF M
<1>8. \A y \in M : y \in Nat BY <1>1
<1>. QED BY <1>6, <1>7, <1>8 DEF M

LEMMA BoundsAre == MaxClock \in Nat \ {0} /\ MaxSaves \in Nat \ {0}
BY SourceAssumption

LEMMA BuiltIs ==
  ASSUME SpaTypeOK
  PROVE  /\ Built \in 0..MaxClock
         /\ bundle.shell <= Built /\ bundle.assets <= Built
         /\ Built = bundle.shell \/ Built = bundle.assets
<1>1. bundle.shell \in 0..MaxClock /\ bundle.assets \in 0..MaxClock
  BY DEF SpaTypeOK, Bundles
<1>2. /\ Greatest({bundle.shell, bundle.assets}) \in {bundle.shell, bundle.assets} \cup {0}
      /\ \A x \in {bundle.shell, bundle.assets} : x <= Greatest({bundle.shell, bundle.assets})
  BY <1>1, BoundsAre, GreatestIs
<1>3. Built \in {bundle.shell, bundle.assets} \cup {0} BY <1>2 DEF Built
<1>4. bundle.shell <= Built /\ bundle.assets <= Built BY <1>2 DEF Built
<1>. QED BY <1>1, <1>3, <1>4, BoundsAre

LEMMA NewestInputIs ==
  ASSUME SpaTypeOK
  PROVE  NewestInput \in Nat /\ \A f \in Source : mtime[f] <= NewestInput
<1>. DEFINE S == {mtime[f] : f \in Source}
<1>1. S \in SUBSET (0..MaxClock) BY DEF SpaTypeOK
<1>2. \A f \in Source : mtime[f] \in S OBVIOUS
<1>. HIDE DEF S
<1>3. Greatest(S) \in S \cup {0} /\ \A x \in S : x <= Greatest(S)
  BY <1>1, BoundsAre, GreatestIs
<1>4. Greatest(S) \in Nat
  <2>1. S \subseteq Nat BY <1>1, BoundsAre
  <2>2. S \cup {0} \subseteq Nat BY <2>1
  <2>. QED BY <1>3, <2>2, Zenon
<1>. QED BY <1>2, <1>3, <1>4 DEF NewestInput, S

-----------------------------------------------------------------------------
(* Types.                                                                  *)

\* What a step of the seeders is.
SeedingNext ==
  Guest \/ (\E v \in Environment : Takes(v)) \/ \E s \in Seeder : \/ Begin(s) \/ Again(s)
                             \/ AskEnvironment(s) \/ Look(s) \/ PostEntry(s) \/ GiveUp(s)

\* LocalRun takes a step of the bundle or one of the seeders and the server, not both.
LEMMA OneOrTheOther ==
  ASSUME [Next]_vars
  PROVE  /\ SpaNext \/ UNCHANGED spa
         /\ SeedingNext \/ UNCHANGED seeding
         /\ server' \in {server, "up", "down"}
BY DEF Next, vars, StartServer, StopServer, Posts, Seeds, SeedingNext

LEMMA NothingType == NoContent \in Contents /\ NoBundle \in Bundles /\ NoBuild \in Builds
<1>1. NoContent \in Contents BY BoundsAre DEF NoContent, Contents
<1>. QED BY <1>1, BoundsAre DEF NoBundle, NoBuild, Bundles, Builds

LEMMA SpaTypeInit == SpaInit => SpaTypeOK
<1>. SUFFICES ASSUME SpaInit PROVE SpaTypeOK OBVIOUS
<1>1. 1 \in 1..MaxClock /\ 1 \in 0..MaxClock /\ 1 \in 1..MaxSaves /\ 1 \in 0..MaxSaves BY BoundsAre
<1>2. clock = 1 /\ saves = 1 /\ content = [f \in Source |-> 1] /\ mtime = [f \in Source |-> 1]
      /\ said = "nothing" /\ excuse = {}
  BY DEF SpaInit
<1>3. content \in Contents /\ mtime \in [Source -> 0..MaxClock] BY <1>1, <1>2 DEF Contents
<1>4. bundle \in Bundles /\ build \in Builds BY NothingType DEF SpaInit
<1>. QED BY <1>1, <1>2, <1>3, <1>4 DEF SpaTypeOK

\* What is noted of a bundle and of a build leaves the rest of the build alone.
LEMMA ExcusedIs ==
  ASSUME NEW there, NEW coming, build \in Builds, Excused(there, coming)
  PROVE  /\ excuse' = excuse \cup there
         /\ build'.step = build.step /\ build'.read = build.read
         /\ build'.unread = build.unread /\ build'.excuse = build.excuse \cup coming
BY DEF Excused, Builds

LEMMA ExcusedType ==
  ASSUME NEW there \in SUBSET Excuse, NEW coming \in SUBSET Excuse,
         excuse \subseteq Excuse, build \in Builds, Excused(there, coming)
  PROVE  excuse' \subseteq Excuse /\ build' \in Builds
<1>1. excuse' \subseteq Excuse BY DEF Excused
<1>2. build' = [build EXCEPT !.excuse = @ \cup coming] BY DEF Excused
<1>3. build.excuse \cup coming \in SUBSET Excuse BY DEF Builds
<1>4. build' \in Builds BY <1>2, <1>3 DEF Builds
<1>. QED BY <1>1, <1>4

LEMMA SpaTypeStep == SpaTypeOK /\ (SpaNext \/ UNCHANGED spa) => SpaTypeOK'
<1>. SUFFICES ASSUME SpaTypeOK, SpaNext \/ UNCHANGED spa PROVE SpaTypeOK' OBVIOUS
<1>1. /\ clock \in 1..MaxClock /\ content \in Contents /\ mtime \in [Source -> 0..MaxClock]
      /\ bundle \in Bundles /\ build \in Builds
      /\ said \in {"nothing", "already built", "failed", "current", "not of these sources",
                   "killed"}
      /\ saves \in 1..MaxSaves /\ excuse \subseteq Excuse
  BY DEF SpaTypeOK
<1>2. NoBundle \in Bundles /\ NoBuild \in Builds /\ MaxClock \in Nat /\ MaxSaves \in Nat
  BY NothingType, BoundsAre
<1>3. clock \in 0..MaxClock /\ clock \in Nat
  <2>1. clock \in 1..MaxClock BY <1>1
  <2>. QED BY <1>2, <2>1
<1>4. ASSUME Changes PROVE saves' \in 1..MaxSaves /\ saves + 1 \in 0..MaxSaves
  <2>1. saves \in 1..MaxSaves BY <1>1
  <2>. QED BY <1>2, <1>4, <2>1 DEF Changes
<1>5. CASE Tick
  <2>1. clock' \in 1..MaxClock BY <1>2, <1>3, <1>5 DEF Tick
  <2>. QED BY <1>1, <1>5, <2>1 DEF Tick, SpaTypeOK
<1>6. CASE SetClockBack
  <2>0. clock > 1 /\ clock' = clock - 1 BY <1>6 DEF SetClockBack
  <2>1. clock' \in 1..MaxClock BY <1>2, <1>3, <2>0
  <2>2. saves' \in 1..MaxSaves BY <1>4, <1>6 DEF SetClockBack
  <2>. DEFINE there == IF Built = clock THEN {"the clock set back"} ELSE {}
  <2>3. there \in SUBSET Excuse BY DEF Excuse
  <2>4. excuse' \subseteq Excuse /\ build' \in Builds
    <3>1. Excused(there, {}) BY <1>6 DEF SetClockBack
    <3>2. {} \in SUBSET Excuse OBVIOUS
    <3>. HIDE DEF there
    <3>. QED BY <1>1, <2>3, <3>1, <3>2, ExcusedType
  <2>. QED BY <1>1, <1>6, <2>1, <2>2, <2>4 DEF SetClockBack, SpaTypeOK
<1>7. CASE RunBuild
  <2>1. [NoBuild EXCEPT !.step = "read", !.unread = Source] \in Builds BY <1>2 DEF Builds
  <2>. QED BY <1>1, <1>7, <2>1 DEF RunBuild, Start, tree, SpaTypeOK
<1>8. CASE LeaveAsItIs BY <1>1, <1>8 DEF LeaveAsItIs, tree, SpaTypeOK
<1>9. CASE Refuse BY <1>1, <1>2, <1>9 DEF Refuse, tree, SpaTypeOK
<1>10. CASE Empty
  <2>1. build' \in Builds /\ excuse' \subseteq Excuse BY <1>1, <1>10 DEF Empty, Builds
  <2>. QED BY <1>1, <1>2, <1>10, <2>1 DEF Empty, tree, SpaTypeOK
<1>11. CASE WriteShell
  <2>1. bundle' \in Bundles BY <1>1, <1>3, <1>11 DEF WriteShell, Bundles, Builds
  <2>. QED BY <1>1, <1>11, <2>1 DEF WriteShell, tree, SpaTypeOK
<1>12. CASE WriteAssets
  <2>1. bundle' \in Bundles BY <1>1, <1>3, <1>12 DEF WriteAssets, Bundles, Builds
  <2>. QED BY <1>1, <1>12, <2>1 DEF WriteAssets, tree, SpaTypeOK
<1>13. CASE Measure BY <1>1, <1>2, <1>13 DEF Measure, tree, SpaTypeOK
<1>14. CASE Kill
  <2>. DEFINE broken == IF BeingWritten /\ bundle.shell # 0 THEN {"killed"} ELSE {}
  <2>1. broken \subseteq Excuse BY DEF Excuse
  <2>2. /\ build' = NoBuild /\ said' = "killed" /\ excuse' = excuse \cup broken
        /\ UNCHANGED <<clock, tree, bundle, saves>>
    BY <1>14 DEF Kill
  <2>. HIDE DEF broken
  <2>3. excuse' \subseteq Excuse BY <1>1, <2>1, <2>2
  <2>. QED BY <1>1, <1>2, <2>2, <2>3 DEF tree, SpaTypeOK
<1>15. ASSUME NEW f \in Source, Save(f) PROVE SpaTypeOK'
  <2>. DEFINE there == IF BeingWritten THEN {"saved after it was read"}
                       ELSE IF clock = Built THEN {"saved in the tick of the build"} ELSE {}
              coming == IF AlreadyRead(f) THEN {"saved after it was read"} ELSE {}
  <2>1. /\ Changes /\ Excused(there, coming)
        /\ content' = [content EXCEPT ![f] = saves + 1]
        /\ mtime' = [mtime EXCEPT ![f] = clock]
        /\ UNCHANGED <<clock, bundle, said>>
    BY <1>15 DEF Save
  <2>2. content' \in Contents BY <1>1, <1>4, <2>1 DEF Contents
  <2>3. mtime' \in [Source -> 0..MaxClock] BY <1>1, <1>3, <2>1
  <2>4. there \in SUBSET Excuse /\ coming \in SUBSET Excuse BY DEF Excuse
  <2>. HIDE DEF there, coming
  <2>5. excuse' \subseteq Excuse /\ build' \in Builds BY <1>1, <2>1, <2>4, ExcusedType
  <2>. QED BY <1>1, <1>4, <2>1, <2>2, <2>3, <2>5 DEF SpaTypeOK
<1>16. ASSUME NEW f \in Source, Remove(f) PROVE SpaTypeOK'
  <2>. DEFINE coming == IF AlreadyRead(f) THEN {"a source removed"} ELSE {}
  <2>1. /\ Changes /\ Excused({"a source removed"}, coming)
        /\ content' = [content EXCEPT ![f] = 0]
        /\ mtime' = [mtime EXCEPT ![f] = 0]
        /\ UNCHANGED <<clock, bundle, said>>
    BY <1>16 DEF Remove
  <2>2. 0 \in 0..MaxSaves /\ 0 \in 0..MaxClock BY <1>2
  <2>3. content' \in Contents /\ mtime' \in [Source -> 0..MaxClock]
    BY <1>1, <2>1, <2>2 DEF Contents
  <2>4. {"a source removed"} \in SUBSET Excuse /\ coming \in SUBSET Excuse BY DEF Excuse
  <2>. HIDE DEF coming
  <2>5. excuse' \subseteq Excuse /\ build' \in Builds BY <1>1, <2>1, <2>4, ExcusedType
  <2>. QED BY <1>1, <1>4, <2>1, <2>3, <2>5 DEF SpaTypeOK
<1>17. ASSUME NEW f \in Source, ReadSource(f) PROVE SpaTypeOK'
  <2>1. build' = [build EXCEPT !.read[f] = content[f], !.unread = @ \ {f}]
    BY <1>17 DEF ReadSource
  <2>2. build' \in Builds BY <1>1, <2>1 DEF Builds, Contents
  <2>. QED BY <1>1, <1>17, <2>2 DEF ReadSource, tree, SpaTypeOK
<1>18. CASE UNCHANGED spa BY <1>1, <1>18 DEF spa, SpaTypeOK
<1>. QED
  BY <1>5, <1>6, <1>7, <1>8, <1>9, <1>10, <1>11, <1>12, <1>13, <1>14, <1>15, <1>16, <1>17, <1>18
  DEF SpaNext

LEMMA CorpusIs == CorpusSize \in Nat \ {0} /\ 1 \in Corpus
  /\ \A e \in Corpus : e \in Nat /\ (e # CorpusSize => e + 1 \in Corpus)
BY CorpusAssumption DEF Corpus

LEMMA SeedingTypeInit == SeedingInit => SeedingTypeOK
<1>. SUFFICES ASSUME SeedingInit PROVE SeedingTypeOK OBVIOUS
<1>1. guests \in [Environment -> Nat] /\ environment \in Environment BY DEF SeedingInit
<1>2. posted \in [Environment -> [Corpus -> Nat]] BY DEF SeedingInit
<1>3. seeder \in [Seeder -> SeederStep] BY DEF SeedingInit, SeederStep
<1>4. next \in [Seeder -> Corpus] BY CorpusIs DEF SeedingInit
<1>5. overlapped \in BOOLEAN /\ replaced \subseteq {"look", "post"} BY DEF SeedingInit
<1>. QED BY <1>1, <1>2, <1>3, <1>4, <1>5 DEF SeedingTypeOK

\* One more of the entry a seeder is at, in the book of the application that answers.
LEMMA PostedOnce ==
  ASSUME SeedingTypeOK, NEW s \in Seeder,
         posted' = [posted EXCEPT ![environment][next[s]] = @ + 1]
  PROVE  /\ posted' \in [Environment -> [Corpus -> Nat]]
         /\ next[s] \in Corpus /\ environment \in Environment
         /\ posted'[environment][next[s]] = posted[environment][next[s]] + 1
         /\ \A e \in Corpus : e # next[s] => posted'[environment][e] = posted[environment][e]
         /\ \A v \in Environment : v # environment => posted'[v] = posted[v]
<1>1. /\ posted \in [Environment -> [Corpus -> Nat]] /\ next[s] \in Corpus
      /\ environment \in Environment
  BY DEF SeedingTypeOK
<1>. DEFINE book == posted[environment]
            more == [book EXCEPT ![next[s]] = @ + 1]
<1>2. posted' = [posted EXCEPT ![environment] = more] OBVIOUS
<1>3. book \in [Corpus -> Nat] BY <1>1
<1>4. book[next[s]] + 1 \in Nat BY <1>1, <1>3
<1>5. /\ more \in [Corpus -> Nat] /\ more[next[s]] = book[next[s]] + 1
      /\ \A e \in Corpus : e # next[s] => more[e] = book[e]
  <2>. HIDE DEF book
  <2>. QED BY <1>1, <1>3, <1>4
<1>. HIDE DEF more
<1>6. /\ posted' \in [Environment -> [Corpus -> Nat]] /\ posted'[environment] = more
      /\ \A v \in Environment : v # environment => posted'[v] = posted[v]
  BY <1>1, <1>2, <1>5
<1>. QED BY <1>1, <1>5, <1>6

LEMMA SeedingTypeStep == SeedingTypeOK /\ (SeedingNext \/ UNCHANGED seeding) => SeedingTypeOK'
<1>. SUFFICES ASSUME SeedingTypeOK, SeedingNext \/ UNCHANGED seeding PROVE SeedingTypeOK'
  OBVIOUS
<1>1. /\ environment \in Environment
      /\ posted \in [Environment -> [Corpus -> Nat]] /\ guests \in [Environment -> Nat]
      /\ seeder \in [Seeder -> SeederStep] /\ next \in [Seeder -> Corpus]
      /\ overlapped \in BOOLEAN /\ replaced \subseteq {"look", "post"}
  BY DEF SeedingTypeOK
<1>2. \A b \in SeederStep, s \in Seeder : [seeder EXCEPT ![s] = b] \in [Seeder -> SeederStep]
  BY <1>1
<1>3. {"health", "look", "post", "seeded", "left", "refused", "failed"} \subseteq SeederStep
  BY DEF SeederStep
<1>4. CASE Guest
  <2>1. guests[environment] + 1 \in Nat BY <1>1
  <2>2. guests' \in [Environment -> Nat] BY <1>1, <1>4, <2>1 DEF Guest
  <2>. QED BY <1>1, <1>4, <2>2 DEF Guest, SeedingTypeOK
<1>5. ASSUME NEW s \in Seeder, Begin(s) PROVE SeedingTypeOK'
  <2>1. seeder' \in [Seeder -> SeederStep] BY <1>2, <1>3, <1>5 DEF Begin, SeederGoes
  <2>2. overlapped' \in BOOLEAN BY <1>5, Zenon DEF Begin
  <2>. QED BY <1>1, <1>5, <2>1, <2>2 DEF Begin, SeedingTypeOK
<1>6. ASSUME NEW s \in Seeder, Again(s) PROVE SeedingTypeOK'
  <2>1. seeder' \in [Seeder -> SeederStep] BY <1>2, <1>3, <1>6 DEF Again
  <2>2. overlapped' \in BOOLEAN BY <1>6, Zenon DEF Again
  <2>3. next' \in [Seeder -> Corpus] BY <1>1, <1>6, CorpusIs DEF Again
  <2>. QED BY <1>1, <1>6, <2>1, <2>2, <2>3 DEF Again, SeedingTypeOK
<1>7. ASSUME NEW s \in Seeder, AskEnvironment(s) PROVE SeedingTypeOK'
  <2>1. seeder' \in [Seeder -> SeederStep] BY <1>2, <1>3, <1>7 DEF AskEnvironment, SeederGoes
  <2>. QED BY <1>1, <1>7, <2>1 DEF AskEnvironment, SeedingTypeOK
<1>8. ASSUME NEW s \in Seeder, Look(s) PROVE SeedingTypeOK'
  <2>1. seeder' \in [Seeder -> SeederStep] BY <1>2, <1>3, <1>8 DEF Look, SeederGoes
  <2>. QED BY <1>1, <1>8, <2>1 DEF Look, SeedingTypeOK
<1>9. ASSUME NEW s \in Seeder, PostEntry(s) PROVE SeedingTypeOK'
  <2>1. seeder' \in [Seeder -> SeederStep] BY <1>2, <1>3, <1>9 DEF PostEntry
  <2>2. next' \in [Seeder -> Corpus]
    <3>1. next[s] \in Corpus BY <1>1
    <3>2. (IF next[s] = CorpusSize THEN next[s] ELSE next[s] + 1) \in Corpus
      BY <3>1, CorpusIs
    <3>. QED BY <1>1, <1>9, <3>2 DEF PostEntry
  <2>3. posted' \in [Environment -> [Corpus -> Nat]] BY <1>9, PostedOnce DEF PostEntry
  <2>. QED BY <1>1, <1>9, <2>1, <2>2, <2>3 DEF PostEntry, SeedingTypeOK
<1>10. ASSUME NEW s \in Seeder, GiveUp(s) PROVE SeedingTypeOK'
  <2>1. seeder' \in [Seeder -> SeederStep] BY <1>2, <1>3, <1>10 DEF GiveUp
  <2>2. posted' \in [Environment -> [Corpus -> Nat]] BY <1>1, <1>10, PostedOnce DEF GiveUp
  <2>. QED BY <1>1, <1>10, <2>1, <2>2 DEF GiveUp, SeedingTypeOK
<1>11. CASE UNCHANGED seeding BY <1>1, <1>11 DEF seeding, SeedingTypeOK
<1>12. ASSUME NEW v \in Environment, Takes(v) PROVE SeedingTypeOK'
  <2>1. replaced' \subseteq {"look", "post"} BY <1>1, <1>12 DEF Takes
  <2>. QED BY <1>1, <1>12, <2>1 DEF Takes, SeedingTypeOK
<1>. QED BY <1>4, <1>5, <1>6, <1>7, <1>8, <1>9, <1>10, <1>11, <1>12 DEF SeedingNext

LEMMA TypeInit == Init => TypeOK
BY SpaTypeInit, SeedingTypeInit DEF Init, TypeOK

LEMMA TypeStep == TypeOK /\ [Next]_vars => TypeOK'
<1>. SUFFICES ASSUME TypeOK, [Next]_vars PROVE TypeOK' OBVIOUS
<1>1. SpaTypeOK' BY OneOrTheOther, SpaTypeStep DEF TypeOK
<1>2. SeedingTypeOK' BY OneOrTheOther, SeedingTypeStep DEF TypeOK
<1>3. server' \in {"down", "up"} BY OneOrTheOther DEF TypeOK
<1>. QED BY <1>1, <1>2, <1>3 DEF TypeOK

\* The files, the runs of build.sh and of the seeder, and the book keep their shape
\* (spa_build_state.py, build.sh, seed_golden_set.py).
THEOREM TypeCorrect == Spec => []TypeOK
BY TypeInit, TypeStep, PTL DEF Spec

\* What history notes of the seeders is never taken back.
LEMMA HistoryStays ==
  ASSUME SeedingNext \/ UNCHANGED seeding
  PROVE  (overlapped => overlapped') /\ replaced \subseteq replaced'
<1>1. ASSUME overlapped' = overlapped, replaced' = replaced
      PROVE  (overlapped => overlapped') /\ replaced \subseteq replaced'
  BY <1>1, Zenon
<1>2. CASE Guest \/ UNCHANGED seeding
  <2>1. overlapped' = overlapped /\ replaced' = replaced BY <1>2, Zenon DEF Guest, seeding
  <2>. QED BY <1>1, <2>1, Zenon
<1>3. ASSUME NEW v \in Environment, Takes(v)
      PROVE  (overlapped => overlapped') /\ replaced \subseteq replaced'
  <2>1. overlapped => overlapped' BY <1>3, Zenon DEF Takes
  <2>2. replaced \subseteq replaced' BY <1>3 DEF Takes
  <2>. QED BY <2>1, <2>2, Zenon
<1>4. ASSUME NEW s \in Seeder, Begin(s) \/ Again(s)
      PROVE  (overlapped => overlapped') /\ replaced \subseteq replaced'
  <2>1. overlapped' = (overlapped \/ AtWork # {}) /\ replaced' = replaced
    BY <1>4, Zenon DEF Begin, Again
  <2>. QED BY <2>1, Zenon
<1>5. ASSUME NEW s \in Seeder, AskEnvironment(s) \/ Look(s) \/ PostEntry(s) \/ GiveUp(s)
      PROVE  (overlapped => overlapped') /\ replaced \subseteq replaced'
  <2>1. overlapped' = overlapped /\ replaced' = replaced
    BY <1>5, Zenon DEF AskEnvironment, Look, PostEntry, GiveUp
  <2>. QED BY <1>1, <2>1, Zenon
<1>. QED BY <1>2, <1>3, <1>4, <1>5, Zenon DEF SeedingNext

-----------------------------------------------------------------------------
(* Production is not seeded.                                               *)

\* The refusal comes before the book is looked at, of the application that is asked.
NoSeederInProduction ==
  replaced = {} =>
    /\ environment = "prod" => \A s \in Seeder : seeder[s] \notin {"look", "post"}
    /\ \A e \in Corpus : posted["prod"][e] = 0

LEMMA ProductionStep ==
  SeedingTypeOK /\ NoSeederInProduction /\ (SeedingNext \/ UNCHANGED seeding)
    => NoSeederInProduction'
<1>. DEFINE Goal == /\ environment' = "prod" => \A t \in Seeder : seeder'[t] \notin {"look", "post"}
                    /\ \A e \in Corpus : posted'["prod"][e] = 0
<1>. SUFFICES ASSUME SeedingTypeOK, NoSeederInProduction, SeedingNext \/ UNCHANGED seeding,
                     replaced' = {}
              PROVE  Goal
  BY DEF NoSeederInProduction
<1>1. replaced = {} BY HistoryStays
<1>2. /\ environment = "prod" => \A s \in Seeder : seeder[s] \notin {"look", "post"}
      /\ \A e \in Corpus : posted["prod"][e] = 0
      /\ seeder \in [Seeder -> SeederStep]
  BY <1>1 DEF NoSeederInProduction, SeedingTypeOK
<1>3. CASE Guest BY <1>2, <1>3 DEF Guest
<1>4. CASE UNCHANGED seeding BY <1>2, <1>4 DEF seeding
<1>5. ASSUME NEW v \in Environment, Takes(v) PROVE Goal
  <2>1. environment' = v /\ seeder' = seeder /\ posted' = posted BY <1>5 DEF Takes
  <2>2. CASE v = environment BY <1>2, <2>1, <2>2
  <2>3. CASE v # environment
    <3>1. {"look", "post"} \cap {seeder[s] : s \in Seeder} = {} BY <1>5, <2>3 DEF Takes
    <3>2. \A s \in Seeder : seeder[s] \notin {"look", "post"} BY <3>1
    <3>. QED BY <1>2, <2>1, <3>2
  <2>. QED BY <2>2, <2>3
<1>6. ASSUME NEW s \in Seeder, environment' = environment, posted' = posted,
             NEW to, seeder' = [seeder EXCEPT ![s] = to],
             environment = "prod" => to \notin {"look", "post"}
      PROVE  Goal
  BY <1>2, <1>6
<1>7. ASSUME NEW s \in Seeder, Begin(s) \/ Again(s) PROVE Goal
  <2>1. environment' = environment /\ posted' = posted /\ seeder' = [seeder EXCEPT ![s] = "health"]
    BY <1>7 DEF Begin, Again, SeederGoes
  <2>. QED BY <1>6, <2>1
<1>8. ASSUME NEW s \in Seeder, AskEnvironment(s) PROVE Goal
  BY <1>6, <1>8 DEF AskEnvironment, SeederGoes, REFUSED_ENVIRONMENTS
<1>9. ASSUME NEW s \in Seeder, Look(s) PROVE Goal
  <2>1. environment # "prod" BY <1>2, <1>9 DEF Look, SeederGoes
  <2>. QED BY <1>6, <1>9, <2>1 DEF Look, SeederGoes
<1>10. ASSUME NEW s \in Seeder, seeder[s] = "post", environment' = environment,
              posted' = [posted EXCEPT ![environment][next[s]] = @ + 1]
       PROVE  Goal
  <2>1. environment # "prod" BY <1>2, <1>10
  <2>2. posted'["prod"] = posted["prod"]
    <3>1. "prod" \in Environment BY DEF Environment
    <3>. QED BY <1>10, <2>1, <3>1, PostedOnce
  <2>. QED BY <1>2, <1>10, <2>1, <2>2
<1>11. ASSUME NEW s \in Seeder, PostEntry(s) PROVE Goal BY <1>10, <1>11 DEF PostEntry
<1>12. ASSUME NEW s \in Seeder, GiveUp(s) PROVE Goal
  <2>1. CASE posted' = posted BY <1>6, <1>12, <2>1 DEF GiveUp
  <2>2. CASE posted' # posted BY <1>10, <1>12, <2>2 DEF GiveUp
  <2>. QED BY <2>1, <2>2
<1>. QED BY <1>3, <1>4, <1>5, <1>7, <1>8, <1>9, <1>11, <1>12 DEF SeedingNext

\* No run of the seeder, none that breaks off or is run again, and no two at once put an
\* entry of the corpus into production, whatever answers at the address before a seeder asks
\* and after it is done (seed_golden_set.py, REFUSED_ENVIRONMENTS).  It says nothing of an
\* application of production that takes the address between the question and the last post.
THEOREM ProductionHasNoCorpus == Spec => []ProductionIsNotSeeded
<1>1. Init => NoSeederInProduction
  <2>. SUFFICES ASSUME Init PROVE NoSeederInProduction OBVIOUS
  <2>1. \A s \in Seeder : seeder[s] = "idle" BY DEF Init, SeedingInit
  <2>2. posted["prod"] = [e \in Corpus |-> 0] BY DEF Init, SeedingInit, Environment
  <2>. QED BY <2>1, <2>2 DEF NoSeederInProduction
<1>2. TypeOK /\ NoSeederInProduction /\ [Next]_vars => NoSeederInProduction'
  BY OneOrTheOther, ProductionStep DEF TypeOK
<1>3. NoSeederInProduction => ProductionIsNotSeeded
  BY DEF NoSeederInProduction, ProductionIsNotSeeded
<1>. QED BY <1>1, <1>2, <1>3, TypeCorrect, PTL DEF Spec

-----------------------------------------------------------------------------
(* The corpus goes in once.                                                *)

\* One seeder at a time is at work; what the one that posts has yet to post is not there.
OneSeederInv ==
  ~overlapped /\ "post" \notin replaced =>
    /\ \A s, t \in AtWork : s = t
    /\ \A s \in Seeder : seeder[s] \in {"idle", "health", "look"} => next[s] = 1
    /\ \A s \in Seeder : seeder[s] = "post" =>
         \A e \in Corpus : next[s] <= e => posted[environment][e] = 0
    /\ \A v \in Environment, e \in Corpus : posted[v][e] <= 1

LEMMA OneSeederStep ==
  SeedingTypeOK /\ OneSeederInv /\ (SeedingNext \/ UNCHANGED seeding) => OneSeederInv'
<1>. DEFINE Goal == /\ \A s, t \in AtWork' : s = t
                    /\ \A s \in Seeder : seeder'[s] \in {"idle", "health", "look"} => next'[s] = 1
                    /\ \A s \in Seeder : seeder'[s] = "post" =>
                         \A e \in Corpus : next'[s] <= e => posted'[environment'][e] = 0
                    /\ \A v \in Environment, e \in Corpus : posted'[v][e] <= 1
<1>. SUFFICES ASSUME SeedingTypeOK, OneSeederInv, SeedingNext \/ UNCHANGED seeding,
                     ~overlapped', "post" \notin replaced'
              PROVE  Goal
  BY DEF OneSeederInv
<1>1. ~overlapped /\ "post" \notin replaced BY HistoryStays
<1>2. \A s, t \in AtWork : s = t BY <1>1 DEF OneSeederInv
<1>3. \A s \in Seeder : seeder[s] \in {"idle", "health", "look"} => next[s] = 1
  BY <1>1 DEF OneSeederInv
<1>4. \A s \in Seeder : seeder[s] = "post" => \A e \in Corpus : next[s] <= e => posted[environment][e] = 0
  BY <1>1 DEF OneSeederInv
<1>5. \A v \in Environment, e \in Corpus : posted[v][e] <= 1 BY <1>1 DEF OneSeederInv
<1>6. /\ seeder \in [Seeder -> SeederStep] /\ next \in [Seeder -> Corpus]
      /\ posted \in [Environment -> [Corpus -> Nat]] /\ environment \in Environment
  BY DEF SeedingTypeOK
<1>7. \A s \in Seeder : s \in AtWork <=> seeder[s] \in {"health", "look", "post"} BY DEF AtWork
<1>8. AtWork' = {s \in Seeder : seeder'[s] \in {"health", "look", "post"}} BY DEF AtWork
<1>9. CASE UNCHANGED <<seeder, next, posted, environment>>
  BY <1>2, <1>3, <1>4, <1>5, <1>9, Zenon DEF AtWork
<1>10. ASSUME NEW s \in Seeder, AtWork = {}, seeder' = [seeder EXCEPT ![s] = "health"],
              next'[s] = 1, \A t \in Seeder : t # s => next'[t] = next[t], posted' = posted,
              environment' = environment
       PROVE  Goal
  <2>1. \A t \in Seeder : t # s => seeder'[t] = seeder[t] /\ seeder[t] \notin {"health", "look", "post"}
    BY <1>6, <1>7, <1>10
  <2>2. seeder'[s] = "health" BY <1>6, <1>10
  <2>3. \A t, u \in AtWork' : t = u BY <1>8, <2>1
  <2>4. \A t \in Seeder : seeder'[t] \in {"idle", "health", "look"} => next'[t] = 1
    BY <1>3, <1>10, <2>1
  <2>5. \A t \in Seeder : seeder'[t] # "post" BY <2>1, <2>2
  <2>. QED BY <1>5, <1>10, <2>3, <2>4, <2>5
<1>11. ASSUME NEW s \in Seeder, s \in AtWork,
              \A t \in Seeder : t # s => seeder'[t] = seeder[t] /\ next'[t] = next[t]
       PROVE  /\ \A t, u \in AtWork' : t = u
              /\ \A t \in Seeder : t # s => seeder'[t] \notin {"health", "look", "post"}
  <2>1. \A t \in Seeder : t # s => seeder'[t] \notin {"health", "look", "post"}
    BY <1>2, <1>7, <1>11
  <2>. QED BY <1>8, <2>1
<1>12. ASSUME NEW s \in Seeder, Begin(s) PROVE Goal
  <2>1. AtWork = {} BY <1>12 DEF Begin
  <2>2. next[s] = 1 BY <1>3, <1>12 DEF Begin, SeederGoes
  <2>. QED BY <1>10, <1>12, <2>1, <2>2 DEF Begin, SeederGoes
<1>13. ASSUME NEW s \in Seeder, Again(s) PROVE Goal
  <2>1. AtWork = {} BY <1>13 DEF Again
  <2>2. next' = [next EXCEPT ![s] = 1] BY <1>13 DEF Again
  <2>3. next'[s] = 1 /\ \A t \in Seeder : t # s => next'[t] = next[t] BY <1>6, <2>2
  <2>. QED BY <1>10, <1>13, <2>1, <2>3 DEF Again
<1>14. ASSUME NEW s \in Seeder, AskEnvironment(s) PROVE Goal
  <2>1. /\ seeder[s] = "health" /\ seeder'[s] \in {"refused", "look"}
        /\ \A t \in Seeder : t # s => seeder'[t] = seeder[t]
        /\ next' = next /\ posted' = posted /\ environment' = environment
    BY <1>6, <1>14 DEF AskEnvironment, SeederGoes
  <2>2. /\ \A t, u \in AtWork' : t = u
        /\ \A t \in Seeder : t # s => seeder'[t] \notin {"health", "look", "post"}
    BY <1>7, <1>11, <2>1
  <2>3. next'[s] = 1 BY <1>3, <2>1
  <2>4. \A t \in Seeder : seeder'[t] \in {"idle", "health", "look"} => next'[t] = 1
    BY <1>3, <2>1, <2>3
  <2>5. \A t \in Seeder : seeder'[t] # "post" BY <2>1, <2>2
  <2>. QED BY <1>5, <2>1, <2>2, <2>4, <2>5
<1>15. ASSUME NEW s \in Seeder, Look(s) PROVE Goal
  <2>1. /\ seeder[s] = "look" /\ seeder'[s] = IF IsEmpty THEN "post" ELSE "left"
        /\ \A t \in Seeder : t # s => seeder'[t] = seeder[t]
        /\ next' = next /\ posted' = posted /\ environment' = environment
    BY <1>6, <1>15 DEF Look, SeederGoes
  <2>2. /\ \A t, u \in AtWork' : t = u
        /\ \A t \in Seeder : t # s => seeder'[t] \notin {"health", "look", "post"}
    BY <1>7, <1>11, <2>1
  <2>3. \A t \in Seeder : seeder'[t] \in {"idle", "health", "look"} => next'[t] = 1
    BY <1>3, <2>1
  <2>4. seeder'[s] = "post" => \A e \in Corpus : posted'[environment'][e] = 0 BY <2>1 DEF IsEmpty
  <2>5. \A t \in Seeder : seeder'[t] = "post" => t = s BY <2>2
  <2>. QED BY <1>5, <2>1, <2>2, <2>3, <2>4, <2>5
<1>16. ASSUME NEW s \in Seeder, PostEntry(s) PROVE Goal
  <2>1. /\ seeder[s] = "post" /\ seeder'[s] = IF next[s] = CorpusSize THEN "seeded" ELSE "post"
        /\ \A t \in Seeder : t # s => seeder'[t] = seeder[t] /\ next'[t] = next[t]
        /\ next'[s] = IF next[s] = CorpusSize THEN next[s] ELSE next[s] + 1
        /\ environment' = environment
        /\ posted' = [posted EXCEPT ![environment][next[s]] = @ + 1]
    BY <1>6, <1>16 DEF PostEntry
  <2>2. /\ \A t, u \in AtWork' : t = u
        /\ \A t \in Seeder : t # s => seeder'[t] \notin {"health", "look", "post"}
    BY <1>7, <1>11, <2>1
  <2>3. \A t \in Seeder : seeder'[t] \in {"idle", "health", "look"} => next'[t] = 1
    BY <1>3, <2>1
  <2>4. /\ next[s] \in Corpus /\ posted'[environment][next[s]] = posted[environment][next[s]] + 1
        /\ \A e \in Corpus : e # next[s] => posted'[environment][e] = posted[environment][e]
        /\ \A v \in Environment : v # environment => posted'[v] = posted[v]
    BY <2>1, PostedOnce
  <2>5. next[s] \in Nat /\ \A e \in Corpus : e \in Nat BY <2>4, CorpusIs
  <2>6. \A e \in Corpus : next[s] <= e => posted[environment][e] = 0 BY <1>4, <2>1
  <2>7. posted[environment][next[s]] = 0 BY <2>4, <2>5, <2>6
  <2>8. \A v \in Environment, e \in Corpus : posted'[v][e] <= 1
    <3>1. ASSUME NEW v \in Environment, NEW e \in Corpus PROVE posted'[v][e] <= 1
      <4>1. CASE v # environment BY <1>5, <2>4, <4>1
      <4>2. CASE v = environment /\ e # next[s] BY <1>5, <2>4, <4>2
      <4>3. CASE v = environment /\ e = next[s] BY <2>4, <2>7, <4>3
      <4>. QED BY <4>1, <4>2, <4>3
    <3>. QED BY <3>1
  <2>9. seeder'[s] = "post" => \A e \in Corpus : next'[s] <= e => posted'[environment'][e] = 0
    <3>1. SUFFICES ASSUME seeder'[s] = "post", NEW e \in Corpus, next'[s] <= e
                   PROVE  posted'[environment'][e] = 0
      OBVIOUS
    <3>2. next'[s] = next[s] + 1 BY <2>1, <3>1
    <3>3. next[s] <= e /\ e # next[s] BY <2>5, <3>1, <3>2
    <3>. QED BY <2>1, <2>4, <2>6, <3>3
  <2>10. \A t \in Seeder : seeder'[t] = "post" => t = s BY <2>2
  <2>. QED BY <2>2, <2>3, <2>8, <2>9, <2>10
<1>17. ASSUME NEW s \in Seeder, GiveUp(s) PROVE Goal
  <2>1. /\ s \in AtWork /\ seeder'[s] = "failed"
        /\ \A t \in Seeder : t # s => seeder'[t] = seeder[t]
        /\ next' = next
        /\ \/ posted' = posted
           \/ seeder[s] = "post" /\ posted' = [posted EXCEPT ![environment][next[s]] = @ + 1]
    BY <1>6, <1>17 DEF GiveUp
  <2>2. /\ \A t, u \in AtWork' : t = u
        /\ \A t \in Seeder : t # s => seeder'[t] \notin {"health", "look", "post"}
    BY <1>11, <2>1
  <2>3. \A t \in Seeder : seeder'[t] \in {"idle", "health", "look"} => next'[t] = 1
    BY <1>3, <2>1
  <2>4. \A v \in Environment, e \in Corpus : posted'[v][e] <= 1
    <3>1. CASE posted' = posted BY <1>5, <3>1
    <3>2. CASE seeder[s] = "post" /\ posted' = [posted EXCEPT ![environment][next[s]] = @ + 1]
      <4>1. /\ next[s] \in Corpus
            /\ posted'[environment][next[s]] = posted[environment][next[s]] + 1
            /\ \A e \in Corpus : e # next[s] => posted'[environment][e] = posted[environment][e]
            /\ \A v \in Environment : v # environment => posted'[v] = posted[v]
        BY <3>2, PostedOnce
      <4>2. next[s] \in Nat BY <4>1, CorpusIs
      <4>3. posted[environment][next[s]] = 0 BY <1>4, <3>2, <4>1, <4>2
      <4>4. ASSUME NEW v \in Environment, NEW e \in Corpus PROVE posted'[v][e] <= 1
        <5>1. CASE v # environment BY <1>5, <4>1, <5>1
        <5>2. CASE v = environment /\ e # next[s] BY <1>5, <4>1, <5>2
        <5>3. CASE v = environment /\ e = next[s] BY <4>1, <4>3, <5>3
        <5>. QED BY <5>1, <5>2, <5>3
      <4>. QED BY <4>4
    <3>. QED BY <2>1, <3>1, <3>2
  <2>5. \A t \in Seeder : seeder'[t] # "post" BY <2>1, <2>2
  <2>. QED BY <2>2, <2>3, <2>4, <2>5
<1>18. ASSUME NEW v \in Environment, Takes(v) PROVE Goal
  <2>1. /\ environment' = v /\ seeder' = seeder /\ next' = next /\ posted' = posted
        /\ replaced' = IF v = environment THEN replaced
                       ELSE replaced \cup ({"look", "post"} \cap {seeder[s] : s \in Seeder})
    BY <1>18 DEF Takes
  <2>2. CASE v = environment BY <1>9, <2>1, <2>2
  <2>3. CASE v # environment
    <3>1. "post" \notin {seeder[s] : s \in Seeder} BY <2>1, <2>3
    <3>2. \A s \in Seeder : seeder'[s] # "post" BY <2>1, <3>1
    <3>3. \A s, t \in AtWork' : s = t BY <1>2, <1>8, <2>1 DEF AtWork
    <3>4. \A s \in Seeder : seeder'[s] \in {"idle", "health", "look"} => next'[s] = 1 BY <1>3, <2>1
    <3>. QED BY <1>5, <2>1, <3>2, <3>3, <3>4
  <2>. QED BY <2>2, <2>3
<1>. QED
  BY <1>9, <1>12, <1>13, <1>14, <1>15, <1>16, <1>17, <1>18 DEF SeedingNext, Guest, seeding

\* However often the seeder is run again after it broke off or ended, and whatever guests
\* post meanwhile, no entry of the corpus is in a book twice while its runs do not overlap
\* and none is moved to another environment's book between two posts (seed_golden_set.py,
\* is_empty and seed).
THEOREM CorpusGoesInOnce == Spec => []CorpusIsInOnce
<1>1. Init => OneSeederInv
  <2>. SUFFICES ASSUME Init PROVE OneSeederInv OBVIOUS
  <2>1. AtWork = {} BY DEF Init, SeedingInit, AtWork
  <2>2. \A v \in Environment : posted[v] = [e \in Corpus |-> 0] BY DEF Init, SeedingInit
  <2>3. \A s \in Seeder : seeder[s] = "idle" /\ next[s] = 1 BY DEF Init, SeedingInit
  <2>. QED BY <2>1, <2>2, <2>3 DEF OneSeederInv
<1>2. TypeOK /\ OneSeederInv /\ [Next]_vars => OneSeederInv'
  BY OneOrTheOther, OneSeederStep DEF TypeOK
<1>3. OneSeederInv => CorpusIsInOnce BY DEF OneSeederInv, CorpusIsInOnce
<1>. QED BY <1>1, <1>2, <1>3, TypeCorrect, PTL DEF Spec

-----------------------------------------------------------------------------
(* What is called current is of these sources.                             *)

\* What a build has read is still there, unless it is noted of it; so is what is written.
BuildInv ==
  /\ build.step = "read" /\ build.excuse = {} =>
       \A f \in Source : f \notin build.unread => build.read[f] = content[f]
  /\ BeingWritten /\ excuse = {} => \A f \in Source : build.read[f] = content[f]

\* Nothing is noted of the bundle that is there: no file of it is of the future; while it
\* is being written, what is written is of these sources; and once it is, a source that is
\* not what it was made of was saved after its last file.
BundleInv ==
  excuse = {} =>
    /\ bundle.shell <= clock /\ bundle.assets <= clock
    /\ BeingWritten =>
         /\ bundle.shell # 0 => bundle.shellOf = content
         /\ bundle.assets # 0 => bundle.assetsOf = content
    /\ ~BeingWritten /\ bundle.shell # 0 =>
         \A f \in Source : bundle.shellOf[f] # content[f] \/ bundle.assetsOf[f] # content[f]
                             => mtime[f] > bundle.shell /\ mtime[f] > bundle.assets

LEMMA BuildInit == SpaInit => BuildInv
<1>. SUFFICES ASSUME SpaInit PROVE BuildInv OBVIOUS
<1>1. build.step = "idle" BY DEF SpaInit, NoBuild
<1>. QED BY <1>1 DEF BuildInv, BeingWritten

\* A source changed: what was read of it, or written, is noted.
LEMMA ChangedStep ==
  ASSUME BuildInv, build \in Builds, content \in Contents, NEW f \in Source, NEW there, NEW coming,
         Excused(there, coming), \A g \in Source : g # f => content'[g] = content[g], bundle' = bundle,
         BeingWritten => there # {}, AlreadyRead(f) => coming # {}
  PROVE  BuildInv'
<1>1. /\ excuse' = excuse \cup there
      /\ build'.step = build.step /\ build'.read = build.read
      /\ build'.unread = build.unread /\ build'.excuse = build.excuse \cup coming
  BY ExcusedIs
<1>2. BeingWritten' => excuse' # {}
  <2>1. BeingWritten' => BeingWritten BY <1>1 DEF BeingWritten, Written
  <2>. QED BY <1>1, <2>1
<1>3. ASSUME build'.step = "read", build'.excuse = {}, NEW g \in Source, g \notin build'.unread
      PROVE  build'.read[g] = content'[g]
  <2>1. build.step = "read" /\ build.excuse = {} /\ coming = {} /\ g \notin build.unread
    BY <1>1, <1>3
  <2>2. g # f BY <2>1 DEF AlreadyRead
  <2>3. build.read[g] = content[g] BY <2>1 DEF BuildInv
  <2>. QED BY <1>1, <2>2, <2>3
<1>. QED BY <1>2, <1>3 DEF BuildInv

LEMMA BuildStep == SpaTypeOK /\ BuildInv /\ (SpaNext \/ UNCHANGED spa) => BuildInv'
<1>. SUFFICES ASSUME SpaTypeOK, BuildInv, SpaNext \/ UNCHANGED spa PROVE BuildInv' OBVIOUS
<1>1. build \in Builds /\ content \in Contents BY DEF SpaTypeOK
<1>2. NoBuild.step = "idle" BY DEF NoBuild
<1>3. ASSUME UNCHANGED <<build, content, excuse>>, BeingWritten' => BeingWritten PROVE BuildInv'
  BY <1>3 DEF BuildInv
<1>4. CASE build' = NoBuild BY <1>2, <1>4 DEF BuildInv, BeingWritten
<1>5. CASE SetClockBack
  <2>. DEFINE there == IF Built = clock THEN {"the clock set back"} ELSE {}
  <2>1. Excused(there, {}) /\ content' = content /\ bundle' = bundle BY <1>5 DEF SetClockBack
  <2>. HIDE DEF there
  <2>2. /\ excuse' = excuse \cup there
        /\ build'.step = build.step /\ build'.read = build.read
        /\ build'.unread = build.unread /\ build'.excuse = build.excuse
    BY <1>1, <2>1, ExcusedIs
  <2>3. BeingWritten' => BeingWritten BY <2>1, <2>2 DEF BeingWritten, Written
  <2>. QED BY <2>1, <2>2, <2>3 DEF BuildInv
<1>6. CASE RunBuild
  <2>1. build'.step = "read" /\ build'.unread = Source BY <1>6 DEF RunBuild, Start, NoBuild
  <2>. QED BY <2>1 DEF BuildInv, BeingWritten
<1>7. CASE Empty
  <2>1. /\ build' = [build EXCEPT !.step = "write"] /\ excuse' = build.excuse
        /\ build.step = "read" /\ build.unread = {} /\ content' = content
    BY <1>7 DEF Empty, tree
  <2>2. build'.step = "write" /\ build'.read = build.read BY <1>1, <2>1 DEF Builds
  <2>3. build.excuse = {} => \A f \in Source : build.read[f] = content[f] BY <2>1 DEF BuildInv
  <2>. QED BY <2>1, <2>2, <2>3 DEF BuildInv
<1>8. ASSUME NEW f \in Source, Save(f) PROVE BuildInv'
  <2>. DEFINE there == IF BeingWritten THEN {"saved after it was read"}
                       ELSE IF clock = Built THEN {"saved in the tick of the build"} ELSE {}
              coming == IF AlreadyRead(f) THEN {"saved after it was read"} ELSE {}
  <2>1. Excused(there, coming) /\ content' = [content EXCEPT ![f] = saves + 1] /\ bundle' = bundle
    BY <1>8 DEF Save
  <2>2. (BeingWritten => there # {}) /\ (AlreadyRead(f) => coming # {}) OBVIOUS
  <2>3. \A g \in Source : g # f => content'[g] = content[g] BY <1>1, <2>1 DEF Contents
  <2>. HIDE DEF there, coming
  <2>. QED BY <1>1, <2>1, <2>2, <2>3, ChangedStep
<1>9. ASSUME NEW f \in Source, Remove(f) PROVE BuildInv'
  <2>. DEFINE there == {"a source removed"}
              coming == IF AlreadyRead(f) THEN {"a source removed"} ELSE {}
  <2>1. Excused(there, coming) /\ content' = [content EXCEPT ![f] = 0] /\ bundle' = bundle
    BY <1>9 DEF Remove
  <2>2. (BeingWritten => there # {}) /\ (AlreadyRead(f) => coming # {}) OBVIOUS
  <2>3. \A g \in Source : g # f => content'[g] = content[g] BY <1>1, <2>1 DEF Contents
  <2>. HIDE DEF there, coming
  <2>. QED BY <1>1, <2>1, <2>2, <2>3, ChangedStep
<1>10. ASSUME NEW f \in Source, ReadSource(f) PROVE BuildInv'
  <2>1. /\ build' = [build EXCEPT !.read[f] = content[f], !.unread = @ \ {f}]
        /\ build.step = "read" /\ content' = content
    BY <1>10 DEF ReadSource, tree
  <2>2. /\ build'.step = "read" /\ build'.unread = build.unread \ {f}
        /\ build'.excuse = build.excuse
        /\ build'.read = [build.read EXCEPT ![f] = content[f]]
        /\ build.read \in [Source -> 0..MaxSaves]
    BY <1>1, <2>1 DEF Builds, Contents
  <2>3. \A g \in Source : build'.read[g] = IF g = f THEN content[f] ELSE build.read[g]
    BY <2>2
  <2>. QED BY <2>1, <2>2, <2>3 DEF BuildInv, BeingWritten
<1>11. CASE Refuse \/ Measure \/ Kill BY <1>4, <1>11 DEF Refuse, Measure, Kill
<1>12. CASE Tick \/ LeaveAsItIs \/ UNCHANGED spa
  BY <1>3, <1>12 DEF Tick, LeaveAsItIs, tree, spa, BeingWritten, Written
<1>13. CASE WriteShell \/ WriteAssets
  <2>1. UNCHANGED <<build, content, excuse>> /\ build.step = "write"
    BY <1>13 DEF WriteShell, WriteAssets, tree
  <2>2. ~Written BY <1>13 DEF WriteShell, WriteAssets, Written
  <2>. QED BY <1>3, <2>1, <2>2 DEF BeingWritten
<1>. QED BY <1>5, <1>6, <1>7, <1>8, <1>9, <1>10, <1>11, <1>12, <1>13 DEF SpaNext

LEMMA BundleInit == SpaInit => BundleInv
<1>. SUFFICES ASSUME SpaInit PROVE BundleInv OBVIOUS
<1>1. bundle.shell = 0 /\ bundle.assets = 0 /\ clock = 1 /\ build.step = "idle"
  BY DEF SpaInit, NoBundle, NoBuild
<1>. QED BY <1>1 DEF BundleInv

LEMMA BundleStep == SpaTypeOK /\ BuildInv /\ BundleInv /\ (SpaNext \/ UNCHANGED spa) => BundleInv'
<1>. DEFINE Goal ==
       /\ bundle'.shell <= clock' /\ bundle'.assets <= clock'
       /\ BeingWritten' =>
            /\ bundle'.shell # 0 => bundle'.shellOf = content'
            /\ bundle'.assets # 0 => bundle'.assetsOf = content'
       /\ ~BeingWritten' /\ bundle'.shell # 0 =>
            \A f \in Source :
              bundle'.shellOf[f] # content'[f] \/ bundle'.assetsOf[f] # content'[f]
                => mtime'[f] > bundle'.shell /\ mtime'[f] > bundle'.assets
<1>. SUFFICES ASSUME SpaTypeOK, BuildInv, BundleInv, SpaNext \/ UNCHANGED spa, excuse' = {}
              PROVE  Goal
  BY DEF BundleInv
<1>1. /\ bundle \in Bundles /\ build \in Builds /\ content \in Contents
      /\ mtime \in [Source -> 0..MaxClock]
  BY DEF SpaTypeOK
<1>2. clock \in Nat /\ bundle.shell \in Nat /\ bundle.assets \in Nat
  <2>1. clock \in 1..MaxClock BY DEF SpaTypeOK
  <2>2. bundle.shell \in 0..MaxClock /\ bundle.assets \in 0..MaxClock BY <1>1 DEF Bundles
  <2>. QED BY <2>1, <2>2, BoundsAre
<1>3. ASSUME excuse = {}
      PROVE  /\ bundle.shell <= clock /\ bundle.assets <= clock
             /\ BeingWritten =>
                  /\ bundle.shell # 0 => bundle.shellOf = content
                  /\ bundle.assets # 0 => bundle.assetsOf = content
             /\ ~BeingWritten /\ bundle.shell # 0 =>
                  \A f \in Source : bundle.shellOf[f] # content[f] \/ bundle.assetsOf[f] # content[f]
                    => mtime[f] > bundle.shell /\ mtime[f] > bundle.assets
  BY <1>3 DEF BundleInv
<1>4. ASSUME NEW there, NEW coming, Excused(there, coming)
      PROVE  /\ excuse = {} /\ there = {}
             /\ build'.step = build.step
  BY <1>1, <1>4, ExcusedIs
<1>5. ASSUME UNCHANGED <<content, mtime, bundle, excuse>>, bundle.shell <= clock', bundle.assets <= clock',
             build'.step = build.step \/ {build'.step, build.step} \cap {"write"} = {}
      PROVE  Goal
  <2>1. BeingWritten' <=> BeingWritten BY <1>5 DEF BeingWritten, Written
  <2>. QED BY <1>3, <1>5, <2>1, Zenon
<1>6. CASE Tick
  <2>1. excuse = {} /\ clock' = clock + 1 BY <1>6 DEF Tick
  <2>2. bundle.shell <= clock' /\ bundle.assets <= clock' BY <1>2, <1>3, <2>1
  <2>. QED BY <1>5, <1>6, <2>2 DEF Tick
<1>7. CASE SetClockBack
  <2>. DEFINE there == IF Built = clock THEN {"the clock set back"} ELSE {}
  <2>1. /\ Excused(there, {}) /\ clock' = clock - 1
        /\ UNCHANGED <<content, mtime, bundle, said>>
    BY <1>7 DEF SetClockBack
  <2>2. excuse = {} /\ there = {} /\ build'.step = build.step
    <3>. HIDE DEF there
    <3>. QED BY <1>4, <2>1
  <2>3. Built # clock BY <2>2
  <2>4. bundle.shell <= Built /\ bundle.assets <= Built
        /\ (Built = bundle.shell \/ Built = bundle.assets)
    BY BuiltIs
  <2>5. bundle.shell <= clock /\ bundle.assets <= clock BY <1>3, <2>2
  <2>6. bundle.shell <= clock - 1 /\ bundle.assets <= clock - 1 BY <1>2, <2>3, <2>4, <2>5
  <2>. QED BY <1>5, <2>1, <2>2, <2>6
<1>8. CASE RunBuild
  <2>1. build'.step = "read" /\ build.step = "idle" BY <1>8 DEF RunBuild, Start, NoBuild
  <2>2. UNCHANGED <<clock, content, mtime, bundle, excuse>> BY <1>8 DEF RunBuild, tree
  <2>. QED BY <1>3, <1>5, <2>1, <2>2
<1>9. CASE LeaveAsItIs \/ UNCHANGED spa
  <2>1. UNCHANGED <<clock, content, mtime, bundle, build, excuse>>
    BY <1>9 DEF LeaveAsItIs, tree, spa
  <2>. QED BY <1>3, <1>5, <2>1
<1>10. CASE Refuse
  <2>1. build'.step = "idle" /\ build.step = "read" BY <1>10 DEF Refuse, NoBuild
  <2>2. UNCHANGED <<clock, content, mtime, bundle, excuse>> BY <1>10 DEF Refuse, tree
  <2>. QED BY <1>3, <1>5, <2>1, <2>2
<1>11. CASE Empty
  <2>1. bundle'.shell = 0 /\ bundle'.assets = 0 /\ clock' = clock
    BY <1>11 DEF Empty, NoBundle
  <2>. QED BY <1>2, <2>1
<1>12. ASSUME BeingWritten, excuse = {} PROVE build.read = content
  <2>1. \A f \in Source : build.read[f] = content[f] BY <1>12 DEF BuildInv
  <2>2. build.read \in [Source -> 0..MaxSaves] /\ content \in [Source -> 0..MaxSaves]
    BY <1>1 DEF Builds, Contents
  <2>3. build.read = [f \in Source |-> build.read[f]] /\ content = [f \in Source |-> content[f]]
    BY <2>2
  <2>. QED BY <2>1, <2>3, Zenon
<1>13. ASSUME UNCHANGED <<clock, content, mtime, build>>, excuse = {}, BeingWritten,
              bundle'.shell \in {bundle.shell, clock}, bundle'.assets \in {bundle.assets, clock},
              bundle'.shell # 0 => bundle'.shellOf = content,
              bundle'.assets # 0 => bundle'.assetsOf = content
       PROVE  Goal
  <2>1. bundle'.shell <= clock' /\ bundle'.assets <= clock' BY <1>2, <1>3, <1>13
  <2>2. ~BeingWritten' => bundle'.shellOf = content' /\ bundle'.assetsOf = content'
    BY <1>13 DEF BeingWritten, Written
  <2>. QED BY <1>13, <2>1, <2>2
<1>14. CASE WriteShell
  <2>1. /\ build.step = "write" /\ build' = build /\ excuse = {} /\ bundle.shell = 0
        /\ UNCHANGED <<clock, content, mtime>>
        /\ bundle' = [bundle EXCEPT !.shell = clock, !.shellOf = build.read]
    BY <1>14 DEF WriteShell, tree
  <2>2. BeingWritten BY <2>1 DEF BeingWritten, Written
  <2>3. build.read = content BY <1>12, <2>1, <2>2
  <2>4. /\ bundle'.shell = clock /\ bundle'.shellOf = content
        /\ bundle'.assets = bundle.assets /\ bundle'.assetsOf = bundle.assetsOf
    BY <1>1, <2>1, <2>3 DEF Bundles
  <2>5. bundle.assets # 0 => bundle.assetsOf = content BY <1>3, <2>1, <2>2
  <2>. QED BY <1>13, <2>1, <2>2, <2>4, <2>5
<1>15. CASE WriteAssets
  <2>1. /\ build.step = "write" /\ build' = build /\ excuse = {} /\ bundle.assets = 0
        /\ UNCHANGED <<clock, content, mtime>>
        /\ bundle' = [bundle EXCEPT !.assets = clock, !.assetsOf = build.read]
    BY <1>15 DEF WriteAssets, tree
  <2>2. BeingWritten BY <2>1 DEF BeingWritten, Written
  <2>3. build.read = content BY <1>12, <2>1, <2>2
  <2>4. /\ bundle'.assets = clock /\ bundle'.assetsOf = content
        /\ bundle'.shell = bundle.shell /\ bundle'.shellOf = bundle.shellOf
    BY <1>1, <2>1, <2>3 DEF Bundles
  <2>5. bundle.shell # 0 => bundle.shellOf = content BY <1>3, <2>1, <2>2
  <2>. QED BY <1>13, <2>1, <2>2, <2>4, <2>5
<1>16. ASSUME UNCHANGED <<clock, content, mtime, bundle>>, excuse = {}, build'.step = "idle",
              ~BeingWritten \/ bundle.shell = 0
       PROVE  Goal
  <2>1. ~BeingWritten' BY <1>16 DEF BeingWritten
  <2>. QED BY <1>3, <1>16, <2>1
<1>17. CASE Measure
  <2>1. /\ Written /\ build'.step = "idle" /\ excuse = {}
        /\ UNCHANGED <<clock, content, mtime, bundle>>
    BY <1>17 DEF Measure, tree, NoBuild
  <2>2. ~BeingWritten BY <2>1 DEF BeingWritten
  <2>. QED BY <1>16, <2>1, <2>2
<1>18. CASE Kill
  <2>1. /\ build'.step = "idle" /\ UNCHANGED <<clock, content, mtime, bundle>>
        /\ excuse' = excuse \cup (IF BeingWritten /\ bundle.shell # 0 THEN {"killed"} ELSE {})
    BY <1>18 DEF Kill, tree, NoBuild
  <2>2. excuse = {} /\ (~BeingWritten \/ bundle.shell = 0) BY <2>1
  <2>. QED BY <1>16, <2>1, <2>2
<1>19. ASSUME NEW f \in Source, Save(f) PROVE Goal
  <2>. DEFINE there == IF BeingWritten THEN {"saved after it was read"}
                       ELSE IF clock = Built THEN {"saved in the tick of the build"} ELSE {}
              coming == IF AlreadyRead(f) THEN {"saved after it was read"} ELSE {}
  <2>1. /\ Excused(there, coming)
        /\ mtime' = [mtime EXCEPT ![f] = clock] /\ content' = [content EXCEPT ![f] = saves + 1]
        /\ clock' = clock /\ bundle' = bundle
    BY <1>19 DEF Save
  <2>2. excuse = {} /\ there = {} /\ build'.step = build.step
    <3>. HIDE DEF there, coming
    <3>. QED BY <1>4, <2>1
  <2>3. ~BeingWritten /\ clock # Built BY <2>2
  <2>4. ~BeingWritten' BY <2>1, <2>2, <2>3 DEF BeingWritten, Written
  <2>5. /\ mtime'[f] = clock
        /\ \A g \in Source : g # f => mtime'[g] = mtime[g] /\ content'[g] = content[g]
    BY <1>1, <2>1 DEF Contents
  <2>6. bundle.shell <= clock /\ bundle.assets <= clock BY <1>3, <2>2
  <2>7. clock > bundle.shell /\ clock > bundle.assets
    <3>1. bundle.shell <= Built /\ bundle.assets <= Built
          /\ (Built = bundle.shell \/ Built = bundle.assets)
      BY BuiltIs
    <3>. QED BY <1>2, <2>3, <2>6, <3>1
  <2>8. ASSUME bundle.shell # 0, NEW g \in Source,
               bundle.shellOf[g] # content'[g] \/ bundle.assetsOf[g] # content'[g]
        PROVE  mtime'[g] > bundle.shell /\ mtime'[g] > bundle.assets
    <3>1. CASE g = f BY <2>5, <2>7, <3>1
    <3>2. CASE g # f BY <1>3, <2>2, <2>3, <2>5, <2>8, <3>2
    <3>. QED BY <3>1, <3>2
  <2>. QED BY <2>1, <2>4, <2>6, <2>8
<1>20. ASSUME NEW f \in Source, Remove(f) PROVE Goal
  <2>. DEFINE coming == IF AlreadyRead(f) THEN {"a source removed"} ELSE {}
  <2>1. Excused({"a source removed"}, coming) BY <1>20 DEF Remove
  <2>. HIDE DEF coming
  <2>2. {"a source removed"} = {} BY <1>4, <2>1
  <2>. QED BY <2>2
<1>21. ASSUME NEW f \in Source, ReadSource(f) PROVE Goal
  <2>1. /\ build' = [build EXCEPT !.read[f] = content[f], !.unread = @ \ {f}]
        /\ UNCHANGED <<clock, content, mtime, bundle, excuse>>
    BY <1>21 DEF ReadSource, tree
  <2>2. build'.step = build.step BY <1>1, <2>1 DEF Builds
  <2>. QED BY <1>3, <1>5, <2>1, <2>2
<1>. QED
  BY <1>6, <1>7, <1>8, <1>9, <1>10, <1>11, <1>14, <1>15, <1>17, <1>18, <1>19, <1>20, <1>21
  DEF SpaNext

\* What build.sh and spa_build_state.py call current, going by modification times alone, is
\* the build of the sources that are there, with every save made before the compiler came to
\* the source or after the last file was written, every build refused or killed while it
\* read, and every order of vite's writes.  It says nothing of the five cases excuse names.
THEOREM CurrentMeansTheseSources == Spec => []CurrentIsOfTheseSources
<1>1. Init => BuildInv /\ BundleInv BY BuildInit, BundleInit DEF Init
<1>2. TypeOK /\ BuildInv /\ BundleInv /\ [Next]_vars => BuildInv' /\ BundleInv'
  BY OneOrTheOther, BuildStep, BundleStep DEF TypeOK
<1>3. TypeOK /\ BundleInv => CurrentIsOfTheseSources
  <2>. SUFFICES ASSUME TypeOK, BundleInv, build.step = "idle", BuildState = "current",
                       Differs, excuse = {}
                PROVE  FALSE
    BY DEF CurrentIsOfTheseSources
  <2>1. SpaTypeOK BY DEF TypeOK
  <2>2. bundle.shell # 0 /\ ~ (NewestInput > Built) BY DEF BuildState
  <2>3. PICK f \in Source : bundle.shellOf[f] # content[f] \/ bundle.assetsOf[f] # content[f]
    <3>1. /\ bundle.shellOf \in [Source -> 0..MaxSaves]
          /\ bundle.assetsOf \in [Source -> 0..MaxSaves]
          /\ content \in [Source -> 0..MaxSaves]
      BY <2>1 DEF SpaTypeOK, Bundles, Contents
    <3>2. /\ bundle.shellOf = [f \in Source |-> bundle.shellOf[f]]
          /\ bundle.assetsOf = [f \in Source |-> bundle.assetsOf[f]]
          /\ content = [f \in Source |-> content[f]]
      BY <3>1
    <3>3. (\A f \in Source : bundle.shellOf[f] = content[f] /\ bundle.assetsOf[f] = content[f])
            => bundle.shellOf = content /\ bundle.assetsOf = content
      BY <3>2, Zenon
    <3>. QED BY <3>3 DEF Differs
  <2>4. mtime[f] > bundle.shell /\ mtime[f] > bundle.assets
    <3>1. ~BeingWritten BY DEF BeingWritten
    <3>. QED BY <2>2, <2>3, <3>1 DEF BundleInv
  <2>5. mtime[f] > Built
    <3>1. Built = bundle.shell \/ Built = bundle.assets BY <2>1, BuiltIs
    <3>. QED BY <2>4, <3>1
  <2>6. mtime[f] <= NewestInput /\ NewestInput \in Nat BY <2>1, NewestInputIs
  <2>7. mtime[f] \in Nat /\ Built \in Nat
    <3>1. mtime[f] \in 0..MaxClock BY <2>1 DEF SpaTypeOK
    <3>2. Built \in 0..MaxClock BY <2>1, BuiltIs
    <3>. QED BY <3>1, <3>2, BoundsAre
  <2>. QED BY <2>2, <2>5, <2>6, <2>7
<1>. QED BY <1>1, <1>2, <1>3, TypeCorrect, PTL DEF Spec
=============================================================================
