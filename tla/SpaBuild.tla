------------------------------ MODULE SpaBuild ------------------------------
(***************************************************************************)
(* The bundle under app/static, the sources it was made of, and what the   *)
(* scripts say of the two: spa_build_state.py, which looks at modification *)
(* times alone, and scripts/build.sh, which acts on it.  Sources are saved *)
(* and deleted while a build runs, a build may fail or be killed, and the  *)
(* clock of the machine may be set back.                                   *)
(***************************************************************************)
EXTENDS Naturals, FiniteSetsExt

CONSTANTS
  Source,    \* the files under BUILD_INPUTS
  MaxClock,  \* bound: ticks of the clock
  MaxSaves   \* bound: saves, deletions and settings of the clock

ASSUME SourceAssumption == Source # {} /\ {MaxClock, MaxSaves} \subseteq Nat \ {0}

VARIABLES
  clock,    \* the machine's clock
  content,  \* source -> the save its content is of; 0 when there is no such file
  mtime,    \* source -> its modification time; 0 when there is no such file
  bundle,   \* the files under app/static
  build,    \* the run of build.sh
  said,     \* how the last run of build.sh ended
  saves,    \* how many saves, deletions and settings of the clock there were
  excuse    \* history: why a bundle that is called current may be another's

tree == <<content, mtime>>
spa == <<clock, content, mtime, bundle, build, said, saves, excuse>>

\* What a bundle is made of: the content of every source.
NoContent == [f \in Source |-> 0]
\* index.html and the files under assets/, each with what it was made of and when it was
\* written; 0 is the time of what is not there.
NoBundle == [shell |-> 0, shellOf |-> NoContent, assets |-> 0, assetsOf |-> NoContent]
NoBuild == [step |-> "idle", read |-> NoContent, unread |-> {}, excuse |-> {}]

Greatest(S) == Max(S \cup {0})

\* newest_file and newest_mtime, under a directory of sources and under app/static.
NewestInput == Greatest({mtime[f] : f \in Source})
Built == Greatest({bundle.shell, bundle.assets})

\* Mutant: the verdict asks for index.html alone.
BuildStateOfShell == IF bundle.shell = 0 THEN "missing" ELSE "current"

\* build_state: missing without index.html, else by the newest file of either side.
BuildState ==
  IF bundle.shell = 0 THEN "missing"
  ELSE IF NewestInput > Built THEN "stale" ELSE "current"

SpaInit ==
  /\ clock = 1
  /\ content = [f \in Source |-> 1]
  /\ mtime = [f \in Source |-> 1]
  /\ bundle = NoBundle
  /\ build = NoBuild
  /\ said = "nothing"
  /\ saves = 1
  /\ excuse = {}

Tick ==
  /\ clock < MaxClock
  /\ clock' = clock + 1
  /\ UNCHANGED <<content, mtime, bundle, build, said, saves, excuse>>

-----------------------------------------------------------------------------
(* The developer.                                                          *)

Changes == saves < MaxSaves /\ saves' = saves + 1

Written == bundle.shell # 0 /\ bundle.assets # 0

\* History: the compiler has read f for a bundle that is not begun, or not all written.
AlreadyRead(f) == build.step = "read" /\ f \notin build.unread
BeingWritten == build.step = "write" /\ ~Written

\* History: what is noted of the bundle that is there, and of the one being built.
Excused(there, coming) ==
  /\ excuse' = excuse \cup there
  /\ build' = [build EXCEPT !.excuse = @ \cup coming]

\* A save after the compiler has read f is not in the bundle it makes and is older than it;
\* one in the tick a bundle was last written in is not newer than it.  A save of a source
\* still to be read, or made once a bundle is written, is in the bundle or newer than it.
Save(f) ==
  /\ Changes
  /\ content' = [content EXCEPT ![f] = saves + 1]
  /\ mtime' = [mtime EXCEPT ![f] = clock]
  /\ Excused(IF BeingWritten THEN {"saved after it was read"}
             ELSE IF clock = Built THEN {"saved in the tick of the build"} ELSE {},
             IF AlreadyRead(f) THEN {"saved after it was read"} ELSE {})
  /\ UNCHANGED <<clock, bundle, said>>

\* What is gone has no modification time.
Remove(f) ==
  /\ content[f] # 0
  /\ Changes
  /\ content' = [content EXCEPT ![f] = 0]
  /\ mtime' = [mtime EXCEPT ![f] = 0]
  /\ Excused({"a source removed"}, IF AlreadyRead(f) THEN {"a source removed"} ELSE {})
  /\ UNCHANGED <<clock, bundle, said>>

\* Behind the bundle that is there, so that what is saved next is not newer than it.
SetClockBack ==
  /\ clock > 1
  /\ Changes
  /\ clock' = clock - 1
  /\ Excused(IF Built = clock THEN {"the clock set back"} ELSE {}, {})
  /\ UNCHANGED <<content, mtime, bundle, said>>

-----------------------------------------------------------------------------
(* build.sh.                                                               *)

Start == build' = [NoBuild EXCEPT !.step = "read", !.unread = Source]

\* build.sh, and build.sh --if-stale where the bundle is not current.
RunBuild ==
  /\ build.step = "idle"
  /\ Start
  /\ said' = "nothing"
  /\ UNCHANGED <<clock, tree, bundle, saves, excuse>>

\* build.sh --if-stale, where it is.
LeaveAsItIs ==
  /\ build.step = "idle"
  /\ BuildState = "current"
  /\ said' = "already built"
  /\ UNCHANGED <<clock, tree, bundle, build, saves, excuse>>

\* The compiler reads the sources one by one.
ReadSource(f) ==
  /\ build.step = "read"
  /\ f \in build.unread
  /\ build' = [build EXCEPT !.read[f] = content[f], !.unread = @ \ {f}]
  /\ UNCHANGED <<clock, tree, bundle, said, saves, excuse>>

\* The type check or the compiler refuses: what is under app/static stays.
Refuse ==
  /\ build.step = "read"
  /\ build.unread = {}
  /\ build' = NoBuild
  /\ said' = "failed"
  /\ UNCHANGED <<clock, tree, bundle, saves, excuse>>

\* vite empties app/static, then writes the files in an order of its own.
Empty ==
  /\ build.step = "read"
  /\ build.unread = {}
  /\ bundle' = NoBundle
  /\ build' = [build EXCEPT !.step = "write"]
  /\ excuse' = build.excuse
  /\ UNCHANGED <<clock, tree, said, saves>>

WriteShell ==
  /\ build.step = "write"
  /\ bundle.shell = 0
  /\ bundle' = [bundle EXCEPT !.shell = clock, !.shellOf = build.read]
  /\ UNCHANGED <<clock, tree, build, said, saves, excuse>>

WriteAssets ==
  /\ build.step = "write"
  /\ bundle.assets = 0
  /\ bundle' = [bundle EXCEPT !.assets = clock, !.assetsOf = build.read]
  /\ UNCHANGED <<clock, tree, build, said, saves, excuse>>

\* The comparison build.sh makes when the compiler is done: exit 0, or 4.
Measure ==
  /\ build.step = "write"
  /\ Written
  /\ build' = NoBuild
  /\ said' = IF BuildState = "current" THEN "current" ELSE "not of these sources"
  /\ UNCHANGED <<clock, tree, bundle, saves, excuse>>

\* index.html may be there without its assets.
Kill ==
  /\ build.step # "idle"
  /\ build' = NoBuild
  /\ said' = "killed"
  /\ excuse' = excuse \cup (IF BeingWritten /\ bundle.shell # 0 THEN {"killed"} ELSE {})
  /\ UNCHANGED <<clock, tree, bundle, saves>>

SpaNext ==
  \/ Tick \/ SetClockBack \/ RunBuild \/ LeaveAsItIs \/ Refuse \/ Empty
  \/ WriteShell \/ WriteAssets \/ Measure \/ Kill
  \/ \E f \in Source : Save(f) \/ Remove(f) \/ ReadSource(f)

-----------------------------------------------------------------------------

Excuse == {"saved after it was read", "saved in the tick of the build", "a source removed",
           "the clock set back", "killed"}
Contents == [Source -> 0..MaxSaves]
Bundles == [shell : 0..MaxClock, shellOf : Contents, assets : 0..MaxClock, assetsOf : Contents]
Builds == [step : {"idle", "read", "write"}, read : Contents, unread : SUBSET Source,
           excuse : SUBSET Excuse]

SpaTypeOK ==
  /\ clock \in 1..MaxClock
  /\ content \in Contents /\ mtime \in [Source -> 0..MaxClock]
  /\ bundle \in Bundles /\ build \in Builds
  /\ said \in {"nothing", "already built", "failed", "current", "not of these sources",
               "killed"}
  /\ saves \in 1..MaxSaves /\ excuse \subseteq Excuse

=============================================================================
