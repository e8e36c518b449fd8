------------------------------ MODULE Seeding ------------------------------
(***************************************************************************)
(* scripts/seed_golden_set.py, as start.sh, preview.sh and deploy.sh run   *)
(* it against an application that answers: the environment is asked for,   *)
(* the book is looked at, and the corpus is posted entry by entry through  *)
(* the API, while guests and other seeders post too.  What answers at its  *)
(* address is an application and its book; another may take its place      *)
(* between two requests.                                                   *)
(***************************************************************************)
EXTENDS Naturals, FiniteSetsExt

CONSTANTS
  Seeder,      \* the runs of the script
  CorpusSize,  \* the entries of the corpus
  MaxGuests    \* bound: entries posted by anybody else

ASSUME CorpusAssumption == CorpusSize \in Nat \ {0} /\ MaxGuests \in Nat

VARIABLES
  environment,  \* what /api/health of the application that answers reports
  posted,       \* environment -> entry of the corpus -> how often it is in the book there
  guests,       \* environment -> entries of anybody else
  seeder,       \* seeder -> where it stands
  next,         \* seeder -> the entry of the corpus it posts next
  overlapped,   \* history: a seeder began before another had ended
  replaced      \* history: where seeders stood when another environment took the address

seeding == <<environment, posted, guests, seeder, next, overlapped, replaced>>

\* One that may be seeded, and the one that may not; each keeps one book.
Environment == {"local", "prod"}
REFUSED_ENVIRONMENTS == {"prod"}

Corpus == 1..CorpusSize
SeederStep == {"idle", "health", "look", "post", "seeded", "left", "refused", "failed"}
AtWork == {s \in Seeder : seeder[s] \in {"health", "look", "post"}}

SeedingInit ==
  /\ environment \in Environment
  /\ posted = [v \in Environment |-> [e \in Corpus |-> 0]]
  /\ guests \in [Environment -> 0..1]
  /\ seeder = [s \in Seeder |-> "idle"]
  /\ next = [s \in Seeder |-> 1]
  /\ overlapped = FALSE
  /\ replaced = {}

IsEmpty == guests[environment] = 0 /\ \A e \in Corpus : posted[environment][e] = 0

\* The next request to the address is answered by an application of v.
Takes(v) ==
  /\ environment' = v
  /\ replaced' = IF v = environment THEN replaced
                 ELSE replaced \cup ({"look", "post"} \cap {seeder[s] : s \in Seeder})
  /\ UNCHANGED <<posted, guests, seeder, next, overlapped>>

SeederGoes(s, from, to) == seeder[s] = from /\ seeder' = [seeder EXCEPT ![s] = to]

Begin(s) ==
  /\ SeederGoes(s, "idle", "health")
  /\ overlapped' = (overlapped \/ AtWork # {})
  /\ UNCHANGED <<environment, posted, guests, next, replaced>>

\* Mutant: every environment may be seeded.
AskNothing(s) ==
  /\ SeederGoes(s, "health", "look")
  /\ UNCHANGED <<environment, posted, guests, next, overlapped, replaced>>

\* environment_of, and the refusal of production.
AskEnvironment(s) ==
  /\ SeederGoes(s, "health", IF environment \in REFUSED_ENVIRONMENTS THEN "refused" ELSE "look")
  /\ UNCHANGED <<environment, posted, guests, next, overlapped, replaced>>

\* Mutant: a seeder that is run again goes over the corpus whatever the book holds.
LookAtNothing(s) ==
  /\ SeederGoes(s, "look", "post")
  /\ UNCHANGED <<environment, posted, guests, next, overlapped, replaced>>

\* is_empty: a page of one entry.
Look(s) ==
  /\ SeederGoes(s, "look", IF IsEmpty THEN "post" ELSE "left")
  /\ UNCHANGED <<environment, posted, guests, next, overlapped, replaced>>

\* Mutant: the end of the corpus is noticed one entry late.
PostOneMore(s) ==
  /\ seeder[s] = "post"
  /\ posted' = [posted EXCEPT ![environment][next[s]] = @ + 1]
  /\ next' = [next EXCEPT ![s] = @ + 1]
  /\ seeder' = [seeder EXCEPT ![s] = IF next[s] > CorpusSize THEN "seeded" ELSE "post"]
  /\ UNCHANGED <<environment, guests, overlapped, replaced>>

\* One entry of seed(): answered 201.  A guest may have come since the book was looked at.
PostEntry(s) ==
  /\ seeder[s] = "post"
  /\ posted' = [posted EXCEPT ![environment][next[s]] = @ + 1]
  /\ next' = [next EXCEPT ![s] = IF @ = CorpusSize THEN @ ELSE @ + 1]
  /\ seeder' = [seeder EXCEPT ![s] = IF next[s] = CorpusSize THEN "seeded" ELSE "post"]
  /\ UNCHANGED <<environment, guests, overlapped, replaced>>

\* A request of the seeder is refused, lost, or loses its answer: it gives up, and the row
\* of a POST may be there all the same.
GiveUp(s) ==
  /\ s \in AtWork
  /\ seeder' = [seeder EXCEPT ![s] = "failed"]
  /\ \/ UNCHANGED posted
     \/ seeder[s] = "post" /\ posted' = [posted EXCEPT ![environment][next[s]] = @ + 1]
  /\ UNCHANGED <<environment, guests, next, overlapped, replaced>>

\* The script is run again by whoever ran it.
Again(s) ==
  /\ seeder[s] \in {"left", "refused", "failed", "seeded"}
  /\ seeder' = [seeder EXCEPT ![s] = "health"]
  /\ next' = [next EXCEPT ![s] = 1]
  /\ overlapped' = (overlapped \/ AtWork # {})
  /\ UNCHANGED <<environment, posted, guests, replaced>>

Guest ==
  /\ guests[environment] < MaxGuests
  /\ guests' = [guests EXCEPT ![environment] = @ + 1]
  /\ UNCHANGED <<environment, posted, seeder, next, overlapped, replaced>>

SeedingTypeOK ==
  /\ environment \in Environment
  /\ posted \in [Environment -> [Corpus -> Nat]] /\ guests \in [Environment -> Nat]
  /\ seeder \in [Seeder -> SeederStep] /\ next \in [Seeder -> Corpus]
  /\ overlapped \in BOOLEAN /\ replaced \subseteq {"look", "post"}

=============================================================================
