----------------------------- MODULE MCLocalRun -----------------------------
(* A small instance of LocalRun: two sources, two runs of the seeder.         *)
EXTENDS LocalRun, TLC

CONSTANTS f1, f2, s1, s2

MCSource == {f1, f2}
MCSeeder == {s1, s2}

\* Sources and seeders are told apart by nothing but their names.
Symmetry == Permutations(MCSource) \cup Permutations(MCSeeder)

\* The bundle and the book share nothing but a machine, so one of the two stays as it was.
FreshTree == clock = 1 /\ saves = 1 /\ bundle = NoBundle /\ build = NoBuild
FreshBook ==
  /\ server = "down" /\ environment = "local" /\ guests = [v \in Environment |-> 0]
  /\ seeder = [s \in Seeder |-> "idle"]

\* Bound: applications that take turns at the address let a seeder post for ever.
FewPosts == \A v \in Environment, e \in Corpus : posted[v][e] <= 2

Bounds == FewPosts /\ (FreshTree \/ FreshBook)
=============================================================================
