------------------------------ MODULE MCDeploy ------------------------------
(* A small instance of Deploy: two trees that need the first revision and   *)
(* one that needs the second.                                               *)
EXTENDS Deploy

CONSTANTS t1, t2, t3

Trees     == {t1, t2, t3}
Revisions == [t \in Trees |-> IF t = t3 THEN 2 ELSE 1]
=============================================================================
