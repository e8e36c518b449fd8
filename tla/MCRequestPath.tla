---------------------------- MODULE MCRequestPath ----------------------------
(* A small instance of RequestPath: two requests, which may arrive with no     *)
(* identifier, with one, with the same one, or with two values that are one    *)
(* value once they are cut.                                                    *)
EXTENDS RequestPath, TLC

CONSTANTS t1, t2, short, long

MCTask == {t1, t2}
MCName == {short, long}
MCCut == [name \in {short, long} |-> short]
Symmetry == Permutations({t1, t2})
=============================================================================
