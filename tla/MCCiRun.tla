------------------------------- MODULE MCCiRun -------------------------------
(* A small instance of CiRun: one job that needs nobody stands for the seven   *)
(* that do, and the diff is one the router cannot resolve, one that touches a  *)
(* manifest, one that touches a workflow, and one that touches neither, with   *)
(* and without the label.                                                      *)
EXTENDS CiRun

Plain == [matched |-> {}, deps |-> FALSE, workflows |-> FALSE, resolved |-> TRUE,
          asked |-> FALSE]
MCDiffs == {Plain,
            [Plain EXCEPT !.asked = TRUE, !.matched = {"e2e"}],
            [Plain EXCEPT !.deps = TRUE, !.matched = {"frontend", "e2e"}],
            [Plain EXCEPT !.workflows = TRUE],
            [Plain EXCEPT !.resolved = FALSE]}
MCOther == {"quality"}
=============================================================================
