----------------------------- MODULE MCPreviews -----------------------------
(* A small instance of Previews: two branches on one cluster and two runs of    *)
(* migrate at one time, which may be of either of them or both of one.         *)
EXTENDS Previews, TLC

CONSTANTS b1, b2, i1, i2

MCBranch == {b1, b2}
MCInvocation == {i1, i2}
=============================================================================
