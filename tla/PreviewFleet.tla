---------------------------- MODULE PreviewFleet ----------------------------
(***************************************************************************)
(* What previews promise: each can be used from the moment it works until  *)
(* its own removal begins, whatever is done meanwhile to any other one.    *)
(* scripts/preview.sh: "The branch NAME is the whole identity chain".      *)
(***************************************************************************)
CONSTANT Branch

VARIABLES
  usable,    \* branch -> its URL answers and its database can be read
  removing   \* branch -> a removal of it is at work

Init == usable = [b \in Branch |-> FALSE] /\ removing = [b \in Branch |-> FALSE]

\* One preview works from here on, or its removal begins or ends, or both.
Appear(b) ==
  /\ usable' \in {usable, [usable EXCEPT ![b] = TRUE]}
  /\ \E now \in BOOLEAN : removing' = [removing EXCEPT ![b] = now]

\* Only what is being removed disappears.
Disappear(b) ==
  /\ removing[b]
  /\ usable' = [usable EXCEPT ![b] = FALSE]
  /\ UNCHANGED removing

Next == \E b \in Branch : Appear(b) \/ Disappear(b)

Spec == Init /\ [][Next]_<<usable, removing>>
=============================================================================
