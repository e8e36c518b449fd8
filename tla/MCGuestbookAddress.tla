------------------------- MODULE MCGuestbookAddress -------------------------
(***************************************************************************)
(* Instances of GuestbookAddress for TLC: two phrases, and one of them     *)
(* with a blank after it.                                                  *)
(***************************************************************************)
EXTENDS GuestbookAddress

CONSTANTS empty, anna, annaBlank, zoe

Texts == {empty, anna, annaBlank, zoe}

Trimmed == [t \in Texts |-> IF t = annaBlank THEN anna ELSE t]

Shared ==
  {[search |-> empty, sort |-> "newest", shown |-> "step"],
   [search |-> annaBlank, sort |-> "oldest", shown |-> "more"],
   [search |-> zoe, sort |-> "newest", shown |-> "more"]}

=============================================================================
