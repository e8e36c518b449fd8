------------------------- MODULE MCGuestbookReading -------------------------
(***************************************************************************)
(* Instances of GuestbookReading for TLC.  The sizes 4, 100 and 1000       *)
(* become 1, 2 and 4: one request cannot restore the longest address, and  *)
(* "Load more" reaches the ceiling.                                        *)
(***************************************************************************)
EXTENDS GuestbookReading

CONSTANTS a, b

Searched == {b}

\* The identifiers in present hold entries: those in young from the last tick and the
\* others from the first, those in hits signed b and the others a.
Book(present, young, hits) ==
  [id \in Id |-> IF id \in present
                   THEN LET at == IF id \in young THEN MaxClock ELSE 0
                        IN  [author |-> IF id \in hits THEN b ELSE a, message |-> a,
                             created |-> at, updated |-> at]
                   ELSE None]

\* Two of the hits of one tick, one younger, and an identifier left between them.
SearchedBooks == {Book({1, 2, 4}, {1}, {1, 2, 4}), Book({1, 2, 3, 4}, {4}, {1, 3})}

\* Four entries of one tick and an identifier left.
WholeBooks == {Book({1, 2, 3, 5}, {}, {})}

=============================================================================
