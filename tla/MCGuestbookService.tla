------------------------- MODULE MCGuestbookService -------------------------
(***************************************************************************)
(* Instances of GuestbookService for TLC.  Two texts tell an amended field *)
(* from one left alone; a PATCH sets either field, both or none.           *)
(***************************************************************************)
EXTENDS GuestbookService, TLC

CONSTANTS a, b

\* Workers are interchangeable: none is named and none is ordered.
Symmetry == Permutations(Worker)

MCRequests ==
       [op : {"create"}, id : {None}, author : {a}, message : {a}]
  \cup [op : {"patch"}, id : Id, author : {b, None}, message : {None}]
  \cup [op : {"patch"}, id : Id, author : {a, None}, message : {b}]
  \cup [op : {"get", "delete"}, id : Id, author : {None}, message : {None}]

=============================================================================
