--------------------------- MODULE GuestbookBook ---------------------------
(***************************************************************************)
(* What the guestbook promises, whatever the requests that use it do at    *)
(* the same time: the table guestbook_entries as a book in which an entry  *)
(* is written once under an identifier nobody has used, is amended without *)
(* its moment of writing moving, and is gone for good once it is deleted   *)
(* (BR-02 and BR-03 of spec/contexts/guestbook.md).  One action is one     *)
(* committed transaction.  GuestbookService implements this specification, *)
(* and GuestbookReading reads a book that changes by it.                   *)
(***************************************************************************)
EXTENDS Naturals

CONSTANTS
  Id,        \* identifiers uuid4 can draw; naturals, because the list orders by them
  Text,      \* values an author or a message can have, already normalized
  None,      \* Python's None: no row, no identifier, a field left unset
  MaxClock   \* bound of the clock

ASSUME IdAssumption    == Id \subseteq Nat
ASSUME NoneAssumption  == None \notin Text /\ None \notin Id
ASSUME ClockAssumption == MaxClock \in Nat

Row == [author : Text, message : Text, created : Nat, updated : Nat]

ASSUME NoneIsNoRow == None \notin Row

VARIABLES
  rows,      \* the committed table: identifier -> row, or None
  spent,     \* identifiers that have ever been the key of a row
  clock      \* what datetime.now(UTC) returns

bookVars == <<rows, spent, clock>>

Present(id) == rows[id] # None

BookInit ==
  /\ rows = [id \in Id |-> None]
  /\ spent = {}
  /\ clock = 0

\* INSERT ... COMMIT.  The stamp was taken before the transaction began, so rows need
\* not become visible in the order of their moments of writing.
Write(id, author, message, at) ==
  /\ id \notin spent
  /\ rows' = [rows EXCEPT ![id] = [author |-> author, message |-> message,
                                   created |-> at, updated |-> at]]
  /\ spent' = spent \cup {id}
  /\ UNCHANGED clock

\* UPDATE ... COMMIT.  The last of two concurrent amendments to commit may carry the
\* earlier stamp; no stamp is older than the entry itself.
Amend(id, author, message, at) ==
  /\ Present(id)
  /\ rows[id].created <= at
  /\ rows' = [rows EXCEPT ![id].author = author, ![id].message = message,
                          ![id].updated = at]
  /\ UNCHANGED <<spent, clock>>

\* DELETE ... COMMIT.
Erase(id) ==
  /\ Present(id)
  /\ rows' = [rows EXCEPT ![id] = None]
  /\ UNCHANGED <<spent, clock>>

Tick ==
  /\ clock < MaxClock
  /\ clock' = clock + 1
  /\ UNCHANGED <<rows, spent>>

BookNext ==
  \/ \E id \in Id, author \in Text, message \in Text, at \in 0..clock :
       Write(id, author, message, at) \/ Amend(id, author, message, at)
  \/ \E id \in Id : Erase(id)
  \/ Tick

BookSpec == BookInit /\ [][BookNext]_bookVars

----------------------------------------------------------------------------

BookTypeOK ==
  /\ rows \in [Id -> Row \cup {None}]
  /\ spent \subseteq Id
  /\ clock \in 0..MaxClock

\* Every row has an identifier that was spent on it, and was last amended no earlier
\* than it was written and no later than now.
RowsAreSound ==
  \A id \in Id : Present(id) =>
    /\ id \in spent
    /\ rows[id].created <= rows[id].updated
    /\ rows[id].updated <= clock

=============================================================================
