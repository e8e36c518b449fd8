-------------------------- MODULE GuestbookReading --------------------------
(***************************************************************************)
(* One reader looking at one question of the guestbook (a phrase and an    *)
(* order) while the book changes: list_entries, which reads the table in   *)
(* up to three READ COMMITTED statements, and the screen's infinite query, *)
(* which asks for the answer piece by piece until as much of it is loaded  *)
(* as the address says (useGuestbookEntries.ts, entryPaging.ts).  The      *)
(* query library is TanStack Query 5, modelled from how the hook uses it:  *)
(* a fetch is of the next piece, or of all the pieces held from the first, *)
(* and keeps the options it started with.  The reader edits and deletes    *)
(* what is on screen; a change of question is not modelled here.           *)
(***************************************************************************)
EXTENDS GuestbookBook, SequencesExt

CONSTANTS
  STEP,        \* PAGE_STEP: the first piece, and what "Load more" adds
  PIECE_MAX,   \* PAGE_SIZE_MAX: the most one request may ask for
  SHOWN_MAX,   \* the most one address may put on screen
  Phrase,      \* the texts that contain the phrase searched for, or None: no phrase
  Sort,        \* "newest" or "oldest"
  Asked,       \* values of ?shown= in the address the reader arrives at
  Books,       \* tables the reader may find
  MaxChanges,  \* bound: changes of the table
  MaxFaults    \* bound: requests that fail

ASSUME SizesAssumption ==
  /\ {STEP, PIECE_MAX, SHOWN_MAX} \subseteq Nat \ {0}
  /\ STEP <= PIECE_MAX /\ PIECE_MAX <= SHOWN_MAX

ASSUME QuestionAssumption ==
  /\ Phrase = None \/ Phrase \subseteq Text
  /\ Sort \in {"newest", "oldest"}
  /\ Asked \subseteq Nat

ASSUME BooksAssumption ==
  /\ IsFiniteSet(Id)
  /\ Books \subseteq [Id -> {None} \cup Row]

ASSUME BoundsAssumption == {MaxChanges, MaxFaults} \subseteq Nat

VARIABLES
  shown,    \* how many entries the address asks to see
  pages,    \* the pieces in the cache
  fetch,    \* the fetch that is running, or None
  failed,   \* the last fetch was given up: the screen shows an error, not the list
  mine,     \* "sent": a write of this reader's is committed and not yet answered
  stale,    \* history: why the last read of all the pieces may be out of date
  changes,  \* changes of the table so far
  faults    \* failed requests so far

client == <<shown, pages, fetch, failed, mine>>
vars   == <<rows, spent, clock, shown, pages, fetch, failed, mine, stale, changes, faults>>

----------------------------------------------------------------------------
(* The answer: _match and _ordered *)

Hits(id) ==
  /\ Present(id)
  /\ Phrase # None => {rows[id].author, rows[id].message} \cap Phrase # {}

Matches == {id \in Id : Hits(id)}
Entire  == {id \in Id : Present(id)}

\* Mutant of Earlier: ORDER BY created_at alone.
EarlierByDate(i, j) == rows[i].created < rows[j].created

Earlier(i, j) ==
  \/ rows[i].created < rows[j].created
  \/ rows[i].created = rows[j].created /\ i < j

Precedes(i, j) == IF Sort = "oldest" THEN Earlier(i, j) ELSE Earlier(j, i)

\* Every order of S that ORDER BY allows.
Orderings(S) ==
  {s \in SetToSeqs(S) : \A k \in 1..Len(s) : \A m \in 1..k : ~Precedes(s[k], s[m])}

Entry(id) == [id |-> id, row |-> rows[id]]

\* LIMIT and OFFSET of a request.
Cut(s, ask) == SubSeq(s, ask.offset + 1, Min({ask.offset + ask.limit, Len(s)}))

----------------------------------------------------------------------------
(* How much to ask for: entryPaging.ts *)

\* Mutant of ShownFrom: no ceiling.
ShownFromUnclamped(asked) == IF asked < STEP THEN STEP ELSE asked

ShownFrom(asked) == IF asked < STEP THEN STEP ELSE Min({asked, SHOWN_MAX})

FirstPage(n) == [offset |-> 0, limit |-> Min({n, PIECE_MAX})]

\* Mutant of NextPage: all that is missing in one request.
NextPageWhole(count, n) == [offset |-> count, limit |-> IF count < n THEN n - count ELSE STEP]

NextPage(count, n) ==
  [offset |-> count, limit |-> Min({IF count < n THEN n - count ELSE STEP, PIECE_MAX})]

----------------------------------------------------------------------------
(* The pieces held *)

Held(ps)   == FlattenSeq([k \in 1..Len(ps) |-> ps[k].items])
Loaded(ps) == Len(Held(ps))

HasNext(ps) == ps # <<>> /\ Loaded(ps) < Last(ps).total

Restoring == HasNext(pages) /\ Loaded(pages) < shown

\* What a request asks for, a piece that has arrived, a request that may be half way
\* through its statements, and a fetch.
Ask       == [offset : Nat, limit : Nat]
EntrySet  == [id : Id, row : Row]
Piece     == [ask : Ask, all : Nat, total : Nat, items : Seq(EntrySet)]
InFlight  == [ask : Ask, all : {None} \cup Nat, total : {None} \cup Nat,
              items : {None} \cup Seq(EntrySet)]
Fetch     == [request : InFlight, shown : STEP..SHOWN_MAX, fresh : Seq(Piece),
              goal : Nat \ {0}]

ASSUME NoneIsNoFetch == None \notin Fetch

\* A request on its way: no statement of it has run.
Request(ask) == [ask |-> ask, all |-> None, total |-> None, items |-> None]

\* All the pieces held, from the first.  A first fetch asks for one piece.
Whole ==
  [request |-> Request(IF pages = <<>> THEN FirstPage(shown) ELSE pages[1].ask),
   shown |-> shown, fresh |-> <<>>, goal |-> Max({1, Len(pages)})]

\* The piece after those held.
NextPiece ==
  [request |-> Request(NextPage(Loaded(pages), shown)),
   shown |-> shown, fresh |-> pages, goal |-> Len(pages) + 1]

----------------------------------------------------------------------------

Init ==
  /\ rows \in Books
  /\ spent = Entire
  /\ clock = MaxClock
  /\ shown \in {ShownFrom(n) : n \in Asked}
  /\ pages = <<>>
  /\ fetch = Whole
  /\ failed = FALSE
  /\ mine = "none"
  /\ stale = {}
  /\ changes = 0
  /\ faults = 0

ReadAll ==
  /\ fetch' = Whole
  /\ stale' = {}

----------------------------------------------------------------------------
(* list_entries: each statement sees what is committed when it runs. *)

Progress(response) == fetch' = [fetch EXCEPT !.request = response]

CountAll ==
  /\ fetch # None /\ fetch.request.all = None
  /\ Progress([fetch.request EXCEPT !.all = Cardinality(Entire),
                                    !.total = IF Phrase = None THEN Cardinality(Entire) ELSE @])
  /\ UNCHANGED <<bookVars, shown, pages, failed, mine, stale, changes, faults>>

CountMatching ==
  /\ fetch # None /\ fetch.request.all # None /\ fetch.request.total = None
  /\ Progress([fetch.request EXCEPT !.total = Cardinality(Matches)])
  /\ UNCHANGED <<bookVars, shown, pages, failed, mine, stale, changes, faults>>

Select ==
  /\ fetch # None /\ fetch.request.total # None /\ fetch.request.items = None
  /\ \E s \in Orderings(Matches) :
       LET cut == Cut(s, fetch.request.ask)
       IN  Progress([fetch.request EXCEPT !.items = [k \in 1..Len(cut) |-> Entry(cut[k])]])
  /\ UNCHANGED <<bookVars, shown, pages, failed, mine, stale, changes, faults>>

----------------------------------------------------------------------------
(* The infinite query *)

\* A piece arrives.  The fetch goes on to the next one it was to read, with the ?shown=
\* it started with, or puts what it has in the cache.
Deliver ==
  /\ fetch # None /\ fetch.request.items # None
  /\ LET fresh == Append(fetch.fresh, fetch.request)
     IN  IF Len(fresh) < fetch.goal /\ HasNext(fresh)
         THEN /\ fetch' = [fetch EXCEPT !.fresh = fresh,
                             !.request = Request(NextPage(Loaded(fresh), fetch.shown))]
              /\ UNCHANGED <<pages, failed>>
         ELSE /\ pages' = fresh
              /\ fetch' = None
              /\ failed' = FALSE
  /\ UNCHANGED <<bookVars, shown, mine, stale, changes, faults>>

\* Mutant of Fill: the effect is not entered again when a piece lands.
FillOnce ==
  /\ fetch = None /\ Restoring /\ Len(pages) = 1
  /\ fetch' = NextPiece
  /\ UNCHANGED <<bookVars, shown, pages, failed, mine, stale, changes, faults>>

\* The effect that fills the screen up to ?shown=.
Fill ==
  /\ fetch = None /\ Restoring
  /\ fetch' = NextPiece
  /\ UNCHANGED <<bookVars, shown, pages, failed, mine, stale, changes, faults>>

\* A request failed; the retryer sends it again, or gives the fetch up.
Retry ==
  /\ fetch # None /\ faults < MaxFaults
  /\ Progress(Request(fetch.request.ask))
  /\ faults' = faults + 1
  /\ UNCHANGED <<bookVars, shown, pages, failed, mine, stale, changes>>

GiveUp ==
  /\ fetch # None /\ faults < MaxFaults
  /\ fetch' = None
  /\ failed' = TRUE
  /\ stale' = IF fetch.goal = Len(pages) + 1 THEN stale ELSE stale \cup {"gave up"}
  /\ faults' = faults + 1
  /\ UNCHANGED <<bookVars, shown, pages, mine, changes>>

----------------------------------------------------------------------------
(* The reader *)

\* "Load more" writes the address and nothing else.
LoadMore ==
  /\ ~failed /\ HasNext(pages)
  /\ shown' = ShownFrom(Loaded(pages) + STEP)
  /\ UNCHANGED <<bookVars, pages, fetch, failed, mine, stale, changes, faults>>

\* "Try again", under the error.  A running fetch of pieces already held is restarted.
TryAgain ==
  /\ failed
  /\ ReadAll
  /\ failed' = (pages # <<>>)
  /\ UNCHANGED <<bookVars, shown, pages, mine, changes, faults>>

\* A save or a delete of an entry on screen is committed.
OwnWrite ==
  /\ mine = "none" /\ ~failed /\ changes < MaxChanges
  /\ \E entry \in ToSet(Held(pages)), author \in Text, message \in Text :
       Amend(entry.id, author, message, clock) \/ Erase(entry.id)
  /\ mine' = "sent"
  /\ changes' = changes + 1
  /\ UNCHANGED <<shown, pages, fetch, failed, stale, faults>>

\* Its answer arrives, and onSuccess invalidates the list: a running fetch is cancelled
\* and all the pieces are read again.
OwnSuccess ==
  /\ mine = "sent"
  /\ mine' = "none"
  /\ ReadAll
  /\ UNCHANGED <<bookVars, shown, pages, failed, changes, faults>>

\* Its answer is lost: an error is shown and nothing is invalidated.
OwnFailure ==
  /\ mine = "sent" /\ faults < MaxFaults
  /\ mine' = "none"
  /\ stale' = stale \cup {"lost"}
  /\ faults' = faults + 1
  /\ UNCHANGED <<bookVars, shown, pages, fetch, failed, changes>>

\* Somebody else changes the book.
Others ==
  /\ changes < MaxChanges
  /\ BookNext
  /\ changes' = changes + 1
  /\ stale' = stale \cup {"others"}
  /\ UNCHANGED <<client, faults>>

Query == CountAll \/ CountMatching \/ Select \/ Deliver \/ Fill

Next ==
  \/ Query
  \/ Retry
  \/ GiveUp
  \/ LoadMore
  \/ TryAgain
  \/ OwnWrite
  \/ OwnSuccess
  \/ OwnFailure
  \/ Others

Spec == Init /\ [][Next]_vars

\* Requests are served and answers arrive; what the reader and the others do is not owed.
FairSpec == Spec /\ WF_vars(Query) /\ WF_vars(OwnSuccess)

----------------------------------------------------------------------------
(* Properties *)

\* Every variable has its type, ?shown= stays between one piece and its ceiling whatever
\* the address said and however often "Load more" is pressed, and a fetch has a piece
\* left to read for as long as it runs.
TypeOK ==
  /\ BookTypeOK
  /\ shown \in STEP..SHOWN_MAX
  /\ pages \in Seq(Piece)
  /\ fetch \in {None} \cup Fetch
  /\ fetch # None => Len(fetch.fresh) < fetch.goal
  /\ failed \in BOOLEAN
  /\ mine \in {"none", "sent"}
  /\ stale \subseteq {"others", "gave up", "lost"}
  /\ changes \in 0..MaxChanges
  /\ faults \in 0..MaxFaults

\* Restoring an address, loading more and replaying the pieces after a write never send
\* a request the endpoint refuses (spec/design/ui/guestbook.md: "each request inside that
\* cap, none of them a refusal").
EveryRequestIsWithinTheContract ==
  fetch # None => fetch.request.ask.limit \in 1..PIECE_MAX

Settled == fetch = None /\ mine = "none" /\ ~failed

TellsTheBook ==
  \E s \in Orderings(Matches) :
    /\ IsPrefix(Held(pages), [k \in 1..Len(s) |-> Entry(s[k])])
    /\ Last(pages).total = Cardinality(Matches)
    /\ Last(pages).all = Cardinality(Entire)

\* When nothing is on its way and nobody else has written since all the pieces were read,
\* the screen shows exactly the first entries of the answer with both counts right,
\* however many pieces it took and whatever this reader has amended or deleted meanwhile:
\* pieces neither overlap nor leave a gap, and a write of one's own is always read back.
ScreenTellsTheBook == Settled /\ stale = {} => TellsTheBook

\* The screen comes to rest with as many entries as the address asks for, or all there
\* are to its knowledge: filling it neither stops short nor goes on for ever, although
\* the counts move under it, unless the reader presses "Try again" for ever.
ScreenSettles == []<><<TryAgain>>_vars \/ <>[](fetch = None /\ ~Restoring)

\* No entry is on screen twice (spec/design/ui/guestbook.md, "Load more": an entry added
\* or removed while several pieces are on screen cannot duplicate).  Another guest's write
\* invalidates nothing here, and the next piece is cut from an order that has moved.
NothingShownTwice ==
  LET held == Held(pages) IN \A k, m \in 1..Len(held) : held[k].id = held[m].id => k = m
=============================================================================
