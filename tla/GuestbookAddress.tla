-------------------------- MODULE GuestbookAddress --------------------------
(***************************************************************************)
(* The question the screen asks, kept in the address, and the search box   *)
(* beside it: useEntryQueryParams.ts and useDebouncedValue.ts, with the    *)
(* controls of GuestbookPage.tsx that write the address and the jump after *)
(* a successful post.  A step is an event and everything it makes React    *)
(* render, the effects of that render included.  The pause of 250 ms is    *)
(* not timed: it ends at some moment after the typing stops.               *)
(***************************************************************************)
EXTENDS Naturals, Sequences

CONSTANTS
  Raw,         \* the texts a box or ?q= may hold, as they were typed
  Empty,       \* the empty one: no phrase
  None,        \* no text
  Normal,      \* normalizeText, as a function
  Links,       \* the addresses the reader may arrive by
  MaxHistory   \* bound: entries of the browser's history

Address == [search : Raw, sort : {"newest", "oldest"}, shown : {"step", "more"}]

ASSUME EmptyAssumption  == Empty \in Raw
ASSUME NormalAssumption ==
  /\ Normal \in [Raw -> Raw]
  /\ \A t \in Raw : Normal[Normal[t]] = Normal[t]
  /\ Normal[Empty] = Empty
ASSUME NoneAssumption    == None \notin Raw /\ None \notin [text : Raw, moved : BOOLEAN]
ASSUME LinksAssumption   == Links \subseteq Address
ASSUME HistoryAssumption == MaxHistory \in Nat \ {0}

VARIABLES
  history,   \* the addresses Back and Forward move between
  at,        \* the one the screen is at
  draft,     \* what is in the box, and the ?q= it was seeded from
  settled,   \* what the debounced value last settled on
  posting,   \* a new entry is on its way
  keyed,     \* history: what was typed since the phrase last changed by a navigation,
             \* and whether a navigation to the same phrase came after it
  wrote      \* history: the phrase the effect has put in the address in this step

vars == <<history, at, draft, settled, posting, keyed, wrote>>

Here == history[at]

GUESTBOOK_ROUTE == [search |-> Empty, sort |-> "newest", shown |-> "step"]

----------------------------------------------------------------------------
(* One render *)

\* Mutant of Followed: the box keeps what it held.
FollowedNever(d, search) == d

\* The box follows an address it was not seeded from.
Followed(d, search) == IF d.from = search THEN d ELSE [text |-> search, from |-> search]

\* Narrowing starts the page over.
Asking(address, phrase) == [address EXCEPT !.search = phrase, !.shown = "step"]

\* Mutant of WritesBack: the value that survives a cleared timer is written.
WritesWhatSettled(d, s, address) == s # address.search

\* Mutant of WritesBack: compared with the box as it was typed.
WritesUntrimmed(d, s, address) == s # address.search /\ s = d.text

\* The effect writes only what has settled and is still in the box.
WritesBack(d, s, address) == s # address.search /\ s = Normal[d.text]

\* The screen at h[i], with d in the box and s settled.
Show(h, i, d, s) ==
  LET box  == Followed(d, h[i].search)
      back == WritesBack(box, s, h[i])
      page == IF back THEN Asking(h[i], s) ELSE h[i]
  IN  /\ history' = [h EXCEPT ![i] = page]
      /\ at' = i
      /\ draft' = Followed(box, page.search)
      /\ settled' = s
      /\ wrote' = IF back THEN s ELSE None

\* A phrase that is not in its normal form is rewritten by the first render.
Mounted(address) ==
  IF Normal[address.search] = address.search
    THEN address ELSE Asking(address, Normal[address.search])

Init ==
  /\ \E l \in Links :
       /\ history = <<Mounted(l)>>
       /\ draft   = [text |-> Normal[l.search], from |-> Normal[l.search]]
       /\ settled = Normal[l.search]
  /\ at = 1
  /\ posting = FALSE
  /\ keyed = None
  /\ wrote = None

----------------------------------------------------------------------------
(* The reader's own controls: each replaces the address. *)

Replaced(address) == [history EXCEPT ![at] = address]

Type(t) ==
  /\ t # draft.text
  /\ Show(history, at, [text |-> t, from |-> Here.search], settled)
  /\ keyed' = [text |-> t, moved |-> FALSE]
  /\ UNCHANGED posting

\* The pause ends: a timer runs as long as what has settled is not what is in the box.
Settle ==
  /\ settled # Normal[draft.text]
  /\ Show(history, at, draft, Normal[draft.text])
  /\ UNCHANGED <<posting, keyed>>

SortBy(order) ==
  /\ Show(Replaced([Here EXCEPT !.sort = order, !.shown = "step"]), at, draft, settled)
  /\ UNCHANGED <<posting, keyed>>

LoadMore ==
  /\ Show(Replaced([Here EXCEPT !.shown = "more"]), at, draft, settled)
  /\ UNCHANGED <<posting, keyed>>

----------------------------------------------------------------------------
(* Navigations *)

\* What was typed before a navigation.
Overtaken(address) ==
  IF keyed = None \/ address.search # Here.search THEN None
  ELSE [text |-> keyed.text, moved |-> TRUE]

GoTo(h, i) ==
  /\ Show(h, i, draft, settled)
  /\ keyed' = Overtaken(h[i])

\* The link in the frame; to the address one is at, it replaces.
Home ==
  /\ IF Here = GUESTBOOK_ROUTE THEN GoTo(history, at)
     ELSE /\ at < MaxHistory
          /\ GoTo(Append(SubSeq(history, 1, at), GUESTBOOK_ROUTE), at + 1)
  /\ UNCHANGED posting

Back ==
  /\ at > 1
  /\ GoTo(history, at - 1)
  /\ UNCHANGED posting

Forward ==
  /\ at < Len(history)
  /\ GoTo(history, at + 1)
  /\ UNCHANGED posting

\* The page is loaded anew from the address, and what was in it is gone.
Reload ==
  /\ draft' = [text |-> Here.search, from |-> Here.search]
  /\ settled' = Here.search
  /\ posting' = FALSE
  /\ keyed' = None /\ wrote' = None
  /\ UNCHANGED <<history, at>>

Post ==
  /\ ~posting
  /\ posting' = TRUE
  /\ wrote' = None
  /\ UNCHANGED <<history, at, draft, settled, keyed>>

\* handleCreate's onSuccess: the entry just written is at the top of the whole book.
Posted ==
  /\ posting
  /\ posting' = FALSE
  /\ GoTo(Replaced(GUESTBOOK_ROUTE), at)

PostFailed ==
  /\ posting
  /\ posting' = FALSE
  /\ wrote' = None
  /\ UNCHANGED <<history, at, draft, settled, keyed>>

----------------------------------------------------------------------------

Reader ==
  \/ \E t \in Raw : Type(t)
  \/ \E order \in {"newest", "oldest"} : SortBy(order)
  \/ LoadMore \/ Home \/ Back \/ Forward \/ Reload \/ Post

Next == Reader \/ Settle \/ Posted \/ PostFailed

Spec == Init /\ [][Next]_vars

\* A timer that nobody clears fires.
FairSpec == Spec /\ WF_vars(Settle)

----------------------------------------------------------------------------
(* Properties *)

\* The state has its shape, and the box was seeded from the phrase the address has: no
\* draft is ever an edit of an address other than the one on screen.
TypeOK ==
  /\ history \in Seq(Address) /\ at \in DOMAIN history
  /\ draft \in [text : Raw, from : Raw] /\ draft.from = Here.search
  /\ settled \in Raw
  /\ posting \in BOOLEAN
  /\ keyed \in [text : Raw, moved : BOOLEAN] \cup {None}
  /\ wrote \in Raw \cup {None}

\* A phrase still waiting out its pause when a navigation changes the phrase is never
\* written, whatever settles afterwards and whatever the box is made to hold again: what
\* the effect writes was typed since (useEntryQueryParams.ts, "the address wins").
LatePhraseIsCancelled ==
  [][wrote' # None => keyed' # None /\ wrote' = Normal[keyed'.text]]_vars

\* The address wins: a navigation that arrives while a phrase waits out its pause, or after
\* another one has settled, reaches the screen as it stands, its paging included, and Back
\* does not lose what it went back to (useEntryQueryParams.ts, "and Back looked broken").
AddressWins ==
  [][/\ Back \/ Forward => history' = history
     /\ Home \/ Posted => history'[at'] = GUESTBOOK_ROUTE]_vars

\* Once the reader leaves the box and the address alone, the address asks for what is in
\* the box: no phrase waits for ever, and box and address do not overwrite each other in
\* turns.
AddressCatchesUp ==
  []<><<Reader \/ Posted>>_vars \/ <>[](Here.search = Normal[draft.text])

\* Only typing that happened after the last navigation may write back
\* (spec/design/ui/guestbook.md and useEntryQueryParams.ts).  A navigation to an address
\* with the same phrase leaves the draft, and its pause ends as if nothing had happened.
OnlyLaterTypingWrites == [][wrote' # None => ~keyed'.moved]_vars

\* The box echoes every keystroke (useEntryQueryParams.ts) until a navigation reseeds it.
\* The effect's own write counts as one: nothing notes in the draft that it was written.
BoxKeepsWhatWasTyped == [][Settle => draft'.text = draft.text]_vars
=============================================================================
