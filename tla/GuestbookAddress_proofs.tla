----------------------- MODULE GuestbookAddress_proofs -----------------------
(***************************************************************************)
(* Proofs about GuestbookAddress, for any texts, any normal form that is   *)
(* one, any addresses to arrive by and a history of any length.            *)
(***************************************************************************)
EXTENDS GuestbookAddress, TLAPS

\* The address and what has settled hold phrases in their normal form: only the
\* effect writes a phrase, and it writes what has settled.
AllNormal(h) == \A i \in DOMAIN h : Normal[h[i].search] = h[i].search

\* Between two events the effect has nothing left to do.
AtRest == ~WritesBack(draft, settled, Here)

\* What is in the box came from the address, or was typed since.
BoxOK == draft.text = draft.from \/ (keyed # None /\ draft.text = keyed.text)

IInv == TypeOK /\ AllNormal(history) /\ Normal[settled] = settled /\ AtRest /\ BoxOK

----------------------------------------------------------------------------
(* One render *)

Draft == [text : Raw, from : Raw]

\* A render shows the address it was given and the box of that address, or writes
\* what has settled: only over a phrase the box was seeded from, and only what is
\* in the box.  Either way the next render would write nothing.
LEMMA ShowEffect ==
  ASSUME NEW h \in Seq(Address), NEW i \in DOMAIN h, NEW d \in Draft, NEW s \in Raw,
         AllNormal(h), Normal[s] = s, Show(h, i, d, s)
  PROVE  /\ history' \in Seq(Address) /\ at' \in DOMAIN history' /\ AllNormal(history')
         /\ draft' \in Draft /\ draft'.from = Here'.search
         /\ settled' = s
         /\ AtRest'
         /\ \/ wrote' = None /\ history' = h /\ at' = i /\ draft' = Followed(d, h[i].search)
            \/ /\ wrote' = s /\ s # h[i].search /\ s = Normal[d.text]
               /\ d.from = h[i].search /\ draft' = [text |-> s, from |-> s]
<1> DEFINE box  == Followed(d, h[i].search)
           back == WritesBack(box, s, h[i])
           page == IF back THEN Asking(h[i], s) ELSE h[i]
<1>1. /\ history' = [h EXCEPT ![i] = page] /\ at' = i
      /\ draft' = Followed(box, page.search)
      /\ settled' = s
      /\ wrote' = IF back THEN s ELSE None
  BY DEF Show
<1>2. h[i] \in Address /\ h[i].search \in Raw /\ Normal[h[i].search] = h[i].search
  <2>1. h[i] \in Address
    OBVIOUS
  <2> QED
    BY <2>1 DEF Address, AllNormal
<1>3. box \in Draft /\ box.from = h[i].search
  BY <1>2 DEF Followed, Draft
<1>4. page \in Address /\ page.search = IF back THEN s ELSE h[i].search
  BY <1>2 DEF Asking, Address
<1> HIDE DEF page, box
<1>5. /\ history' \in Seq(Address) /\ DOMAIN history' = DOMAIN h
      /\ history'[i] = page /\ \A j \in DOMAIN h : j # i => history'[j] = h[j]
  BY <1>1, <1>4
<1>6. Here' = page
  BY <1>1, <1>5 DEF Here
<1>7. CASE ~back
  <2>1. page = h[i] /\ wrote' = None
    BY <1>1, <1>7 DEF page
  <2>2. history' = h
    BY <1>1, <2>1
  <2>3. draft' = box
    BY <1>1, <1>3, <2>1 DEF Followed
  <2>4. AtRest'
    BY <1>1, <1>6, <1>7, <2>1, <2>3 DEF AtRest, WritesBack
  <2> QED
    BY <1>1, <1>3, <1>6, <2>1, <2>2, <2>3, <2>4 DEF box
<1>8. CASE back
  <2>1. s # h[i].search /\ s = Normal[box.text]
    BY <1>8 DEF WritesBack
  <2>2. d.from = h[i].search /\ box = d
    BY <1>2, <2>1 DEF box, Followed
  <2>3. draft' = [text |-> s, from |-> s] /\ page.search = s
    BY <1>1, <1>3, <1>4, <1>8, <2>1 DEF Followed
  <2>4. AllNormal(history')
    BY <1>5, <2>3 DEF AllNormal
  <2>5. AtRest'
    BY <1>1, <1>6, <2>3 DEF AtRest, WritesBack
  <2> QED
    BY <1>1, <1>5, <1>6, <1>8, <2>1, <2>2, <2>3, <2>4, <2>5 DEF Draft
<1> QED
  BY <1>7, <1>8

\* A render from a state with nothing left to do, of an address with the same
\* phrase, writes nothing.
LEMMA SamePhraseIsStill ==
  ASSUME IInv, NEW h \in Seq(Address), NEW i \in DOMAIN h, AllNormal(h),
         h[i].search = Here.search, Show(h, i, draft, settled)
  PROVE  wrote' = None /\ history' = h /\ at' = i /\ draft' = draft
<1>1. draft \in Draft /\ draft.from = h[i].search /\ settled \in Raw
  BY DEF IInv, TypeOK, Draft
<1>2. Followed(draft, h[i].search) = draft
  BY <1>1 DEF Followed
<1>3. ~WritesBack(draft, settled, h[i])
  BY DEF IInv, AtRest, WritesBack
<1> QED
  BY <1>1, <1>2, <1>3, ShowEffect DEF IInv, WritesBack

\* What is left to show of a render: the history variable and the box.
LEMMA ShowKeepsIInv ==
  ASSUME NEW h \in Seq(Address), NEW i \in DOMAIN h, NEW d \in Draft, NEW s \in Raw,
         AllNormal(h), Normal[s] = s, Show(h, i, d, s),
         posting' \in BOOLEAN, keyed' \in [text : Raw, moved : BOOLEAN] \cup {None}, BoxOK'
  PROVE  IInv'
<1>1. /\ history' \in Seq(Address) /\ at' \in DOMAIN history' /\ AllNormal(history')
      /\ draft' \in Draft /\ draft'.from = Here'.search /\ settled' = s /\ AtRest'
      /\ wrote' = None \/ wrote' = s
  BY ShowEffect
<1>2. TypeOK'
  BY <1>1 DEF TypeOK, Draft
<1> QED
  BY <1>1, <1>2 DEF IInv

\* What was typed is told apart from nothing having been typed.
LEMMA KeyedIsSome ==
  ASSUME NEW t \in Raw, NEW moved \in BOOLEAN
  PROVE  /\ [text |-> t, moved |-> moved] \in [text : Raw, moved : BOOLEAN]
         /\ [text |-> t, moved |-> moved] # None
<1> DEFINE k == [text |-> t, moved |-> moved]
<1>1. k \in [text : Raw, moved : BOOLEAN]
  OBVIOUS
<1> HIDE DEF k
<1>2. k # None
  BY <1>1, NoneAssumption
<1> QED
  BY <1>1, <1>2 DEF k

\* A navigation shows what it goes to: what settled before it is not written.
LEMMA NavigationEffect ==
  ASSUME IInv, NEW h \in Seq(Address), NEW i \in DOMAIN h, AllNormal(h), GoTo(h, i),
         posting' \in BOOLEAN
  PROVE  wrote' = None /\ history' = h /\ at' = i /\ IInv'
<1>1. Show(h, i, draft, settled) /\ keyed' = Overtaken(h[i])
  BY DEF GoTo
<1>2. draft \in Draft /\ settled \in Raw /\ Normal[settled] = settled
  BY DEF IInv, TypeOK, Draft
<1>3. keyed \in [text : Raw, moved : BOOLEAN] \cup {None} /\ draft.from = Here.search /\ BoxOK
  BY DEF IInv, TypeOK
<1>4. keyed' \in [text : Raw, moved : BOOLEAN] \cup {None}
  BY <1>1, <1>3 DEF Overtaken
<1>5. CASE h[i].search = Here.search
  <2>1. wrote' = None /\ history' = h /\ at' = i /\ draft' = draft
    BY <1>1, <1>5, SamePhraseIsStill
  <2>2. keyed # None => keyed' = [text |-> keyed.text, moved |-> TRUE]
    BY <1>1, <1>5 DEF Overtaken
  <2>3. keyed # None => [text |-> keyed.text, moved |-> TRUE] # None
    <3>1. keyed # None => keyed.text \in Raw
      BY <1>3
    <3> QED
      BY <3>1, KeyedIsSome
  <2>4. BoxOK'
    BY <1>3, <2>1, <2>2, <2>3 DEF BoxOK
  <2> QED
    BY <1>1, <1>2, <1>4, <2>1, <2>4, ShowKeepsIInv
<1>6. CASE h[i].search # Here.search
  <2>1. draft.from # h[i].search
    BY <1>3, <1>6
  <2>2. wrote' = None /\ history' = h /\ at' = i /\ draft' = Followed(draft, h[i].search)
    BY <1>1, <1>2, <2>1, ShowEffect
  <2>3. BoxOK'
    BY <2>1, <2>2 DEF Followed, BoxOK
  <2> QED
    BY <1>1, <1>2, <1>4, <2>2, <2>3, ShowKeepsIInv
<1> QED
  BY <1>5, <1>6

----------------------------------------------------------------------------
(* The invariant *)

\* The first render leaves nothing to do.
LEMMA InitIInv == Init => IInv
<1> SUFFICES ASSUME Init PROVE IInv
  OBVIOUS
<1>1. PICK l \in Links : /\ history = <<Mounted(l)>>
                         /\ draft   = [text |-> Normal[l.search], from |-> Normal[l.search]]
                         /\ settled = Normal[l.search]
  BY DEF Init
<1>2. l \in Address
  BY LinksAssumption
<1>3. l.search \in Raw /\ Normal[l.search] \in Raw /\ Normal[Normal[l.search]] = Normal[l.search]
  BY <1>2, NormalAssumption DEF Address
<1>4. Mounted(l) \in Address /\ Mounted(l).search = Normal[l.search]
  BY <1>2, <1>3 DEF Mounted, Asking, Address
<1>5. at = 1 /\ posting = FALSE /\ keyed = None /\ wrote = None
  BY DEF Init
<1>6. history \in Seq(Address) /\ DOMAIN history = {1} /\ history[1] = Mounted(l)
  BY <1>1, <1>4
<1>7. Here.search = Normal[l.search]
  BY <1>4, <1>5, <1>6 DEF Here
<1>8. TypeOK
  BY <1>1, <1>3, <1>5, <1>6, <1>7 DEF TypeOK
<1>9. AllNormal(history) /\ AtRest /\ BoxOK
  BY <1>1, <1>3, <1>4, <1>6, <1>7 DEF AllNormal, AtRest, WritesBack, BoxOK
<1> QED
  BY <1>1, <1>3, <1>8, <1>9 DEF IInv

\* A control that replaces the address at its phrase leaves the box alone.
LEMMA ReplacedEffect ==
  ASSUME IInv, NEW address \in Address, address.search = Here.search
  PROVE  /\ Replaced(address) \in Seq(Address) /\ at \in DOMAIN Replaced(address)
         /\ Replaced(address)[at] = address /\ AllNormal(Replaced(address))
<1>1. history \in Seq(Address) /\ at \in DOMAIN history /\ AllNormal(history)
  BY DEF IInv, TypeOK
<1>2. /\ Replaced(address) \in Seq(Address) /\ DOMAIN Replaced(address) = DOMAIN history
      /\ Replaced(address)[at] = address
      /\ \A j \in DOMAIN history : j # at => Replaced(address)[j] = history[j]
  BY <1>1 DEF Replaced
<1> QED
  BY <1>1, <1>2 DEF AllNormal, Here

\* The controls beside the box: another order, or more entries.
LEMMA ControlEffect ==
  ASSUME IInv, NEW address \in Address, address.search = Here.search,
         Show(Replaced(address), at, draft, settled), UNCHANGED <<posting, keyed>>
  PROVE  wrote' = None /\ IInv'
<1>1. /\ Replaced(address) \in Seq(Address) /\ at \in DOMAIN Replaced(address)
      /\ Replaced(address)[at] = address /\ AllNormal(Replaced(address))
  BY ReplacedEffect
<1>2. wrote' = None /\ draft' = draft
  BY <1>1, SamePhraseIsStill
<1>3. draft \in Draft /\ settled \in Raw /\ Normal[settled] = settled /\ BoxOK
  BY DEF IInv, TypeOK, Draft
<1>4. posting' \in BOOLEAN /\ keyed' \in [text : Raw, moved : BOOLEAN] \cup {None}
  BY DEF IInv, TypeOK
<1>5. BoxOK'
  BY <1>2, <1>3 DEF BoxOK
<1> QED
  BY <1>1, <1>2, <1>3, <1>4, <1>5, ShowKeepsIInv

\* A keystroke: the box holds what was typed, and only that may be written.
LEMMA TypeEffect ==
  ASSUME IInv, NEW t \in Raw, Type(t)
  PROVE  IInv' /\ keyed' # None /\ (wrote' # None => wrote' = Normal[keyed'.text])
<1> DEFINE d == [text |-> t, from |-> Here.search]
<1>1. Show(history, at, d, settled) /\ keyed' = [text |-> t, moved |-> FALSE] /\ posting' = posting
  BY DEF Type
<1>2. /\ history \in Seq(Address) /\ at \in DOMAIN history /\ AllNormal(history)
      /\ settled \in Raw /\ Normal[settled] = settled /\ posting \in BOOLEAN
      /\ draft \in [text : Raw, from : Raw] /\ draft.from = Here.search
  BY DEF IInv, TypeOK
<1>3. d \in Draft /\ d.text = t /\ d.from = history[at].search
  BY <1>2 DEF Draft, Here
<1>4. keyed' \in [text : Raw, moved : BOOLEAN] /\ keyed' # None /\ keyed'.text = t
  BY <1>1, KeyedIsSome
<1> HIDE DEF d
<1>5. \/ wrote' = None /\ draft' = Followed(d, history[at].search)
      \/ wrote' = settled /\ settled = Normal[d.text] /\ draft' = [text |-> settled, from |-> settled]
  BY <1>1, <1>2, <1>3, ShowEffect
<1>6. BoxOK'
  BY <1>3, <1>4, <1>5 DEF BoxOK, Followed
<1>7. IInv'
  BY <1>1, <1>2, <1>3, <1>4, <1>6, ShowKeepsIInv
<1> QED
  BY <1>3, <1>4, <1>5, <1>7

\* The pause ends: what is in the box, if anything is new in it, was typed.
LEMMA SettleEffect ==
  ASSUME IInv, Settle
  PROVE  IInv' /\ (wrote' # None => keyed' # None /\ wrote' = Normal[keyed'.text])
<1> DEFINE s == Normal[draft.text]
<1>1. Show(history, at, draft, s) /\ UNCHANGED <<posting, keyed>>
  BY DEF Settle
<1>2. /\ history \in Seq(Address) /\ at \in DOMAIN history /\ AllNormal(history)
      /\ posting \in BOOLEAN /\ keyed \in [text : Raw, moved : BOOLEAN] \cup {None}
      /\ draft \in Draft /\ draft.text \in Raw /\ draft.from = history[at].search /\ BoxOK
  BY DEF IInv, TypeOK, Draft, Here
<1>3. s \in Raw /\ Normal[s] = s
  BY <1>2, NormalAssumption
<1>4. Normal[draft.from] = draft.from
  BY <1>2 DEF AllNormal
<1>5. draft.text = draft.from => s = history[at].search
  BY <1>2, <1>4
<1> HIDE DEF s
<1>6. \/ wrote' = None /\ draft' = Followed(draft, history[at].search)
      \/ wrote' = s /\ s # history[at].search /\ draft' = [text |-> s, from |-> s]
  BY <1>1, <1>2, <1>3, ShowEffect
<1>7. BoxOK'
  BY <1>1, <1>2, <1>6 DEF BoxOK, Followed
<1>8. IInv'
  BY <1>1, <1>2, <1>3, <1>7, ShowKeepsIInv
<1>9. wrote' # None => keyed' # None /\ wrote' = Normal[keyed'.text]
  BY <1>1, <1>2, <1>5, <1>6 DEF BoxOK, s
<1> QED
  BY <1>8, <1>9

\* The address of the link and of the jump after a post is one.
LEMMA RouteIsAddress ==
  GUESTBOOK_ROUTE \in Address /\ Normal[GUESTBOOK_ROUTE.search] = GUESTBOOK_ROUTE.search
BY EmptyAssumption, NormalAssumption DEF GUESTBOOK_ROUTE, Address

\* The link in the frame, and what is on screen after it.
LEMMA HomeEffect ==
  ASSUME IInv, Home
  PROVE  wrote' = None /\ history'[at'] = GUESTBOOK_ROUTE /\ IInv'
<1>1. /\ history \in Seq(Address) /\ at \in DOMAIN history /\ AllNormal(history)
      /\ posting' \in BOOLEAN
  BY DEF IInv, TypeOK, Home
<1>2. CASE Here = GUESTBOOK_ROUTE
  BY <1>1, <1>2, NavigationEffect DEF Home, Here
<1>3. CASE Here # GUESTBOOK_ROUTE
  <2> DEFINE h == Append(SubSeq(history, 1, at), GUESTBOOK_ROUTE)
  <2>1. GoTo(h, at + 1)
    BY <1>3 DEF Home
  <2>2. at \in Nat /\ 1 <= at /\ at <= Len(history)
    BY <1>1
  <2>3. /\ SubSeq(history, 1, at) \in Seq(Address) /\ Len(SubSeq(history, 1, at)) = at
        /\ \A j \in 1 .. at : SubSeq(history, 1, at)[j] = history[j]
    BY <1>1, <2>2
  <2>4. /\ h \in Seq(Address) /\ DOMAIN h = 1 .. at + 1 /\ h[at + 1] = GUESTBOOK_ROUTE
        /\ \A j \in 1 .. at : h[j] = history[j]
    BY <2>2, <2>3, RouteIsAddress
  <2>5. AllNormal(h)
    BY <1>1, <2>2, <2>4, RouteIsAddress DEF AllNormal
  <2> HIDE DEF h
  <2> QED
    BY <1>1, <2>1, <2>2, <2>4, <2>5, NavigationEffect
<1> QED
  BY <1>2, <1>3

\* The jump after a post.
LEMMA PostedEffect ==
  ASSUME IInv, Posted
  PROVE  wrote' = None /\ history'[at'] = GUESTBOOK_ROUTE /\ IInv'
<1>1. /\ history \in Seq(Address) /\ at \in DOMAIN history /\ AllNormal(history)
      /\ posting' \in BOOLEAN
  BY DEF IInv, TypeOK, Posted
<1> DEFINE h == Replaced(GUESTBOOK_ROUTE)
<1>2. GoTo(h, at)
  BY DEF Posted
<1>3. /\ h \in Seq(Address) /\ DOMAIN h = DOMAIN history /\ h[at] = GUESTBOOK_ROUTE
      /\ \A j \in DOMAIN history : j # at => h[j] = history[j]
  BY <1>1, RouteIsAddress DEF Replaced
<1>4. AllNormal(h)
  BY <1>1, <1>3, RouteIsAddress DEF AllNormal
<1> HIDE DEF h
<1> QED
  BY <1>1, <1>2, <1>3, <1>4, NavigationEffect

\* Every step keeps the invariant, and one that writes the address writes what is
\* keyed.
LEMMA NextEffect ==
  ASSUME IInv, Next
  PROVE  IInv' /\ (wrote' # None => keyed' # None /\ wrote' = Normal[keyed'.text])
<1>1. /\ history \in Seq(Address) /\ at \in DOMAIN history /\ AllNormal(history)
      /\ posting \in BOOLEAN /\ Here \in Address /\ Normal[Here.search] = Here.search
      /\ Here.search \in Raw
  <2>1. history \in Seq(Address) /\ at \in DOMAIN history /\ AllNormal(history) /\ posting \in BOOLEAN
    BY DEF IInv, TypeOK
  <2>2. Here \in Address
    BY <2>1 DEF Here
  <2> QED
    BY <2>1, <2>2 DEF AllNormal, Here, Address
<1>2. CASE \E t \in Raw : Type(t)
  BY <1>2, TypeEffect
<1>3. CASE Settle
  BY <1>3, SettleEffect
<1>4. CASE \E order \in {"newest", "oldest"} : SortBy(order)
  <2>1. PICK order \in {"newest", "oldest"} : SortBy(order)
    BY <1>4
  <2>2. /\ [Here EXCEPT !.sort = order, !.shown = "step"] \in Address
        /\ [Here EXCEPT !.sort = order, !.shown = "step"].search = Here.search
    BY <1>1 DEF Address
  <2> QED
    BY <2>1, <2>2, ControlEffect DEF SortBy
<1>5. CASE LoadMore
  <2>1. /\ [Here EXCEPT !.shown = "more"] \in Address
        /\ [Here EXCEPT !.shown = "more"].search = Here.search
    BY <1>1 DEF Address
  <2> QED
    BY <1>5, <2>1, ControlEffect DEF LoadMore
<1>6. CASE Home
  BY <1>6, HomeEffect
<1>7. CASE Back
  <2>1. GoTo(history, at - 1) /\ at - 1 \in DOMAIN history /\ posting' = posting
    BY <1>1, <1>7 DEF Back
  <2> QED
    BY <1>1, <2>1, NavigationEffect
<1>8. CASE Forward
  <2>1. GoTo(history, at + 1) /\ at + 1 \in DOMAIN history /\ posting' = posting
    BY <1>1, <1>8 DEF Forward
  <2> QED
    BY <1>1, <2>1, NavigationEffect
<1>9. CASE Reload
  <2>1. history' = history /\ at' = at /\ Here' = Here
    BY <1>9 DEF Reload, Here
  <2>2. /\ draft' = [text |-> Here.search, from |-> Here.search] /\ settled' = Here.search
        /\ posting' = FALSE /\ keyed' = None /\ wrote' = None
    BY <1>9 DEF Reload
  <2>3. TypeOK'
    BY <1>1, <2>1, <2>2 DEF TypeOK
  <2>4. AllNormal(history)' /\ AtRest' /\ BoxOK'
    BY <1>1, <2>1, <2>2 DEF AllNormal, AtRest, WritesBack, BoxOK
  <2> QED
    BY <1>1, <2>2, <2>3, <2>4 DEF IInv
<1>10. CASE Post \/ PostFailed
  <2>1. UNCHANGED <<history, at, draft, settled, keyed>> /\ posting' \in BOOLEAN /\ wrote' = None
    BY <1>10 DEF Post, PostFailed
  <2>2. TypeOK'
    BY <2>1 DEF IInv, TypeOK, Here
  <2>3. AllNormal(history)' /\ AtRest' /\ BoxOK' /\ Normal[settled'] = settled'
    BY <2>1 DEF IInv, AllNormal, AtRest, WritesBack, BoxOK, Here
  <2> QED
    BY <2>1, <2>2, <2>3 DEF IInv
<1>11. CASE Posted
  BY <1>11, PostedEffect
<1> QED
  BY <1>2, <1>3, <1>4, <1>5, <1>6, <1>7, <1>8, <1>9, <1>10, <1>11 DEF Next, Reader

THEOREM Invariant == Spec => []IInv
<1>1. Init => IInv
  BY InitIInv
<1>2. IInv /\ [Next]_vars => IInv'
  <2> SUFFICES ASSUME IInv, [Next]_vars PROVE IInv'
    OBVIOUS
  <2>1. CASE Next
    BY <2>1, NextEffect
  <2>2. CASE UNCHANGED vars
    BY <2>2 DEF vars, IInv, TypeOK, AllNormal, AtRest, WritesBack, BoxOK, Here
  <2> QED
    BY <2>1, <2>2
<1> QED
  BY <1>1, <1>2, PTL DEF Spec

----------------------------------------------------------------------------
(* The properties *)

\* The screen is at an address of the history, and what is in the box was seeded
\* from the phrase of that address and no other.
THEOREM TypeCorrect == Spec => []TypeOK
<1>1. IInv => TypeOK
  BY DEF IInv
<1> QED
  BY <1>1, Invariant, PTL

\* The effect writes only what was typed since a navigation last changed the phrase.
THEOREM LatePhrasesAreCancelled == Spec => LatePhraseIsCancelled
<1>1. IInv /\ [Next]_vars =>
        [wrote' # None => keyed' # None /\ wrote' = Normal[keyed'.text]]_vars
  BY NextEffect
<1> QED
  BY <1>1, Invariant, PTL DEF Spec, LatePhraseIsCancelled

\* A navigation reaches the screen as it stands, whatever waits or has settled.
THEOREM NavigationsStand == Spec => AddressWins
<1>1. IInv /\ [Next]_vars =>
        [/\ Back \/ Forward => history' = history
         /\ Home \/ Posted => history'[at'] = GUESTBOOK_ROUTE]_vars
  <2> SUFFICES ASSUME IInv
               PROVE  /\ Back \/ Forward => history' = history
                      /\ Home \/ Posted => history'[at'] = GUESTBOOK_ROUTE
    OBVIOUS
  <2>1. /\ history \in Seq(Address) /\ at \in DOMAIN history /\ AllNormal(history)
        /\ posting \in BOOLEAN
    BY DEF IInv, TypeOK
  <2>2. ASSUME Back PROVE history' = history
    <3>1. GoTo(history, at - 1) /\ at - 1 \in DOMAIN history /\ posting' = posting
      BY <2>1, <2>2 DEF Back
    <3> QED
      BY <2>1, <3>1, NavigationEffect
  <2>3. ASSUME Forward PROVE history' = history
    <3>1. GoTo(history, at + 1) /\ at + 1 \in DOMAIN history /\ posting' = posting
      BY <2>1, <2>3 DEF Forward
    <3> QED
      BY <2>1, <3>1, NavigationEffect
  <2> QED
    BY <2>2, <2>3, HomeEffect, PostedEffect
<1> QED
  BY <1>1, Invariant, PTL DEF Spec, AddressWins
=============================================================================
