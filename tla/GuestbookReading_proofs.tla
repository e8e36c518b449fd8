---------------------- MODULE GuestbookReading_proofs ----------------------
(***************************************************************************)
(* Theorems about GuestbookReading: its types, the size of every request,  *)
(* and that a screen at rest shows the answer.                             *)
(*                                                                         *)
(* The argument has three parts.  The order of the list leaves no choice:  *)
(* rows of one moment are told apart by their identifiers, so there is one *)
(* answer, however the database sorts (OneAnswer).  The entries held are   *)
(* the pieces put together, and grow by exactly what is appended           *)
(* (HeldAppend).  And a request always starts where the entries read       *)
(* before it end (RequestInv), so that while the book stands still every   *)
(* piece continues a prefix of the one answer (BookInv).                   *)
(***************************************************************************)
EXTENDS GuestbookReading, FiniteSetTheorems, SequenceTheorems, WellFoundedInduction, TLAPS

-----------------------------------------------------------------------------
(* Numbers and sequences.                                                  *)

\* A set of naturals that is not empty has a least element.

LEMMA Least ==
  ASSUME NEW T \in SUBSET Nat, T # {}
  PROVE  \E x \in T : \A y \in T : x <= y
<1>. DEFINE R == OpToRel(<, Nat)
<1>1. PICK x \in T : \A y \in T : ~ (<<y, x>> \in R)
  <2>1. IsWellFoundedOn(R, Nat) BY NatLessThanWellFounded
  <2>. HIDE DEF R
  <2>. QED BY <2>1, WFMin
<1>2. \A y \in T : (y < x) => <<y, x>> \in R BY DEF OpToRel
<1>. HIDE DEF R
<1>3. \A y \in T : ~ (y < x) BY <1>1, <1>2
<1>4. \A y \in T : y \in Nat /\ x \in Nat OBVIOUS
<1>. QED BY <1>3, <1>4

-----------------------------------------------------------------------------
\* f is q put together as far as n.
Joins(f, q, n) == \A i \in 1..n : f[i] = IF i = 1 THEN q[i] ELSE f[i - 1] \o q[i]

LEMMA MaxOf ==
  ASSUME NEW a \in Nat, NEW b \in Nat
  PROVE  Max({a, b}) = IF a <= b THEN b ELSE a
  BY DEF Max

LEMMA MinOf ==
  ASSUME NEW a \in Nat, NEW b \in Nat
  PROVE  Min({a, b}) = IF a <= b THEN a ELSE b
  BY DEF Min

LEMMA JoinsExist ==
  ASSUME NEW S, NEW q \in Seq(Seq(S)), NEW n \in 1..Len(q)
  PROVE  \E f \in [1..n -> Seq(S)] : Joins(f, q, n)
<1>1. Len(q) \in Nat /\ \A i \in 1..Len(q) : q[i] \in Seq(S)
  BY LenProperties, ElementOfSeq
<1>. DEFINE Bad == {k \in 1..Len(q) : ~ \E f \in [1..k -> Seq(S)] : Joins(f, q, k)}
<1>2. SUFFICES ASSUME Bad # {} PROVE FALSE
  <2>1. n \notin Bad => \E f \in [1..n -> Seq(S)] : Joins(f, q, n) BY <1>1
  <2>. QED BY <2>1
<1>4. PICK k \in Bad : \A m \in Bad : k <= m
  <2>1. Bad \in SUBSET Nat OBVIOUS
  <2>. HIDE DEF Bad
  <2>. QED BY <2>1, <1>2, Least
<1>5. CASE k = 1
  <2>. DEFINE g == [i \in 1..1 |-> q[1]]
  <2>1. q[1] \in Seq(S) BY <1>1, <1>5
  <2>2. g \in [1..1 -> Seq(S)] BY <2>1
  <2>3. Joins(g, q, 1)
    <3>1. \A i \in 1..1 : i = 1 OBVIOUS
    <3>2. g[1] = q[1] OBVIOUS
    <3>. HIDE DEF g
    <3>. QED BY <3>1, <3>2 DEF Joins
  <2>. HIDE DEF g
  <2>. QED BY <1>5, <2>2, <2>3
<1>6. CASE k # 1
  <2>0. k \in 1..Len(q) /\ Len(q) \in Nat BY <1>1
  <2>1. k - 1 \in 1..Len(q) BY <1>6, <2>0
  <2>a. k - 1 \notin Bad
    <3>. HIDE DEF Bad
    <3>. QED BY <1>4, <2>0
  <2>2. PICK f \in [1..(k - 1) -> Seq(S)] : Joins(f, q, k - 1) BY <2>1, <2>a
  <2>3. f[k - 1] \in Seq(S) BY <2>1
  <2>. DEFINE last == f[k - 1] \o q[k]
  <2>4. last \in Seq(S) BY <1>1, <2>3, ConcatProperties
  <2>. HIDE DEF last
  <2>. DEFINE g == [i \in 1..k |-> IF i = k THEN last ELSE f[i]]
  <2>5. g \in [1..k -> Seq(S)] BY <2>1, <2>4
  <2>6. ASSUME NEW i \in 1..k
        PROVE  g[i] = IF i = 1 THEN q[i] ELSE g[i - 1] \o q[i]
    <3>1. CASE i = k
      <4>1. g[i] = last /\ i # 1 /\ g[i - 1] = f[k - 1] BY <1>6, <2>1, <3>1
      <4>. HIDE DEF g
      <4>. QED BY <3>1, <4>1 DEF last
    <3>2. CASE i # k
      <4>1. i \in 1..(k - 1) /\ g[i] = f[i] /\ (i # 1 => g[i - 1] = f[i - 1])
        BY <2>1, <3>2
      <4>2. f[i] = IF i = 1 THEN q[i] ELSE f[i - 1] \o q[i] BY <2>2, <4>1 DEF Joins
      <4>. HIDE DEF g
      <4>. QED BY <4>1, <4>2
    <3>. QED BY <3>1, <3>2
  <2>7. Joins(g, q, k)
    <3>. HIDE DEF g
    <3>. QED BY <2>6 DEF Joins
  <2>. HIDE DEF g
  <2>. QED BY <2>5, <2>7
<1>. QED BY <1>5, <1>6

LEMMA JoinsAgree ==
  ASSUME NEW q, NEW n \in Nat \ {0}, NEW f, NEW g, Joins(f, q, n) /\ Joins(g, q, n)
  PROVE  f[n] = g[n]
<1>. DEFINE Bad == {i \in 1..n : f[i] # g[i]}
<1>1. SUFFICES ASSUME Bad # {} PROVE FALSE
  <2>1. n \in 1..n OBVIOUS
  <2>. QED BY <2>1, Zenon
<1>2. PICK i \in Bad : \A j \in Bad : i <= j
  <2>1. Bad \in SUBSET Nat OBVIOUS
  <2>. HIDE DEF Bad
  <2>. QED BY <2>1, <1>1, Least
<1>3. i \in 1..n /\ f[i] # g[i] OBVIOUS
<1>4. /\ f[i] = IF i = 1 THEN q[i] ELSE f[i - 1] \o q[i]
      /\ g[i] = IF i = 1 THEN q[i] ELSE g[i - 1] \o q[i]
  BY <1>3, Zenon DEF Joins
<1>5. i # 1 => f[i - 1] = g[i - 1] BY <1>2, <1>3
<1>. QED BY <1>3, <1>4, <1>5, Zenon

LEMMA FlattenJoins ==
  ASSUME NEW S, NEW q \in Seq(Seq(S)), q # <<>>
  PROVE  \E f \in [1..Len(q) -> Seq(S)] : Joins(f, q, Len(q)) /\ FlattenSeq(q) = f[Len(q)]
<1>1. Len(q) \in Nat \ {0} BY EmptySeq
<1>. DEFINE Def(f) == [i \in 1..Len(q) |-> IF i = 1 THEN q[i] ELSE f[i - 1] \o q[i]]
            flat == CHOOSE f : f = Def(f)
<1>2. FlattenSeq(q) = flat[Len(q)] BY <1>1, Zenon DEF FlattenSeq
<1>3. PICK f \in [1..Len(q) -> Seq(S)] : Joins(f, q, Len(q)) BY <1>1, JoinsExist
<1>4. f = Def(f) BY <1>3 DEF Joins
<1>5. flat = Def(flat) BY <1>4, Zenon
<1>. HIDE DEF flat
<1>6. Joins(flat, q, Len(q)) BY <1>5 DEF Joins
<1>7. f[Len(q)] = flat[Len(q)] BY <1>1, <1>3, <1>6, JoinsAgree
<1>. QED BY <1>2, <1>3, <1>7

LEMMA FlattenType ==
  ASSUME NEW S, NEW q \in Seq(Seq(S))
  PROVE  FlattenSeq(q) \in Seq(S)
<1>1. CASE q = <<>>
  <2>1. Len(q) = 0 /\ q \in Seq(S) BY <1>1, EmptySeq
  <2>2. FlattenSeq(q) = q BY <2>1 DEF FlattenSeq
  <2>. QED BY <2>1, <2>2
<1>2. CASE q # <<>>
  <2>1. Len(q) \in 1..Len(q) BY <1>2, EmptySeq
  <2>2. PICK f \in [1..Len(q) -> Seq(S)] : FlattenSeq(q) = f[Len(q)]
    BY <1>2, FlattenJoins
  <2>. QED BY <2>1, <2>2
<1>. QED BY <1>1, <1>2

LEMMA FlattenAppend ==
  ASSUME NEW S, NEW q \in Seq(Seq(S)), NEW e \in Seq(S)
  PROVE  FlattenSeq(Append(q, e)) = FlattenSeq(q) \o e
<1>. DEFINE r == Append(q, e)  n == Len(q)
<1>1. /\ r \in Seq(Seq(S)) /\ r # <<>> /\ Len(r) = n + 1 /\ n \in Nat
      /\ r[n + 1] = e /\ \A i \in 1..n : r[i] = q[i]
  BY AppendProperties, LenProperties
<1>. HIDE DEF r
<1>2. PICK g \in [1..(n + 1) -> Seq(S)] : Joins(g, r, n + 1) /\ FlattenSeq(r) = g[n + 1]
  BY <1>1, FlattenJoins
<1>3. g[n + 1] = IF n + 1 = 1 THEN e ELSE g[n] \o e
  <2>1. n + 1 \in 1..(n + 1) /\ (n + 1) - 1 = n BY <1>1
  <2>. QED BY <1>1, <1>2, <2>1 DEF Joins
<1>4. CASE q = <<>>
  <2>1. n = 0 BY <1>4, EmptySeq
  <2>3. FlattenSeq(q) = <<>> BY <1>4, <2>1 DEF FlattenSeq
  <2>2. <<>> \o e = e BY ConcatEmptySeq
  <2>. QED BY <1>2, <1>3, <2>1, <2>2, <2>3 DEF r
<1>5. CASE q # <<>>
  <2>1. PICK f \in [1..n -> Seq(S)] : Joins(f, q, n) /\ FlattenSeq(q) = f[n]
    BY <1>5, FlattenJoins
  <2>2. n # 0 BY <1>5, EmptySeq
  <2>3. f[n] = g[n]
    <3>. HIDE DEF n
    <3>1. n \in Nat \ {0} BY <1>1, <2>2
    <3>2. Joins(g, q, n)
      <4>1. SUFFICES ASSUME NEW i \in 1..n
                     PROVE  g[i] = IF i = 1 THEN q[i] ELSE g[i - 1] \o q[i]
        BY Zenon DEF Joins
      <4>2. i \in 1..(n + 1) /\ r[i] = q[i] BY <1>1, <3>1
      <4>3. g[i] = IF i = 1 THEN r[i] ELSE g[i - 1] \o r[i] BY <1>2, <4>2, Zenon DEF Joins
      <4>. QED BY <4>2, <4>3, Zenon
    <3>. QED BY <2>1, <3>1, <3>2, JoinsAgree, Zenon
  <2>. QED BY <1>1, <1>2, <1>3, <2>1, <2>2, <2>3 DEF r
<1>. QED BY <1>4, <1>5

-----------------------------------------------------------------------------
\* Held(ps) is a sequence of entries, and grows by what is appended.
LEMMA HeldEmpty == Held(<<>>) = <<>>
  BY EmptySeq DEF Held, FlattenSeq

LEMMA HeldType ==
  ASSUME NEW ps \in Seq(Piece)
  PROVE  Held(ps) \in Seq(EntrySet) /\ Loaded(ps) \in Nat
<1>. DEFINE q == [k \in 1..Len(ps) |-> ps[k].items]
<1>1. Len(ps) \in Nat /\ \A k \in 1..Len(ps) : ps[k] \in Piece BY LenProperties, ElementOfSeq
<1>2. \A k \in 1..Len(ps) : ps[k].items \in Seq(EntrySet) BY <1>1 DEF Piece, EntrySet
<1>3. q \in Seq(Seq(EntrySet)) BY <1>1, <1>2, SeqDef
<1>. HIDE DEF q
<1>4. FlattenSeq(q) \in Seq(EntrySet) BY <1>3, FlattenType
<1>. QED BY <1>4, LenProperties DEF q, Held, Loaded

LEMMA HeldAppend ==
  ASSUME NEW ps \in Seq(Piece), NEW p \in Piece
  PROVE  /\ Append(ps, p) \in Seq(Piece) /\ Append(ps, p) # <<>>
         /\ Len(Append(ps, p)) = Len(ps) + 1 /\ Last(Append(ps, p)) = p
         /\ ps # <<>> => Append(ps, p)[1] = ps[1]
         /\ ps = <<>> => Append(ps, p)[1] = p
         /\ Held(Append(ps, p)) = Held(ps) \o p.items
<1>. DEFINE r == Append(ps, p)
            q == [k \in 1..Len(ps) |-> ps[k].items]
            qr == [k \in 1..Len(r) |-> r[k].items]
<1>1. /\ r \in Seq(Piece) /\ r # <<>> /\ Len(r) = Len(ps) + 1 /\ Len(ps) \in Nat
      /\ r[Len(ps) + 1] = p /\ \A i \in 1..Len(ps) : r[i] = ps[i]
  BY AppendProperties, LenProperties
<1>2. /\ ps # <<>> => r[1] = ps[1]
      /\ ps = <<>> => r[1] = p
      /\ Last(r) = p
  <2>1. ps # <<>> => 1 \in 1..Len(ps) BY EmptySeq
  <2>2. ps = <<>> => Len(ps) = 0 BY EmptySeq
  <2>. HIDE DEF r
  <2>. QED BY <1>1, <2>1, <2>2 DEF Last
<1>3. \A k \in 1..Len(ps) : ps[k].items \in Seq(EntrySet)
  <2>1. \A k \in 1..Len(ps) : ps[k] \in Piece BY ElementOfSeq
  <2>. QED BY <2>1 DEF Piece, EntrySet
<1>4. q \in Seq(Seq(EntrySet)) /\ Len(q) = Len(ps)
  <2>1. q \in [1..Len(ps) -> Seq(EntrySet)] BY <1>3
  <2>. HIDE DEF q
  <2>. QED BY <1>1, <2>1, SeqDef
<1>5. p.items \in Seq(EntrySet) BY DEF Piece, EntrySet
<1>6. qr = Append(q, p.items)
  <2>. DEFINE s == Append(q, p.items)
  <2>1. s \in Seq(Seq(EntrySet)) /\ Len(s) = Len(ps) + 1 /\ s[Len(ps) + 1] = p.items
    BY <1>1, <1>4, <1>5, AppendProperties
  <2>2. \A k \in 1..Len(ps) : s[k] = ps[k].items
    <3>1. \A k \in 1..Len(q) : s[k] = q[k] BY <1>4, <1>5, AppendProperties
    <3>. HIDE DEF s
    <3>. QED BY <1>4, <3>1
  <2>. HIDE DEF s
  <2>3. s = [k \in 1..(Len(ps) + 1) |-> s[k]] BY <2>1, LenProperties
  <2>4. \A k \in 1..(Len(ps) + 1) : s[k] = r[k].items
    <3>. HIDE DEF r
    <3>1. \A k \in 1..(Len(ps) + 1) : k = Len(ps) + 1 \/ k \in 1..Len(ps) BY <1>1
    <3>. QED BY <1>1, <2>1, <2>2, <3>1
  <2>. HIDE DEF r
  <2>. QED BY <1>1, <2>3, <2>4 DEF s
<1>7. FlattenSeq(qr) = FlattenSeq(q) \o p.items
  <2>. HIDE DEF q, qr
  <2>. QED BY <1>4, <1>5, <1>6, FlattenAppend
<1>8. Held(r) = FlattenSeq(qr) /\ Held(ps) = FlattenSeq(q) BY DEF Held
<1>. HIDE DEF q, qr
<1>9. Held(r) = Held(ps) \o p.items BY <1>7, <1>8
<1>. QED BY <1>1, <1>2, <1>9

-----------------------------------------------------------------------------
(* The answer of the endpoint.                                             *)

\* All the entries that match, in an order ORDER BY allows.
InFull(s) == [k \in 1..Len(s) |-> Entry(s[k])]
Answers == {InFull(s) : s \in Orderings(Matches)}

LEMMA CountsType ==
  ASSUME BookTypeOK
  PROVE  /\ Matches \subseteq Id /\ IsFiniteSet(Matches)
         /\ Cardinality(Matches) \in Nat /\ Cardinality(Entire) \in Nat
<1>1. Matches \in SUBSET Id /\ Entire \in SUBSET Id BY DEF Matches, Entire
<1>. QED BY <1>1, BooksAssumption, FS_Subset, FS_CardinalityType

\* An ordering lists every match once.
LEMMA OrderingIs ==
  ASSUME BookTypeOK, NEW s \in Orderings(Matches)
  PROVE  /\ s \in [1..Cardinality(Matches) -> Matches]
         /\ s \in Seq(Matches) /\ Len(s) = Cardinality(Matches)
         /\ \A i, j \in 1..Cardinality(Matches) : i # j => s[i] # s[j]
         /\ \A id \in Matches : \E i \in 1..Cardinality(Matches) : s[i] = id
         /\ \A i, j \in 1..Cardinality(Matches) : j <= i => ~ Precedes(s[i], s[j])
<1>. DEFINE n == Cardinality(Matches)
<1>1. n \in Nat /\ IsFiniteSet(Matches) BY CountsType
<1>. HIDE DEF n
<1>2. s \in SetToSeqs(Matches)
      /\ \A k \in 1..Len(s) : \A m \in 1..k : ~ Precedes(s[k], s[m])
  BY DEF Orderings
<1>3. s \in [1..n -> Matches] /\ \A i, j \in 1..n : i # j => s[i] # s[j]
  BY <1>2 DEF SetToSeqs, n
<1>4. s \in Seq(Matches) /\ Len(s) = n
  <2>1. s \in Seq(Matches) BY <1>1, <1>3, SeqDef
  <2>. QED BY <1>1, <1>3, <2>1, LenProperties
<1>5. \A id \in Matches : \E i \in 1..n : s[i] = id
  <2>1. s \in Injection(1..n, Matches) BY <1>3 DEF Injection, IsInjective
  <2>2. Cardinality(1..n) = Cardinality(Matches)
    BY <1>1, FS_Interval DEF n
  <2>3. s \in Surjection(1..n, Matches) BY <1>1, <2>1, <2>2, FS_Injection
  <2>. QED BY <2>3 DEF Surjection
<1>6. \A i, j \in 1..n : j <= i => ~ Precedes(s[i], s[j])
  BY <1>1, <1>2, <1>4
<1>. QED BY <1>3, <1>4, <1>5, <1>6 DEF n

\* Of two entries one comes first: the moment of writing decides, then the identifier.
LEMMA OneComesFirst ==
  ASSUME BookTypeOK, NEW i \in Matches, NEW j \in Matches, i # j
  PROVE  Precedes(i, j) \/ Precedes(j, i)
<1>1. i \in Nat /\ j \in Nat BY IdAssumption DEF Matches
<1>2. rows[i] \in Row /\ rows[j] \in Row BY DEF BookTypeOK, Matches, Hits, Present
<1>3. rows[i].created \in Nat /\ rows[j].created \in Nat BY <1>2 DEF Row
<1>. QED BY <1>1, <1>3 DEF Precedes, Earlier

\* So there is one order, however the database sorts.
LEMMA OneOrdering ==
  ASSUME BookTypeOK, NEW s \in Orderings(Matches), NEW t \in Orderings(Matches)
  PROVE  s = t
<1>. DEFINE n == Cardinality(Matches)
            Bad == {k \in 1..n : s[k] # t[k]}
<1>1. n \in Nat BY CountsType
<1>2. /\ s \in [1..n -> Matches]
      /\ \A i, j \in 1..n : i # j => s[i] # s[j]
      /\ \A id \in Matches : \E i \in 1..n : s[i] = id
      /\ \A i, j \in 1..n : j <= i => ~ Precedes(s[i], s[j])
  BY OrderingIs
<1>3. /\ t \in [1..n -> Matches]
      /\ \A i, j \in 1..n : i # j => t[i] # t[j]
      /\ \A id \in Matches : \E i \in 1..n : t[i] = id
      /\ \A i, j \in 1..n : j <= i => ~ Precedes(t[i], t[j])
  BY OrderingIs
<1>. HIDE DEF n
<1>4. SUFFICES ASSUME Bad # {} PROVE FALSE
  <2>1. s = [k \in 1..n |-> s[k]] /\ t = [k \in 1..n |-> t[k]] BY <1>2, <1>3
  <2>2. ASSUME \A k \in 1..n : s[k] = t[k] PROVE s = t BY <2>1, <2>2, Zenon
  <2>. QED BY <2>2
<1>5. PICK k \in Bad : \A m \in Bad : k <= m
  <2>1. Bad \in SUBSET Nat OBVIOUS
  <2>. HIDE DEF Bad
  <2>. QED BY <2>1, <1>4, Least
<1>6. k \in 1..n /\ s[k] # t[k] /\ \A m \in 1..n : m < k => s[m] = t[m] BY <1>5
<1>7. PICK i \in 1..n : s[i] = t[k] BY <1>2, <1>3, <1>6
<1>8. PICK j \in 1..n : t[j] = s[k] BY <1>2, <1>3, <1>6
<1>9. k <= i /\ k <= j
  <2>1. ~ (i < k)
    <3>1. i < k => s[i] = t[i] BY <1>6
    <3>. QED BY <1>1, <1>3, <1>6, <1>7, <3>1
  <2>2. ~ (j < k)
    <3>1. j < k => s[j] = t[j] BY <1>6
    <3>. QED BY <1>1, <1>2, <1>6, <1>8, <3>1
  <2>. QED BY <1>1, <1>6, <2>1, <2>2
<1>10. ~ Precedes(t[k], s[k]) BY <1>2, <1>6, <1>7, <1>9
<1>11. ~ Precedes(s[k], t[k]) BY <1>3, <1>6, <1>8, <1>9
<1>12. s[k] \in Matches /\ t[k] \in Matches BY <1>2, <1>3, <1>6
<1>. QED BY <1>6, <1>10, <1>11, <1>12, OneComesFirst

LEMMA AnswerIs ==
  ASSUME BookTypeOK, NEW a \in Answers
  PROVE  a \in Seq(EntrySet) /\ Len(a) = Cardinality(Matches)
<1>1. PICK s \in Orderings(Matches) : a = InFull(s) BY DEF Answers
<1>. DEFINE n == Cardinality(Matches)
<1>2. n \in Nat /\ Len(s) = n /\ s \in [1..n -> Matches] BY CountsType, OrderingIs
<1>. HIDE DEF n
<1>3. \A id \in Matches : Entry(id) \in EntrySet
  BY DEF BookTypeOK, Matches, Hits, Present, Entry, EntrySet
<1>4. a \in [1..n -> EntrySet] BY <1>1, <1>2, <1>3 DEF InFull
<1>5. a \in Seq(EntrySet) BY <1>2, <1>4, SeqDef
<1>. QED BY <1>2, <1>4, <1>5, LenProperties DEF n

LEMMA OneAnswer ==
  ASSUME BookTypeOK, NEW a \in Answers, NEW b \in Answers
  PROVE  a = b
  BY OneOrdering DEF Answers

\* A piece is a cut of the answer.
LEMMA PieceIsACut ==
  ASSUME BookTypeOK, NEW s \in Orderings(Matches),
         NEW ask \in Ask
  PROVE  LET cut == Cut(s, ask)
         IN  [k \in 1..Len(cut) |-> Entry(cut[k])] = Cut(InFull(s), ask)
<1>. DEFINE n == Cardinality(Matches)
            m == Min({ask.offset + ask.limit, n})
            o == ask.offset
            a == InFull(s)
<1>1. n \in Nat /\ Len(s) = n /\ s \in Seq(Matches) BY CountsType, OrderingIs
<1>2. a \in Seq(EntrySet) /\ Len(a) = n BY AnswerIs DEF Answers
<1>3. \A k \in 1..n : a[k] = Entry(s[k]) BY <1>1 DEF InFull
<1>. HIDE DEF n, a
<1>4. o \in Nat /\ o + ask.limit \in Nat BY DEF Ask
<1>5. m \in Nat /\ m <= n BY <1>1, <1>4, MinOf
<1>. HIDE DEF m, o
<1>6. /\ Len(SubSeq(s, o + 1, m)) = IF o + 1 <= m THEN m - o ELSE 0
      /\ \A k \in 1..(m - o) : SubSeq(s, o + 1, m)[k] = s[o + k]
  <2>1. \A k \in (o + 1)..m : s[k] \in Matches
    BY <1>1, <1>4, <1>5, ElementOfSeq DEF o
  <2>. QED BY <1>4, <1>5, <2>1, SubSeqProperties DEF o
<1>7. /\ SubSeq(a, o + 1, m) \in Seq(EntrySet)
      /\ Len(SubSeq(a, o + 1, m)) = IF o + 1 <= m THEN m - o ELSE 0
      /\ \A k \in 1..(m - o) : SubSeq(a, o + 1, m)[k] = a[o + k]
  <2>1. \A k \in (o + 1)..m : a[k] \in EntrySet
    BY <1>2, <1>4, <1>5, ElementOfSeq DEF o
  <2>. QED BY <1>4, <1>5, <2>1, SubSeqProperties DEF o
<1>. DEFINE cut == SubSeq(s, o + 1, m)
            acut == SubSeq(a, o + 1, m)
            l == IF o + 1 <= m THEN m - o ELSE 0
<1>8. Cut(s, ask) = cut /\ Cut(a, ask) = acut BY <1>1, <1>2 DEF Cut, m, o
<1>9. l \in Nat /\ Len(cut) = l /\ acut \in [1..l -> EntrySet]
  <2>1. l \in Nat BY <1>4, <1>5
  <2>2. Len(cut) = l /\ Len(acut) = l /\ acut \in Seq(EntrySet) BY <1>6, <1>7
  <2>. HIDE DEF l, acut, cut
  <2>. QED BY <2>1, <2>2, LenProperties
<1>10. \A k \in 1..l : acut[k] = Entry(cut[k])
  <2>1. SUFFICES ASSUME NEW k \in 1..l PROVE acut[k] = Entry(cut[k]) OBVIOUS
  <2>2. k \in 1..(m - o) /\ o + k \in 1..n BY <1>1, <1>4, <1>5
  <2>3. acut[k] = a[o + k] /\ cut[k] = s[o + k] BY <1>6, <1>7, <2>2
  <2>. HIDE DEF acut, cut
  <2>. QED BY <1>3, <2>2, <2>3
<1>. HIDE DEF l, cut, acut
<1>11. acut = [k \in 1..l |-> Entry(cut[k])] BY <1>9, <1>10
<1>. QED BY <1>8, <1>9, <1>11 DEF a

-----------------------------------------------------------------------------
(* Requests and fetches.                                                   *)

\* A book nobody writes to has the same answer.
LEMMA SameAnswer ==
  ASSUME rows' = rows
  PROVE  Matches' = Matches /\ Entire' = Entire /\ Answers' = Answers
<1>1. \A id : Hits(id)' = Hits(id) /\ Present(id)' = Present(id) BY DEF Hits, Present
<1>2. Matches' = Matches /\ Entire' = Entire BY <1>1 DEF Matches, Entire
<1>3. \A i, j : Precedes(i, j)' = Precedes(i, j) BY DEF Precedes, Earlier
<1>4. \A S : Orderings(S)' = Orderings(S) BY <1>3 DEF Orderings
<1>5. \A s : InFull(s)' = InFull(s) BY DEF InFull, Entry
<1>. QED BY <1>2, <1>4, <1>5 DEF Answers

\* The first piece held was asked for from the start, within the contract.
StartsWell(ps) == ps # <<>> => ps[1].ask.offset = 0 /\ ps[1].ask.limit \in 1..PIECE_MAX

LEMMA SizesAre ==
  /\ STEP \in Nat \ {0} /\ PIECE_MAX \in Nat \ {0} /\ SHOWN_MAX \in Nat \ {0}
  /\ STEP <= PIECE_MAX /\ PIECE_MAX <= SHOWN_MAX
  BY SizesAssumption

LEMMA ShownFromType ==
  ASSUME NEW n \in Nat
  PROVE  ShownFrom(n) \in STEP..SHOWN_MAX
  BY SizesAre, MinOf DEF ShownFrom

LEMMA FirstPageType ==
  ASSUME NEW n \in STEP..SHOWN_MAX
  PROVE  /\ FirstPage(n) \in Ask
         /\ FirstPage(n).offset = 0 /\ FirstPage(n).limit \in 1..PIECE_MAX
  BY SizesAre, MinOf DEF FirstPage, Ask

LEMMA NextPageType ==
  ASSUME NEW count \in Nat, NEW n \in STEP..SHOWN_MAX
  PROVE  /\ NextPage(count, n) \in Ask
         /\ NextPage(count, n).offset = count /\ NextPage(count, n).limit \in 1..PIECE_MAX
<1>. DEFINE more == IF count < n THEN n - count ELSE STEP
<1>1. more \in Nat \ {0} BY SizesAre
<1>2. NextPage(count, n) = [offset |-> count, limit |-> Min({more, PIECE_MAX})]
  BY DEF NextPage
<1>. HIDE DEF more
<1>3. Min({more, PIECE_MAX}) \in 1..PIECE_MAX BY <1>1, SizesAre, MinOf
<1>. QED BY <1>2, <1>3, SizesAre DEF Ask

LEMMA RequestType ==
  ASSUME NEW ask \in Ask
  PROVE  /\ Request(ask) \in InFlight
         /\ Request(ask).ask = ask
         /\ Request(ask).all = None /\ Request(ask).total = None /\ Request(ask).items = None
  BY DEF Request, InFlight

\* What a fetch is, and what every request of it keeps to.
Sound(f) ==
  /\ f \in Fetch
  /\ Len(f.fresh) < f.goal
  /\ StartsWell(f.fresh)
  /\ f.request.ask.offset = Loaded(f.fresh)
  /\ f.request.ask.limit \in 1..PIECE_MAX
  /\ f.request.items # None => f.request.total # None
  /\ f.request.total # None => f.request.all # None

LEMMA WholeSound ==
  ASSUME TypeOK, StartsWell(pages)
  PROVE  /\ Sound(Whole) /\ Whole # None
         /\ Whole.fresh = <<>>
         /\ Whole.request.all = None /\ Whole.request.total = None
         /\ Whole.request.items = None
         /\ pages # <<>> => Whole.goal # Len(pages) + 1
<1>. DEFINE ask == IF pages = <<>> THEN FirstPage(shown) ELSE pages[1].ask
            goal == Max({1, Len(pages)})
<1>1. shown \in STEP..SHOWN_MAX /\ pages \in Seq(Piece) BY DEF TypeOK
<1>2. Len(pages) \in Nat /\ (pages # <<>> => 1 \in 1..Len(pages)) BY <1>1, EmptySeq, LenProperties
<1>3. ask \in Ask /\ ask.offset = 0 /\ ask.limit \in 1..PIECE_MAX
  <2>1. CASE pages = <<>> BY <1>1, <2>1, FirstPageType
  <2>2. CASE pages # <<>>
    <3>1. pages[1] \in Piece BY <1>1, <1>2, <2>2, ElementOfSeq
    <3>. QED BY <2>2, <3>1 DEF Piece, StartsWell
  <2>. QED BY <2>1, <2>2
<1>4. goal \in Nat \ {0} /\ (pages # <<>> => goal # Len(pages) + 1)
  BY <1>2, MaxOf
<1>5. Whole = [request |-> Request(ask), shown |-> shown, fresh |-> <<>>, goal |-> goal]
  BY DEF Whole
<1>. HIDE DEF ask, goal
<1>6. /\ Request(ask) \in InFlight /\ Request(ask).ask = ask
      /\ Request(ask).all = None /\ Request(ask).total = None /\ Request(ask).items = None
  BY <1>3, RequestType
<1>7. <<>> \in Seq(Piece) /\ Len(<<>>) = 0 BY EmptySeq
<1>8. Whole \in Fetch BY <1>1, <1>4, <1>5, <1>6, <1>7 DEF Fetch
<1>9. Loaded(<<>>) = 0 BY <1>7, HeldEmpty DEF Loaded
<1>10. Sound(Whole)
  BY <1>3, <1>4, <1>5, <1>6, <1>7, <1>8, <1>9 DEF Sound, StartsWell
<1>. QED BY <1>4, <1>5, <1>6, <1>8, <1>10, NoneIsNoFetch

LEMMA NextPieceSound ==
  ASSUME TypeOK, StartsWell(pages)
  PROVE  /\ Sound(NextPiece) /\ NextPiece # None
         /\ NextPiece.fresh = pages /\ NextPiece.goal = Len(pages) + 1
         /\ NextPiece.request.all = None /\ NextPiece.request.total = None
         /\ NextPiece.request.items = None
<1>. DEFINE ask == NextPage(Loaded(pages), shown)
<1>1. shown \in STEP..SHOWN_MAX /\ pages \in Seq(Piece) /\ Len(pages) \in Nat
  BY LenProperties DEF TypeOK
<1>2. Loaded(pages) \in Nat BY <1>1, HeldType
<1>3. ask \in Ask /\ ask.offset = Loaded(pages) /\ ask.limit \in 1..PIECE_MAX
  BY <1>1, <1>2, NextPageType
<1>4. NextPiece = [request |-> Request(ask), shown |-> shown, fresh |-> pages,
                   goal |-> Len(pages) + 1]
  BY DEF NextPiece
<1>. HIDE DEF ask
<1>5. /\ Request(ask) \in InFlight /\ Request(ask).ask = ask
      /\ Request(ask).all = None /\ Request(ask).total = None /\ Request(ask).items = None
  BY <1>3, RequestType
<1>6. NextPiece \in Fetch BY <1>1, <1>4, <1>5 DEF Fetch
<1>7. Sound(NextPiece) BY <1>1, <1>3, <1>4, <1>5, <1>6 DEF Sound
<1>. QED BY <1>4, <1>5, <1>6, <1>7, NoneIsNoFetch

LEMMA CutType ==
  ASSUME BookTypeOK, NEW a \in Answers, NEW ask \in Ask
  PROVE  Cut(a, ask) \in Seq(EntrySet)
<1>. DEFINE m == Min({ask.offset + ask.limit, Len(a)})
<1>1. a \in Seq(EntrySet) /\ Len(a) \in Nat BY AnswerIs, LenProperties
<1>2. ask.offset \in Nat /\ ask.limit \in Nat BY DEF Ask
<1>3. m \in 0..Len(a)
  <2>. DEFINE e == ask.offset + ask.limit
              n == Len(a)
  <2>1. e \in Nat /\ n \in Nat BY <1>1, <1>2
  <2>. HIDE DEF e, n
  <2>2. Min({e, n}) = IF e <= n THEN e ELSE n BY <2>1, MinOf
  <2>3. Min({e, n}) \in 0..n BY <2>1, <2>2
  <2>. QED BY <2>3, Zenon DEF e, n
<1>4. Cut(a, ask) = SubSeq(a, ask.offset + 1, m) BY DEF Cut
<1>. HIDE DEF m
<1>5. \A i \in (ask.offset + 1)..m : a[i] \in EntrySet BY <1>1, <1>2, <1>3, ElementOfSeq
<1>6. ask.offset + 1 \in Int /\ m \in Int BY <1>2, <1>3
<1>. QED BY <1>4, <1>5, <1>6, SubSeqProperties

\* A piece cut where a prefix of the answer ends makes a longer prefix of it.
LEMMA CutContinues ==
  ASSUME NEW a \in Seq(EntrySet), NEW h \in Seq(EntrySet), IsPrefix(h, a),
         NEW ask \in Ask, ask.offset = Len(h)
  PROVE  IsPrefix(h \o Cut(a, ask), a)
<1>. DEFINE l == Len(h)
            m == Min({ask.offset + ask.limit, Len(a)})
<1>1. l \in Nat /\ Len(a) \in Nat /\ l <= Len(a) BY LenProperties DEF IsPrefix
<1>2. ask.limit \in Nat BY DEF Ask
<1>3. m \in l..Len(a)
  <2>. DEFINE e == ask.offset + ask.limit
              n == Len(a)
  <2>1. e \in Nat /\ l <= e BY <1>1, <1>2
  <2>2. l \in Nat /\ n \in Nat /\ l <= n BY <1>1
  <2>. HIDE DEF e, n, l
  <2>3. Min({e, n}) = IF e <= n THEN e ELSE n BY <2>1, <2>2, MinOf
  <2>4. Min({e, n}) \in l..n BY <2>1, <2>2, <2>3
  <2>. QED BY <2>4, Zenon DEF e, n
<1>4. h = SubSeq(a, 1, l)
  <2>1. SubSeq(h, 1, l) = h BY SubSeqFull
  <2>. QED BY <2>1 DEF IsPrefix
<1>5. Cut(a, ask) = SubSeq(a, l + 1, m) BY DEF Cut
<1>. HIDE DEF l, m
<1>6. h \o Cut(a, ask) = SubSeq(a, 1, m)
  <2>1. 1 \in 1..(Len(a) + 1) /\ l \in (1 - 1)..Len(a) BY <1>1
  <2>2. SubSeq(a, 1, l) \o SubSeq(a, l + 1, m) = SubSeq(a, 1, m)
    BY <1>3, <2>1, ConcatAdjacentSubSeq
  <2>. QED BY <1>4, <1>5, <2>2
<1>. DEFINE p == SubSeq(a, 1, m)
<1>7. p \in Seq(EntrySet) /\ Len(p) = m
  <2>1. m \in Int /\ 1 \in Int /\ 0 <= m BY <1>1, <1>3
  <2>2. \A i \in 1..m : a[i] \in EntrySet BY <1>1, <1>3, ElementOfSeq
  <2>. QED BY <2>1, <2>2, SubSeqProperties
<1>. HIDE DEF p
<1>8. SubSeq(p, 1, Len(p)) = p BY <1>7, SubSeqFull
<1>. QED BY <1>1, <1>3, <1>6, <1>7, <1>8 DEF IsPrefix, p

-----------------------------------------------------------------------------
(* Types and requests.                                                     *)

RequestInv ==
  /\ fetch # None => Sound(fetch)
  /\ StartsWell(pages)
  /\ fetch = None /\ ~failed => pages # <<>>

TypeInv == TypeOK /\ RequestInv

LEMMA BookStep ==
  ASSUME BookTypeOK, BookNext
  PROVE  BookTypeOK'
<1>1. ClockAssumption /\ MaxClock \in Nat BY ClockAssumption
<1>2. ASSUME NEW id \in Id, NEW author \in Text, NEW message \in Text, NEW at \in 0..clock,
             Write(id, author, message, at)
      PROVE  BookTypeOK'
  <2>1. [author |-> author, message |-> message, created |-> at, updated |-> at] \in Row
    BY <1>1 DEF BookTypeOK, Row
  <2>. QED BY <1>2, <2>1 DEF Write, BookTypeOK
<1>3. ASSUME NEW id \in Id, NEW author \in Text, NEW message \in Text, NEW at \in Nat,
             Amend(id, author, message, at)
      PROVE  BookTypeOK'
  <2>1. rows[id] \in Row BY <1>3 DEF Amend, Present, BookTypeOK
  <2>2. [rows[id] EXCEPT !.author = author, !.message = message, !.updated = at] \in Row
    BY <2>1 DEF Row
  <2>. QED BY <1>3, <2>2 DEF Amend, BookTypeOK
<1>4. ASSUME NEW id \in Id, Erase(id) PROVE BookTypeOK' BY <1>4 DEF Erase, BookTypeOK
<1>5. ASSUME Tick PROVE BookTypeOK' BY <1>1, <1>5 DEF Tick, BookTypeOK
<1>6. 0..clock \subseteq Nat BY <1>1 DEF BookTypeOK
<1>. QED BY <1>2, <1>3, <1>4, <1>5, <1>6 DEF BookNext

LEMMA TypeInit == Init => TypeInv
<1>. SUFFICES ASSUME Init PROVE TypeInv OBVIOUS
<1>1. BookTypeOK
  BY BooksAssumption, ClockAssumption DEF Init, BookTypeOK, Entire
<1>2. shown \in STEP..SHOWN_MAX BY QuestionAssumption, ShownFromType DEF Init
<1>3. pages = <<>> /\ pages \in Seq(Piece) /\ Len(pages) = 0 BY EmptySeq DEF Init
<1>. DEFINE ask == FirstPage(shown)
<1>4. Whole = [request |-> Request(ask), shown |-> shown, fresh |-> <<>>, goal |-> 1]
  BY <1>3, MaxOf DEF Whole
<1>5. /\ Request(ask) \in InFlight /\ Request(ask).ask = ask
      /\ Request(ask).total = None /\ Request(ask).items = None
      /\ ask.offset = 0 /\ ask.limit \in 1..PIECE_MAX
  BY <1>2, RequestType, FirstPageType
<1>. HIDE DEF ask
<1>6. Whole \in Fetch BY <1>2, <1>3, <1>4, <1>5 DEF Fetch
<1>7. Sound(Whole)
  <2>1. Loaded(<<>>) = 0 BY <1>3, HeldEmpty DEF Loaded
  <2>. QED BY <1>3, <1>4, <1>5, <1>6, <2>1 DEF Sound, StartsWell
<1>8. Whole # None /\ fetch = Whole BY <1>6, NoneIsNoFetch DEF Init
<1>9. failed = FALSE /\ mine = "none" /\ stale = {} /\ changes = 0 /\ faults = 0 BY DEF Init
<1>10. TypeOK
  <2>1. changes \in 0..MaxChanges /\ faults \in 0..MaxFaults BY <1>9, BoundsAssumption
  <2>2. fetch \in Fetch /\ Len(fetch.fresh) < fetch.goal BY <1>6, <1>7, <1>8 DEF Sound
  <2>. QED BY <1>1, <1>2, <1>3, <1>9, <2>1, <2>2 DEF TypeOK
<1>. QED BY <1>3, <1>7, <1>8, <1>10 DEF TypeInv, RequestInv, StartsWell

\* A statement of the running request has run.
LEMMA ProgressSound ==
  ASSUME fetch # None, Sound(fetch), NEW r \in InFlight, r.ask = fetch.request.ask,
         r.items # None => r.total # None, r.total # None => r.all # None,
         Progress(r)
  PROVE  /\ Sound(fetch') /\ fetch' # None
         /\ fetch'.request = r /\ fetch'.fresh = fetch.fresh /\ fetch'.goal = fetch.goal
         /\ fetch'.shown = fetch.shown
<1>1. fetch \in Fetch BY DEF Sound
<1>2. /\ fetch' \in Fetch
      /\ fetch'.request = r /\ fetch'.fresh = fetch.fresh /\ fetch'.goal = fetch.goal
      /\ fetch'.shown = fetch.shown
  BY <1>1 DEF Progress, Fetch
<1>. QED BY <1>2, NoneIsNoFetch DEF Sound

\* A piece that has arrived is one of the pieces read.
LEMMA Arrives ==
  ASSUME fetch # None, Sound(fetch), fetch.request.items # None
  PROVE  LET fresh == Append(fetch.fresh, fetch.request)
         IN  /\ fetch.fresh \in Seq(Piece) /\ fetch.request \in Piece
             /\ fresh \in Seq(Piece) /\ fresh # <<>> /\ StartsWell(fresh)
             /\ Len(fresh) \in Nat /\ Last(fresh) = fetch.request
             /\ Held(fresh) = Held(fetch.fresh) \o fetch.request.items
<1>. DEFINE fresh == Append(fetch.fresh, fetch.request)
<1>1. /\ fetch.fresh \in Seq(Piece)
      /\ fetch.request \in InFlight
  BY DEF Sound, Fetch
<1>2. fetch.request \in Piece
  <2>1. fetch.request.total # None /\ fetch.request.all # None BY DEF Sound
  <2>. QED BY <1>1, <2>1 DEF InFlight, Piece
<1>3. /\ fresh \in Seq(Piece) /\ fresh # <<>> /\ Last(fresh) = fetch.request
      /\ fetch.fresh # <<>> => fresh[1] = fetch.fresh[1]
      /\ fetch.fresh = <<>> => fresh[1] = fetch.request
      /\ Held(fresh) = Held(fetch.fresh) \o fetch.request.items
  BY <1>1, <1>2, HeldAppend
<1>. HIDE DEF fresh
<1>4. StartsWell(fresh)
  <2>1. CASE fetch.fresh = <<>>
    <3>1. Loaded(<<>>) = 0 BY EmptySeq, HeldEmpty DEF Loaded
    <3>. QED BY <1>3, <2>1, <3>1 DEF Sound, StartsWell
  <2>2. CASE fetch.fresh # <<>> BY <1>3, <2>2 DEF Sound, StartsWell
  <2>. QED BY <2>1, <2>2
<1>. QED BY <1>1, <1>2, <1>3, <1>4, LenProperties DEF fresh

\* The fetch that goes on to its next piece.
LEMMA GoesOn ==
  ASSUME TypeOK, fetch # None, Sound(fetch), fetch.request.items # None,
         NEW fresh, fresh = Append(fetch.fresh, fetch.request), Len(fresh) < fetch.goal,
         fetch' = [fetch EXCEPT !.fresh = fresh,
                     !.request = Request(NextPage(Loaded(fresh), fetch.shown))]
  PROVE  /\ Sound(fetch') /\ fetch' # None
         /\ fetch'.fresh = fresh /\ fetch'.goal = fetch.goal
         /\ fetch'.request.all = None /\ fetch'.request.total = None
         /\ fetch'.request.items = None
<1>1. fresh \in Seq(Piece) /\ StartsWell(fresh) BY Arrives
<1>2. Loaded(fresh) \in Nat BY <1>1, HeldType
<1>3. fetch \in Fetch /\ fetch.shown \in STEP..SHOWN_MAX BY DEF Sound, Fetch
<1>. DEFINE ask == NextPage(Loaded(fresh), fetch.shown)
<1>4. ask \in Ask /\ ask.offset = Loaded(fresh) /\ ask.limit \in 1..PIECE_MAX
  BY <1>2, <1>3, NextPageType
<1>. HIDE DEF ask
<1>5. /\ Request(ask) \in InFlight /\ Request(ask).ask = ask
      /\ Request(ask).all = None /\ Request(ask).total = None /\ Request(ask).items = None
  BY <1>4, RequestType
<1>6. /\ fetch' \in Fetch
      /\ fetch'.fresh = fresh /\ fetch'.goal = fetch.goal /\ fetch'.request = Request(ask)
  BY <1>1, <1>3, <1>5 DEF Fetch, ask
<1>. QED BY <1>1, <1>4, <1>5, <1>6, NoneIsNoFetch DEF Sound

LEMMA TypeGathers ==
  ASSUME BookTypeOK', shown' \in STEP..SHOWN_MAX, pages' \in Seq(Piece), StartsWell(pages'),
         fetch' # None => Sound(fetch'), fetch' = None /\ ~failed' => pages' # <<>>,
         failed' \in BOOLEAN, mine' \in {"none", "sent"},
         stale' \subseteq {"others", "gave up", "lost"},
         changes' \in 0..MaxChanges, faults' \in 0..MaxFaults
  PROVE  TypeInv'
<1>1. fetch' # None => fetch' \in Fetch /\ Len(fetch'.fresh) < fetch'.goal BY DEF Sound
<1>. QED BY <1>1 DEF TypeInv, TypeOK, RequestInv, StartsWell, Sound

LEMMA TypeStep == TypeInv /\ [Next]_vars => TypeInv'
<1>. SUFFICES ASSUME TypeInv, [Next]_vars PROVE TypeInv' OBVIOUS
<1>1. /\ BookTypeOK /\ shown \in STEP..SHOWN_MAX /\ pages \in Seq(Piece)
      /\ failed \in BOOLEAN /\ mine \in {"none", "sent"}
      /\ stale \subseteq {"others", "gave up", "lost"}
      /\ changes \in 0..MaxChanges /\ faults \in 0..MaxFaults
  BY DEF TypeInv, TypeOK
<1>2. /\ fetch # None => Sound(fetch)
      /\ StartsWell(pages)
      /\ fetch = None /\ ~failed => pages # <<>>
  BY DEF TypeInv, RequestInv
<1>3. /\ changes < MaxChanges => changes + 1 \in 0..MaxChanges
      /\ faults < MaxFaults => faults + 1 \in 0..MaxFaults
  <2>1. MaxChanges \in Nat /\ MaxFaults \in Nat BY BoundsAssumption
  <2>2. changes \in 0..MaxChanges /\ faults \in 0..MaxFaults BY <1>1
  <2>. QED BY <2>1, <2>2
<1>4. UNCHANGED bookVars => BookTypeOK' BY <1>1 DEF bookVars, BookTypeOK
<1>5. TypeOK BY DEF TypeInv
<1>6. ASSUME CountAll PROVE TypeInv'
  <2>. DEFINE r == [fetch.request EXCEPT
                      !.all = Cardinality(Entire),
                      !.total = IF Phrase = None THEN Cardinality(Entire) ELSE @]
  <2>1. fetch # None /\ Sound(fetch) /\ fetch.request.all = None /\ Progress(r)
    BY <1>2, <1>6 DEF CountAll
  <2>2. fetch.request \in InFlight /\ Cardinality(Entire) \in Nat
    BY <1>1, <2>1, CountsType DEF Sound, Fetch
  <2>3. r \in InFlight /\ r.ask = fetch.request.ask /\ r.items = fetch.request.items
        /\ r.all = Cardinality(Entire)
        /\ r.total = IF Phrase = None THEN Cardinality(Entire) ELSE fetch.request.total
    BY <2>2 DEF InFlight
  <2>4. (r.items # None => r.total # None) /\ (r.total # None => r.all # None)
    BY <2>1, <2>3 DEF Sound
  <2>. HIDE DEF r
  <2>5. Sound(fetch') /\ fetch' # None BY <2>1, <2>3, <2>4, ProgressSound
  <2>. QED BY <1>1, <1>2, <1>4, <1>6, <2>5, TypeGathers DEF CountAll
<1>7. ASSUME CountMatching PROVE TypeInv'
  <2>. DEFINE r == [fetch.request EXCEPT !.total = Cardinality(Matches)]
  <2>1. fetch # None /\ Sound(fetch) /\ fetch.request.all # None
        /\ fetch.request.total = None /\ Progress(r)
    BY <1>2, <1>7 DEF CountMatching
  <2>2. fetch.request \in InFlight /\ Cardinality(Matches) \in Nat
    BY <1>1, <2>1, CountsType DEF Sound, Fetch
  <2>3. r \in InFlight /\ r.ask = fetch.request.ask /\ r.items = fetch.request.items
        /\ r.all = fetch.request.all /\ r.total = Cardinality(Matches)
    BY <2>2 DEF InFlight
  <2>4. (r.items # None => r.total # None) /\ (r.total # None => r.all # None)
    BY <2>1, <2>3 DEF Sound
  <2>. HIDE DEF r
  <2>5. Sound(fetch') /\ fetch' # None BY <2>1, <2>3, <2>4, ProgressSound
  <2>. QED BY <1>1, <1>2, <1>4, <1>7, <2>5, TypeGathers DEF CountMatching
<1>8. ASSUME Select PROVE TypeInv'
  <2>1. fetch # None /\ Sound(fetch) /\ fetch.request.total # None
        /\ fetch.request.items = None
    BY <1>2, <1>8 DEF Select
  <2>2. PICK s \in Orderings(Matches) :
          LET cut == Cut(s, fetch.request.ask)
          IN  Progress([fetch.request EXCEPT !.items = [k \in 1..Len(cut) |-> Entry(cut[k])]])
    BY <1>8 DEF Select
  <2>. DEFINE items == Cut(InFull(s), fetch.request.ask)
              r == [fetch.request EXCEPT !.items = items]
  <2>3. fetch.request \in InFlight /\ fetch.request.ask \in Ask
    BY <2>1 DEF Sound, Fetch, InFlight
  <2>4. Progress(r) BY <1>1, <2>2, <2>3, PieceIsACut
  <2>5. items \in Seq(EntrySet) BY <1>1, <2>3, CutType DEF Answers
  <2>6. r \in InFlight /\ r.ask = fetch.request.ask
        /\ r.all = fetch.request.all /\ r.total = fetch.request.total
    <3>. HIDE DEF items
    <3>. QED BY <2>3, <2>5 DEF InFlight
  <2>7. (r.items # None => r.total # None) /\ (r.total # None => r.all # None)
    BY <2>1, <2>6 DEF Sound
  <2>. HIDE DEF r
  <2>8. Sound(fetch') /\ fetch' # None BY <2>1, <2>4, <2>6, <2>7, ProgressSound
  <2>9. UNCHANGED <<bookVars, shown, pages, failed, mine, stale, changes, faults>>
    BY <1>8 DEF Select
  <2>. QED BY <1>1, <1>2, <1>4, <2>8, <2>9, TypeGathers
<1>9. ASSUME Deliver PROVE TypeInv'
  <2>. DEFINE fresh == Append(fetch.fresh, fetch.request)
  <2>1. fetch # None /\ Sound(fetch) /\ fetch.request.items # None
    BY <1>2, <1>9 DEF Deliver
  <2>2. fresh \in Seq(Piece) /\ fresh # <<>> /\ StartsWell(fresh) BY <2>1, Arrives
  <2>3. UNCHANGED <<bookVars, shown, mine, stale, changes, faults>> BY <1>9 DEF Deliver
  <2>4. CASE Len(fresh) < fetch.goal /\ HasNext(fresh)
    <3>1. /\ fetch' = [fetch EXCEPT !.fresh = fresh,
                         !.request = Request(NextPage(Loaded(fresh), fetch.shown))]
          /\ UNCHANGED <<pages, failed>>
      BY <1>9, <2>4, Zenon DEF Deliver
    <3>. HIDE DEF fresh
    <3>2. Sound(fetch') /\ fetch' # None BY <1>5, <2>1, <2>4, <3>1, GoesOn DEF fresh
    <3>. QED BY <1>1, <1>2, <1>4, <2>3, <3>1, <3>2, TypeGathers
  <2>5. CASE ~ (Len(fresh) < fetch.goal /\ HasNext(fresh))
    <3>1. pages' = fresh /\ fetch' = None /\ failed' = FALSE
      BY <1>9, <2>5, Zenon DEF Deliver
    <3>. HIDE DEF fresh
    <3>. QED BY <1>1, <1>4, <2>2, <2>3, <3>1, TypeGathers
  <2>. QED BY <2>4, <2>5
<1>10. ASSUME Fill PROVE TypeInv'
  <2>1. Sound(fetch') /\ fetch' # None BY <1>2, <1>5, <1>10, NextPieceSound DEF Fill
  <2>. QED BY <1>1, <1>2, <1>4, <1>10, <2>1, TypeGathers DEF Fill
<1>11. ASSUME Retry PROVE TypeInv'
  <2>. DEFINE r == Request(fetch.request.ask)
  <2>1. fetch # None /\ Sound(fetch) /\ Progress(r) BY <1>2, <1>11 DEF Retry
  <2>2. fetch.request.ask \in Ask BY <2>1 DEF Sound, Fetch, InFlight
  <2>3. /\ r \in InFlight /\ r.ask = fetch.request.ask
        /\ r.total = None /\ r.items = None
    BY <2>2, RequestType
  <2>. HIDE DEF r
  <2>4. Sound(fetch') /\ fetch' # None BY <2>1, <2>3, ProgressSound
  <2>. QED BY <1>1, <1>2, <1>3, <1>4, <1>11, <2>4, TypeGathers DEF Retry
<1>12. ASSUME GiveUp PROVE TypeInv'
  <2>1. stale' \subseteq {"others", "gave up", "lost"} BY <1>1, <1>12 DEF GiveUp
  <2>2. fetch' = None /\ failed' = TRUE /\ faults' \in 0..MaxFaults
        /\ UNCHANGED <<bookVars, shown, pages, mine, changes>>
    BY <1>3, <1>12 DEF GiveUp
  <2>. QED BY <1>1, <1>2, <1>4, <2>1, <2>2, TypeGathers
<1>13. ASSUME LoadMore PROVE TypeInv'
  <2>1. Loaded(pages) + STEP \in Nat
    <3>1. Loaded(pages) \in Nat BY <1>1, HeldType
    <3>2. STEP \in Nat BY SizesAre
    <3>. QED BY <3>1, <3>2
  <2>2. shown' \in STEP..SHOWN_MAX BY <1>13, <2>1, ShownFromType DEF LoadMore
  <2>. QED BY <1>1, <1>2, <1>4, <1>13, <2>2, TypeGathers DEF LoadMore
<1>14. ASSUME TryAgain PROVE TypeInv'
  <2>1. Sound(fetch') /\ fetch' # None
    BY <1>2, <1>5, <1>14, WholeSound DEF TryAgain, ReadAll
  <2>2. stale' = {} /\ failed' \in BOOLEAN /\ UNCHANGED <<bookVars, shown, pages, mine, changes, faults>>
    BY <1>14 DEF TryAgain, ReadAll
  <2>. QED BY <1>1, <1>2, <1>4, <2>1, <2>2, TypeGathers
<1>15. ASSUME OwnWrite PROVE TypeInv'
  <2>1. PICK entry \in ToSet(Held(pages)), author \in Text, message \in Text :
          Amend(entry.id, author, message, clock) \/ Erase(entry.id)
    BY <1>15 DEF OwnWrite
  <2>2. entry.id \in Id
    <3>1. Held(pages) \in Seq(EntrySet) BY <1>1, HeldType
    <3>2. entry \in EntrySet BY <2>1, <3>1, ElementOfSeq, LenProperties DEF ToSet
    <3>. QED BY <3>2 DEF EntrySet
  <2>3. BookNext
    <3>1. clock \in 0..clock
      <4>1. clock \in 0..MaxClock BY <1>1 DEF BookTypeOK
      <4>. QED BY <4>1, ClockAssumption
    <3>. QED BY <2>1, <2>2, <3>1 DEF BookNext
  <2>4. BookTypeOK' BY <1>1, <2>3, BookStep
  <2>5. /\ mine' = "sent" /\ changes' \in 0..MaxChanges
        /\ UNCHANGED <<shown, pages, fetch, failed, stale, faults>>
    BY <1>3, <1>15 DEF OwnWrite
  <2>. QED BY <1>1, <1>2, <2>4, <2>5, TypeGathers
<1>16. ASSUME OwnSuccess PROVE TypeInv'
  <2>1. Sound(fetch') /\ fetch' # None
    BY <1>2, <1>5, <1>16, WholeSound DEF OwnSuccess, ReadAll
  <2>2. stale' = {} /\ mine' = "none"
        /\ UNCHANGED <<bookVars, shown, pages, failed, changes, faults>>
    BY <1>16 DEF OwnSuccess, ReadAll
  <2>. QED BY <1>1, <1>2, <1>4, <2>1, <2>2, TypeGathers
<1>17. ASSUME OwnFailure PROVE TypeInv'
  <2>1. stale' \subseteq {"others", "gave up", "lost"} BY <1>1, <1>17 DEF OwnFailure
  <2>2. mine' = "none" /\ faults' \in 0..MaxFaults
        /\ UNCHANGED <<bookVars, shown, pages, fetch, failed, changes>>
    BY <1>3, <1>17 DEF OwnFailure
  <2>. QED BY <1>1, <1>2, <1>4, <2>1, <2>2, TypeGathers
<1>18. ASSUME Others PROVE TypeInv'
  <2>1. BookTypeOK' BY <1>1, <1>18, BookStep DEF Others
  <2>2. stale' \subseteq {"others", "gave up", "lost"} BY <1>1, <1>18 DEF Others
  <2>3. changes' \in 0..MaxChanges /\ UNCHANGED <<shown, pages, fetch, failed, mine, faults>>
    BY <1>3, <1>18 DEF Others, client
  <2>. QED BY <1>1, <1>2, <2>1, <2>2, <2>3, TypeGathers
<1>19. ASSUME UNCHANGED vars PROVE TypeInv'
  <2>1. UNCHANGED <<bookVars, shown, pages, fetch, failed, mine, stale, changes, faults>>
    BY <1>19 DEF vars, bookVars
  <2>. QED BY <1>1, <1>2, <1>4, <2>1, TypeGathers
<1>. QED
  BY <1>6, <1>7, <1>8, <1>9, <1>10, <1>11, <1>12, <1>13, <1>14, <1>15, <1>16, <1>17, <1>18,
     <1>19 DEF Next, Query

LEMMA TypeInvariant == Spec => []TypeInv
BY TypeInit, TypeStep, PTL DEF Spec

\* Every variable keeps its type, ?shown= its range, and a running fetch has a piece left
\* to read (useGuestbookEntries.ts, entryPaging.ts).
THEOREM TypeCorrect == Spec => []TypeOK
BY TypeInvariant, PTL DEF TypeInv

\* No request the screen sends is one the endpoint refuses: the first piece, the next
\* one, and every piece of a replay stay inside PAGE_SIZE_MAX whatever ?shown= says.
THEOREM RequestsAreWithinTheContract == Spec => []EveryRequestIsWithinTheContract
<1>1. TypeInv => EveryRequestIsWithinTheContract
  BY DEF TypeInv, RequestInv, Sound, EveryRequestIsWithinTheContract
<1>. QED BY <1>1, TypeInvariant, PTL

-----------------------------------------------------------------------------
(* The screen tells the book.                                              *)

\* What the pieces hold is where the answer begins, and the last of them has both counts.
Tells(ps, answers, total, all) ==
  ps = <<>> \/ \E a \in answers : /\ IsPrefix(Held(ps), a)
                                  /\ Last(ps).total = total /\ Last(ps).all = all

\* What the statements of a request have read is what the book holds.
Current(r, answers, total, all) ==
  /\ r.all # None => r.all = all
  /\ r.total # None => r.total = total
  /\ r.items # None => \E a \in answers : r.items = Cut(a, r.ask)

\* As long as no write is unanswered and nothing has spoilt the last read of all the
\* pieces, what the running fetch has read tells the book, and so do the pieces in the
\* cache, except while all of them are being replaced.
BookInv ==
  stale = {} /\ mine = "none" =>
    /\ fetch # None =>
         /\ Tells(fetch.fresh, Answers, Cardinality(Matches), Cardinality(Entire))
         /\ Current(fetch.request, Answers, Cardinality(Matches), Cardinality(Entire))
    /\ fetch = None \/ fetch.goal = Len(pages) + 1 =>
         Tells(pages, Answers, Cardinality(Matches), Cardinality(Entire))

LEMMA TellsNothing ==
  ASSUME NEW answers, NEW total, NEW all
  PROVE  Tells(<<>>, answers, total, all)
  BY DEF Tells

LEMMA CurrentNothing ==
  ASSUME NEW r, r.all = None, r.total = None, r.items = None,
         NEW answers, NEW total, NEW all
  PROVE  Current(r, answers, total, all)
  BY DEF Current

\* The piece that arrives carries on where the pieces before it ended.
LEMMA ArrivalTells ==
  ASSUME BookTypeOK, fetch # None, Sound(fetch), fetch.request.items # None,
         NEW total, NEW all,
         Tells(fetch.fresh, Answers, total, all), Current(fetch.request, Answers, total, all)
  PROVE  Tells(Append(fetch.fresh, fetch.request), Answers, total, all)
<1>. DEFINE fresh == Append(fetch.fresh, fetch.request)
<1>1. /\ fetch.fresh \in Seq(Piece)
      /\ Last(fresh) = fetch.request
      /\ Held(fresh) = Held(fetch.fresh) \o fetch.request.items
  BY Arrives
<1>. HIDE DEF fresh
<1>2. Held(fetch.fresh) \in Seq(EntrySet) BY <1>1, HeldType
<1>3. PICK a \in Answers : fetch.request.items = Cut(a, fetch.request.ask) BY DEF Current
<1>4. a \in Seq(EntrySet) BY AnswerIs
<1>5. IsPrefix(Held(fetch.fresh), a)
  <2>1. CASE fetch.fresh = <<>>
    <3>1. Held(fetch.fresh) = <<>> /\ Len(<<>>) = 0 BY <2>1, HeldEmpty, EmptySeq
    <3>2. Len(a) \in Nat BY <1>4, LenProperties
    <3>3. SubSeq(a, 1, 0) = <<>> /\ SubSeq(<<>>, 1, 0) = <<>> BY SubSeqEmpty
    <3>. QED BY <3>1, <3>2, <3>3 DEF IsPrefix
  <2>2. CASE fetch.fresh # <<>>
    <3>1. PICK b \in Answers : IsPrefix(Held(fetch.fresh), b) BY <2>2 DEF Tells
    <3>2. a = b BY OneAnswer
    <3>. QED BY <3>1, <3>2
  <2>. QED BY <2>1, <2>2
<1>6. fetch.request.ask \in Ask /\ fetch.request.ask.offset = Len(Held(fetch.fresh))
  BY DEF Sound, Fetch, InFlight, Loaded
<1>7. IsPrefix(Held(fresh), a) BY <1>1, <1>2, <1>3, <1>4, <1>5, <1>6, CutContinues
<1>8. Last(fresh).total = total /\ Last(fresh).all = all
  <2>1. fetch.request.total # None /\ fetch.request.all # None BY DEF Sound
  <2>. QED BY <1>1, <2>1 DEF Current
<1>9. Tells(fresh, Answers, total, all) BY <1>7, <1>8 DEF Tells
<1>. QED BY <1>9 DEF fresh

LEMMA BookInvInit == Init => BookInv
<1>. SUFFICES ASSUME Init PROVE BookInv OBVIOUS
<1>1. TypeInv BY TypeInit
<1>2. fetch = Whole /\ pages = <<>> BY DEF Init
<1>3. /\ Whole.fresh = <<>>
      /\ Whole.request.all = None /\ Whole.request.total = None /\ Whole.request.items = None
  BY <1>1, WholeSound DEF TypeInv, RequestInv
<1>. QED BY <1>2, <1>3, TellsNothing, CurrentNothing DEF BookInv

LEMMA BookInvStep == TypeInv /\ TypeInv' /\ BookInv /\ [Next]_vars => BookInv'
<1>. DEFINE total == Cardinality(Matches)
            all == Cardinality(Entire)
<1>. SUFFICES ASSUME TypeInv, TypeInv', BookInv, [Next]_vars, stale' = {}, mine' = "none"
              PROVE  /\ fetch' # None => /\ Tells(fetch'.fresh, Answers', total', all')
                                         /\ Current(fetch'.request, Answers', total', all')
                     /\ fetch' = None \/ fetch'.goal = Len(pages') + 1 =>
                          Tells(pages', Answers', total', all')
  BY DEF BookInv
<1>1. TypeOK /\ BookTypeOK /\ StartsWell(pages) /\ (fetch # None => Sound(fetch))
  BY DEF TypeInv, TypeOK, RequestInv
<1>2. ASSUME UNCHANGED bookVars
      PROVE  Answers' = Answers /\ total' = total /\ all' = all
  BY <1>2, SameAnswer DEF bookVars
<1>3. ASSUME stale = {}, mine = "none"
      PROVE  /\ fetch # None => /\ Tells(fetch.fresh, Answers, total, all)
                                /\ Current(fetch.request, Answers, total, all)
             /\ fetch = None \/ fetch.goal = Len(pages) + 1 => Tells(pages, Answers, total, all)
  BY <1>3 DEF BookInv
<1>. DEFINE Goal == /\ fetch' # None => /\ Tells(fetch'.fresh, Answers', total', all')
                                        /\ Current(fetch'.request, Answers', total', all')
                    /\ fetch' = None \/ fetch'.goal = Len(pages') + 1 =>
                         Tells(pages', Answers', total', all')
<1>4. ASSUME CountAll PROVE Goal
  <2>. DEFINE r == [fetch.request EXCEPT
                      !.all = Cardinality(Entire),
                      !.total = IF Phrase = None THEN Cardinality(Entire) ELSE @]
  <2>1. /\ fetch # None /\ Sound(fetch) /\ fetch.request.all = None /\ Progress(r)
        /\ stale = {} /\ mine = "none" /\ pages' = pages /\ UNCHANGED bookVars
    BY <1>1, <1>4 DEF CountAll
  <2>2. fetch.request \in InFlight /\ all \in Nat
    BY <1>1, <2>1, CountsType DEF Sound, Fetch
  <2>3. r \in InFlight /\ r.ask = fetch.request.ask /\ r.items = fetch.request.items
        /\ r.all = all
        /\ r.total = IF Phrase = None THEN all ELSE fetch.request.total
    BY <2>2 DEF InFlight
  <2>4. fetch.request.total = None /\ fetch.request.items = None BY <2>1 DEF Sound
  <2>. HIDE DEF r
  <2>5. fetch' # None /\ fetch'.request = r /\ fetch'.fresh = fetch.fresh
        /\ fetch'.goal = fetch.goal
    BY <2>1, <2>3, <2>4, ProgressSound
  <2>6. Phrase = None => all = total BY DEF Matches, Entire, Hits
  <2>. HIDE DEF total, all
  <2>7. Current(r, Answers, total, all) BY <2>3, <2>4, <2>6 DEF Current
  <2>. QED BY <1>2, <1>3, <2>1, <2>5, <2>7
<1>5. ASSUME CountMatching PROVE Goal
  <2>. DEFINE r == [fetch.request EXCEPT !.total = Cardinality(Matches)]
  <2>1. /\ fetch # None /\ Sound(fetch) /\ fetch.request.all # None
        /\ fetch.request.total = None /\ Progress(r)
        /\ stale = {} /\ mine = "none" /\ pages' = pages /\ UNCHANGED bookVars
    BY <1>1, <1>5 DEF CountMatching
  <2>2. fetch.request \in InFlight /\ total \in Nat
    BY <1>1, <2>1, CountsType DEF Sound, Fetch
  <2>3. r \in InFlight /\ r.ask = fetch.request.ask /\ r.items = fetch.request.items
        /\ r.all = fetch.request.all /\ r.total = total
    BY <2>2 DEF InFlight
  <2>4. fetch.request.items = None BY <2>1 DEF Sound
  <2>. HIDE DEF r
  <2>5. fetch' # None /\ fetch'.request = r /\ fetch'.fresh = fetch.fresh
        /\ fetch'.goal = fetch.goal
    BY <2>1, <2>3, <2>4, ProgressSound
  <2>. HIDE DEF total, all
  <2>6. Current(fetch.request, Answers, total, all) BY <1>3, <2>1
  <2>7. Current(r, Answers, total, all) BY <2>3, <2>4, <2>6 DEF Current
  <2>. QED BY <1>2, <1>3, <2>1, <2>5, <2>7
<1>6. ASSUME Select PROVE Goal
  <2>1. /\ fetch # None /\ Sound(fetch) /\ fetch.request.total # None
        /\ fetch.request.items = None
        /\ stale = {} /\ mine = "none" /\ pages' = pages /\ UNCHANGED bookVars
    BY <1>1, <1>6 DEF Select
  <2>2. PICK s \in Orderings(Matches) :
          LET cut == Cut(s, fetch.request.ask)
          IN  Progress([fetch.request EXCEPT !.items = [k \in 1..Len(cut) |-> Entry(cut[k])]])
    BY <1>6 DEF Select
  <2>. DEFINE items == Cut(InFull(s), fetch.request.ask)
              r == [fetch.request EXCEPT !.items = items]
  <2>3. fetch.request \in InFlight /\ fetch.request.ask \in Ask
    BY <2>1 DEF Sound, Fetch, InFlight
  <2>4. Progress(r) BY <1>1, <2>2, <2>3, PieceIsACut
  <2>5. InFull(s) \in Answers BY DEF Answers
  <2>6. items \in Seq(EntrySet) BY <1>1, <2>3, <2>5, CutType
  <2>7. r \in InFlight /\ r.ask = fetch.request.ask /\ r.items = items
        /\ r.all = fetch.request.all /\ r.total = fetch.request.total
    <3>. HIDE DEF items
    <3>. QED BY <2>3, <2>6 DEF InFlight
  <2>8. (r.items # None => r.total # None) /\ (r.total # None => r.all # None)
    BY <2>1, <2>7 DEF Sound
  <2>. HIDE DEF r
  <2>9. fetch' # None /\ fetch'.request = r /\ fetch'.fresh = fetch.fresh
        /\ fetch'.goal = fetch.goal
    BY <2>1, <2>4, <2>7, <2>8, ProgressSound
  <2>. HIDE DEF total, all
  <2>10. Current(fetch.request, Answers, total, all) BY <1>3, <2>1
  <2>11. \E a \in Answers : r.items = Cut(a, r.ask) BY <2>5, <2>7
  <2>12. Current(r, Answers, total, all) BY <2>7, <2>10, <2>11 DEF Current
  <2>. QED BY <1>2, <1>3, <2>1, <2>9, <2>12
<1>7. ASSUME Deliver PROVE Goal
  <2>. DEFINE fresh == Append(fetch.fresh, fetch.request)
  <2>1. /\ fetch # None /\ Sound(fetch) /\ fetch.request.items # None
        /\ stale = {} /\ mine = "none" /\ UNCHANGED bookVars
    BY <1>1, <1>7 DEF Deliver
  <2>. HIDE DEF total, all
  <2>2. Tells(fresh, Answers, total, all) BY <1>1, <1>3, <2>1, ArrivalTells
  <2>3. CASE Len(fresh) < fetch.goal /\ HasNext(fresh)
    <3>1. /\ fetch' = [fetch EXCEPT !.fresh = fresh,
                         !.request = Request(NextPage(Loaded(fresh), fetch.shown))]
          /\ pages' = pages
      BY <1>7, <2>3, Zenon DEF Deliver
    <3>. HIDE DEF fresh
    <3>2. /\ fetch' # None /\ fetch'.fresh = fresh /\ fetch'.goal = fetch.goal
          /\ fetch'.request.all = None /\ fetch'.request.total = None
          /\ fetch'.request.items = None
      BY <1>1, <2>1, <2>3, <3>1, GoesOn DEF fresh
    <3>3. Current(fetch'.request, Answers, total, all) BY <3>2, CurrentNothing
    <3>. QED BY <1>2, <1>3, <2>1, <2>2, <3>1, <3>2, <3>3
  <2>4. CASE ~ (Len(fresh) < fetch.goal /\ HasNext(fresh))
    <3>1. pages' = fresh /\ fetch' = None BY <1>7, <2>4, Zenon DEF Deliver
    <3>. HIDE DEF fresh
    <3>. QED BY <1>2, <2>1, <2>2, <3>1
  <2>. QED BY <2>3, <2>4
<1>8. ASSUME Fill PROVE Goal
  <2>1. fetch = None /\ fetch' = NextPiece /\ stale = {} /\ mine = "none" /\ pages' = pages
        /\ UNCHANGED bookVars
    BY <1>8 DEF Fill
  <2>2. /\ NextPiece.fresh = pages
        /\ NextPiece.request.all = None /\ NextPiece.request.total = None
        /\ NextPiece.request.items = None
    BY <1>1, NextPieceSound
  <2>. HIDE DEF total, all
  <2>3. Current(fetch'.request, Answers, total, all) BY <2>1, <2>2, CurrentNothing
  <2>4. Tells(pages, Answers, total, all) BY <1>3, <2>1
  <2>5. fetch'.fresh = pages BY <2>1, <2>2
  <2>. QED BY <1>2, <2>1, <2>3, <2>4, <2>5
<1>9. ASSUME Retry PROVE Goal
  <2>. DEFINE r == Request(fetch.request.ask)
  <2>1. /\ fetch # None /\ Sound(fetch) /\ Progress(r)
        /\ stale = {} /\ mine = "none" /\ pages' = pages /\ UNCHANGED bookVars
    BY <1>1, <1>9 DEF Retry
  <2>2. fetch.request.ask \in Ask BY <2>1 DEF Sound, Fetch, InFlight
  <2>3. /\ r \in InFlight /\ r.ask = fetch.request.ask
        /\ r.all = None /\ r.total = None /\ r.items = None
    BY <2>2, RequestType
  <2>. HIDE DEF r
  <2>4. fetch' # None /\ fetch'.request = r /\ fetch'.fresh = fetch.fresh
        /\ fetch'.goal = fetch.goal
    BY <2>1, <2>3, ProgressSound
  <2>. HIDE DEF total, all
  <2>5. Current(r, Answers, total, all) BY <2>3, CurrentNothing
  <2>. QED BY <1>2, <1>3, <2>1, <2>4, <2>5
<1>10. ASSUME GiveUp PROVE Goal
  <2>1. /\ fetch # None /\ fetch' = None /\ pages' = pages /\ mine = "none"
        /\ stale' = IF fetch.goal = Len(pages) + 1 THEN stale ELSE stale \cup {"gave up"}
        /\ UNCHANGED bookVars
    BY <1>10 DEF GiveUp
  <2>2. fetch.goal = Len(pages) + 1 /\ stale = {} BY <2>1
  <2>. HIDE DEF total, all
  <2>. QED BY <1>2, <1>3, <2>1, <2>2
<1>11. ASSUME fetch' = Whole, UNCHANGED <<bookVars, pages>> PROVE Goal
  <2>1. /\ Whole.fresh = <<>> /\ Whole # None
        /\ Whole.request.all = None /\ Whole.request.total = None
        /\ Whole.request.items = None
        /\ pages # <<>> => Whole.goal # Len(pages) + 1
    BY <1>1, WholeSound
  <2>. HIDE DEF total, all
  <2>2. Tells(<<>>, Answers, total, all) BY TellsNothing
  <2>3. Current(fetch'.request, Answers, total, all) BY <1>11, <2>1, CurrentNothing
  <2>4. fetch' = None \/ fetch'.goal = Len(pages') + 1 => pages' = <<>> BY <1>11, <2>1
  <2>5. fetch'.fresh = <<>> BY <1>11, <2>1
  <2>. QED BY <1>2, <1>11, <2>2, <2>3, <2>4, <2>5
<1>12. ASSUME TryAgain \/ OwnSuccess PROVE Goal
  <2>1. fetch' = Whole /\ UNCHANGED <<bookVars, pages>>
    BY <1>12 DEF TryAgain, OwnSuccess, ReadAll
  <2>. QED BY <1>11, <2>1
<1>13. ASSUME UNCHANGED <<bookVars, pages, fetch, mine, stale>> PROVE Goal
  <2>. HIDE DEF total, all
  <2>. QED BY <1>2, <1>3, <1>13
<1>14. CASE LoadMore BY <1>13, <1>14 DEF LoadMore
<1>15. CASE UNCHANGED vars BY <1>13, <1>15 DEF vars, bookVars
<1>16. CASE OwnWrite BY <1>16 DEF OwnWrite
<1>17. CASE OwnFailure BY <1>17 DEF OwnFailure
<1>18. CASE Others BY <1>18 DEF Others
<1>. QED
  BY <1>4, <1>5, <1>6, <1>7, <1>8, <1>9, <1>10, <1>12, <1>14, <1>15, <1>16, <1>17, <1>18
  DEF Next, Query

LEMMA BookInvariant == Spec => []BookInv
<1>1. Init /\ [][Next]_vars /\ []TypeInv => []BookInv BY BookInvInit, BookInvStep, PTL
<1>. QED BY <1>1, TypeInvariant, PTL DEF Spec

\* A screen at rest shows the first entries of the answer, none twice and none left out,
\* with both counts right, however many requests it took, however they failed meanwhile,
\* and with the reader's own writes in it (useGuestbookEntries.ts, repository.py).
THEOREM ScreenIsTheBook == Spec => []ScreenTellsTheBook
<1>1. TypeInv /\ BookInv => ScreenTellsTheBook
  <2>. SUFFICES ASSUME TypeInv, BookInv, Settled, stale = {} PROVE TellsTheBook
    BY DEF ScreenTellsTheBook
  <2>1. fetch = None /\ mine = "none" /\ pages # <<>>
    BY DEF Settled, TypeInv, RequestInv
  <2>2. PICK a \in Answers : /\ IsPrefix(Held(pages), a)
                             /\ Last(pages).total = Cardinality(Matches)
                             /\ Last(pages).all = Cardinality(Entire)
    BY <2>1 DEF BookInv, Tells
  <2>3. PICK s \in Orderings(Matches) : a = [k \in 1..Len(s) |-> Entry(s[k])]
    BY DEF Answers, InFull
  <2>. QED BY <2>2, <2>3 DEF TellsTheBook
<1>. QED BY <1>1, TypeInvariant, BookInvariant, PTL
=============================================================================
