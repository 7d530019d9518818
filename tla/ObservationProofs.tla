--------------------------- MODULE ObservationProofs ---------------------------
(***************************************************************************)
(* Facts about observations that the proofs about collection rest on:      *)
(* their order, what Preserved publishes, what Folded shows.               *)
(***************************************************************************)
EXTENDS Observation, FiniteSets, FiniteSetTheorems, WellFoundedInduction, TLAPS

-----------------------------------------------------------------------------
(* Maxima of finite sets.                                                  *)

\* A finite set with a strict order has an element with none above it: one with the least
\* set of elements above it.
LEMMA FiniteMaximal ==
  ASSUME NEW S, IsFiniteSet(S), S # {}, NEW R,
         \A x \in S : <<x, x>> \notin R,
         \A x, y, z \in S : <<x, y>> \in R /\ <<y, z>> \in R => <<x, z>> \in R
  PROVE  \E x \in S : \A y \in S : <<x, y>> \notin R
  <1> DEFINE Above(x) == {y \in S : <<x, y>> \in R}
             Sets == {Above(x) : x \in S}
  <1>1. Sets \subseteq FiniteSubsetsOf(S)
    <2> SUFFICES ASSUME NEW x \in S
                 PROVE  Above(x) \in FiniteSubsetsOf(S)
      OBVIOUS
    <2>1. Above(x) \in SUBSET S
      OBVIOUS
    <2> QED
      BY <2>1, FS_Subset DEF FiniteSubsetsOf
  <1>2. Sets # {}
    <2>1. PICK x \in S : TRUE
      OBVIOUS
    <2>2. Above(x) \in Sets
      BY <2>1
    <2> QED
      BY <2>2
  <1>3. IsWellFoundedOn(StrictSubsetOrdering(S), FiniteSubsetsOf(S))
    BY FS_StrictSubsetOrderingWellFounded
  <1> HIDE DEF Sets
  <1>4. PICK least \in Sets : \A A \in Sets : <<A, least>> \notin StrictSubsetOrdering(S)
    BY <1>1, <1>2, <1>3, WFMin, Zenon
  <1>5. PICK x \in S : least = Above(x)
    BY DEF Sets
  <1>6. ASSUME NEW y \in S, <<x, y>> \in R
        PROVE  FALSE
    <2>1. Above(y) \subseteq Above(x) /\ y \in Above(x) \ Above(y)
      BY <1>6
    <2>2. Above(y) \in Sets /\ Above(y) \in SUBSET S /\ Above(x) \in SUBSET S
      BY DEF Sets
    <2>3. <<Above(y), Above(x)>> \in StrictSubsetOrdering(S)
      BY <2>1, <2>2 DEF StrictSubsetOrdering
    <2> QED
      BY <1>4, <1>5, <2>2, <2>3
  <1> QED
    BY <1>6

\* A finite set of natural numbers has a greatest one.
LEMMA FiniteGreatest ==
  ASSUME NEW S \in SUBSET Nat, IsFiniteSet(S), S # {}
  PROVE  \E m \in S : \A n \in S : n <= m
  <1> DEFINE R == {p \in S \X S : p[1] < p[2]}
  <1>1. \A x \in S : <<x, x>> \notin R
    OBVIOUS
  <1>2. \A x, y, z \in S : <<x, y>> \in R /\ <<y, z>> \in R => <<x, z>> \in R
    OBVIOUS
  <1>3. \A x, y \in S : x < y => <<x, y>> \in R
    OBVIOUS
  <1> HIDE DEF R
  <1>4. PICK m \in S : \A n \in S : <<m, n>> \notin R
    BY <1>1, <1>2, FiniteMaximal
  <1>5. \A n \in S : ~(m < n)
    BY <1>3, <1>4
  <1>6. m \in Nat /\ S \subseteq Nat
    OBVIOUS
  <1> QED
    BY <1>5, <1>6

\* And a least one.
LEMMA FiniteLeast ==
  ASSUME NEW S \in SUBSET Nat, IsFiniteSet(S), S # {}
  PROVE  \E m \in S : \A n \in S : m <= n
  <1> DEFINE R == {p \in S \X S : p[2] < p[1]}
  <1>1. \A x \in S : <<x, x>> \notin R
    OBVIOUS
  <1>2. \A x, y, z \in S : <<x, y>> \in R /\ <<y, z>> \in R => <<x, z>> \in R
    OBVIOUS
  <1>3. \A x, y \in S : y < x => <<x, y>> \in R
    OBVIOUS
  <1> HIDE DEF R
  <1>4. PICK m \in S : \A n \in S : <<m, n>> \notin R
    BY <1>1, <1>2, FiniteMaximal
  <1>5. \A n \in S : ~(n < m)
    BY <1>3, <1>4
  <1>6. m \in Nat /\ S \subseteq Nat
    OBVIOUS
  <1> QED
    BY <1>5, <1>6

-----------------------------------------------------------------------------
(* The order of observations.                                              *)

\* The fields of an observation.
LEMMA RowParts ==
  ASSUME NEW r \in Row
  PROVE  /\ r.at \in Nat /\ r.tokens \in Nat /\ r.run \in Runs /\ r.run \in Nat
         /\ r # NoRow /\ Tokens(r) = r.tokens
  BY ObservationAssumption DEF Row, Tokens

\* Observations of one time, usage and run are the same.
LEMMA RowEquality ==
  ASSUME NEW r \in Row, NEW s \in Row
  PROVE  r = s <=> r.at = s.at /\ r.tokens = s.tokens /\ r.run = s.run
  BY DEF Row

\* Newer is a strict total order: of two observations one is shown, whichever comes first.
THEOREM NewerIsOrder ==
  \A r, s, t \in Row :
    /\ ~Newer(r, r)
    /\ Newer(r, s) /\ Newer(s, t) => Newer(r, t)
    /\ r = s \/ Newer(r, s) \/ Newer(s, r)
  <1> SUFFICES ASSUME NEW r \in Row, NEW s \in Row, NEW t \in Row
               PROVE  /\ ~Newer(r, r)
                      /\ Newer(r, s) /\ Newer(s, t) => Newer(r, t)
                      /\ r = s \/ Newer(r, s) \/ Newer(s, r)
    OBVIOUS
  <1>1. ~Newer(r, r)
    BY RowParts DEF Newer
  <1>2. Newer(r, s) /\ Newer(s, t) => Newer(r, t)
    BY RowParts DEF Newer
  <1>3. r = s \/ Newer(r, s) \/ Newer(s, r)
    BY RowParts, RowEquality DEF Newer
  <1> QED
    BY <1>1, <1>2, <1>3

\* AtLeast is a partial order.
LEMMA AtLeastTransitive ==
  ASSUME NEW r \in Row, NEW s \in Row, NEW t \in Row, AtLeast(r, s), AtLeast(s, t)
  PROVE  AtLeast(r, t)
  BY NewerIsOrder DEF AtLeast

\* Two observations that supersede each other are the same.
LEMMA AtLeastAntisymmetric ==
  ASSUME NEW r \in Row, NEW s \in Row, AtLeast(r, s), AtLeast(s, r)
  PROVE  r = s
  BY NewerIsOrder DEF AtLeast

\* The newest of finitely many observations is one of them, and none is newer.
LEMMA NewestIs ==
  ASSUME NEW rows \in SUBSET Row, IsFiniteSet(rows), rows # {}
  PROVE  Newest(rows) \in rows /\ \A s \in rows : AtLeast(Newest(rows), s)
  <1> DEFINE R == {p \in rows \X rows : Newer(p[2], p[1])}
  <1>1. \A x \in rows : <<x, x>> \notin R
    BY NewerIsOrder
  <1>2. \A x, y, z \in rows : <<x, y>> \in R /\ <<y, z>> \in R => <<x, z>> \in R
    BY NewerIsOrder
  <1>3. \A x, y \in rows : Newer(y, x) => <<x, y>> \in R
    OBVIOUS
  <1> HIDE DEF R
  <1>4. PICK m \in rows : \A n \in rows : <<m, n>> \notin R
    BY <1>1, <1>2, FiniteMaximal
  <1>5. \A n \in rows : AtLeast(m, n)
    BY <1>3, <1>4, NewerIsOrder DEF AtLeast
  <1> QED
    BY <1>5 DEF Newest

\* What supersedes all of them is the newest of them.
LEMMA NewestUnique ==
  ASSUME NEW rows \in SUBSET Row, IsFiniteSet(rows), NEW m \in rows,
         \A s \in rows : AtLeast(m, s)
  PROVE  Newest(rows) = m
  BY NewestIs, AtLeastAntisymmetric

-----------------------------------------------------------------------------
(* What is published, and what is shown.                                   *)

\* The greater of two numbers is one of them, and no less than either.
LEMMA GreaterIs ==
  ASSUME NEW m \in Nat, NEW n \in Nat
  PROVE  Greater(m, n) \in Nat /\ Greater(m, n) >= m /\ Greater(m, n) >= n
         /\ Greater(m, n) \in {m, n}
  BY DEF Greater

\* No observation shows no tokens.
LEMMA TokensType ==
  ASSUME NEW r \in Rows
  PROVE  Tokens(r) \in Nat
  BY RowParts DEF Rows, Tokens

\* What is published of an observation has its time and run, and shows no fewer tokens than
\* were read, nor than the history showed; if nothing is, that showed a newer one.
LEMMA PreservedIs ==
  ASSUME NEW row \in Row, NEW prior \in Rows
  PROVE  LET p == Preserved(row, prior) IN
         /\ p \in Rows
         /\ p # NoRow => /\ p \in Row /\ p.at = row.at /\ p.run = row.run
                         /\ p.tokens >= row.tokens /\ p.tokens >= Tokens(prior)
                         /\ p.tokens \in {row.tokens, Tokens(prior)}
         /\ p = NoRow => prior \in Row /\ AtLeast(prior, row)
  <1>1. CASE prior = NoRow
    BY <1>1, RowParts DEF Preserved, Rows, Tokens
  <1>2. CASE prior # NoRow /\ Newer(row, prior)
    <2>1. prior \in Row
      BY <1>2 DEF Rows
    <2>2. Greater(row.tokens, prior.tokens) \in Nat
      BY <2>1, RowParts, GreaterIs
    <2>3. Preserved(row, prior) = [row EXCEPT !.tokens = Greater(row.tokens, prior.tokens)]
      BY <1>2 DEF Preserved
    <2>4. /\ Preserved(row, prior) \in Row /\ Preserved(row, prior).at = row.at
          /\ Preserved(row, prior).run = row.run
          /\ Preserved(row, prior).tokens = Greater(row.tokens, prior.tokens)
      BY <2>2, <2>3 DEF Row
    <2>5. /\ row.tokens \in Nat /\ prior.tokens \in Nat
          /\ Tokens(prior) = prior.tokens
      BY <2>1, RowParts
    <2>6. /\ Greater(row.tokens, prior.tokens) >= row.tokens
          /\ Greater(row.tokens, prior.tokens) >= prior.tokens
          /\ Greater(row.tokens, prior.tokens) \in {row.tokens, prior.tokens}
      BY <2>5, GreaterIs
    <2>7. Preserved(row, prior) # NoRow
      BY <2>4, RowParts
    <2> QED
      BY <2>4, <2>5, <2>6, <2>7 DEF Rows
  <1>3. CASE prior # NoRow /\ ~Newer(row, prior)
    BY <1>3, NewerIsOrder, RowParts DEF Preserved, Rows, AtLeast
  <1> QED
    BY <1>1, <1>2, <1>3

\* What is shown of some observations has the time and the run of the newest, is superseded
\* by none of them, and has no fewer tokens than the newest, nor than the compacted one.
LEMMA FoldedIs ==
  ASSUME NEW gold \in Rows, NEW rows \in SUBSET Row, IsFiniteSet(rows)
  PROVE  LET all == rows \cup ({gold} \ {NoRow})
             shown == Folded(gold, rows) IN
         /\ shown \in Rows
         /\ shown = NoRow <=> rows = {} /\ gold = NoRow
         /\ shown # NoRow =>
              \E newest \in all :
                /\ \A s \in all : AtLeast(newest, s)
                /\ shown \in Row /\ shown.at = newest.at /\ shown.run = newest.run
                /\ shown.tokens = Greater(newest.tokens, Tokens(gold))
                /\ shown.tokens >= newest.tokens /\ shown.tokens >= Tokens(gold)
         /\ \A s \in all : AtLeast(shown, s)
  <1> DEFINE all == rows \cup ({gold} \ {NoRow})
             shown == Folded(gold, rows)
  <1>1. all \in SUBSET Row /\ IsFiniteSet(all)
    <2>1. IsFiniteSet({gold} \ {NoRow})
      BY FS_Singleton, FS_EmptySet, FS_Subset
    <2> QED
      BY <2>1, FS_Union DEF Rows
  <1>2. NoRow \notin all
    BY <1>1, RowParts
  <1>3. CASE all = {}
    <2>1. shown = NoRow
      BY <1>3 DEF Folded
    <2> QED
      BY <1>3, <2>1 DEF Rows
  <1>4. CASE all # {}
    <2> DEFINE newest == Newest(all)
    <2>1. newest \in all /\ \A s \in all : AtLeast(newest, s)
      BY <1>1, <1>4, NewestIs
    <2>2. newest \in Row
      BY <1>1, <2>1
    <2>3. shown = [newest EXCEPT !.tokens = Greater(newest.tokens, Tokens(gold))]
      BY <1>4 DEF Folded
    <2>4. newest.tokens \in Nat /\ Tokens(gold) \in Nat
      BY <2>2, RowParts, TokensType
    <2> DEFINE most == Greater(newest.tokens, Tokens(gold))
    <2>5. most \in Nat /\ most >= newest.tokens /\ most >= Tokens(gold)
      BY <2>4, GreaterIs
    <2> HIDE DEF newest, shown
    <2>6. /\ shown \in Row /\ shown.at = newest.at /\ shown.run = newest.run
          /\ shown.tokens = most
      BY <2>2, <2>3, <2>5 DEF Row
    <2>7. shown # NoRow /\ shown \in Rows
      BY <2>6, RowParts DEF Rows
    <2>8. AtLeast(shown, newest)
      BY <2>2, <2>5, <2>6, RowParts, RowEquality DEF AtLeast, Newer
    <2>9. \A s \in all : AtLeast(shown, s)
      BY <1>1, <2>1, <2>2, <2>6, <2>8, AtLeastTransitive
    <2>10. ~(rows = {} /\ gold = NoRow)
      BY <1>4
    <2>11. /\ \A s \in all : AtLeast(newest, s)
           /\ shown \in Row /\ shown.at = newest.at /\ shown.run = newest.run
           /\ shown.tokens = most /\ shown.tokens >= newest.tokens
           /\ shown.tokens >= Tokens(gold)
      BY <2>1, <2>5, <2>6
    <2> QED
      BY <2>1, <2>7, <2>9, <2>10, <2>11 DEF shown
  <1> QED
    BY <1>3, <1>4
=============================================================================
