---------------------------- MODULE ListingProofs ----------------------------
(***************************************************************************)
(* Proofs about Listing for any rows, times, ties and page sizes.          *)
(***************************************************************************)
EXTENDS Listing, FiniteSetTheorems, WellFoundedInduction, TLAPS

\* A non-empty set of numbers has a least one.
LEMMA LeastExists ==
    ASSUME NEW S \in SUBSET Nat, S # {}
    PROVE  \E n \in S : \A k \in S : n <= k
<1>1. PICK n \in S : \A k \in S : <<k, n>> \notin OpToRel(<, Nat)
  BY NatLessThanWellFounded, WFMin
<1>2. ASSUME NEW k \in S PROVE n <= k
  <2>1. k \in Nat /\ n \in Nat /\ <<k, n>> \in Nat \X Nat
    OBVIOUS
  <2>2. ~(k < n)
    BY <1>1, <2>1 DEF OpToRel
  <2> QED
    BY <2>1, <2>2
<1> QED
  BY <1>2

\* The last row of a page exists and is one of the page: the least created_at,
\* and the least id of the rows that share it.
LEMMA LastExists ==
    ASSUME TypeOK, NEW page \in SUBSET visible, page # {}
    PROVE  /\ LastOf(page) \in page
           /\ \A s \in page : s = LastOf(page) \/ Follows(LastOf(page), s)
<1> DEFINE Dates  == {createdAt[r] : r \in page}
<1>1. Dates \in SUBSET Nat /\ Dates # {} /\ page \subseteq Nat
  <2>1. page \subseteq Nat /\ \A r \in page : createdAt[r] \in Nat
    BY RowAssumption DEF TypeOK
  <2>2. PICK r \in page : TRUE
    OBVIOUS
  <2>3. createdAt[r] \in Dates
    BY <2>2
  <2> QED
    BY <2>1, <2>3
<1> HIDE DEF Dates
<1>2. PICK t \in Dates : \A u \in Dates : t <= u
  BY <1>1, LeastExists
<1> DEFINE Oldest == {r \in page : createdAt[r] = t}
<1>3. Oldest \in SUBSET Nat /\ Oldest # {}
  BY <1>1, <1>2 DEF Dates
<1>4. PICK r \in Oldest : \A s \in Oldest : r <= s
  <2> HIDE DEF Oldest
  <2> QED
    BY <1>3, LeastExists
<1>5. r \in page
  BY <1>4
<1>6. ASSUME NEW s \in page PROVE s = r \/ Follows(r, s)
  <2>1. createdAt[r] = t /\ createdAt[s] \in Dates
    BY <1>4 DEF Dates
  <2>2. t \in Nat /\ createdAt[s] \in Nat /\ t <= createdAt[s] /\ s \in Nat /\ r \in Nat
    BY <1>1, <1>2, <1>5, <2>1
  <2>3. createdAt[s] = t => r <= s
    BY <1>4
  <2> QED
    BY <2>1, <2>2, <2>3 DEF Follows
<1> QED
  BY <1>5, <1>6 DEF LastOf

\* A page with a cursor for the next one is not empty.
LEMMA FullPage ==
    ASSUME TypeOK, NEW page, Cardinality(page) = limit
    PROVE  page # {}
BY FS_EmptySet DEF TypeOK

\* Every variable keeps its type; a page never exceeds MaxLimit.
THEOREM TypeCorrect == Spec => []TypeOK
<1>1. Init => TypeOK
  BY LimitAssumption DEF Init, TypeOK
<1>2. TypeOK /\ [Next]_vars => TypeOK'
  <2> SUFFICES ASSUME TypeOK, [Next]_vars PROVE TypeOK'
    OBVIOUS
  <2> USE DEF TypeOK, table, walk
  <2>1. ASSUME NEW r \in Rows, NEW t \in Times, Appear(r, t) PROVE TypeOK'
    BY <2>1 DEF Appear
  <2>2. ASSUME NEW raw \in RawLimits, Request(raw) PROVE TypeOK'
    BY <2>2, RowAssumption, LimitAssumption DEF Request, ParseLimit
  <2>3. CASE ResolveCursor
    BY <2>3 DEF ResolveCursor
  <2>4. CASE QueryPage
    <3>1. PICK page \in SUBSET visible :
            /\ collected' = collected \cup page
            /\ repeated' = repeated \cup (collected \cap page)
            /\ IF Cardinality(page) = limit
                  THEN pc' = "ask" /\ cursor' = LastOf(page)
                  ELSE pc' = "done" /\ UNCHANGED cursor
      BY <2>4 DEF QueryPage
    <3>2. Cardinality(page) = limit => LastOf(page) \in page
      BY FullPage, LastExists
    <3> QED
      BY <2>4, <3>1, <3>2 DEF QueryPage
  <2> QED
    BY <2>1, <2>2, <2>3, <2>4 DEF Next, WalkStep, Finished, vars
<1> QED
  BY <1>1, <1>2, PTL DEF Spec

\* Every step keeps the invariant.
LEMMA SafetyStep ==
    ASSUME TypeOK, TypeOK', Safety, [Next]_vars
    PROVE  Safety'
<1> USE DEF Safety, NoDuplicates, WalkIsComplete, WalkJustified, table, walk
<1>1. ASSUME NEW r \in Rows, NEW t \in Times, Appear(r, t) PROVE Safety'
  <2>1. ASSUME NEW s \in visible, NEW u \in visible PROVE Before(s, u)' <=> Before(s, u)
    BY <1>1 DEF Appear, Before
  <2>2. cursor # NoCursor => cursor \in visible
    OBVIOUS
  <2> QED
    BY <1>1, <2>1, <2>2 DEF Appear
<1>2. ASSUME NEW raw \in RawLimits, Request(raw) PROVE Safety'
  BY <1>2 DEF Request, Before
<1>3. CASE ResolveCursor
  BY <1>3 DEF ResolveCursor, Before
<1>4. CASE QueryPage
  <2>1. PICK page \in SUBSET visible :
          /\ IsPage(page, RepositoryLimit(limit))
          /\ collected' = collected \cup page
          /\ repeated' = repeated \cup (collected \cap page)
          /\ IF Cardinality(page) = limit
                THEN pc' = "ask" /\ cursor' = LastOf(page)
                ELSE pc' = "done" /\ UNCHANGED cursor
    BY <1>4 DEF QueryPage
  <2>2. page \subseteq Remaining /\ \A r \in page, s \in Remaining \ page : Follows(s, r)
    BY <2>1 DEF IsPage
  <2>3. RepositoryLimit(limit) = limit
    BY LimitAssumption DEF TypeOK, RepositoryLimit
  <2>4. NoDuplicates'
    BY <2>1, <2>2, <1>4 DEF QueryPage, Remaining
  <2>5. \A r \in atStart : r \in collected \/ r \in Remaining
    BY <1>4 DEF QueryPage, Remaining
  <2>6. UNCHANGED <<visible, createdAt, limit, atStart>> /\ pc = "query"
    BY <1>4 DEF QueryPage
  <2>7. CASE Cardinality(page) = limit
    <3> DEFINE last == LastOf(page)
    <3>1. last \in page /\ \A s \in page : s = last \/ Follows(last, s)
      BY <2>7, FullPage, LastExists
    <3> HIDE DEF last
    <3>2. pc' = "ask" /\ cursor' = last /\ last # NoCursor
      BY <2>1, <2>7, <3>1, RowAssumption DEF last, TypeOK
    <3>3. ASSUME NEW r \in visible, NEW s \in visible
          PROVE  /\ r \in Nat /\ s \in Nat
                 /\ createdAt[r] \in Nat /\ createdAt[s] \in Nat
      BY RowAssumption DEF TypeOK
    <3>4. ASSUME NEW r \in collected' PROVE ~Before(r, last)
      <4>1. r \in visible /\ last \in visible
        BY <2>1, <3>1
      <4>2. CASE r \in page
        BY <3>1, <3>3, <4>1, <4>2 DEF Before, Follows
      <4>3. CASE r \in collected
        <5>1. cursor # NoCursor /\ ~Before(r, cursor) /\ cursor \in visible
          BY <2>6, <4>3
        <5>2. Before(last, cursor)
          BY <2>2, <3>1, <5>1 DEF Remaining
        <5> QED
          BY <3>3, <4>1, <5>1, <5>2 DEF Before
      <4> QED
        BY <2>1, <4>2, <4>3
    <3>5. ASSUME NEW r \in atStart PROVE r \in collected' \/ Before(r, last)
      <4>1. CASE r \in Remaining \ page
        BY <2>2, <3>1, <4>1 DEF Follows, Before
      <4> QED
        BY <2>1, <2>5, <4>1
    <3>6. \A r \in visible : Before(r, cursor)' <=> Before(r, last)
      BY <2>6, <3>2 DEF Before
    <3> QED
      BY <2>1, <2>4, <2>6, <3>1, <3>2, <3>4, <3>5, <3>6
  <2>8. CASE Cardinality(page) # limit
    <3>1. page = Remaining
      BY <2>1, <2>3, <2>8 DEF IsPage
    <3> QED
      BY <2>1, <2>4, <2>5, <2>6, <2>8, <3>1
  <2> QED
    BY <2>7, <2>8
<1>5. CASE UNCHANGED vars
  BY <1>5 DEF vars, Before
<1> QED
  BY <1>1, <1>2, <1>3, <1>4, <1>5 DEF Next, WalkStep, Finished

\* Nothing is given out twice, a finished walk is complete and no cursor the
\* API gave out is refused: the inductive invariant of a walk.
THEOREM SafetyHolds == Spec => []Safety
<1>1. Init => Safety
  BY DEF Init, Safety, NoDuplicates, WalkIsComplete, WalkJustified
<1> QED
  BY <1>1, SafetyStep, TypeCorrect, PTL DEF Spec

\* No row is given to the client twice.
THEOREM NoDuplicatesHolds == Spec => []NoDuplicates
BY SafetyHolds, PTL DEF Safety

\* A finished walk has given out every row that was there when it began.
THEOREM WalkIsCompleteHolds == Spec => []WalkIsComplete
BY SafetyHolds, PTL DEF Safety

\* A page with a cursor for the next one brings as many rows as were asked for,
\* all of them new.
PagesAreNew ==
    [][pc = "query" /\ pc' = "ask" => Cardinality(collected') = Cardinality(collected) + limit]_vars

\* So a walk has no more pages than rows, and one: whatever arrives meanwhile, no
\* cursor leads in a circle.
THEOREM PagesAreNewHolds == Spec => PagesAreNew
<1>1. TypeOK /\ TypeOK' /\ Safety /\ Safety' /\ [Next]_vars
      => [pc = "query" /\ pc' = "ask" => Cardinality(collected') = Cardinality(collected) + limit]_vars
  <2> SUFFICES ASSUME TypeOK, TypeOK', Safety', [Next]_vars, pc = "query", pc' = "ask"
               PROVE  Cardinality(collected') = Cardinality(collected) + limit
    OBVIOUS
  <2>1. QueryPage
    BY DEF Next, Appear, WalkStep, Request, ResolveCursor, Finished, walk, vars
  <2>2. PICK page \in SUBSET visible :
          /\ collected' = collected \cup page
          /\ repeated' = repeated \cup (collected \cap page)
          /\ Cardinality(page) = limit
    BY <2>1 DEF QueryPage
  <2>3. collected \cap page = {}
    BY <2>2 DEF Safety, NoDuplicates
  <2>4. IsFiniteSet(collected) /\ IsFiniteSet(page)
    BY RowAssumption, FS_Subset DEF TypeOK
  <2>5. /\ Cardinality(collected) \in Nat /\ limit \in Nat
        /\ Cardinality(collected \cup page)
             = Cardinality(collected) + Cardinality(page) - Cardinality(collected \cap page)
    BY <2>4, FS_Union, FS_CardinalityType DEF TypeOK
  <2>6. Cardinality(collected \cap page) = 0
    BY <2>3, FS_EmptySet
  <2>7. Cardinality(collected') = Cardinality(collected \cup page)
    BY <2>2
  <2> QED
    BY <2>2, <2>5, <2>6, <2>7
<1> QED
  BY <1>1, TypeCorrect, SafetyHolds, PTL DEF Spec, PagesAreNew
=============================================================================
