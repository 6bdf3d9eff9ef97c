-------------------------- MODULE TokenListsProofs --------------------------
(***************************************************************************)
(* add and sub are right for lists of any length over any tokens.          *)
(*                                                                         *)
(* The argument: once both lists are in order and without duplicates, what *)
(* a loop has passed lies below everything still ahead of either index.  A *)
(* token is therefore met in both lists at once or is only in one of them, *)
(* and what has been computed for the tokens passed is final.              *)
(***************************************************************************)
EXTENDS TokenLists, FiniteSetTheorems, SequenceTheorems, WellFoundedInduction, TLAPS

Item == [token : Kinds, amount : Nat]
List == Seq(Item)

\* A nonempty set of natural numbers has a least element.
LEMMA LeastElement ==
    ASSUME NEW N \in SUBSET Nat, N # {}
    PROVE  \E n \in N : \A m \in N : n <= m
<1> DEFINE R == OpToRel(<, Nat)
<1>1. PICK n \in N : \A m \in N : <<m, n>> \notin R
  <2>1. IsWellFoundedOn(R, Nat)
    BY NatLessThanWellFounded
  <2> HIDE DEF R
  <2> QED
    BY <2>1, WFMin
<1>2. ASSUME NEW m \in N PROVE n <= m
  <2>1. ~ (m < n)
    BY <1>1 DEF OpToRel
  <2> QED
    BY <2>1
<1> QED
  BY <1>2

LEMMA Upto == ASSUME NEW n \in Nat PROVE IsFiniteSet(1 .. n) /\ Cardinality(1 .. n) = n
<1>1. IsFiniteSet(1 .. n)
  BY FS_Interval
<1>2. Cardinality(1 .. n) = IF 1 > n THEN 0 ELSE n - 1 + 1
  BY FS_Interval
<1> QED
  BY <1>1, <1>2

-----------------------------------------------------------------------------
(***************************************************************************)
(* Lists, their tokens and their amounts                                   *)
(***************************************************************************)
LEMMA ListItems ==
    ASSUME NEW s \in List
    PROVE  /\ Len(s) \in Nat /\ DOMAIN s = 1 .. Len(s)
           /\ \A k \in 1 .. Len(s) : /\ s[k] \in Item
                                     /\ s[k].token \in Kinds /\ s[k].token \in Nat
                                     /\ s[k].amount \in Nat
<1>1. Len(s) \in Nat /\ DOMAIN s = 1 .. Len(s)
  BY DEF List
<1>2. ASSUME NEW k \in 1 .. Len(s) PROVE s[k] \in Item
  BY <1>1 DEF List
<1> QED
  BY <1>1, <1>2, KindsAssumption DEF Item

LEMMA KindsIn ==
    ASSUME NEW s \in List
    PROVE  /\ \A t : t \in Kinds_in(s) <=> \E k \in 1 .. Len(s) : s[k].token = t
           /\ Kinds_in(s) \subseteq Kinds
<1>1. Kinds_in(s) = {s[k].token : k \in 1 .. Len(s)}
  BY ListItems DEF Kinds_in
<1> QED
  BY <1>1, ListItems

\* Where no token is twice, a token stands for its entry.
LEMMA AmountAt ==
    ASSUME NEW s \in List,
           \A k, l \in 1 .. Len(s) : s[k].token = s[l].token => k = l
    PROVE  /\ \A k \in 1 .. Len(s) : amount_of(s, s[k].token) = s[k].amount
           /\ \A t : t \notin Kinds_in(s) => amount_of(s, t) = 0
           /\ \A t : amount_of(s, t) \in Nat
<1> DEFINE here(t) == {k \in DOMAIN s : s[k].token = t}
<1>1. DOMAIN s = 1 .. Len(s)
  BY ListItems
<1>2. ASSUME NEW k \in 1 .. Len(s) PROVE amount_of(s, s[k].token) = s[k].amount
  <2>1. here(s[k].token) = {k}
    BY <1>1
  <2>2. (CHOOSE l \in here(s[k].token) : TRUE) = k
    BY <2>1
  <2> QED
    BY <2>1, <2>2 DEF amount_of
<1>3. ASSUME NEW t, t \notin Kinds_in(s) PROVE amount_of(s, t) = 0
  <2>1. here(t) = {}
    BY <1>3 DEF Kinds_in
  <2> QED
    BY <2>1 DEF amount_of
<1>4. ASSUME NEW t PROVE amount_of(s, t) \in Nat
  <2>1. CASE t \in Kinds_in(s)
    BY <2>1, <1>2, KindsIn, ListItems
  <2> QED
    BY <2>1, <1>3
<1> QED
  BY <1>2, <1>3, <1>4

LEMMA OrderedUnique ==
    ASSUME NEW s \in List, Ordered(s)
    PROVE  /\ \A k, l \in 1 .. Len(s) : k < l => s[k].token < s[l].token
           /\ \A k, l \in 1 .. Len(s) : s[k].token = s[l].token => k = l
<1>1. \A k, l \in 1 .. Len(s) : k < l => s[k].token < s[l].token
  BY ListItems DEF Ordered
<1>2. ASSUME NEW k \in 1 .. Len(s), NEW l \in 1 .. Len(s), s[k].token = s[l].token
      PROVE  k = l
  <2>1. s[k].token \in Nat
    BY ListItems
  <2> QED
    BY <1>1, <1>2, <2>1
<1> QED
  BY <1>1, <1>2

LEMMA AmountOrdered ==
    ASSUME NEW s \in List, Ordered(s)
    PROVE  /\ \A k \in 1 .. Len(s) : amount_of(s, s[k].token) = s[k].amount
           /\ \A t : t \notin Kinds_in(s) => amount_of(s, t) = 0
           /\ \A t : amount_of(s, t) \in Nat
BY OrderedUnique, AmountAt

\* Two lists without duplicates that have the same entries but for zeros have
\* the same amounts.
LEMMA SameAmounts ==
    ASSUME NEW s \in List, NEW r \in List,
           \A k, l \in 1 .. Len(s) : s[k].token = s[l].token => k = l,
           \A k, l \in 1 .. Len(r) : r[k].token = r[l].token => k = l,
           \A k \in 1 .. Len(r) : \E m \in 1 .. Len(s) : r[k] = s[m],
           \A m \in 1 .. Len(s) :
             s[m].amount > 0 => \E k \in 1 .. Len(r) : r[k] = s[m]
    PROVE  \A t : amount_of(r, t) = amount_of(s, t)
<1> SUFFICES ASSUME NEW t PROVE amount_of(r, t) = amount_of(s, t)
  OBVIOUS
<1>1. CASE t \in Kinds_in(r)
  <2>1. PICK k \in 1 .. Len(r) : r[k].token = t
    BY <1>1, KindsIn
  <2>2. PICK m \in 1 .. Len(s) : r[k] = s[m]
    OBVIOUS
  <2>3. amount_of(r, t) = r[k].amount
    BY <2>1, AmountAt
  <2>4. amount_of(s, t) = s[m].amount
    BY <2>1, <2>2, AmountAt
  <2> QED
    BY <2>2, <2>3, <2>4
<1>2. CASE t \notin Kinds_in(r) /\ t \in Kinds_in(s)
  <2>1. PICK m \in 1 .. Len(s) : s[m].token = t
    BY <1>2, KindsIn
  <2>2. ~ (s[m].amount > 0)
    BY <1>2, <2>1, KindsIn
  <2>3. s[m].amount = 0
    BY <2>2, ListItems
  <2> QED
    BY <1>2, <2>1, <2>3, AmountAt
<1>3. CASE t \notin Kinds_in(r) /\ t \notin Kinds_in(s)
  BY <1>3, AmountAt
<1> QED
  BY <1>1, <1>2, <1>3

-----------------------------------------------------------------------------
(***************************************************************************)
(* Sorting                                                                 *)
(***************************************************************************)
Orders(s, p) ==
    \A k, l \in 1 .. Len(s) : k < l => s[p[k]].token <= s[p[l]].token

\* Some exchange of the entries puts them in order: every entry goes behind
\* those with smaller tokens, and equal ones stay as they are.
LEMMA OrderExists ==
    ASSUME NEW s \in List
    PROVE  \E p \in Bijection(1 .. Len(s), 1 .. Len(s)) : Orders(s, p)
<1> DEFINE here == 1 .. Len(s)
           first(k, l) == \/ s[k].token < s[l].token
                          \/ s[k].token = s[l].token /\ k < l
           below(l) == {k \in here : first(k, l)}
           rank == [l \in here |-> Cardinality(below(l)) + 1]
<1>1. /\ Len(s) \in Nat /\ IsFiniteSet(here) /\ Cardinality(here) = Len(s)
      /\ \A k \in here : s[k].token \in Nat /\ k \in Nat
  <2>1. Len(s) \in Nat /\ \A k \in here : s[k].token \in Nat /\ k \in Nat
    BY ListItems
  <2>2. IsFiniteSet(here) /\ Cardinality(here) = Len(s)
    BY <2>1, Upto
  <2> QED
    BY <2>1, <2>2
<1>2. ASSUME NEW l \in here
      PROVE  /\ IsFiniteSet(below(l)) /\ Cardinality(below(l)) \in Nat
             /\ Cardinality(below(l)) < Len(s)
  <2>1. below(l) \in SUBSET here
    OBVIOUS
  <2>2. IsFiniteSet(below(l)) /\ Cardinality(below(l)) <= Len(s)
    BY <1>1, <2>1, FS_Subset
  <2>3. l \notin below(l)
    BY <1>1
  <2>4. Cardinality(below(l)) # Len(s)
    <3>1. below(l) # here
      BY <2>3
    <3> QED
      BY <1>1, <2>1, <3>1, FS_Subset
  <2>5. Cardinality(below(l)) \in Nat
    BY <2>2, FS_CardinalityType
  <2> QED
    BY <1>1, <2>2, <2>4, <2>5
<1>3. ASSUME NEW k \in here, NEW l \in here, first(k, l)
      PROVE  Cardinality(below(k)) < Cardinality(below(l))
  <2>1. below(k) \cup {k} \in SUBSET below(l)
    BY <1>1, <1>3
  <2>2. k \notin below(k)
    BY <1>1
  <2>3. Cardinality(below(k) \cup {k}) = Cardinality(below(k)) + 1
    BY <1>2, <2>2, FS_AddElement
  <2>4. Cardinality(below(k) \cup {k}) <= Cardinality(below(l))
    BY <1>2, <2>1, FS_Subset
  <2> HIDE DEF below
  <2> QED
    BY <1>2, <2>3, <2>4
<1>4. \A k, l \in here : k # l => first(k, l) \/ first(l, k)
  BY <1>1
<1>5. rank \in Injection(here, here)
  <2>1. rank \in [here -> here]
    <3>1. ASSUME NEW l \in here PROVE Cardinality(below(l)) + 1 \in here
      <4> HIDE DEF below
      <4> QED
        BY <1>1, <1>2
    <3> HIDE DEF below
    <3> QED
      BY <3>1
  <2>2. ASSUME NEW k \in here, NEW l \in here, rank[k] = rank[l] PROVE k = l
    <3> HIDE DEF below, first
    <3>1. Cardinality(below(k)) = Cardinality(below(l))
      BY <2>2, <1>2
    <3> QED
      BY <3>1, <1>2, <1>3, <1>4
  <2> HIDE DEF rank, here
  <2> QED
    BY <2>1, <2>2 DEF Injection, IsInjective
<1> HIDE DEF rank
<1>6. rank \in Surjection(here, here)
  <2> HIDE DEF here
  <2> QED
    BY <1>1, <1>5, FS_Injection
<1> DEFINE p == [n \in here |-> CHOOSE k \in here : rank[k] = n]
<1>7. ASSUME NEW n \in here PROVE p[n] \in here /\ rank[p[n]] = n
  BY <1>6 DEF Surjection
<1>8. ASSUME NEW k \in here PROVE rank[k] \in here /\ p[rank[k]] = k
  <2>1. rank[k] \in here
    BY <1>5 DEF Injection
  <2>2. rank[p[rank[k]]] = rank[k] /\ p[rank[k]] \in here
    BY <1>7, <2>1
  <2> HIDE DEF p, here
  <2> QED
    BY <1>5, <2>1, <2>2 DEF Injection, IsInjective
<1>9. p \in [here -> here]
  BY <1>7
<1> HIDE DEF p
<1>10. p \in Injection(here, here)
  <2> HIDE DEF here
  <2> QED
    BY <1>7, <1>9 DEF Injection, IsInjective
<1>11. p \in Surjection(here, here)
  <2> HIDE DEF here
  <2> QED
    BY <1>8, <1>9 DEF Surjection
<1>12. Orders(s, p)
  <2> SUFFICES ASSUME NEW k \in here, NEW l \in here, k < l
               PROVE  s[p[k]].token <= s[p[l]].token
    BY DEF Orders
  <2>1. p[k] \in here /\ p[l] \in here /\ rank[p[k]] = k /\ rank[p[l]] = l
    BY <1>7
  <2>2. ~ first(p[l], p[k])
    <3>1. Cardinality(below(p[k])) + 1 = k /\ Cardinality(below(p[l])) + 1 = l
      BY <2>1 DEF rank
    <3> HIDE DEF below, first
    <3> QED
      BY <1>1, <1>2, <1>3, <2>1, <3>1
  <2> QED
    BY <1>1, <2>1, <2>2
<1> QED
  BY <1>10, <1>11, <1>12 DEF Bijection

\* sorted exchanges the entries so that they are in order.
LEMMA Sorted ==
    ASSUME NEW s \in List
    PROVE  \E p \in Bijection(1 .. Len(s), 1 .. Len(s)) :
             Orders(s, p) /\ sorted(s) = [k \in 1 .. Len(s) |-> s[p[k]]]
<1> DEFINE p == CHOOSE q \in Bijection(1 .. Len(s), 1 .. Len(s)) : Orders(s, q)
<1>1. p \in Bijection(1 .. Len(s), 1 .. Len(s)) /\ Orders(s, p)
  BY OrderExists
<1>2. sorted(s) = [k \in 1 .. Len(s) |-> s[p[k]]]
  BY DEF sorted, Orders
<1> QED
  BY <1>1, <1>2

LEMMA SortedList ==
    ASSUME NEW s \in List
    PROVE  /\ sorted(s) \in List /\ Len(sorted(s)) = Len(s)
           /\ \A k, l \in 1 .. Len(s) :
                k < l => sorted(s)[k].token <= sorted(s)[l].token
           /\ \A k \in 1 .. Len(s) : \E m \in 1 .. Len(s) : sorted(s)[k] = s[m]
           /\ \A m \in 1 .. Len(s) : \E k \in 1 .. Len(s) : sorted(s)[k] = s[m]
<1> DEFINE here == 1 .. Len(s)
<1>1. PICK p \in Bijection(here, here) : Orders(s, p) /\ sorted(s) = [k \in here |-> s[p[k]]]
  BY Sorted
<1>2. \A k \in here : p[k] \in here /\ sorted(s)[k] = s[p[k]]
  BY <1>1 DEF Bijection, Injection
<1>3. \A m \in here : \E k \in here : p[k] = m
  BY <1>1 DEF Bijection, Surjection
<1>4. sorted(s) \in [here -> Item] /\ Len(s) \in Nat
  BY <1>1, <1>2, ListItems
<1>5. sorted(s) \in List /\ Len(sorted(s)) = Len(s)
  BY <1>4, SeqDef, LenProperties DEF List
<1>6. ASSUME NEW k \in here, NEW l \in here, k < l
      PROVE  sorted(s)[k].token <= sorted(s)[l].token
  BY <1>1, <1>2, <1>6 DEF Orders
<1>7. \A k \in here : \E m \in here : sorted(s)[k] = s[m]
  BY <1>2
<1>8. \A m \in here : \E k \in here : sorted(s)[k] = s[m]
  BY <1>2, <1>3
<1> QED
  BY <1>5, <1>6, <1>7, <1>8

\* A list that is in order stays as it is.
LEMMA SortedStays ==
    ASSUME NEW s \in List, Ordered(s)
    PROVE  sorted(s) = s
<1> DEFINE here == 1 .. Len(s)
<1>1. PICK p \in Bijection(here, here) : Orders(s, p) /\ sorted(s) = [k \in here |-> s[p[k]]]
  BY Sorted
<1>2. /\ p \in [here -> here]
      /\ \A k, l \in here : p[k] = p[l] => k = l
      /\ \A m \in here : \E k \in here : p[k] = m
  BY <1>1 DEF Bijection, Injection, Surjection, IsInjective
<1>3. \A k, l \in here : k < l => p[k] < p[l]
  <2> SUFFICES ASSUME NEW k \in here, NEW l \in here, k < l PROVE p[k] < p[l]
    OBVIOUS
  <2>1. s[p[k]].token <= s[p[l]].token
    BY <1>1 DEF Orders
  <2>2. p[k] \in here /\ p[l] \in here /\ p[k] # p[l]
    <3>1. k # l
      BY ListItems
    <3> HIDE DEF here
    <3> QED
      BY <1>2, <3>1
  <2>3. s[p[k]].token \in Nat /\ s[p[l]].token \in Nat
    BY <2>2, ListItems
  <2>4. p[l] < p[k] => s[p[l]].token < s[p[k]].token
    BY <2>2, OrderedUnique
  <2> QED
    BY <2>1, <2>2, <2>3, <2>4
<1>4. \A k \in here : p[k] = k
  <2> DEFINE N == {k \in here : p[k] # k}
  <2> SUFFICES ASSUME N # {} PROVE FALSE
    OBVIOUS
  <2>1. PICK k \in N : \A m \in N : k <= m
    <3>1. N \in SUBSET Nat
      OBVIOUS
    <3> HIDE DEF N
    <3> QED
      BY <3>1, LeastElement
  <2>2. k \in here /\ p[k] \in here /\ p[k] # k
    BY <1>2, <2>1
  <2>3. \A m \in here : m < k => p[m] = m
    BY <2>1
  <2>4. p[k] > k
    <3>1. ~ (p[k] < k)
      BY <1>2, <2>2, <2>3
    <3> QED
      BY <2>2, <3>1, ListItems
  <2>5. PICK l \in here : p[l] = k
    BY <1>2, <2>2
  <2>6. l > k
    BY <2>2, <2>3, <2>5
  <2> QED
    BY <1>3, <2>2, <2>4, <2>5, <2>6
<1>5. sorted(s) = [k \in here |-> s[k]]
  BY <1>1, <1>4
<1> QED
  BY <1>5, SortedList, SeqEqual DEF List

\* In a list in order a duplicate stands next to its double.
LEMMA DuplicatesMeet ==
    ASSUME NEW s \in List,
           \A k, l \in 1 .. Len(s) : k < l => s[k].token <= s[l].token,
           assert_duplicate_token(s)
    PROVE  Ordered(s)
<1>1. Len(s) \in Nat /\ DOMAIN s = 1 .. Len(s) /\ \A k \in 1 .. Len(s) : s[k].token \in Nat
  BY ListItems
<1> SUFFICES ASSUME NEW k \in 1 .. Len(s), NEW l \in 1 .. Len(s), k < l
             PROVE  s[k].token < s[l].token
  BY <1>1 DEF Ordered
<1>2. k \in 1 .. Len(s) - 1 /\ k + 1 \in 1 .. Len(s) /\ k + 1 <= l
  BY <1>1
<1>3. s[k].token # s[k + 1].token /\ s[k].token <= s[k + 1].token
  BY <1>2 DEF assert_duplicate_token
<1>4. s[k + 1].token <= s[l].token
  <2>1. CASE k + 1 = l
    BY <1>1, <2>1
  <2>2. CASE k + 1 < l
    BY <1>2, <2>2
  <2> QED
    BY <1>1, <1>2, <2>1, <2>2
<1> QED
  BY <1>1, <1>2, <1>3, <1>4

LEMMA UniqueIsInjective ==
    ASSUME NEW s \in List
    PROVE  Unique(s) <=> \A k, l \in 1 .. Len(s) : s[k].token = s[l].token => k = l
<1> DEFINE here == 1 .. Len(s)
           f == [k \in here |-> s[k].token]
<1>1. Kinds_in(s) = {s[k].token : k \in here} /\ Len(s) \in Nat
  BY ListItems DEF Kinds_in
<1>2. f \in Surjection(here, Kinds_in(s))
  <2> HIDE DEF here
  <2>1. f \in [here -> Kinds_in(s)]
    BY <1>1
  <2>2. \A t \in Kinds_in(s) : \E k \in here : f[k] = t
    BY <1>1
  <2> HIDE DEF f
  <2> QED
    BY <2>1, <2>2 DEF Surjection
<1>3. IsFiniteSet(here) /\ Cardinality(here) = Len(s)
  BY <1>1, Upto
<1>4. Cardinality(Kinds_in(s)) = Len(s) <=> f \in Injection(here, Kinds_in(s))
  <2> HIDE DEF f, here
  <2> QED
    BY <1>2, <1>3, FS_Surjection
<1>5. f \in Injection(here, Kinds_in(s)) <=>
        \A k, l \in here : s[k].token = s[l].token => k = l
  BY <1>1 DEF Injection, IsInjective
<1> QED
  BY <1>4, <1>5 DEF Unique

LEMMA OrderedAsserts ==
    ASSUME NEW s \in List, Ordered(s)
    PROVE  assert_duplicate_token(s) /\ Unique(s)
<1>1. Len(s) \in Nat
  BY ListItems
<1>2. ASSUME NEW k \in 1 .. Len(s) - 1 PROVE s[k].token # s[k + 1].token
  <2>1. k \in 1 .. Len(s) /\ k + 1 \in 1 .. Len(s) /\ k # k + 1
    BY <1>1
  <2> QED
    BY <2>1, OrderedUnique
<1>3. assert_duplicate_token(s)
  BY <1>2 DEF assert_duplicate_token
<1>4. Unique(s)
  BY OrderedUnique, UniqueIsInjective
<1> QED
  BY <1>3, <1>4

\* Sorting brings every duplicate to light and loses no entry.
LEMMA SortedArgument ==
    ASSUME NEW s \in List
    PROVE  /\ assert_duplicate_token(sorted(s)) <=> Unique(s)
           /\ Unique(s) => /\ Ordered(sorted(s))
                           /\ Kinds_in(sorted(s)) = Kinds_in(s)
                           /\ \A t : amount_of(sorted(s), t) = amount_of(s, t)
<1> DEFINE here == 1 .. Len(s)
           r == sorted(s)
<1>1. PICK p \in Bijection(here, here) : Orders(s, p) /\ r = [k \in here |-> s[p[k]]]
  BY Sorted
<1>2. /\ \A k \in here : p[k] \in here
      /\ \A k, l \in here : p[k] = p[l] => k = l
      /\ \A m \in here : \E k \in here : p[k] = m
  BY <1>1 DEF Bijection, Injection, Surjection, IsInjective
<1>3. r \in List /\ Len(r) = Len(s) /\ \A k, l \in here : k < l => r[k].token <= r[l].token
  BY SortedList
<1>4. \A k \in here : r[k] = s[p[k]]
  BY <1>1
<1> HIDE DEF r
<1>5. Unique(r) <=> Unique(s)
  <2>1. ASSUME \A k, l \in here : s[k].token = s[l].token => k = l
        PROVE  \A k, l \in here : r[k].token = r[l].token => k = l
    <3> SUFFICES ASSUME NEW k \in here, NEW l \in here, r[k].token = r[l].token
                 PROVE  k = l
      OBVIOUS
    <3>1. p[k] \in here /\ p[l] \in here
      BY <1>2
    <3>2. s[p[k]].token = s[p[l]].token
      BY <1>4
    <3>3. p[k] = p[l]
      BY <2>1, <3>1, <3>2
    <3> QED
      BY <1>2, <3>3
  <2>2. ASSUME \A k, l \in here : r[k].token = r[l].token => k = l
        PROVE  \A k, l \in here : s[k].token = s[l].token => k = l
    <3> SUFFICES ASSUME NEW k \in here, NEW l \in here, s[k].token = s[l].token
                 PROVE  k = l
      OBVIOUS
    <3>1. PICK kk \in here : p[kk] = k
      BY <1>2
    <3>2. PICK ll \in here : p[ll] = l
      BY <1>2
    <3>3. r[kk].token = r[ll].token
      BY <3>1, <3>2, <1>4
    <3> QED
      BY <3>1, <3>2, <3>3, <2>2
  <2> QED
    BY <1>3, <2>1, <2>2, UniqueIsInjective
<1>6. assert_duplicate_token(r) => Ordered(r)
  BY <1>3, DuplicatesMeet
<1>7. assert_duplicate_token(r) => Unique(s)
  BY <1>3, <1>5, <1>6, OrderedAsserts
<1>8. ASSUME Unique(s) PROVE assert_duplicate_token(r)
  <2>1. \A k, l \in here : r[k].token = r[l].token => k = l
    BY <1>3, <1>5, <1>8, UniqueIsInjective
  <2>2. Len(s) \in Nat
    BY ListItems
  <2>3. ASSUME NEW k \in 1 .. Len(r) - 1 PROVE r[k].token # r[k + 1].token
    <3>1. k \in here /\ k + 1 \in here /\ k # k + 1
      BY <1>3, <2>2
    <3> QED
      BY <2>1, <3>1
  <2> QED
    BY <2>3 DEF assert_duplicate_token
<1>9. Kinds_in(r) = Kinds_in(s)
  <2>1. \A t : t \in Kinds_in(r) <=> \E k \in here : r[k].token = t
    BY <1>3, KindsIn
  <2>2. \A t : t \in Kinds_in(s) <=> \E k \in here : s[k].token = t
    BY KindsIn
  <2>3. ASSUME NEW k \in here PROVE \E m \in here : s[m].token = r[k].token
    BY <1>2, <1>4
  <2>4. ASSUME NEW m \in here PROVE \E k \in here : r[k].token = s[m].token
    <3>1. PICK k \in here : p[k] = m
      BY <1>2
    <3> QED
      BY <1>4, <3>1
  <2> HIDE DEF here
  <2>5. \A t : t \in Kinds_in(r) <=> t \in Kinds_in(s)
    BY <2>1, <2>2, <2>3, <2>4
  <2> QED
    BY <2>5, KindsIn
<1>10. ASSUME Unique(s) PROVE \A t : amount_of(r, t) = amount_of(s, t)
  <2>1. \A k, l \in here : s[k].token = s[l].token => k = l
    BY <1>10, UniqueIsInjective
  <2>2. \A k, l \in here : r[k].token = r[l].token => k = l
    BY <1>3, <1>5, <1>10, UniqueIsInjective
  <2>3. ASSUME NEW k \in here PROVE \E m \in here : r[k] = s[m]
    BY <1>2, <1>4
  <2>4. ASSUME NEW m \in here PROVE \E k \in here : r[k] = s[m]
    <3>1. PICK k \in here : p[k] = m
      BY <1>2
    <3> QED
      BY <1>4, <3>1
  <2>5. /\ \A k, l \in 1 .. Len(r) : r[k].token = r[l].token => k = l
        /\ \A k \in 1 .. Len(r) : \E m \in 1 .. Len(s) : r[k] = s[m]
        /\ \A m \in 1 .. Len(s) :
             s[m].amount > 0 => \E k \in 1 .. Len(r) : r[k] = s[m]
    BY <1>3, <2>2, <2>3, <2>4
  <2> QED
    BY <1>3, <2>1, <2>5, SameAmounts
<1> QED
  BY <1>6, <1>7, <1>8, <1>9, <1>10 DEF r

-----------------------------------------------------------------------------
(***************************************************************************)
(* Entries that are not zero                                               *)
(***************************************************************************)
more(s, f, n) == IF n = 0 THEN <<>>
                 ELSE f[n - 1] \o IF s[n].amount > 0 THEN <<s[n]>> ELSE <<>>

kept(s) == CHOOSE f : f = [n \in 0 .. Len(s) |-> more(s, f, n)]

LEMMA RetainIsKept == ASSUME NEW s PROVE retain(s) = kept(s)[Len(s)]
BY DEF retain, kept, more

LEMMA KeptExists ==
    ASSUME NEW s \in List
    PROVE  \A n \in 0 .. Len(s) : kept(s)[n] = more(s, kept(s), n)
<1> DEFINE Has(m) == \E f : f = [n \in 0 .. m |-> more(s, f, n)]
<1>1. Has(0)
  <2> DEFINE z == [n \in 0 .. 0 |-> <<>>]
  <2>1. \A n \in 0 .. 0 : more(s, z, n) = <<>>
    BY DEF more
  <2>2. z = [n \in 0 .. 0 |-> more(s, z, n)]
    BY <2>1
  <2> QED
    BY <2>2
<1>2. ASSUME NEW m \in Nat, Has(m) PROVE Has(m + 1)
  <2>1. PICK f : f = [n \in 0 .. m |-> more(s, f, n)]
    BY <1>2
  <2> DEFINE h == [n \in 0 .. m + 1 |-> more(s, f, n)]
  <2>2. ASSUME NEW n \in 0 .. m PROVE n \in 0 .. m + 1 /\ h[n] = f[n]
    <3>1. n \in 0 .. m + 1
      OBVIOUS
    <3>2. f[n] = more(s, f, n)
      BY <2>1
    <3> QED
      BY <3>1, <3>2
  <2>3. ASSUME NEW n \in 0 .. m + 1, n # 0 PROVE n - 1 \in 0 .. m
    BY <2>3
  <2>4. ASSUME NEW n \in 0 .. m + 1 PROVE more(s, f, n) = more(s, h, n)
    <3> HIDE DEF h
    <3> QED
      BY <2>2, <2>3 DEF more
  <2>5. h = [n \in 0 .. m + 1 |-> more(s, h, n)]
    BY <2>4
  <2> QED
    BY <2>5
<1>3. ASSUME NEW m \in Nat PROVE Has(m)
  <2> DEFINE N == {n \in Nat : ~ Has(n)}
  <2> SUFFICES ASSUME N # {} PROVE FALSE
    OBVIOUS
  <2>1. PICK n \in N : \A k \in N : n <= k
    <3>1. N \in SUBSET Nat
      OBVIOUS
    <3> HIDE DEF N
    <3> QED
      BY <3>1, LeastElement
  <2> HIDE DEF Has
  <2>2. n # 0 /\ n \in Nat
    BY <1>1
  <2>3. n - 1 \in Nat /\ n - 1 \notin N
    BY <2>1, <2>2
  <2>4. Has((n - 1) + 1)
    BY <2>3, <1>2
  <2> QED
    BY <2>4, <2>2
<1>4. Has(Len(s))
  <2> HIDE DEF Has
  <2> QED
    BY <1>3, ListItems
<1> DEFINE f == kept(s)
<1>5. f = [n \in 0 .. Len(s) |-> more(s, f, n)]
  BY <1>4 DEF kept
<1> HIDE DEF f
<1>6. \A n \in 0 .. Len(s) : f[n] = more(s, f, n)
  BY <1>5
<1> QED
  BY <1>6 DEF f

\* r is what is left of the first n entries.
Left(s, n, r) ==
    /\ r \in List
    /\ \A k, l \in 1 .. Len(r) : k < l => r[k].token < r[l].token
    /\ \A k \in 1 .. Len(r) : r[k].amount > 0 /\ \E m \in 1 .. n : r[k] = s[m]
    /\ \A m \in 1 .. n : s[m].amount > 0 => \E k \in 1 .. Len(r) : r[k] = s[m]

LEMMA OneMoreLeft ==
    ASSUME NEW s \in List, Ordered(s), NEW n \in 1 .. Len(s), NEW r, Left(s, n - 1, r)
    PROVE  Left(s, n, r \o IF s[n].amount > 0 THEN <<s[n]>> ELSE <<>>)
<1>1. r \in List /\ n - 1 \in Nat /\ s[n] \in Item
  BY ListItems DEF Left
<1>2. CASE s[n].amount > 0
  <2> DEFINE q == Append(r, s[n])
  <2>1. /\ q \in List /\ Len(q) = Len(r) + 1 /\ Len(r) \in Nat
        /\ \A k \in 1 .. Len(r) : q[k] = r[k]
        /\ q[Len(r) + 1] = s[n]
    BY <1>1 DEF List
  <2>2. r \o <<s[n]>> = q
    BY <1>1 DEF List
  <2> HIDE DEF q
  <2>3. ASSUME NEW k \in 1 .. Len(r) PROVE q[k].token < s[n].token
    <3>1. PICK m \in 1 .. n - 1 : r[k] = s[m]
      BY DEF Left
    <3> QED
      BY <2>1, <3>1, ListItems, OrderedUnique
  <2>4. ASSUME NEW k \in 1 .. Len(q), NEW l \in 1 .. Len(q), k < l
        PROVE  q[k].token < q[l].token
    <3>1. CASE l \in 1 .. Len(r)
      <4>1. k \in 1 .. Len(r)
        BY <2>1, <2>4, <3>1
      <4> QED
        BY <2>1, <2>4, <3>1, <4>1 DEF Left
    <3>2. CASE l = Len(r) + 1
      <4>1. k \in 1 .. Len(r)
        BY <2>1, <2>4, <3>2
      <4> QED
        BY <2>1, <2>3, <3>2, <4>1
    <3> QED
      BY <2>1, <3>1, <3>2
  <2>5. ASSUME NEW k \in 1 .. Len(q)
        PROVE  q[k].amount > 0 /\ \E m \in 1 .. n : q[k] = s[m]
    <3>1. CASE k \in 1 .. Len(r)
      <4>1. PICK m \in 1 .. n - 1 : r[k] = s[m]
        BY <3>1 DEF Left
      <4>2. m \in 1 .. n
        BY <1>1
      <4> QED
        BY <2>1, <3>1, <4>1, <4>2 DEF Left
    <3>2. CASE k = Len(r) + 1
      <4>1. n \in 1 .. n
        BY ListItems
      <4> QED
        BY <2>1, <1>2, <3>2, <4>1
    <3> QED
      BY <2>1, <3>1, <3>2
  <2>6. ASSUME NEW m \in 1 .. n, s[m].amount > 0 PROVE \E k \in 1 .. Len(q) : q[k] = s[m]
    <3>1. CASE m \in 1 .. n - 1
      <4>1. PICK k \in 1 .. Len(r) : r[k] = s[m]
        BY <2>6, <3>1 DEF Left
      <4>2. k \in 1 .. Len(q)
        BY <2>1
      <4> QED
        BY <2>1, <4>1, <4>2
    <3>2. CASE m = n
      <4>1. Len(r) + 1 \in 1 .. Len(q)
        BY <2>1
      <4> QED
        BY <2>1, <3>2, <4>1
    <3> QED
      BY <1>1, <3>1, <3>2
  <2> QED
    BY <1>2, <2>1, <2>2, <2>4, <2>5, <2>6 DEF Left
<1>3. CASE ~ (s[n].amount > 0)
  <2>1. r \o <<>> = r
    BY <1>1 DEF List
  <2>2. \A m \in 1 .. n : m \in 1 .. n - 1 \/ m = n
    BY <1>1
  <2>3. \A m \in 1 .. n - 1 : m \in 1 .. n
    BY <1>1
  <2>4. Left(s, n, r)
    BY <1>3, <2>2, <2>3 DEF Left
  <2> QED
    BY <1>3, <2>1, <2>4
<1> QED
  BY <1>2, <1>3

\* retain leaves the same amounts, in order and without zeros.
LEMMA Retained ==
    ASSUME NEW s \in List, Ordered(s)
    PROVE  /\ retain(s) \in List /\ Ordered(retain(s))
           /\ \A k \in DOMAIN retain(s) : retain(s)[k].amount > 0
           /\ \A t : amount_of(retain(s), t) = amount_of(s, t)
<1>1. Len(s) \in Nat
  BY ListItems
<1>2. \A n \in 0 .. Len(s) : Left(s, n, kept(s)[n])
  <2> DEFINE N == {n \in 0 .. Len(s) : ~ Left(s, n, kept(s)[n])}
  <2> SUFFICES ASSUME N # {} PROVE FALSE
    OBVIOUS
  <2>1. PICK n \in N : \A k \in N : n <= k
    <3>1. N \in SUBSET Nat
      BY <1>1
    <3> HIDE DEF N
    <3> QED
      BY <3>1, LeastElement
  <2>2. n \in 0 .. Len(s) /\ ~ Left(s, n, kept(s)[n])
    OBVIOUS
  <2>3. kept(s)[n] = more(s, kept(s), n)
    BY <2>2, KeptExists
  <2>4. n # 0
    <3>1. <<>> \in List /\ Len(<<>>) = 0
      BY DEF List
    <3>2. Left(s, 0, <<>>)
      BY <3>1 DEF Left
    <3> QED
      BY <2>2, <2>3, <3>2 DEF more
  <2>5. n - 1 \in 0 .. Len(s) /\ n \in 1 .. Len(s) /\ ~ (n <= n - 1)
    BY <1>1, <2>2, <2>4
  <2>6. Left(s, n - 1, kept(s)[n - 1])
    BY <2>1, <2>5
  <2>7. Left(s, n, kept(s)[n])
    BY <2>3, <2>4, <2>5, <2>6, OneMoreLeft DEF more
  <2> QED
    BY <2>2, <2>7
<1> DEFINE r == retain(s)
<1>3. Left(s, Len(s), r)
  BY <1>1, <1>2, RetainIsKept
<1> HIDE DEF r
<1>4. r \in List /\ DOMAIN r = 1 .. Len(r)
  BY <1>3, ListItems DEF Left
<1>5. Ordered(r)
  BY <1>3, <1>4 DEF Left, Ordered
<1>6. \A k \in DOMAIN r : r[k].amount > 0
  BY <1>3, <1>4 DEF Left
<1>7. \A t : amount_of(r, t) = amount_of(s, t)
  <2>1. \A k, l \in 1 .. Len(s) : s[k].token = s[l].token => k = l
    BY OrderedUnique
  <2>2. \A k, l \in 1 .. Len(r) : r[k].token = r[l].token => k = l
    BY <1>4, <1>5, OrderedUnique
  <2> QED
    BY SMTT(30), <1>3, <1>4, <2>1, <2>2, SameAmounts DEF Left
<1> QED
  BY <1>4, <1>5, <1>6, <1>7 DEF r

-----------------------------------------------------------------------------
(***************************************************************************)
(* The loop of sub, at a in s and b in t, where s was s0                   *)
(***************************************************************************)
\* The tokens passed are final, and are below what is still ahead in t; what
\* has been passed in t was in s.
SubAt(s, t, s0, a, b) ==
    /\ a \in 1 .. Len(s) + 1 /\ b \in 1 .. Len(t) + 1
    /\ Len(s) = Len(s0)
    /\ \A m \in 1 .. Len(s) : s[m].token = s0[m].token
    /\ \A m \in a .. Len(s) : s[m] = s0[m]
    /\ \A m \in 1 .. a - 1 :
         /\ amount_of(t, s0[m].token) <= s0[m].amount
         /\ s[m].amount = s0[m].amount - amount_of(t, s0[m].token)
         /\ \A l \in b .. Len(t) : s0[m].token < t[l].token
    /\ \A l \in 1 .. b - 1 : \E m \in 1 .. a - 1 : t[l].token = s0[m].token

\* What is asked for is there.
FitsIn(t, s0) == \A k \in Kinds_in(t) : /\ k \in Kinds_in(s0)
                                        /\ amount_of(t, k) <= amount_of(s0, k)

LEMMA SubBegins ==
    ASSUME NEW s \in List, NEW t \in List
    PROVE  SubAt(s, t, s, 1, 1)
<1>1. Len(s) \in Nat /\ Len(t) \in Nat
  BY ListItems
<1> QED
  BY <1>1 DEF SubAt

LEMMA SubSameKeeps ==
    ASSUME NEW s \in List, NEW t \in List, NEW s0 \in List, Ordered(t), Ordered(s0),
           NEW a, NEW b, SubAt(s, t, s0, a, b), a <= Len(s), b <= Len(t),
           s[a].token = t[b].token, ~ (s[a].amount < t[b].amount)
    PROVE  LET s1 == [s EXCEPT ![a].amount = @ - t[b].amount]
           IN  s1 \in List /\ SubAt(s1, t, s0, a + 1, b + 1)
<1> DEFINE v == [s[a] EXCEPT !.amount = @ - t[b].amount]
           s1 == [s EXCEPT ![a] = v]
<1>1. /\ Len(s) \in Nat /\ Len(t) \in Nat /\ Len(s0) = Len(s)
      /\ a \in 1 .. Len(s) /\ b \in 1 .. Len(t)
      /\ DOMAIN s = 1 .. Len(s)
  BY ListItems DEF SubAt
<1>2. /\ s[a] \in Item /\ s[a].amount \in Nat /\ t[b].amount \in Nat
      /\ s[a] = s0[a]
      /\ \A l \in 1 .. Len(t) : t[l].token \in Nat
      /\ \A m \in 1 .. Len(s) : s0[m].token \in Nat
  BY <1>1, ListItems DEF SubAt
<1>3. v \in Item /\ v.token = s[a].token /\ v.amount = s[a].amount - t[b].amount
  BY <1>2 DEF Item
<1>4. s1 \in List /\ Len(s1) = Len(s)
  BY <1>1, <1>3 DEF List
<1>5. s1[a] = v /\ \A m \in 1 .. Len(s) : m # a => s1[m] = s[m]
  BY <1>1
<1> HIDE DEF v, s1
<1>6. \A m \in 1 .. Len(s1) : s1[m].token = s0[m].token
  BY <1>1, <1>3, <1>4, <1>5 DEF SubAt
<1>7. \A m \in a + 1 .. Len(s1) : s1[m] = s0[m]
  <2> SUFFICES ASSUME NEW m \in a + 1 .. Len(s1) PROVE s1[m] = s0[m]
    OBVIOUS
  <2>1. m \in a .. Len(s) /\ m \in 1 .. Len(s) /\ m # a
    BY <1>1, <1>4
  <2> QED
    BY <2>1, <1>5 DEF SubAt
<1>8. amount_of(t, s0[a].token) = t[b].amount
  BY <1>1, <1>2, AmountOrdered
<1>9. \A l \in b + 1 .. Len(t) : l \in b .. Len(t) /\ t[b].token < t[l].token
  <2> SUFFICES ASSUME NEW l \in b + 1 .. Len(t)
               PROVE  l \in b .. Len(t) /\ t[b].token < t[l].token
    OBVIOUS
  <2>1. l \in 1 .. Len(t) /\ b < l /\ l \in b .. Len(t)
    BY <1>1
  <2> QED
    BY <2>1, <1>1, OrderedUnique
<1>10. ASSUME NEW m \in 1 .. (a + 1) - 1
       PROVE  /\ amount_of(t, s0[m].token) <= s0[m].amount
              /\ s1[m].amount = s0[m].amount - amount_of(t, s0[m].token)
              /\ \A l \in b + 1 .. Len(t) : s0[m].token < t[l].token
  <2>1. CASE m = a
    <3>1. \A l \in b + 1 .. Len(t) : s0[a].token < t[l].token
      BY <1>2, <1>9
    <3> QED
      BY <2>1, <3>1, <1>2, <1>3, <1>5, <1>8
  <2>2. CASE m # a
    <3>1. m \in 1 .. a - 1 /\ m \in 1 .. Len(s)
      BY <1>1, <2>2
    <3> QED
      BY <3>1, <2>2, <1>5, <1>9 DEF SubAt
  <2> QED
    BY <2>1, <2>2
<1>11. ASSUME NEW l \in 1 .. (b + 1) - 1
       PROVE  \E m \in 1 .. (a + 1) - 1 : t[l].token = s0[m].token
  <2>1. CASE l = b
    <3>1. a \in 1 .. (a + 1) - 1
      BY <1>1
    <3> QED
      BY <2>1, <3>1, <1>2
  <2>2. CASE l # b
    <3>1. l \in 1 .. b - 1
      BY <1>1, <2>2
    <3>2. PICK m \in 1 .. a - 1 : t[l].token = s0[m].token
      BY <3>1 DEF SubAt
    <3>3. m \in 1 .. (a + 1) - 1
      BY <1>1
    <3> QED
      BY <3>2, <3>3
  <2> QED
    BY <2>1, <2>2
<1>12. a + 1 \in 1 .. Len(s1) + 1 /\ b + 1 \in 1 .. Len(t) + 1
  BY <1>1, <1>4
<1>13. SubAt(s1, t, s0, a + 1, b + 1)
  BY <1>1, <1>4, <1>6, <1>7, <1>10, <1>11, <1>12 DEF SubAt
<1> QED
  BY <1>4, <1>13 DEF s1, v

LEMMA SubSkipKeeps ==
    ASSUME NEW s \in List, NEW t \in List, NEW s0 \in List, Ordered(t), Ordered(s0),
           NEW a, NEW b, SubAt(s, t, s0, a, b), a <= Len(s), b <= Len(t),
           s[a].token < t[b].token
    PROVE  SubAt(s, t, s0, a + 1, b)
<1>1. /\ Len(s) \in Nat /\ Len(t) \in Nat /\ Len(s0) = Len(s)
      /\ a \in 1 .. Len(s) /\ b \in 1 .. Len(t)
  BY ListItems DEF SubAt
<1>2. /\ s0[a].amount \in Nat /\ s[a] = s0[a]
      /\ \A l \in 1 .. Len(t) : t[l].token \in Nat
      /\ \A m \in 1 .. Len(s) : s0[m].token \in Nat
  BY <1>1, ListItems DEF SubAt
<1>3. ASSUME NEW l \in b .. Len(t) PROVE s0[a].token < t[l].token
  <2>1. l \in 1 .. Len(t) /\ (l = b \/ b < l)
    BY <1>1
  <2>2. l = b \/ t[b].token < t[l].token
    BY <2>1, <1>1, OrderedUnique
  <2> QED
    BY <2>1, <2>2, <1>1, <1>2
<1>4. s0[a].token \notin Kinds_in(t)
  <2> SUFFICES ASSUME NEW l \in 1 .. Len(t), t[l].token = s0[a].token PROVE FALSE
    BY KindsIn
  <2>1. l \in 1 .. b - 1
    <3>1. l \in b .. Len(t) \/ l \in 1 .. b - 1
      BY <1>1
    <3> QED
      BY <3>1, <1>1, <1>2, <1>3
  <2>2. PICK m \in 1 .. a - 1 : t[l].token = s0[m].token
    BY <2>1 DEF SubAt
  <2>3. m \in 1 .. Len(s0) /\ m # a
    BY <1>1
  <2> QED
    BY <2>2, <2>3, <1>1, OrderedUnique
<1>5. amount_of(t, s0[a].token) = 0
  BY <1>4, AmountOrdered
<1>6. ASSUME NEW m \in 1 .. (a + 1) - 1
      PROVE  /\ amount_of(t, s0[m].token) <= s0[m].amount
             /\ s[m].amount = s0[m].amount - amount_of(t, s0[m].token)
             /\ \A l \in b .. Len(t) : s0[m].token < t[l].token
  <2>1. CASE m = a
    BY <2>1, <1>2, <1>3, <1>5
  <2>2. CASE m # a
    <3>1. m \in 1 .. a - 1
      BY <1>1, <2>2
    <3> QED
      BY <3>1 DEF SubAt
  <2> QED
    BY <2>1, <2>2
<1>7. ASSUME NEW l \in 1 .. b - 1 PROVE \E m \in 1 .. (a + 1) - 1 : t[l].token = s0[m].token
  <2>1. PICK m \in 1 .. a - 1 : t[l].token = s0[m].token
    BY DEF SubAt
  <2>2. m \in 1 .. (a + 1) - 1
    BY <1>1
  <2> QED
    BY <2>1, <2>2
<1>8. \A m \in a + 1 .. Len(s) : m \in a .. Len(s)
  BY <1>1
<1>9. a + 1 \in 1 .. Len(s) + 1
  BY <1>1
<1> QED
  BY <1>6, <1>7, <1>8, <1>9 DEF SubAt

\* Where sub gives up, something is missing.
LEMMA SubLacks ==
    ASSUME NEW s \in List, NEW t \in List, NEW s0 \in List, Ordered(t), Ordered(s0),
           NEW a, NEW b, SubAt(s, t, s0, a, b), b <= Len(t),
           a <= Len(s) => \/ s[a].token > t[b].token
                          \/ s[a].token = t[b].token /\ s[a].amount < t[b].amount
    PROVE  ~ FitsIn(t, s0)
<1>1. /\ Len(s) \in Nat /\ Len(t) \in Nat /\ Len(s0) = Len(s)
      /\ a \in 1 .. Len(s) + 1 /\ b \in 1 .. Len(t)
  BY ListItems DEF SubAt
<1>2. /\ t[b].token \in Nat /\ t[b].token \in Kinds_in(t)
      /\ \A m \in 1 .. Len(s) : s0[m].token \in Nat /\ s0[m].amount \in Nat
      /\ amount_of(t, t[b].token) = t[b].amount /\ t[b].amount \in Nat
  BY <1>1, ListItems, KindsIn, AmountOrdered
<1>3. CASE a <= Len(s) /\ s[a].token = t[b].token
  <2>1. a \in 1 .. Len(s) /\ s[a] = s0[a]
    BY <1>1, <1>3 DEF SubAt
  <2>2. amount_of(s0, t[b].token) = s0[a].amount
    BY <1>1, <1>3, <2>1, AmountOrdered
  <2>3. s0[a].amount < t[b].amount
    BY <1>2, <1>3, <2>1
  <2> QED
    BY <1>2, <2>1, <2>2, <2>3 DEF FitsIn
<1>4. CASE ~ (a <= Len(s) /\ s[a].token = t[b].token)
  <2>1. ASSUME NEW m \in 1 .. Len(s0), s0[m].token = t[b].token PROVE FALSE
    <3>1. CASE m \in 1 .. a - 1
      <4>1. b \in b .. Len(t)
        BY <1>1
      <4>2. s0[m].token < t[b].token
        BY <3>1, <4>1 DEF SubAt
      <4> QED
        BY <1>1, <1>2, <2>1, <4>2
    <3>2. CASE m \in a .. Len(s)
      <4>1. a \in 1 .. Len(s) /\ s[a] = s0[a]
        BY <1>1, <3>2 DEF SubAt
      <4>2. s0[a].token > t[b].token
        BY <1>1, <1>4, <4>1
      <4>3. m = a \/ s0[a].token < s0[m].token
        BY <1>1, <3>2, <4>1, OrderedUnique
      <4> QED
        BY <1>1, <1>2, <2>1, <4>1, <4>2, <4>3
    <3> QED
      BY <1>1, <3>1, <3>2
  <2>2. t[b].token \notin Kinds_in(s0)
    BY <2>1, KindsIn
  <2> QED
    BY <1>2, <2>2 DEF FitsIn
<1> QED
  BY <1>3, <1>4

\* Where it comes to the end of t, s is the difference.
LEMMA SubDone ==
    ASSUME NEW s \in List, NEW t \in List, NEW s0 \in List, Ordered(t), Ordered(s0),
           NEW a, NEW b, SubAt(s, t, s0, a, b), b = Len(t) + 1
    PROVE  /\ FitsIn(t, s0) /\ Ordered(s)
           /\ \A k : amount_of(s, k) = amount_of(s0, k) - amount_of(t, k)
<1>1. /\ Len(s) \in Nat /\ Len(t) \in Nat /\ Len(s0) = Len(s)
      /\ DOMAIN s = 1 .. Len(s)
      /\ a \in 1 .. Len(s) + 1
      /\ \A m \in 1 .. Len(s) : s[m].token = s0[m].token
  BY ListItems DEF SubAt
<1>2. Ordered(s)
  BY <1>1, OrderedUnique DEF Ordered
<1>3. ASSUME NEW l \in 1 .. Len(t)
      PROVE  \E m \in 1 .. a - 1 : t[l].token = s0[m].token
  <2>1. l \in 1 .. b - 1
    BY <1>1
  <2> QED
    BY <2>1 DEF SubAt
<1>4. ASSUME NEW k \in Kinds_in(t)
      PROVE  k \in Kinds_in(s0) /\ amount_of(t, k) <= amount_of(s0, k)
  <2>1. PICK l \in 1 .. Len(t) : t[l].token = k
    BY KindsIn
  <2>2. PICK m \in 1 .. a - 1 : k = s0[m].token
    BY <2>1, <1>3
  <2>3. m \in 1 .. Len(s0)
    BY <1>1
  <2>4. amount_of(t, s0[m].token) <= s0[m].amount
    BY DEF SubAt
  <2>5. amount_of(s0, k) = s0[m].amount
    BY <2>2, <2>3, AmountOrdered
  <2> QED
    BY <2>2, <2>3, <2>4, <2>5, KindsIn
<1>5. ASSUME NEW k PROVE amount_of(s, k) = amount_of(s0, k) - amount_of(t, k)
  <2>1. CASE k \in Kinds_in(s0)
    <3>1. PICK m \in 1 .. Len(s0) : s0[m].token = k
      BY <2>1, KindsIn
    <3>2. amount_of(s0, k) = s0[m].amount /\ amount_of(s, k) = s[m].amount
      BY <1>1, <1>2, <3>1, AmountOrdered
    <3>3. CASE m \in 1 .. a - 1
      BY <3>1, <3>2, <3>3 DEF SubAt
    <3>4. CASE m \in a .. Len(s)
      <4>1. k \notin Kinds_in(t)
        <5> SUFFICES ASSUME NEW l \in 1 .. Len(t), t[l].token = k PROVE FALSE
          BY KindsIn
        <5>1. PICK n \in 1 .. a - 1 : k = s0[n].token
          BY <1>3
        <5>2. n \in 1 .. Len(s0) /\ n # m
          BY <1>1, <3>4
        <5> QED
          BY <3>1, <5>1, <5>2, OrderedUnique
      <4>2. amount_of(t, k) = 0
        BY <4>1, AmountOrdered
      <4>3. s[m] = s0[m] /\ s0[m].amount \in Nat
        BY <3>4, ListItems DEF SubAt
      <4> QED
        BY <3>2, <4>2, <4>3
    <3> QED
      BY <1>1, <3>3, <3>4
  <2>2. CASE k \notin Kinds_in(s0)
    <3>1. k \notin Kinds_in(t)
      BY <2>2, <1>4
    <3>2. k \notin Kinds_in(s)
      BY <2>2, <1>1, KindsIn
    <3>3. amount_of(s, k) = 0 /\ amount_of(s0, k) = 0 /\ amount_of(t, k) = 0
      BY <1>2, <2>2, <3>1, <3>2, AmountOrdered
    <3> QED
      BY <3>3
  <2> QED
    BY <2>1, <2>2
<1> QED
  BY <1>2, <1>4, <1>5 DEF FitsIn

-----------------------------------------------------------------------------
(***************************************************************************)
(* The loops of add, at a in s and b in t, with p gathered                 *)
(***************************************************************************)
\* What has been gathered is final, is below what is still ahead in either
\* list, and has all that has been passed.
AddAt(s, t, p, a, b) ==
    /\ a \in 1 .. Len(s) + 1 /\ b \in 1 .. Len(t) + 1
    /\ p \in List /\ Ordered(p)
    /\ \A m \in 1 .. Len(p) :
         /\ p[m].amount = amount_of(s, p[m].token) + amount_of(t, p[m].token)
         /\ \A n \in a .. Len(s) : p[m].token < s[n].token
         /\ \A l \in b .. Len(t) : p[m].token < t[l].token
    /\ \A n \in 1 .. a - 1 : s[n].token \in Kinds_in(p)
    /\ \A l \in 1 .. b - 1 : t[l].token \in Kinds_in(p)

LEMMA AddBegins ==
    ASSUME NEW s \in List, NEW t \in List
    PROVE  AddAt(s, t, <<>>, 1, 1)
<1>1. Len(s) \in Nat /\ Len(t) \in Nat
  BY ListItems
<1>2. <<>> \in List /\ Len(<<>>) = 0
  BY DEF List
<1>3. DOMAIN <<>> = {}
  BY <1>2, ListItems
<1> QED
  BY <1>1, <1>2, <1>3 DEF AddAt, Ordered

\* One more entry: it is above all that has been gathered and below all that
\* is ahead, and it has the sum of its token.
LEMMA AddOne ==
    ASSUME NEW s \in List, NEW t \in List, Ordered(s), Ordered(t),
           NEW p, NEW a, NEW b, AddAt(s, t, p, a, b),
           NEW v \in Item, NEW a1 \in {a, a + 1}, NEW b1 \in {b, b + 1},
           a1 <= Len(s) + 1, b1 <= Len(t) + 1,
           v.amount = amount_of(s, v.token) + amount_of(t, v.token),
           \A m \in 1 .. Len(p) : p[m].token < v.token,
           \A n \in a1 .. Len(s) : v.token < s[n].token,
           \A l \in b1 .. Len(t) : v.token < t[l].token,
           a1 = a + 1 => s[a].token = v.token,
           b1 = b + 1 => t[b].token = v.token
    PROVE  AddAt(s, t, Append(p, v), a1, b1)
<1> DEFINE q == Append(p, v)
<1>1. Len(s) \in Nat /\ Len(t) \in Nat /\ a \in 1 .. Len(s) + 1 /\ b \in 1 .. Len(t) + 1
  BY ListItems DEF AddAt
<1>2. p \in List /\ Len(p) \in Nat
  BY ListItems DEF AddAt
<1>3. /\ q \in List /\ Len(q) = Len(p) + 1
      /\ \A m \in 1 .. Len(p) : q[m] = p[m]
      /\ q[Len(p) + 1] = v
  BY <1>2 DEF List
<1> HIDE DEF q
<1>4. \A m \in 1 .. Len(q) : m \in 1 .. Len(p) \/ m = Len(p) + 1
  BY <1>2, <1>3
<1>5. Ordered(q)
  <2> SUFFICES ASSUME NEW k \in 1 .. Len(q), NEW l \in 1 .. Len(q), k < l
               PROVE  q[k].token < q[l].token
    BY <1>3, ListItems DEF Ordered
  <2>1. k \in 1 .. Len(p)
    BY <1>2, <1>3
  <2>2. CASE l \in 1 .. Len(p)
    BY <1>2, <1>3, <2>1, <2>2, OrderedUnique DEF AddAt
  <2>3. CASE l = Len(p) + 1
    BY <1>3, <2>1, <2>3
  <2> QED
    BY <1>4, <2>2, <2>3
<1>6. \A n \in a1 .. Len(s) : n \in a .. Len(s)
  BY <1>1
<1>7. \A l \in b1 .. Len(t) : l \in b .. Len(t)
  BY <1>1
<1>8. ASSUME NEW m \in 1 .. Len(q)
      PROVE  /\ q[m].amount = amount_of(s, q[m].token) + amount_of(t, q[m].token)
             /\ \A n \in a1 .. Len(s) : q[m].token < s[n].token
             /\ \A l \in b1 .. Len(t) : q[m].token < t[l].token
  <2>1. CASE m \in 1 .. Len(p)
    BY <2>1, <1>3, <1>6, <1>7 DEF AddAt
  <2>2. CASE m = Len(p) + 1
    BY <2>2, <1>3
  <2> QED
    BY <1>4, <2>1, <2>2
<1>9. v.token \in Kinds_in(q) /\ \A k \in Kinds_in(p) : k \in Kinds_in(q)
  <2>1. Len(p) + 1 \in 1 .. Len(q) /\ \A m \in 1 .. Len(p) : m \in 1 .. Len(q)
    BY <1>2, <1>3
  <2>2. v.token \in Kinds_in(q)
    BY <1>3, <2>1, KindsIn
  <2>3. ASSUME NEW k \in Kinds_in(p) PROVE k \in Kinds_in(q)
    <3>1. PICK m \in 1 .. Len(p) : p[m].token = k
      BY <1>2, KindsIn
    <3> QED
      BY <1>3, <2>1, <3>1, KindsIn
  <2> QED
    BY <2>2, <2>3
<1>10. ASSUME NEW n \in 1 .. a1 - 1 PROVE s[n].token \in Kinds_in(q)
  <2>1. CASE n \in 1 .. a - 1
    BY <2>1, <1>9 DEF AddAt
  <2>2. CASE n \notin 1 .. a - 1
    <3>1. n = a /\ a1 = a + 1
      BY <1>1, <2>2
    <3> QED
      BY <3>1, <1>9
  <2> QED
    BY <2>1, <2>2
<1>11. ASSUME NEW l \in 1 .. b1 - 1 PROVE t[l].token \in Kinds_in(q)
  <2>1. CASE l \in 1 .. b - 1
    BY <2>1, <1>9 DEF AddAt
  <2>2. CASE l \notin 1 .. b - 1
    <3>1. l = b /\ b1 = b + 1
      BY <1>1, <2>2
    <3> QED
      BY <3>1, <1>9
  <2> QED
    BY <2>1, <2>2
<1>12. a1 \in 1 .. Len(s) + 1 /\ b1 \in 1 .. Len(t) + 1
  BY <1>1
<1> QED
  BY <1>3, <1>5, <1>8, <1>10, <1>11, <1>12 DEF AddAt, q

\* What is in order lies above its entry at a.
LEMMA Above ==
    ASSUME NEW s \in List, Ordered(s), NEW a \in 1 .. Len(s)
    PROVE  \A n \in a + 1 .. Len(s) : s[a].token < s[n].token
<1> SUFFICES ASSUME NEW n \in a + 1 .. Len(s) PROVE s[a].token < s[n].token
  OBVIOUS
<1>1. n \in 1 .. Len(s) /\ a < n
  BY ListItems
<1> QED
  BY <1>1, OrderedUnique

LEMMA AddSameKeeps ==
    ASSUME NEW s \in List, NEW t \in List, Ordered(s), Ordered(t),
           NEW p, NEW a, NEW b, AddAt(s, t, p, a, b), a <= Len(s), b <= Len(t),
           s[a].token = t[b].token
    PROVE  AddAt(s, t, Append(p, [s[a] EXCEPT !.amount = @ + t[b].amount]), a + 1, b + 1)
<1> DEFINE v == [s[a] EXCEPT !.amount = @ + t[b].amount]
<1>1. /\ Len(s) \in Nat /\ Len(t) \in Nat
      /\ a \in 1 .. Len(s) /\ b \in 1 .. Len(t)
      /\ a \in a .. Len(s)
  BY ListItems DEF AddAt
<1>2. s[a] \in Item /\ s[a].amount \in Nat /\ t[b].amount \in Nat
  BY <1>1, ListItems
<1>3. v \in Item /\ v.token = s[a].token /\ v.amount = s[a].amount + t[b].amount
  BY <1>2 DEF Item
<1> HIDE DEF v
<1>4. v.amount = amount_of(s, v.token) + amount_of(t, v.token)
  BY <1>1, <1>3, AmountOrdered
<1>5. \A m \in 1 .. Len(p) : p[m].token < v.token
  BY <1>1, <1>3 DEF AddAt
<1>6. /\ \A n \in a + 1 .. Len(s) : v.token < s[n].token
      /\ \A l \in b + 1 .. Len(t) : v.token < t[l].token
  BY <1>1, <1>3, Above
<1>7. a + 1 <= Len(s) + 1 /\ b + 1 <= Len(t) + 1
  BY <1>1
<1>8. AddAt(s, t, Append(p, v), a + 1, b + 1)
  BY <1>3, <1>4, <1>5, <1>6, <1>7, AddOne
<1> QED
  BY <1>8 DEF v

\* A token that is only in t.
LEMMA AddFromTokensKeeps ==
    ASSUME NEW s \in List, NEW t \in List, Ordered(s), Ordered(t),
           NEW p, NEW a, NEW b, AddAt(s, t, p, a, b), b <= Len(t),
           a <= Len(s) => s[a].token > t[b].token
    PROVE  AddAt(s, t, Append(p, t[b]), a, b + 1)
<1> DEFINE v == t[b]
<1>1. /\ Len(s) \in Nat /\ Len(t) \in Nat /\ Len(p) \in Nat /\ p \in List
      /\ a \in 1 .. Len(s) + 1 /\ b \in 1 .. Len(t)
      /\ b \in b .. Len(t)
  BY ListItems DEF AddAt
<1>2. /\ v \in Item /\ v.token \in Nat /\ v.amount \in Nat
      /\ \A n \in 1 .. Len(s) : s[n].token \in Nat
      /\ \A m \in 1 .. Len(p) : p[m].token \in Nat
  BY <1>1, ListItems
<1>3. \A m \in 1 .. Len(p) : p[m].token < v.token
  BY <1>1 DEF AddAt
<1>4. ASSUME NEW n \in a .. Len(s) PROVE v.token < s[n].token
  <2>1. a \in 1 .. Len(s) /\ n \in 1 .. Len(s) /\ a <= Len(s)
    BY <1>1
  <2>2. n = a \/ s[a].token < s[n].token
    BY <2>1, <1>1, Above
  <2> QED
    BY <2>1, <2>2, <1>2
<1>5. v.token \notin Kinds_in(s)
  <2> SUFFICES ASSUME NEW n \in 1 .. Len(s), s[n].token = v.token PROVE FALSE
    BY KindsIn
  <2>1. CASE n \in 1 .. a - 1
    <3>1. s[n].token \in Kinds_in(p)
      BY <2>1 DEF AddAt
    <3>2. PICK m \in 1 .. Len(p) : p[m].token = s[n].token
      BY <1>1, <3>1, KindsIn
    <3> QED
      BY <1>2, <1>3, <3>2
  <2>2. CASE n \in a .. Len(s)
    BY <1>2, <1>4, <2>2
  <2> QED
    BY <1>1, <2>1, <2>2
<1>6. v.amount = amount_of(s, v.token) + amount_of(t, v.token)
  BY <1>1, <1>2, <1>5, AmountOrdered
<1>7. \A l \in b + 1 .. Len(t) : v.token < t[l].token
  BY <1>1, Above
<1>8. b + 1 <= Len(t) + 1 /\ a <= Len(s) + 1 /\ a # a + 1
  BY <1>1
<1>9. AddAt(s, t, Append(p, v), a, b + 1)
  <2> HIDE DEF v
  <2>1. t[b].token = v.token
    BY DEF v
  <2> QED
    BY <1>2, <1>3, <1>4, <1>6, <1>7, <1>8, <2>1, AddOne
<1> QED
  BY <1>9

\* A token that is only in s.
LEMMA AddFromSelfKeeps ==
    ASSUME NEW s \in List, NEW t \in List, Ordered(s), Ordered(t),
           NEW p, NEW a, NEW b, AddAt(s, t, p, a, b), a <= Len(s),
           b <= Len(t) => s[a].token < t[b].token
    PROVE  AddAt(s, t, Append(p, s[a]), a + 1, b)
<1> DEFINE v == s[a]
<1>1. /\ Len(s) \in Nat /\ Len(t) \in Nat /\ Len(p) \in Nat /\ p \in List
      /\ b \in 1 .. Len(t) + 1 /\ a \in 1 .. Len(s)
      /\ a \in a .. Len(s)
  BY ListItems DEF AddAt
<1>2. /\ v \in Item /\ v.token \in Nat /\ v.amount \in Nat
      /\ \A l \in 1 .. Len(t) : t[l].token \in Nat
      /\ \A m \in 1 .. Len(p) : p[m].token \in Nat
  BY <1>1, ListItems
<1>3. \A m \in 1 .. Len(p) : p[m].token < v.token
  BY <1>1 DEF AddAt
<1>4. ASSUME NEW l \in b .. Len(t) PROVE v.token < t[l].token
  <2>1. b \in 1 .. Len(t) /\ l \in 1 .. Len(t) /\ b <= Len(t)
    BY <1>1
  <2>2. l = b \/ t[b].token < t[l].token
    BY <2>1, <1>1, Above
  <2> QED
    BY <2>1, <2>2, <1>2
<1>5. v.token \notin Kinds_in(t)
  <2> SUFFICES ASSUME NEW l \in 1 .. Len(t), t[l].token = v.token PROVE FALSE
    BY KindsIn
  <2>1. CASE l \in 1 .. b - 1
    <3>1. t[l].token \in Kinds_in(p)
      BY <2>1 DEF AddAt
    <3>2. PICK m \in 1 .. Len(p) : p[m].token = t[l].token
      BY <1>1, <3>1, KindsIn
    <3> QED
      BY <1>2, <1>3, <3>2
  <2>2. CASE l \in b .. Len(t)
    BY <1>2, <1>4, <2>2
  <2> QED
    BY <1>1, <2>1, <2>2
<1>6. v.amount = amount_of(s, v.token) + amount_of(t, v.token)
  BY <1>1, <1>2, <1>5, AmountOrdered
<1>7. \A n \in a + 1 .. Len(s) : v.token < s[n].token
  BY <1>1, Above
<1>8. a + 1 <= Len(s) + 1 /\ b <= Len(t) + 1 /\ b # b + 1
  BY <1>1
<1>9. AddAt(s, t, Append(p, v), a + 1, b)
  <2> HIDE DEF v
  <2>1. s[a].token = v.token
    BY DEF v
  <2> QED
    BY <1>2, <1>3, <1>4, <1>6, <1>7, <1>8, <2>1, AddOne
<1> QED
  BY <1>9

LEMMA AddDone ==
    ASSUME NEW s \in List, NEW t \in List, Ordered(s), Ordered(t),
           NEW p, AddAt(s, t, p, Len(s) + 1, Len(t) + 1)
    PROVE  /\ p \in List /\ Ordered(p)
           /\ \A k : amount_of(p, k) = amount_of(s, k) + amount_of(t, k)
<1>1. p \in List /\ Ordered(p) /\ Len(s) \in Nat /\ Len(t) \in Nat
  BY ListItems DEF AddAt
<1>2. (Len(s) + 1) - 1 = Len(s) /\ (Len(t) + 1) - 1 = Len(t)
  BY <1>1
<1>3. ASSUME NEW k PROVE amount_of(p, k) = amount_of(s, k) + amount_of(t, k)
  <2>1. CASE k \in Kinds_in(p)
    <3>1. PICK m \in 1 .. Len(p) : p[m].token = k
      BY <1>1, <2>1, KindsIn
    <3> QED
      BY <1>1, <3>1, AmountOrdered DEF AddAt
  <2>2. CASE k \notin Kinds_in(p)
    <3>1. k \notin Kinds_in(s)
      BY <1>1, <1>2, <2>2, KindsIn DEF AddAt
    <3>2. k \notin Kinds_in(t)
      BY <1>1, <1>2, <2>2, KindsIn DEF AddAt
    <3>3. amount_of(p, k) = 0 /\ amount_of(s, k) = 0 /\ amount_of(t, k) = 0
      BY <1>1, <2>2, <3>1, <3>2, AmountOrdered
    <3> QED
      BY <3>3
  <2> QED
    BY <2>1, <2>2
<1> QED
  BY <1>1, <1>3

-----------------------------------------------------------------------------
(***************************************************************************)
(* The invariant                                                           *)
(***************************************************************************)
\* The argument, sorted: the same amounts by token.
ArgumentOK ==
    /\ tokens \in List /\ Ordered(tokens)
    /\ Kinds_in(tokens) = Kinds_in(tokens0)
    /\ \A k : amount_of(tokens, k) = amount_of(tokens0, k)

Given ==
    /\ op \in {"add", "sub"}
    /\ self0 \in List /\ Ordered(self0) /\ tokens0 \in List

TInv ==
    /\ Given
    /\ ~started => /\ outcome = "running" /\ i = 1 /\ j = 1 /\ tmp = <<>>
                   /\ self = self0 /\ tokens = tokens0
    /\ started =>
         /\ outcome = "panic" <=> ~Unique(tokens0)
         /\ outcome # "panic" => ArgumentOK
         /\ outcome = "running" /\ op = "sub" =>
              self \in List /\ SubAt(self, tokens, self0, i, j)
         /\ outcome = "running" /\ op = "add" =>
              self = self0 /\ AddAt(self, tokens, tmp, i, j)
         /\ outcome = "underflow" => op = "sub" /\ ~Fits
         /\ outcome = "ok" => Computed /\ (op = "sub" => Fits)
    /\ outcome \in {"running", "ok", "underflow", "panic"}

LEMMA InitHolds == ASSUME Init PROVE TInv
<1>1. ASSUME NEW s \in Normal PROVE s \in List /\ Ordered(s)
  <2>1. PICK n \in 0 .. Cardinality(Kinds) : s \in [1 .. n -> Entry(1)] /\ Ordered(s)
    BY DEF Normal
  <2>2. n \in Nat
    BY KindsAssumption, FS_CardinalityType
  <2>3. Entry(1) \subseteq Item
    BY KindsAssumption DEF Entry, Item
  <2>4. s \in [1 .. n -> Item]
    BY <2>1, <2>3
  <2> QED
    BY <2>1, <2>2, <2>4, SeqDef DEF List
<1>2. ASSUME NEW s \in Arguments PROVE s \in List
  <2>1. PICK n \in 0 .. MaxLength : s \in [1 .. n -> Entry(0)]
    BY DEF Arguments
  <2>2. n \in Nat
    BY KindsAssumption
  <2>3. Entry(0) \subseteq Item
    BY KindsAssumption DEF Entry, Item
  <2>4. s \in [1 .. n -> Item]
    BY <2>1, <2>3
  <2> QED
    BY <2>2, <2>4, SeqDef DEF List
<1> QED
  BY <1>1, <1>2 DEF Init, TInv, Given

LEMMA SortKeeps == ASSUME TInv, Sort PROVE TInv'
<1>1. /\ Given /\ self = self0 /\ tokens = tokens0 /\ i = 1 /\ j = 1 /\ tmp = <<>>
  BY DEF TInv, Sort
<1>2. /\ self0 \in List /\ Ordered(self0) /\ tokens0 \in List
  BY <1>1 DEF Given
<1>3. self' = self0 /\ assert_duplicate_token(self')
  BY <1>1, <1>2, SortedStays, OrderedAsserts DEF Sort
<1>4. tokens' = sorted(tokens0) /\ tokens' \in List
  BY <1>1, <1>2, SortedList DEF Sort
<1>5. /\ i' = i /\ j' = j /\ tmp' = tmp /\ op' = op /\ started' = TRUE
      /\ self0' = self0 /\ tokens0' = tokens0
  BY DEF Sort, history
<1>6. assert_duplicate_token(tokens') <=> Unique(tokens0)
  BY <1>2, <1>4, SortedArgument
<1>7. Unique(tokens0) => ArgumentOK'
  BY <1>2, <1>4, <1>5, SortedArgument DEF ArgumentOK
<1>8. outcome' = IF Unique(tokens0) THEN "running" ELSE "panic"
  BY <1>3, <1>6 DEF Sort
<1>9. SubAt(self', tokens', self0', i', j')
  BY <1>1, <1>2, <1>3, <1>4, <1>5, SubBegins
<1>10. AddAt(self', tokens', tmp', i', j')
  BY <1>1, <1>2, <1>3, <1>4, <1>5, AddBegins
<1>11. Given'
  BY <1>1, <1>5 DEF Given
<1> QED
  BY <1>2, <1>3, <1>5, <1>7, <1>8, <1>9, <1>10, <1>11 DEF TInv

\* What a step of a loop may rely on.
LEMMA AtWork ==
    ASSUME TInv, started, outcome = "running"
    PROVE  /\ self0 \in List /\ Ordered(self0) /\ tokens0 \in List
           /\ ArgumentOK /\ Unique(tokens0)
           /\ self \in List /\ Len(self) \in Nat /\ Len(tokens) \in Nat
           /\ op = "sub" => SubAt(self, tokens, self0, i, j)
           /\ op = "add" => self = self0 /\ AddAt(self, tokens, tmp, i, j)
<1>1. /\ Given /\ ArgumentOK /\ Unique(tokens0)
      /\ op = "sub" => self \in List /\ SubAt(self, tokens, self0, i, j)
      /\ op = "add" => self = self0 /\ AddAt(self, tokens, tmp, i, j)
  BY DEF TInv
<1>2. self \in List
  BY <1>1 DEF Given
<1> QED
  BY <1>1, <1>2, ListItems DEF Given, ArgumentOK

\* A step of sub leaves alone what has been given.
LEMMA SubLeaves ==
    ASSUME TInv, Looping("sub"),
           UNCHANGED <<op, tokens, started, history>>
    PROVE  /\ Given' /\ started' /\ op' = "sub"
           /\ Unique(tokens0)' /\ ArgumentOK'
           /\ Fits' <=> FitsIn(tokens, self0)
<1>1. started /\ outcome = "running" /\ op = "sub"
  BY DEF Looping
<1>2. /\ op' = op /\ tokens' = tokens /\ started' = started
      /\ self0' = self0 /\ tokens0' = tokens0
  BY DEF history
<1>3. Given /\ ArgumentOK /\ Unique(tokens0)
  BY <1>1, AtWork DEF TInv
<1>4. Given' /\ Unique(tokens0)' /\ ArgumentOK'
  BY <1>2, <1>3 DEF Given, ArgumentOK
<1>5. Fits' <=> FitsIn(tokens, self0)
  BY <1>2, <1>3 DEF Fits, FitsIn, ArgumentOK
<1> QED
  BY <1>1, <1>2, <1>4, <1>5

LEMMA SubSameStep == ASSUME TInv, SubSame PROVE TInv'
<1>1. /\ Looping("sub") /\ started /\ outcome = "running" /\ op = "sub"
      /\ i <= Len(self) /\ j <= Len(tokens) /\ self[i].token = tokens[j].token
      /\ UNCHANGED <<op, tokens, started, history>>
  BY DEF SubSame, Looping, Within
<1>2. /\ Given' /\ started' /\ op' = "sub" /\ Unique(tokens0)' /\ ArgumentOK'
      /\ Fits' <=> FitsIn(tokens, self0)
  BY <1>1, SubLeaves
<1>3. /\ self0 \in List /\ Ordered(self0) /\ tokens \in List /\ Ordered(tokens)
      /\ self \in List /\ SubAt(self, tokens, self0, i, j)
  BY <1>1, AtWork DEF ArgumentOK
<1>4. CASE self[i].amount < tokens[j].amount
  <2>1. ~ FitsIn(tokens, self0)
    BY <1>1, <1>3, <1>4, SubLacks
  <2>2. outcome' = "underflow"
    BY <1>4 DEF SubSame
  <2> QED
    BY <1>2, <2>1, <2>2 DEF TInv
<1>5. CASE ~ (self[i].amount < tokens[j].amount)
  <2>1. /\ self' = [self EXCEPT ![i].amount = @ - tokens[j].amount]
        /\ i' = i + 1 /\ j' = j + 1 /\ outcome' = outcome
    BY <1>5 DEF SubSame
  <2>2. self' \in List /\ SubAt(self', tokens, self0, i + 1, j + 1)
    BY <1>1, <1>3, <1>5, <2>1, SubSameKeeps
  <2>3. SubAt(self, tokens, self0, i, j)'
    BY <1>1, <2>1, <2>2 DEF history
  <2> QED
    BY <1>1, <1>2, <2>1, <2>2, <2>3 DEF TInv
<1> QED
  BY <1>4, <1>5

LEMMA SubSkipStep == ASSUME TInv, SubSkip PROVE TInv'
<1>1. /\ Looping("sub") /\ started /\ outcome = "running" /\ op = "sub"
      /\ i <= Len(self) /\ j <= Len(tokens) /\ self[i].token < tokens[j].token
      /\ i' = i + 1 /\ self' = self /\ j' = j /\ outcome' = outcome
      /\ UNCHANGED <<op, tokens, started, history>>
  BY DEF SubSkip, Looping, Within
<1>2. Given' /\ started' /\ op' = "sub" /\ Unique(tokens0)' /\ ArgumentOK'
  BY <1>1, SubLeaves
<1>3. /\ self0 \in List /\ Ordered(self0) /\ tokens \in List /\ Ordered(tokens)
      /\ self \in List /\ SubAt(self, tokens, self0, i, j)
  BY <1>1, AtWork DEF ArgumentOK
<1>4. SubAt(self, tokens, self0, i + 1, j)
  BY <1>1, <1>3, SubSkipKeeps
<1>5. SubAt(self, tokens, self0, i, j)'
  BY <1>1, <1>4 DEF history
<1> QED
  BY <1>1, <1>2, <1>3, <1>5 DEF TInv

LEMMA SubMissingStep == ASSUME TInv, SubMissing PROVE TInv'
<1>1. /\ Looping("sub") /\ started /\ outcome = "running" /\ op = "sub"
      /\ j <= Len(tokens) /\ self[i].token > tokens[j].token
      /\ outcome' = "underflow"
      /\ UNCHANGED <<op, tokens, started, history>>
  BY DEF SubMissing, Looping, Within
<1>2. /\ Given' /\ started' /\ op' = "sub" /\ Unique(tokens0)' /\ ArgumentOK'
      /\ Fits' <=> FitsIn(tokens, self0)
  BY <1>1, SubLeaves
<1>3. /\ self0 \in List /\ Ordered(self0) /\ tokens \in List /\ Ordered(tokens)
      /\ self \in List /\ SubAt(self, tokens, self0, i, j)
  BY <1>1, AtWork DEF ArgumentOK
<1>4. ~ FitsIn(tokens, self0)
  BY <1>1, <1>3, SubLacks
<1> QED
  BY <1>1, <1>2, <1>4 DEF TInv

LEMMA SubEndStep == ASSUME TInv, SubEnd PROVE TInv'
<1>1. /\ Looping("sub") /\ started /\ outcome = "running" /\ op = "sub" /\ ~Within
      /\ UNCHANGED <<op, tokens, started, history>>
  BY DEF SubEnd, Looping
<1>2. /\ Given' /\ started' /\ op' = "sub" /\ Unique(tokens0)' /\ ArgumentOK'
      /\ Fits' <=> FitsIn(tokens, self0)
  BY <1>1, SubLeaves
<1>3. /\ self0 \in List /\ Ordered(self0) /\ tokens \in List /\ Ordered(tokens)
      /\ self \in List /\ SubAt(self, tokens, self0, i, j)
      /\ Len(self) \in Nat /\ Len(tokens) \in Nat
  BY <1>1, AtWork DEF ArgumentOK
<1>4. i \in 1 .. Len(self) + 1 /\ j \in 1 .. Len(tokens) + 1
  BY <1>3 DEF SubAt
<1>5. CASE j # Len(tokens) + 1
  <2>1. outcome' = "underflow"
    BY <1>5 DEF SubEnd
  <2>2. j <= Len(tokens) /\ ~ (i <= Len(self))
    BY <1>1, <1>3, <1>4, <1>5 DEF Within
  <2>3. ~ FitsIn(tokens, self0)
    BY <1>3, <2>2, SubLacks
  <2> QED
    BY <1>2, <2>1, <2>3 DEF TInv
<1>6. CASE j = Len(tokens) + 1
  <2>1. outcome' = "ok" /\ self' = retain(self)
    BY <1>6 DEF SubEnd
  <2>2. /\ FitsIn(tokens, self0) /\ Ordered(self)
        /\ \A k : amount_of(self, k) = amount_of(self0, k) - amount_of(tokens, k)
    BY <1>3, <1>6, SubDone
  <2>3. /\ Ordered(self')
        /\ \A k \in DOMAIN self' : self'[k].amount > 0
        /\ \A k : amount_of(self', k) = amount_of(self, k)
    BY <1>3, <2>1, <2>2, Retained
  <2>4. self0' = self0 /\ tokens0' = tokens0 /\ tokens' = tokens
    BY <1>1 DEF history
  <2>5. \A k : amount_of(tokens0', k) = amount_of(tokens, k)
    BY <1>2, <2>4 DEF ArgumentOK
  <2>6. \A k : amount_of(self', k) = amount_of(self0', k) - amount_of(tokens0', k)
    BY <2>2, <2>3, <2>4, <2>5
  <2>7. Computed'
    BY <1>2, <2>3, <2>6 DEF Computed
  <2> QED
    BY <1>2, <2>1, <2>2, <2>7 DEF TInv
<1> QED
  BY <1>5, <1>6

\* A step of add that goes on.
LEMMA AddGoesOn ==
    ASSUME TInv, Looping("add"),
           UNCHANGED <<op, self, tokens, outcome, started, history>>,
           AddAt(self, tokens, tmp', i', j')
    PROVE  TInv'
<1>1. started /\ outcome = "running" /\ op = "add"
  BY DEF Looping
<1>2. /\ op' = op /\ self' = self /\ tokens' = tokens /\ started' = started
      /\ outcome' = outcome /\ self0' = self0 /\ tokens0' = tokens0
  BY DEF history
<1>3. Given /\ ArgumentOK /\ Unique(tokens0) /\ self = self0
  BY <1>1, AtWork DEF TInv
<1>4. Given' /\ Unique(tokens0)' /\ ArgumentOK' /\ self' = self0'
  BY <1>2, <1>3 DEF Given, ArgumentOK
<1>5. AddAt(self', tokens', tmp', i', j')
  BY <1>2
<1> QED
  BY <1>1, <1>2, <1>4, <1>5 DEF TInv

LEMMA AddAtWork ==
    ASSUME TInv, Looping("add")
    PROVE  /\ self \in List /\ Ordered(self) /\ tokens \in List /\ Ordered(tokens)
           /\ AddAt(self, tokens, tmp, i, j)
           /\ Len(self) \in Nat /\ Len(tokens) \in Nat
BY AtWork DEF Looping, ArgumentOK

LEMMA AddSameStep == ASSUME TInv, AddSame PROVE TInv'
<1>1. /\ Looping("add") /\ i <= Len(self) /\ j <= Len(tokens)
      /\ self[i].token = tokens[j].token
      /\ tmp' = Append(tmp, [self[i] EXCEPT !.amount = @ + tokens[j].amount])
      /\ i' = i + 1 /\ j' = j + 1
      /\ UNCHANGED <<op, self, tokens, outcome, started, history>>
  BY DEF AddSame, Within
<1>2. AddAt(self, tokens, Append(tmp, [self[i] EXCEPT !.amount = @ + tokens[j].amount]),
            i + 1, j + 1)
  BY <1>1, AddAtWork, AddSameKeeps
<1>3. AddAt(self, tokens, tmp', i', j')
  BY <1>1, <1>2
<1> QED
  BY <1>1, <1>3, AddGoesOn

LEMMA AddFromTokensStep == ASSUME TInv, AddFromTokens PROVE TInv'
<1>1. /\ Looping("add") /\ j <= Len(tokens)
      /\ i <= Len(self) => self[i].token > tokens[j].token
      /\ tmp' = Append(tmp, tokens[j]) /\ i' = i /\ j' = j + 1
      /\ UNCHANGED <<op, self, tokens, outcome, started, history>>
  BY DEF AddFromTokens
<1>2. AddAt(self, tokens, Append(tmp, tokens[j]), i, j + 1)
  BY <1>1, AddAtWork, AddFromTokensKeeps
<1>3. AddAt(self, tokens, tmp', i', j')
  BY <1>1, <1>2
<1> QED
  BY <1>1, <1>3, AddGoesOn

LEMMA AddFromSelfStep == ASSUME TInv, AddFromSelf PROVE TInv'
<1>1. /\ Looping("add") /\ i <= Len(self)
      /\ j <= Len(tokens) => self[i].token < tokens[j].token
      /\ tmp' = Append(tmp, self[i]) /\ i' = i + 1 /\ j' = j
      /\ UNCHANGED <<op, self, tokens, outcome, started, history>>
  BY DEF AddFromSelf
<1>2. AddAt(self, tokens, Append(tmp, self[i]), i + 1, j)
  BY <1>1, AddAtWork, AddFromSelfKeeps
<1>3. AddAt(self, tokens, tmp', i', j')
  BY <1>1, <1>2
<1> QED
  BY <1>1, <1>3, AddGoesOn

LEMMA AddEndStep == ASSUME TInv, AddEnd PROVE TInv'
<1>1. /\ Looping("add") /\ started /\ outcome = "running" /\ op = "add"
      /\ i > Len(self) /\ j > Len(tokens)
      /\ self' = retain(tmp) /\ outcome' = "ok"
      /\ op' = op /\ tokens' = tokens /\ started' = started
      /\ self0' = self0 /\ tokens0' = tokens0
  BY DEF AddEnd, Looping, history
<1>2. /\ self \in List /\ Ordered(self) /\ tokens \in List /\ Ordered(tokens)
      /\ AddAt(self, tokens, tmp, i, j)
      /\ Len(self) \in Nat /\ Len(tokens) \in Nat
  BY <1>1, AddAtWork
<1>3. Given /\ ArgumentOK /\ Unique(tokens0) /\ self = self0
  BY <1>1, AtWork DEF TInv
<1>4. i = Len(self) + 1 /\ j = Len(tokens) + 1
  BY <1>1, <1>2 DEF AddAt
<1>5. /\ tmp \in List /\ Ordered(tmp)
      /\ \A k : amount_of(tmp, k) = amount_of(self, k) + amount_of(tokens, k)
  BY <1>2, <1>4, AddDone
<1>6. /\ Ordered(self')
      /\ \A k \in DOMAIN self' : self'[k].amount > 0
      /\ \A k : amount_of(self', k) = amount_of(tmp, k)
  BY <1>1, <1>5, Retained
<1>7. \A k : amount_of(self', k) = amount_of(self0', k) + amount_of(tokens0', k)
  BY <1>1, <1>3, <1>5, <1>6 DEF ArgumentOK
<1>8. Computed'
  BY <1>1, <1>6, <1>7 DEF Computed
<1>9. Given' /\ Unique(tokens0)' /\ ArgumentOK'
  BY <1>1, <1>3 DEF Given, ArgumentOK
<1> QED
  BY <1>1, <1>8, <1>9 DEF TInv

LEMMA Stutters == ASSUME TInv, UNCHANGED tvars PROVE TInv'
<1>1. /\ op' = op /\ self' = self /\ tokens' = tokens /\ i' = i /\ j' = j
      /\ tmp' = tmp /\ outcome' = outcome /\ started' = started
      /\ self0' = self0 /\ tokens0' = tokens0
  BY DEF tvars, history
<1> QED
  BY <1>1 DEF TInv, Given, ArgumentOK, Fits, Computed

-----------------------------------------------------------------------------
\* The loop invariants of add and sub hold at every iteration, for lists of any
\* length over any tokens (tokens.rs).
THEOREM LoopInvariance == Spec => []TInv
<1>1. Init => TInv
  BY InitHolds
<1>2. TInv /\ [Next]_tvars => TInv'
  <2> SUFFICES ASSUME TInv, [Next]_tvars PROVE TInv'
    OBVIOUS
  <2> QED
    BY SortKeeps, SubSameStep, SubSkipStep, SubMissingStep, SubEndStep, AddSameStep,
       AddFromTokensStep, AddFromSelfStep, AddEndStep, Stutters DEF Next
<1> QED
  BY <1>1, <1>2, PTL DEF Spec

\* add and sub return the sum or the difference by token of any two lists, in
\* order and without zeros; sub refuses just where something is missing, and a
\* duplicate never goes unnoticed (tokens.rs).
THEOREM AlwaysCorrect == Spec => []Correct
<1>1. TInv => Correct
  <2> SUFFICES ASSUME TInv PROVE Correct
    OBVIOUS
  <2>1. Computed
    BY DEF TInv, Computed
  <2>2. UnderflowExact
    BY DEF TInv, UnderflowExact
  <2>3. DuplicatesPanic
    BY DEF TInv, DuplicatesPanic
  <2> QED
    BY <2>1, <2>2, <2>3 DEF Correct
<1> QED
  BY <1>1, LoopInvariance, PTL
=============================================================================
