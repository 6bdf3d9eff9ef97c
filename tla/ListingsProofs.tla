-------------------------- MODULE ListingsProofs ---------------------------
(***************************************************************************)
(* Theorems about listings in pages, for any number of keys of any length  *)
(* and any limits.                                                         *)
(*                                                                         *)
(* The argument: appending a byte of one to the last key of a page gives a *)
(* bound that lies before every later key and after all others             *)
(* (StartsAfter), so that what has been listed is at every moment exactly  *)
(* what lies up to the last key (ReadingOK): everything that was there all *)
(* the time, nothing twice, and nothing beyond.                            *)
(***************************************************************************)
EXTENDS Listings, FiniteSetTheorems, SequenceTheorems, WellFoundedInduction, TLAPS

\* A nonempty set of natural numbers has a least element.
LEMMA LeastElement ==
    ASSUME NEW N \in SUBSET Nat, N # {}
    PROVE  \E n \in N : \A m \in N : n <= m
<1> DEFINE R == OpToRel(<, Nat)
<1>1. PICK n \in N : \A m \in N : <<m, n>> \notin R
  <2>1. IsWellFoundedOn(R, Nat)
    BY NatLessThanWellFounded
  <2> HIDE DEF R
  <2> QED
    BY <2>1, WFMin
<1>2. ASSUME NEW m \in N PROVE n <= m
  <2>1. ~ (m < n)
    BY <1>1 DEF OpToRel
  <2> QED
    BY <2>1
<1> QED
  BY <1>2

-----------------------------------------------------------------------------
(***************************************************************************)
(* The order of the keys                                                   *)
(***************************************************************************)
LEMMA BeforeIrreflexive == \A a \in Seq(Nat) : ~Before(a, a)
BY DEF Before

LEMMA Bytes ==
    ASSUME NEW a \in Seq(Nat)
    PROVE  Len(a) \in Nat /\ \A l \in 1 .. Len(a) : a[l] \in Nat
OBVIOUS

LEMMA BeforeTransitive ==
    ASSUME NEW a \in Seq(Nat), NEW b \in Seq(Nat), NEW c \in Seq(Nat),
           Before(a, b), Before(b, c)
    PROVE  Before(a, c)
<1>1. PICK i \in 1 .. Len(b) :
        /\ \A l \in 1 .. i - 1 : l <= Len(a) /\ a[l] = b[l]
        /\ i > Len(a) \/ a[i] < b[i]
  BY DEF Before
<1>2. PICK j \in 1 .. Len(c) :
        /\ \A l \in 1 .. j - 1 : l <= Len(b) /\ b[l] = c[l]
        /\ j > Len(b) \/ b[j] < c[j]
  BY DEF Before
<1>3. /\ Len(a) \in Nat /\ Len(b) \in Nat /\ Len(c) \in Nat
      /\ \A l \in 1 .. Len(a) : a[l] \in Nat
      /\ \A l \in 1 .. Len(b) : b[l] \in Nat
      /\ \A l \in 1 .. Len(c) : c[l] \in Nat
  BY Bytes
<1> SUFFICES \E m \in 1 .. Len(c) :
               /\ \A l \in 1 .. m - 1 : l <= Len(a) /\ a[l] = c[l]
               /\ m > Len(a) \/ a[m] < c[m]
  BY DEF Before
<1>4. CASE i < j
  <2>1. i \in 1 .. Len(c) /\ b[i] = c[i]
    BY <1>2, <1>3, <1>4
  <2>2. \A l \in 1 .. i - 1 : l <= Len(a) /\ a[l] = c[l]
    BY SMTT(30), <1>1, <1>2, <1>3, <1>4
  <2> QED
    BY <1>1, <2>1, <2>2
<1>5. CASE i = j
  <2>1. \A l \in 1 .. i - 1 : l <= Len(a) /\ a[l] = c[l]
    BY <1>1, <1>2, <1>3, <1>5
  <2>2. i > Len(a) \/ a[i] < c[i]
    BY SMTT(30), <1>1, <1>2, <1>3, <1>5
  <2> QED
    BY <1>5, <2>1, <2>2
<1>6. CASE i > j
  <2>1. j \in 1 .. i - 1
    BY <1>3, <1>6
  <2>2. j \in 1 .. Len(a) /\ a[j] = b[j] /\ j \in 1 .. Len(b)
    BY <1>1, <1>3, <2>1
  <2>3. \A l \in 1 .. j - 1 : l <= Len(a) /\ a[l] = c[l]
    BY SMTT(30), <1>1, <1>2, <1>3, <1>6
  <2>4. a[j] < c[j]
    BY <1>2, <1>3, <2>2
  <2> QED
    BY <2>3, <2>4
<1> QED
  BY <1>3, <1>4, <1>5, <1>6

LEMMA BeforeTotal ==
    ASSUME NEW a \in Seq(Nat), NEW b \in Seq(Nat), a # b
    PROVE  Before(a, b) \/ Before(b, a)
<1> DEFINE D == {i \in Nat : /\ i \in 1 .. Len(a) \/ i \in 1 .. Len(b)
                             /\ ~(i \in 1 .. Len(a) /\ i \in 1 .. Len(b) /\ a[i] = b[i])}
<1>1. Len(a) \in Nat /\ Len(b) \in Nat
  OBVIOUS
<1>2. D # {}
  <2> SUFFICES ASSUME D = {} PROVE FALSE
    OBVIOUS
  <2>1. \A i \in Nat : i \in 1 .. Len(a) \/ i \in 1 .. Len(b)
                         => i \in 1 .. Len(a) /\ i \in 1 .. Len(b) /\ a[i] = b[i]
    OBVIOUS
  <2>2. Len(a) = Len(b)
    <3>1. CASE Len(a) < Len(b)
      BY <1>1, <2>1, <3>1
    <3>2. CASE Len(b) < Len(a)
      BY <1>1, <2>1, <3>2
    <3> QED
      BY <1>1, <3>1, <3>2
  <2>3. \A i \in 1 .. Len(a) : a[i] = b[i]
    BY <1>1, <2>1
  <2> QED
    BY <2>2, <2>3
<1>3. PICK i \in D : \A l \in D : i <= l
  <2>1. D \in SUBSET Nat
    OBVIOUS
  <2> HIDE DEF D
  <2> QED
    BY <1>2, <2>1, LeastElement
<1>4. ASSUME NEW l \in 1 .. i - 1
      PROVE  l <= Len(a) /\ l <= Len(b) /\ a[l] = b[l]
  <2>1. l \in Nat /\ l \notin D
    BY <1>3
  <2> QED
    BY <1>1, <1>3, <2>1
<1>5. CASE i \notin 1 .. Len(a)
  BY <1>3, <1>4, <1>5 DEF Before
<1>6. CASE i \notin 1 .. Len(b)
  BY SMTT(30), <1>3, <1>4, <1>6 DEF Before
<1>7. CASE i \in 1 .. Len(a) /\ i \in 1 .. Len(b)
  <2>1. a[i] \in Nat /\ b[i] \in Nat /\ a[i] # b[i]
    BY <1>3, <1>7
  <2> HIDE DEF D
  <2>2. CASE a[i] < b[i]
    <3>1. \A l \in 1 .. i - 1 : l <= Len(a) /\ a[l] = b[l]
      BY <1>1, <1>4
    <3> QED
      BY <1>7, <2>2, <3>1 DEF Before
  <2>3. CASE b[i] < a[i]
    <3>1. \A l \in 1 .. i - 1 : l <= Len(b) /\ b[l] = a[l]
      BY <1>1, <1>4
    <3> QED
      BY <1>7, <2>3, <3>1 DEF Before
  <2> QED
    BY <2>1, <2>2, <2>3
<1> QED
  BY <1>5, <1>6, <1>7

\* What the assumption says of two keys of one bucket.
NoZero(a, k) == Len(a) < Len(k) /\ SubSeq(k, 1, Len(a)) = a => k[Len(a) + 1] > 0

\* A page begins at the first key after the last one of the page before.
LEMMA StartsAfter ==
    ASSUME NEW a \in Seq(Nat), NEW k \in Seq(Nat), NoZero(a, k)
    PROVE  ~Before(k, Append(a, 1)) <=> Before(a, k)
<1> DEFINE n == Len(a)
           b == Append(a, 1)
<1>1. /\ n \in Nat /\ Len(k) \in Nat /\ b \in Seq(Nat) /\ Len(b) = n + 1
      /\ \A i \in 1 .. n : b[i] = a[i] /\ a[i] \in Nat
      /\ b[n + 1] = 1
      /\ \A i \in 1 .. Len(k) : k[i] \in Nat
  OBVIOUS
<1>2. ASSUME Before(k, a) PROVE Before(k, b)
  <2>1. PICK i \in 1 .. n : /\ \A l \in 1 .. i - 1 : l <= Len(k) /\ k[l] = a[l]
                            /\ i > Len(k) \/ k[i] < a[i]
    BY <1>2 DEF Before
  <2>2. i \in 1 .. Len(b) /\ b[i] = a[i] /\ \A l \in 1 .. i - 1 : b[l] = a[l]
    BY <1>1
  <2> HIDE DEF b, n
  <2> QED
    BY <1>1, <2>1, <2>2 DEF Before
<1>3. ASSUME k = a PROVE Before(k, b)
  <2>1. n + 1 \in 1 .. Len(b) /\ n + 1 \notin 1 .. Len(k)
    BY <1>1, <1>3
  <2>2. \A l \in 1 .. (n + 1) - 1 : l <= Len(k) /\ k[l] = b[l]
    BY <1>1, <1>3
  <2> QED
    BY <1>1, <2>1, <2>2 DEF Before
<1>4. ASSUME Before(a, k), Before(k, b) PROVE FALSE
  <2>1. PICK i \in 1 .. Len(k) : /\ \A l \in 1 .. i - 1 : l <= n /\ a[l] = k[l]
                                 /\ i > n \/ a[i] < k[i]
    BY <1>4 DEF Before
  <2>2. PICK j \in 1 .. Len(b) : /\ \A l \in 1 .. j - 1 : l <= Len(k) /\ k[l] = b[l]
                                 /\ j > Len(k) \/ k[j] < b[j]
    <3> HIDE DEF b
    <3> QED
      BY <1>4 DEF Before
  <2> HIDE DEF n, b
  <2>3. CASE i \notin 1 .. n
    <3>1. i = n + 1 /\ n < Len(k)
      <4>1. CASE i > n + 1
        BY <1>1, <2>1, <4>1
      <4> QED
        BY <1>1, <2>1, <2>3, <4>1
    <3>2. SubSeq(k, 1, n) = a
      <4>1. \A l \in 1 .. n : a[l] = k[l]
        BY <1>1, <2>1, <3>1
      <4>2. SubSeq(k, 1, n) \in Seq(Nat) /\ Len(SubSeq(k, 1, n)) = n
        BY <1>1, <3>1
      <4>3. \A l \in 1 .. n : SubSeq(k, 1, n)[l] = k[l]
        BY <1>1, <3>1
      <4> DEFINE t == SubSeq(k, 1, n)
      <4>4. Len(t) = Len(a) /\ \A l \in 1 .. Len(a) : t[l] = a[l]
        BY <4>1, <4>2, <4>3 DEF n
      <4>5. t \in Seq(Nat)
        BY <4>2
      <4> HIDE DEF t
      <4>6. t = a
        BY <4>4, <4>5, SeqEqual
      <4> QED
        BY <4>6 DEF t
    <3>3. k[n + 1] > 0
      BY <3>1, <3>2 DEF NoZero, n
    <3>4. j <= n
      <4>1. CASE j = n + 1
        BY <1>1, <2>2, <3>1, <3>3, <4>1
      <4> QED
        BY <1>1, <2>2, <4>1
    <3> QED
      BY SMTT(30), <1>1, <2>1, <2>2, <3>1, <3>4
  <2>4. CASE i \in 1 .. n
    <3>1. CASE j < i
      BY <1>1, <2>1, <2>2, <2>4, <3>1
    <3>2. CASE j = i
      BY <1>1, <2>1, <2>2, <2>4, <3>2
    <3>3. CASE j > i
      BY <1>1, <2>1, <2>2, <2>4, <3>3
    <3> QED
      BY <1>1, <3>1, <3>2, <3>3
  <2> QED
    BY <2>3, <2>4
<1> QED
  BY <1>2, <1>3, <1>4, BeforeTotal

\* In a finite set some element has nothing before it in a strict order.
LEMMA FirstOf ==
    ASSUME NEW S, IsFiniteSet(S), S # {}, NEW R,
           \A x \in S : <<x, x>> \notin R,
           \A x, y, z \in S : <<x, y>> \in R /\ <<y, z>> \in R => <<x, z>> \in R
    PROVE  \E m \in S : \A x \in S : <<x, m>> \notin R
<1> DEFINE Below(x) == {y \in S : <<y, x>> \in R}
           N == {Cardinality(Below(x)) : x \in S}
<1>1. \A x \in S : IsFiniteSet(Below(x)) /\ Cardinality(Below(x)) \in Nat
  <2> SUFFICES ASSUME NEW x \in S
               PROVE  IsFiniteSet(Below(x)) /\ Cardinality(Below(x)) \in Nat
    OBVIOUS
  <2>1. Below(x) \in SUBSET S
    OBVIOUS
  <2> QED
    BY <2>1, FS_Subset, FS_CardinalityType
<1>2. PICK n \in N : \A l \in N : n <= l
  <2>1. N \in SUBSET Nat /\ N # {}
    <3> HIDE DEF Below
    <3> QED
      BY <1>1
  <2> HIDE DEF N
  <2> QED
    BY <2>1, LeastElement
<1>3. PICK m \in S : n = Cardinality(Below(m))
  BY <1>2
<1>4. ASSUME NEW x \in S, <<x, m>> \in R PROVE FALSE
  <2>1. Below(x) \in SUBSET Below(m) /\ x \in Below(m) /\ x \notin Below(x)
    BY <1>4
  <2>2. /\ Cardinality(Below(x)) <= Cardinality(Below(m))
        /\ Cardinality(Below(m)) = Cardinality(Below(x)) => Below(m) = Below(x)
    <3> DEFINE A == Below(x)
               B == Below(m)
    <3>1. IsFiniteSet(B) /\ A \in SUBSET B
      BY <1>1, <2>1
    <3> HIDE DEF A, B
    <3>2. /\ Cardinality(A) <= Cardinality(B)
          /\ Cardinality(B) = Cardinality(A) => B = A
      BY <3>1, FS_Subset
    <3> QED
      BY <3>2 DEF A, B
  <2>3. n <= Cardinality(Below(x)) /\ Cardinality(Below(x)) \in Nat
    <3> HIDE DEF Below
    <3> QED
      BY <1>1, <1>2
  <2>4. Below(m) # Below(x)
    BY <2>1
  <2> HIDE DEF Below
  <2> QED
    BY <1>1, <1>3, <2>2, <2>3, <2>4
<1> QED
  BY <1>4

-----------------------------------------------------------------------------
(***************************************************************************)
(* A page                                                                  *)
(***************************************************************************)
\* The keys up to s, where a page has ended.
Reached(k, s) == s # None /\ (k = s \/ Before(k, s))

LEMMA KeysOrdered ==
    /\ Keys \subseteq Seq(Nat)
    /\ \A a \in Keys : ~Before(a, a)
    /\ \A a, b, c \in Keys : Before(a, b) /\ Before(b, c) => Before(a, c)
    /\ \A a, b \in Keys : a = b \/ Before(a, b) \/ Before(b, a)
    /\ \A S \in SUBSET Keys : IsFiniteSet(S) /\ Cardinality(S) \in Nat
<1>1. Keys \subseteq Seq(Nat) /\ IsFiniteSet(Keys)
  BY ListingsAssumption
<1>2. \A S \in SUBSET Keys : IsFiniteSet(S) /\ Cardinality(S) \in Nat
  BY <1>1, FS_Subset, FS_CardinalityType
<1>3. \A a, b, c \in Keys : Before(a, b) /\ Before(b, c) => Before(a, c)
  BY <1>1, BeforeTransitive
<1>4. \A a, b \in Keys : a = b \/ Before(a, b) \/ Before(b, a)
  BY <1>1, BeforeTotal
<1> QED
  BY <1>1, <1>2, <1>3, <1>4, BeforeIrreflexive

\* Some key of a set comes first, and some comes last.
LEMMA Ends ==
    ASSUME NEW S \in SUBSET Keys, S # {}
    PROVE  /\ \E m \in S : \A x \in S : ~Before(x, m)
           /\ \E m \in S : \A x \in S : ~Before(m, x)
<1>1. IsFiniteSet(S)
  BY KeysOrdered
<1>2. /\ \A a \in S : ~Before(a, a)
      /\ \A a, b, c \in S : Before(a, b) /\ Before(b, c) => Before(a, c)
  BY KeysOrdered
<1>3. \E m \in S : \A x \in S : ~Before(x, m)
  <2> DEFINE R == {r \in S \X S : Before(r[1], r[2])}
  <2>1. \A x, y \in S : <<x, y>> \in R <=> Before(x, y)
    OBVIOUS
  <2> HIDE DEF R
  <2>2. \E m \in S : \A x \in S : <<x, m>> \notin R
    <3>1. \A x \in S : <<x, x>> \notin R
      BY <1>2, <2>1
    <3>2. \A x, y, z \in S : <<x, y>> \in R /\ <<y, z>> \in R => <<x, z>> \in R
      BY <1>2, <2>1
    <3> QED
      BY <1>1, <3>1, <3>2, FirstOf
  <2> QED
    BY <2>1, <2>2
<1>4. \E m \in S : \A x \in S : ~Before(m, x)
  <2> DEFINE R == {r \in S \X S : Before(r[2], r[1])}
  <2>1. \A x, y \in S : <<x, y>> \in R <=> Before(y, x)
    OBVIOUS
  <2> HIDE DEF R
  <2>2. \E m \in S : \A x \in S : <<x, m>> \notin R
    <3>1. \A x \in S : <<x, x>> \notin R
      BY <1>2, <2>1
    <3>2. \A x, y, z \in S : <<x, y>> \in R /\ <<y, z>> \in R => <<x, z>> \in R
      BY <1>2, <2>1
    <3> QED
      BY <1>1, <3>1, <3>2, FirstOf
  <2> QED
    BY <2>1, <2>2
<1> QED
  BY <1>3, <1>4

\* The first keys are those up to the last of them; there are some if there
\* are any.
LEMMA FirstKeys ==
    ASSUME NEW S \in SUBSET Keys, NEW n \in Nat, n > 0
    PROVE  /\ first(n, S) \subseteq S
           /\ S # {} => first(n, S) # {}
           /\ first(n, S) # {} =>
                /\ last_of(first(n, S)) \in first(n, S)
                /\ \A k \in S : k \in first(n, S) <=> Reached(k, last_of(first(n, S)))
<1> DEFINE P == first(n, S)
           z == last_of(P)
           below(k) == {l \in S : Before(l, k)}
<1>1. P \in SUBSET S /\ \A k \in S : k \in P <=> Cardinality(below(k)) < n
  BY DEF first
<1>2. \A k \in S : below(k) \in SUBSET S
  OBVIOUS
<1>3. ASSUME S # {} PROVE P # {}
  <2>1. PICK m \in S : \A x \in S : ~Before(x, m)
    BY <1>3, Ends
  <2>2. below(m) = {}
    BY <2>1
  <2>3. Cardinality(below(m)) = 0
    BY <2>2, FS_EmptySet
  <2> HIDE DEF P, below
  <2> QED
    BY <1>1, <2>1, <2>3
<1>4. ASSUME P # {}
      PROVE  z \in P /\ \A k \in S : k \in P <=> Reached(k, z)
  <2>1. z \in P /\ \A l \in P : ~Before(z, l)
    <3>1. P \in SUBSET Keys
      BY <1>1
    <3> HIDE DEF P
    <3>2. \E k \in P : \A l \in P : ~Before(k, l)
      BY <1>4, <3>1, Ends
    <3> QED
      BY <3>2 DEF last_of
  <2>2. z \in S /\ z \in Keys /\ z # None
    BY <1>1, <2>1, NoneAssumption
  <2> HIDE DEF z
  <2>3. ASSUME NEW k \in P PROVE Reached(k, z)
    <3>1. k \in Keys
      BY <1>1
    <3> HIDE DEF P
    <3> QED
      BY <2>1, <2>2, <3>1, KeysOrdered DEF Reached
  <2>4. ASSUME NEW k \in S, Before(k, z) PROVE k \in P
    <3>1. below(k) \in SUBSET below(z)
      <4>1. k \in Keys /\ \A l \in S : l \in Keys
        OBVIOUS
      <4> QED
        BY <2>2, <2>4, <4>1, KeysOrdered
    <3> DEFINE A == below(k)
               B == below(z)
    <3>2. A \in SUBSET Keys /\ B \in SUBSET Keys /\ A \in SUBSET B
      BY <1>2, <2>2, <3>1
    <3>3. Cardinality(B) < n
      BY <1>1, <2>1, <2>2
    <3>4. Cardinality(A) < n
      <4> HIDE DEF A, B
      <4>1. IsFiniteSet(B) /\ Cardinality(A) \in Nat /\ Cardinality(B) \in Nat
        BY <3>2, KeysOrdered
      <4>2. Cardinality(A) <= Cardinality(B)
        BY <3>2, <4>1, FS_Subset
      <4> QED
        BY <3>3, <4>1, <4>2
    <3> QED
      BY <1>1, <3>4
  <2>5. ASSUME NEW k \in S, Reached(k, z) PROVE k \in P
    BY <2>1, <2>4, <2>5 DEF Reached
  <2> QED
    BY <1>1, <2>1, <2>3, <2>5
<1> QED
  BY <1>1, <1>3, <1>4

\* What a listing goes through, all the keys there may be.
Bucket(l) == CASE l.of = "bids_by_user"       -> Tokens
               [] l.of = "bids_by_collateral" -> Bidders
               [] l.of = "prices"             -> Assets

LEMMA BucketKeys ==
    ASSUME NEW l \in Listing
    PROVE  /\ Bucket(l) \subseteq Keys
           /\ \A a, k \in Bucket(l) : NoZero(a, k)
<1>1. Bucket(l) \in {Tokens, Bidders, Assets}
  BY DEF Listing, Bucket
<1>2. \A a, k \in Assets : NoZero(a, k)
  BY ListingsAssumption DEF NoZero
<1>3. ASSUME NEW S \in {Bidders, Tokens}, NEW a \in S, NEW k \in S PROVE NoZero(a, k)
  <2>1. Len(a) = Len(k)
    BY ListingsAssumption
  <2>2. Len(a) \in Nat
    <3>1. a \in Seq(Nat)
      BY ListingsAssumption DEF Keys
    <3> QED
      BY <3>1
  <2> QED
    BY <2>1, <2>2 DEF NoZero
<1> QED
  BY <1>1, <1>2, <1>3 DEF Keys

\* The range that a page is taken from has what has not been reached.
LEMMA RangeIsRest ==
    ASSUME NEW l \in Listing, NEW K \in SUBSET Bucket(l), NEW s,
           s # None => s \in Bucket(l)
    PROVE  range(K, calc_range_start(s)) = {k \in K : ~Reached(k, s)}
<1>1. \A k \in K : k \in Seq(Nat) /\ k \in Keys
  BY BucketKeys, KeysOrdered
<1>2. CASE s = None
  <2>1. \A k : ~Before(k, <<>>)
    BY DEF Before
  <2> QED
    BY <1>2, <2>1 DEF range, calc_range_start, Reached
<1>3. CASE s # None
  <2>1. s \in Seq(Nat) /\ s \in Keys
    BY <1>3, BucketKeys, KeysOrdered
  <2>2. ASSUME NEW k \in K PROVE ~Before(k, Append(s, 1)) <=> ~Reached(k, s)
    <3>1. ~Before(k, Append(s, 1)) <=> Before(s, k)
      <4>1. NoZero(s, k)
        BY <1>3, BucketKeys
      <4> QED
        BY <1>1, <2>1, <4>1, StartsAfter
    <3>2. Before(s, k) <=> ~(k = s \/ Before(k, s))
      <4>1. k \in Keys
        BY <1>1
      <4> QED
        BY <2>1, <4>1, KeysOrdered
    <3> QED
      BY <1>3, <3>1, <3>2 DEF Reached
  <2> QED
    BY <1>3, <2>2 DEF range, calc_range_start
<1> QED
  BY <1>2, <1>3

-----------------------------------------------------------------------------
(***************************************************************************)
(* The invariant                                                           *)
(***************************************************************************)
\* The indexes lead to the bids and to nothing else.
StoreOK ==
    /\ bid \subseteq Bidders \X Tokens /\ price \subseteq Assets
    /\ bid_user_index = [b \in Bidders |-> {t \in Tokens : <<b, t>> \in bid}]
    /\ bid_collateral_index = [t \in Tokens |-> {b \in Bidders : <<b, t>> \in bid}]

\* A client is at a key of what it lists, or at the beginning.
ReaderOK(r) ==
    /\ r \in Reader
    /\ r.start_after # None => r.start_after \in Bucket(r.listing)

\* Of the keys that stay, just those up to the last one have been listed, once,
\* and none beyond.
ReadingOK(r) ==
    /\ lasting \subseteq keys_of(r.listing)
    /\ \A k \in Keys : listed[k] = 1 => k \in Bucket(r.listing) /\ Reached(k, r.start_after)
    /\ \A k \in lasting : Reached(k, r.start_after) => listed[k] = 1

LInv ==
    /\ StoreOK
    /\ listed \in [Keys -> {0, 1}]
    /\ reader = None => listed = NotListed
    /\ reader # None => ReaderOK(reader) /\ ReadingOK(reader)

LEMMA KeysInBucket ==
    ASSUME StoreOK, NEW l \in Listing
    PROVE  keys_of(l) \subseteq Bucket(l)
<1>1. CASE l.of = "bids_by_user" /\ l.key \in Bidders
  BY <1>1 DEF StoreOK, keys_of, Bucket
<1>2. CASE l.of = "bids_by_collateral" /\ l.key \in Tokens
  BY <1>2 DEF StoreOK, keys_of, Bucket
<1>3. CASE l.of = "prices"
  BY <1>3 DEF StoreOK, keys_of, Bucket
<1> QED
  BY <1>1, <1>2, <1>3 DEF Listing

LEMMA KeysReadable ==
    ASSUME StoreOK, NEW l \in Listing, NEW k \in keys_of(l)
    PROVE  readable(l, k)
<1>1. CASE l.of = "bids_by_user" /\ l.key \in Bidders
  BY <1>1 DEF StoreOK, keys_of, readable
<1>2. CASE l.of = "bids_by_collateral" /\ l.key \in Tokens
  BY <1>2 DEF StoreOK, keys_of, readable
<1>3. CASE l.of = "prices"
  BY <1>3 DEF readable
<1> QED
  BY <1>1, <1>2, <1>3 DEF Listing

\* The next page: none of its keys has been reached, it is empty only at the
\* end, and its last key is reached by just what was before and what is in it.
LEMMA NextPage ==
    ASSUME StoreOK, reader # None, ReaderOK(reader)
    PROVE  LET K == keys_of(reader.listing)
               s == reader.start_after
           IN  /\ next_page \subseteq K
               /\ \A k \in next_page : ~Reached(k, s)
               /\ next_page = {} => \A k \in K : Reached(k, s)
               /\ next_page # {} =>
                    /\ last_of(next_page) \in next_page
                    /\ \A k \in Bucket(reader.listing) :
                         Reached(k, s) => Reached(k, last_of(next_page))
                    /\ \A k \in K : Reached(k, last_of(next_page)) <=>
                                      Reached(k, s) \/ k \in next_page
<1> DEFINE l == reader.listing
           K == keys_of(l)
           s == reader.start_after
           asked == IF reader.limit = None THEN DefaultLimit ELSE reader.limit
           n == Min({asked, MaxLimit})
           rest == {k \in K : ~Reached(k, s)}
           P == next_page
           z == last_of(P)
<1>1. /\ l \in Listing /\ reader.limit \in Limits \cup {None}
      /\ s # None => s \in Bucket(l)
  BY DEF ReaderOK, Reader
<1>2. K \subseteq Bucket(l) /\ Bucket(l) \subseteq Keys
  BY <1>1, KeysInBucket, BucketKeys
<1>3. n \in Nat /\ n > 0
  <2>1. asked \in Nat \ {0} /\ MaxLimit \in Nat \ {0}
    BY <1>1, ListingsAssumption
  <2> HIDE DEF asked
  <2>2. n \in {asked, MaxLimit}
    <3>1. \E x \in {asked, MaxLimit} : \A y \in {asked, MaxLimit} : x <= y
      BY <2>1
    <3> QED
      BY <3>1, Zenon DEF Min
  <2> QED
    BY <2>1, <2>2
<1>4. P = first(n, rest)
  <2>1. range(K, calc_range_start(s)) = rest
    <3> HIDE DEF l, s
    <3>1. K \in SUBSET Bucket(l)
      BY <1>2
    <3> HIDE DEF K
    <3> QED
      BY <1>1, <3>1, RangeIsRest
  <2> QED
    BY <2>1 DEF next_page, page_of
<1> HIDE DEF n, P, l, K, s
<1>5. rest \in SUBSET Keys /\ \A k \in K : k \in rest <=> ~Reached(k, s)
  BY <1>2
<1> HIDE DEF rest
<1>6. /\ P \subseteq rest
      /\ rest # {} => P # {}
      /\ P # {} => z \in P /\ \A k \in rest : k \in P <=> Reached(k, z)
  BY <1>3, <1>4, <1>5, FirstKeys
<1>7. rest \subseteq K
  BY DEF rest
<1> HIDE DEF z
<1>8. ASSUME P # {}, NEW k \in Bucket(l), Reached(k, s) PROVE Reached(k, z)
  <2>1. k \in Keys /\ z \in Keys /\ s \in Keys /\ s # None /\ z # None
    BY <1>1, <1>2, <1>5, <1>6, <1>8, NoneAssumption DEF Reached
  <2>2. ~Reached(z, s)
    BY <1>5, <1>6, <1>7, <1>8
  <2>3. Before(s, z)
    BY <2>1, <2>2, KeysOrdered DEF Reached
  <2>4. Before(k, z)
    <3>1. CASE k = s
      BY <2>3, <3>1
    <3>2. CASE Before(k, s)
      BY <2>1, <2>3, <3>2, KeysOrdered
    <3> QED
      BY <1>8, <3>1, <3>2 DEF Reached
  <2> QED
    BY <2>1, <2>4 DEF Reached
<1>9. /\ P \subseteq K
      /\ \A k \in P : ~Reached(k, s)
      /\ P = {} => \A k \in K : Reached(k, s)
  BY <1>5, <1>6, <1>7
<1>10. ASSUME P # {}, NEW k \in K
       PROVE  Reached(k, z) <=> Reached(k, s) \/ k \in P
  BY <1>2, <1>5, <1>6, <1>8, <1>10
<1> QED
  BY <1>6, <1>8, <1>9, <1>10 DEF P, z, K, l, s

-----------------------------------------------------------------------------
LEMMA InitListings == ASSUME ListingsInit PROVE LInv
BY DEF ListingsInit, LInv, StoreOK, NotListed

\* Storing and removing keep the indexes with the bids.
LEMMA WriteStores == ASSUME StoreOK, Write PROVE StoreOK'
<1>1. ASSUME NEW b \in Bidders, NEW t \in Tokens, store_bid(b, t) PROVE StoreOK'
  <2>1. /\ bid' = bid \cup {<<b, t>>} /\ price' = price
        /\ bid_user_index' = [bid_user_index EXCEPT ![b] = @ \cup {t}]
        /\ bid_collateral_index' = [bid_collateral_index EXCEPT ![t] = @ \cup {b}]
    BY <1>1 DEF store_bid
  <2>2. bid_user_index' = [a \in Bidders |-> {u \in Tokens : <<a, u>> \in bid'}]
    BY <2>1 DEF StoreOK
  <2>3. bid_collateral_index' = [u \in Tokens |-> {a \in Bidders : <<a, u>> \in bid'}]
    BY <2>1 DEF StoreOK
  <2>4. <<b, t>> \in Bidders \X Tokens
    OBVIOUS
  <2>5. bid' \subseteq Bidders \X Tokens /\ price' \subseteq Assets
    BY <2>1, <2>4 DEF StoreOK
  <2> QED
    BY <2>2, <2>3, <2>5 DEF StoreOK
<1>2. ASSUME NEW b \in Bidders, NEW t \in Tokens, remove_bid(b, t) PROVE StoreOK'
  <2>1. /\ bid' = bid \ {<<b, t>>} /\ price' = price
        /\ bid_user_index' = [bid_user_index EXCEPT ![b] = @ \ {t}]
        /\ bid_collateral_index' = [bid_collateral_index EXCEPT ![t] = @ \ {b}]
    BY <1>2 DEF remove_bid
  <2>2. bid_user_index' = [a \in Bidders |-> {u \in Tokens : <<a, u>> \in bid'}]
    BY <2>1 DEF StoreOK
  <2>3. bid_collateral_index' = [u \in Tokens |-> {a \in Bidders : <<a, u>> \in bid'}]
    BY <2>1 DEF StoreOK
  <2> QED
    BY <2>1, <2>2, <2>3 DEF StoreOK
<1>3. ASSUME NEW a \in Assets, store_price(a) PROVE StoreOK'
  BY <1>3 DEF store_price, StoreOK
<1> QED
  BY <1>1, <1>2, <1>3 DEF Write

LEMMA WriteKeeps == ASSUME LInv, Write PROVE LInv'
<1>1. StoreOK'
  BY WriteStores DEF LInv
<1>2. /\ reader' = reader /\ listed' = listed
      /\ reader # None => lasting' = lasting \cap keys_of(reader.listing)'
  BY DEF Write, ClientWaits
<1>3. ASSUME reader # None PROVE ReadingOK(reader)'
  BY <1>2, <1>3 DEF LInv, ReadingOK
<1> QED
  BY <1>1, <1>2, <1>3 DEF LInv, ReaderOK

LEMMA BeginKeeps == ASSUME LInv, Begin PROVE LInv'
<1>1. PICK l \in Listing, n \in Limits \cup {None} :
        /\ reader' = [listing |-> l, limit |-> n, start_after |-> None]
        /\ lasting' = keys_of(l)
  BY DEF Begin
<1>2. /\ listed' = listed /\ listed = NotListed
      /\ StoreOK' /\ keys_of(l)' = keys_of(l)
  BY DEF Begin, LInv, store, StoreOK, keys_of
<1>3. /\ reader' \in Reader /\ reader'.start_after = None /\ reader'.listing = l
  BY <1>1 DEF Reader
<1>4. ReaderOK(reader)'
  BY <1>3 DEF ReaderOK
<1>5. ReadingOK(reader)'
  BY <1>1, <1>2, <1>3 DEF ReadingOK, Reached, NotListed
<1> QED
  BY <1>2, <1>3, <1>4, <1>5, NoneAssumption DEF LInv, NotListed

\* The client goes to the last key of the page it was given.
LEMMA PageMoves ==
    ASSUME LInv, Page
    PROVE  /\ reader # None
           /\ \/ /\ next_page = {}
                 /\ reader' = None /\ listed' = NotListed
              \/ /\ next_page # {}
                 /\ reader' = [reader EXCEPT !.start_after = last_of(next_page)]
                 /\ listed' = [k \in Keys |-> IF k \in next_page
                                              THEN Min({2, listed[k] + 1}) ELSE listed[k]]
                 /\ lasting' = lasting
           /\ UNCHANGED store
BY DEF Page

LEMMA PageKeeps == ASSUME LInv, Page PROVE LInv'
<1>1. reader # None /\ ReaderOK(reader) /\ ReadingOK(reader) /\ StoreOK
  BY PageMoves DEF LInv
<1>2. StoreOK' /\ \A l : keys_of(l)' = keys_of(l)
  BY PageMoves DEF LInv, store, StoreOK, keys_of
<1>3. CASE reader' = None /\ listed' = NotListed
  BY <1>2, <1>3 DEF LInv, NotListed
<1>4. CASE /\ next_page # {}
           /\ reader' = [reader EXCEPT !.start_after = last_of(next_page)]
           /\ listed' = [k \in Keys |-> IF k \in next_page
                                        THEN Min({2, listed[k] + 1}) ELSE listed[k]]
           /\ lasting' = lasting
  <2> DEFINE l == reader.listing
             K == keys_of(l)
             s == reader.start_after
             P == next_page
             z == last_of(P)
  <2>1. /\ P \subseteq K /\ z \in P
        /\ \A k \in P : ~Reached(k, s)
        /\ \A k \in Bucket(l) : Reached(k, s) => Reached(k, z)
        /\ \A k \in K : Reached(k, z) <=> Reached(k, s) \/ k \in P
    BY <1>1, <1>4, NextPage
  <2>2. l \in Listing /\ K \subseteq Bucket(l) /\ Bucket(l) \subseteq Keys
    BY <1>1, KeysInBucket, BucketKeys DEF ReaderOK, Reader
  <2>3. /\ reader' \in Reader /\ reader'.start_after = z /\ reader'.listing = l
    BY <1>1, <1>4, <2>1, <2>2 DEF ReaderOK, Reader
  <2> HIDE DEF P, z
  <2>4. \A k \in Keys : listed[k] \in {0, 1} /\ (listed[k] = 1 => Reached(k, s))
    BY <1>1 DEF LInv, ReadingOK
  <2>5. /\ \A k \in P : listed[k] = 0 /\ listed'[k] = 1
        /\ \A k \in Keys \ P : listed'[k] = listed[k]
    <3>1. Min({2, 0 + 1}) = 1
      <4>1. \E x \in {2, 1} : \A y \in {2, 1} : x <= y
        OBVIOUS
      <4>2. Min({2, 1}) \in {2, 1} /\ \A y \in {2, 1} : Min({2, 1}) <= y
        BY <4>1, Zenon DEF Min
      <4> DEFINE m == Min({2, 1})
      <4>3. m \in {2, 1} /\ m <= 1
        BY <4>2
      <4>4. m = 1
        <5> HIDE DEF m
        <5> QED
          BY <4>3
      <4> QED
        BY <4>4
    <3>2. \A k \in P : k \in Keys /\ listed[k] = 0
      BY <2>1, <2>2, <2>4
    <3>3. \A k \in P : listed'[k] = Min({2, listed[k] + 1})
      BY <1>4, <3>2 DEF P
    <3>4. \A k \in Keys \ P : listed'[k] = listed[k]
      BY <1>4 DEF P
    <3> QED
      BY <3>1, <3>2, <3>3, <3>4
  <2>6. listed' \in [Keys -> {0, 1}]
    <3>1. listed' = [k \in Keys |-> listed'[k]]
      BY <1>4
    <3> QED
      BY <2>4, <2>5, <3>1
  <2>7. ReaderOK(reader)'
    BY <2>1, <2>2, <2>3 DEF ReaderOK
  <2>8. ReadingOK(reader)'
    <3>1. lasting' \subseteq keys_of(l)'
      BY <1>1, <1>2, <1>4 DEF ReadingOK
    <3>2. ASSUME NEW k \in Keys, listed'[k] = 1 PROVE k \in Bucket(l) /\ Reached(k, z)
      BY <1>1, <2>1, <2>2, <2>5, <3>2 DEF ReadingOK
    <3>3. ASSUME NEW k \in lasting, Reached(k, z) PROVE listed'[k] = 1
      <4>1. k \in K /\ k \in Keys
        BY <1>1, <2>2 DEF ReadingOK
      <4>2. CASE k \in P
        BY <2>5, <4>2
      <4>3. CASE k \notin P
        BY <1>1, <2>1, <2>5, <3>3, <4>1, <4>3 DEF ReadingOK
      <4> QED
        BY <4>2, <4>3
    <3>4. \A k : Reached(k, z)' <=> Reached(k, z')
      BY DEF Reached
    <3> QED
      BY <1>4, <2>3, <3>1, <3>2, <3>3 DEF ReadingOK, Bucket, Reached
  <2> QED
    BY <1>2, <2>3, <2>6, <2>7, <2>8, NoneAssumption DEF LInv
<1> QED
  BY <1>3, <1>4, PageMoves

LEMMA ListingsStep == ASSUME LInv, [ListingsNext]_vars PROVE LInv'
<1>1. CASE Write
  BY <1>1, WriteKeeps
<1>2. CASE Begin
  BY <1>2, BeginKeeps
<1>3. CASE Page
  BY <1>3, PageKeeps
<1>4. CASE UNCHANGED vars
  BY <1>4 DEF vars, store, LInv, StoreOK, ReaderOK, ReadingOK, keys_of
<1> QED
  BY <1>1, <1>2, <1>3, <1>4 DEF ListingsNext

\* In every reachable state, whatever is stored and removed between the pages,
\* the client has been given just what lies up to its last key.
THEOREM ListingsInvariance == ListingsSpec => []LInv
<1>1. ListingsInit => LInv
  BY InitListings
<1>2. LInv /\ [ListingsNext]_vars => LInv'
  BY ListingsStep
<1> QED
  BY <1>1, <1>2, PTL DEF ListingsSpec

\* No page fails for an index that leads nowhere (read_bids_by_user,
\* read_bids_by_collateral).
THEOREM PagesAlwaysReadable == ListingsSpec => []PagesReadable
<1>1. LInv => PagesReadable
  <2> SUFFICES ASSUME LInv, reader # None, NEW k \in next_page
               PROVE  readable(reader.listing, k)
    BY DEF PagesReadable
  <2>1. StoreOK /\ ReaderOK(reader) /\ reader.listing \in Listing
    BY DEF LInv, ReaderOK, Reader
  <2>2. k \in keys_of(reader.listing)
    BY <2>1, NextPage
  <2> QED
    BY <2>1, <2>2, KeysReadable
<1> QED
  BY <1>1, ListingsInvariance, PTL

\* A listing gives everything that stays, and nothing twice, for any keys, any
\* limits and any calls in between (calc_range_start, read_prices).
THEOREM EverythingListedOnce == ListingsSpec => ListedOnce
<1>1. ASSUME LInv, [ListingsNext]_vars, reader # None, reader' = None
      PROVE  /\ \A k \in lasting : listed[k] = 1
             /\ \A k \in Keys : listed[k] <= 1
  <2>1. Page
    <3>1. CASE Write \/ UNCHANGED vars
      BY <1>1, <3>1 DEF Write, ClientWaits, vars
    <3>2. CASE Begin
      BY <1>1, <3>2 DEF Begin
    <3> QED
      BY <1>1, <3>1, <3>2 DEF ListingsNext
  <2>2. StoreOK /\ ReaderOK(reader) /\ ReadingOK(reader)
    BY <1>1 DEF LInv
  <2>3. next_page = {}
    <3>1. ASSUME reader' = [reader EXCEPT !.start_after = last_of(next_page)],
                 next_page # {}
          PROVE  FALSE
      <4>1. last_of(next_page) \in Bucket(reader.listing)
        BY <1>1, <2>2, <3>1, NextPage, KeysInBucket DEF ReaderOK, Reader
      <4>2. last_of(next_page) \in Keys
        BY <2>2, <4>1, BucketKeys DEF ReaderOK, Reader
      <4>3. reader' \in Reader
        BY <2>2, <3>1, <4>2 DEF ReaderOK, Reader
      <4> QED
        BY <1>1, <4>3, NoneAssumption
    <3> QED
      BY <1>1, <2>1, <3>1, PageMoves
  <2>4. \A k \in keys_of(reader.listing) : Reached(k, reader.start_after)
    BY <1>1, <2>2, <2>3, NextPage
  <2>5. \A k \in lasting : listed[k] = 1
    BY <2>2, <2>4 DEF ReadingOK
  <2>6. \A k \in Keys : listed[k] \in {0, 1}
    BY <1>1 DEF LInv
  <2> QED
    BY <2>5, <2>6
<1>2. LInv /\ [ListingsNext]_vars =>
        [reader # None /\ reader' = None =>
           /\ \A k \in lasting : listed[k] = 1
           /\ \A k \in Keys : listed[k] <= 1]_vars
  BY <1>1
<1> QED
  BY <1>2, ListingsInvariance, PTL DEF ListingsSpec, ListedOnce
=============================================================================
