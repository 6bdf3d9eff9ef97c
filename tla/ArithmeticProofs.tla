-------------------------- MODULE ArithmeticProofs --------------------------
(***************************************************************************)
(* Lemmas about what the models compute with.                              *)
(*                                                                         *)
(* The rounding of Decimal and its tax helpers, for every scale, tax rate  *)
(* and cap: each lemma is a bound without a quotient, the form in which    *)
(* the proofs about the contracts use it.                                  *)
(*                                                                         *)
(* Sums over finite sets: the models add up what every user or token has   *)
(* with SumFunctionOnSet, a recursive function over subsets that takes one *)
(* chosen element after the other.  The function exists, any element may   *)
(* be taken out, and so on.  Induction is over the finite subsets of a     *)
(* set, from the least cardinality of a counterexample.                    *)
(***************************************************************************)
EXTENDS Decimal, FiniteSets, Functions, FiniteSetTheorems,
        WellFoundedInduction, TLAPS

(***************************************************************************)
(* Rounding and taxes                                                      *)
(***************************************************************************)
\* The quotient of the language rounds down.
LEMMA DivInt ==
  ASSUME NEW a \in Int, NEW b \in Int, b > 0
  PROVE  /\ a \div b \in Int
         /\ b * (a \div b) <= a
         /\ a < b * (a \div b) + b
  BY SMT

\* It is the greatest of the integers that fit.
LEMMA DivGreatest ==
  ASSUME NEW a \in Int, NEW b \in Int, NEW q \in Int, b > 0, q * b <= a
  PROVE  q <= a \div b
  BY DivInt, SMT

LEMMA DivNat ==
  ASSUME NEW a \in Nat, NEW b \in Int, b > 0
  PROVE  a \div b \in Nat
  BY DivInt, DivGreatest, SMT

\* Orders survive a product with something not negative, and are reflected
\* by a product with something positive.
LEMMA MulMono ==
  ASSUME NEW a \in Int, NEW b \in Int, NEW c \in Int, a <= b, c >= 0
  PROVE  a * c <= b * c
  BY SMT

LEMMA MulCancel ==
  ASSUME NEW a \in Int, NEW b \in Int, NEW c \in Int, a * c <= b * c, c > 0
  PROVE  a <= b
  BY SMT

\* A quotient is smaller than what any larger dividend would give.
LEMMA DivMono ==
  ASSUME NEW a \in Int, NEW c \in Int, NEW b \in Int, a <= c, b > 0
  PROVE  a \div b <= c \div b
<1>1. a \div b \in Int /\ b * (a \div b) <= a
  BY DivInt
<1>2. (a \div b) * b <= c
  BY <1>1, SMT
<1> QED
  BY <1>1, <1>2, DivGreatest

\* A common factor of dividend and divisor drops out.
LEMMA DivCommonFactor ==
  ASSUME NEW a \in Int, NEW b \in Int, NEW c \in Int, b > 0, c > 0
  PROVE  (a * c) \div (b * c) = a \div b
<1> DEFINE q == a \div b
           r == (a * c) \div (b * c)
<1>1. q \in Int /\ b * q <= a /\ a < b * q + b
  BY DivInt
<1>2. b * c \in Int /\ b * c > 0 /\ a * c \in Int
  BY SMT
<1>3. r \in Int /\ (b * c) * r <= a * c /\ a * c < (b * c) * r + b * c
  BY <1>2, DivInt
<1> HIDE DEF q, r
<1>4. q * (b * c) <= a * c
  <2>1. (b * q) * c <= a * c
    BY <1>1, MulMono
  <2> QED
    BY <2>1, <1>1, SMT
<1>5. r * b <= a
  <2>1. (r * b) * c <= a * c
    BY <1>3, SMT
  <2> QED
    BY <2>1, <1>3, MulCancel, SMT
<1>6. q <= r
  BY <1>1, <1>2, <1>4, DivGreatest DEF r
<1>7. r <= q
  BY <1>3, <1>5, DivGreatest DEF q
<1> QED
  BY <1>1, <1>3, <1>6, <1>7 DEF q, r

\* Multiplying by a whole number of units is exact.
LEMMA DecMulWhole ==
  ASSUME NEW a \in Int, NEW n \in Int
  PROVE  DecMul(a, FromUint(n)) = a * n
<1>1. a * (n * Scale) = (a * n) * Scale /\ a * n \in Int
  BY ScaleAssumption, SMT
<1>2. ((a * n) * Scale) \div (1 * Scale) = (a * n) \div 1
  BY <1>1, ScaleAssumption, DivCommonFactor
<1>3. (a * n) \div 1 = a * n
  BY <1>1, SMT
<1> QED
  BY <1>1, <1>2, <1>3, ScaleAssumption, SMT DEF DecMul, FromUint

\* The four products and quotients of naturals, each with its bound.
LEMMA DecMulNat ==
  ASSUME NEW a \in Nat, NEW b \in Nat
  PROVE  DecMul(a, b) \in Nat
  BY DivNat, ScaleAssumption, SMT DEF DecMul

LEMMA DecDivNat ==
  ASSUME NEW a \in Nat, NEW b \in Nat, b > 0
  PROVE  DecDiv(a, b) \in Nat
<1>1. a * Scale \in Nat
  BY ScaleAssumption, SMT
<1> QED
  BY <1>1, DivNat DEF DecDiv

LEMMA UintMulDecBound ==
  ASSUME NEW n \in Nat, NEW d \in Nat
  PROVE  UintMulDec(n, d) \in Nat /\ UintMulDec(n, d) * Scale <= n * d
<1>1. n * d \in Nat
  BY SMT
<1>2. (n * d) \div Scale \in Nat /\ Scale * ((n * d) \div Scale) <= n * d
  BY <1>1, DivNat, DivInt, ScaleAssumption
<1> QED
  BY <1>2, ScaleAssumption, SMT DEF UintMulDec

LEMMA UintDivDecBound ==
  ASSUME NEW n \in Nat, NEW d \in Nat, d > 0
  PROVE  UintDivDec(n, d) \in Nat /\ UintDivDec(n, d) * d <= n * Scale
<1>1. n * Scale \in Nat
  BY ScaleAssumption, SMT
<1>2. (n * Scale) \div d \in Nat /\ d * ((n * Scale) \div d) <= n * Scale
  BY <1>1, DivNat, DivInt
<1> QED
  BY <1>2, SMT DEF UintDivDec

(***************************************************************************)
(* Tax                                                                     *)
(***************************************************************************)
\* What is left of an amount once the chain's rate is divided out.
LEMMA NetOfTax ==
  ASSUME NEW amount \in Nat
  PROVE  LET net == UintDivDec(amount, One + TaxRate)
         IN  /\ net \in Nat
             /\ net <= amount
             /\ net * TaxRate <= (amount - net) * Scale
<1> DEFINE net == UintDivDec(amount, One + TaxRate)
           rate == Scale + TaxRate
<1>1. rate \in Nat /\ rate > 0 /\ rate >= Scale /\ amount * Scale \in Nat
  BY ScaleAssumption, TaxAssumption, SMT
<1>2. net = (amount * Scale) \div rate
  BY DEF UintDivDec, One
<1> HIDE DEF net, rate
<1>3. net \in Nat
  BY <1>1, <1>2, DivNat
<1>4. rate * net <= amount * Scale
  BY <1>1, <1>2, DivInt
<1>5. net <= amount
  <2>1. net * Scale <= net * rate
    BY <1>1, <1>3, ScaleAssumption, SMT
  <2>2. net * Scale <= amount * Scale
    BY <2>1, <1>1, <1>3, <1>4, ScaleAssumption, SMT
  <2> QED
    BY <2>2, <1>3, ScaleAssumption, MulCancel
<1>6. net * TaxRate <= (amount - net) * Scale
  <2>1. rate * net = net * Scale + net * TaxRate
    BY <1>3, ScaleAssumption, TaxAssumption, SMT DEF rate
  <2>2. (amount - net) * Scale = amount * Scale - net * Scale
    BY <1>3, ScaleAssumption, SMT
  <2> QED
    BY <2>1, <2>2, <1>1, <1>3, <1>4, ScaleAssumption, TaxAssumption, SMT
<1> QED
  BY <1>3, <1>5, <1>6 DEF net

\* deduct_tax never goes below zero, and leaves enough out of a transfer for
\* the chain's own tax: paying amount never costs the sender more than amount.
LEMMA OutlayBound ==
  ASSUME NEW amount \in Nat
  PROVE  /\ compute_tax(amount) \in Nat
         /\ deduct_tax(amount) \in Nat
         /\ Outlay(amount) \in Nat
         /\ Outlay(amount) <= amount
<1> DEFINE net == UintDivDec(amount, One + TaxRate)
           sent == deduct_tax(amount)
           charge == UintMulDec(sent, TaxRate)
<1>1. net \in Nat /\ net <= amount /\ net * TaxRate <= (amount - net) * Scale
  BY NetOfTax
<1>2. compute_tax(amount) = Lesser(amount - net, TaxCap)
  BY DEF compute_tax
<1>3. sent = amount - compute_tax(amount)
  BY DEF deduct_tax
<1>4. Outlay(amount) = sent + Lesser(charge, TaxCap)
  BY DEF Outlay, chain_tax
<1> HIDE DEF net, sent
<1>5. compute_tax(amount) \in Nat /\ compute_tax(amount) <= amount /\ sent \in Nat
  BY <1>1, <1>2, <1>3, TaxAssumption, SMT DEF Lesser
<1>6. sent * TaxRate \in Nat
  BY <1>5, TaxAssumption, SMT
<1>7. charge \in Nat
  BY <1>6, DivNat, ScaleAssumption DEF UintMulDec
<1> HIDE DEF charge
<1>8. CASE amount - net <= TaxCap
  <2>1. sent = net
    BY <1>1, <1>2, <1>3, <1>8, SMT DEF Lesser
  <2>2. charge * Scale <= sent * TaxRate
    BY <1>6, <1>7, DivInt, ScaleAssumption, SMT DEF charge, UintMulDec
  <2>3. charge * Scale <= (amount - net) * Scale
    BY <2>1, <2>2, <1>1, <1>5, <1>7, ScaleAssumption, TaxAssumption, SMT
  <2>4. charge <= amount - net
    BY <2>3, <1>1, <1>7, ScaleAssumption, MulCancel, SMT
  <2> QED
    BY <2>1, <2>4, <1>1, <1>4, <1>5, <1>7, TaxAssumption, SMT DEF Lesser, sent
<1>9. CASE amount - net > TaxCap
  <2>1. sent = amount - TaxCap
    BY <1>1, <1>2, <1>3, <1>9, TaxAssumption, SMT DEF Lesser
  <2> QED
    BY <2>1, <1>4, <1>5, <1>7, TaxAssumption, SMT DEF Lesser, sent
<1> QED
  BY <1>1, <1>5, <1>8, <1>9, TaxAssumption, SMT
\* It costs nearly the amount: the contract and the chain each round down once.
LEMMA OutlayNear ==
  ASSUME NEW amount \in Nat
  PROVE  amount - Outlay(amount) <= (IF TaxRate = 0 THEN 0 ELSE 2 + Trunc(TaxRate))
<1> DEFINE net == UintDivDec(amount, One + TaxRate)
           sent == deduct_tax(amount)
           charge == UintMulDec(sent, TaxRate)
           q == Trunc(TaxRate)
<1>1. net \in Nat /\ net <= amount
  BY NetOfTax
<1>2. /\ compute_tax(amount) = Lesser(amount - net, TaxCap)
      /\ sent = amount - compute_tax(amount)
      /\ Outlay(amount) = sent + Lesser(charge, TaxCap)
  BY DEF compute_tax, deduct_tax, Outlay, chain_tax
<1>3. amount * Scale < (Scale + TaxRate) * net + (Scale + TaxRate)
  BY ScaleAssumption, TaxAssumption, DivInt, SMT DEF net, UintDivDec, One
<1>4. TaxRate = 0 => net = amount
  <2> SUFFICES ASSUME TaxRate = 0 PROVE net = amount
    OBVIOUS
  <2>1. amount * Scale < (net + 1) * Scale
    BY <1>1, <1>3, ScaleAssumption, SMT
  <2>2. amount < net + 1
    <3> SUFFICES ASSUME net + 1 <= amount PROVE FALSE
      BY <1>1, SMT
    <3>1. (net + 1) * Scale <= amount * Scale
      BY <1>1, ScaleAssumption, MulMono, SMT
    <3>2. (net + 1) * Scale \in Int /\ amount * Scale \in Int
      BY <1>1, ScaleAssumption, SMT
    <3> QED
      BY <2>1, <3>1, <3>2, SMT
  <2> QED
    BY <1>1, <2>2, SMT
<1> HIDE DEF net
<1>5. sent \in Nat /\ net <= sent
  BY <1>1, <1>2, TaxAssumption, OutlayBound, SMT DEF Lesser
<1>6. q \in Nat /\ TaxRate < Scale * q + Scale
  BY ScaleAssumption, TaxAssumption, DivNat, DivInt DEF Trunc
<1> HIDE DEF sent, q
<1>7. /\ charge \in Nat
      /\ sent * TaxRate < Scale * charge + Scale
  <2> DEFINE x == sent * TaxRate
  <2>1. x \in Nat
    BY <1>5, TaxAssumption, SMT
  <2>2. charge = x \div Scale
    BY DEF UintMulDec, charge
  <2> HIDE DEF x
  <2>3. charge \in Nat /\ x < Scale * charge + Scale
    BY <2>1, <2>2, ScaleAssumption, DivNat, DivInt
  <2> QED
    BY <2>3 DEF x
<1>8. TaxRate = 0 => charge = 0
  BY <1>5, ScaleAssumption, SMT DEF UintMulDec, charge
<1> HIDE DEF charge
<1>9. amount <= sent + charge + (2 + q)
  <2>1. net * TaxRate <= sent * TaxRate /\ net * Scale <= sent * Scale
    BY <1>1, <1>5, ScaleAssumption, TaxAssumption, MulMono
  <2> DEFINE x == sent * TaxRate
             y == net * TaxRate
             a == amount * Scale
             n == net * Scale
             s == sent * Scale
             c == charge * Scale
             r == q * Scale
  <2>2. x \in Int /\ y \in Int /\ a \in Int /\ n \in Int /\ s \in Int /\ c \in Int /\ r \in Int
    BY <1>1, <1>5, <1>6, <1>7, ScaleAssumption, TaxAssumption, SMT
  <2>3. /\ y <= x /\ n <= s /\ a < n + y + Scale + TaxRate
        /\ TaxRate < r + Scale /\ x < c + Scale
    <3>1. (Scale + TaxRate) * net = n + y
      BY <1>1, ScaleAssumption, TaxAssumption, SMT
    <3>2. Scale * q = r /\ Scale * charge = c
      BY <1>6, <1>7, ScaleAssumption, SMT
    <3>3. n + y + (Scale + TaxRate) = n + y + Scale + TaxRate
      BY <2>2, ScaleAssumption, TaxAssumption, SMT
    <3> QED
      BY <2>1, <3>1, <3>2, <3>3, <1>3, <1>6, <1>7
  <2>4. (sent + charge + (3 + q)) * Scale = s + c + 3 * Scale + r
    BY <1>5, <1>6, <1>7, ScaleAssumption, SMT
  <2> HIDE DEF x, y, a, n, s, c, r
  <2>5. a < s + c + 3 * Scale + r
    BY <2>2, <2>3, ScaleAssumption, TaxAssumption, SMT
  <2>6. amount * Scale < (sent + charge + (3 + q)) * Scale
    BY <2>4, <2>5 DEF a
  <2>7. amount < sent + charge + (3 + q)
    <3> SUFFICES ASSUME sent + charge + (3 + q) <= amount PROVE FALSE
      BY <1>5, <1>6, <1>7, SMT
    <3> DEFINE t == sent + charge + (3 + q)
    <3>1. t \in Int
      BY <1>5, <1>6, <1>7, SMT
    <3>2. amount * Scale < t * Scale
      BY <2>6
    <3> HIDE DEF t
    <3>3. t * Scale <= amount * Scale /\ t * Scale \in Int /\ amount * Scale \in Int
      <4>1. t <= amount
        BY DEF t
      <4> QED
        BY <4>1, <3>1, ScaleAssumption, MulMono, SMT
    <3> QED
      BY <3>2, <3>3, SMT
  <2> QED
    BY <2>7, <1>5, <1>6, <1>7, SMT
<1>10. CASE TaxRate = 0
  <2>1. sent = amount
    BY <1>1, <1>2, <1>4, <1>10, TaxAssumption, SMT DEF Lesser
  <2> QED
    BY <2>1, <1>2, <1>7, <1>8, <1>10, TaxAssumption, SMT DEF Lesser
<1>11. CASE TaxRate # 0
  <2>1. CASE charge <= TaxCap
    <3>1. Outlay(amount) = sent + charge
      BY <1>2, <2>1 DEF Lesser
    <3> QED
      BY <3>1, <1>5, <1>6, <1>7, <1>9, <1>11, SMT DEF q
  <2>2. CASE ~(charge <= TaxCap)
    <3>1. Outlay(amount) = sent + TaxCap
      BY <1>2, <2>2 DEF Lesser
    <3>2. amount - sent <= TaxCap
      BY <1>1, <1>2, <1>5, TaxAssumption, SMT DEF Lesser
    <3>3. amount - Outlay(amount) <= 2 + q
      BY <3>1, <3>2, <1>5, <1>6, TaxAssumption, SMT
    <3> QED
      BY <3>3, <1>11 DEF q
  <2> QED
    BY <2>1, <2>2
<1> QED
  BY <1>10, <1>11

-----------------------------------------------------------------------------
(***************************************************************************)
(* Sums                                                                    *)
(***************************************************************************)
\* A nonempty set of natural numbers has a least element.
LEMMA LeastElement ==
    ASSUME NEW N \in SUBSET Nat, N # {}
    PROVE  \E n \in N : \A m \in N : n <= m
<1> DEFINE R == OpToRel(<, Nat)
<1>1. \E n \in N : \A m \in N : <<m, n>> \notin R
  <2>1. IsWellFoundedOn(R, Nat)
    BY NatLessThanWellFounded
  <2> HIDE DEF R
  <2> QED
    BY <2>1, WFMin
<1>2. PICK n \in N : \A m \in N : <<m, n>> \notin R
  BY <1>1
<1>3. ASSUME NEW m \in N PROVE n <= m
  <2>1. ~ (m < n)
    BY <1>2 DEF OpToRel
  <2> QED
    BY <2>1
<1> QED
  BY <1>3

\* A set of subsets of a finite S that has every T of whose removals of one
\* element it has all, has all the subsets of S.
LEMMA SubsetInduction ==
    ASSUME NEW S, IsFiniteSet(S), NEW G,
           \A T \in SUBSET S : (\A x \in T : T \ {x} \in G) => T \in G
    PROVE  \A T \in SUBSET S : T \in G
<1> SUFFICES ASSUME NEW U \in SUBSET S, U \notin G PROVE FALSE
  OBVIOUS
<1> DEFINE Bad == {T \in SUBSET S : T \notin G}
           N   == {Cardinality(T) : T \in Bad}
<1>1. \A T \in SUBSET S : IsFiniteSet(T) /\ Cardinality(T) \in Nat
  BY FS_Subset, FS_CardinalityType
<1>2. PICK n \in N : \A m \in N : n <= m
  <2>1. N \in SUBSET Nat /\ N # {}
    BY <1>1
  <2> HIDE DEF N
  <2> QED
    BY <2>1, LeastElement
<1>3. PICK T \in Bad : n = Cardinality(T)
  BY <1>2
<1>4. ASSUME NEW x \in T PROVE T \ {x} \in G
  <2>1. Cardinality(T \ {x}) = Cardinality(T) - 1
    BY <1>1, <1>3, FS_RemoveElement
  <2>2. T \ {x} \in SUBSET S
    BY <1>3
  <2>3. CASE T \ {x} \notin G
    <3>1. Cardinality(T \ {x}) \in N
      BY <2>2, <2>3
    <3>2. n <= Cardinality(T \ {x})
      BY <3>1, <1>2
    <3> QED
      BY <3>2, <2>1, <1>1, <1>3
  <2> QED
    BY <2>3
<1> QED
  BY <1>3, <1>4

-----------------------------------------------------------------------------
pick(S) == CHOOSE x \in S : TRUE

\* The equation of the function that SumFunctionOnSet defines, at s.
step(f, g, s) == IF s = {} THEN 0 ELSE f[pick(s)] + g[s \ {pick(s)}]

\* The recursive function itself.
iter(f, S) == CHOOSE g : g = [s \in SUBSET S |-> step(f, g, s)]

LEMMA SumIsIter ==
    ASSUME NEW f, NEW S
    PROVE  SumFunctionOnSet(f, S) = iter(f, S)[S]
BY DEF SumFunctionOnSet, FoldFunctionOnSet, MapThenFoldSet, pick, step, iter

\* The subsets of S with at most n elements.
Small(S, n) == {s \in SUBSET S : Cardinality(s) <= n}

\* A function that satisfies the equation on sets of n elements extends to
\* sets of n + 1; so it exists on all subsets of a finite set.
LEMMA IterExists ==
    ASSUME NEW f, NEW S, IsFiniteSet(S)
    PROVE  \A T \in SUBSET S : iter(f, S)[T] = step(f, iter(f, S), T)
<1> DEFINE Has(n) == \E g : g = [s \in Small(S, n) |-> step(f, g, s)]
<1>0. \A T \in SUBSET S : IsFiniteSet(T) /\ Cardinality(T) \in Nat
  BY FS_Subset, FS_CardinalityType
<1>1. Has(0)
  <2> DEFINE z == [s \in Small(S, 0) |-> 0]
  <2>1. \A s \in Small(S, 0) : s = {}
    BY <1>0, FS_EmptySet DEF Small
  <2>2. z = [s \in Small(S, 0) |-> step(f, z, s)]
    BY <2>1 DEF step
  <2> QED
    BY <2>2
<1>2. ASSUME NEW n \in Nat, Has(n) PROVE Has(n + 1)
  <2>1. PICK g : g = [s \in Small(S, n) |-> step(f, g, s)]
    BY <1>2
  <2> DEFINE h == [s \in Small(S, n + 1) |-> step(f, g, s)]
  <2>2. ASSUME NEW s \in Small(S, n) PROVE s \in Small(S, n + 1) /\ h[s] = g[s]
    <3>1. s \in Small(S, n + 1)
      BY <1>0 DEF Small
    <3>2. g[s] = step(f, g, s)
      BY <2>1
    <3> QED
      BY <3>1, <3>2
  <2>3. ASSUME NEW s \in Small(S, n + 1), s # {}
        PROVE  s \ {pick(s)} \in Small(S, n)
    <3>1. pick(s) \in s
      BY <2>3 DEF pick
    <3>2. Cardinality(s \ {pick(s)}) = Cardinality(s) - 1
      BY <3>1, <1>0, FS_RemoveElement DEF Small
    <3> QED
      BY <3>2, <1>0 DEF Small
  <2>4. ASSUME NEW s \in Small(S, n + 1) PROVE step(f, g, s) = step(f, h, s)
    BY <2>2, <2>3 DEF step
  <2>5. h = [s \in Small(S, n + 1) |-> step(f, h, s)]
    BY <2>4
  <2> QED
    BY <2>5
<1>3. ASSUME NEW n \in Nat PROVE Has(n)
  <2> DEFINE N == {m \in Nat : ~ Has(m)}
  <2> SUFFICES ASSUME N # {} PROVE FALSE
    OBVIOUS
  <2>1. PICK m \in N : \A k \in N : m <= k
    <3>1. N \in SUBSET Nat
      OBVIOUS
    <3> HIDE DEF N
    <3> QED
      BY <3>1, LeastElement
  <2> HIDE DEF Has
  <2>2. m # 0 /\ m \in Nat
    BY <1>1
  <2>3. m - 1 \in Nat /\ m - 1 \notin N
    BY <2>1, <2>2
  <2>4. Has(m - 1)
    BY <2>3
  <2>5. Has((m - 1) + 1)
    BY <2>3, <2>4, <1>2
  <2> QED
    BY <2>5, <2>2
<1>4. Small(S, Cardinality(S)) = SUBSET S
  BY FS_Subset DEF Small
<1>5. Has(Cardinality(S))
  <2>1. Cardinality(S) \in Nat
    BY FS_CardinalityType
  <2> HIDE DEF Has
  <2> QED
    BY <2>1, <1>3
<1>6. \E g : g = [s \in SUBSET S |-> step(f, g, s)]
  BY <1>4, <1>5
<1> DEFINE it == iter(f, S)
<1>7. it = [s \in SUBSET S |-> step(f, it, s)]
  BY <1>6 DEF iter
<1> HIDE DEF it
<1>8. \A T \in SUBSET S : it[T] = step(f, it, T)
  BY <1>7
<1> QED
  BY <1>8 DEF it

\* On the subsets of a part of S, the function for S is the one for that part.
LEMMA IterRestricts ==
    ASSUME NEW f, NEW S, IsFiniteSet(S), NEW T \in SUBSET S
    PROVE  iter(f, S)[T] = iter(f, T)[T]
<1> DEFINE G == {U \in SUBSET T : iter(f, S)[U] = iter(f, T)[U]}
<1>1. IsFiniteSet(T)
  BY FS_Subset
<1>2. ASSUME NEW U \in SUBSET T, \A x \in U : U \ {x} \in G PROVE U \in G
  <2>1. iter(f, S)[U] = step(f, iter(f, S), U)
    BY IterExists
  <2>2. iter(f, T)[U] = step(f, iter(f, T), U)
    BY IterExists, <1>1
  <2>3. U # {} => pick(U) \in U
    BY DEF pick
  <2>4. U # {} => iter(f, S)[U \ {pick(U)}] = iter(f, T)[U \ {pick(U)}]
    BY <2>3, <1>2
  <2> QED
    BY <2>1, <2>2, <2>4 DEF step
<1>3. \A U \in SUBSET T : U \in G
  <2> HIDE DEF G
  <2> QED
    BY <1>1, <1>2, SubsetInduction
<1> QED
  BY <1>3

-----------------------------------------------------------------------------
\* An empty sum is zero, and the chosen element can be taken out of any other.
LEMMA SumEmpty ==
    ASSUME NEW f
    PROVE  SumFunctionOnSet(f, {}) = 0
<1>1. iter(f, {})[{}] = step(f, iter(f, {}), {})
  BY IterExists, FS_EmptySet
<1> QED
  BY <1>1, SumIsIter DEF step

LEMMA SumPick ==
    ASSUME NEW f, NEW S, IsFiniteSet(S), S # {}
    PROVE  /\ pick(S) \in S
           /\ SumFunctionOnSet(f, S) = f[pick(S)] + SumFunctionOnSet(f, S \ {pick(S)})
<1>1. pick(S) \in S
  BY DEF pick
<1>2. iter(f, S)[S] = step(f, iter(f, S), S)
  BY IterExists
<1>3. iter(f, S)[S \ {pick(S)}] = iter(f, S \ {pick(S)})[S \ {pick(S)}]
  BY IterRestricts
<1> QED
  BY <1>1, <1>2, <1>3, SumIsIter DEF step

\* A sum of integers is an integer, one of natural numbers a natural number.
LEMMA SumType ==
    ASSUME NEW S, IsFiniteSet(S), NEW f, \A x \in S : f[x] \in Int
    PROVE  SumFunctionOnSet(f, S) \in Int
<1> DEFINE G == {T \in SUBSET S : SumFunctionOnSet(f, T) \in Int}
<1>1. ASSUME NEW T \in SUBSET S, \A x \in T : T \ {x} \in G PROVE T \in G
  <2>1. IsFiniteSet(T)
    BY FS_Subset
  <2>2. CASE T = {}
    BY <2>2, SumEmpty
  <2>3. CASE T # {}
    <3>1. PICK p \in T : SumFunctionOnSet(f, T) = f[p] + SumFunctionOnSet(f, T \ {p})
      BY <2>1, <2>3, SumPick
    <3>2. f[p] \in Int /\ SumFunctionOnSet(f, T \ {p}) \in Int
      BY <1>1
    <3>3. SumFunctionOnSet(f, T) \in Int
      BY <3>1, <3>2
    <3> QED
      BY <3>3
  <2> QED
    BY <2>2, <2>3
<1>2. \A T \in SUBSET S : T \in G
  <2> HIDE DEF G
  <2> QED
    BY <1>1, SubsetInduction
<1> QED
  BY <1>2

LEMMA SumNat ==
    ASSUME NEW S, IsFiniteSet(S), NEW f, \A x \in S : f[x] \in Nat
    PROVE  SumFunctionOnSet(f, S) \in Nat
<1> DEFINE G == {T \in SUBSET S : SumFunctionOnSet(f, T) \in Nat}
<1>1. ASSUME NEW T \in SUBSET S, \A x \in T : T \ {x} \in G PROVE T \in G
  <2>1. IsFiniteSet(T)
    BY FS_Subset
  <2>2. CASE T = {}
    BY <2>2, SumEmpty
  <2>3. CASE T # {}
    <3>1. PICK p \in T : SumFunctionOnSet(f, T) = f[p] + SumFunctionOnSet(f, T \ {p})
      BY <2>1, <2>3, SumPick
    <3>2. f[p] \in Nat /\ SumFunctionOnSet(f, T \ {p}) \in Nat
      BY <1>1
    <3>3. SumFunctionOnSet(f, T) \in Nat
      BY <3>1, <3>2
    <3> QED
      BY <3>3
  <2> QED
    BY <2>2, <2>3
<1>2. \A T \in SUBSET S : T \in G
  <2> HIDE DEF G
  <2> QED
    BY <1>1, SubsetInduction
<1> QED
  BY <1>2

\* Any element can be taken out of a sum.
LEMMA SumRemove ==
    ASSUME NEW S, IsFiniteSet(S), NEW f, \A x \in S : f[x] \in Int, NEW e \in S
    PROVE  SumFunctionOnSet(f, S) = f[e] + SumFunctionOnSet(f, S \ {e})
<1> DEFINE G == {T \in SUBSET S : \A x \in T :
                   SumFunctionOnSet(f, T) = f[x] + SumFunctionOnSet(f, T \ {x})}
<1>1. ASSUME NEW T \in SUBSET S, \A x \in T : T \ {x} \in G,
             NEW x \in T
      PROVE  SumFunctionOnSet(f, T) = f[x] + SumFunctionOnSet(f, T \ {x})
  <2> DEFINE p == pick(T)
  <2>1. IsFiniteSet(T) /\ IsFiniteSet(T \ {x}) /\ IsFiniteSet(T \ {p})
    BY FS_Subset
  <2>2. p \in T /\ SumFunctionOnSet(f, T) = f[p] + SumFunctionOnSet(f, T \ {p})
    BY <2>1, SumPick
  <2> HIDE DEF p
  <2>3. CASE p = x
    BY <2>2, <2>3
  <2>4. CASE p # x
    <3>1. SumFunctionOnSet(f, T \ {p}) = f[x] + SumFunctionOnSet(f, (T \ {p}) \ {x})
      BY <1>1, <2>2, <2>4
    <3>2. SumFunctionOnSet(f, T \ {x}) = f[p] + SumFunctionOnSet(f, (T \ {x}) \ {p})
      BY <1>1, <2>2, <2>4
    <3>3. (T \ {p}) \ {x} = (T \ {x}) \ {p}
      OBVIOUS
    <3>4. SumFunctionOnSet(f, (T \ {x}) \ {p}) \in Int
      <4> DEFINE U == (T \ {x}) \ {p}
      <4>1. IsFiniteSet(U) /\ \A y \in U : f[y] \in Int
        BY FS_Subset
      <4> HIDE DEF U
      <4>2. SumFunctionOnSet(f, U) \in Int
        BY <4>1, SumType
      <4> QED
        BY <4>2 DEF U
    <3>5. f[x] \in Int /\ f[p] \in Int
      BY <2>2
    <3> DEFINE rest == SumFunctionOnSet(f, (T \ {x}) \ {p})
    <3>6. /\ SumFunctionOnSet(f, T) = f[p] + (f[x] + rest)
          /\ SumFunctionOnSet(f, T \ {x}) = f[p] + rest
      BY <2>2, <3>1, <3>2, <3>3
    <3>7. rest \in Int
      BY <3>4
    <3> HIDE DEF rest, G
    <3> QED
      BY <3>5, <3>6, <3>7
  <2> QED
    BY <2>3, <2>4
<1>2. \A T \in SUBSET S : T \in G
  <2>1. \A T \in SUBSET S : (\A x \in T : T \ {x} \in G) => T \in G
    BY <1>1
  <2> HIDE DEF G
  <2> QED
    BY <2>1, SubsetInduction
<1> QED
  BY <1>2

\* A sum depends only on what is added up.
LEMMA SumAgree ==
    ASSUME NEW S, IsFiniteSet(S), NEW f, NEW g, \A x \in S : f[x] = g[x]
    PROVE  SumFunctionOnSet(f, S) = SumFunctionOnSet(g, S)
<1> DEFINE G == {T \in SUBSET S : SumFunctionOnSet(f, T) = SumFunctionOnSet(g, T)}
<1>1. ASSUME NEW T \in SUBSET S, \A x \in T : T \ {x} \in G PROVE T \in G
  <2>1. IsFiniteSet(T)
    BY FS_Subset
  <2>2. CASE T = {}
    BY <2>2, SumEmpty
  <2>3. CASE T # {}
    <3>1. pick(T) \in T
      BY <2>1, <2>3, SumPick
    <3>2. SumFunctionOnSet(f, T \ {pick(T)}) = SumFunctionOnSet(g, T \ {pick(T)})
      BY <1>1, <3>1
    <3>3. f[pick(T)] = g[pick(T)]
      BY <3>1
    <3> QED
      BY <2>1, <2>3, <3>2, <3>3, SumPick
  <2> QED
    BY <2>2, <2>3
<1>2. \A T \in SUBSET S : T \in G
  <2> HIDE DEF G
  <2> QED
    BY <1>1, SubsetInduction
<1> QED
  BY <1>2

\* When one element changes, the sum changes by as much.
LEMMA SumChange ==
    ASSUME NEW S, IsFiniteSet(S), NEW e \in S,
           NEW f, \A x \in S : f[x] \in Int,
           NEW g, g[e] \in Int, \A x \in S : x # e => g[x] = f[x]
    PROVE  SumFunctionOnSet(g, S) = SumFunctionOnSet(f, S) + g[e] - f[e]
<1>1. \A x \in S : g[x] \in Int
  OBVIOUS
<1>2. SumFunctionOnSet(f, S) = f[e] + SumFunctionOnSet(f, S \ {e})
  BY SumRemove
<1>3. SumFunctionOnSet(g, S) = g[e] + SumFunctionOnSet(g, S \ {e})
  BY <1>1, SumRemove
<1> DEFINE T == S \ {e}
<1>4. IsFiniteSet(T) /\ \A x \in T : f[x] \in Int /\ g[x] = f[x]
  BY FS_Subset
<1>5. SumFunctionOnSet(f, T) \in Int /\ SumFunctionOnSet(g, T) = SumFunctionOnSet(f, T)
  <2> HIDE DEF T
  <2>1. SumFunctionOnSet(f, T) \in Int
    BY <1>4, SumType
  <2>2. SumFunctionOnSet(g, T) = SumFunctionOnSet(f, T)
    BY <1>4, SumAgree
  <2> QED
    BY <2>1, <2>2
<1>6. f[e] \in Int /\ g[e] \in Int
  OBVIOUS
<1> QED
  BY <1>2, <1>3, <1>5, <1>6

\* Sums compare as their elements do.
LEMMA SumMonotone ==
    ASSUME NEW S, IsFiniteSet(S), NEW f, NEW g,
           \A x \in S : f[x] \in Int /\ g[x] \in Int /\ f[x] <= g[x]
    PROVE  SumFunctionOnSet(f, S) <= SumFunctionOnSet(g, S)
<1> DEFINE G == {T \in SUBSET S : SumFunctionOnSet(f, T) <= SumFunctionOnSet(g, T)}
<1>1. ASSUME NEW T \in SUBSET S, \A x \in T : T \ {x} \in G PROVE T \in G
  <2>1. IsFiniteSet(T)
    BY FS_Subset
  <2>2. CASE T = {}
    BY <2>2, SumEmpty
  <2>3. CASE T # {}
    <3> DEFINE p == pick(T)
               U == T \ {p}
    <3>1. /\ p \in T
          /\ SumFunctionOnSet(f, T) = f[p] + SumFunctionOnSet(f, U)
          /\ SumFunctionOnSet(g, T) = g[p] + SumFunctionOnSet(g, U)
      BY <2>1, <2>3, SumPick
    <3>2. SumFunctionOnSet(f, U) <= SumFunctionOnSet(g, U)
      BY <1>1, <3>1
    <3>3. IsFiniteSet(U) /\ \A x \in U : f[x] \in Int /\ g[x] \in Int
      BY <2>1, FS_Subset
    <3> HIDE DEF U
    <3>4. SumFunctionOnSet(f, U) \in Int
      BY <3>3, SumType
    <3>5. SumFunctionOnSet(g, U) \in Int
      BY <3>3, SumType
    <3> HIDE DEF p
    <3>6. f[p] \in Int /\ g[p] \in Int /\ f[p] <= g[p]
      BY <3>1
    <3>7. SumFunctionOnSet(f, T) <= SumFunctionOnSet(g, T)
      BY <3>1, <3>2, <3>4, <3>5, <3>6
    <3> QED
      BY <3>7
  <2> QED
    BY <2>2, <2>3
<1>2. \A T \in SUBSET S : T \in G
  <2> HIDE DEF G
  <2> QED
    BY <1>1, SubsetInduction
<1> QED
  BY <1>2

\* A factor may be taken out of a sum, and two sums over one set added up.
Multiple(g, c, f, S) == \A x \in S : f[x] \in Int /\ g[x] = c * f[x]

LEMMA SumScale ==
    ASSUME NEW S, IsFiniteSet(S), NEW c \in Int,
           NEW f, NEW g, Multiple(g, c, f, S)
    PROVE  SumFunctionOnSet(g, S) = c * SumFunctionOnSet(f, S)
<1> DEFINE G == {T \in SUBSET S : SumFunctionOnSet(g, T) = c * SumFunctionOnSet(f, T)}
<1>1. ASSUME NEW T \in SUBSET S, \A x \in T : T \ {x} \in G
      PROVE  SumFunctionOnSet(g, T) = c * SumFunctionOnSet(f, T)
  <2>1. IsFiniteSet(T)
    BY FS_Subset
  <2>2. CASE T = {}
    <3>1. SumFunctionOnSet(g, T) = 0 /\ SumFunctionOnSet(f, T) = 0
      BY <2>2, SumEmpty
    <3> QED
      BY <3>1
  <2>3. CASE T # {}
    <3> DEFINE p == pick(T)
               U == T \ {p}
               a == SumFunctionOnSet(f, U)
    <3>1. /\ p \in T
          /\ SumFunctionOnSet(f, T) = f[p] + a
          /\ SumFunctionOnSet(g, T) = g[p] + SumFunctionOnSet(g, U)
      BY <2>1, <2>3, SumPick
    <3>2. SumFunctionOnSet(g, U) = c * a
      BY <1>1, <3>1
    <3>3. IsFiniteSet(U) /\ \A x \in U : f[x] \in Int
      BY <2>1, FS_Subset DEF Multiple
    <3> HIDE DEF U
    <3>4. a \in Int
      BY <3>3, SumType
    <3> HIDE DEF p, a, G
    <3>5. f[p] \in Int /\ g[p] = c * f[p]
      BY <3>1 DEF Multiple
    <3>6. c * (f[p] + a) = c * f[p] + c * a
      BY <3>4, <3>5
    <3> QED
      BY <3>1, <3>2, <3>5, <3>6
  <2> QED
    BY <2>2, <2>3
<1>2. \A T \in SUBSET S : T \in G
  <2>1. \A T \in SUBSET S : (\A x \in T : T \ {x} \in G) => T \in G
    BY <1>1
  <2> HIDE DEF G
  <2> QED
    BY <2>1, SubsetInduction
<1> QED
  BY <1>2

LEMMA SumAdd ==
    ASSUME NEW S, IsFiniteSet(S), NEW f, NEW g, NEW h,
           \A x \in S : f[x] \in Int /\ g[x] \in Int /\ h[x] = f[x] + g[x]
    PROVE  SumFunctionOnSet(h, S) = SumFunctionOnSet(f, S) + SumFunctionOnSet(g, S)
<1> DEFINE G == {T \in SUBSET S : SumFunctionOnSet(h, T) =
                   SumFunctionOnSet(f, T) + SumFunctionOnSet(g, T)}
<1>1. ASSUME NEW T \in SUBSET S, \A x \in T : T \ {x} \in G
      PROVE  SumFunctionOnSet(h, T) = SumFunctionOnSet(f, T) + SumFunctionOnSet(g, T)
  <2>1. IsFiniteSet(T)
    BY FS_Subset
  <2>2. CASE T = {}
    <3>1. /\ SumFunctionOnSet(f, T) = 0 /\ SumFunctionOnSet(g, T) = 0
          /\ SumFunctionOnSet(h, T) = 0
      BY <2>2, SumEmpty
    <3> QED
      BY <3>1
  <2>3. CASE T # {}
    <3> DEFINE p == pick(T)
               U == T \ {p}
               a == SumFunctionOnSet(f, U)
               b == SumFunctionOnSet(g, U)
    <3>1. /\ p \in T
          /\ SumFunctionOnSet(f, T) = f[p] + a
          /\ SumFunctionOnSet(g, T) = g[p] + b
          /\ SumFunctionOnSet(h, T) = h[p] + SumFunctionOnSet(h, U)
      BY <2>1, <2>3, SumPick
    <3>2. SumFunctionOnSet(h, U) = a + b
      BY <1>1, <3>1
    <3>3. IsFiniteSet(U) /\ \A x \in U : f[x] \in Int /\ g[x] \in Int
      BY <2>1, FS_Subset
    <3> HIDE DEF U
    <3>4. a \in Int
      BY <3>3, SumType
    <3>5. b \in Int
      BY <3>3, SumType
    <3> HIDE DEF p, a, b, G
    <3>6. f[p] \in Int /\ g[p] \in Int /\ h[p] = f[p] + g[p]
      BY <3>1
    <3> QED
      BY <3>1, <3>2, <3>4, <3>5, <3>6
  <2> QED
    BY <2>2, <2>3
<1>2. \A T \in SUBSET S : T \in G
  <2>1. \A T \in SUBSET S : (\A x \in T : T \ {x} \in G) => T \in G
    BY <1>1
  <2> HIDE DEF G
  <2> QED
    BY <2>1, SubsetInduction
<1> QED
  BY <1>2

\* Zeros add up to zero.
LEMMA SumZero ==
    ASSUME NEW S, IsFiniteSet(S), NEW f, \A x \in S : f[x] = 0
    PROVE  SumFunctionOnSet(f, S) = 0
<1> DEFINE G == {T \in SUBSET S : SumFunctionOnSet(f, T) = 0}
<1>1. ASSUME NEW T \in SUBSET S, \A x \in T : T \ {x} \in G PROVE T \in G
  <2>1. IsFiniteSet(T)
    BY FS_Subset
  <2>2. CASE T = {}
    BY <2>2, SumEmpty
  <2>3. CASE T # {}
    <3>1. PICK p \in T : SumFunctionOnSet(f, T) = f[p] + SumFunctionOnSet(f, T \ {p})
      BY <2>1, <2>3, SumPick
    <3>2. f[p] = 0 /\ SumFunctionOnSet(f, T \ {p}) = 0
      BY <1>1
    <3>3. SumFunctionOnSet(f, T) = 0
      BY <3>1, <3>2
    <3> QED
      BY <3>3
  <2> QED
    BY <2>2, <2>3
<1>2. \A T \in SUBSET S : T \in G
  <2> HIDE DEF G
  <2> QED
    BY <1>1, SubsetInduction
<1> QED
  BY <1>2

\* No element is more than a sum of natural numbers.
LEMMA SumMember ==
    ASSUME NEW S, IsFiniteSet(S), NEW f, \A x \in S : f[x] \in Nat, NEW e \in S
    PROVE  f[e] <= SumFunctionOnSet(f, S)
<1>1. SumFunctionOnSet(f, S) = f[e] + SumFunctionOnSet(f, S \ {e})
  BY SumRemove
<1> DEFINE T == S \ {e}
<1>2. IsFiniteSet(T) /\ \A x \in T : f[x] \in Nat
  BY FS_Subset
<1>3. SumFunctionOnSet(f, T) \in Nat
  <2> HIDE DEF T
  <2> QED
    BY <1>2, SumNat
<1> QED
  BY <1>1, <1>3

\* A sum with one element that is not zero.
LEMMA SumSingle ==
    ASSUME NEW S, IsFiniteSet(S), NEW e \in S, NEW f, f[e] \in Int,
           \A x \in S : x # e => f[x] = 0
    PROVE  SumFunctionOnSet(f, S) = f[e]
<1>1. \A x \in S : f[x] \in Int
  OBVIOUS
<1>2. SumFunctionOnSet(f, S) = f[e] + SumFunctionOnSet(f, S \ {e})
  BY <1>1, SumRemove
<1> DEFINE T == S \ {e}
<1>3. IsFiniteSet(T) /\ \A x \in T : f[x] = 0
  BY FS_Subset
<1>4. SumFunctionOnSet(f, T) = 0
  <2> HIDE DEF T
  <2> QED
    BY <1>3, SumZero
<1> QED
  BY <1>2, <1>4

\* Two disjoint sets may be added up one after the other.
LEMMA SumUnion ==
    ASSUME NEW S, IsFiniteSet(S), NEW U, IsFiniteSet(U), S \cap U = {},
           NEW f, \A x \in S \cup U : f[x] \in Int
    PROVE  SumFunctionOnSet(f, S \cup U) = SumFunctionOnSet(f, S) + SumFunctionOnSet(f, U)
<1> DEFINE G == {T \in SUBSET U : SumFunctionOnSet(f, S \cup T) =
                                    SumFunctionOnSet(f, S) + SumFunctionOnSet(f, T)}
<1>0. SumFunctionOnSet(f, S) \in Int
  BY SumType
<1>1. ASSUME NEW T \in SUBSET U, \A x \in T : T \ {x} \in G
      PROVE  SumFunctionOnSet(f, S \cup T) =
               SumFunctionOnSet(f, S) + SumFunctionOnSet(f, T)
  <2>1. IsFiniteSet(T)
    BY FS_Subset
  <2>2. CASE T = {}
    <3>1. S \cup T = S /\ SumFunctionOnSet(f, T) = 0
      BY <2>2, SumEmpty
    <3> QED
      BY <1>0, <3>1
  <2>3. CASE T # {}
    <3>1. PICK p \in T : SumFunctionOnSet(f, T) = f[p] + SumFunctionOnSet(f, T \ {p})
      BY <2>1, <2>3, SumPick
    <3>2. IsFiniteSet(S \cup T) /\ \A x \in S \cup T : f[x] \in Int
      BY <2>1, FS_Union
    <3>3. (S \cup T) \ {p} = S \cup (T \ {p}) /\ p \in S \cup T
      OBVIOUS
    <3>4. SumFunctionOnSet(f, S \cup T) = f[p] + SumFunctionOnSet(f, S \cup (T \ {p}))
      <4> DEFINE V == S \cup T
      <4>1. IsFiniteSet(V) /\ (\A x \in V : f[x] \in Int) /\ p \in V
        BY <3>2, <3>3
      <4>2. SumFunctionOnSet(f, V) = f[p] + SumFunctionOnSet(f, V \ {p})
        <5> HIDE DEF V
        <5> QED
          BY <4>1, SumRemove
      <4> QED
        BY <3>3, <4>2
    <3>5. SumFunctionOnSet(f, S \cup (T \ {p})) =
            SumFunctionOnSet(f, S) + SumFunctionOnSet(f, T \ {p})
      BY <1>1
    <3>6. SumFunctionOnSet(f, T \ {p}) \in Int
      <4> DEFINE V == T \ {p}
      <4>1. IsFiniteSet(V) /\ \A x \in V : f[x] \in Int
        BY <2>1, FS_Subset
      <4>2. SumFunctionOnSet(f, V) \in Int
        <5> HIDE DEF V
        <5> QED
          BY <4>1, SumType
      <4> QED
        BY <4>2
    <3>7. f[p] \in Int
      OBVIOUS
    <3> HIDE DEF G
    <3> QED
      BY <1>0, <3>1, <3>4, <3>5, <3>6, <3>7
  <2> QED
    BY <2>2, <2>3
<1>2. \A T \in SUBSET U : T \in G
  <2>1. \A T \in SUBSET U : (\A x \in T : T \ {x} \in G) => T \in G
    BY <1>1
  <2> HIDE DEF G
  <2> QED
    BY <2>1, SubsetInduction
<1> QED
  BY <1>2

\* A sum does not depend on what its elements are called: b renames x to b[x].
Image(b, S) == {b[x] : x \in S}
Renames(b, f, g, S) ==
    /\ \A x \in S : f[x] \in Int /\ g[b[x]] = f[x]
    /\ \A x, y \in S : b[x] = b[y] => x = y

LEMMA SumRename ==
    ASSUME NEW S, IsFiniteSet(S), NEW b, NEW f, NEW g, Renames(b, f, g, S)
    PROVE  SumFunctionOnSet(g, Image(b, S)) = SumFunctionOnSet(f, S)
<1> DEFINE G == {T \in SUBSET S : SumFunctionOnSet(g, Image(b, T)) = SumFunctionOnSet(f, T)}
<1>1. ASSUME NEW T \in SUBSET S, \A x \in T : T \ {x} \in G
      PROVE  SumFunctionOnSet(g, Image(b, T)) = SumFunctionOnSet(f, T)
  <2>1. IsFiniteSet(T)
    BY FS_Subset
  <2>2. CASE T = {}
    <3>1. Image(b, T) = {}
      BY <2>2 DEF Image
    <3> QED
      BY <2>2, <3>1, SumEmpty
  <2>3. CASE T # {}
    <3>1. PICK p \in T : SumFunctionOnSet(f, T) = f[p] + SumFunctionOnSet(f, T \ {p})
      BY <2>1, <2>3, SumPick
    <3> DEFINE V == Image(b, T)
    <3>2. b[p] \in V /\ V \ {b[p]} = Image(b, T \ {p})
      BY DEF Image, Renames
    <3>3. \A v \in V : g[v] \in Int
      BY DEF Image, Renames
    <3>4. IsFiniteSet(V)
      <4> DEFINE h == [x \in T |-> b[x]]
      <4>1. h \in Surjection(T, V)
        BY DEF Surjection, Image
      <4> HIDE DEF V, h
      <4> QED
        BY <2>1, <4>1, FS_Surjection
    <3>5. SumFunctionOnSet(g, V) = g[b[p]] + SumFunctionOnSet(g, V \ {b[p]})
      <4> HIDE DEF V
      <4> QED
        BY <3>2, <3>3, <3>4, SumRemove
    <3>6. SumFunctionOnSet(g, Image(b, T \ {p})) = SumFunctionOnSet(f, T \ {p})
      BY <1>1
    <3>7. g[b[p]] = f[p]
      BY DEF Renames
    <3> QED
      BY <3>1, <3>2, <3>5, <3>6, <3>7, Zenon
  <2> QED
    BY <2>2, <2>3
<1>2. \A T \in SUBSET S : T \in G
  <2>1. \A T \in SUBSET S : (\A x \in T : T \ {x} \in G) => T \in G
    BY <1>1
  <2> HIDE DEF G
  <2> QED
    BY <2>1, SubsetInduction
<1> QED
  BY <1>2

\* Only what is in T counts.
LEMMA SumSupport ==
    ASSUME NEW S, IsFiniteSet(S), NEW T \in SUBSET S, NEW f, \A x \in S : f[x] \in Int,
           NEW g, \A x \in T : g[x] = f[x], \A x \in S \ T : f[x] = 0
    PROVE  SumFunctionOnSet(f, S) = SumFunctionOnSet(g, T)
<1> DEFINE U == S \ T
<1>1. IsFiniteSet(T) /\ IsFiniteSet(U) /\ T \cap U = {} /\ T \cup U = S
  BY FS_Subset
<1>2. \A x \in T \cup U : f[x] \in Int
  OBVIOUS
<1>3. \A x \in U : f[x] = 0
  OBVIOUS
<1> HIDE DEF U
<1>4. SumFunctionOnSet(f, U) = 0
  BY <1>1, <1>3, SumZero
<1>5. SumFunctionOnSet(f, T \cup U) = SumFunctionOnSet(f, T) + SumFunctionOnSet(f, U)
  BY <1>1, <1>2, SumUnion
<1>6. SumFunctionOnSet(f, T) = SumFunctionOnSet(g, T)
  BY <1>1, SumAgree
<1>7. SumFunctionOnSet(f, T) \in Int
  BY <1>1, <1>2, SumType
<1>8. SumFunctionOnSet(f, S) = SumFunctionOnSet(f, T) + SumFunctionOnSet(f, U)
  BY <1>1, <1>5, Zenon
<1> QED
  BY <1>4, <1>6, <1>7, <1>8

\* What is not in T takes away.
LEMMA SumRestNegative ==
    ASSUME NEW S, IsFiniteSet(S), NEW T \in SUBSET S, NEW f, \A x \in S : f[x] \in Int,
           \A x \in S \ T : f[x] <= 0
    PROVE  SumFunctionOnSet(f, S) <= SumFunctionOnSet(f, T)
<1> DEFINE U == S \ T
           z == [x \in U |-> 0]
<1>1. IsFiniteSet(T) /\ IsFiniteSet(U) /\ T \cap U = {} /\ T \cup U = S
  BY FS_Subset
<1>2. \A x \in T \cup U : f[x] \in Int
  OBVIOUS
<1>3. \A x \in U : f[x] <= z[x] /\ z[x] = 0 /\ f[x] \in Int
  OBVIOUS
<1> HIDE DEF U, z
<1>4. SumFunctionOnSet(f, U) <= SumFunctionOnSet(z, U) /\ SumFunctionOnSet(z, U) = 0
  BY <1>1, <1>3, SumZero, SumMonotone
<1>5. SumFunctionOnSet(f, T \cup U) = SumFunctionOnSet(f, T) + SumFunctionOnSet(f, U)
  BY <1>1, <1>2, SumUnion
<1>6. SumFunctionOnSet(f, T) \in Int /\ SumFunctionOnSet(f, U) \in Int
  BY <1>1, <1>2, SumType
<1>7. SumFunctionOnSet(f, S) = SumFunctionOnSet(f, T) + SumFunctionOnSet(f, U)
  BY <1>1, <1>5, Zenon
<1> QED
  BY <1>4, <1>6, <1>7

(***************************************************************************)
(* Shares, rates and taxes that follow one another                         *)
(***************************************************************************)
LEMMA UintMulDecNear ==
  ASSUME NEW n \in Nat, NEW d \in Nat
  PROVE  /\ UintMulDec(n, d) \in Nat
         /\ UintMulDec(n, d) * Scale <= n * d
         /\ n * d <= UintMulDec(n, d) * Scale + Scale
<1>1. n * d \in Nat
  BY SMT
<1>2. n * d < Scale * ((n * d) \div Scale) + Scale /\ (n * d) \div Scale \in Int
  BY <1>1, DivInt, ScaleAssumption
<1>3. n * d <= UintMulDec(n, d) * Scale + Scale
  BY <1>1, <1>2, ScaleAssumption, SMT DEF UintMulDec
<1> QED
  BY <1>3, UintMulDecBound

\* What is sold of c, at the price p, is worth the share r of c's value.
LEMMA ShareSold ==
  ASSUME NEW c \in Nat, NEW r \in Nat, NEW p \in Nat
  PROVE  r * UintMulDec(c, p) <= Scale * UintMulDec(UintMulDec(c, r), p) + p + Scale
<1> DEFINE v == UintMulDec(c, p)
           x == UintMulDec(c, r)
           u == UintMulDec(x, p)
<1>1. v \in Nat /\ v * Scale <= c * p
  BY UintMulDecNear
<1>2. x \in Nat /\ c * r <= x * Scale + Scale
  BY UintMulDecNear
<1>3. u \in Nat /\ x * p <= u * Scale + Scale
  BY <1>2, UintMulDecNear
<1>4. Scale \in Nat /\ Scale > 0
  BY ScaleAssumption
<1> HIDE DEF v, x, u
<1>5. (v * Scale) * r <= (c * p) * r
  <2>1. v * Scale \in Int /\ c * p \in Int
    BY <1>1, <1>4, SMT
  <2> QED
    BY <1>1, <2>1, MulMono
<1>6. (c * r) * p <= (x * Scale + Scale) * p
  <2>1. c * r \in Int /\ x * Scale + Scale \in Int
    BY <1>2, <1>4, SMT
  <2> QED
    BY <1>2, <2>1, MulMono
<1>7. (x * p) * Scale <= (u * Scale + Scale) * Scale
  <2>1. x * p \in Int /\ u * Scale + Scale \in Int
    BY <1>2, <1>3, <1>4, SMT
  <2> QED
    BY <1>3, <1>4, <2>1, MulMono
<1>8. (r * v) * Scale <= (Scale * u + p + Scale) * Scale
  BY <1>1, <1>2, <1>3, <1>4, <1>5, <1>6, <1>7, SMT
<1>9. r * v \in Int /\ Scale * u + p + Scale \in Int
  BY <1>1, <1>3, <1>4, SMT
<1>10. r * v <= Scale * u + p + Scale
  BY <1>4, <1>8, <1>9, MulCancel
<1> QED
  BY <1>10 DEF v, x, u

\* A product of what is at most c and something not negative.
LEMMA ShareKept ==
  ASSUME NEW c \in Nat, NEW r \in 0 .. Scale, NEW p \in Nat, NEW l \in 0 .. Scale,
         NEW y \in Nat, y = c - UintMulDec(c, r)
  PROVE  (Scale - r) * UintMulDec(UintMulDec(c, p), l)
           <= Scale * UintMulDec(UintMulDec(y, p), l) + 2 * Scale
<1> DEFINE v == UintMulDec(c, p)
           x == UintMulDec(c, r)
           v2 == UintMulDec(y, p)
           m == UintMulDec(v, l)
           m2 == UintMulDec(v2, l)
           k == Scale - r
<1>1. Scale \in Nat /\ Scale > 0 /\ r \in Nat /\ l \in Nat /\ l <= Scale /\ k \in Nat /\ k <= Scale
  BY ScaleAssumption
<1>2. v \in Nat /\ v * Scale <= c * p
  BY UintMulDecNear
<1>3. x \in Nat /\ x * Scale <= c * r
  BY <1>1, UintMulDecNear
<1>4. v2 \in Nat /\ y * p <= v2 * Scale + Scale
  BY UintMulDecNear
<1>5. m \in Nat /\ m * Scale <= v * l
  BY <1>1, <1>2, UintMulDecNear
<1>6. m2 \in Nat /\ v2 * l <= m2 * Scale + Scale
  BY <1>1, <1>4, UintMulDecNear
<1>7. c * k <= y * Scale
  BY <1>1, <1>3, SMT
<1> HIDE DEF v, x, v2, m, m2, k
\* In turn: of the amount, of its value, of its limit.
<1>8. v * k <= v2 * Scale + Scale
  <2>1. (v * Scale) * k <= (c * p) * k
    <3>1. v * Scale \in Int /\ c * p \in Int
      BY <1>1, <1>2, SMT
    <3> QED
      BY <1>1, <1>2, <3>1, MulMono
  <2>2. (c * k) * p <= (y * Scale) * p
    <3>1. c * k \in Int /\ y * Scale \in Int
      BY <1>1, SMT
    <3> QED
      BY <1>7, <3>1, MulMono
  <2>3. (y * p) * Scale <= (v2 * Scale + Scale) * Scale
    <3>1. y * p \in Int /\ v2 * Scale + Scale \in Int
      BY <1>1, <1>4, SMT
    <3> QED
      BY <1>1, <1>4, <3>1, MulMono
  <2>4. (v * k) * Scale <= (v2 * Scale + Scale) * Scale
    BY <1>1, <1>2, <1>4, <2>1, <2>2, <2>3, SMT
  <2>5. v * k \in Int /\ v2 * Scale + Scale \in Int
    BY <1>1, <1>2, <1>4, SMT
  <2> QED
    BY <1>1, <2>4, <2>5, MulCancel
<1>9. m * k <= m2 * Scale + 2 * Scale
  <2>1. (m * Scale) * k <= (v * l) * k
    <3>1. m * Scale \in Int /\ v * l \in Int
      BY <1>1, <1>2, <1>5, SMT
    <3> QED
      BY <1>1, <1>5, <3>1, MulMono
  <2>2. (v * k) * l <= (v2 * Scale + Scale) * l
    <3>1. v * k \in Int /\ v2 * Scale + Scale \in Int
      BY <1>1, <1>2, <1>4, SMT
    <3> QED
      BY <1>1, <1>8, <3>1, MulMono
  <2>3. (v2 * l) * Scale <= (m2 * Scale + Scale) * Scale
    <3>1. v2 * l \in Int /\ m2 * Scale + Scale \in Int
      BY <1>1, <1>4, <1>6, SMT
    <3> QED
      BY <1>1, <1>6, <3>1, MulMono
  <2>4. l * Scale <= Scale * Scale
    BY <1>1, MulMono
  <2>5. (m * k) * Scale <= (m2 * Scale + 2 * Scale) * Scale
    BY <1>1, <1>2, <1>4, <1>5, <1>6, <2>1, <2>2, <2>3, <2>4, SMT
  <2>6. m * k \in Int /\ m2 * Scale + 2 * Scale \in Int
    BY <1>1, <1>5, <1>6, SMT
  <2> QED
    BY <1>1, <2>5, <2>6, MulCancel
<1>10. k * m <= Scale * m2 + 2 * Scale
  BY <1>1, <1>5, <1>6, <1>9, SMT
<1> QED
  BY <1>10 DEF v, v2, m, m2, k

\* What a payment brings after tax.
LEMMA NetOfRate ==
  ASSUME NEW amount \in Nat, TaxRate <= Scale
  PROVE  /\ deduct_tax(amount) \in Nat
         /\ amount * (Scale - TaxRate) <= Scale * deduct_tax(amount) + Scale
<1> DEFINE net == UintDivDec(amount, One + TaxRate)
           t == TaxRate
           a == Scale + t
           b == Scale - t
<1>1. Scale \in Nat /\ Scale > 0 /\ t \in Nat /\ a \in Nat /\ a > 0 /\ b \in Nat
  BY ScaleAssumption, TaxAssumption
<1>2. net \in Nat /\ net <= amount
  BY NetOfTax
<1>3. amount * Scale <= (net + 1) * a
  <2>1. amount * Scale \in Int
    BY <1>1, SMT
  <2>2. net = (amount * Scale) \div a
    BY DEF UintDivDec, One
  <2>3. amount * Scale < a * net + a
    BY <1>1, <2>1, <2>2, DivInt
  <2> HIDE DEF a, net
  <2> QED
    BY <1>1, <1>2, <2>3, SMT
<1>4. a * b <= Scale * Scale
  BY <1>1, SMT
<1>5. net <= deduct_tax(amount) /\ deduct_tax(amount) \in Nat
  <2>1. /\ deduct_tax(amount) = amount - compute_tax(amount)
        /\ compute_tax(amount) = Lesser(amount - net, TaxCap)
    BY DEF deduct_tax, compute_tax
  <2> HIDE DEF net
  <2> QED
    BY <1>2, <2>1, OutlayBound, TaxAssumption DEF Lesser
<1> HIDE DEF a, b, net
<1>6. (amount * Scale) * b <= ((net + 1) * a) * b
  <2>1. amount * Scale \in Int /\ (net + 1) * a \in Int
    BY <1>1, <1>2, SMT
  <2> QED
    BY <1>1, <1>3, <2>1, MulMono
<1>7. (a * b) * (net + 1) <= (Scale * Scale) * (net + 1)
  <2>1. a * b \in Int /\ Scale * Scale \in Int
    BY <1>1, SMT
  <2> QED
    BY <1>2, <1>4, <2>1, MulMono
<1>8. (amount * b) * Scale <= ((net + 1) * Scale) * Scale
  BY <1>1, <1>2, <1>6, <1>7, SMT
<1>9. amount * b <= (net + 1) * Scale
  <2>1. amount * b \in Int /\ (net + 1) * Scale \in Int
    BY <1>1, <1>2, SMT
  <2> QED
    BY <1>1, <1>8, <2>1, MulCancel
<1>10. amount * b <= Scale * deduct_tax(amount) + Scale
  <2>1. net * Scale <= deduct_tax(amount) * Scale
    BY <1>1, <1>2, <1>5, MulMono
  <2> QED
    BY <1>1, <1>2, <1>5, <1>9, <2>1, SMT
<1> QED
  BY <1>5, <1>10 DEF b

\* What is sold at the value u brings the share of it that is left by the highest
\* premium, the fee and the tax.
LEMMA SaleBrings ==
  ASSUME NEW u \in Nat, NEW m \in 0 .. Scale, NEW f \in 0 .. Scale, NEW p \in Nat, p <= m,
         TaxRate <= Scale, NEW q, q = UintMulDec(u, Scale - p),
         NEW g, g = q - UintMulDec(q, f)
  PROVE  /\ g \in Nat
         /\ u * DecMul(DecMul(Scale - m, Scale - f), Scale - TaxRate)
              <= Scale * deduct_tax(g) + 2 * Scale
<1> DEFINE am == Scale - m
           ap == Scale - p
           b == Scale - f
           c == Scale - TaxRate
           k == DecMul(am, b)
           d == DecMul(k, c)
           n == deduct_tax(g)
<1>1. /\ Scale \in Nat /\ Scale > 0 /\ am \in Nat /\ ap \in Nat /\ am <= ap /\ b \in Nat
      /\ b <= Scale /\ c \in Nat /\ c <= Scale /\ f \in Nat
  BY ScaleAssumption, TaxAssumption
<1>2. q \in Nat /\ u * ap <= q * Scale + Scale
  BY <1>1, UintMulDecNear
<1>3. UintMulDec(q, f) \in Nat /\ UintMulDec(q, f) * Scale <= q * f
  BY <1>1, <1>2, UintMulDecNear
<1>4. g \in Nat /\ q * b <= g * Scale
  <2>1. UintMulDec(q, f) * Scale <= q * Scale
    <3>1. f * q <= Scale * q
      BY <1>1, <1>2, MulMono
    <3> QED
      BY <1>1, <1>2, <1>3, <3>1, SMT
  <2>2. UintMulDec(q, f) <= q
    BY <1>1, <1>2, <1>3, <2>1, MulCancel
  <2> QED
    BY <1>1, <1>2, <1>3, <2>2, SMT
<1>5. n \in Nat /\ g * c <= Scale * n + Scale
  BY <1>4, NetOfRate
<1>6. k \in Nat /\ k * Scale <= am * b
  BY <1>1, DecMulNat, UintMulDecBound DEF DecMul, UintMulDec
<1>7. d \in Nat /\ d * Scale <= k * c
  BY <1>1, <1>6, DecMulNat, UintMulDecBound DEF DecMul, UintMulDec
<1> HIDE DEF am, ap, b, c, k, d, n
<1>8. (d * Scale) * Scale <= (am * b) * c
  <2>1. (d * Scale) * Scale <= (k * c) * Scale
    <3>1. d * Scale \in Int /\ k * c \in Int
      BY <1>1, <1>6, <1>7, SMT
    <3> QED
      BY <1>1, <1>7, <3>1, MulMono
  <2>2. (k * Scale) * c <= (am * b) * c
    <3>1. k * Scale \in Int /\ am * b \in Int
      BY <1>1, <1>6, SMT
    <3> QED
      BY <1>1, <1>6, <3>1, MulMono
  <2> QED
    BY <1>1, <1>6, <1>7, <2>1, <2>2, SMT
<1> DEFINE bc == b * c
<1>9. bc \in Nat /\ bc <= Scale * Scale
  <2>1. b * c <= Scale * c /\ c * Scale <= Scale * Scale
    BY <1>1, MulMono
  <2> QED
    BY <1>1, <2>1, SMT
<1>10. am * u <= q * Scale + Scale
  <2>1. am * u <= ap * u
    BY <1>1, MulMono
  <2> QED
    BY <1>1, <1>2, <2>1, SMT
<1>11. (u * d) * (Scale * Scale) <= (q * Scale + Scale) * bc
  <2>1. ((d * Scale) * Scale) * u <= ((am * b) * c) * u
    <3>1. (d * Scale) * Scale \in Int /\ (am * b) * c \in Int
      BY <1>1, <1>7, SMT
    <3> QED
      BY <1>8, <3>1, MulMono
  <2>2. (am * u) * bc <= (q * Scale + Scale) * bc
    <3>1. am * u \in Int /\ q * Scale + Scale \in Int
      BY <1>1, <1>2, SMT
    <3> QED
      BY <1>9, <1>10, <3>1, MulMono
  <2>3. ((d * Scale) * Scale) * u = (u * d) * (Scale * Scale)
    BY <1>1, <1>7, SMT
  <2>4. ((am * b) * c) * u = (am * u) * bc
    BY <1>1, SMT
  <2>5. /\ (u * d) * (Scale * Scale) \in Int /\ (am * u) * bc \in Int
        /\ (q * Scale + Scale) * bc \in Int
    <3>1. am * u \in Int /\ u * d \in Int /\ Scale * Scale \in Int
      BY <1>1, <1>7, SMT
    <3>2. q * Scale + Scale \in Int
      BY <1>1, <1>2, SMT
    <3> HIDE DEF bc
    <3> QED
      BY <1>9, <3>1, <3>2, SMT
  <2> QED
    BY <2>1, <2>2, <2>3, <2>4, <2>5
<1>12. (q * Scale + Scale) * bc <= (Scale * n + 2 * Scale) * (Scale * Scale)
  <2>1. (q * b) * c <= (g * Scale) * c
    <3>1. q * b \in Int /\ g * Scale \in Int
      BY <1>1, <1>2, <1>4, SMT
    <3> QED
      BY <1>1, <1>4, <3>1, MulMono
  <2>2. (g * c) * Scale <= (Scale * n + Scale) * Scale
    <3>1. g * c \in Int /\ Scale * n + Scale \in Int
      BY <1>1, <1>4, <1>5, SMT
    <3> QED
      BY <1>1, <1>5, <3>1, MulMono
  <2>3. q * bc <= (Scale * n + Scale) * Scale
    BY <1>1, <1>2, <1>4, <1>5, <2>1, <2>2, SMT
  <2>4. (q * bc) * Scale <= ((Scale * n + Scale) * Scale) * Scale
    <3>1. q * bc \in Int /\ (Scale * n + Scale) * Scale \in Int
      BY <1>1, <1>2, <1>5, <1>9, SMT
    <3> QED
      BY <1>1, <2>3, <3>1, MulMono
  <2>5. bc * Scale <= (Scale * Scale) * Scale
    <3>1. Scale * Scale \in Int
      BY <1>1, SMT
    <3> QED
      BY <1>1, <1>9, <3>1, MulMono
  <2> HIDE DEF bc
  <2> QED
    BY <1>1, <1>2, <1>5, <1>9, <2>4, <2>5, SMT
<1>13. u * d <= Scale * n + 2 * Scale
  <2>1. /\ u * d \in Int /\ Scale * n + 2 * Scale \in Int
        /\ Scale * Scale \in Int /\ Scale * Scale > 0
    BY <1>1, <1>5, <1>7, SMT
  <2>2. (u * d) * (Scale * Scale) <= (Scale * n + 2 * Scale) * (Scale * Scale)
    <3>1. /\ (u * d) * (Scale * Scale) \in Int /\ (q * Scale + Scale) * bc \in Int
          /\ (Scale * n + 2 * Scale) * (Scale * Scale) \in Int
      BY <1>1, <1>2, <1>9, <2>1, SMT
    <3> QED
      BY <1>11, <1>12, <3>1
  <2> QED
    BY <2>1, <2>2, MulCancel
<1> QED
  BY <1>4, <1>13 DEF am, b, c, k, d, n
=============================================================================
