--------------------------- MODULE BorrowingProofs ---------------------------
(***************************************************************************)
(* Theorems about Borrowing, for every value of its constants.             *)
(*                                                                         *)
(* The argument: every call that concerns a borrower settles the loan with *)
(* the interest index that was due before the call (AccruedIndex), so it   *)
(* sees the loan that is due; nothing but a block and the interest model's *)
(* owner raises that index (a donation lowers it, as long as the published *)
(* rate is not zero), and bringing a loan up to date rounds down, by less  *)
(* than two units.                                                         *)
(***************************************************************************)
EXTENDS Borrowing, MarketProofs

BInv == IInv /\ collaterals \in [Users -> Nat] /\ price \in Nat /\ max_ltv \in Nat

(***************************************************************************)
(* A loan brought up to date                                               *)
(***************************************************************************)
\* What is owed at an index of the market.
at_index(info, index) == UintDivDec(UintMulDec(info.loan_amount, index), info.interest_index)

LEMMA SettledLoan ==
  ASSUME NEW st, NEW info \in BorrowerInfo
  PROVE  /\ settle_borrower(st, info).loan_amount = at_index(info, st.global_interest_index)
         /\ compute_borrower_interest(st, info).loan_amount
              = at_index(info, st.global_interest_index)
<1> DEFINE owes == at_index(info, st.global_interest_index)
           loan == [info EXCEPT !.loan_amount = owes]
           withInterest == [loan EXCEPT !.interest_index = st.global_interest_index]
           reward == DecMul(DecDiv(FromUint(withInterest.loan_amount),
                                   st.global_interest_index),
                            st.global_reward_index - withInterest.reward_index)
<1>1. compute_borrower_interest(st, info) = withInterest
  BY DEF compute_borrower_interest, at_index
<1>2. settle_borrower(st, info)
        = [[withInterest EXCEPT !.pending_rewards = @ + reward]
                         EXCEPT !.reward_index = st.global_reward_index]
  BY <1>1 DEF settle_borrower, compute_borrower_reward
<1>3. DOMAIN info = {"interest_index", "reward_index", "loan_amount", "pending_rewards"}
  BY SMT DEF BorrowerInfo
<1> HIDE DEF owes, reward
<1>4. withInterest.loan_amount = owes /\ DOMAIN withInterest = DOMAIN info
  BY <1>3, SMT
<1> HIDE DEF withInterest
<1>5. settle_borrower(st, info).loan_amount = withInterest.loan_amount
  BY <1>2, <1>3, <1>4, SMT
<1> QED
  BY <1>1, <1>4, <1>5 DEF owes

\* It grows with the index, is at most the loan at the index of the loan, and
\* from there on less than the loan by at most one.
LEMMA LoanAtIndex ==
  ASSUME NEW info \in BorrowerInfo, One <= info.interest_index,
         NEW low \in Nat, NEW high \in Nat, low <= high
  PROVE  /\ at_index(info, low) \in Nat
         /\ at_index(info, low) <= at_index(info, high)
         /\ low = info.interest_index => at_index(info, low) <= info.loan_amount
         /\ info.interest_index <= low => info.loan_amount - 1 <= at_index(info, low)
         /\ info.loan_amount = 0 => at_index(info, low) = 0
<1> DEFINE loan == info.loan_amount
           own == info.interest_index
           grown(i) == UintMulDec(loan, i)
<1>1. /\ loan \in Nat /\ own \in Nat /\ own > 0 /\ Scale <= own
      /\ Scale \in Nat /\ Scale > 0
  BY ScaleAssumption, SMT DEF BorrowerInfo, One
<1>2. \A i \in Nat : at_index(info, i) = (grown(i) * Scale) \div own
  BY DEF at_index, UintDivDec
<1>3. \A i \in Nat : grown(i) = (loan * i) \div Scale
  BY DEF UintMulDec
<1> HIDE DEF loan, own, grown
<1>4. \A i \in Nat : /\ loan * i \in Nat /\ grown(i) \in Nat
                     /\ Scale * grown(i) <= loan * i
                     /\ loan * i < Scale * grown(i) + Scale
  <2> SUFFICES ASSUME NEW i \in Nat
               PROVE  /\ loan * i \in Nat /\ grown(i) \in Nat
                      /\ Scale * grown(i) <= loan * i
                      /\ loan * i < Scale * grown(i) + Scale
    OBVIOUS
  <2>1. loan * i \in Nat
    BY <1>1, SMT
  <2> QED
    BY <1>1, <1>3, <2>1, DivInt, DivNat
<1>5. \A i \in Nat : grown(i) * Scale \in Nat /\ at_index(info, i) \in Nat
  <2> SUFFICES ASSUME NEW i \in Nat
               PROVE  grown(i) * Scale \in Nat /\ at_index(info, i) \in Nat
    OBVIOUS
  <2>1. grown(i) * Scale \in Nat
    BY <1>1, <1>4, SMT
  <2> QED
    BY <1>1, <1>2, <2>1, DivNat
\* The quotient, as a number of its own.
<1> DEFINE q == at_index(info, low)
<1>10. q \in Nat /\ q * own <= grown(low) * Scale
  <2> DEFINE n == grown(low) * Scale
  <2>1. n \in Int /\ q = n \div own /\ q \in Nat
    BY <1>2, <1>5
  <2> HIDE DEF n, q
  <2>2. own * (n \div own) <= n
    BY <1>1, <2>1, DivInt
  <2>3. own * q <= n
    BY <2>1, <2>2
  <2>4. own * q = q * own
    BY <1>1, <2>1, SMT
  <2> QED
    BY <2>1, <2>3, <2>4 DEF n
<1>6. at_index(info, low) <= at_index(info, high)
  <2>1. loan * low <= loan * high
    BY <1>1, MulMono, SMT
  <2>2. grown(low) <= grown(high)
    <3>1. (loan * low) \div Scale <= (loan * high) \div Scale
      BY <1>1, <1>4, <2>1, DivMono
    <3> QED
      BY <1>3, <3>1
  <2>3. grown(low) * Scale <= grown(high) * Scale
    <3>1. grown(low) \in Int /\ grown(high) \in Int /\ Scale \in Int /\ Scale >= 0
      BY <1>1, <1>4, SMT
    <3> QED
      BY <2>2, <3>1, MulMono
  <2>4. (grown(low) * Scale) \div own <= (grown(high) * Scale) \div own
    BY <1>1, <1>5, <2>3, DivMono
  <2> QED
    BY <1>2, <2>4
<1>7. ASSUME low = own PROVE at_index(info, low) <= loan
  <2>1. grown(low) * Scale <= loan * own
    BY <1>1, <1>4, <1>7, SMT
  <2> HIDE DEF q
  <2>2. q * own <= loan * own
    BY <1>1, <1>5, <1>10, <2>1, SMT
  <2> QED
    BY <1>1, <1>10, <2>2, MulCancel DEF q
<1>8. ASSUME own <= low PROVE loan - 1 <= at_index(info, low)
  <2>1. loan * own <= loan * low
    BY <1>1, <1>8, MulMono, SMT
  <2>2. (loan - 1) * own <= grown(low) * Scale
    <3>1. loan * low < grown(low) * Scale + Scale
      BY <1>1, <1>4, SMT
    <3>2. (loan - 1) * own = loan * own - own
      BY <1>1, SMT
    <3>3. loan * own \in Int /\ loan * low \in Int /\ grown(low) * Scale \in Int
          /\ (loan - 1) * own \in Int
      BY <1>1, <1>4, <1>5, SMT
    <3> QED
      BY <1>1, <2>1, <3>1, <3>2, <3>3, SMT
  <2> QED
    BY <1>1, <1>2, <1>5, <2>2, DivGreatest
<1>9. ASSUME loan = 0 PROVE at_index(info, low) = 0
  <2>1. grown(low) = 0
    <3>1. loan * low = 0
      <4>1. 0 * low = 0
        BY SMT
      <4> QED
        BY <1>9, <4>1
    <3>2. grown(low) \in Nat /\ grown(low) * Scale <= 0 * Scale
      BY <1>1, <1>4, <3>1, SMT
    <3> QED
      BY <1>1, <3>2, MulCancel, SMT
  <2> HIDE DEF q
  <2>2. q * own <= 0 * own
    BY <1>1, <1>10, <2>1, SMT
  <2>3. q <= 0
    BY <1>1, <1>10, <2>2, MulCancel
  <2> QED
    BY <1>10, <2>3, SMT DEF q
<1> QED
  BY <1>5, <1>6, <1>7, <1>8, <1>9 DEF loan, own

(***************************************************************************)
(* The index that is due                                                   *)
(***************************************************************************)
LEMMA IndexDueGood ==
  ASSUME IInv
  PROVE  index_due \in Nat /\ state.global_interest_index <= index_due /\ One <= index_due
<1>1. /\ state \in MarketState /\ One <= state.global_interest_index /\ One \in Nat
      /\ TypeOK
  BY ScaleAssumption DEF IInv, TypeOK, IndexesOrdered, One
<1>2. bank \in Nat /\ height \in Nat /\ pool_value(state, bank) >= 0
  BY BeforeGood
<1>3. CASE state.last_interest_updated >= height
  <2>1. index_due = state.global_interest_index
    BY <1>3 DEF index_due
  <2> QED
    BY <1>1, <2>1, SMT DEF MarketState
<1>4. CASE ~(state.last_interest_updated >= height)
  <2> DEFINE rate == borrow_rate(state, bank)
             charged == charge_interest(state, height, rate)
  <2>1. rate \in Nat
    BY <1>1, <1>2, BorrowRateNat
  <2>2. index_due = charged.global_interest_index
    BY <1>4 DEF index_due
  <2> HIDE DEF rate
  <2>3. state.last_interest_updated < height
    BY <1>1, <1>2, <1>4, SMT DEF MarketState
  <2>4. charged \in MarketState
        /\ charged.global_interest_index >= state.global_interest_index
    BY <1>1, <1>2, <2>1, <2>3, ChargeGrows
  <2> HIDE DEF charged
  <2> QED
    BY <1>1, <2>2, <2>4, SMT DEF MarketState
<1> QED
  BY <1>3, <1>4

\* Coins given to the market make it lend at a lower rate.
LEMMA DonationLowersDue ==
  ASSUME IInv, Donation, state.prev_exchange_rate > 0
  PROVE  index_due' \in Nat /\ index_due' <= index_due
<1>1. PICK a \in Amounts : Donate(a)
  BY DEF Donation
<1>2. /\ state' = state /\ height' = height /\ bank' = bank + a
      /\ config' = config /\ interest_config' = interest_config
  BY <1>1 DEF Donate
<1>3. index_due \in Nat
  BY IndexDueGood
<1>4. CASE state.last_interest_updated >= height
  <2>1. index_due = state.global_interest_index /\ index_due' = state.global_interest_index
    BY <1>2, <1>4 DEF index_due
  <2> QED
    BY <1>3, <2>1, SMT
<1>5. CASE ~(state.last_interest_updated >= height)
  <2> DEFINE cfg == interest_config[config.interest_model]
             lent == state.total_liabilities
             v1 == pool_value(state, bank)
             v2 == pool_value(state, bank + a)
             u1 == DecDiv(lent, v1)
             u2 == DecDiv(lent, v2)
             m == cfg.interest_multiplier
             r1 == DecMul(u1, m) + cfg.base_rate
             r2 == DecMul(u2, m) + cfg.base_rate
             n == FromUint(height - state.last_interest_updated)
             f1 == DecMul(n, r1)
             f2 == DecMul(n, r2)
             gi == state.global_interest_index
  <2>1. /\ a \in Nat /\ bank \in Nat /\ aterra_supply \in Nat /\ aterra_supply > 0
        /\ state \in MarketState /\ height \in Nat
        /\ state.prev_exchange_rate * aterra_supply <= v1
        /\ state.prev_exchange_rate >= 1
    BY InputTypes, BeforeGood, SMT DEF IInv, TypeOK, RateBacked, MarketState
  <2>2. m \in Nat /\ cfg.base_rate \in Nat
    <3>1. cfg \in [owner : Users, base_rate : Nat, interest_multiplier : Nat]
      BY MarketAssumption DEF IInv, TypeOK, MarketConfig
    <3> HIDE DEF cfg
    <3> QED
      BY <3>1
  <2>3. v1 \in Nat /\ v1 > 0 /\ v2 \in Nat /\ v2 > 0 /\ v1 <= v2
    <3>1. v1 \in Int /\ v2 \in Int /\ v2 = v1 + a * Scale /\ a * Scale \in Nat
      BY <2>1, ScaleAssumption, SMT DEF pool_value, FromUint, MarketState
    <3>2. 1 * aterra_supply <= state.prev_exchange_rate * aterra_supply
      BY <2>1, MulMono, SMT DEF MarketState
    <3> QED
      BY <2>1, <3>1, <3>2, SMT DEF MarketState
  <2>4. /\ lent \in Nat /\ gi \in Nat /\ n \in Nat
    BY <1>5, <2>1, ScaleAssumption, SMT DEF MarketState, FromUint
  <2>5. index_due = DecMul(gi, One + f1)
    <3>1. borrow_rate(state, bank) = r1
      BY <2>3, SMT DEF borrow_rate, query_borrow_rate, pool_value
    <3>2. index_due = charge_interest(state, height, borrow_rate(state, bank)).global_interest_index
      BY <1>5 DEF index_due
    <3> HIDE DEF r1
    <3> QED
      BY <2>1, <3>1, <3>2, SMT DEF charge_interest, MarketState
  <2>6. index_due' = DecMul(gi, One + f2)
    <3>1. borrow_rate(state, bank)' = r2
      BY <1>2, <2>3, SMT DEF borrow_rate, query_borrow_rate, pool_value
    <3>2. index_due' = charge_interest(state, height, borrow_rate(state, bank)').global_interest_index
      BY <1>2, <1>5 DEF index_due, charge_interest
    <3> HIDE DEF r2
    <3> QED
      BY <2>1, <3>1, <3>2, SMT DEF charge_interest, MarketState
  <2> HIDE DEF cfg, lent, v1, v2, n, gi
  <2>7. u1 \in Nat /\ u2 \in Nat /\ u2 <= u1
    <3>1. u1 \in Nat /\ u2 \in Nat
      BY <2>3, <2>4, DecDivNat
    <3>2. lent * Scale \in Int
      BY <2>4, ScaleAssumption, SMT
    <3>3. v2 * u2 <= lent * Scale
      BY <2>3, <3>2, DivInt DEF DecDiv
    <3> HIDE DEF u2
    <3>4. u2 * v1 <= lent * Scale
      <4>1. v1 * u2 <= v2 * u2
        BY <2>3, <3>1, MulMono, SMT
      <4>2. u2 * v1 = v1 * u2 /\ v1 * u2 \in Int /\ v2 * u2 \in Int
        BY <2>3, <3>1, SMT
      <4> QED
        BY <3>2, <3>3, <4>1, <4>2, SMT
    <3>5. u2 <= u1
      BY <2>3, <3>1, <3>2, <3>4, DivGreatest DEF DecDiv
    <3> QED
      BY <3>1, <3>5
  <2> HIDE DEF u1, u2, m
  <2>8. r1 \in Nat /\ r2 \in Nat /\ r2 <= r1
    <3>1. DecMul(u1, m) \in Nat /\ DecMul(u2, m) \in Nat
      BY <2>2, <2>7, DecMulNat
    <3>2. u2 * m \in Int /\ u1 * m \in Int /\ u2 * m <= u1 * m
      BY <2>2, <2>7, MulMono, SMT
    <3>3. DecMul(u2, m) <= DecMul(u1, m)
      BY <3>2, ScaleAssumption, DivMono DEF DecMul
    <3> QED
      BY <2>2, <3>1, <3>3, SMT
  <2> HIDE DEF r1, r2
  <2>9. f1 \in Nat /\ f2 \in Nat /\ f2 <= f1
    <3>1. f1 \in Nat /\ f2 \in Nat
      BY <2>4, <2>8, DecMulNat
    <3>2. n * r2 \in Int /\ n * r1 \in Int /\ n * r2 <= n * r1
      <4>1. r2 * n <= r1 * n
        BY <2>4, <2>8, MulMono, SMT
      <4> QED
        BY <2>4, <2>8, <4>1, SMT
    <3> QED
      BY <3>1, <3>2, ScaleAssumption, DivMono DEF DecMul
  <2> HIDE DEF f1, f2
  <2>10. DecMul(gi, One + f2) \in Nat /\ DecMul(gi, One + f2) <= DecMul(gi, One + f1)
    <3>1. One + f1 \in Nat /\ One + f2 \in Nat /\ One + f2 <= One + f1
      BY <2>9, ScaleAssumption, SMT DEF One
    <3>2. gi * (One + f2) \in Int /\ gi * (One + f1) \in Int
          /\ gi * (One + f2) <= gi * (One + f1)
      <4>1. (One + f2) * gi <= (One + f1) * gi
        BY <2>4, <3>1, MulMono, SMT
      <4> QED
        BY <2>4, <3>1, <4>1, SMT
    <3> QED
      BY <2>4, <3>1, <3>2, ScaleAssumption, DecMulNat, DivMono DEF DecMul
  <2> QED
    BY <2>5, <2>6, <2>10
<1> QED
  BY <1>4, <1>5

(***************************************************************************)
(* What a step does to the loan that is due                                *)
(***************************************************************************)
\* What is due is the loan at the index that is due, before a step and after.
LEMMA DueAtIndex ==
  ASSUME NEW u \in Users
  PROVE  /\ IInv => due(u) = at_index(borrower_info[u], index_due)
         /\ IInv' => due(u)' = at_index(borrower_info'[u], index_due')
<1>1. ASSUME IInv PROVE due(u) = at_index(borrower_info[u], index_due)
  <2>1. borrower_info[u] \in BorrowerInfo
    BY <1>1 DEF IInv, TypeOK
  <2> QED
    BY <2>1, SettledLoan DEF due
<1>2. ASSUME IInv' PROVE due(u)' = at_index(borrower_info'[u], index_due')
  <2>1. borrower_info'[u] \in BorrowerInfo
    BY <1>2 DEF IInv, TypeOK
  <2>2. due(u)' = compute_borrower_interest([global_interest_index |-> index_due'],
                                            borrower_info'[u]).loan_amount
    BY DEF due, compute_borrower_interest
  <2> QED
    BY <2>1, <2>2, SettledLoan
<1> QED
  BY <1>1, <1>2

\* A loan that is not touched grows only with the index.
LEMMA DueKept ==
  ASSUME IInv, IInv', NEW u \in Users, borrower_info'[u] = borrower_info[u],
         index_due' \in Nat, index_due' <= index_due
  PROVE  due(u) \in Nat /\ due(u)' \in Nat /\ due(u)' <= due(u)
<1>1. borrower_info[u] \in BorrowerInfo /\ One <= borrower_info[u].interest_index
  BY DEF IInv, TypeOK, IndexesOrdered
<1>2. index_due \in Nat
  BY IndexDueGood
<1>3. /\ at_index(borrower_info[u], index_due') \in Nat
      /\ at_index(borrower_info[u], index_due') <= at_index(borrower_info[u], index_due)
  BY <1>1, <1>2, LoanAtIndex
<1>4. at_index(borrower_info[u], index_due) \in Nat
  BY <1>1, <1>2, LoanAtIndex, SMT
<1> QED
  BY <1>3, <1>4, DueAtIndex

\* A loan that is brought up to date is at least what is due of it.
LEMMA DueSettled ==
  ASSUME IInv, IInv', NEW u \in Users, index_due' = index_due,
         borrower_info'[u].interest_index = index_due
  PROVE  due(u)' \in Nat /\ due(u)' <= borrower_info'[u].loan_amount
<1>1. borrower_info'[u] \in BorrowerInfo
  BY DEF IInv, TypeOK
<1>2. index_due \in Nat /\ One <= index_due /\ index_due <= index_due
  BY IndexDueGood, SMT
<1> QED
  BY <1>1, <1>2, DueAtIndex, LoanAtIndex

\* What a call on the loan of v does to the loans.
LoanStep(v) ==
    /\ IInv' /\ index_due' = index_due
    /\ \A u \in Users \ {v} : borrower_info'[u] = borrower_info[u]
    /\ borrower_info'[v].interest_index = index_due

LEMMA DueNat == ASSUME IInv, NEW u \in Users PROVE due(u) \in Nat
<1>1. borrower_info[u] \in BorrowerInfo /\ One <= borrower_info[u].interest_index
  BY DEF IInv, TypeOK, IndexesOrdered
<1>2. index_due \in Nat /\ index_due <= index_due
  BY IndexDueGood, SMT
<1> QED
  BY <1>1, <1>2, DueAtIndex, LoanAtIndex

\* What the market answers, where it can compute its interest.
LEMMA AnswerIsDue ==
  ASSUME IInv, NEW u \in Users, NEW t \in Nat, CanComputeInterest(bank, t)
  PROVE  settle_borrower(accrued(bank, t), borrower_info[u]).loan_amount = due(u)
<1>1. borrower_info[u] \in BorrowerInfo
  BY DEF IInv, TypeOK
<1>2. accrued(bank, t).global_interest_index = index_due
  BY AccruedIndex
<1> QED
  BY <1>1, <1>2, SettledLoan, DueAtIndex

LEMMA LoanCallSteps ==
  ASSUME IInv, NEW v \in Users, NEW a \in Nat, NEW l, NEW t \in TargetRates,
         \/ a \in Amounts /\ borrow_stable(v, a, l, t)
         \/ settle_repayment(v, a, t)
         \/ claim_rewards(v, t)
  PROVE  /\ LoanStep(v)
         /\ \/ borrower_info'[v].loan_amount = due(v) + a /\ due(v) + a <= l
            \/ borrower_info'[v].loan_amount <= due(v)
<1> DEFINE st == accrued(bank, t)
           liability == settle_borrower(st, borrower_info[v])
           repay == Lesser(liability.loan_amount, a)
           claim == Trunc(liability.pending_rewards)
<1>1. t \in Nat /\ CanComputeInterest(bank, t)
  BY InputTypes DEF borrow_stable, settle_repayment, claim_rewards
<1>2. IInv'
  <2>1. CASE a \in Amounts /\ borrow_stable(v, a, l, t)
    BY <2>1, LendingGood DEF StepGood
  <2>2. CASE settle_repayment(v, a, t)
    BY <1>1, <2>2, RepaymentGood DEF StepGood
  <2>3. CASE claim_rewards(v, t)
    <3>1. ClaimRewards
      BY <2>3 DEF ClaimRewards
    <3> QED
      BY <3>1, ClaimGood DEF StepGood
  <2> QED
    BY <2>1, <2>2, <2>3
<1>3. index_due' = index_due
  <2>1. Accrues
    BY <1>1, LoanCallAccrues
  <2> QED
    BY <2>1, DueAfter
<1>4. StateGood(st, aterra_supply, bank) /\ st.global_interest_index = index_due
  BY <1>1, AccruedGood, AccruedIndex
<1>5. liability \in BorrowerInfo /\ liability.interest_index = index_due
  BY <1>4, SettleGood
<1>6. liability.loan_amount = due(v) /\ due(v) \in Nat
  BY <1>1, AnswerIsDue, DueNat
<1>7. \/ /\ borrower_info' = [borrower_info EXCEPT ![v] =
                                 [liability EXCEPT !.loan_amount = @ + a]]
         /\ a + liability.loan_amount <= l
      \/ borrower_info' = [borrower_info EXCEPT ![v] =
                              [liability EXCEPT !.loan_amount = @ - repay]]
      \/ borrower_info' = [borrower_info EXCEPT ![v] =
                              [liability EXCEPT !.pending_rewards = @ - FromUint(claim)]]
  BY DEF borrow_stable, settle_repayment, claim_rewards
<1>8. repay \in Nat
  BY <1>6 DEF Lesser
<1> HIDE DEF st, liability, repay, claim
<1>9. borrower_info \in [Users -> BorrowerInfo]
  BY DEF IInv, TypeOK
<1>10. /\ \A u \in Users \ {v} : borrower_info'[u] = borrower_info[u]
       /\ borrower_info'[v].interest_index = index_due
       /\ \/ borrower_info'[v].loan_amount = due(v) + a /\ due(v) + a <= l
          \/ borrower_info'[v].loan_amount <= due(v)
  <2>1. CASE /\ borrower_info' = [borrower_info EXCEPT ![v] =
                                    [liability EXCEPT !.loan_amount = @ + a]]
             /\ a + liability.loan_amount <= l
    <3>1. due(v) + a = a + due(v)
      BY <1>6, SMT
    <3>2. borrower_info'[v] = [liability EXCEPT !.loan_amount = @ + a]
      BY <1>9, <2>1
    <3>3. borrower_info'[v].interest_index = index_due
          /\ borrower_info'[v].loan_amount = due(v) + a
      BY <1>5, <1>6, <3>2, SMT DEF BorrowerInfo
    <3> QED
      BY <1>6, <1>9, <2>1, <3>1, <3>3
  <2>2. CASE borrower_info' = [borrower_info EXCEPT ![v] =
                                 [liability EXCEPT !.loan_amount = @ - repay]]
    <3>1. borrower_info'[v] = [liability EXCEPT !.loan_amount = @ - repay]
      BY <1>9, <2>2
    <3>2. borrower_info'[v].interest_index = index_due
          /\ borrower_info'[v].loan_amount <= due(v)
      BY <1>5, <1>6, <1>8, <3>1, SMT DEF BorrowerInfo
    <3> QED
      BY <1>9, <2>2, <3>2
  <2>3. CASE borrower_info' = [borrower_info EXCEPT ![v] =
                [liability EXCEPT !.pending_rewards = @ - FromUint(claim)]]
    <3> DEFINE left == liability.pending_rewards - FromUint(claim)
    <3>1. borrower_info'[v] = [liability EXCEPT !.pending_rewards = left]
      BY <1>9, <2>3
    <3> HIDE DEF left
    <3>2. borrower_info'[v].interest_index = index_due
          /\ borrower_info'[v].loan_amount <= due(v)
      BY <1>5, <1>6, <3>1, SMT DEF BorrowerInfo
    <3> QED
      BY <1>9, <2>3, <3>2
  <2> QED
    BY <1>7, <2>1, <2>2, <2>3
<1> QED
  BY <1>2, <1>3, <1>10 DEF LoanStep

\* No limit allows less than nothing: a call that is no loan only lowers it.
LEMMA RepaidAtMostDue ==
  ASSUME IInv, NEW v \in Users, NEW a \in Nat, NEW t \in TargetRates,
         settle_repayment(v, a, t) \/ claim_rewards(v, t)
  PROVE  borrower_info'[v].loan_amount <= due(v)
<1> DEFINE l == -1
<1>1. \/ borrower_info'[v].loan_amount = due(v) + a /\ due(v) + a <= l
      \/ borrower_info'[v].loan_amount <= due(v)
  <2> HIDE DEF l
  <2> QED
    BY LoanCallSteps
<1>2. due(v) \in Nat
  BY DueNat
<1>3. ~(due(v) + a <= l)
  BY <1>2
<1> QED
  BY <1>1, <1>3

LEMMA LiquidationSteps ==
  ASSUME IInv, NEW v \in Users, NEW taken, NEW paid \in Amounts,
         NEW t \in TargetRates, liquidate_collateral(v, taken, paid, t)
  PROVE  LoanStep(v) /\ borrower_info'[v].loan_amount <= due(v) + paid
<1>1. paid \in Nat /\ bank \in Nat /\ (bank + paid) - bank = paid
  BY InputTypes, BeforeGood, SMT
<1>2. settle_repayment(v, paid, t)
  BY <1>1 DEF liquidate_collateral, repay_stable_from_liquidation
<1>3. due(v) \in Nat
  BY DueNat
<1>4. /\ LoanStep(v)
      /\ \/ borrower_info'[v].loan_amount = due(v) + paid
         \/ borrower_info'[v].loan_amount <= due(v)
  BY <1>1, <1>2, LoanCallSteps
<1>5. borrower_info'[v].loan_amount \in Nat
  BY <1>4 DEF LoanStep, IInv, TypeOK, BorrowerInfo
<1> QED
  BY <1>1, <1>3, <1>4, <1>5, SMT

\* The market's other calls touch no loan and raise no index.
LEMMA MarketCallSteps ==
  ASSUME IInv, MarketCall
  PROVE  /\ IInv' /\ UNCHANGED <<borrower_info, collaterals, price, max_ltv, liquidated>>
         /\ (/\ height' = height /\ interest_config' = interest_config
             /\ state.prev_exchange_rate > 0)
            => index_due' \in Nat /\ index_due' <= index_due
<1>1. IInv'
  BY DepositGood, RedeemGood, EpochGood, GovernanceGood, UpdateConfigGood,
     NextBlockGood, DonationGood, HolderBurnGood DEF MarketCall, StepGood
<1>2. UNCHANGED <<borrower_info, collaterals, price, max_ltv, liquidated>>
  BY DEF MarketCall, Deposit, deposit_stable, Redeem, redeem_stable, EpochOperations,
         execute_epoch_operations, register_contracts, UpdateConfig, update_config,
         UpdateInterestModel, update_interest_model, UpdateDistributionModel,
         update_distribution_model, NextBlock, Donation, Donate, HolderBurn, holder_burn
<1>3. index_due \in Nat
  BY IndexDueGood
<1>4. ASSUME height' = height, interest_config' = interest_config,
             state.prev_exchange_rate > 0
      PROVE  index_due' \in Nat /\ index_due' <= index_due
  <2>1. CASE Deposit \/ Redeem
    BY <1>3, <2>1, DepositorAccrues, DueAfter, SMT
  <2>2. CASE EpochOperations
    BY <1>3, <2>2, EpochAccrues, DueAfter, SMT
  <2>3. CASE register_contracts \/ UpdateConfig
    BY <1>3, <2>3, ConfigKeepsDue, SMT
  <2>4. CASE UpdateInterestModel \/ UpdateDistributionModel \/ HolderBurn
    <3>1. UNCHANGED <<state, bank, config>>
      BY <2>4 DEF UpdateInterestModel, update_interest_model, HolderBurn, holder_burn,
                  UpdateDistributionModel, update_distribution_model
    <3>2. index_due' = index_due
      BY <1>4, <3>1, DueAfter
    <3> QED
      BY <1>3, <3>2, SMT
  <2>5. CASE NextBlock
    <3>1. height \in Nat /\ height' = height + 1
      BY <2>5, BeforeGood DEF NextBlock
    <3> QED
      BY <1>4, <3>1, SMT
  <2>6. CASE Donation
    BY <1>4, <2>6, DonationLowersDue
  <2> QED
    BY <2>1, <2>2, <2>3, <2>4, <2>5, <2>6 DEF MarketCall
<1> QED
  BY <1>1, <1>2, <1>4

\* The overseer's own calls leave the market as it is.
LEMMA MarketUntouched ==
  ASSUME IInv, UNCHANGED mvars
  PROVE  /\ IInv' /\ UNCHANGED borrower_info
         /\ index_due' = index_due /\ \A u \in Users : due(u)' = due(u)
<1>1. IInv'
  BY StepIsGood DEF StepGood
<1>2. index_due' = index_due
  BY DueAfter DEF mvars
<1>3. UNCHANGED borrower_info
  BY DEF mvars
<1> QED
  BY <1>1, <1>2, <1>3, DueAtIndex

LEMMA LimitGrows ==
  ASSUME NEW a \in Nat, NEW b \in Nat, a <= b, NEW p \in Nat, NEW q \in Nat, p <= q,
         NEW l \in Nat, NEW m \in Nat, l <= m
  PROVE  /\ UintMulDec(UintMulDec(a, p), l) \in Nat
         /\ UintMulDec(UintMulDec(b, q), m) \in Nat
         /\ UintMulDec(UintMulDec(a, p), l) <= UintMulDec(UintMulDec(b, q), m)
<1>1. ASSUME NEW x \in Nat, NEW y \in Nat, x <= y, NEW c \in Nat, NEW d \in Nat, c <= d
      PROVE  /\ UintMulDec(x, c) \in Nat /\ UintMulDec(y, d) \in Nat
             /\ UintMulDec(x, c) <= UintMulDec(y, d)
  <2>1. Scale \in Nat /\ Scale > 0
    BY ScaleAssumption
  <2>2. UintMulDec(x, c) \in Nat /\ UintMulDec(y, d) \in Nat
    BY <1>1, UintMulDecBound
  <2>3. x * c \in Int /\ y * d \in Int /\ x * c <= y * d
    <3>1. x * c <= y * c
      BY <1>1, MulMono
    <3>2. y * c <= y * d
      <4>1. c * y <= d * y
        BY <1>1, MulMono
      <4> QED
        BY <1>1, <4>1, SMT
    <3>3. x * c \in Int /\ y * c \in Int /\ y * d \in Int
      BY <1>1, SMT
    <3> QED
      BY <3>1, <3>2, <3>3, SMT
  <2>4. (x * c) \div Scale <= (y * d) \div Scale
    BY <2>1, <2>3, DivMono
  <2> QED
    BY <2>2, <2>4 DEF UintMulDec
<1> DEFINE v == UintMulDec(a, p)
           w == UintMulDec(b, q)
<1>2. v \in Nat /\ w \in Nat /\ v <= w
  BY <1>1
<1> HIDE DEF v, w
<1>3. /\ UintMulDec(v, l) \in Nat /\ UintMulDec(w, m) \in Nat
      /\ UintMulDec(v, l) <= UintMulDec(w, m)
  BY <1>1, <1>2
<1> QED
  BY <1>2, <1>3 DEF v, w

\* What an amount of collateral secures.
LEMMA LimitNat ==
  ASSUME BInv, NEW c \in Nat
  PROVE  compute_borrow_limit(c) \in Nat /\ (c = 0 => compute_borrow_limit(c) = 0)
<1>1. price \in Nat /\ max_ltv \in Nat
  BY DEF BInv
<1>2. ASSUME NEW x \in Nat, NEW y \in Nat
      PROVE  UintMulDec(x, y) \in Nat /\ (x = 0 => UintMulDec(x, y) = 0)
  <2>1. UintMulDec(x, y) \in Nat
    BY UintMulDecBound
  <2>2. 0 \div Scale = 0 /\ 0 * y = 0
    BY ScaleAssumption, SMT
  <2> QED
    BY <2>1, <2>2 DEF UintMulDec
<1> DEFINE value == UintMulDec(c, price)
<1>3. value \in Nat /\ (c = 0 => value = 0)
  BY <1>1, <1>2
<1> HIDE DEF value
<1>4. UintMulDec(value, max_ltv) \in Nat /\ (value = 0 => UintMulDec(value, max_ltv) = 0)
  BY <1>1, <1>2, <1>3
<1> QED
  BY <1>3, <1>4 DEF compute_borrow_limit, value

(***************************************************************************)
(* The theorems                                                            *)
(***************************************************************************)
\* Which calls there are, with what they are given.
LEMMA BorrowingSteps ==
  ASSUME BInv, BorrowingNext
  PROVE  \/ \E u \in Users, a \in Amounts \cup {0}, t \in TargetRates :
              /\ \/ a \in Amounts /\ borrow_stable(u, a, query_borrow_limit(u), t)
                 \/ settle_repayment(u, a, t)
                 \/ claim_rewards(u, t)
              /\ liquidated' = {v \in liquidated : borrower_info'[v].loan_amount > 0}
              /\ UNCHANGED <<collaterals, price, max_ltv>>
         \/ \E u \in Users, a \in Lots : lock_collateral(u, a)
         \/ \E u \in Users, a \in Lots, t \in TargetRates : unlock_collateral(u, a, t)
         \/ \E u \in Users, a \in Lots, paid \in Amounts, t \in TargetRates :
              liquidate_collateral(u, a, paid, t)
         \/ \E l \in MaxLtvs : update_whitelist(l)
         \/ MarketCall
         \/ PriceMoves
<1>1. ASSUME NEW t \in TargetRates, LoanCall(t)
      PROVE  \E u \in Users, a \in Amounts \cup {0} :
              /\ \/ a \in Amounts /\ borrow_stable(u, a, query_borrow_limit(u), t)
                 \/ settle_repayment(u, a, t)
                 \/ claim_rewards(u, t)
              /\ liquidated' = {v \in liquidated : borrower_info'[v].loan_amount > 0}
              /\ UNCHANGED <<collaterals, price, max_ltv>>
  BY <1>1 DEF LoanCall, repay_stable
<1>2. ASSUME NEW t \in TargetRates, OverseerCall(t)
      PROVE  \/ \E u \in Users, a \in Lots : lock_collateral(u, a)
             \/ \E u \in Users, a \in Lots : unlock_collateral(u, a, t)
             \/ \E u \in Users, a \in Lots, paid \in Amounts :
                  liquidate_collateral(u, a, paid, t)
  BY <1>2 DEF OverseerCall
<1> QED
  BY <1>1, <1>2 DEF BorrowingNext

LEMMA Preserved == ASSUME BInv, [BorrowingNext]_bvars PROVE BInv'
<1>1. CASE UNCHANGED bvars
  <2>1. UNCHANGED <<mvars, collaterals, price, max_ltv>>
    BY <1>1 DEF bvars
  <2> QED
    BY <2>1, MarketUntouched DEF BInv
<1>2. ASSUME NEW u \in Users, NEW a \in Amounts \cup {0}, NEW t \in TargetRates,
             \/ a \in Amounts /\ borrow_stable(u, a, query_borrow_limit(u), t)
             \/ settle_repayment(u, a, t)
             \/ claim_rewards(u, t),
             UNCHANGED <<collaterals, price, max_ltv>>
      PROVE  BInv'
  <2>1. a \in Nat
    BY InputTypes
  <2> QED
    BY <1>2, <2>1, LoanCallSteps DEF BInv, LoanStep
<1>3. ASSUME NEW u \in Users, NEW a \in Lots, lock_collateral(u, a) PROVE BInv'
  <2>1. UNCHANGED <<mvars, price, max_ltv>> /\ collaterals' = [collaterals EXCEPT ![u] = @ + a]
    BY <1>3 DEF lock_collateral
  <2>2. collaterals' \in [Users -> Nat]
    BY <2>1, BorrowingAssumption, SMT DEF BInv
  <2> QED
    BY <2>1, <2>2, MarketUntouched DEF BInv
<1>4. ASSUME NEW u \in Users, NEW a \in Lots, NEW t \in TargetRates,
             unlock_collateral(u, a, t)
      PROVE  BInv'
  <2>1. /\ UNCHANGED <<mvars, price, max_ltv>>
        /\ collaterals' = [collaterals EXCEPT ![u] = @ - a]
        /\ a <= collaterals[u]
    BY <1>4 DEF unlock_collateral
  <2>2. collaterals' \in [Users -> Nat]
    BY <2>1, BorrowingAssumption, SMT DEF BInv
  <2> QED
    BY <2>1, <2>2, MarketUntouched DEF BInv
<1>5. ASSUME NEW u \in Users, NEW a \in Lots, NEW paid \in Amounts,
             NEW t \in TargetRates, liquidate_collateral(u, a, paid, t)
      PROVE  BInv'
  <2>1. /\ UNCHANGED <<price, max_ltv>> /\ collaterals' = [collaterals EXCEPT ![u] = @ - a]
        /\ a <= collaterals[u]
    BY <1>5 DEF liquidate_collateral
  <2>2. collaterals' \in [Users -> Nat]
    BY <2>1, BorrowingAssumption, SMT DEF BInv
  <2> QED
    BY <1>5, <2>1, <2>2, LiquidationSteps DEF BInv, LoanStep
<1>6. CASE MarketCall
  BY <1>6, MarketCallSteps DEF BInv
<1>7. CASE PriceMoves
  <2>1. UNCHANGED <<mvars, collaterals, max_ltv>> /\ price' \in Nat
    BY <1>7, BorrowingAssumption DEF PriceMoves
  <2> QED
    BY <2>1, MarketUntouched DEF BInv
<1>8. ASSUME NEW l \in MaxLtvs, update_whitelist(l) PROVE BInv'
  <2>1. UNCHANGED <<mvars, collaterals, price>> /\ max_ltv' \in Nat
    BY <1>8, BorrowingAssumption DEF update_whitelist
  <2> QED
    BY <2>1, MarketUntouched DEF BInv
<1> QED
  BY <1>1, <1>2, <1>3, <1>4, <1>5, <1>6, <1>7, <1>8, BorrowingSteps

LEMMA BorrowingInvariance == BorrowingSpec => []BInv
<1>1. BorrowingInit => BInv
  <2> SUFFICES ASSUME BorrowingInit PROVE BInv
    OBVIOUS
  <2>1. IInv
    BY InitGood DEF BorrowingInit
  <2> QED
    BY <2>1, BorrowingAssumption DEF BorrowingInit, BInv
<1>2. BInv /\ [BorrowingNext]_bvars => BInv'
  BY Preserved
<1> QED
  BY <1>1, <1>2, PTL DEF BorrowingSpec

\* With the overseer asked and asking in the middle of its calls, the market
\* keeps all that is shown of it alone: its rate is backed, its numbers stay
\* natural, its indexes stay in order.
THEOREM MarketSafeInBorrowing == BorrowingSpec => [](TypeOK /\ RateBacked /\ IndexesOrdered)
<1>1. BInv => TypeOK /\ RateBacked /\ IndexesOrdered
  BY DEF BInv, IInv
<1> QED
  BY <1>1, BorrowingInvariance, PTL

\* A loan of which no more is due, on collateral that is worth no less.
LEMMA StaysHealthy ==
  ASSUME BInv, BInv', price' >= price, max_ltv' >= max_ltv, NEW u \in Users, Healthy(u),
         due(u)' \in Int, due(u)' <= due(u), collaterals[u] <= collaterals'[u]
  PROVE  Healthy(u)'
<1> DEFINE limit(c, p, l) == UintMulDec(UintMulDec(c, p), l)
           now == limit(collaterals[u], price, max_ltv)
           next == limit(collaterals'[u], price', max_ltv')
<1>1. /\ price \in Nat /\ collaterals[u] \in Nat /\ max_ltv \in Nat
      /\ price' \in Nat /\ collaterals'[u] \in Nat /\ max_ltv' \in Nat
      /\ price <= price' /\ max_ltv <= max_ltv'
  BY SMT DEF BInv
<1>2. now \in Nat /\ next \in Nat /\ now <= next
  BY <1>1, LimitGrows
<1>3. query_borrow_limit(u) = now /\ query_borrow_limit(u)' = next
  BY DEF query_borrow_limit, compute_borrow_limit
<1> HIDE DEF now, next
<1>4. due(u) \in Nat /\ due(u) <= query_borrow_limit(u)
  BY DueNat DEF BInv, Healthy
<1>5. due(u)' <= query_borrow_limit(u)'
  BY <1>2, <1>3, <1>4, SMT
<1> QED
  BY <1>5 DEF Healthy

\* A step in which no block passes, no price falls, max_ltv is not lowered and no
\* interest model is changed by its owner makes no loan liquidatable.
LEMMA HealthKept ==
  ASSUME BInv, [BorrowingNext]_bvars, height' = height, price' >= price,
         max_ltv' >= max_ltv, interest_config' = interest_config,
         state.prev_exchange_rate > 0, NEW u \in Users, Healthy(u)
  PROVE  Healthy(u)'
<1>1. /\ IInv /\ IInv' /\ BInv' /\ price \in Nat /\ collaterals[u] \in Nat
      /\ collaterals \in [Users -> Nat]
  BY Preserved DEF BInv
<1>2. due(u) \in Nat /\ query_borrow_limit(u) \in Nat
  BY <1>1, DueNat, LimitNat DEF query_borrow_limit
<1>3. due(u) <= query_borrow_limit(u)
  BY DEF Healthy
<1>4. index_due \in Nat /\ index_due <= index_due
  BY <1>1, IndexDueGood, SMT
<1>5. CASE UNCHANGED bvars
  <2>1. UNCHANGED <<mvars, collaterals>>
    BY <1>5 DEF bvars
  <2>2. due(u)' = due(u)
    BY <1>1, <2>1, MarketUntouched
  <2> QED
    BY <1>1, <1>2, <2>1, <2>2, StaysHealthy, SMT
<1>6. ASSUME NEW v \in Users, NEW a \in Amounts \cup {0}, NEW t \in TargetRates,
             \/ a \in Amounts /\ borrow_stable(v, a, query_borrow_limit(v), t)
             \/ settle_repayment(v, a, t)
             \/ claim_rewards(v, t),
             UNCHANGED <<collaterals, price, max_ltv>>
      PROVE  Healthy(u)'
  <2>1. a \in Nat
    BY InputTypes
  <2>2. /\ LoanStep(v)
        /\ \/ /\ borrower_info'[v].loan_amount = due(v) + a
              /\ due(v) + a <= query_borrow_limit(v)
           \/ borrower_info'[v].loan_amount <= due(v)
    BY <1>1, <1>6, <2>1, LoanCallSteps
  <2>3. CASE u = v
    <3>1. due(u)' \in Nat /\ due(u)' <= borrower_info'[u].loan_amount
      BY <1>1, <2>2, <2>3, DueSettled DEF LoanStep
    <3>2. borrower_info'[u].loan_amount \in Nat
      BY <1>1 DEF IInv, TypeOK, BorrowerInfo
    <3>3. borrower_info'[u].loan_amount <= query_borrow_limit(u)
      BY <1>2, <1>3, <2>1, <2>2, <2>3, <3>2, SMT
    <3>4. query_borrow_limit(u)' = query_borrow_limit(u)
      BY <1>6 DEF query_borrow_limit, compute_borrow_limit
    <3>5. due(u)' <= query_borrow_limit(u)'
      BY <1>2, <3>1, <3>2, <3>3, <3>4, SMT
    <3> QED
      BY <3>5 DEF Healthy
  <2>4. CASE u # v
    <3>1. due(u)' \in Nat /\ due(u)' <= due(u)
      BY <1>1, <1>4, <2>2, <2>4, DueKept DEF LoanStep
    <3> QED
      BY <1>1, <1>6, <3>1, StaysHealthy, SMT
  <2> QED
    BY <2>3, <2>4
<1>7. ASSUME NEW v \in Users, NEW a \in Lots, lock_collateral(v, a) PROVE Healthy(u)'
  <2>1. UNCHANGED mvars /\ collaterals' = [collaterals EXCEPT ![v] = @ + a] /\ a \in Nat
    BY <1>7, BorrowingAssumption DEF lock_collateral
  <2>2. due(u)' = due(u)
    BY <1>1, <2>1, MarketUntouched
  <2>3. collaterals[u] <= collaterals'[u]
    BY <1>1, <2>1, SMT
  <2> QED
    BY <1>1, <1>2, <2>2, <2>3, StaysHealthy, SMT
<1>8. ASSUME NEW v \in Users, NEW a \in Lots, NEW t \in TargetRates,
             unlock_collateral(v, a, t)
      PROVE  Healthy(u)'
  <2>1. /\ UNCHANGED <<mvars, price, max_ltv>> /\ CanComputeInterest(bank, t)
        /\ collaterals' = [collaterals EXCEPT ![v] = @ - a]
        /\ may_unlock(v, collaterals[v] - a, t)
    BY <1>8 DEF unlock_collateral
  <2>2. due(u)' = due(u)
    BY <1>1, <2>1, MarketUntouched
  <2>3. CASE u = v
    <3>1. compute_borrow_limit(collaterals'[u]) >= due(u)
      BY <1>1, <2>1, <2>3, InputTypes, AnswerIsDue
         DEF may_unlock, loan_amount, query_borrower_info
    <3>2. query_borrow_limit(u)' = compute_borrow_limit(collaterals'[u])
      BY <2>1 DEF query_borrow_limit, compute_borrow_limit
    <3>3. compute_borrow_limit(collaterals'[u]) \in Nat
      <4>1. collaterals'[u] \in Nat
        BY <1>1 DEF BInv
      <4> QED
        BY <4>1, LimitNat
    <3>4. due(u)' <= query_borrow_limit(u)'
      BY <1>2, <2>2, <3>1, <3>2, <3>3, SMT
    <3> QED
      BY <3>4 DEF Healthy
  <2>4. CASE u # v
    <3>1. collaterals'[u] = collaterals[u]
      BY <1>1, <2>1, <2>4
    <3> QED
      BY <1>1, <1>2, <2>2, <3>1, StaysHealthy, SMT
  <2> QED
    BY <2>3, <2>4
<1>9. ASSUME NEW v \in Users, NEW a \in Lots, NEW paid \in Amounts,
             NEW t \in TargetRates, liquidate_collateral(v, a, paid, t)
      PROVE  Healthy(u)'
  <2>1. /\ query_borrow_limit(v) < loan_amount(v, t) /\ CanComputeInterest(bank, t)
        /\ collaterals' = [collaterals EXCEPT ![v] = @ - a]
    BY <1>9 DEF liquidate_collateral
  <2>2. loan_amount(v, t) = due(v)
    BY <1>1, <2>1, InputTypes, AnswerIsDue DEF loan_amount, query_borrower_info
  <2>3. u # v
    BY <1>2, <1>3, <2>1, <2>2, SMT
  <2>4. LoanStep(v)
    BY <1>1, <1>9, LiquidationSteps
  <2>5. due(u)' \in Nat /\ due(u)' <= due(u)
    BY <1>1, <1>4, <2>3, <2>4, DueKept DEF LoanStep
  <2>6. collaterals'[u] = collaterals[u]
    BY <1>1, <2>1, <2>3
  <2> QED
    BY <1>1, <2>5, <2>6, StaysHealthy, SMT
<1>10. CASE MarketCall
  <2>1. /\ UNCHANGED <<borrower_info, collaterals>>
        /\ index_due' \in Nat /\ index_due' <= index_due
    BY <1>1, <1>10, MarketCallSteps
  <2>2. due(u)' \in Nat /\ due(u)' <= due(u)
    BY <1>1, <2>1, DueKept
  <2> QED
    BY <1>1, <2>1, <2>2, StaysHealthy, SMT
<1>11. CASE PriceMoves \/ \E l \in MaxLtvs : update_whitelist(l)
  <2>1. UNCHANGED <<mvars, collaterals>>
    BY <1>11 DEF PriceMoves, update_whitelist
  <2>2. due(u)' = due(u)
    BY <1>1, <2>1, MarketUntouched
  <2> QED
    BY <1>1, <1>2, <2>1, <2>2, StaysHealthy, SMT
<1> QED
  BY <1>5, <1>6, <1>7, <1>8, <1>9, <1>10, <1>11, BorrowingSteps

\* Only time, a falling price, the overseer's owner lowering max_ltv and the
\* interest model's own owner make a loan liquidatable: no other call does, as
\* long as the market has a rate.
THEOREM SafeFromCalls == BorrowingSpec => OnlyTimePricesAndOwners
<1> DEFINE Kept == /\ height' = height /\ price' >= price /\ max_ltv' >= max_ltv
                   /\ interest_config' = interest_config /\ state.prev_exchange_rate > 0
                   => \A u \in Users : Healthy(u) => Healthy(u)'
<1>1. BInv /\ [BorrowingNext]_bvars => [Kept]_bvars
  BY HealthKept
<1> QED
  BY <1>1, BorrowingInvariance, PTL DEF BorrowingSpec, OnlyTimePricesAndOwners

\* A step that makes an unsecured loan of one that was not is a liquidation's.
LEMMA SecuredKept ==
  ASSUME BInv, [BorrowingNext]_bvars, NEW u \in Users, Unsecured(u)', ~Unsecured(u)
  PROVE  u \in liquidated' \/ borrower_info[u].loan_amount = 1
<1>1. /\ IInv /\ IInv' /\ collaterals \in [Users -> Nat]
      /\ collaterals[u] \in Nat /\ price \in Nat
  BY Preserved DEF BInv
<1>2. /\ borrower_info[u] \in BorrowerInfo /\ borrower_info[u].loan_amount \in Nat
      /\ borrower_info'[u].loan_amount \in Nat
      /\ One <= borrower_info[u].interest_index
      /\ borrower_info[u].interest_index <= state.global_interest_index
  BY <1>1 DEF IInv, TypeOK, BorrowerInfo, IndexesOrdered
<1>3. borrower_info'[u].loan_amount > 1 /\ collaterals'[u] = 0
  BY DEF Unsecured
<1>4. ~(borrower_info'[u] = borrower_info[u] /\ collaterals[u] = 0)
  BY <1>3 DEF Unsecured
<1>5. index_due \in Nat /\ index_due <= index_due /\ borrower_info[u].interest_index <= index_due
  <2>1. index_due \in Nat /\ state.global_interest_index <= index_due
    BY <1>1, IndexDueGood
  <2>2. state.global_interest_index \in Nat /\ borrower_info[u].interest_index \in Nat
    BY <1>1, <1>2 DEF IInv, TypeOK, MarketState, BorrowerInfo
  <2> QED
    BY <1>2, <2>1, <2>2, SMT
<1>6. /\ due(u) \in Nat /\ borrower_info[u].loan_amount - 1 <= due(u)
      /\ borrower_info[u].loan_amount = 0 => due(u) = 0
  BY <1>1, <1>2, <1>5, DueAtIndex, LoanAtIndex
<1>7. compute_borrow_limit(0) = 0
  <2>1. 0 \in Nat
    OBVIOUS
  <2> QED
    BY <2>1, LimitNat
<1>8. CASE UNCHANGED <<borrower_info, collaterals>>
  BY <1>3, <1>4, <1>8
<1>9. ASSUME NEW v \in Users, NEW a \in Amounts \cup {0}, NEW t \in TargetRates,
             \/ a \in Amounts /\ borrow_stable(v, a, query_borrow_limit(v), t)
             \/ settle_repayment(v, a, t)
             \/ claim_rewards(v, t),
             UNCHANGED <<collaterals, price, max_ltv>>
      PROVE  borrower_info[u].loan_amount = 1
  <2>1. a \in Nat
    BY InputTypes
  <2>2. /\ LoanStep(v)
        /\ \/ /\ borrower_info'[v].loan_amount = due(v) + a
              /\ due(v) + a <= query_borrow_limit(v)
           \/ borrower_info'[v].loan_amount <= due(v)
    BY <1>1, <1>9, <2>1, LoanCallSteps
  <2>3. u = v /\ collaterals[u] = 0
    BY <1>3, <1>4, <1>9, <2>2 DEF LoanStep
  <2>4. query_borrow_limit(u) = 0
    BY <1>7, <2>3 DEF query_borrow_limit
  <2>5. borrower_info'[u].loan_amount <= due(u)
    BY <1>2, <1>3, <2>2, <2>3, <2>4, SMT
  <2>6. borrower_info[u].loan_amount # 0
    BY <1>2, <1>3, <1>6, <2>5, SMT
  <2>7. borrower_info[u].loan_amount <= 1
    BY <1>2, <2>3, SMT DEF Unsecured
  <2> QED
    BY <1>2, <2>6, <2>7, SMT
<1>10. ASSUME NEW v \in Users, NEW a \in Lots, lock_collateral(v, a) PROVE FALSE
  <2>1. UNCHANGED mvars /\ collaterals' = [collaterals EXCEPT ![v] = @ + a]
        /\ a \in Nat
    BY <1>10, BorrowingAssumption DEF lock_collateral
  <2>2. collaterals[u] = 0
    BY <1>1, <1>3, <2>1, SMT
  <2> QED
    BY <1>1, <1>4, <2>1, <2>2, MarketUntouched
<1>11. ASSUME NEW v \in Users, NEW a \in Lots, NEW t \in TargetRates,
              unlock_collateral(v, a, t)
       PROVE  FALSE
  <2>1. /\ UNCHANGED mvars /\ collaterals' = [collaterals EXCEPT ![v] = @ - a]
        /\ may_unlock(v, collaterals[v] - a, t) /\ CanComputeInterest(bank, t)
    BY <1>11 DEF unlock_collateral
  <2>2. borrower_info'[u] = borrower_info[u]
    BY <1>1, <2>1, MarketUntouched
  <2>3. u = v
    BY <1>1, <1>3, <1>4, <2>1, <2>2
  <2>4. compute_borrow_limit(collaterals'[u]) >= due(u)
    BY <1>1, <2>1, <2>3, InputTypes, AnswerIsDue
       DEF may_unlock, loan_amount, query_borrower_info
  <2> QED
    BY <1>2, <1>3, <1>6, <1>7, <2>2, <2>4, SMT
<1>12. ASSUME NEW v \in Users, NEW a \in Lots, NEW paid \in Amounts,
              NEW t \in TargetRates, liquidate_collateral(v, a, paid, t)
       PROVE  u \in liquidated'
  <2>1. /\ collaterals' = [collaterals EXCEPT ![v] = @ - a]
        /\ liquidated' = IF borrower_info'[v].loan_amount = 0 THEN liquidated \ {v}
                         ELSE liquidated \cup {v}
    BY <1>12 DEF liquidate_collateral
  <2>2. LoanStep(v)
    BY <1>1, <1>12, LiquidationSteps
  <2>3. u = v
    BY <1>1, <1>3, <1>4, <2>1, <2>2 DEF LoanStep
  <2>4. borrower_info'[v].loan_amount # 0
    BY <1>2, <1>3, <2>3, SMT
  <2> QED
    BY <2>1, <2>3, <2>4
<1>13. MarketCall => UNCHANGED <<borrower_info, collaterals>>
  BY <1>1, MarketCallSteps
<1>14. PriceMoves \/ UNCHANGED bvars \/ (\E l \in MaxLtvs : update_whitelist(l))
         => UNCHANGED <<borrower_info, collaterals>>
  BY DEF PriceMoves, update_whitelist, bvars, mvars
<1> QED
  BY <1>8, <1>9, <1>10, <1>11, <1>12, <1>13, <1>14, BorrowingSteps

\* Whatever the order of loans, unlocking and liquidations, a loan is left with
\* no collateral by a liquidation alone, or grew from one unit.
THEOREM LoansStaySecured == BorrowingSpec => UnsecuredOnlyByLiquidation
<1> DEFINE Kept == \A u \in Users :
                     Unsecured(u)' /\ ~Unsecured(u)
                     => u \in liquidated' \/ borrower_info[u].loan_amount = 1
<1>1. BInv /\ [BorrowingNext]_bvars => [Kept]_bvars
  BY SecuredKept
<1> QED
  BY <1>1, BorrowingInvariance, PTL DEF BorrowingSpec, UnsecuredOnlyByLiquidation

-----------------------------------------------------------------------------
(***************************************************************************)
(* Leaving: the debt covered, and interest computable                      *)
(***************************************************************************)
\* Nobody owes anything before the contracts are registered.
OnlyRegisteredLends == \A u \in Users : borrower_info[u].loan_amount > 0 => config.registered

LInv == BInv /\ CoveredBy(state) /\ OnlyRegisteredLends

LEMMA LInvFacts ==
    ASSUME LInv
    PROVE  /\ DInv /\ IInv /\ BInv
           /\ \A u \in Users : borrower_info[u].loan_amount \in Nat
BY DEF LInv, BInv, DInv, IInv, TypeOK, BorrowerInfo

\* A call that concerns one borrower: a loan, a repayment or a claim.
LEMMA LoanCallLeaves ==
    ASSUME LInv, NEW u \in Users, NEW a \in Nat, NEW l, NEW t \in TargetRates,
           \/ a \in Amounts /\ borrow_stable(u, a, l, t)
           \/ settle_repayment(u, a, t)
           \/ claim_rewards(u, t)
    PROVE  CoveredBy(state)' /\ OnlyRegisteredLends'
<1>1. DInv /\ IInv /\ t \in Nat
  BY LInvFacts, InputTypes
<1>2. LoanStep(u) /\ IInv'
  BY <1>1, LoanCallSteps DEF LoanStep
<1>3. CoveredBy(state)'
  BY <1>1, <1>2, LendingCovers, RepaymentCovers, ClaimingCovers
<1>4. config' = config
  BY DEF borrow_stable, settle_repayment, claim_rewards
<1>5. ASSUME NEW v \in Users, borrower_info'[v].loan_amount > 0
      PROVE  config'.registered
  <2>1. CASE config.registered
    BY <1>4, <2>1
  <2>2. CASE ~config.registered
    <3>1. borrower_info[v].loan_amount = 0
      <4>1. borrower_info[v].loan_amount \in Nat /\ ~(borrower_info[v].loan_amount > 0)
        BY <2>2, LInvFacts DEF LInv, OnlyRegisteredLends
      <4> QED
        BY <4>1
    <3>2. CASE v # u
      <4>1. borrower_info'[v] = borrower_info[v]
        BY <1>2, <3>2 DEF LoanStep
      <4> QED
        BY <1>5, <3>1, <4>1
    <3>3. CASE v = u
      <4>1. ~borrow_stable(u, a, l, t)
        BY <2>2 DEF borrow_stable
      <4>2. settle_repayment(u, a, t) \/ claim_rewards(u, t)
        BY <4>1
      <4>3. /\ borrower_info[u] \in BorrowerInfo /\ One <= borrower_info[u].interest_index
            /\ index_due \in Nat
        BY <1>1, IndexDueGood DEF IInv, TypeOK, IndexesOrdered
      <4>4. at_index(borrower_info[u], index_due) = 0
        BY <3>1, <3>3, <4>3, LoanAtIndex
      <4>5. due(u) = 0
        BY <1>1, <4>4, DueAtIndex
      <4>6. borrower_info'[u].loan_amount <= due(u)
        BY <1>1, <4>2, RepaidAtMostDue
      <4> QED
        BY <1>2, <1>5, <3>3, <4>5, <4>6 DEF IInv, TypeOK, BorrowerInfo
    <3> QED
      BY <3>2, <3>3
  <2> QED
    BY <2>1, <2>2
<1> QED
  BY <1>3, <1>5 DEF OnlyRegisteredLends

\* A call of the market that concerns no borrower.
LEMMA MarketCallLeaves ==
    ASSUME LInv, MarketCall \/ UNCHANGED mvars
    PROVE  CoveredBy(state)' /\ OnlyRegisteredLends'
<1>1. CoveredBy(state)'
  BY LInvFacts, DepositorCovers, EpochCovers, RestCovers DEF MarketCall
<1>2. UNCHANGED borrower_info
  BY DEF MarketCall, Deposit, deposit_stable, Redeem, redeem_stable,
         EpochOperations, execute_epoch_operations, register_contracts,
         UpdateConfig, update_config, UpdateInterestModel, update_interest_model,
         UpdateDistributionModel, update_distribution_model, NextBlock, Donation,
         Donate, HolderBurn, holder_burn, mvars
<1>3. config.registered => config'.registered
  <2>1. config \in MarketConfig
    BY LInvFacts DEF IInv, TypeOK
  <2>2. CASE register_contracts
    BY <2>1, <2>2 DEF register_contracts, MarketConfig
  <2>3. CASE UpdateConfig
    <3>1. PICK s \in Users, o \in Users, m \in InterestModels \cup {None},
             d \in DistributionModels, f \in BorrowFactors, t \in TargetRates :
               update_config(s, o, m, d, f, t)
      BY <2>3 DEF UpdateConfig
    <3> DEFINE model == IF m = None THEN config.interest_model ELSE m
               owned == [config EXCEPT !.owner_addr = o]
               capped == [owned EXCEPT !.max_borrow_factor = f]
               modelled == [capped EXCEPT !.interest_model = model]
    <3>2. config' = [modelled EXCEPT !.distribution_model = d]
      BY <3>1 DEF update_config
    <3> HIDE DEF model
    <3>3. owned.registered = config.registered /\ DOMAIN owned = DOMAIN config
      BY <2>1 DEF MarketConfig
    <3> HIDE DEF owned
    <3>4. capped.registered = owned.registered /\ DOMAIN capped = DOMAIN config
      BY <2>1, <3>3 DEF MarketConfig
    <3> HIDE DEF capped
    <3>5. modelled.registered = capped.registered /\ DOMAIN modelled = DOMAIN config
      BY <2>1, <3>4 DEF MarketConfig
    <3> HIDE DEF modelled
    <3>6. config'.registered = modelled.registered
      BY <2>1, <3>2, <3>5 DEF MarketConfig
    <3> QED
      BY <3>3, <3>4, <3>5, <3>6
  <2>4. CASE ~register_contracts /\ ~UpdateConfig
    <3>1. config' = config
      BY <2>4 DEF MarketCall, Deposit, deposit_stable, Redeem, redeem_stable,
         EpochOperations, execute_epoch_operations, UpdateInterestModel,
         update_interest_model, UpdateDistributionModel, update_distribution_model,
         NextBlock, Donation, Donate, HolderBurn, holder_burn, mvars
    <3> QED
      BY <3>1
  <2> QED
    BY <2>2, <2>3, <2>4
<1> QED
  BY <1>1, <1>2, <1>3 DEF LInv, OnlyRegisteredLends

LEMMA LeavingKept == ASSUME LInv, [BorrowingNext]_bvars PROVE LInv'
<1>1. BInv'
  BY LInvFacts, Preserved
<1>2. CoveredBy(state)' /\ OnlyRegisteredLends'
  <2>1. CASE UNCHANGED mvars \/ MarketCall
    BY <2>1, MarketCallLeaves
  <2>2. ASSUME NEW u \in Users, NEW a \in Amounts \cup {0}, NEW t \in TargetRates,
               \/ a \in Amounts /\ borrow_stable(u, a, query_borrow_limit(u), t)
               \/ settle_repayment(u, a, t)
               \/ claim_rewards(u, t)
        PROVE  CoveredBy(state)' /\ OnlyRegisteredLends'
    <3>1. a \in Nat
      BY InputTypes
    <3> QED
      BY <2>2, <3>1, LoanCallLeaves
  <2>3. ASSUME NEW u \in Users, NEW a \in Lots, NEW paid \in Amounts,
               NEW t \in TargetRates, liquidate_collateral(u, a, paid, t)
        PROVE  CoveredBy(state)' /\ OnlyRegisteredLends'
    <3>1. paid \in Nat /\ bank \in Nat /\ (bank + paid) - bank = paid
      BY LInvFacts, InputTypes, BeforeGood
    <3>2. settle_repayment(u, paid, t)
      BY <2>3, <3>1 DEF liquidate_collateral, repay_stable_from_liquidation
    <3> QED
      BY <3>1, <3>2, LoanCallLeaves
  <2>4. \/ UNCHANGED mvars \/ MarketCall
        \/ \E u \in Users, a \in Amounts \cup {0}, t \in TargetRates :
             \/ a \in Amounts /\ borrow_stable(u, a, query_borrow_limit(u), t)
             \/ settle_repayment(u, a, t)
             \/ claim_rewards(u, t)
        \/ \E u \in Users, a \in Lots, paid \in Amounts, t \in TargetRates :
             liquidate_collateral(u, a, paid, t)
    <3>1. CASE BorrowingNext
      BY <3>1, LInvFacts, BorrowingSteps DEF lock_collateral, unlock_collateral, update_whitelist, PriceMoves
    <3>2. CASE UNCHANGED bvars
      BY <3>2 DEF bvars
    <3> QED
      BY <3>1, <3>2
  <2> QED
    BY <2>1, <2>2, <2>3, <2>4
<1> QED
  BY <1>1, <1>2 DEF LInv

LEMMA LeavingInvariance == BorrowingSpec => []LInv
<1>1. BorrowingInit => LInv
  <2> SUFFICES ASSUME BorrowingInit PROVE LInv
    OBVIOUS
  <2>1. Init /\ DInv
    BY InitCovers DEF BorrowingInit
  <2>2. BInv
    BY <2>1, BorrowingAssumption DEF DInv, BorrowingInit, BInv
  <2>3. \A u \in Users : borrower_info[u].loan_amount = 0
    BY <2>1 DEF Init
  <2> QED
    BY <2>1, <2>2, <2>3 DEF LInv, DInv, OnlyRegisteredLends
<1>2. LInv /\ [BorrowingNext]_bvars => LInv'
  BY LeavingKept
<1> QED
  BY <1>1, <1>2, PTL DEF BorrowingSpec

\* The market's total, with interest up to this block, is not below what any one
\* borrower owes at this block but for the loss of the charges so far.
LEMMA LeavingCovered ==
    ASSUME LInv, NEW u \in Users, NEW t \in Nat, CanComputeInterest(bank, t)
    PROVE  Scale * (FromUint(due(u)) - compute_interest(bank, t).total_liabilities)
             <= height * index_due
<1> DEFINE r == compute_interest(bank, t)
           G == index_due
           total == r.total_liabilities
           o == [v \in Users |-> due(v)]
<1>1. IInv /\ DInv
  BY LInvFacts
<1>2. /\ r \in MarketState /\ r.global_interest_index = G /\ r.last_interest_updated = height
      /\ CoveredBy(r) /\ height \in Nat
  BY <1>1, AccruedIndex, InterestCovers, BeforeGood
<1>3. G \in Nat /\ total \in Nat
  BY <1>1, <1>2, IndexDueGood DEF MarketState
<1>4. Covers(loans, indexes, G, total, height)
  BY <1>2 DEF CoveredBy
<1>5. /\ loans \in [Users -> Nat] /\ indexes \in [Users -> Nat]
      /\ \A v \in Users : indexes[v] > 0
      /\ borrower_info \in [Users -> BorrowerInfo]
  BY <1>1, LoansTyped
<1> HIDE DEF r, G, total
<1>6. ASSUME NEW v \in Users
      PROVE  o[v] \in Nat /\ o[v] * indexes[v] <= loans[v] * G
  <2> DEFINE l == borrower_info[v].loan_amount
             i == borrower_info[v].interest_index
             m == UintMulDec(l, G)
             d == UintDivDec(m, i)
  <2>1. l \in Nat /\ i \in Nat /\ i > 0 /\ loans[v] = l /\ indexes[v] = i
    BY <1>5 DEF loans, indexes, BorrowerInfo
  <2>2. o[v] = d
    BY <1>1, DueAtIndex DEF at_index, G
  <2> HIDE DEF o, l, i
  <2>3. m \in Nat /\ m * Scale <= l * G
    BY <1>3, <2>1, UintMulDecBound
  <2> HIDE DEF m
  <2>4. d \in Nat /\ d * i <= m * Scale
    BY <2>1, <2>3, UintDivDecBound
  <2> HIDE DEF d
  <2>5. d * i <= l * G
    <3>1. d * i \in Int /\ m * Scale \in Int /\ l * G \in Int
      BY <1>3, <2>1, <2>3, <2>4, ScaleAssumption
    <3> QED
      BY <2>3, <2>4, <3>1
  <2> QED
    BY <2>1, <2>2, <2>4, <2>5
<1>7. o \in [Users -> Nat] /\ o[u] = due(u)
  BY <1>6
<1> HIDE DEF o
<1> DEFINE D == SumFunctionOnSet(o, Users)
<1>8. D \in Nat /\ Scale * (FromUint(D) - total) <= height * G
  BY <1>2, <1>3, <1>4, <1>5, <1>6, <1>7, CoversDebts
<1>9. o[u] <= D /\ o[u] \in Nat
  BY <1>6, UsersFinite, SumMember
<1> HIDE DEF D
<1>10. Scale * (FromUint(o[u]) - total) <= Scale * (FromUint(D) - total)
  <2> DEFINE x == o[u]
             S == Scale
  <2>1. S \in Nat /\ x \in Nat /\ x <= D
    BY <1>9, ScaleAssumption
  <2> HIDE DEF S, x
  <2>2. x * S <= D * S
    BY <1>8, <2>1, MulMono
  <2>3. x * S - total \in Int /\ D * S - total \in Int /\ x * S - total <= D * S - total
    BY <1>3, <1>8, <2>1, <2>2
  <2>4. (x * S - total) * S <= (D * S - total) * S
    BY <2>1, <2>3, MulMono
  <2>5. /\ (x * S - total) * S = S * (x * S - total)
        /\ (D * S - total) * S = S * (D * S - total)
    BY <2>1, <2>3
  <2> QED
    BY <2>4, <2>5 DEF FromUint, x, S
<1>11. /\ Scale * (FromUint(o[u]) - total) \in Int /\ Scale * (FromUint(D) - total) \in Int
       /\ height * G \in Int
  BY <1>2, <1>3, <1>8, <1>9, ScaleAssumption DEF FromUint
<1>12. Scale * (FromUint(o[u]) - total) <= height * G
  BY <1>8, <1>10, <1>11
<1> QED
  BY <1>7, <1>12 DEF total, r, G

\* For any prices, loan-to-value ratios and number of borrowers, unless holders
\* burn aTerra: a borrower's handlers never lack the interest they compute first,
\* and what the borrower owes can be repaid but for the loss of the charges of
\* interest so far.
THEOREM AlwaysFreeToLeave == BorrowingSpec => []CanAlwaysLeave
<1>1. ASSUME LInv PROVE CanAlwaysLeave
  <2> SUFFICES ASSUME Undisturbed, NEW u \in Users, borrower_info[u].loan_amount > 0,
                      NEW t \in TargetRates
               PROVE  /\ CanComputeInterest(bank, t)
                      /\ Scale * (FromUint(due(u)) - compute_interest(bank, t).total_liabilities)
                           <= height * index_due
    BY DEF CanAlwaysLeave
  <2>1. t \in Nat /\ IInv /\ height \in Nat
    BY <1>1, InputTypes, LInvFacts, BeforeGood
  <2>2. CanComputeInterest(bank, t)
    <3>1. height \in height .. height + 2
      BY <2>1
    <3>2. interest_computable(state, height, bank, aterra_supply,
                              borrow_rate(state, bank), t)
      BY <2>1, <3>1, NeverStuck DEF InterestNeverStuck
    <3>3. config.registered
      BY <1>1 DEF LInv, OnlyRegisteredLends
    <3> QED
      BY <3>2, <3>3 DEF CanComputeInterest
  <2> QED
    BY <1>1, <2>1, <2>2, LeavingCovered
<1> QED
  BY <1>1, LeavingInvariance, PTL
=============================================================================
